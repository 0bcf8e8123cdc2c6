---------------------------- MODULE MCRingBuffer ----------------------------
(***************************************************************************)
(* RingBuffer with two clean sample values besides 0.0 and rings of one to *)
(* four slots: both positions wrap, the ring overruns, and a re-created    *)
(* ring changes its size in both directions.                               *)
(***************************************************************************)
EXTENDS RingBuffer

CONSTANTS a, b

MCSample == {Zero, NaN, a, b}
MCCapacities == {1, 3, 4}
=============================================================================
