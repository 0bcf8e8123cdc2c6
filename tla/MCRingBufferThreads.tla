------------------------ MODULE MCRingBufferThreads ------------------------
(***************************************************************************)
(* Every position of the worker and of the audio thread in rings of a few  *)
(* slots, several laps of either position apart.                           *)
(***************************************************************************)
EXTENDS RingBufferThreads
=============================================================================
