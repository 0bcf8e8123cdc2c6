-------------------------- MODULE MCNetworkStream --------------------------
(***************************************************************************)
(* NetworkStream with block sizes that divide the model input, as powers   *)
(* of two do, and with block sizes that do not.                            *)
(***************************************************************************)
EXTENDS NetworkStream

MCDividing  == {1, 2, 4}
MCShort     == {1, 2}
MCAnyBlocks == 1 .. 4
=============================================================================
