--------------------------- MODULE MCSignalPath ---------------------------
(***************************************************************************)
(* Blocks of up to two samples, so that a block can be short.  A network   *)
(* collects for two blocks and the make-up gain warms up for three, as a   *)
(* second of audio outlasts the collecting; after a load it is the other   *)
(* way round.                                                              *)
(***************************************************************************)
EXTENDS SignalPath
=============================================================================
