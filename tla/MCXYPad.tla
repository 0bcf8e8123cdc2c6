------------------------------ MODULE MCXYPad ------------------------------
(***************************************************************************)
(* Both knobs, two touches, and a timer short enough to start, stop and    *)
(* start again before it hides anything.                                   *)
(***************************************************************************)
EXTENDS XYPad
=============================================================================
