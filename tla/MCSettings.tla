----------------------------- MODULE MCSettings -----------------------------
(***************************************************************************)
(* One network, since networks share nothing but the sample rate; the      *)
(* shaper and the knob of the second one, above and below the middle.      *)
(***************************************************************************)
EXTENDS Settings

MCShapes == [n \in Networks |-> 2]
MCCutoffs == [n \in Networks |-> 0]
=============================================================================
