--------------------------- MODULE MCMakeUpGain ---------------------------
(***************************************************************************)
(* Two gains to choose from and two ratios, to tell an old one from a new  *)
(* one, and rings of a few blocks.                                         *)
(***************************************************************************)
EXTENDS MakeUpGain

MCRatios == {"r1", "r2"}
MCGains == {"3 dB", "6 dB"}
=============================================================================
