-------------------------- MODULE MCModelSelection --------------------------
(***************************************************************************)
(* ModelSelection with the two networks of the plugin and two files, which *)
(* are interchangeable.                                                    *)
(***************************************************************************)
EXTENDS ModelSelection, TLC

CONSTANTS File1, File2

MCFiles == {File1, File2}

Interchangeable == Permutations(MCFiles)
=============================================================================
