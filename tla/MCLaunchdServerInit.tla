------------------------ MODULE MCLaunchdServerInit ------------------------
(* launchd processes of one uid as model values; they are interchangeable. *)
EXTENDS LaunchdServerInit, TLC

CONSTANTS i1, i2, i3

InstSymmetry == Permutations(Insts)
================================================================================
