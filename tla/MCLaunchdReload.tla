---------------------------- MODULE MCLaunchdReload ----------------------------
EXTENDS LaunchdReload, TLC

CONSTANTS k1, k2

KidSymmetry == Permutations(Kids)

================================================================================
