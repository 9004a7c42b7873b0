---------------------------- MODULE MCLaunchctlLimit ----------------------------
EXTENDS LaunchctlLimit, TLC

CONSTANTS p1, p2, cpu, maxfiles

ProcSymmetry == Permutations(Procs)

================================================================================
