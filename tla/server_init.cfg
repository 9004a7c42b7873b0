CONSTANTS
  i1 = i1
  i2 = i2
  i3 = i3
  NoInst = NoInst
  Insts = {i1, i2, i3}
  MaxDirs = 3
SYMMETRY InstSymmetry
SPECIFICATION Spec
CHECK_DEADLOCK FALSE
INVARIANT ServesOnCurrentDirAlone
