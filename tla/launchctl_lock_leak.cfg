CONSTANTS
  p1 = p1
  p2 = p2
  NoProc = NoProc
  f1 = f1
  f2 = f2
  la = la
  lb = lb
  Procs = {p1}
  Files = {f1, f2}
  LabelOf <- MCLabelOf
  FileDisabled <- MCFileDisabled
  BonjourFiles = {f2}
  DubiousFiles = {f2}
  ExcludedFiles = {}
  MaxCmds <- MCSessionCmds
  OpenMayFail = {}
SPECIFICATION Spec
CHECK_DEADLOCK FALSE
INVARIANT LockReleasedWhenIdle
