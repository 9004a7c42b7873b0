CONSTANTS
  p1 = p1
  p2 = p2
  cpu = cpu
  maxfiles = maxfiles
  Procs = {p1, p2}
  Res = {cpu, maxfiles}
  MaxFiles = maxfiles
  Inf = 2
  Privileged = FALSE
  NULL = NULL
SPECIFICATION Spec
PROPERTY OnlyNamedLimitChanges
CHECK_DEADLOCK FALSE
