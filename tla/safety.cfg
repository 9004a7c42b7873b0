CONSTANTS
  l1 = l1
  l2 = l2
  c1 = c1
  Labels <- MCLabels
  Descs <- MCDescs
  MaxLoads = 1
  FAILED_EXITS_THRESHOLD = 2
  ForkMayFail = TRUE
  MaxProcRegFails = 1
  Clients = {c1}
SPECIFICATION Spec
CHECK_DEADLOCK FALSE
INVARIANT TypeOK
INVARIANT NoEventForRemovedJob
INVARIANT AsyncFollowsBatch
