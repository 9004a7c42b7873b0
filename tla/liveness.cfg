CONSTANTS
  l1 = l1
  l2 = l2
  c1 = c1
  Labels <- MCLabels
  Descs <- MCLivenessDescs
  MaxLoads = 1
  FAILED_EXITS_THRESHOLD = 2
  ForkMayFail = FALSE
  MaxProcRegFails = 0
  Clients = {}
SPECIFICATION Spec
CHECK_DEADLOCK FALSE
PROPERTY DemandStartsJob
PROPERTY KeepAliveRestarted
