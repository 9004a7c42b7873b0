CONSTANTS
  k1 = k1
  k2 = k2
  Kids = {k1, k2}
  NoKid = NoKid
  Lines = 1
SPECIFICATION Spec
PROPERTY WaitpidReturnsEventually
CHECK_DEADLOCK FALSE
