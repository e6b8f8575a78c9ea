SPECIFICATION Spec
CONSTANTS
  root = root  coll = coll
  r0 = r0  r1 = r1  R1 = R1  k1 = k1  k2 = k2  K1 = K1
  Doc <- MCDoc
  Mine <- MCMine
  Others <- MCOthers
  Common <- MCCommon
  Wrong <- MCWrong
  MaxRounds = 20
  MaxStall = 3
  MaxPasses = 2
  MaxFaults = 2
INVARIANT SuccessMeansPulled
INVARIANT NeverCutShort
PROPERTY ImplementsExchange
