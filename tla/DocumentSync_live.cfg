SPECIFICATION FairSpec
CONSTANTS
  k = k  m = m
  k1 = k1  k2 = k2  m1 = m1  K1 = K1  K2 = K2  M1 = M1
  Doc = {k, m}
  LocalChange = {k1, k2}
  RemoteChange = {K1, K2, M1}
  ServerStart = {}
  MaxFaults = 1
  MaxWipes = 0
  Rank <- MCRank
  DocOf <- MCDocOf
  Links <- MCLateLinks
  Unlinks = {}
  Tombs = {}
PROPERTY GuardedChangesReachServer
PROPERTY ServerChangesReachDevice
