SPECIFICATION Spec
CONSTANTS
  k = k  m = m
  k1 = k1  k2 = k2  m1 = m1  K1 = K1  K2 = K2  M1 = M1
  Doc = {k, m}
  LocalChange = {k1, k2}
  RemoteChange = {K1, K2, M1}
  ServerStart = {K1, M1}
  MaxFaults = 2
  MaxWipes = 1
  Rank <- MCRank
  DocOf <- MCDocOf
  Links <- MCLinks
  Unlinks <- MCUnlinks
  Tombs = {K2}
PROPERTY SyncedRowsOnlyGrow
PROPERTY StashDroppedOnlyWhenReplayed
INVARIANT GuardedChangesSurvive
PROPERTY ImplementsDurableChanges
