SPECIFICATION FairSpec
CONSTANTS
  x = x  z = z  s = s  t = t
  Entity = {x, z}
  Present = {x}
  NotWiped = {}
  InThings = {x, z}
  Caller = {s, t}
  MaxCalls = 2
  MaxFaults = 1
  MaxCrashes = 1
INVARIANT SearchSeesBegunWork
PROPERTY WaitingSeesAll
INVARIANT SettledIndexMatches
PROPERTY CallsReturn
CHECK_DEADLOCK FALSE
