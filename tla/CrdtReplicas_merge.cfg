SPECIFICATION ReplicasSpec
CONSTANTS
  Replicas <- MCReplicas
  Instances <- MCInstances
INVARIANT MergesAgree
INVARIANT NothingDropped
INVARIANT EditsShow
INVARIANT NoOwnCycle
INVARIANT CompactionKeepsContent
CHECK_DEADLOCK FALSE
