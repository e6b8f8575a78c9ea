SPECIFICATION ReplicasSpec
CONSTANTS
  Replicas <- MCReplicas
  Instances <- SmallInstances
INVARIANT CompactionKeepsView
CHECK_DEADLOCK FALSE
