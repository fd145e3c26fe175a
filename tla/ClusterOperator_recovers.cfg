CONSTANTS
  NumShards = 1
  Replicas = 2
  FaultKinds = {"evict"}
  MaxPodFaults = 1
  MaxFaults = 0
  MaxRetries = 0
SPECIFICATION FairSpec
PROPERTIES RecoversFromPodLoss
CHECK_DEADLOCK FALSE
