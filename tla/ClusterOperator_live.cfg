CONSTANTS
  NumShards = 2
  Replicas = 2
  FaultKinds = {"kill"}
  MaxPodFaults = 0
  MaxFaults = 3
  MaxRetries = 0
SPECIFICATION FairSpec
PROPERTIES Recovers
CHECK_DEADLOCK FALSE
