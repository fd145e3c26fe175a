CONSTANTS
  NumShards = 1
  Replicas = 2
  FaultKinds = {"crash", "evict", "kill", "lost"}
  MaxPodFaults = 1
  MaxFaults = 1
  MaxRetries = 1
SPECIFICATION Spec
INVARIANTS TypeOK PublishedIsNotCreating NoExtraDeletion
PROPERTIES PublishesInOrder FailedIsFinal MarkNotLost
CHECK_DEADLOCK FALSE
