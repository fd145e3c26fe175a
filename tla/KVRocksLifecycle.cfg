SPECIFICATION FairSpec
CONSTANTS
  sentinel = sentinel
  standard = standard
  cluster = cluster
  Sentinel = sentinel
  Instances <- MCInstances
  Type <- MCType
  Specs <- MCSpecs
  Populations <- MCPopulations
  Replicas = 3
INVARIANT TypeOK
PROPERTIES MonitorsClearedFirst MonitorsFollow EveryInstanceSettles 
CHECK_DEADLOCK FALSE
