SPECIFICATION FairSpec
CONSTANTS
  NumShards = 3
  Placements <- MCPlacements
  Passwords = {1, 2}
  Configs = {1, 2}
  Plans <- MCPlans
  MaxEdits = 2
  Scenarios = {{"kill"}, {"outage"}, {"restart"}, {"lost"}, {"stale"}}
INVARIANTS TypeOK OnlyDownNodesReported  ShortestRanges
 
CHECK_DEADLOCK FALSE
