CONSTANTS
  IPs = {ip1, ip2}
  Sentinels = {s1}
  Reconcilers = {r1}
  MsgIds = {m1, m2}
  Capacity = 1
  NoMsg = NoMsg
  Unlocked = Unlocked
  MaxRestarts = 1
SPECIFICATION FairSpec
INVARIANTS TypeOK NoOrphanKey ChannelHoldsQueued LockDiscipline OneListenerPerSentinel
PROPERTIES MessageSettles IpReportableAgain AddReturns
