SPECIFICATION FairSpec
CONSTANTS
  a1 = a1
  a2 = a2
  t1 = t1
  Addrs <- TwoAddrs
  Threads <- OneThread
  Delays = {1}
  Intervals = {0, 1}
  Skews <- ZeroOrOne
  MaxTimers = 2
  MaxTime = 3
  MaxQueue = 1
INVARIANTS SetsAgree TimerfdArmed CancelHolds
PROPERTIES TimersFire ImplementsTimerService
