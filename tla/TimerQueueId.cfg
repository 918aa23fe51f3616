SPECIFICATION Spec
CONSTANTS
  a1 = a1
  a2 = a2
  t1 = t1
  Addrs <- TwoAddrs
  Threads <- OneThread
  Delays = {0}
  Intervals = {0}
  Skews <- NoSkew
  MaxTimers = 2
  MaxTime = 2
  MaxQueue = 1
INVARIANT TimerIdIsRight
