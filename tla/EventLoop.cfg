SPECIFICATION PromptSpec
CONSTANTS
  f1 = f1
  f2 = f2
  f3 = f3
  t1 = t1
  t2 = t2
  c1 = c1
  NoTask = NoTask
  Loop = Loop
  Wakeup = Wakeup
  Tasks <- ThreeTasks
  Threads <- TwoThreads
  Channels <- OneChannel
  EventFdMax = 2
INVARIANT NoLostWakeup
PROPERTIES ImplementsTaskQueue QueuedRuns EventsHandled
