SPECIFICATION Spec
CONSTANTS
  c1 = c1
  c2 = c2
  Clients = {c1, c2}
  MaxThreads = 2
  FreeAtStart = 1
  Users <- OneTeacher
  TokenTtl = 1
  TicketTtl = 1
  MaxTime = 1
  Scripts <- SomeScripts
  Keys = {"a", "b"}
CHECK_DEADLOCK FALSE
INVARIANTS TypeOK LoopsReady AnswersInOrder DeadTokensRefused TicketsSound
PROPERTIES StartsListening ClientsServed
