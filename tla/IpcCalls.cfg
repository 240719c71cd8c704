SPECIFICATION Spec
CONSTANTS
  app1 = app1
  app2 = app2
  a = a
  b = b
  c = c
  Nobody = Nobody
  Procs = {app1, app2}
  Threads = {a, b, c}
  ProcOf <- TwoAndOne
  Does <- Watching
  Ends <- FirstKilled
  MaxCalls <- TwoCalls
  MaxChanges <- Once
  Room = 1
  Faults = {"late", "memory", "push"}
INVARIANTS
  AnsweredOnce
  SubscribedIsListed
PROPERTIES
  OwnAnswer
CHECK_DEADLOCK FALSE
