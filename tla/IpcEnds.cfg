SPECIFICATION FairSpec
CONSTANTS
  app1 = app1
  app2 = app2
  a = a
  b = b
  c = c
  Nobody = Nobody
  Procs = {app1, app2}
  Threads = {a, b, c}
  ProcOf <- TwoAndOne
  Does <- Routing
  Ends <- FirstExits
  MaxCalls <- TwoCalls
  MaxChanges <- None
  Room = 1
  Faults = {"late"}
INVARIANTS
  TypeOK
PROPERTIES
  ServerAnswers
  CallsReturn
  FiniReturns
CHECK_DEADLOCK FALSE
