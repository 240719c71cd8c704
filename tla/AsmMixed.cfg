SPECIFICATION Spec
CONSTANTS
  p1 = p1
  p2 = p2
  p3 = p3
  cam = cam
  Pids = {p1, p2}
  MaxHandle = 2
  Resources = {}
  Uses <- MixedUses
  Claims <- NoClaims
  MaxHeld <- MixedHeld
  MaxQueue = 1
  AnswerRoom = 1
  AskStates = {"PLAYING", "STOP"}
  Misnamed = {}
  DieBusy = TRUE
  IsGcf = FALSE
PROPERTIES
  HandsOutHandles
  ServerReturns
  GrantSilencesConflicts
INVARIANTS
  HandlesUnique
  StatusConsistent
  ComparisonAnswers
CHECK_DEADLOCK FALSE
