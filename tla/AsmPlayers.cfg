SPECIFICATION Spec
CONSTANTS
  p1 = p1
  p2 = p2
  p3 = p3
  cam = cam
  Pids = {p1, p2}
  MaxHandle = 3
  Resources = {cam}
  Uses <- PlayerUses
  Claims <- PlayerClaims
  MaxHeld <- PlayerHeld
  MaxQueue = 1
  AnswerRoom = 1
  AskStates = {"PLAYING", "PAUSE"}
  Misnamed = {}
  DieBusy = FALSE
  IsGcf = FALSE
INVARIANTS
  TypeOK
  HeldIsListed
PROPERTIES
  GrantFreesResources
CHECK_DEADLOCK FALSE
