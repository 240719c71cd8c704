SPECIFICATION Spec
CONSTANTS
  p1 = p1
  p2 = p2
  p3 = p3
  cam = cam
  Pids = {p1, p2, p3}
  MaxHandle = 3
  Resources = {}
  Uses <- NotifyUses
  Claims <- NoClaims
  MaxHeld <- One
  MaxQueue = 1
  AnswerRoom = 1
  AskStates = {"PLAYING", "STOP"}
  Misnamed = {}
  DieBusy = FALSE
  IsGcf = FALSE
PROPERTIES
  RefusedIsSilent
CHECK_DEADLOCK FALSE
