SPECIFICATION PcmSpec
CONSTANTS
  p1 = p1
  p2 = p2
  p3 = p3
  Pids = {p1, p2}
  MaxHandle = 2
  Resources = {}
  Uses <- EventsOf
  Claims <- NoClaims
  MaxHeld <- Held
  MaxQueue = 1
  AnswerRoom = 1
  AskStates = {"NONE", "PLAYING", "STOP"}
  Misnamed = {"SHARE_MMPLAYER"}
  DieBusy = FALSE
  IsGcf = FALSE
  MaxUnread = 1
  Opens <- TwoWays
  Slow = {p1}
INVARIANTS
  AudibleIsListed
  ClashesNeverSound
  StartedIsAudible
  ClosedIsUnlisted
PROPERTY StreamsAreArbitrated
CHECK_DEADLOCK FALSE
