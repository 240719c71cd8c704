SPECIFICATION Spec
CONSTANTS
  Accessories = {"WIRED", "A2DP", "SCO", "DOCK"}
  Sessions = {"VOICECALL", "NOTIFICATION", "FMRADIO"}
  Subsessions = {"VOICE", "RINGTONE"}
  Routes <- ValidRoutes
  MaxBusy = 1
  FailsAt = {"routeCall"}
INVARIANTS
  OutputAvailable
  PathFollowsActive
