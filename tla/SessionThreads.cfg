SPECIFICATION Spec
CONSTANTS
  Accessories = {"WIRED", "DOCK"}
  Sessions = {"VOICECALL"}
  Subsessions = {}
  Routes <- CallRoutes
  MaxBusy = 2
  FailsAt = {"routeCall"}
CONSTRAINT NotTorn
INVARIANTS
  OutputExists
  OneActive
