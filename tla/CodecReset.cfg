SPECIFICATION Spec
CONSTANTS
  a = a
  b = b
  c = c
  Nobody = Nobody
  Other = Other
  Plays = {a, b, c}
  NumSlots = 1
  Kind <- Sounds
  Origin <- MemoryAndTones
  Endless = {}
  ZeroTime = {c}
  Unmanaged = {a}
  Faults = {"play", "die"}
INVARIANTS
  OwnCallback
PROPERTIES
  RequestsReturn
  SoundsEnd
CHECK_DEADLOCK FALSE
