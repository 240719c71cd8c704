SPECIFICATION Spec
CONSTANTS
  a = a
  b = b
  c = c
  Nobody = Nobody
  Other = Other
  Plays = {a, b}
  NumSlots = 2
  Kind <- Sounds
  Origin <- Files
  Endless = {a}
  ZeroTime = {}
  Unmanaged = {}
  Faults = {}
PROPERTIES
  StopIsEffective
CHECK_DEADLOCK FALSE
