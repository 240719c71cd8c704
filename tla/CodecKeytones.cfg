SPECIFICATION Spec
CONSTANTS
  a = a
  b = b
  c = c
  Nobody = Nobody
  Other = Other
  Plays = {a, b, c}
  NumSlots = 3
  Kind <- KeytonesAndSound
  Origin <- Memories
  Endless = {a}
  ZeroTime = {}
  Unmanaged = {c}
  Faults = {"parse", "create"}
INVARIANTS
  OneOwner
  NoUseAfterFree
  SoundIsManaged
  SourcesReleased
  RegistrationsReleased
CHECK_DEADLOCK FALSE
