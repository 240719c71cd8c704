SPECIFICATION FairSpec
CONSTANTS
  MaxKeys = 6
  PipeSize = 3
  MaxPeriods = 3
  Faults = {"open", "create"}
INVARIANTS
  TypeOK
  Handover
  PlaysOnOpenDevice
  PlaysMappedFile
PROPERTIES
  NotForgotten
  Played
  CutReturns
CHECK_DEADLOCK FALSE
