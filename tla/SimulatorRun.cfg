\* Four transactions and a queue of two, so that run waits for room.
CONSTANTS
  Count = 4
  QueueCap = 2
SPECIFICATION Spec
INVARIANTS ClosedIsQuiet CleanFinish LabelsFollow
PROPERTIES InterruptEnds
CHECK_DEADLOCK FALSE
