CONSTANTS
  c1 = c1
  MaxSessions = 2
  Name = {c1}
SPECIFICATION Live
INVARIANTS PageFinal
PROPERTIES AllQuiet
CHECK_DEADLOCK FALSE
