SPECIFICATION Spec
CONSTANTS
  Sent <- MCSent
  Arriving <- MCArriving
INVARIANTS RoundsUp
CHECK_DEADLOCK FALSE
