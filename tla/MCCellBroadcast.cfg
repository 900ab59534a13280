SPECIFICATION Spec
CONSTANTS
  Sent <- MCSent
  Arriving <- MCArriving
  Unset = {0, 255}
INVARIANTS TypeOK
PROPERTIES PageArrives NeverInPart RelayKeepsPage
CHECK_DEADLOCK FALSE
