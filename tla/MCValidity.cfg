SPECIFICATION Spec
CONSTANTS
  Sent <- MCSent
  Arriving <- MCArriving
INVARIANTS TypeOK AlwaysForwardable GrantsLeast
PROPERTIES AbsoluteKept RelayNeverLengthens
CHECK_DEADLOCK FALSE
