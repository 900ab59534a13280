SPECIFICATION Spec
CONSTANTS
  MaxChars = 17
  Caps = {3, 40}
INVARIANTS TypeOK PackedIsStream TakenFromStream RoundTrip
PROPERTIES Terminates
CHECK_DEADLOCK FALSE
