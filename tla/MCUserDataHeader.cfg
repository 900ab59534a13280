SPECIFICATION Spec
CONSTANTS
  MaxHeaders = 3
  MaxLen = 20
  Message <- MCMessage
INVARIANTS TypeOK AcceptedIsTiled AllOrNothing AcceptsWellformed FirstSegmentKnown
CHECK_DEADLOCK FALSE
