SPECIFICATION Spec
CONSTANTS
  MaxHeaders = 3
  UserDatum <- MCUserDatum
INVARIANTS TypeOK LengthCovers WithinCapacity UdlCountsOctets RefusalIsNeeded MessageArrives
CHECK_DEADLOCK FALSE
