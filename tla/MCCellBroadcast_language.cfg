SPECIFICATION Spec
CONSTANTS
  Sent <- MCSent
  Arriving <- MCArriving
  Unset = {0, 255}
INVARIANTS LanguageLeads
CHECK_DEADLOCK FALSE
