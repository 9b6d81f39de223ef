CONSTANTS
  MaxSessions = 2
  MaxTexts = 1
  MaxCopies = 1
  MaxSends = 1
  MaxRequests = 1
  MaxQueue = 1
SPECIFICATION Spec
INVARIANTS TypeOK FreshAnswer FieldFromHere OnlyRequested
CHECK_DEADLOCK FALSE
