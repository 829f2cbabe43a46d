CONSTANTS
  a = a
  b = b
  none = none
  Requests <- MCRequests
  Generated = none
  Contents <- MCContents
  Lossy <- MCLossy
  Paths = {"log", "old"}
  Patterns <- MCPatterns
  Capacity = 2
  InitialDelay = 1
  MaxDelay = 3
  MaxAttempts = NoLimit
  NoLimit = NoLimit
  MaxErrors = 2
  Outputs = {"stdout", "null"}
  Copies = {c1}
  NoEvent = NoEvent
SPECIFICATION Spec
INVARIANTS TypeOK CountersExact PausesFollowFailures EventsApart PrintedIntact
PROPERTY EverythingComesOut
CHECK_DEADLOCK FALSE
