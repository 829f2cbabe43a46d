CONSTANTS
  Files = {f1, f2}
  NoFile = NoFile
  NPaths = 2
  InitialLines = 1
  MaxWrites = 1
  MaxChunk = 1
  FromBeginning = TRUE
  OverflowChecks = FALSE
  MayOverrun = FALSE
  Corrupt = {f2}
  Unreadable = {f2}
  MayTruncate = TRUE
  MayReusePath = FALSE
SPECIFICATION Spec
PROPERTIES EventuallyEmitted RoundsComplete ShutdownEndsReader
CHECK_DEADLOCK FALSE
