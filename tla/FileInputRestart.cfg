CONSTANTS
  Files = {f1}
  NoFile = NoFile
  NPaths = 2
  InitialLines = 0
  MaxWrites = 2
  MaxChunk = 2
  FromBeginning = TRUE
  OverflowChecks = FALSE
  MayOverrun = FALSE
  Corrupt = {}
  Unreadable = {}
  MayTruncate = FALSE
  MayReusePath = FALSE
SPECIFICATION Spec
PROPERTY RestartsOnlyShrunkFiles
CHECK_DEADLOCK FALSE
