CONSTANTS
  Files = {f1, f2}
  NoFile = NoFile
  NPaths = 2
  InitialLines = 0
  MaxWrites = 3
  MaxChunk = 2
  FromBeginning = TRUE
  OverflowChecks = TRUE
  MayOverrun = TRUE
  Corrupt = {f2}
  Unreadable = {f1}
  MayTruncate = TRUE
  MayReusePath = FALSE
SPECIFICATION Spec
INVARIANTS TypeOK IndexInBounds NoStall NoGap
CHECK_DEADLOCK FALSE
