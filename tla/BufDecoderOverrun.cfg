CONSTANTS
  MinLen = 2
  Kinds = {"plain", "gzip"}
  HeaderLen = 2
  BodyLen = 2
  Expansion = 3
  FooterLen = 3
  Broken = {2}
  EndSets <- MCEndSets
  MaxSize = 20
SPECIFICATION Spec
INVARIANT ReadFits
CHECK_DEADLOCK FALSE
