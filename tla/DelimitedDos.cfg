CONSTANTS
  CR = CR
  LF = LF
  Mark = Mark
  a = a
  Text = {a}
  Configs <- MCDos
  MaxBytes = 5
SPECIFICATION Spec
INVARIANT DelimiterIsWhole
CHECK_DEADLOCK FALSE
