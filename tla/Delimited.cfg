CONSTANTS
  CR = CR
  LF = LF
  Mark = Mark
  a = a
  Text = {a}
  Configs <- MCConfigs
  MaxBytes = 6
SPECIFICATION Spec
INVARIANTS TypeOK FramesOfWholeInput FlushedInFull NeverPanics
CHECK_DEADLOCK FALSE
