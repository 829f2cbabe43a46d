CONSTANTS
  Senders = {s1, s2}
  Receivers = {r1, r2}
  NoSender = NoSender
SPECIFICATION Spec
INVARIANTS TypeOK NoLostWakeup
PROPERTY ImplementsWakeFlag
CHECK_DEADLOCK FALSE
