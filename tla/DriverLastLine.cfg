\* One call, no announcement but its own.
SPECIFICATION Spec
CONSTANTS
  c1 = c1
  c2 = c2
  t1 = t1
  t2 = t2
  e1 = e1
  None = None
  Calls = {c1}
  Events = {}
  TxIds = {t1}
  TxOf <- Single
INVARIANTS LastLineNotReached
CHECK_DEADLOCK FALSE
