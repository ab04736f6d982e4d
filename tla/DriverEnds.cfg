\* One call and one announcement, under fairness.
SPECIFICATION FairSpec
CONSTANTS
  c1 = c1
  c2 = c2
  t1 = t1
  t2 = t2
  e1 = e1
  None = None
  Calls = {c1}
  Events = {e1}
  TxIds = {t1}
  TxOf <- Single
PROPERTIES PromiseIsKeptInTime
\* Every call may be over and every announcement made.
CHECK_DEADLOCK FALSE
