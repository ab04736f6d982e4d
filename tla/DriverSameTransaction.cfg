\* Two calls that send the same transaction, one announcement by the core.
SPECIFICATION Spec
CONSTANTS
  c1 = c1
  c2 = c2
  t1 = t1
  t2 = t2
  e1 = e1
  None = None
  Calls = {c1, c2}
  Events = {e1}
  TxIds = {t1}
  TxOf <- Shared
INVARIANTS NoLeakedCollector AnswerWasReached RacesNeedAnother
PROPERTIES KeepsPromise
\* Every call may be over and every announcement made.
CHECK_DEADLOCK FALSE
