\* Two calls of scan, under fairness.
SPECIFICATION FairSpec
CONSTANTS
  r1 = r1
  r2 = r2
  r3 = r3
  s1 = s1
  s2 = s2
  None = None
  Calls = {s1, s2}
  Scans = {s1, s2}
  MaxEvents = 2
INVARIANTS HearsOwnScan
PROPERTIES CallsReturn
\* Every call may be over and the core silent.
CHECK_DEADLOCK FALSE
