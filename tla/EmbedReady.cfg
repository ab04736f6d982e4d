\* Three calls of ready.
SPECIFICATION Spec
CONSTANTS
  r1 = r1
  r2 = r2
  r3 = r3
  s1 = s1
  s2 = s2
  None = None
  Calls = {r1, r2, r3}
  Scans = {}
  MaxEvents = 2
SYMMETRY Interchangeable
INVARIANTS RunsOnce LostOnlyInARace
PROPERTIES IterationBreaksInARace
\* Every call may be over and the core silent.
CHECK_DEADLOCK FALSE
