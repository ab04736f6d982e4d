\* Every call is made once: then there is nothing left to do.
SPECIFICATION Spec
CONSTANTS
  Calls = {c1, c2, c3}
  Nobody = Nobody
INVARIANTS OneReplicator  NoneAfterAnother
CHECK_DEADLOCK FALSE
