SPECIFICATION Spec
CONSTANTS
  Executions = {e1, e2}
  Callers = {c1, c2}
  None = None
INVARIANTS Serialized NoOrphanedWaiter
PROPERTIES ImplementsDoorbell CallersAreAnswered
