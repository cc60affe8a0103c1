SPECIFICATION Spec
CONSTANTS
  Fibers = {f1, f2, f3}
  MaxCrashes = 1
CHECK_DEADLOCK FALSE
SYMMETRY Symmetry
INVARIANTS
  RefsAreLeases
  LeaseExcludesStop
  OneClaim
