SPECIFICATION Spec
CONSTANTS
  Prompts = {p1, p2}
  Stoppers = {c1, c2}
  Nowhere = Nowhere
  RestartLimit = 2
  MaxDowns = 2
  Resends = FALSE
SYMMETRY Symmetry
INVARIANTS
  AcceptedIsMarked
  StopsStand
  CrashLoopEnds
  IdleIsStored
  InFlightIsADeadHosts
PROPERTY ImplementsDoorbell
CHECK_DEADLOCK FALSE
