SPECIFICATION Spec
CONSTANTS
  Servers <- MCServers
  Callers = {c1, c2}
  Ports = {p1, p2}
INVARIANTS LastStays StoppedIsRetired
PROPERTY OneIsLeft
CHECK_DEADLOCK FALSE
