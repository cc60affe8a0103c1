SPECIFICATION Spec
CONSTANTS
  Ids = {m1,m2}
  Data = {d1,d2}
  Unsent = Unsent
  Clients = {c1,c2}
  Runners = {r1}
  MaxSeq = 3
  Stops = TRUE
SYMMETRY Symmetry
INVARIANT DeliveredOnce
PROPERTIES ImplementsQueue OrderIsKept
CHECK_DEADLOCK FALSE
