SPECIFICATION Spec
CONSTANTS
  Ids = {m1,m2}
  Data = {d1}
  Unsent = Unsent
  Clients = {c1,c2}
  Runners = {r1}
  MaxSeq = 3
  Stops = FALSE
PROPERTY QueueIsPromoted
CHECK_DEADLOCK FALSE
