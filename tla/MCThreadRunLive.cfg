SPECIFICATION Spec
CONSTANTS
  Prompts = {p1, p2}
  Stoppers = {c1}
  Nowhere = Nowhere
  RestartLimit = 2
  MaxDowns = 1
  Resends = FALSE
PROPERTY AcceptedIsAnswered
CHECK_DEADLOCK FALSE
