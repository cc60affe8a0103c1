SPECIFICATION Spec
CONSTANTS
  Threads = {t1, t2}
  Instances <- MCInstances
  Conns <- MCConns
SYMMETRY Symmetry
INVARIANTS
  LeasesAreCounted
  StoppedIsQuiet
  UnheldIsArmed
PROPERTIES
  HeldStaysOpen
