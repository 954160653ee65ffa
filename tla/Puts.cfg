\* Every run of four actions on two bugs, each with at most one reference.
SPECIFICATION PutsSpec
CONSTANTS
  b1 = b1
  b2 = b2
  status = status
  cc = cc
  x = x
  y = y
  NoBug = NoBug
  NoChange = NoChange
  Bugs = {b1, b2}
  Fields = {status, cc}
  Elements = {x, y}
  Length = 4
  Recordable <- SomeActions
  RefLimit = 1
INVARIANTS EachOnce DependenciesFirst SameOutcome
CHECK_DEADLOCK FALSE
