\* Every policy, two overlapping sessions, one of which may die.
SPECIFICATION Spec
CONSTANTS
  s1 = s1
  s2 = s2
  b1 = b1
  v = v
  status = status
  NoBug = NoBug
  NoChange = NoChange
  NoSpec = NoSpec
  NoSession = NoSession
  Bugs = {b1}
  Fields = {status}
  Elements = {v}
  N = 3
  Actions <- Repaired
  Agents <- EveryAgent
  Sessions = {s1, s2}
  MaxFaults = 1
SYMMETRY Symmetry
INVARIANTS HeldNeedsPerson ClaimsMatchWork EarlierResultsResolve
PROPERTIES KeepsPromise
CHECK_DEADLOCK FALSE
