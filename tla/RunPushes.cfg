\* Two requests with one key, two concurrent sessions of pushes and sweeps.
SPECIFICATION Spec
CONSTANTS
  r1 = r1
  r2 = r2
  r3 = r3
  k = k
  s1 = s1
  s2 = s2
  NoKey = NoKey
  NoRun = NoRun
  NoRow = NoRow
  Runs = {r1, r2}
  Keys = {k}
  Sessions = {s1, s2}
  KeyOf <- SharedKey
  ParentOf <- NoParents
  Requested = {r1}
  Unfinalizable = {}
  SweepLimit = 2
INVARIANTS OneExecutionPerKey PublishedIsDurable CompletionsAgree SuccessIsEarned NotifiedOnce
PROPERTIES FinalizedIsForever KeepsContract
CHECK_DEADLOCK FALSE
