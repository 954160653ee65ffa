\* A run, the run chained behind it, and one that cannot be finalized; one
\* session at a time, fair.
SPECIFICATION StuckSpec
CONSTANTS
  r1 = r1
  r2 = r2
  r3 = r3
  k = k
  s1 = s1
  s2 = s2
  NoKey = NoKey
  NoRun = NoRun
  NoRow = NoRow
  Runs = {r1, r2, r3}
  Keys = {k}
  Sessions = {s1}
  KeyOf <- Unkeyed
  ParentOf <- Chained
  Requested = {}
  Unfinalizable = {r3}
  SweepLimit = 2
INVARIANTS ChildFollowsSuccess
PROPERTIES HealthyRunsSettle
CHECK_DEADLOCK FALSE
