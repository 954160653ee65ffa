\* Three test tasks and a build task, a budget of two, one fault.
SPECIFICATION Spec
CONSTANTS
  p1 = p1
  p2 = p2
  t1 = t1
  t2 = t2
  t3 = t3
  b1 = b1
  m1 = m1
  m2 = m2
  suite = suite
  Tasks = {t1, t2, t3, b1}
  Pushes = {p1, p2}
  PushOf <- OnPush
  AgentOf <- ByKind
  Units = {m1, m2, suite}
  Failing <- Broken
  Label <- OneSuite
  Undated = {p1}
  Limit = 2
  MaxFaults = 1
INVARIANTS OneRunPerPush SlotsMatchRuns TestClaimsEarned
PROPERTIES InvestigatedIsSkipped
CHECK_DEADLOCK FALSE
