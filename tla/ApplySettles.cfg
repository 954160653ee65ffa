\* A session may die, a person may look after the run.
SPECIFICATION FairSpec
CONSTANTS
  s1 = s1
  s2 = s2
  b1 = b1
  v = v
  status = status
  NoBug = NoBug
  NoChange = NoChange
  NoSpec = NoSpec
  NoSession = NoSession
  Bugs = {b1}
  Fields = {status}
  Elements = {v}
  N = 2
  Actions <- Patched
  Agents <- Trusted
  Sessions = {s1, s2}
  MaxFaults = 1
PROPERTIES EligibleAttempted NobodyStuck
CHECK_DEADLOCK FALSE
