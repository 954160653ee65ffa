--------------------------- MODULE MCRunLifecycle ---------------------------
(***************************************************************************)
(* RunLifecycle for TLC.  Two shapes of input: r1 and r2 share a dedupe    *)
(* key; or r2 is chained behind r1, and r3 is a run nobody can finalize.   *)
(***************************************************************************)
EXTENDS RunLifecycle

CONSTANTS r1, r2, r3, k, s1, s2

SharedKey == [r \in Runs |-> k]
Unkeyed   == [r \in Runs |-> NoKey]
NoParents == [r \in Runs |-> NoRun]
Chained   == [r \in Runs |-> IF r = r2 THEN r1 ELSE NoRun]

\* r1 was inserted, then r3, whose dispatch was refused and whose execution
\* ran all the same, to no effect but a completion event that found no row.
NewRow == [status |-> "pending", named |-> FALSE, summary |-> "none",
           finalized |-> FALSE, created |-> 0]
StuckInit ==
  /\ row = [Nothing EXCEPT ![r1] = NewRow,
                           ![r3] = [NewRow EXCEPT !.status = "failed", !.created = 1]]
  /\ request = [[r \in Runs |-> "idle"] EXCEPT ![r1] = "dispatching", ![r3] = "rejected"]
  /\ answer = [r \in Runs |-> NoRun]
  /\ execution = [[r \in Runs |-> "none"] EXCEPT ![r3] = "failed"]
  /\ forgotten = {r3}
  /\ results = [r \in Runs |-> "none"]
  /\ event = [[r \in Runs |-> "none"] EXCEPT ![r3] = "acked"]
  /\ aged = {r3}
  /\ at = [s \in Sessions |-> "idle"]
  /\ kind = [s \in Sessions |-> "push"]
  /\ cur = [s \in Sessions |-> NoRun]
  /\ view = [s \in Sessions |-> Nothing]
  /\ seen = [s \in Sessions |-> "unknown"]
  /\ got = [s \in Sessions |-> "none"]
  /\ todo = [s \in Sessions |-> {}]
  /\ tx = [s \in Sessions |-> FALSE]
  /\ completed = [r \in Runs |-> [t \in Terminal |-> 0]]
  /\ emails = [r \in Runs |-> 0]
  /\ overlapped = {}

StuckSpec == StuckInit /\ [][Next]_vars /\ Fairness
=============================================================================
