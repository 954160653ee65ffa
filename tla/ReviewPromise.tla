------------------------------ MODULE ReviewPromise -----------------------------
(***************************************************************************)
(* What reviewhelper-api promises of each review of a diff: it is accepted *)
(* once, its comments appear on the diff while it is open, it ends,        *)
(* published or failed, and never opens again; what is published shows     *)
(* something.  A review that a worker outlasted its claim at is shaken:    *)
(* more may appear on it after it has ended, a failed one may show         *)
(* comments, and one end may replace the other.                            *)
(***************************************************************************)
CONSTANTS Diffs, Posts

VARIABLES
  outcome,  \* "none", "open", "published" or "failed", of each diff
  shown,    \* what the platform shows of each review
  shaken    \* the reviews of which less is promised

vars == <<outcome, shown, shaken>>

Init ==
  /\ outcome = [d \in Diffs |-> "none"]
  /\ shown = [d \in Diffs |-> {}]
  /\ shaken = {}

Accept(d) ==
  /\ outcome[d] = "none"
  /\ outcome' = [outcome EXCEPT ![d] = "open"]
  /\ UNCHANGED <<shown, shaken>>

Going(d) == outcome[d] = "open" \/ (d \in shaken /\ outcome[d] # "none")

Show(d, p) ==
  /\ Going(d)
  /\ shown' = [shown EXCEPT ![d] = @ \cup {p}]
  /\ UNCHANGED <<outcome, shaken>>

Publish(d) ==
  /\ Going(d) /\ shown[d] # {}
  /\ outcome' = [outcome EXCEPT ![d] = "published"]
  /\ UNCHANGED <<shown, shaken>>

Fail(d) ==
  /\ Going(d) /\ (shown[d] = {} \/ d \in shaken)
  /\ outcome' = [outcome EXCEPT ![d] = "failed"]
  /\ UNCHANGED <<shown, shaken>>

Shake(d) ==
  /\ outcome[d] # "none"
  /\ shaken' = shaken \cup {d}
  /\ UNCHANGED <<outcome, shown>>

Next ==
  \E d \in Diffs : \/ Accept(d) \/ Publish(d) \/ Fail(d) \/ Shake(d)
                   \/ \E p \in Posts : Show(d, p)

Spec == Init /\ [][Next]_vars
=============================================================================
