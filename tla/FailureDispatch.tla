---------------------------- MODULE FailureDispatch ----------------------------
(***************************************************************************)
(* How hackbot-pulse-listener turns failed tasks into agent runs           *)
(* (app/consumer.py): one worker thread per failed task, which judges the  *)
(* failure, claims its push, and starts a run through hackbot-api.  The    *)
(* workers share four in-memory structures, each under a lock of its own;  *)
(* a step is what a worker does in one section of one lock, or one stretch *)
(* of remote calls between two of them.                                    *)
(***************************************************************************)
EXTENDS Naturals, FiniteSets

CONSTANTS
  Tasks,     \* the failed tasks of watched projects
  Pushes,    \* the pushes (hg revisions) they belong to
  PushOf,    \* each task's push
  AgentOf,   \* each task's agent, by its kind
  Units,     \* manifests, and labels without their chunk number
  Failing,   \* the manifests that fail in a test task
  Label,     \* each task's label, without its chunk number
  Undated,   \* pushes whose date cannot be read
  Limit,     \* max_test_repairs_per_day
  MaxFaults  \* a bound: how many calls to lando and hackbot-api go wrong

Agents == {"build-repair", "test-repair"}

ASSUME DispatchAssumption ==
  /\ IsFiniteSet(Tasks)
  /\ PushOf \in [Tasks -> Pushes]
  /\ AgentOf \in [Tasks -> Agents]
  /\ Failing \in [Tasks -> SUBSET Units]
  /\ Label \in [Tasks -> Units]
  /\ Undated \subseteq Pushes
  /\ Limit \in Nat \ {0}
  /\ MaxFaults \in Nat

VARIABLES
  at,       \* where each task's worker stands
  fresh,    \* manifests a worker found to be new; none: the whole task
  seen,     \* _seen and _seen_tests: pushes claimed for each agent
  groups,   \* _seen_groups
  slots,    \* the length of _test_run_times
  stale,    \* pushes that landed more than max_push_age_hours ago
  runs,     \* tasks hackbot-api answered with a run
  orphans,  \* tasks it started a run for without the answer arriving
  window,   \* test-repair runs answered for in the last 24 hours
  covered,  \* units an answered run covers, for group_dedupe_ttl_seconds
  faults    \* how many calls have gone wrong

caches == <<seen, groups, slots>>
ghosts == <<runs, orphans, window, covered>>
vars   == <<at, fresh, caches, stale, ghosts, faults>>

At == {"queued", "judge", "check", "recheck", "reserve", "claim", "cover", "trigger",
       "dropPush", "dropGroups", "dropSlot", "done"}

TypeOK ==
  /\ at \in [Tasks -> At]
  /\ fresh \in [Tasks -> SUBSET Units]
  /\ seen \in [Agents -> SUBSET Pushes]
  /\ groups \in SUBSET Units
  /\ slots \in 0..Limit
  /\ stale \in SUBSET Pushes
  /\ runs \in SUBSET Tasks /\ orphans \in SUBSET Tasks
  /\ window \in SUBSET runs
  /\ covered \in SUBSET Units
  /\ faults \in 0..MaxFaults

Init ==
  /\ at = [t \in Tasks |-> "queued"]
  /\ fresh = [t \in Tasks |-> {}]
  /\ seen = [a \in Agents |-> {}]
  /\ groups = {}
  /\ slots = 0
  /\ stale = {}
  /\ runs = {} /\ orphans = {}
  /\ window = {}
  /\ covered = {}
  /\ faults = 0

IsTest(t) == AgentOf[t] = "test-repair"
Claimed(t) == PushOf[t] \in seen[AgentOf[t]]

\* _dedupe_units.
DedupeUnits(t) == IF fresh[t] = {} THEN {Label[t]} ELSE fresh[t]

Goto(t, place) == at' = [at EXCEPT ![t] = place]

-----------------------------------------------------------------------------
(* Judging a failure                                                       *)

\* Mutant of TooOld: a push's age is not looked at.
NeverTooOld(t) == FALSE

\* is_stale_push, which fails open.
TooOld(t) == PushOf[t] \in stale \ Undated

\* The gates that need no waiting.  Tasks of action tasks, of no revision and
\* of test-verify are not among Tasks.
Admit(t) ==
  /\ at[t] = "queued"
  /\ Goto(t, IF TooOld(t) \/ Claimed(t) \/ (IsTest(t) /\ slots >= Limit) THEN "done" ELSE "judge")
  /\ UNCHANGED <<fresh, caches, stale, ghosts, faults>>

\* Treeherder's verdict or an ancestor says that the push is innocent, or a
\* walk is abandoned because a sibling has claimed the push.
Dismiss(t) ==
  /\ at[t] \in {"judge", "recheck"}
  /\ Goto(t, "done")
  /\ UNCHANGED <<fresh, caches, stale, ghosts, faults>>

\* The failure is new, or could not be compared, which counts as new.
JudgeBuildNew(t) ==
  /\ at[t] = "judge"
  /\ ~IsTest(t)
  /\ Goto(t, "claim")
  /\ UNCHANGED <<fresh, caches, stale, ghosts, faults>>

\* Of the failing manifests those in F are; none, if the task is compared as a
\* whole.  When Treeherder's groups could not be read, no further question is
\* asked: the worker goes on to trigger at once.
JudgeTestNew(t, F) ==
  /\ at[t] = "judge"
  /\ IsTest(t)
  /\ fresh' = [fresh EXCEPT ![t] = F]
  /\ Goto(t, "check") \/ (F = {} /\ Goto(t, "reserve"))
  /\ UNCHANGED <<caches, stale, ghosts, faults>>

\* _groups_claimed: all of them, not any.  What is left is asked once more of
\* Treeherder, on the way to the trigger.
CheckGroups(t) ==
  /\ at[t] = "check"
  /\ Goto(t, IF DedupeUnits(t) \subseteq groups THEN "done" ELSE "recheck")
  /\ UNCHANGED <<fresh, caches, stale, ghosts, faults>>

-----------------------------------------------------------------------------
(* Claiming and triggering                                                 *)

\* _reserve_test_run.
Reserve(t) ==
  /\ at[t] \in {"recheck", "reserve"}
  /\ IF slots < Limit
       THEN slots' = slots + 1 /\ Goto(t, "claim")
       ELSE UNCHANGED slots /\ Goto(t, "done")
  /\ UNCHANGED <<fresh, seen, groups, stale, ghosts, faults>>

\* Mutant of ClaimPush: the loser keeps the slot.
ClaimKeepsSlot(t) ==
  /\ at[t] = "claim"
  /\ IF Claimed(t)
       THEN UNCHANGED seen /\ Goto(t, "done")
       ELSE /\ seen' = [seen EXCEPT ![AgentOf[t]] = @ \cup {PushOf[t]}]
            /\ Goto(t, IF IsTest(t) THEN "cover" ELSE "trigger")
  /\ UNCHANGED <<fresh, groups, slots, stale, ghosts, faults>>

\* Test and set; a test task that loses gives its slot back.
ClaimPush(t) ==
  /\ at[t] = "claim"
  /\ IF Claimed(t)
       THEN UNCHANGED seen /\ Goto(t, IF IsTest(t) THEN "dropSlot" ELSE "done")
       ELSE /\ seen' = [seen EXCEPT ![AgentOf[t]] = @ \cup {PushOf[t]}]
            /\ Goto(t, IF IsTest(t) THEN "cover" ELSE "trigger")
  /\ UNCHANGED <<fresh, groups, slots, stale, ghosts, faults>>

\* Mutant of ClaimGroups: only the label of a task without manifests is
\* recorded.
ClaimLabel(t) ==
  /\ at[t] = "cover"
  /\ groups' = groups \cup (DedupeUnits(t) \cap {Label[t]})
  /\ Goto(t, "trigger")
  /\ UNCHANGED <<fresh, seen, slots, stale, ghosts, faults>>

\* _claim_groups returns every unit of the run as one to release, those that
\* another run had claimed before included.
ClaimGroups(t) ==
  /\ at[t] = "cover"
  /\ groups' = groups \cup DedupeUnits(t)
  /\ Goto(t, "trigger")
  /\ UNCHANGED <<fresh, seen, slots, stale, ghosts, faults>>

\* trigger_run returns.
TriggerAnswered(t) ==
  /\ at[t] = "trigger"
  /\ runs' = runs \cup {t}
  /\ IF IsTest(t)
       THEN window' = window \cup {t} /\ covered' = covered \cup DedupeUnits(t)
       ELSE UNCHANGED <<window, covered>>
  /\ Goto(t, "done")
  /\ UNCHANGED <<fresh, caches, stale, orphans, faults>>

\* It raises, or lando does not know a build's revision.  The request may have
\* started a run all the same: trigger_run sends no dedupe_key.
TriggerFails(t) ==
  /\ at[t] = "trigger"
  /\ faults < MaxFaults
  /\ faults' = faults + 1
  /\ orphans' = orphans \/ orphans' = orphans \cup {t}
  /\ Goto(t, "dropPush")
  /\ UNCHANGED <<fresh, caches, stale, runs, window, covered>>

\* lando answers with something that is not the JSON expected: hg_to_git, which
\* is called outside the try, raises, and the worker ends.
MapRaises(t) ==
  /\ at[t] = "trigger"
  /\ ~IsTest(t)
  /\ faults < MaxFaults
  /\ faults' = faults + 1
  /\ Goto(t, "done")
  /\ UNCHANGED <<fresh, caches, stale, ghosts>>

\* Mutant of DropPush: the push is kept.
KeepPush(t) ==
  /\ at[t] = "dropPush"
  /\ Goto(t, IF IsTest(t) THEN "dropGroups" ELSE "done")
  /\ UNCHANGED <<fresh, caches, stale, ghosts, faults>>

\* A trigger that failed gives everything up, under one lock after the other.
DropPush(t) ==
  /\ at[t] = "dropPush"
  /\ seen' = [seen EXCEPT ![AgentOf[t]] = @ \ {PushOf[t]}]
  /\ Goto(t, IF IsTest(t) THEN "dropGroups" ELSE "done")
  /\ UNCHANGED <<fresh, groups, slots, stale, ghosts, faults>>

DropGroups(t) ==
  /\ at[t] = "dropGroups"
  /\ groups' = groups \ DedupeUnits(t)
  /\ Goto(t, "dropSlot")
  /\ UNCHANGED <<fresh, seen, slots, stale, ghosts, faults>>

\* _release_test_run drops the newest slot, whosever it is.
DropSlot(t) ==
  /\ at[t] = "dropSlot"
  /\ slots' = IF slots > 0 THEN slots - 1 ELSE slots
  /\ Goto(t, "done")
  /\ UNCHANGED <<fresh, seen, groups, stale, ghosts, faults>>

-----------------------------------------------------------------------------
(* Time                                                                    *)

GoesStale(p) ==
  /\ p \notin stale
  /\ stale' = stale \cup {p}
  /\ UNCHANGED <<at, fresh, caches, ghosts, faults>>

\* A claim is made after its push landed and dedupe_ttl_seconds is
\* max_push_age_hours, so a claim that lapses is of a stale push.  By then the
\* workers admitted before the claim are done: their waits add up to less than
\* an hour.
ClaimLapses(a, p) ==
  /\ p \in seen[a] \cap stale
  /\ \A t \in Tasks : PushOf[t] = p => at[t] \in {"queued", "done"}
  /\ seen' = [seen EXCEPT ![a] = @ \ {p}]
  /\ UNCHANGED <<at, fresh, groups, slots, stale, ghosts, faults>>

\* Half a day passes after a unit was claimed.
GroupLapses(u) ==
  /\ u \in groups \cup covered
  /\ \A t \in Tasks : at[t] \in {"cover", "trigger", "dropPush", "dropGroups"} => u \notin DedupeUnits(t)
  /\ groups' = groups \ {u}
  /\ covered' = covered \ {u}
  /\ UNCHANGED <<at, fresh, seen, slots, stale, runs, orphans, window, faults>>

\* A day passes after the oldest slot was taken, and after the oldest run.
SlotLapses(t) ==
  /\ t \in window
  /\ slots > 0
  /\ window' = window \ {t}
  /\ slots' = slots - 1
  /\ UNCHANGED <<at, fresh, seen, groups, stale, runs, orphans, covered, faults>>

Work(t) ==
  \/ Admit(t) \/ Dismiss(t) \/ JudgeBuildNew(t)
  \/ \E F \in SUBSET Failing[t] : JudgeTestNew(t, F)
  \/ CheckGroups(t) \/ Reserve(t) \/ ClaimPush(t) \/ ClaimGroups(t)
  \/ TriggerAnswered(t) \/ TriggerFails(t) \/ MapRaises(t)
  \/ DropPush(t) \/ DropGroups(t) \/ DropSlot(t)

Next ==
  \/ \E t \in Tasks : Work(t) \/ SlotLapses(t)
  \/ \E p \in Pushes : GoesStale(p) \/ \E a \in Agents : ClaimLapses(a, p)
  \/ \E u \in Units : GroupLapses(u)

Spec == Init /\ [][Next]_vars

-----------------------------------------------------------------------------
(* Properties                                                              *)

\* "one run per push per agent": of the runs it was answered with, however the
\* siblings race, fail and release, and though claims lapse while tasks of the
\* push still arrive.  Only where the push's date is unreadable may a lapsed
\* claim let a second one through.
OneRunPerPush ==
  \A t, u \in runs :
    PushOf[t] = PushOf[u] /\ AgentOf[t] = AgentOf[u] /\ PushOf[t] \notin Undated => t = u

\* "only runs that really started count": the slots taken are those of the
\* day's runs and of the workers on their way to or back from a trigger,
\* though a failed one drops a slot that need not be its own.
SlotsMatchRuns ==
  slots = Cardinality(window) + Cardinality({t \in Tasks : IsTest(t) /\
            at[t] \in {"claim", "cover", "trigger", "dropPush", "dropGroups", "dropSlot"}})

\* "A revision is recorded only once a run is actually triggered": a task that
\* is dismissed, meets a spent budget or fails to trigger leaves the push open
\* to its siblings.  Of the test-repair path: a build's claim outlives MapRaises.
TestClaimsEarned ==
  \A p \in seen["test-repair"] : \E t \in Tasks :
    /\ PushOf[t] = p /\ IsTest(t)
    /\ t \in runs \/ at[t] \in {"cover", "trigger", "dropPush"}

\* "a failure already investigated on a recent push is skipped for
\* GROUP_DEDUPE_TTL_SECONDS": no task gets past the check when runs cover all of
\* its units.  Short of a trigger that fails: _claim_groups has it release what
\* other runs cover too.
InvestigatedIsSkipped ==
  [][\A t \in Tasks :
       at[t] = "check" /\ at'[t] = "recheck" /\ faults = 0
         => ~(DedupeUnits(t) \subseteq covered)]_vars
=============================================================================
