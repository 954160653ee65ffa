---------------------------- MODULE ActionsApplier ----------------------------
(***************************************************************************)
(* How hackbot-api carries out the actions a finished run recorded         *)
(* (app/actions_applier.py).  Sessions are entered by the run.completed    *)
(* push (routers/events.py) and by a person's apply-all                    *)
(* (routers/runs.py), may overlap, and may die at any await; they agree    *)
(* through the run_actions rows alone.  Every step is the code between two *)
(* awaits, a transaction being one step.  One run: runs share no rows.     *)
(***************************************************************************)
EXTENDS Coalescing

CONSTANTS
  N,             \* how many actions the run recorded
  Actions,       \* summary.actions: each index's recorded action
  Agents,        \* the agent specs the run may belong to
  NoSpec,        \* an agent that is not in AGENT_REGISTRY
  Sessions,      \* database sessions of pushes and apply-alls
  NoSession,     \* rows whose claim nobody holds any more
  MaxFaults      \* a bound: how many sessions die or outlive _CLAIM_LEASE

Idx == 1..N

AgentSpec == [auto_apply_actions : BOOLEAN, auto_apply_requires_consent : BOOLEAN,
              always_apply_actions : SUBSET ActionType,
              never_apply_actions : SUBSET ActionType]

ASSUME ApplierAssumption ==
  /\ N \in Nat \ {0}
  /\ \A i \in Idx : IsAction(Actions[i], i)
  /\ Agents \subseteq AgentSpec \cup {NoSpec}
  /\ NoSpec \notin AgentSpec
  /\ NoSession \notin Sessions
  /\ MaxFaults \in Nat

VARIABLES
  run,        \* the finished run: its status, its agent, its findings.auto_apply
  delivery,   \* the run.completed push
  rows,       \* status of each run_actions row, "none" before it exists
  holder,     \* the session whose claim an "applying" row carries
  lapsed,     \* "applying" rows whose updated_at is older than _CLAIM_LEASE
  at,         \* where each session stands
  kind,       \* what each session serves: a push or an apply-all
  view,       \* the statuses a session's row objects show
  todo,       \* the units a session has yet to dispatch
  unit,       \* the unit a session is dispatching
  known,      \* the rows in a session's results_by_ref
  outcome,    \* the ActionResult a session was given
  performed,  \* how often an action took effect: 0, 1, or 2 for more than once
  overtaken,  \* rows taken over from a session at work that had outlived its lease
  crashes,    \* how many sessions have died
  overruns    \* how many claims have lapsed under a session at work

rowVars     == <<rows, holder, lapsed>>
sessionVars == <<at, kind, view, todo, unit, known, outcome>>
faults      == <<overtaken, crashes, overruns>>
vars        == <<run, delivery, rowVars, sessionVars, performed, faults>>

RowStatus == {"none", "pending", "applying", "applied", "failed"}
At        == {"idle", "load", "insert", "claim", "apply", "stamp"}

TypeOK ==
  /\ run \in [status : {"succeeded", "failed"}, agent : Agents, consent : BOOLEAN]
  /\ delivery \in {"queued", "acked"}
  /\ rows \in [Idx -> RowStatus]
  /\ holder \in [Idx -> Sessions \cup {NoSession}]
  /\ lapsed \in SUBSET Idx
  /\ at \in [Sessions -> At]
  /\ kind \in [Sessions -> {"push", "manual"}]
  /\ view \in [Sessions -> [Idx -> RowStatus]]
  /\ todo \in [Sessions -> SUBSET (SUBSET Idx)]
  /\ unit \in [Sessions -> SUBSET Idx]
  /\ known \in [Sessions -> SUBSET Idx]
  /\ outcome \in [Sessions -> {"applied", "failed"}]
  /\ performed \in [Idx -> 0..2]
  /\ overtaken \in SUBSET Idx
  /\ crashes \in 0..MaxFaults
  /\ overruns \in 0..MaxFaults

NoRows == [i \in Idx |-> "none"]

\* finalize_run has stored the summary, whatever the verdict, and published;
\* "failed" stands for "timed_out" too.  findings.auto_apply is looked at for
\* agents that require consent only.
Init ==
  /\ run \in [status : {"succeeded", "failed"}, agent : Agents, consent : BOOLEAN]
  /\ run.consent => run.agent # NoSpec /\ run.agent.auto_apply_requires_consent
  /\ delivery = "queued"
  /\ rows = NoRows
  /\ holder = [i \in Idx |-> NoSession]
  /\ lapsed = {}
  /\ at = [s \in Sessions |-> "idle"]
  /\ kind = [s \in Sessions |-> "push"]
  /\ view = [s \in Sessions |-> NoRows]
  /\ todo = [s \in Sessions |-> {}]
  /\ unit = [s \in Sessions |-> {}]
  /\ known = [s \in Sessions |-> {}]
  /\ outcome = [s \in Sessions |-> "failed"]
  /\ performed = [i \in Idx |-> 0]
  /\ overtaken = {}
  /\ crashes = 0
  /\ overruns = 0

-----------------------------------------------------------------------------
(* What may be applied without a person                                    *)

\* _auto_apply_blocker is None: findings.auto_apply must be True itself.
RunLevelAutoApply ==
  /\ run.agent # NoSpec
  /\ run.agent.auto_apply_actions
  /\ run.agent.auto_apply_requires_consent => run.consent

\* Mutant of ShouldAutoApply: the overrides are tried in the other order.
AlwaysBeatsNever(type) ==
  /\ run.agent # NoSpec
  /\ type \in run.agent.always_apply_actions \/ RunLevelAutoApply

ShouldAutoApply(type) ==
  /\ run.agent # NoSpec
  /\ type \notin run.agent.never_apply_actions
  /\ type \in run.agent.always_apply_actions \/ RunLevelAutoApply

Eligible == {i \in Idx : ShouldAutoApply(Actions[i].type)}

\* The rows a session hands to _apply_pending_rows.
Chosen(s) == IF kind[s] = "push" THEN Eligible ELSE Idx

-----------------------------------------------------------------------------
(* A session's life                                                        *)

\* The handler returns, raises, or dies: its objects are gone, and with a
\* claim of its own outstanding nobody is left to carry it out.
EndSession(s) ==
  /\ at' = [at EXCEPT ![s] = "idle"]
  /\ kind' = [kind EXCEPT ![s] = "push"]
  /\ view' = [view EXCEPT ![s] = NoRows]
  /\ todo' = [todo EXCEPT ![s] = {}]
  /\ unit' = [unit EXCEPT ![s] = {}]
  /\ known' = [known EXCEPT ![s] = {}]
  /\ outcome' = [outcome EXCEPT ![s] = "failed"]
  /\ holder' = [i \in Idx |-> IF holder[i] = s THEN NoSession ELSE holder[i]]

\* The handler returns.  A push answers 204, which acknowledges the event.
Return(s) ==
  /\ EndSession(s)
  /\ delivery' = IF kind[s] = "push" THEN "acked" ELSE delivery

\* The event is delivered, at least once and however often: an acknowledged
\* one may come again.  A run that did not succeed is left alone.
PushArrives(s) ==
  /\ at[s] = "idle"
  /\ IF run.status = "succeeded"
       THEN at' = [at EXCEPT ![s] = "load"] /\ UNCHANGED delivery
       ELSE delivery' = "acked" /\ UNCHANGED at
  /\ UNCHANGED <<run, rowVars, kind, view, todo, unit, known, outcome, performed, faults>>

\* POST /runs/{run_id}/actions/apply.
PersonApplies(s) ==
  /\ at[s] = "idle"
  /\ at' = [at EXCEPT ![s] = "load"]
  /\ kind' = [kind EXCEPT ![s] = "manual"]
  /\ UNCHANGED <<run, delivery, rowVars, view, todo, unit, known, outcome, performed, faults>>

\* ensure_action_rows: the SELECT ...
LoadRows(s) ==
  /\ at[s] = "load"
  /\ view' = [view EXCEPT ![s] = rows]
  /\ at' = [at EXCEPT ![s] = "insert"]
  /\ UNCHANGED <<run, delivery, rowVars, kind, todo, unit, known, outcome, performed, faults>>

Missing(s) == {i \in Idx : view[s][i] = "none"}

\* ... and the INSERTs with their commit, which uq_run_actions_run_idx lets
\* one of two sessions win; the other answers 500.
InsertRows(s) ==
  /\ at[s] = "insert"
  /\ \A i \in Missing(s) : rows[i] = "none"
  /\ rows' = [i \in Idx |-> IF i \in Missing(s) THEN "pending" ELSE rows[i]]
  /\ view' = [view EXCEPT ![s] = [i \in Idx |-> IF @[i] = "none" THEN "pending" ELSE @[i]]]
  /\ at' = [at EXCEPT ![s] = "claim"]
  /\ UNCHANGED <<run, delivery, holder, lapsed, kind, todo, unit, known, outcome, performed, faults>>

InsertLoses(s) ==
  /\ at[s] = "insert"
  /\ \E i \in Missing(s) : rows[i] # "none"
  /\ EndSession(s)
  /\ UNCHANGED <<run, delivery, rows, lapsed, performed, faults>>

-----------------------------------------------------------------------------
(* _claim_for_apply                                                        *)

Wanted(s) == {i \in Chosen(s) : view[s][i] # "applied"}

\* Mutant of Claimable: an abandoned claim is not told from a live one.
ClaimableAnyway(i) == rows[i] \in {"pending", "failed", "applying"}

\* Mutant of Claimable: an abandoned claim is never taken over.
NoTakeover(i) == rows[i] \in {"pending", "failed"}

Claimable(i) == rows[i] \in {"pending", "failed"} \/ (rows[i] = "applying" /\ i \in lapsed)

NothingWanted(s) ==
  /\ at[s] = "claim"
  /\ Wanted(s) = {}
  /\ Return(s)
  /\ UNCHANGED <<run, rows, lapsed, performed, faults>>

\* Mutant of Claim: what can be had is claimed, the rest is left to others.
ClaimSome(s) ==
  LET mine == {i \in Wanted(s) : Claimable(i)} IN
  /\ at[s] = "claim"
  /\ mine # {}
  /\ rows' = [i \in Idx |-> IF i \in mine THEN "applying" ELSE rows[i]]
  /\ holder' = [i \in Idx |-> IF i \in mine THEN s ELSE holder[i]]
  /\ lapsed' = lapsed \ mine
  /\ overtaken' = overtaken \cup {i \in mine \cap lapsed : holder[i] # NoSession}
  /\ view' = [view EXCEPT ![s] = [i \in Idx |-> IF i \in mine THEN "applying" ELSE @[i]]]
  /\ todo' = [todo EXCEPT ![s] = Units(Actions, mine)]
  /\ known' = [known EXCEPT ![s] = {i \in Chosen(s) : view[s][i] = "applied"}]
  /\ at' = [at EXCEPT ![s] = "apply"]
  /\ UNCHANGED <<run, delivery, kind, unit, outcome, performed, crashes, overruns>>

\* One UPDATE takes every wanted row and is committed, from a session that is
\* still at work if its lease is over.  results_by_ref starts from the rows at
\* hand that show as applied.
Claim(s) ==
  /\ at[s] = "claim"
  /\ Wanted(s) # {}
  /\ \A i \in Wanted(s) : Claimable(i)
  /\ rows' = [i \in Idx |-> IF i \in Wanted(s) THEN "applying" ELSE rows[i]]
  /\ holder' = [i \in Idx |-> IF i \in Wanted(s) THEN s ELSE holder[i]]
  /\ lapsed' = lapsed \ Wanted(s)
  /\ overtaken' = overtaken \cup {i \in Wanted(s) \cap lapsed : holder[i] # NoSession}
  /\ view' = [view EXCEPT ![s] = [i \in Idx |-> IF i \in Wanted(s) THEN "applying" ELSE @[i]]]
  /\ todo' = [todo EXCEPT ![s] = Units(Actions, Wanted(s))]
  /\ known' = [known EXCEPT ![s] = {i \in Chosen(s) : view[s][i] = "applied"}]
  /\ at' = [at EXCEPT ![s] = "apply"]
  /\ UNCHANGED <<run, delivery, kind, unit, outcome, performed, crashes, overruns>>

\* Mutant of ClaimRefused: what the UPDATE did take is not rolled back.
PartKept(s) ==
  LET mine == {i \in Wanted(s) : Claimable(i)} IN
  /\ at[s] = "claim"
  /\ mine # Wanted(s)
  /\ Return(s)
  /\ rows' = [i \in Idx |-> IF i \in mine THEN "applying" ELSE rows[i]]
  /\ lapsed' = lapsed \ mine
  /\ UNCHANGED <<run, performed, faults>>

\* It did not: the claim is rolled back and nothing is applied.  The rollback
\* expires the session's objects, so a push that goes on to log what it holds
\* for review (`run.run_id`) raises, and answers 500.
ClaimRefused(s) ==
  /\ at[s] = "claim"
  /\ \E i \in Wanted(s) : ~Claimable(i)
  /\ IF kind[s] = "push" /\ Eligible # Idx
       THEN EndSession(s) /\ UNCHANGED delivery
       ELSE Return(s)
  /\ UNCHANGED <<run, rows, lapsed, performed, faults>>

-----------------------------------------------------------------------------
(* _apply_pending_rows                                                     *)

Unresolved(s, i) == Actions[i].refs \ known[s]

\* The handler is called with the params resolved as far as they can be.  It
\* takes effect or not and succeeds or not, but does not succeed in vain: a
\* call that timed out may have taken effect.
Call(s) ==
  /\ at[s] = "apply"
  /\ todo[s] # {}
  /\ LET u == NextUnit(todo[s]) IN
       /\ unit' = [unit EXCEPT ![s] = u]
       /\ todo' = [todo EXCEPT ![s] = @ \ {u}]
       /\ \/ /\ performed' = [i \in Idx |->
                  IF i \in u /\ performed[i] < 2 THEN performed[i] + 1 ELSE performed[i]]
             /\ \E o \in {"applied", "failed"} : outcome' = [outcome EXCEPT ![s] = o]
          \/ /\ outcome' = [outcome EXCEPT ![s] = "failed"]
             /\ UNCHANGED performed
  /\ at' = [at EXCEPT ![s] = "stamp"]
  /\ UNCHANGED <<run, delivery, rowVars, kind, view, known, faults>>

\* Mutant of Stamp: only the anchor of a group is stamped.
StampAnchor(s) ==
  /\ at[s] = "stamp"
  /\ rows' = [rows EXCEPT ![Max(unit[s])] = outcome[s]]
  /\ holder' = [holder EXCEPT ![Max(unit[s])] = NoSession]
  /\ lapsed' = lapsed \ {Max(unit[s])}
  /\ known' = [known EXCEPT ![s] = IF outcome[s] = "applied" THEN @ \cup unit[s] ELSE @]
  /\ unit' = [unit EXCEPT ![s] = {}]
  /\ outcome' = [outcome EXCEPT ![s] = "failed"]
  /\ at' = [at EXCEPT ![s] = "apply"]
  /\ UNCHANGED <<run, delivery, kind, view, todo, performed, faults>>

\* The unit's rows are stamped and committed, whoever holds them by now.
Stamp(s) ==
  /\ at[s] = "stamp"
  /\ rows' = [i \in Idx |-> IF i \in unit[s] THEN outcome[s] ELSE rows[i]]
  /\ holder' = [i \in Idx |-> IF i \in unit[s] THEN NoSession ELSE holder[i]]
  /\ lapsed' = lapsed \ unit[s]
  /\ view' = [view EXCEPT ![s] = [i \in Idx |-> IF i \in unit[s] THEN outcome[s] ELSE @[i]]]
  /\ known' = [known EXCEPT ![s] = IF outcome[s] = "applied" THEN @ \cup unit[s] ELSE @]
  /\ unit' = [unit EXCEPT ![s] = {}]
  /\ outcome' = [outcome EXCEPT ![s] = "failed"]
  /\ at' = [at EXCEPT ![s] = "apply"]
  /\ UNCHANGED <<run, delivery, kind, todo, performed, faults>>

Done(s) ==
  /\ at[s] = "apply"
  /\ todo[s] = {}
  /\ Return(s)
  /\ UNCHANGED <<run, rows, lapsed, performed, faults>>

-----------------------------------------------------------------------------
\* The instance dies, or an await raises: nothing is acknowledged.
Crash(s) ==
  /\ at[s] # "idle"
  /\ crashes + overruns < MaxFaults
  /\ crashes' = crashes + 1
  /\ EndSession(s)
  /\ UNCHANGED <<run, delivery, rows, lapsed, performed, overtaken, overruns>>

\* Fifteen minutes after h's claim, whether or not h is still at work: the
\* claim was stamped for the whole chain, and no handler's call renews it.
LeaseLapses(h) ==
  LET claim == {i \in Idx \ lapsed : rows[i] = "applying" /\ holder[i] = h} IN
  /\ claim # {}
  /\ lapsed' = lapsed \cup claim
  /\ IF h = NoSession
       THEN UNCHANGED overruns
       ELSE crashes + overruns < MaxFaults /\ overruns' = overruns + 1
  /\ UNCHANGED <<run, delivery, rows, holder, sessionVars, performed, overtaken, crashes>>

Work(s) ==
  \/ LoadRows(s) \/ InsertRows(s) \/ InsertLoses(s)
  \/ NothingWanted(s) \/ Claim(s) \/ ClaimRefused(s)
  \/ Call(s) \/ Stamp(s) \/ Done(s)

Next ==
  \/ \E s \in Sessions : PushArrives(s) \/ PersonApplies(s) \/ Work(s) \/ Crash(s)
  \/ \E h \in Sessions \cup {NoSession} : LeaseLapses(h)

Spec == Init /\ [][Next]_vars

\* The API serves its requests, Pub/Sub pushes what is queued, time passes.
Fairness ==
  /\ \A s \in Sessions : WF_vars(Work(s))
  /\ WF_vars(delivery = "queued" /\ \E s \in Sessions : PushArrives(s))
  /\ WF_vars(LeaseLapses(NoSession))

FairSpec == Spec /\ Fairness

\* What the rows say of the actions under the promise.
Promise == INSTANCE ActionPromise WITH
  phase <- [i \in Idx |-> CASE i \in overtaken -> "void"
                            [] i \notin overtaken /\ rows[i] = "applying" -> "busy"
                            [] i \notin overtaken /\ rows[i] = "applied"  -> "done"
                            [] OTHER -> "open"],
  times <- performed

-----------------------------------------------------------------------------
(* Properties                                                              *)

Working(s) == at[s] \in {"apply", "stamp"}
Remaining(s) == unit[s] \cup UNION todo[s]

\* Claims and work agree: what a session has yet to dispatch or stamp is what
\* its claim covers, so no two sessions are at one action, and a pass that
\* ends leaves no row behind as "applying" (members of merged PUTs included).
\* A lease that runs out takes nothing away by itself; only a row that another
\* session then takes over is at two sessions at once, and no other row is.
ClaimsMatchWork ==
  \A s \in Sessions :
    Working(s) =>
      Remaining(s) \ overtaken = {i \in Idx \ overtaken : rows[i] = "applying" /\ holder[i] = s}

\* While a person is away only actions the agent's policy lets through take
\* effect, of succeeded runs only, and no coalesced PUT brings along one that
\* is held: without consent a consenting agent's actions wait, save those it
\* always applies, and an action it never applies waits in any case.
HeldNeedsPerson ==
  \A s \in Sessions : kind[s] = "push" => \A i \in unit[s] :
    LET type == Actions[i].type  agent == run.agent IN
      /\ run.status = "succeeded" /\ agent # NoSpec
      /\ type \notin agent.never_apply_actions
      /\ type \notin agent.always_apply_actions =>
           agent.auto_apply_actions /\ (run.consent \/ ~agent.auto_apply_requires_consent)

\* Redelivered events, repeated apply-alls, lost claims and crashed sessions
\* keep ActionPromise.  An action whose row was taken over from a session that
\* had outlived its lease and was still at work is void under the promise: both
\* sessions dispatch and stamp it, although "an already-`applied` row is never
\* re-applied" (actions_applier.py:9-10, docs/hackbot/actions.md:108).
KeepsPromise == Promise!Spec

\* "Resolution draws on rows already `applied` in earlier passes as well as
\* this one, so a later manual apply can still reference an earlier action's
\* result" (docs/hackbot/actions.md:148): a reference is dispatched unresolved
\* while the action it names is applied only if a push refers to an action that
\* its policy holds (it looks at the eligible rows alone, actions_applier.py:259,
\* although that one was applied in an earlier pass), if an apply-all has failed
\* at an eligible action that a push has applied since, or if one of the two
\* rows was taken over from a session at work.  An apply-all resolves all that
\* was applied before it claimed its rows.
EarlierResultsResolve ==
  \A s \in Sessions : at[s] = "apply" /\ todo[s] # {} =>
    \A i \in NextUnit(todo[s]) : \A j \in Unresolved(s, i) :
      rows[j] = "applied" =>
        \/ kind[s] = "push" /\ j \notin Eligible
        \/ kind[s] = "manual" /\ view[s][j] = "failed" /\ j \in Eligible /\ i \notin Eligible
        \/ {i, j} \cap overtaken # {}

\* Unless a session dies, the completion event alone sees to it that every
\* eligible action of a succeeded run is attempted and settled, again and again
\* if need be, whatever apply-alls interfere with the push.
EligibleAttempted ==
  \A i \in Idx :
    (run.status = "succeeded" /\ i \in Eligible)
      ~> (rows[i] \in {"applied", "failed"} \/ crashes > 0)

\* A person who looks after the run asks for its actions in the end.
Attended == \A s \in Sessions : SF_vars(PersonApplies(s))

\* However sessions die, no row stays "applying" when a person looks after the
\* run: the lease lets another session take the row over.
NobodyStuck ==
  Attended => \A i \in Idx : rows[i] = "applying" ~> rows[i] \in {"applied", "failed"}

=============================================================================
