---------------------------- MODULE RunLifecycle ----------------------------
(***************************************************************************)
(* The life of a run in services/hackbot-api: `create_run` claims a row    *)
(* and dispatches a Cloud Run execution, `finalize_run` brings the row to  *)
(* its terminal state.  finalize_run is entered by pushed completion       *)
(* events (routers/events.py) and by the stale-run sweep                   *)
(* (routers/maintenance.py), each in a database session of its own whose   *)
(* ORM objects are copies of the rows at the time they were loaded.        *)
(* Every step below is one stretch of code between two awaits.             *)
(***************************************************************************)
EXTENDS Naturals, FiniteSets

CONSTANTS
  Runs,                 \* run ids; a request draws its own, so also the requests
  Keys,                 \* dedupe keys, scoped to the agent
  NoKey, NoRun, NoRow,  \* the absent values
  KeyOf,                \* the (key, agent) each request carries, or NoKey
  ParentOf,             \* the parent_run_id each request names, or NoRun
  Requested,            \* the runs that carry a requested_by address
  Unfinalizable,        \* runs whose results can never be read back
  Sessions,             \* database sessions of pushes and sweeps
  SweepLimit            \* the sweep's `limit`

ASSUME RunsAssumption ==
  /\ IsFiniteSet(Runs)
  /\ KeyOf \in [Runs -> Keys \cup {NoKey}]
  /\ ParentOf \in [Runs -> Runs \cup {NoRun}]
  /\ NoKey \notin Keys
  /\ NoRun \notin Runs
  /\ Requested \subseteq Runs
  /\ Unfinalizable \subseteq Runs
  /\ SweepLimit \in Nat \ {0}

VARIABLES
  row,        \* the runs table
  request,    \* where each create_run request stands
  answer,     \* the run named in the request's 200 or 201 answer
  execution,  \* the run's Cloud Run execution
  forgotten,  \* executions whose record Cloud Run has deleted
  results,    \* summary.json in the run's GCS prefix
  event,      \* the pushed completion event of the run's execution
  aged,       \* runs older than the sweep's min_age
  at,         \* where each session stands
  kind,       \* what each session handles: a push or a sweep
  cur,        \* the run a session is finalizing
  view,       \* the ORM objects a session holds
  seen,       \* the execution status a session was told
  got,        \* the summary a session read
  todo,       \* runs a sweep has yet to visit
  tx,         \* whether a sweep's session has a transaction open
  completed,  \* run.completed events published, by status
  emails,     \* notices mailed to the requester
  overlapped  \* a ghost: runs that two sessions held at once, at some time

tableVars   == <<row, answer, request>>
cloudVars   == <<execution, forgotten, results, event, aged>>
sessionVars == <<at, kind, cur, view, seen, got, todo, tx>>
outVars     == <<completed, emails, overlapped>>
vars        == <<tableVars, cloudVars, sessionVars, outVars>>

Terminal      == {"succeeded", "failed", "timed_out"}
RunStatus     == {"pending", "running"} \cup Terminal
Summary       == {"none", "ok", "error"}
ExecutionDone == {"succeeded", "failed", "cancelled"}
Execution     == {"none", "pending", "running"} \cup ExecutionDone
ExecutionStatus == Execution \cup {"gone", "unknown"}
Request       == {"idle", "checked", "dispatching", "triggered", "refused",
                  "answered", "rejected", "crashed"}
At            == {"idle", "next", "poll", "polled", "read", "publish", "notify"}

\* A row of `runs`.  `named` stands for execution_name IS NOT NULL, and
\* `finalized` for finalized_at IS NOT NULL; `created` orders by created_at.
Row == [status : RunStatus, named : BOOLEAN, summary : Summary,
        finalized : BOOLEAN, created : Nat]

ASSUME NoRowAssumption == NoRow \notin Row

Rows == {r \in Runs : row[r] # NoRow}

TypeOK ==
  /\ row \in [Runs -> Row \cup {NoRow}]
  /\ request \in [Runs -> Request]
  /\ answer \in [Runs -> Runs \cup {NoRun}]
  /\ execution \in [Runs -> Execution]
  /\ forgotten \in SUBSET Runs
  /\ results \in [Runs -> Summary]
  /\ event \in [Runs -> {"none", "queued", "acked"}]
  /\ aged \in SUBSET Runs
  /\ at \in [Sessions -> At]
  /\ kind \in [Sessions -> {"push", "sweep"}]
  /\ cur \in [Sessions -> Runs \cup {NoRun}]
  /\ view \in [Sessions -> [Runs -> Row \cup {NoRow}]]
  /\ seen \in [Sessions -> ExecutionStatus]
  /\ got \in [Sessions -> Summary]
  /\ todo \in [Sessions -> SUBSET Runs]
  /\ tx \in [Sessions -> BOOLEAN]
  /\ completed \in [Runs -> [Terminal -> Nat]]
  /\ emails \in [Runs -> Nat]
  /\ overlapped \in SUBSET Runs

Nothing == [r \in Runs |-> NoRow]

Init ==
  /\ row = Nothing
  /\ request = [r \in Runs |-> "idle"]
  /\ answer = [r \in Runs |-> NoRun]
  /\ execution = [r \in Runs |-> "none"]
  /\ forgotten = {}
  /\ results = [r \in Runs |-> "none"]
  /\ event = [r \in Runs |-> "none"]
  /\ aged = {}
  /\ at = [s \in Sessions |-> "idle"]
  /\ kind = [s \in Sessions |-> "push"]
  /\ cur = [s \in Sessions |-> NoRun]
  /\ view = [s \in Sessions |-> Nothing]
  /\ seen = [s \in Sessions |-> "unknown"]
  /\ got = [s \in Sessions |-> "none"]
  /\ todo = [s \in Sessions |-> {}]
  /\ tx = [s \in Sessions |-> FALSE]
  /\ completed = [r \in Runs |-> [t \in Terminal |-> 0]]
  /\ emails = [r \in Runs |-> 0]
  /\ overlapped = {}

-----------------------------------------------------------------------------
(* create_run                                                              *)

\* Mutant of Holders: an index that lets a failed run go.
LiveHolders(r) ==
  {q \in Rows : KeyOf[q] = KeyOf[r] /\ KeyOf[r] # NoKey /\ row[q].status # "failed"}

\* Runs that already hold r's dedupe key.  NULL keys never collide.
Holders(r) == {q \in Rows : KeyOf[q] = KeyOf[r] /\ KeyOf[r] # NoKey}

\* Mutant of CheckParent: any existing parent will do.
CheckParentExists(r) ==
  /\ request[r] = "idle"
  /\ ParentOf[r] # NoRun
  /\ request' = [request EXCEPT ![r] =
       IF row[ParentOf[r]] # NoRow THEN "checked" ELSE "rejected"]
  /\ UNCHANGED <<row, answer, cloudVars, sessionVars, outVars>>

\* A chained run needs a parent that has succeeded, else 422.
CheckParent(r) ==
  /\ request[r] = "idle"
  /\ ParentOf[r] # NoRun
  /\ LET p == ParentOf[r] IN
       request' = [request EXCEPT ![r] =
         IF row[p] # NoRow /\ row[p].status = "succeeded"
           THEN "checked" ELSE "rejected"]
  /\ UNCHANGED <<row, answer, cloudVars, sessionVars, outVars>>

ReadyToInsert(r) ==
  request[r] = IF ParentOf[r] = NoRun THEN "idle" ELSE "checked"

\* INSERT ... ON CONFLICT DO NOTHING, committed at once: the row is the claim.
Insert(r) ==
  /\ ReadyToInsert(r)
  /\ Holders(r) = {}
  /\ row' = [row EXCEPT ![r] = [status |-> "pending", named |-> FALSE,
                                summary |-> "none", finalized |-> FALSE,
                                created |-> Cardinality(Rows)]]
  /\ request' = [request EXCEPT ![r] = "dispatching"]
  /\ UNCHANGED <<answer, cloudVars, sessionVars, outVars>>

\* The unique index turned the insert away: answer with the run that won.
Deduplicate(r) ==
  /\ ReadyToInsert(r)
  /\ \E q \in Holders(r) : answer' = [answer EXCEPT ![r] = q]
  /\ request' = [request EXCEPT ![r] = "answered"]
  /\ UNCHANGED <<row, cloudVars, sessionVars, outVars>>

\* jobs.trigger_execution.  Cloud Run may accept the job and the call still
\* raise, so the error path does not tell whether an execution exists.
Trigger(r) ==
  /\ request[r] = "dispatching"
  /\ \/ /\ execution' = [execution EXCEPT ![r] = "pending"]
        /\ \E a \in {"triggered", "refused"} : request' = [request EXCEPT ![r] = a]
     \/ /\ request' = [request EXCEPT ![r] = "refused"]
        /\ UNCHANGED execution
  /\ UNCHANGED <<row, answer, forgotten, results, event, aged, sessionVars, outVars>>

\* The except branch: status and error are stored, finalized_at stays NULL,
\* and the caller gets a 502.
RecordFailure(r) ==
  /\ request[r] = "refused"
  /\ row' = [row EXCEPT ![r].status = "failed"]
  /\ request' = [request EXCEPT ![r] = "rejected"]
  /\ UNCHANGED <<answer, cloudVars, sessionVars, outVars>>

RecordExecution(r) ==
  /\ request[r] = "triggered"
  /\ row' = [row EXCEPT ![r].named = TRUE]
  /\ request' = [request EXCEPT ![r] = "answered"]
  /\ answer' = [answer EXCEPT ![r] = r]
  /\ UNCHANGED <<cloudVars, sessionVars, outVars>>

\* The API instance dies with the request half done.
CreateCrash(r) ==
  /\ request[r] \in {"dispatching", "triggered", "refused"}
  /\ request' = [request EXCEPT ![r] = "crashed"]
  /\ UNCHANGED <<row, answer, cloudVars, sessionVars, outVars>>

CreateRun(r) ==
  \/ CheckParent(r) \/ Insert(r) \/ Deduplicate(r) \/ Trigger(r)
  \/ RecordFailure(r) \/ RecordExecution(r) \/ CreateCrash(r)

-----------------------------------------------------------------------------
(* The execution platform (external)                                       *)

StartExecution(r) ==
  /\ execution[r] = "pending"
  /\ execution' = [execution EXCEPT ![r] = "running"]
  /\ UNCHANGED <<forgotten, results, event, aged, tableVars, sessionVars, outVars>>

\* The agent's runtime uploads summary.json while its container lives.
WriteSummary(r) ==
  /\ execution[r] = "running"
  /\ results[r] = "none"
  /\ \E x \in {"ok", "error"} : results' = [results EXCEPT ![r] = x]
  /\ UNCHANGED <<execution, forgotten, event, aged, tableVars, sessionVars, outVars>>

\* Success, a non-zero exit (or OOM), or a cancellation; the completion log
\* entry is routed to the agent-run-finished push subscription.
CompleteExecution(r) ==
  /\ \/ execution[r] = "running"
        /\ \E x \in ExecutionDone : execution' = [execution EXCEPT ![r] = x]
     \/ execution[r] = "pending"
        /\ execution' = [execution EXCEPT ![r] = "cancelled"]
  /\ event' = [event EXCEPT ![r] = "queued"]
  /\ UNCHANGED <<forgotten, results, aged, tableVars, sessionVars, outVars>>

\* Cloud Run deletes old executions (it keeps the last thousand of a job),
\* long after the sessions that loaded the run beside its end are over.
ForgetExecution(r) ==
  /\ execution[r] \in ExecutionDone
  /\ r \notin forgotten
  /\ \A s \in Sessions : view[s][r] = NoRow
  /\ forgotten' = forgotten \cup {r}
  /\ UNCHANGED <<execution, results, event, aged, tableVars, sessionVars, outVars>>

\* min_age_minutes pass.  create_run, whose calls time out, is over by then.
Age(r) ==
  /\ r \in Rows \ aged
  /\ request[r] \in {"answered", "rejected", "crashed"}
  /\ aged' = aged \cup {r}
  /\ UNCHANGED <<execution, forgotten, results, event, tableVars, sessionVars, outVars>>

Platform(r) ==
  \/ StartExecution(r) \/ WriteSummary(r) \/ CompleteExecution(r)
  \/ ForgetExecution(r) \/ Age(r)

-----------------------------------------------------------------------------
(* Sessions: where the code around finalize_run goes next                  *)

\* The request handler returns, or dies: its session and objects are gone.
EndSession(s) ==
  /\ at' = [at EXCEPT ![s] = "idle"]
  /\ kind' = [kind EXCEPT ![s] = "push"]
  /\ cur' = [cur EXCEPT ![s] = NoRun]
  /\ view' = [view EXCEPT ![s] = Nothing]
  /\ seen' = [seen EXCEPT ![s] = "unknown"]
  /\ got' = [got EXCEPT ![s] = "none"]
  /\ todo' = [todo EXCEPT ![s] = {}]
  /\ tx' = [tx EXCEPT ![s] = FALSE]

\* The sweep's loop goes on to its next run, its transaction open or not.
Resume(s, open) ==
  /\ at' = [at EXCEPT ![s] = "next"]
  /\ cur' = [cur EXCEPT ![s] = NoRun]
  /\ view' = [view EXCEPT ![s][cur[s]] = NoRow]
  /\ seen' = [seen EXCEPT ![s] = "unknown"]
  /\ got' = [got EXCEPT ![s] = "none"]
  /\ tx' = [tx EXCEPT ![s] = open]
  /\ UNCHANGED <<kind, todo>>

\* finalize_run returned: a push answers 204, which acknowledges the event.
Finish(s, open) ==
  IF kind[s] = "push"
    THEN EndSession(s) /\ event' = [event EXCEPT ![cur[s]] = "acked"]
    ELSE Resume(s, open) /\ UNCHANGED event

\* The runs of S that some session holds, which loaded and did not leave them.
HeldOf(S) == {r \in S : \E t \in Sessions : view[t][r] # NoRow}

\* Mutant of PushFinds: a finalized run is finalized again.
PushAlwaysFinalizes(s, r) ==
  /\ at[s] = "idle"
  /\ event[r] # "none"
  /\ row[r] # NoRow /\ row[r].named
  /\ at' = [at EXCEPT ![s] = "poll"]
  /\ cur' = [cur EXCEPT ![s] = r]
  /\ view' = [view EXCEPT ![s][r] = row[r]]
  /\ overlapped' = overlapped \cup HeldOf({r})
  /\ UNCHANGED <<event, kind, seen, got, todo, tx, execution, forgotten, results, aged,
                 tableVars, completed, emails>>

\* agent_run_finished found the run.  One that its query shows as finalized
\* is acknowledged at once.
PushFinds(s, r) ==
  /\ at[s] = "idle"
  /\ event[r] # "none"
  /\ row[r] # NoRow /\ row[r].named
  /\ IF row[r].finalized
       THEN event' = [event EXCEPT ![r] = "acked"] /\ UNCHANGED <<sessionVars, overlapped>>
       ELSE /\ at' = [at EXCEPT ![s] = "poll"]
            /\ cur' = [cur EXCEPT ![s] = r]
            /\ view' = [view EXCEPT ![s][r] = row[r]]
            /\ overlapped' = overlapped \cup HeldOf({r})
            /\ UNCHANGED <<event, kind, seen, got, todo, tx>>
  /\ UNCHANGED <<execution, forgotten, results, aged, tableVars, completed, emails>>

\* No row carries the execution's name (yet): "No run found", and a 204.
PushMisses(r) ==
  /\ event[r] = "queued"
  /\ row[r] = NoRow \/ ~row[r].named
  /\ event' = [event EXCEPT ![r] = "acked"]
  /\ UNCHANGED <<execution, forgotten, results, aged, tableVars, sessionVars, outVars>>

\* Mutant of Stale: only runs that have an execution.
NamedOnly == {r \in Rows \cap aged : ~row[r].finalized /\ row[r].named}

Stale == {r \in Rows \cap aged : ~row[r].finalized}
Older(q, r) == row[q].created < row[r].created

\* finalize_stale_runs loads every run it will visit in one query.
SweepLoad(s) ==
  /\ at[s] = "idle"
  /\ LET loaded == {r \in Stale :
                      Cardinality({q \in Stale : Older(q, r)}) < SweepLimit}
     IN /\ loaded # {}
        /\ todo' = [todo EXCEPT ![s] = loaded]
        /\ view' = [view EXCEPT ![s] =
                      [r \in Runs |-> IF r \in loaded THEN row[r] ELSE NoRow]]
        /\ overlapped' = overlapped \cup HeldOf(loaded)
  /\ at' = [at EXCEPT ![s] = "next"]
  /\ kind' = [kind EXCEPT ![s] = "sweep"]
  /\ tx' = [tx EXCEPT ![s] = TRUE]
  /\ UNCHANGED <<cur, seen, got, tableVars, cloudVars, completed, emails>>

SweepVisit(s) ==
  /\ at[s] = "next"
  /\ \E r \in todo[s] :
       /\ \A q \in todo[s] \ {r} : view[s][r].created < view[s][q].created
       /\ cur' = [cur EXCEPT ![s] = r]
       /\ todo' = [todo EXCEPT ![s] = @ \ {r}]
  /\ at' = [at EXCEPT ![s] = "poll"]
  /\ UNCHANGED <<kind, view, seen, got, tx, tableVars, cloudVars, outVars>>

SweepEnd(s) ==
  /\ at[s] = "next"
  /\ todo[s] = {}
  /\ EndSession(s)
  /\ UNCHANGED <<tableVars, cloudVars, outVars>>

-----------------------------------------------------------------------------
(* finalize_run                                                            *)

\* What Cloud Run says of r's execution: NotFound reads as "gone".
StatusOf(r) == IF r \in forgotten THEN "gone" ELSE execution[r]

\* jobs.get_execution_status: by the name the session's object carries.
Poll(s) ==
  /\ at[s] = "poll"
  /\ seen' = [seen EXCEPT ![s] = IF view[s][cur[s]].named
                                   THEN StatusOf(cur[s]) ELSE "unknown"]
  /\ at' = [at EXCEPT ![s] = "polled"]
  /\ UNCHANGED <<kind, cur, view, got, todo, tx, tableVars, cloudVars, outVars>>

\* The execution has not ended and the row needs no change.
StillGoing(s) ==
  /\ at[s] = "polled"
  /\ \/ seen[s] = "pending"
     \/ seen[s] = "running" /\ view[s][cur[s]].status # "pending"
  /\ Finish(s, tx[s])
  /\ UNCHANGED <<execution, forgotten, results, aged, tableVars, outVars>>

\* Mutant of MarkRunning: the whole object is written back.
MarkRunningWholeRow(s) ==
  /\ at[s] = "polled"
  /\ seen[s] = "running"
  /\ view[s][cur[s]].status = "pending"
  /\ row' = [row EXCEPT ![cur[s]] = [view[s][cur[s]] EXCEPT !.status = "running"]]
  /\ Finish(s, FALSE)
  /\ UNCHANGED <<request, answer, execution, forgotten, results, aged, outVars>>

\* The guard reads the session's object, the commit writes the table.
MarkRunning(s) ==
  /\ at[s] = "polled"
  /\ seen[s] = "running"
  /\ view[s][cur[s]].status = "pending"
  /\ row' = [row EXCEPT ![cur[s]].status = "running"]
  /\ Finish(s, FALSE)
  /\ UNCHANGED <<request, answer, execution, forgotten, results, aged, outVars>>

ReadResults(s) ==
  /\ at[s] = "polled"
  /\ seen[s] \notin {"pending", "running"}
  /\ cur[s] \notin Unfinalizable
  /\ got' = [got EXCEPT ![s] = results[cur[s]]]
  /\ at' = [at EXCEPT ![s] = "read"]
  /\ UNCHANGED <<kind, cur, view, seen, todo, tx, tableVars, cloudVars, outVars>>

\* Mutant of TerminalStatus: the summary alone.
SummaryDecides(status, summary) ==
  IF status = "cancelled" THEN "timed_out"
  ELSE IF summary = "ok" THEN "succeeded" ELSE "failed"

TerminalStatus(status, summary) ==
  IF status = "cancelled" THEN "timed_out"
  ELSE IF summary = "ok" /\ status \in {"succeeded", "gone"} THEN "succeeded"
  ELSE "failed"

\* Mutant of Commit: the summary is not stored.
CommitStatusOnly(s) ==
  /\ at[s] = "read"
  /\ LET r   == cur[s]
         new == TerminalStatus(seen[s], got[s])
     IN /\ row' = [row EXCEPT ![r].status = new, ![r].finalized = TRUE]
        /\ view' = [view EXCEPT ![s][r].status = new, ![s][r].finalized = TRUE]
  /\ at' = [at EXCEPT ![s] = "publish"]
  /\ tx' = [tx EXCEPT ![s] = FALSE]
  /\ UNCHANGED <<request, answer, kind, cur, seen, got, todo, cloudVars, outVars>>

\* The ORM writes the columns that differ from what this session loaded.
Commit(s) ==
  /\ at[s] = "read"
  /\ LET r   == cur[s]
         new == TerminalStatus(seen[s], got[s])
     IN /\ row' = [row EXCEPT
             ![r].status = IF new = view[s][r].status THEN @ ELSE new,
             ![r].summary = IF got[s] = "none" THEN @ ELSE got[s],
             ![r].finalized = TRUE]
        /\ view' = [view EXCEPT ![s][r].status = new, ![s][r].finalized = TRUE]
  /\ at' = [at EXCEPT ![s] = "publish"]
  /\ tx' = [tx EXCEPT ![s] = FALSE]
  /\ UNCHANGED <<request, answer, kind, cur, seen, got, todo, cloudVars, outVars>>

\* Best effort: a publish that fails is logged.  A push then mails the
\* requester, if the run has one.
Publish(s) ==
  /\ at[s] = "publish"
  /\ LET r == cur[s] IN
       \/ completed' = [completed EXCEPT ![r][view[s][r].status] = @ + 1]
       \/ UNCHANGED completed
  /\ IF kind[s] = "push" /\ cur[s] \in Requested
       THEN /\ at' = [at EXCEPT ![s] = "notify"]
            /\ UNCHANGED <<kind, cur, view, seen, got, todo, tx, event>>
       ELSE Finish(s, tx[s])
  /\ UNCHANGED <<execution, forgotten, results, aged, tableVars, emails, overlapped>>

\* notify_requester never raises; SendGrid may refuse the mail.
Notify(s) ==
  /\ at[s] = "notify"
  /\ \/ emails' = [emails EXCEPT ![cur[s]] = @ + 1]
     \/ UNCHANGED emails
  /\ Finish(s, tx[s])
  /\ UNCHANGED <<execution, forgotten, results, aged, tableVars, completed, overlapped>>

\* An await of finalize_run raises.  A push answers 500 and stays queued.
PushError(s) ==
  /\ kind[s] = "push"
  /\ at[s] \in {"poll", "polled", "read"}
  /\ EndSession(s)
  /\ UNCHANGED <<tableVars, cloudVars, outVars>>

\* The sweep rolls back and goes on.  But rolling back an open transaction
\* expires every object of the session, and the handler's next attribute
\* access then raises outside SQLAlchemy's greenlet: the sweep ends.
SweepError(s) ==
  /\ kind[s] = "sweep"
  /\ at[s] \in {"poll", "polled", "read"}
  /\ IF tx[s] \/ at[s] = "read" THEN EndSession(s) ELSE Resume(s, FALSE)
  /\ UNCHANGED <<tableVars, cloudVars, outVars>>

\* The instance serving the session dies.
SessionCrash(s) ==
  /\ at[s] # "idle"
  /\ EndSession(s)
  /\ UNCHANGED <<tableVars, cloudVars, outVars>>

Finalize(s) ==
  \/ Poll(s) \/ StillGoing(s) \/ MarkRunning(s) \/ ReadResults(s)
  \/ Commit(s) \/ Publish(s) \/ Notify(s)

Session(s) ==
  \/ \E r \in Runs : PushFinds(s, r)
  \/ SweepLoad(s) \/ SweepVisit(s) \/ SweepEnd(s)
  \/ Finalize(s) \/ PushError(s) \/ SweepError(s) \/ SessionCrash(s)

Next ==
  \/ \E r \in Runs : CreateRun(r) \/ Platform(r) \/ PushMisses(r)
  \/ \E s \in Sessions : Session(s)

Spec == Init /\ [][Next]_vars

\* The API process runs its requests, Cloud Run ends every execution (the job
\* has a timeout) and pushes what is queued, the sweep is called again and
\* again, a call returns or raises, and one that is retried forever succeeds
\* once, as does an instance that is restarted forever.
Fairness ==
  /\ \A r \in Runs :
       /\ WF_vars(Trigger(r) \/ RecordFailure(r) \/ RecordExecution(r))
       /\ WF_vars(StartExecution(r)) /\ WF_vars(CompleteExecution(r))
       /\ WF_vars(Age(r))
       /\ WF_vars(event[r] = "queued" /\ \E s \in Sessions : PushFinds(s, r))
  /\ \A s \in Sessions :
       /\ SF_vars(SweepLoad(s)) /\ SF_vars(SweepVisit(s))
       /\ SF_vars(Poll(s)) /\ SF_vars(ReadResults(s)) /\ SF_vars(Commit(s))
       /\ WF_vars(ReadResults(s) \/ PushError(s) \/ SweepError(s))
       /\ WF_vars(SweepEnd(s))
       /\ WF_vars(StillGoing(s)) /\ WF_vars(MarkRunning(s))
       /\ WF_vars(Publish(s)) /\ WF_vars(Notify(s))

FairSpec == Spec /\ Fairness

\* What a run's row says of it under the contract, which two sessions at one
\* run void.
Phase(r) ==
  IF r \in overlapped THEN "void"
  ELSE IF row[r] = NoRow THEN "absent"
  ELSE IF row[r].finalized THEN "settled" ELSE "open"
VerdictOf(r) == IF Phase(r) = "settled" THEN row[r].status ELSE "none"
Announcements(r) ==
  IF r \in overlapped THEN 0
  ELSE completed[r]["succeeded"] + completed[r]["failed"] + completed[r]["timed_out"]

Contract == INSTANCE RunContract WITH
  Verdicts <- Terminal,
  NoVerdict <- "none",
  phase <- [r \in Runs |-> Phase(r)],
  verdict <- [r \in Runs |-> VerdictOf(r)],
  announced <- [r \in Runs |-> Announcements(r)]

-----------------------------------------------------------------------------
(* Safety                                                                  *)

\* A dedupe key belongs to one run, for good: whoever asks with it, in any
\* interleaving of inserts, failures and crashes, is answered with the same
\* run (create_run's ON CONFLICT path against uq_runs_dedupe_key).
AnswersAgree ==
  \A p, q \in Runs :
    /\ KeyOf[p] = KeyOf[q] /\ KeyOf[p] # NoKey
    /\ answer[p] # NoRun /\ answer[q] # NoRun
    => answer[p] = answer[q]

\* A duplicate trigger never starts a second execution of the same work, not
\* even when the first dispatch failed or crashed half way.
OneExecutionPerKey ==
  \A p, q \in Runs :
    /\ KeyOf[p] = KeyOf[q] /\ KeyOf[p] # NoKey
    /\ execution[p] # "none" /\ execution[q] # "none"
    => p = q

\* run.completed is published only for a row whose terminal state is already
\* durable, and a "succeeded" event only when the summary the applier will
\* read its actions from is stored with it (finalize_run commits, then
\* publishes).
PublishedIsDurable ==
  \A r \in Runs, t \in Terminal :
    completed[r][t] > 0 =>
      /\ row[r] # NoRow /\ row[r].finalized
      /\ t = "succeeded" => row[r].summary = "ok"

\* However often a run is finalized, by pushes and sweeps at once, all the
\* run.completed events it publishes carry one status.
CompletionsAgree ==
  \A r \in Runs, t, u \in Terminal :
    completed[r][t] > 0 /\ completed[r][u] > 0 => t = u

\* A run announced as succeeded has an execution under the row's name and a
\* summary.json that says ok, and the execution succeeded: it did not crash
\* nor was it cancelled, before or after the summary was written.  Save one
\* whose execution Cloud Run had deleted before anybody recorded its end:
\* "gone" leaves the summary to decide (runs.py:433), so that there a run that
\* was killed after it wrote its summary is a success, which the table of
\* docs/hackbot/api.md:97 and the sentence below it rule out.
SuccessIsEarned ==
  \A r \in Runs :
    completed[r]["succeeded"] > 0 =>
      /\ row[r].named
      /\ results[r] = "ok"
      /\ execution[r] = "succeeded" \/ r \in forgotten

\* A chained run starts only behind a parent whose success was committed: its
\* parent row is finalized and keeps the summary it is handed.
ChildFollowsSuccess ==
  \A r \in Rows :
    ParentOf[r] # NoRun =>
      /\ row[ParentOf[r]] # NoRow
      /\ row[ParentOf[r]].finalized
      /\ row[ParentOf[r]].summary = "ok"

\* Finalization is irrevocable: no later push, sweep, or late create_run
\* write reopens a finalized row or loses its summary.
FinalizedIsForever ==
  [][\A r \in Runs :
       row[r] # NoRow /\ row[r].finalized =>
         /\ row'[r] # NoRow /\ row'[r].finalized
         /\ row[r].summary # "none" => row'[r].summary = row[r].summary]_vars

\* The service keeps RunContract of every run that no two sessions hold at
\* once, whatever they do with other runs: redelivered events, crashes, sweeps
\* and a create_run that fails half way neither settle the run twice, nor
\* change its verdict, nor announce it twice.  Two sessions at a run do
\* announce it twice, against "publishing run.completed once" (runs.py:343).
KeepsContract == Contract!Spec

\* The requester gets one notice of a run that no two sessions hold at once,
\* though the event comes again after a crash in the middle of finalize_run.
NotifiedOnce == \A r \in Runs \ overlapped : emails[r] <= 1

\* The stale-run sweep makes every loss recoverable: a run whose results can
\* be read is finalized in the end, though its completion event was lost, its
\* create_run crashed or its dispatch failed, if no older run is waiting whose
\* results cannot be read.  "One unfinalizable run must not abort the sweep for
\* the rest" (maintenance.py:64) promises it of every run; but the oldest one
\* that cannot be finalized ends each sweep before it gets to younger ones.
HealthyRunsSettle ==
  \A r \in Runs \ Unfinalizable :
    (row[r] # NoRow /\ \A q \in Rows \cap Unfinalizable : ~Older(q, r))
      ~> (row[r] # NoRow /\ row[r].finalized)

-----------------------------------------------------------------------------
(* The inductive invariant behind the safety properties                    *)

Working == {"poll", "polled", "read", "publish", "notify"}

\* Requests and sessions work on rows that exist, and only idle requests are
\* without one.
RowsExist ==
  /\ \A r \in Runs :
       /\ request[r] \in {"dispatching", "triggered", "refused", "crashed"} => row[r] \in Row
       /\ request[r] \in {"idle", "checked"} => row[r] = NoRow
       /\ execution[r] # "none" => row[r] \in Row
  /\ \A s \in Sessions :
       /\ at[s] \in Working =>
            /\ cur[s] \in Runs \ todo[s]
            /\ row[cur[s]] \in Row /\ view[s][cur[s]] \in Row
       /\ at[s] = "idle" => todo[s] = {}
       /\ \A r \in todo[s] : row[r] \in Row /\ view[s][r] \in Row

\* uq_runs_dedupe_key, and what an answer may name.
KeysUnique ==
  /\ \A p, q \in Rows : KeyOf[p] = KeyOf[q] /\ KeyOf[p] # NoKey => p = q
  /\ \A r \in Runs : answer[r] # NoRun =>
       answer[r] \in Rows /\ (KeyOf[r] # NoKey => KeyOf[answer[r]] = KeyOf[r])

\* A summary that was read or stored is the one the agent wrote.
SummariesAgree ==
  /\ \A r \in Rows : row[r].summary \in {"none", results[r]}
  /\ \A s \in Sessions : at[s] = "read" => got[s] \in {"none", results[cur[s]]}

\* What a session is about to publish has been committed.
CommittedFirst ==
  \A s \in Sessions : at[s] \in {"publish", "notify"} =>
    /\ view[s][cur[s]].status \in Terminal
    /\ row[cur[s]].finalized
    /\ view[s][cur[s]].status = "succeeded" => row[cur[s]].summary = "ok"

IInv ==
  /\ TypeOK /\ RowsExist /\ KeysUnique /\ SummariesAgree
  /\ CommittedFirst /\ PublishedIsDurable

-----------------------------------------------------------------------------
(* What the docs say and concurrent sessions break                         *)

\* Run states are drawn pending -> running -> terminal: the status of a
\* finalized run is terminal.
FinalizedIsTerminal ==
  \A r \in Rows : row[r].finalized => row[r].status \in Terminal
=============================================================================
