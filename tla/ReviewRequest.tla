------------------------------ MODULE ReviewRequest -----------------------------
(***************************************************************************)
(* The reviews of one Phabricator revision in reviewhelper-api: submission *)
(* (app/routers/request.py), processing by deliveries of a Cloud Task      *)
(* (app/routers/internal.py) and publication (app/review_processor.py).    *)
(* Submitters and deliveries are sessions of their own; a step of one is   *)
(* what it does between two commits or remote calls.  Cloud Tasks delivers *)
(* a task until an answer other than 409 and 500, and may deliver it while *)
(* an earlier delivery is still at work.                                   *)
(***************************************************************************)
EXTENDS Naturals, FiniteSets

CONSTANTS
  Diffs,      \* diffs of the revision: numbers, a newer one is greater
  Clients,    \* calls of POST /request
  Workers,    \* deliveries that can be at work at a time
  Comments,   \* comments one run of the review agent can make
  Main,       \* the main comment of a review
  MaxFaults   \* a bound: how often a session dies or raises

ASSUME ReviewAssumption ==
  /\ Diffs \subseteq Nat \ {0} /\ MaxFaults \in Nat
  /\ IsFiniteSet(Clients) /\ IsFiniteSet(Workers)
  /\ Main \notin Workers \X Comments

VARIABLES
  client,   \* the submissions
  row,      \* the table review_requests
  kept,     \* generated_comments: by the worker that made them
  saved,    \* those with a platform_comment_id
  task,     \* the Cloud Task of each review
  worker,   \* the deliveries
  current,  \* workers whose copy of the row is still what is stored
  faults,   \* how many sessions have died or raised
  shown,    \* what was posted on the platform
  torn,     \* what was posted by a worker that ended before it recorded so
  again,    \* reviews with something posted twice that was not torn
  late,     \* reviews a worker was at when another could take them over
  rerun     \* reviews the agent has run on more than once

tables == <<row, kept, saved>>
ghosts == <<shown, torn, again, late, rerun>>
vars   == <<client, tables, task, worker, current, faults, ghosts>>

Final    == {"published", "failed"}
Statuses == Final \cup {"absent", "pending", "processing", "retry_pending"}
Rows     == Workers \X Comments
Posts    == Rows \cup {Main}

NoWork == [pc |-> "idle", diff |-> 0, saw |-> "absent", summary |-> FALSE,
           todo |-> {}, open |-> Main]
Idle   == [pc |-> "idle", diff |-> 0, ticket |-> 0]

TypeOK ==
  /\ client \in [Clients -> [pc : {"idle", "read", "inserted", "done", "died"},
                             diff : Diffs \cup {0}, ticket : 0..Cardinality(Clients)]]
  /\ row \in [Diffs -> [status : Statuses, age : {"young", "fresh", "aged"},
                        summary : BOOLEAN, born : 0..Cardinality(Clients)]]
  /\ kept \in [Diffs -> SUBSET Rows]
  /\ saved \in [Diffs -> SUBSET Rows]
  /\ task \in [Diffs -> {"none", "queued", "acked"}]
  /\ worker \in [Workers -> [pc : {"idle", "read", "load", "ai", "publish", "posted"},
                             diff : Diffs \cup {0}, saw : Statuses, summary : BOOLEAN,
                             todo : SUBSET Rows, open : Posts]]
  /\ current \in SUBSET Workers
  /\ faults \in 0..MaxFaults
  /\ shown \in [Diffs -> SUBSET Posts] /\ torn \in [Diffs -> SUBSET Posts]
  /\ again \in SUBSET Diffs /\ late \in SUBSET Diffs /\ rerun \in SUBSET Diffs

Init ==
  /\ client = [c \in Clients |-> Idle]
  /\ row = [d \in Diffs |-> [status |-> "absent", age |-> "young", summary |-> FALSE, born |-> 0]]
  /\ kept = [d \in Diffs |-> {}]
  /\ saved = [d \in Diffs |-> {}]
  /\ task = [d \in Diffs |-> "none"]
  /\ worker = [w \in Workers |-> NoWork]
  /\ current = {}
  /\ faults = 0
  /\ shown = [d \in Diffs |-> {}] /\ torn = [d \in Diffs |-> {}]
  /\ again = {} /\ late = {} /\ rerun = {}

Fault == faults < MaxFaults /\ faults' = faults + 1

-----------------------------------------------------------------------------
(* POST /request                                                           *)

Present == {d \in Diffs : row[d].status # "absent"}

\* "We don't support re-processing the same diff or reviewing older diffs": the
\* row created last is looked at.
Known(d) == \E l \in Present : d <= l /\ \A e \in Present : row[e].born <= row[l].born

\* created_at is the time the session's transaction began.
Submit(c, d) ==
  /\ client[c].pc = "idle"
  /\ client' = [client EXCEPT ![c] =
       [pc |-> IF Known(d) THEN "done" ELSE "read", diff |-> d,
        ticket |-> 1 + Cardinality({o \in Clients : client[o].pc # "idle"})]]
  /\ UNCHANGED <<tables, task, worker, current, faults, ghosts>>

\* The unique index refuses a second row for the diff: the loser raises.
Insert(c) ==
  LET d == client[c].diff IN
  /\ client[c].pc = "read"
  /\ IF d \in Present
       THEN UNCHANGED row /\ client' = [client EXCEPT ![c].pc = "done"]
       ELSE /\ row' = [row EXCEPT ![d].status = "pending", ![d].born = client[c].ticket]
            /\ client' = [client EXCEPT ![c].pc = "inserted"]
  /\ UNCHANGED <<kept, saved, task, worker, current, faults, ghosts>>

Enqueue(c) ==
  /\ client[c].pc = "inserted"
  /\ client' = [client EXCEPT ![c].pc = "done"]
  /\ task' = [task EXCEPT ![client[c].diff] = "queued"]
  /\ UNCHANGED <<tables, worker, current, faults, ghosts>>

\* The instance stops, or create_task raises; the row stays.
SubmitterDies(c) ==
  /\ client[c].pc = "inserted"
  /\ Fault
  /\ client' = [client EXCEPT ![c].pc = "died"]
  /\ UNCHANGED <<tables, task, worker, current, ghosts>>

-----------------------------------------------------------------------------
(* GET /internal/process                                                   *)

\* A row written once more: updated_at is now, and every copy is out of date.
Stored(r) == [r EXCEPT !.age = IF @ = "young" THEN @ ELSE "fresh"]
Elsewhere(d) == {w \in current : worker[w].diff # d}
Write(d, status) ==
  /\ row' = [row EXCEPT ![d] = [Stored(@) EXCEPT !.status = status]]
  /\ current' = Elsewhere(d)

\* 204 and 200 end the task; after anything else it is delivered again.
Ack(d) == task' = [task EXCEPT ![d] = "acked"]
End(w) == worker' = [worker EXCEPT ![w] = NoWork]

\* Mutant of Deliver: who is processing is taken to have crashed.
DeliverAnyway(w, d) ==
  /\ worker[w].pc = "idle" /\ task[d] = "queued"
  /\ IF row[d].status \in Final \cup {"absent"}
       THEN Ack(d) /\ UNCHANGED <<worker, current>>
       ELSE /\ worker' = [worker EXCEPT ![w] = [NoWork EXCEPT
                 !.pc = "read", !.diff = d, !.saw = row[d].status, !.summary = row[d].summary]]
            /\ current' = current \cup {w}
            /\ UNCHANGED task
  /\ UNCHANGED <<client, tables, faults, ghosts>>

\* The row is loaded and judged.  One that another worker is processing is
\* answered 409, unless it was last written RECOVERY_BACKOFF_DELAY ago.
Deliver(w, d) ==
  /\ worker[w].pc = "idle" /\ task[d] = "queued"
  /\ IF row[d].status \in Final \cup {"absent"}
       THEN Ack(d) /\ UNCHANGED <<worker, current>>
       ELSE /\ row[d].status = "processing" => row[d].age = "aged"
            /\ worker' = [worker EXCEPT ![w] = [NoWork EXCEPT
                 !.pc = "read", !.diff = d, !.saw = row[d].status, !.summary = row[d].summary]]
            /\ current' = current \cup {w}
            /\ UNCHANGED task
  /\ UNCHANGED <<client, tables, faults, ghosts>>

\* Mutant of Claim: updated_at is not compared.
ClaimByStatus(w) ==
  LET d == worker[w].diff IN
  /\ worker[w].pc = "read"
  /\ IF row[d].status = worker[w].saw
       THEN /\ Write(d, "processing")
            /\ worker' = [worker EXCEPT ![w].pc = IF worker[w].summary THEN "load" ELSE "ai"]
       ELSE End(w) /\ UNCHANGED <<row, current>>
  /\ UNCHANGED <<client, kept, saved, task, faults, ghosts>>

\* claim_review_request: status and updated_at must be what was loaded; the
\* loser answers 409.
Claim(w) ==
  LET d == worker[w].diff IN
  /\ worker[w].pc = "read"
  /\ IF w \in current
       THEN /\ Write(d, "processing")
            /\ worker' = [worker EXCEPT ![w].pc = IF worker[w].summary THEN "load" ELSE "ai"]
       ELSE End(w) /\ UNCHANGED <<row, current>>
  /\ UNCHANGED <<client, kept, saved, task, faults, ghosts>>

\* Mutant of Load: what was posted already is posted once more.
LoadAll(w) ==
  /\ worker[w].pc = "load"
  /\ worker' = [worker EXCEPT ![w].pc = "publish", ![w].todo = kept[worker[w].diff]]
  /\ UNCHANGED <<client, tables, task, current, faults, ghosts>>

\* An earlier run of the agent has left its comments: those without a
\* platform_comment_id are to be posted.
Load(w) ==
  LET d == worker[w].diff IN
  /\ worker[w].pc = "load"
  /\ worker' = [worker EXCEPT ![w].pc = "publish", ![w].todo = kept[d] \ saved[d]]
  /\ UNCHANGED <<client, tables, task, current, faults, ghosts>>

\* The agent has made C; its comments and the summary are committed together.
\* A worker that was taken over meanwhile commits what it has made as well.
Generate(w, C) ==
  LET d == worker[w].diff IN
  /\ worker[w].pc = "ai"
  /\ kept' = [kept EXCEPT ![d] = @ \cup ({w} \X C)]
  /\ row' = [row EXCEPT ![d] = [Stored(@) EXCEPT !.summary = TRUE]]
  /\ current' = Elsewhere(d)
  /\ worker' = [worker EXCEPT ![w].pc = "publish", ![w].todo = {w} \X C]
  /\ rerun' = IF row[d].summary THEN rerun \cup {d} ELSE rerun
  /\ UNCHANGED <<client, saved, task, faults, shown, torn, again, late>>

\* Mutant of NotYetPublic: no limit is set to the wait.
NeverGivesUp(w) ==
  /\ worker[w].pc = "ai"
  /\ Write(worker[w].diff, "retry_pending")
  /\ End(w)
  /\ UNCHANGED <<client, kept, saved, task, faults, ghosts>>

\* RevisionNotYetPublicError, within VISIBILITY_TIMEOUT of created_at: 409.
NotYetPublic(w) ==
  /\ worker[w].pc = "ai"
  /\ row[worker[w].diff].age = "young"
  /\ Write(worker[w].diff, "retry_pending")
  /\ End(w)
  /\ UNCHANGED <<client, kept, saved, task, faults, ghosts>>

\* ReviewProcessingError: 204, no retry.
GiveUp(w) ==
  LET d == worker[w].diff IN
  /\ worker[w].pc = "ai"
  /\ Write(d, "failed") /\ Ack(d) /\ End(w)
  /\ UNCHANGED <<client, kept, saved, faults, ghosts>>

\* One inline comment, or the main comment when none is left.
Post(w) ==
  LET d == worker[w].diff IN
  /\ worker[w].pc = "publish"
  /\ \E p \in IF worker[w].todo = {} THEN {Main} ELSE worker[w].todo :
       /\ worker' = [worker EXCEPT ![w].pc = "posted", ![w].open = p]
       /\ shown' = [shown EXCEPT ![d] = @ \cup {p}]
       /\ torn' = [torn EXCEPT ![d] = @ \ {p}]
       /\ again' = IF p \in shown[d] \ torn[d] THEN again \cup {d} ELSE again
  /\ UNCHANGED <<client, tables, task, current, faults, late, rerun>>

\* Mutant of SaveInline: the id is not committed.
SaveUncommitted(w) ==
  /\ worker[w].pc = "posted" /\ worker[w].open # Main
  /\ worker' = [worker EXCEPT ![w].pc = "publish", ![w].open = Main,
                              ![w].todo = @ \ {worker[w].open}]
  /\ UNCHANGED <<client, tables, task, current, faults, ghosts>>

\* platform_comment_id is committed after each comment.
SaveInline(w) ==
  LET d == worker[w].diff IN
  /\ worker[w].pc = "posted" /\ worker[w].open # Main
  /\ saved' = [saved EXCEPT ![d] = @ \cup {worker[w].open}]
  /\ worker' = [worker EXCEPT ![w].pc = "publish", ![w].open = Main,
                              ![w].todo = @ \ {worker[w].open}]
  /\ UNCHANGED <<client, row, kept, task, current, faults, ghosts>>

Finish(w) ==
  LET d == worker[w].diff IN
  /\ worker[w].pc = "posted" /\ worker[w].open = Main
  /\ Write(d, "published") /\ Ack(d) /\ End(w)
  /\ UNCHANGED <<client, kept, saved, faults, ghosts>>

\* What a worker that ends here has posted without recording it.
Tear(w) ==
  torn' = [torn EXCEPT ![worker[w].diff] =
             IF worker[w].pc = "posted" THEN @ \cup {worker[w].open} ELSE @]

\* Mutant of Raise: the status is not looked at.
RaiseUnguarded(w) ==
  /\ worker[w].pc \in {"load", "ai", "publish", "posted"}
  /\ Fault
  /\ Write(worker[w].diff, "retry_pending")
  /\ Tear(w) /\ End(w)
  /\ UNCHANGED <<client, kept, saved, task, shown, again, late, rerun>>

\* An exception, answered 500: get_db rolls back and runs _set_retry_pending,
\* which the claim has installed.
Raise(w) ==
  LET d == worker[w].diff IN
  /\ worker[w].pc \in {"load", "ai", "publish", "posted"}
  /\ Fault
  /\ IF row[d].status = "processing" THEN Write(d, "retry_pending") ELSE UNCHANGED <<row, current>>
  /\ Tear(w) /\ End(w)
  /\ UNCHANGED <<client, kept, saved, task, shown, again, late, rerun>>

\* The instance stops, or the claim or on_error raises.
WorkerDies(w) ==
  /\ worker[w].pc # "idle"
  /\ Fault
  /\ Tear(w) /\ End(w)
  /\ current' = current \ {w}
  /\ UNCHANGED <<client, tables, task, shown, again, late, rerun>>

-----------------------------------------------------------------------------
(* Half an hour, since created_at and then since updated_at: the limits of *)
(* the wait for a revision to become public, of a claim, and of a          *)
(* delivery, whose worker goes on all the same.                            *)

At(d) == {w \in Workers : worker[w].diff = d /\ worker[w].pc \notin {"idle", "read"}}

HalfHour(d) ==
  /\ \/ row[d].age = "young" /\ row[d].status # "absent"
     \/ row[d].age = "fresh" /\ row[d].status = "processing"
  /\ row' = [row EXCEPT ![d].age = IF @ = "young" THEN "fresh" ELSE "aged"]
  /\ late' = IF row[d].age = "fresh" /\ At(d) # {} THEN late \cup {d} ELSE late
  /\ UNCHANGED <<client, kept, saved, task, worker, current, faults, shown, torn, again, rerun>>

-----------------------------------------------------------------------------
Serve(c) == \/ \E d \in Diffs : Submit(c, d)
            \/ Insert(c) \/ Enqueue(c)
Work(w)  == \/ Claim(w) \/ Load(w) \/ NotYetPublic(w) \/ GiveUp(w)
            \/ \E C \in SUBSET Comments : Generate(w, C)
            \/ Post(w) \/ SaveInline(w) \/ Finish(w)

Next ==
  \/ \E c \in Clients : Serve(c) \/ SubmitterDies(c)
  \/ \E w \in Workers : \/ \E d \in Diffs : Deliver(w, d)
                        \/ Work(w) \/ Raise(w) \/ WorkerDies(w)
  \/ \E d \in Diffs : HalfHour(d)

\* Sessions run on, Cloud Tasks delivers what is not acknowledged, time passes.
Fairness ==
  /\ \A c \in Clients : WF_vars(Insert(c)) /\ WF_vars(Enqueue(c))
  /\ \A w \in Workers : WF_vars(Work(w))
  /\ \A d \in Diffs : WF_vars(\E w \in Workers : Deliver(w, d)) /\ WF_vars(HalfHour(d))

Spec == Init /\ [][Next]_vars /\ Fairness

-----------------------------------------------------------------------------
(* Properties                                                              *)

\* "Two deliveries of a task claim one request" only one after the other: at a
\* review no worker has outlasted its claim at, one worker is at a time.
OneWorker == \A d \in Diffs \ late : Cardinality(At(d)) <= 1

\* "The submission process can be safely retried": nothing is posted a second
\* time unless the worker that posted it ended before it could record so.
PostedOnce == again \subseteq late

\* A published review has its summary and its main comment, and what is shown of
\* its comments has an id, is about to get it, or was torn.  If the agent ran on
\* it once, all its comments are shown with their ids, whoever took over from
\* whom and however late; a worker taken over while its agent runs adds comments
\* of its own, which may never be posted.
PublishedIsWhole ==
  \A d \in Diffs : row[d].status = "published" =>
    /\ row[d].summary
    /\ Main \in shown[d]
    /\ \A p \in shown[d] \ (saved[d] \cup torn[d] \cup {Main}) :
         \E w \in At(d) : worker[w].pc = "posted" /\ worker[w].open = p
    /\ d \notin rerun => kept[d] = saved[d] /\ saved[d] = shown[d] \ {Main}

\* A task is done when its review is, and a review that has ended never opens
\* again, even if a worker that was taken over raises or gives up late.
EndedStaysEnded ==
  [][\A d \in Diffs : /\ row[d].status \in Final => row'[d].status \in Final
                      /\ task'[d] = "acked" => row'[d].status \in Final]_vars

\* Every review that has a task ends, published or failed: whatever dies or
\* raises, is taken over, or waits for the revision to become public.
ReviewsEnd == \A d \in Diffs : task[d] = "queued" ~> row[d].status \in Final

\* The promise, in which a review that a worker outlasted its claim at is shaken.
Outcome == [d \in Diffs |->
  CASE row[d].status = "absent" -> "none"
    [] row[d].status \in Final  -> row[d].status
    [] OTHER                    -> "open"]
Promise == INSTANCE ReviewPromise WITH outcome <- Outcome, shaken <- late
KeepsPromise == Promise!Spec
=============================================================================
