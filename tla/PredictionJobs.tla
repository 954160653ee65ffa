--------------------------- MODULE PredictionJobs ---------------------------
(***************************************************************************)
(* http_service: predictions for one bug and one model.                    *)
(*                                                                         *)
(* Clients poll.  A request drops a stored result the bug has outgrown,    *)
(* answers with the result if there is one, and otherwise schedules a job  *)
(* unless one is pending.  Several processes serve requests and several    *)
(* workers run jobs; what they share are four kinds of Redis keys, each    *)
(* read and written by itself: the mapping from the bug to a job, the job, *)
(* the result, and the change time of the bug the result is for.  A change *)
(* time, and a result, is the version of the bug it was made from.         *)
(***************************************************************************)
EXTENDS Naturals, FiniteSets

CONSTANTS
    Requests,    \* the processes that serve requests
    Workers,     \* the processes that run jobs
    Jobs,        \* job ids; an id that nothing names is new
    MaxVersion,  \* how many versions of the bug there are
    Hidden,      \* the versions the service may not see
    MaxFaults,   \* how many jobs, workers or requests may die
    None         \* no job, and no value of a key

Versions == 1 .. MaxVersion
Unset == 0       \* a key without a value

ASSUME PredictionAssumption ==
    /\ MaxVersion \in Nat \ {0} /\ Hidden \subseteq Versions /\ MaxFaults \in Nat
    /\ None \notin Jobs

VARIABLES
    version,   \* of the bug on Bugzilla
    result,    \* result_key
    saved,     \* change_time_key
    mapping,   \* mapping_key
    job,       \* job -> its status in Redis: "none" when Redis has no such job
    req,       \* request -> where it is,
    seen,      \* the change time it got from Bugzilla, 0 for a hidden bug
    named,     \* and the job it holds
    work,      \* worker -> where it is,
    runs,      \* the job it runs
    read,      \* and the version it has read
    overlap,   \* ghost: two jobs have run at a time
    faults

keys == <<result, saved, mapping>>
request == <<req, seen, named>>
worker == <<work, runs, read>>
vars == <<version, keys, job, request, worker, overlap, faults>>

Init ==
    /\ version = 1
    /\ result = Unset /\ saved = Unset /\ mapping = None
    /\ job = [j \in Jobs |-> "none"]
    /\ req = [h \in Requests |-> "idle"]
    /\ seen = [h \in Requests |-> 0]
    /\ named = [h \in Requests |-> None]
    /\ work = [w \in Workers |-> "idle"]
    /\ runs = [w \in Workers |-> None]
    /\ read = [w \in Workers |-> 0]
    /\ overlap = FALSE
    /\ faults = 0

BugChanges ==
    /\ version < MaxVersion /\ version' = version + 1
    /\ UNCHANGED <<keys, job, request, worker, overlap, faults>>

-----------------------------------------------------------------------------
(* A request: model_prediction, and each bug of batch_prediction. *)

Goto(h, step) == req' = [req EXCEPT ![h] = step]

\* The answer, 200 or 202; the request leaves nothing behind.
Answer(h) ==
    /\ Goto(h, "idle")
    /\ seen' = [seen EXCEPT ![h] = 0] /\ named' = [named EXCEPT ![h] = None]

\* Not pending: a new job.
Create(h) ==
    /\ Goto(h, "create")
    /\ named' = [named EXCEPT ![h] = None] /\ UNCHANGED seen

\* Bugzilla says when the bug changed last, unless it is a security bug.
Ask(h) ==
    /\ req[h] = "idle"
    /\ IF version \in Hidden
       THEN Goto(h, "result") /\ UNCHANGED seen
       ELSE Goto(h, "saved") /\ seen' = [seen EXCEPT ![h] = version]
    /\ UNCHANGED <<version, keys, job, named, worker, overlap, faults>>

ReadSaved(h) ==
    /\ req[h] = "saved"
    /\ Goto(h, CASE saved = Unset -> "exists"
                 [] saved = seen[h] -> "result"
                 [] OTHER -> "clean")
    /\ UNCHANGED <<version, keys, job, seen, named, worker, overlap, faults>>

\* Mutant of ResultExists: a result without a change time is kept.
KeepsUntimed(h) ==
    /\ req[h] = "exists"
    /\ Goto(h, "result")
    /\ UNCHANGED <<version, keys, job, seen, named, worker, overlap, faults>>

\* "We can have a result without a cache time."
ResultExists(h) ==
    /\ req[h] = "exists"
    /\ Goto(h, IF result = Unset THEN "result" ELSE "clean")
    /\ UNCHANGED <<version, keys, job, seen, named, worker, overlap, faults>>

CleanResult(h) ==
    /\ req[h] = "clean"
    /\ result' = Unset /\ Goto(h, "cleaned")
    /\ UNCHANGED <<version, saved, mapping, job, seen, named, worker, overlap, faults>>

CleanSaved(h) ==
    /\ req[h] = "cleaned"
    /\ saved' = Unset /\ Goto(h, "result")
    /\ UNCHANGED <<version, result, mapping, job, seen, named, worker, overlap, faults>>

\* 200 with the result, or on to is_pending, for which the change time is
\* of no more use.
GetResult(h) ==
    /\ req[h] = "result"
    /\ IF result # Unset
       THEN Answer(h)
       ELSE Goto(h, "mapping") /\ seen' = [seen EXCEPT ![h] = 0] /\ UNCHANGED named
    /\ UNCHANGED <<version, keys, job, worker, overlap, faults>>

ReadMapping(h) ==
    /\ req[h] = "mapping"
    /\ named' = [named EXCEPT ![h] = mapping]
    /\ Goto(h, IF mapping = None THEN "create" ELSE "fetch")
    /\ UNCHANGED <<version, keys, job, seen, worker, overlap, faults>>

\* A job that runs is pending, however long.  One that was enqueued too long
\* ago is cancelled, in a later step; a queued one is pending; one that is
\* over, or that Redis has forgotten, is not.
Fetch(h) ==
    /\ req[h] = "fetch"
    /\ LET status == job[named[h]]
       IN  \/ status = "started" /\ Answer(h)
           \/ status = "queued" /\ Answer(h)
           \/ status \in {"queued", "over"} /\ Goto(h, "cancel") /\ UNCHANGED <<seen, named>>
           \/ status \in {"none", "over"} /\ Create(h)
    /\ UNCHANGED <<version, keys, job, worker, overlap, faults>>

Cancel(h) ==
    /\ req[h] = "cancel"
    /\ job' = [job EXCEPT ![named[h]] = IF @ = "none" THEN @ ELSE "over"]
    /\ Create(h)
    /\ UNCHANGED <<version, keys, worker, overlap, faults>>

\* A job id nothing uses, as a new uuid is.
NewId(j) ==
    /\ job[j] = "none" /\ mapping # j
    /\ \A h \in Requests : named[h] # j
    /\ \A w \in Workers : runs[w] # j

\* "Set the mapping before queuing to avoid some race conditions."
SetMapping(h) ==
    /\ req[h] = "create"
    /\ \E j \in Jobs :
        /\ NewId(j)
        /\ mapping' = j /\ named' = [named EXCEPT ![h] = j]
    /\ Goto(h, "enqueue")
    /\ UNCHANGED <<version, result, saved, job, seen, worker, overlap, faults>>

Enqueue(h) ==
    /\ req[h] = "enqueue"
    /\ job' = [job EXCEPT ![named[h]] = "queued"]
    /\ Answer(h)
    /\ UNCHANGED <<version, keys, worker, overlap, faults>>

RequestDies(h) ==
    /\ req[h] # "idle" /\ faults < MaxFaults
    /\ faults' = faults + 1
    /\ Answer(h)
    /\ UNCHANGED <<version, keys, job, worker, overlap>>

Serve(h) ==
    \/ Ask(h) \/ ReadSaved(h) \/ ResultExists(h) \/ CleanResult(h) \/ CleanSaved(h)
    \/ GetResult(h) \/ ReadMapping(h) \/ Fetch(h) \/ Cancel(h)
    \/ SetMapping(h) \/ Enqueue(h)

-----------------------------------------------------------------------------
(* A worker: classify_bug. *)

Busy == {w \in Workers : work[w] # "idle"}

Start(w) ==
    /\ work[w] = "idle"
    /\ \E j \in Jobs :
        /\ job[j] = "queued"
        /\ job' = [job EXCEPT ![j] = "started"]
        /\ runs' = [runs EXCEPT ![w] = j]
    /\ work' = [work EXCEPT ![w] = "read"]
    /\ overlap' = (overlap \/ Busy # {})
    /\ UNCHANGED <<version, keys, request, read, faults>>

ReadBug(w) ==
    /\ work[w] = "read"
    /\ read' = [read EXCEPT ![w] = version]
    /\ work' = [work EXCEPT ![w] = "store"]
    /\ UNCHANGED <<version, keys, job, request, runs, overlap, faults>>

\* The worker is free, and the job over; Redis may have forgotten it.
Ends(w) ==
    /\ work' = [work EXCEPT ![w] = "idle"]
    /\ runs' = [runs EXCEPT ![w] = None]
    /\ read' = [read EXCEPT ![w] = 0]
    /\ job' = [job EXCEPT ![runs[w]] = IF @ = "none" THEN @ ELSE "over"]

\* A hidden bug gets "available": False, and no change time.
StoreResult(w) ==
    /\ work[w] = "store"
    /\ result' = read[w]
    /\ IF read[w] \in Hidden
       THEN Ends(w)
       ELSE work' = [work EXCEPT ![w] = "stored"] /\ UNCHANGED <<runs, read, job>>
    /\ UNCHANGED <<version, saved, mapping, request, overlap, faults>>

\* Mutant of StoreChange: the change time of now, not of what was classified.
StoreNow(w) ==
    /\ work[w] = "stored"
    /\ saved' = version
    /\ Ends(w)
    /\ UNCHANGED <<version, result, mapping, request, overlap, faults>>

StoreChange(w) ==
    /\ work[w] = "stored"
    /\ saved' = read[w]
    /\ Ends(w)
    /\ UNCHANGED <<version, result, mapping, request, overlap, faults>>

\* An exception or the timeout ends the job; RQ keeps it as failed.
JobFails(w) ==
    /\ work[w] # "idle" /\ faults < MaxFaults
    /\ faults' = faults + 1
    /\ Ends(w)
    /\ UNCHANGED <<version, keys, request, overlap>>

\* The worker dies with its job, which stays started until RQ notices.
WorkerDies(w) ==
    /\ work[w] # "idle" /\ faults < MaxFaults
    /\ faults' = faults + 1
    /\ work' = [work EXCEPT ![w] = "idle"]
    /\ runs' = [runs EXCEPT ![w] = None] /\ read' = [read EXCEPT ![w] = 0]
    /\ UNCHANGED <<version, keys, job, request, overlap>>

Abandoned(j) ==
    /\ job[j] = "started" /\ \A w \in Workers : runs[w] # j
    /\ job' = [job EXCEPT ![j] = "over"]
    /\ UNCHANGED <<version, keys, request, worker, overlap, faults>>

\* QUEUE_TIMEOUT, FAILURE_TTL and RQ's own for finished jobs.
JobExpires(j) ==
    /\ job[j] \in {"queued", "over"}
    /\ job' = [job EXCEPT ![j] = "none"]
    /\ UNCHANGED <<version, keys, request, worker, overlap, faults>>

\* DEFAULT_EXPIRATION_TTL
KeyExpires ==
    /\ \/ result # Unset /\ result' = Unset /\ UNCHANGED saved
       \/ saved # Unset /\ saved' = Unset /\ UNCHANGED result
    /\ UNCHANGED <<version, mapping, job, request, worker, overlap, faults>>

Classify(w) == Start(w) \/ ReadBug(w) \/ StoreResult(w) \/ StoreChange(w)

Next ==
    \/ BugChanges \/ KeyExpires
    \/ \E h \in Requests : Serve(h) \/ RequestDies(h)
    \/ \E w \in Workers : Classify(w) \/ JobFails(w) \/ WorkerDies(w)
    \/ \E j \in Jobs : Abandoned(j) \/ JobExpires(j)

\* Processes run, clients go on polling, and RQ notices dead
\* workers and forgets jobs that are over.
Fairness ==
    /\ \A h \in Requests : WF_vars(Serve(h))
    /\ \A w \in Workers : WF_vars(Classify(w))
    /\ \A j \in Jobs :
        WF_vars(Abandoned(j)) /\ WF_vars(job[j] = "over" /\ JobExpires(j))

Spec == Init /\ [][Next]_vars /\ Fairness

-----------------------------------------------------------------------------
(* What clients rely on. *)

TypeOK ==
    /\ version \in Versions
    /\ result \in 0 .. version /\ saved \in (0 .. version) \ Hidden
    /\ mapping \in Jobs \union {None}
    /\ job \in [Jobs -> {"none", "queued", "started", "over"}]
    /\ req \in [Requests -> {"idle", "saved", "exists", "clean", "cleaned", "result",
                              "mapping", "fetch", "cancel", "create", "enqueue"}]
    /\ seen \in [Requests -> (0 .. version) \ Hidden]
    /\ named \in [Requests -> Jobs \union {None}]
    /\ work \in [Workers -> {"idle", "read", "store", "stored"}]
    /\ runs \in [Workers -> Jobs \union {None}]
    /\ read \in [Workers -> 0 .. version]
    /\ overlap \in BOOLEAN /\ faults \in 0 .. MaxFaults
    /\ \A w \in Workers : work[w] = "idle" <=> runs[w] = None
    /\ \A h \in Requests : req[h] \in {"fetch", "cancel", "enqueue"} => named[h] # None

Serves(h) == req[h] = "result" /\ result # Unset

\* A stored result is not older than the change time stored with it, by which
\* requests take it for current.
PairIsTrue == result # Unset /\ saved # Unset => result >= saved

\* Short of two jobs for the bug at a time the pair is true, even between the
\* two writes, wherever requests and workers interleave or die and whichever
\* key expires (classify_bug and clean_prediction_cache).
TrueUnlessOverlapped == ~overlap => PairIsTrue

\* A request cleans up between the two writes of a worker.
Collision ==
    /\ \E w \in Workers : work[w] = "stored"
    /\ \E h \in Requests : req[h] \in {"exists", "clean", "cleaned"}

\* A result expires, or a job does before a worker has taken it.
TooLate ==
    \/ KeyExpires
    \/ \E j \in Jobs : job[j] = "queued" /\ job'[j] \in {"none", "over"}

\* "Call back the same endpoint with the same bug ids a bit later, and you
\* will get the results" (batch_prediction, app.py:762): once requests stop
\* colliding with workers and nothing expires, clients which go on asking
\* are answered, and short of two jobs at a time with its last version.
PolledIsAnswered ==
    (<>[]~Collision /\ <>[][~TooLate]_vars)
        => []<>(\E h \in Requests : Serves(h) /\ (overlap \/ result >= seen[h]))
=============================================================================
