--------------------------- MODULE RegressionWalk ---------------------------
(***************************************************************************)
(* hackbot-pulse-listener: did a push introduce a failure, or inherit it?  *)
(*                                                                         *)
(* One walk over the ancestors of a push, for the units (a build label, a  *)
(* task label or test groups) that failed on it.  The ancestors' jobs go   *)
(* on finishing while it walks, it reads them through caches which the     *)
(* walks of other failures fill too, and it waits for unsettled ancestors  *)
(* by walking again until a deadline.  Ancestor 1 is the parent of the     *)
(* push.  A run on any ancestor may pass or fail: whether a failure there  *)
(* was intermittent is for the reader of the properties to say.            *)
(***************************************************************************)
EXTENDS Naturals, FiniteSets

CONSTANTS
    Units,      \* what may fail on the push
    MaxDepth,   \* MAX_DEPTH, the ancestors a walk looks at
    MaxSleeps,  \* MAX_WAIT_SECONDS / POLL_INTERVAL_SECONDS
    None        \* no cache entry

Outcomes == {"passed", "failed"}
Results == [Units -> SUBSET Outcomes]
Snapshots == [open : BOOLEAN, rec : Results]

ASSUME WalkAssumption ==
    /\ MaxDepth \in Nat /\ MaxSleeps \in Nat
    /\ None \notin Units \union Snapshots \union Results

VARIABLES
    kind,        \* "build", "task" or "group": which of the three callers
    units,       \* the failing units
    chain,       \* how many ancestors there are to look at
    recorded,    \* ancestor -> unit -> what its finished jobs recorded
    open,        \* ancestor -> some of its jobs may still change outcome
    jobs,        \* ancestor -> _jobs_cache
    groups,      \* ancestor -> _group_cache
    pc,          \* where the walk is
    unresolved,  \* the units this poll classifies,
    todo,        \* those it has still to classify,
    pending,     \* those it could not
    new,         \* and the units found new, in this poll and before
    unit,        \* the unit being classified, None between two
    depth,       \* how far its walk got
    stepped,     \* pending_at is not None
    held,        \* the jobs _group_status has read
    sleeps,      \* how often the walk has slept
    known        \* ghost: recorded when it last fell asleep

task == <<kind, units, chain>>
server == <<recorded, open>>
caches == <<jobs, groups>>
classify == <<unit, depth, stepped, held>>
verdicts == <<unresolved, todo, pending, new>>
vars == <<task, server, caches, classify, verdicts, pc, sleeps, known>>

Ancestors == 1 .. MaxDepth
LookPastPending == kind # "build"
Nothing == [u \in Units |-> {}]

Init ==
    /\ kind \in {"build", "task", "group"}
    /\ units \in SUBSET Units /\ units # {}
    /\ kind # "group" => Cardinality(units) = 1
    /\ chain \in 0 .. MaxDepth
    /\ recorded = [a \in Ancestors |-> Nothing]
    /\ open \in [Ancestors -> BOOLEAN]
    /\ jobs = [a \in Ancestors |-> None]
    /\ groups = [a \in Ancestors |-> None]
    /\ pc = "start"
    /\ unresolved = units /\ todo = {} /\ pending = {} /\ new = {}
    /\ unit = None /\ depth = 0 /\ stepped = FALSE /\ held = None
    /\ sleeps = 0
    /\ known = [a \in Ancestors |-> Nothing]

-----------------------------------------------------------------------------
(* Treeherder, and the other walks that share the caches. *)

\* A job of an ancestor finishes, with results for some of the units, and
\* may be the last one that was open there.
JobEnds(a) ==
    /\ open[a]
    /\ \E ran \in SUBSET units : \E shown \in [ran -> Outcomes] :
        recorded' = [recorded EXCEPT ![a] = [u \in Units |->
            IF u \in ran THEN @[u] \union {shown[u]} ELSE @[u]]]
    /\ open' \in {open, [open EXCEPT ![a] = FALSE]}
    /\ UNCHANGED <<task, caches, classify, verdicts, pc, sleeps, known>>

\* A backfill or a retrigger.
JobScheduled(a) ==
    /\ ~open[a]
    /\ open' = [open EXCEPT ![a] = TRUE]
    /\ UNCHANGED <<task, recorded, caches, classify, verdicts, pc, sleeps, known>>

Current(a) == [open |-> open[a], rec |-> recorded[a]]
Cached(entry, now) == IF entry = None THEN now ELSE entry

\* Another walk reads the same ancestor.
OtherWalkReads(a) ==
    /\ \/ jobs[a] = None /\ jobs' = [jobs EXCEPT ![a] = Current(a)] /\ UNCHANGED groups
       \/ /\ kind = "group" /\ groups[a] = None
          /\ groups' = [groups EXCEPT ![a] = recorded[a]] /\ UNCHANGED jobs
    /\ UNCHANGED <<task, server, classify, verdicts, pc, sleeps, known>>

\* An entry is a minute old.
EntryExpires(a) ==
    /\ \/ jobs[a] # None /\ jobs' = [jobs EXCEPT ![a] = None] /\ UNCHANGED groups
       \/ groups[a] # None /\ groups' = [groups EXCEPT ![a] = None] /\ UNCHANGED jobs
    /\ UNCHANGED <<task, server, classify, verdicts, pc, sleeps, known>>

-----------------------------------------------------------------------------
(* The status of a unit on an ancestor. *)

LabelStatus(snapshot, u) ==
    CASE "passed" \in snapshot.rec[u] -> "passed"
      [] "passed" \notin snapshot.rec[u] /\ snapshot.open -> "pending"
      [] snapshot.rec[u] = {"failed"} /\ ~snapshot.open -> "failed"
      [] OTHER -> "none"

\* Only tasks among the jobs that were read count, and of a snapshot
\* without open jobs those are the ones which had finished by then.
Visible(snapshot, results, u) ==
    {r \in results[u] : snapshot.open \/ r \in snapshot.rec[u]}

GroupStatus(snapshot, results, u) ==
    LET seen == Visible(snapshot, results, u)
    IN  CASE "passed" \in seen -> "passed"
          [] seen = {"failed"} -> "failed"
          [] seen = {} /\ snapshot.open -> "pending"
          [] OTHER -> "none"

-----------------------------------------------------------------------------
(* The walk. *)

\* A chunked task label, or no configuration: nothing is comparable.
Incomparable ==
    /\ pc = "start" /\ LookPastPending
    /\ pc' = "done" /\ new' = units
    /\ UNCHANGED <<task, server, caches, classify, unresolved, todo, pending,
                   sleeps, known>>

\* should_abort is asked before each poll, and never during one.
Abort ==
    /\ pc \in {"start", "poll"}
    /\ pc' = "aborted"
    /\ UNCHANGED <<task, server, caches, classify, verdicts, sleeps, known>>

Poll ==
    /\ pc \in {"start", "poll"}
    /\ pc' = "walk" /\ todo' = unresolved /\ pending' = {}
    /\ UNCHANGED <<task, server, caches, classify, unresolved, new, sleeps, known>>

Take(u) ==
    /\ pc = "walk" /\ unit = None /\ u \in todo
    /\ unit' = u /\ depth' = 0 /\ stepped' = FALSE
    /\ UNCHANGED <<task, server, caches, verdicts, held, pc, sleeps, known>>

\* The verdict on the unit: "new", "inherited" or "pending".
Classified(verdict) ==
    /\ todo' = todo \ {unit} /\ unit' = None /\ depth' = 0 /\ stepped' = FALSE
    /\ new' = IF verdict = "new" THEN new \union {unit} ELSE new
    /\ pending' = IF verdict = "pending" THEN pending \union {unit} ELSE pending

StepOver(status) ==
    /\ depth' = depth + 1 /\ stepped' = (stepped \/ status = "pending")
    /\ UNCHANGED <<unit, todo, new, pending>>

Judge(status) ==
    \/ status = "passed" /\ Classified("new")
    \/ status = "failed" /\ Classified("inherited")
    \/ status = "pending" /\ ~LookPastPending /\ Classified("pending")
    \/ status = "pending" /\ LookPastPending /\ StepOver(status)
    \/ status = "none" /\ StepOver(status)

\* label_jobs, one query; config_jobs, the first of two.
ReadJobs ==
    /\ pc = "walk" /\ unit # None /\ depth < chain /\ held = None
    /\ LET a == depth + 1
           snapshot == Cached(jobs[a], Current(a))
       IN  /\ jobs' = [jobs EXCEPT ![a] = snapshot]
           /\ IF kind = "group"
              THEN held' = snapshot
                   /\ UNCHANGED <<unit, depth, stepped, todo, new, pending>>
              ELSE Judge(LabelStatus(snapshot, unit)) /\ UNCHANGED held
    /\ UNCHANGED <<task, server, groups, unresolved, pc, sleeps, known>>

\* group_results
ReadResults ==
    /\ pc = "walk" /\ held # None
    /\ LET a == depth + 1
           results == Cached(groups[a], recorded[a])
       IN  /\ groups' = [groups EXCEPT ![a] = results]
           /\ Judge(GroupStatus(held, results, unit))
    /\ held' = None
    /\ UNCHANGED <<task, server, jobs, unresolved, pc, sleeps, known>>

ChainEnds ==
    /\ pc = "walk" /\ unit # None /\ depth = chain
    /\ Classified(IF stepped THEN "pending" ELSE "new")
    /\ UNCHANGED <<task, server, caches, held, unresolved, pc, sleeps, known>>

\* A query fails for good, or mozci does: every unit of the poll is new.
Raise ==
    /\ pc = "walk" /\ unit # None
    /\ pc' = "done" /\ new' = new \union unresolved
    /\ UNCHANGED <<task, server, caches, classify, unresolved, todo, pending,
                   sleeps, known>>

PollEnds == pc = "walk" /\ unit = None /\ todo = {}

AllDecided ==
    /\ PollEnds /\ pending = {}
    /\ pc' = "done"
    /\ UNCHANGED <<task, server, caches, classify, verdicts, sleeps, known>>

\* The queries take time too, so that the deadline may pass in any poll.
\* Mutant of Deadline: the undecided units are left out.
DeadlineDrops ==
    /\ PollEnds /\ pending # {}
    /\ pc' = "done"
    /\ UNCHANGED <<task, server, caches, classify, verdicts, sleeps, known>>

\* Mutant of Deadline: the walk waits for its ancestors.
NoDeadline == FALSE /\ UNCHANGED vars

Deadline ==
    /\ PollEnds /\ pending # {}
    /\ pc' = "done" /\ new' = new \union pending
    /\ UNCHANGED <<task, server, caches, classify, unresolved, todo, pending,
                   sleeps, known>>

\* Mutant of Sleep: the entries outlive the poll interval.
SleepShort ==
    /\ PollEnds /\ pending # {} /\ sleeps < MaxSleeps
    /\ pc' = "poll" /\ unresolved' = pending /\ sleeps' = sleeps + 1
    /\ known' = recorded
    /\ UNCHANGED <<task, server, caches, classify, todo, pending, new>>

\* Two minutes of sleep, after which no entry of before is younger than one.
Sleep ==
    /\ PollEnds /\ pending # {} /\ sleeps < MaxSleeps
    /\ pc' = "poll" /\ unresolved' = pending /\ sleeps' = sleeps + 1
    /\ jobs' = [a \in Ancestors |-> None] /\ groups' = [a \in Ancestors |-> None]
    /\ known' = recorded
    /\ UNCHANGED <<task, server, classify, todo, pending, new>>

Walk ==
    \/ Incomparable \/ Abort \/ Poll
    \/ \E u \in units : Take(u)
    \/ ReadJobs \/ ReadResults \/ ChainEnds \/ Raise
    \/ AllDecided \/ Deadline \/ Sleep

Over == pc \in {"done", "aborted"}

\* What happens after the walk is not followed.
World == ~Over /\ \E a \in Ancestors :
    a <= chain /\ (JobEnds(a) \/ JobScheduled(a) \/ OtherWalkReads(a) \/ EntryExpires(a))

Next == Walk \/ World

\* A worker thread runs; nothing is assumed of Treeherder's jobs.
Spec == Init /\ [][Next]_vars /\ WF_vars(Walk)

-----------------------------------------------------------------------------
(* What the listener relies on. *)

TypeOK ==
    /\ kind \in {"build", "task", "group"}
    /\ units \subseteq Units /\ chain \in 0 .. MaxDepth
    /\ recorded \in [Ancestors -> Results] /\ open \in [Ancestors -> BOOLEAN]
    /\ jobs \in [Ancestors -> Snapshots \union {None}]
    /\ groups \in [Ancestors -> Results \union {None}]
    /\ pc \in {"start", "walk", "poll", "done", "aborted"}
    /\ unresolved \subseteq units /\ new \subseteq units
    /\ todo \subseteq unresolved /\ pending \subseteq unresolved \ (IF pc = "walk" THEN todo ELSE {})
    /\ unit \in todo \union {None} /\ depth \in 0 .. chain /\ stepped \in BOOLEAN
    /\ held \in Snapshots \union {None}
    /\ held # None => unit # None /\ depth < chain
    /\ sleeps \in 0 .. MaxSleeps
    /\ known \in [Ancestors -> Results]

\* The walk fails open, "so a real regression is never silently dropped"
\* (regression.py:220): whatever was cached, pending, missing or unreadable,
\* a unit is dropped only if a run on some ancestor recorded a failure of it.
\* On a failure the push introduced that run was an intermittent one, the
\* cost the comment on _group_status owns up to.
RegressionKept ==
    pc = "done" =>
        \A u \in units \ new : \E a \in 1 .. chain : "failed" \in recorded[a][u]

\* What the last sleep left for decisive: a pass always is, a failure only
\* for groups, since a label's open run may still turn green.
Decisive(a, u) ==
    "passed" \in known[a][u] \/ (kind = "group" /\ known[a][u] # {})

\* The caches expire within a poll interval, "so a walk waiting on an
\* unsettled ancestor still sees fresh results on its next attempt"
\* (treeherder.py:41): no ancestor whose results were decisive when the walk
\* fell asleep is passed over by its next poll, and none that had passed
\* is taken for failing.
SeesFreshResults ==
    [][ \A u \in todo \ todo' :
          /\ \A a \in 1 .. depth : ~Decisive(a, u)
          /\ u \notin new' \union pending' => "passed" \notin known[depth + 1][u]
      ]_vars

\* The walk ends, though ancestors may stay unsettled for ever: it waits no
\* longer than MAX_WAIT_SECONDS.
WalkEnds == <>Over

=============================================================================
