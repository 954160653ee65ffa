------------------------ MODULE RegressionWalkProofs ------------------------
(***************************************************************************)
(* RegressionWalk for any units, any depth and any number of polls: its    *)
(* types, that no regression is dropped without a recorded failure, and    *)
(* that a poll sees what was recorded when the walk fell asleep.           *)
(***************************************************************************)
EXTENDS RegressionWalk, TLAPS

-----------------------------------------------------------------------------
(* The statuses. *)

Statuses == {"passed", "failed", "pending", "none"}

\* A verdict says what the jobs that were read recorded (_label_status).
LEMMA LabelStatusSays ==
    ASSUME NEW s \in Snapshots, NEW u \in Units
    PROVE  /\ LabelStatus(s, u) \in Statuses
           /\ LabelStatus(s, u) = "failed" => "failed" \in s.rec[u]
           /\ "passed" \in s.rec[u] => LabelStatus(s, u) = "passed"
BY DEF LabelStatus, Statuses, Snapshots, Results, Outcomes

\* The same of what is visible of a group (_group_status), where a failure is
\* decisive too.
LEMMA GroupStatusSays ==
    ASSUME NEW s \in Snapshots, NEW g \in Results, NEW u \in Units
    PROVE  /\ GroupStatus(s, g, u) \in Statuses
           /\ GroupStatus(s, g, u) = "failed" => "failed" \in g[u]
           /\ "passed" \in g[u] \cap s.rec[u] => GroupStatus(s, g, u) = "passed"
           /\ g[u] \cap s.rec[u] # {} => GroupStatus(s, g, u) \in {"passed", "failed"}
<1> DEFINE seen == Visible(s, g, u)
<1>1. seen \subseteq g[u] /\ seen \subseteq Outcomes /\ g[u] \cap s.rec[u] \subseteq seen
  BY DEF Visible, Results
<1>2. GroupStatus(s, g, u) = CASE "passed" \in seen -> "passed"
                               [] seen = {"failed"} -> "failed"
                               [] seen = {} /\ s.open -> "pending"
                               [] OTHER -> "none"
  BY DEF GroupStatus
<1> HIDE DEF seen
<1>3. "passed" \in seen \/ seen = {"failed"} \/ seen = {}
  BY <1>1 DEF Outcomes
<1> QED BY <1>1, <1>2, <1>3 DEF Statuses

-----------------------------------------------------------------------------
(* The invariant. *)

HasFailed(u) == \E a \in 1 .. chain : "failed" \in recorded[a][u]

\* The units the walk has still to decide, or has found new.
Alive ==
    new \union (CASE pc \in {"start", "poll", "aborted"} -> unresolved
                  [] pc = "walk" -> todo \union pending
                  [] OTHER -> {})

\* Nothing in a cache was never recorded, and nothing known is missing there.
Between(a, rec) == \A u \in Units : known[a][u] \subseteq rec[u] /\ rec[u] \subseteq recorded[a][u]

CachesTrue ==
    /\ \A a \in Ancestors : Between(a, recorded[a])
    /\ \A a \in Ancestors : jobs[a] # None => Between(a, jobs[a].rec)
    /\ \A a \in Ancestors : groups[a] # None => Between(a, groups[a])
    /\ held # None => Between(depth + 1, held.rec)

\* The ancestors the walk has passed decided nothing.
PassedRightly == unit # None => \A a \in 1 .. depth : ~Decisive(a, unit)

Dropped == \A u \in units \ Alive : HasFailed(u)

Inv == TypeOK /\ CachesTrue /\ PassedRightly /\ Dropped

-----------------------------------------------------------------------------

LEMMA InitInv == Init => Inv
<1> SUFFICES ASSUME Init PROVE Inv
  OBVIOUS
<1> USE WalkAssumption
<1>1. Nothing \in Results /\ [a \in Ancestors |-> Nothing] \in [Ancestors -> Results]
  BY DEF Nothing, Results, Outcomes
<1>2. TypeOK
  <2>1. chain \in 0 .. MaxDepth /\ 0 \in 0 .. chain /\ 0 \in 0 .. MaxSleeps
    BY DEF Init
  <2>2. [a \in Ancestors |-> None] \in [Ancestors -> Snapshots \union {None}]
        /\ [a \in Ancestors |-> None] \in [Ancestors -> Results \union {None}]
    OBVIOUS
  <2>3. QED
    BY <1>1, <2>1, <2>2 DEF Init, TypeOK
<1>3. CachesTrue
  BY DEF Init, CachesTrue, Between, Nothing
<1>4. PassedRightly
  BY DEF Init, PassedRightly
<1>5. Dropped
  BY DEF Init, Dropped, Alive
<1>6. QED
  BY <1>2, <1>3, <1>4, <1>5 DEF Inv

\* Where the invariant does not look.
LEMMA UntouchedCaches ==
  ASSUME CachesTrue, UNCHANGED <<known, recorded, caches, held, depth>>
  PROVE  CachesTrue'
BY DEF CachesTrue, Between, caches

LEMMA UntouchedVerdicts ==
  ASSUME Dropped, UNCHANGED <<units, chain, recorded, verdicts, pc>>
  PROVE  Dropped'
BY DEF Dropped, Alive, HasFailed, verdicts

LEMMA UntouchedWalk ==
  ASSUME PassedRightly, UNCHANGED <<unit, depth, known, kind>>
  PROVE  PassedRightly'
BY DEF PassedRightly, Decisive

-----------------------------------------------------------------------------
(* Treeherder and the other walks. *)

LEMMA JobEndsKeeps ==
  ASSUME Inv, NEW a \in Ancestors, JobEnds(a)
  PROVE  Inv'
<1> USE WalkAssumption
<1>0. TypeOK /\ CachesTrue /\ PassedRightly /\ Dropped
  BY DEF Inv
<1>1. PICK ran \in SUBSET units : \E shown \in [ran -> Outcomes] :
        recorded' = [recorded EXCEPT ![a] = [u \in Units |->
            IF u \in ran THEN @[u] \union {shown[u]} ELSE @[u]]]
  BY DEF JobEnds
<1>2. PICK shown \in [ran -> Outcomes] :
        recorded' = [recorded EXCEPT ![a] = [u \in Units |->
            IF u \in ran THEN @[u] \union {shown[u]} ELSE @[u]]]
  BY <1>1
<1>3. recorded \in [Ancestors -> Results] /\ units \subseteq Units
  BY <1>0 DEF TypeOK
<1>4. recorded' \in [Ancestors -> Results]
  BY <1>2, <1>3 DEF Results
<1>5. \A b \in Ancestors, u \in Units : recorded[b][u] \subseteq recorded'[b][u]
  BY <1>2, <1>3 DEF Results
<1>6. TypeOK'
  BY <1>0, <1>4 DEF TypeOK, JobEnds, task, caches, classify, verdicts
<1>7. CachesTrue'
  <2>1. ASSUME NEW b \in Ancestors, NEW rec, Between(b, rec)
        PROVE  \A u \in Units : known[b][u] \subseteq rec[u] /\ rec[u] \subseteq recorded'[b][u]
    BY <1>5, <2>1 DEF Between
  <2>2. \A b \in Ancestors : Between(b, recorded[b])
    BY <1>0 DEF CachesTrue
  <2>3. \A b \in Ancestors : Between(b, recorded[b])'
    BY <1>5, <2>2 DEF Between, JobEnds
  <2>4. \A b \in Ancestors : jobs[b] # None => Between(b, jobs[b].rec)'
    BY <1>0, <2>1 DEF CachesTrue, Between, JobEnds, caches
  <2>5. \A b \in Ancestors : groups[b] # None => Between(b, groups[b])'
    BY <1>0, <2>1 DEF CachesTrue, Between, JobEnds, caches
  <2>6. held # None => Between(depth + 1, held.rec)'
    <3>1. held # None => depth + 1 \in Ancestors
      BY <1>0 DEF TypeOK, Ancestors
    <3> QED BY <1>0, <2>1, <3>1 DEF CachesTrue, Between, JobEnds, classify
  <2>7. UNCHANGED <<jobs, groups, held, depth>>
    BY DEF JobEnds, caches, classify
  <2>8. QED
    BY <2>3, <2>4, <2>5, <2>6, <2>7 DEF CachesTrue
<1>8. PassedRightly'
  BY <1>0, UntouchedWalk DEF JobEnds, classify, task
<1>9. Dropped'
  <2>1. \A b \in 1 .. chain : b \in Ancestors
    BY <1>0 DEF TypeOK, Ancestors
  <2>2. UNCHANGED <<units, chain, verdicts, pc>> /\ Alive' = Alive
    BY DEF JobEnds, task, verdicts, Alive
  <2>3. \A u \in units : HasFailed(u) => HasFailed(u)'
    BY <1>3, <1>5, <2>1, <2>2 DEF HasFailed
  <2>4. QED
    BY <1>0, <2>2, <2>3 DEF Dropped
<1>10. QED
  BY <1>6, <1>7, <1>8, <1>9 DEF Inv

LEMMA JobScheduledKeeps ==
  ASSUME Inv, NEW a \in Ancestors, JobScheduled(a)
  PROVE  Inv'
<1>0. TypeOK /\ CachesTrue /\ PassedRightly /\ Dropped
  BY DEF Inv
<1>1. TypeOK'
  BY <1>0 DEF TypeOK, JobScheduled, task, caches, classify, verdicts
<1>2. CachesTrue'
  BY <1>0, UntouchedCaches DEF JobScheduled, classify
<1>3. PassedRightly'
  BY <1>0, UntouchedWalk DEF JobScheduled, classify, task
<1>4. Dropped'
  BY <1>0, UntouchedVerdicts DEF JobScheduled, task
<1>5. QED
  BY <1>1, <1>2, <1>3, <1>4 DEF Inv

\* What a read stores is what was recorded.
LEMMA ReadIsTrue ==
  ASSUME Inv, NEW a \in Ancestors
  PROVE  /\ Current(a) \in Snapshots
         /\ Cached(jobs[a], Current(a)) \in Snapshots
         /\ Between(a, Cached(jobs[a], Current(a)).rec)
         /\ Cached(groups[a], recorded[a]) \in Results
         /\ Between(a, Cached(groups[a], recorded[a]))
<1>1. TypeOK /\ CachesTrue
  BY DEF Inv
<1>2. Current(a) \in Snapshots /\ Current(a).rec = recorded[a] /\ recorded[a] \in Results
  BY <1>1 DEF TypeOK, Current, Snapshots
<1>3. Between(a, recorded[a]) /\ (jobs[a] # None => Between(a, jobs[a].rec))
      /\ (groups[a] # None => Between(a, groups[a]))
  BY <1>1 DEF CachesTrue
<1>4. jobs[a] \in Snapshots \union {None} /\ groups[a] \in Results \union {None}
  BY <1>1 DEF TypeOK
<1>5. QED
  BY <1>2, <1>3, <1>4 DEF Cached

LEMMA OtherWalkReadsKeeps ==
  ASSUME Inv, NEW a \in Ancestors, OtherWalkReads(a)
  PROVE  Inv'
<1>0. TypeOK /\ CachesTrue /\ PassedRightly /\ Dropped
  BY DEF Inv
<1>1. Current(a) \in Snapshots /\ Between(a, Current(a).rec) /\ recorded[a] \in Results
      /\ Between(a, recorded[a])
  BY <1>0 DEF TypeOK, CachesTrue, Current, Snapshots
<1>2. TypeOK'
  BY <1>0, <1>1 DEF TypeOK, OtherWalkReads, task, server, classify, verdicts
<1>3. CachesTrue'
  BY <1>0, <1>1 DEF TypeOK, CachesTrue, Between, OtherWalkReads, server, classify
<1>4. PassedRightly'
  BY <1>0, UntouchedWalk DEF OtherWalkReads, classify, task
<1>5. Dropped'
  BY <1>0, UntouchedVerdicts DEF OtherWalkReads, task, server
<1>6. QED
  BY <1>2, <1>3, <1>4, <1>5 DEF Inv

LEMMA EntryExpiresKeeps ==
  ASSUME Inv, NEW a \in Ancestors, EntryExpires(a)
  PROVE  Inv'
<1>0. TypeOK /\ CachesTrue /\ PassedRightly /\ Dropped
  BY DEF Inv
<1>1. TypeOK'
  BY <1>0 DEF TypeOK, EntryExpires, task, server, classify, verdicts
<1>2. CachesTrue'
  BY <1>0 DEF TypeOK, CachesTrue, Between, EntryExpires, server, classify
<1>3. PassedRightly'
  BY <1>0, UntouchedWalk DEF EntryExpires, classify, task
<1>4. Dropped'
  BY <1>0, UntouchedVerdicts DEF EntryExpires, task, server
<1>5. QED
  BY <1>1, <1>2, <1>3, <1>4 DEF Inv

-----------------------------------------------------------------------------
(* The walk. *)

LEMMA StartsKeep ==
  ASSUME Inv, Incomparable \/ Abort \/ Poll
  PROVE  Inv'
<1>0. TypeOK /\ CachesTrue /\ PassedRightly /\ Dropped
  BY DEF Inv
<1>1. UNCHANGED <<task, server, caches, classify, unresolved, sleeps, known>>
  BY DEF Incomparable, Abort, Poll, verdicts
<1>2. pc \in {"start", "poll"} /\ pc' \in {"walk", "done", "aborted"}
      /\ units \subseteq Units
      /\ new' \in {new, units} /\ todo' \in {todo, unresolved} /\ pending' \in {pending, {}}
  BY <1>0 DEF Incomparable, Abort, Poll, verdicts, TypeOK
<1>3. /\ todo' \subseteq unresolved /\ todo \subseteq todo'
      /\ pending' \subseteq unresolved \ (IF pc' = "walk" THEN todo' ELSE {})
  BY <1>0 DEF Incomparable, Abort, Poll, verdicts, TypeOK
<1>4. TypeOK'
  BY <1>0, <1>1, <1>2, <1>3 DEF TypeOK, task, server, caches, classify
<1>5. CachesTrue'
  BY <1>0, <1>1, UntouchedCaches DEF server, classify
<1>6. PassedRightly'
  BY <1>0, <1>1, UntouchedWalk DEF classify, task
<1>7. Dropped'
  <2>1. Alive \subseteq Alive' \/ new' = units
    BY DEF Incomparable, Abort, Poll, verdicts, Alive
  <2>2. \A u \in units : HasFailed(u) => HasFailed(u)'
    BY <1>1 DEF HasFailed, task, server
  <2>3. QED
    BY <1>0, <1>1, <2>1, <2>2 DEF Dropped, task, Alive
<1>8. QED
  BY <1>4, <1>5, <1>6, <1>7 DEF Inv

LEMMA TakeKeeps ==
  ASSUME Inv, NEW u \in units, Take(u)
  PROVE  Inv'
<1>0. TypeOK /\ CachesTrue /\ PassedRightly /\ Dropped
  BY DEF Inv
<1>1. held = None /\ held' = None /\ u \in todo /\ depth' = 0 /\ unit' = u /\ stepped' = FALSE
  BY <1>0 DEF TypeOK, Take
<1>2. 0 \in 0 .. chain
  BY <1>0, WalkAssumption DEF TypeOK
<1>3. TypeOK'
  BY <1>0, <1>1, <1>2 DEF TypeOK, Take, task, server, caches, verdicts
<1>4. CachesTrue'
  BY <1>0, <1>1 DEF CachesTrue, Between, Take, server, caches
<1>5. PassedRightly'
  BY <1>1 DEF PassedRightly
<1>6. Dropped'
  BY <1>0, UntouchedVerdicts DEF Take, task, server
<1>7. QED
  BY <1>3, <1>4, <1>5, <1>6 DEF Inv

\* What becomes of the unit the walk judges.
LEMMA JudgeSays ==
  ASSUME TypeOK, pc = "walk", unit # None, depth < chain,
         NEW status \in Statuses, Judge(status)
  PROVE  /\ unit \in todo /\ todo' \subseteq todo /\ todo \subseteq todo' \union {unit}
         /\ new' \subseteq units /\ pending' \subseteq unresolved \ todo'
         /\ new \union pending \subseteq new' \union pending'
         /\ unit' \in todo' \union {None} /\ depth' \in 0 .. chain /\ stepped' \in BOOLEAN
         /\ unit \notin todo' \union pending' \union new' => status = "failed"
         /\ unit' # None => /\ todo' = todo /\ unit' = unit /\ depth' = depth + 1
                            /\ status = "none" \/ (status = "pending" /\ LookPastPending)
<1>1. /\ unit \in todo /\ todo \subseteq unresolved /\ unresolved \subseteq units
      /\ new \subseteq units /\ pending \subseteq unresolved \ todo
      /\ depth \in 0 .. chain /\ chain \in Nat /\ stepped \in BOOLEAN
  BY WalkAssumption DEF TypeOK
<1>2. CASE \E v \in {"new", "inherited", "pending"} :
             Classified(v) /\ (v = "inherited" => status = "failed")
  <2>1. unit' = None /\ todo' = todo \ {unit} /\ depth' = 0 /\ stepped' = FALSE
    BY <1>2 DEF Classified
  <2>2. /\ new' \subseteq new \union {unit} /\ pending' \subseteq pending \union {unit}
        /\ new \subseteq new' /\ pending \subseteq pending'
        /\ unit \notin pending' \union new' => status = "failed"
    BY <1>2 DEF Classified
  <2>3. 0 \in 0 .. chain
    BY <1>1
  <2>4. QED
    BY <1>1, <2>1, <2>2, <2>3
<1>3. CASE StepOver(status) /\ (status = "none" \/ (status = "pending" /\ LookPastPending))
  <2>1. depth + 1 \in 0 .. chain
    BY <1>1
  <2>2. QED
    BY <1>1, <1>3, <2>1 DEF StepOver
<1>4. QED
  BY <1>2, <1>3 DEF Judge

\* A unit is judged by a status that was recorded: nothing is passed over that
\* was known to decide, and nothing dropped that had not failed.
LEMMA JudgeKeeps ==
  ASSUME Inv, pc = "walk", unit # None, depth < chain,
         NEW status \in Statuses, Judge(status),
         status = "failed" => "failed" \in recorded[depth + 1][unit],
         (status = "none" \/ (status = "pending" /\ LookPastPending))
            => ~Decisive(depth + 1, unit),
         UNCHANGED <<task, server, unresolved, pc, known>>
  PROVE  PassedRightly' /\ Dropped'
<1>0. TypeOK /\ PassedRightly /\ Dropped
  BY DEF Inv
<1> DEFINE Judged ==
         /\ unit \in todo /\ todo' \subseteq todo /\ todo \subseteq todo' \union {unit}
         /\ new \union pending \subseteq new' \union pending'
         /\ unit \notin todo' \union pending' \union new' => status = "failed"
         /\ unit' # None => /\ unit' = unit /\ depth' = depth + 1
                            /\ status = "none" \/ (status = "pending" /\ LookPastPending)
<1>1. Judged
  BY <1>0, JudgeSays
<1>2. PassedRightly'
  <2>1. depth \in Nat /\ depth + 1 \in 1 .. chain
    BY <1>0, WalkAssumption DEF TypeOK
  <2>2. SUFFICES ASSUME unit' # None, NEW a \in 1 .. depth'
                 PROVE  ~Decisive(a, unit)
    BY <1>1 DEF PassedRightly, Decisive, task
  <2>3. a \in 1 .. depth \/ a = depth + 1
    BY <1>1, <2>1, <2>2
  <2>4. QED
    BY <1>0, <1>1, <2>2, <2>3 DEF PassedRightly
<1>3. Dropped'
  <2>1. depth + 1 \in 1 .. chain
    BY <1>0, WalkAssumption DEF TypeOK
  <2>2. Alive = new \union todo \union pending /\ Alive' = new' \union todo' \union pending'
    BY DEF Alive
  <2>3. \A u \in units : u \in Alive \/ HasFailed(u)
    BY <1>0 DEF Dropped
  <2>4. UNCHANGED <<units, chain, recorded>>
    BY DEF task, server
  <2>5. \A u \in units : HasFailed(u) <=> HasFailed(u)'
    BY <2>4 DEF HasFailed
  <2>6. unit \notin Alive' => HasFailed(unit)
    BY <1>1, <2>1, <2>2 DEF HasFailed
  <2>7. QED
    BY <1>1, <2>2, <2>3, <2>4, <2>5, <2>6 DEF Dropped
<1>4. QED
  BY <1>2, <1>3

\* A label's status on the next ancestor.
LEMMA LabelIsKnown ==
  ASSUME Inv, pc = "walk", unit # None, depth < chain, kind # "group"
  PROVE  LET status == LabelStatus(Cached(jobs[depth + 1], Current(depth + 1)), unit)
         IN  /\ status \in Statuses
             /\ status = "failed" => "failed" \in recorded[depth + 1][unit]
             /\ "passed" \in known[depth + 1][unit] => status = "passed"
             /\ Decisive(depth + 1, unit) => status = "passed"
<1> DEFINE a == depth + 1
           snapshot == Cached(jobs[a], Current(a))
           status == LabelStatus(snapshot, unit)
<1>1. a \in Ancestors /\ unit \in Units
  BY WalkAssumption DEF Inv, TypeOK, Ancestors
<1>2. snapshot \in Snapshots /\ Between(a, snapshot.rec)
  BY <1>1, ReadIsTrue
<1>3. /\ known[a][unit] \subseteq snapshot.rec[unit]
      /\ snapshot.rec[unit] \subseteq recorded[a][unit]
  BY <1>1, <1>2 DEF Between
<1>4. /\ status \in Statuses
      /\ status = "failed" => "failed" \in snapshot.rec[unit]
      /\ "passed" \in snapshot.rec[unit] => status = "passed"
  BY <1>1, <1>2, LabelStatusSays
<1> HIDE DEF a, snapshot
<1>5. QED
  BY <1>3, <1>4 DEF Decisive, a, snapshot

\* A group's, from the jobs that are held and the results.
LEMMA GroupIsKnown ==
  ASSUME Inv, pc = "walk", held # None
  PROVE  LET status == GroupStatus(held, Cached(groups[depth + 1], recorded[depth + 1]), unit)
         IN  /\ status \in Statuses
             /\ status = "failed" => "failed" \in recorded[depth + 1][unit]
             /\ "passed" \in known[depth + 1][unit] => status = "passed"
             /\ Decisive(depth + 1, unit) => status \in {"passed", "failed"}
<1> DEFINE a == depth + 1
           results == Cached(groups[a], recorded[a])
           status == GroupStatus(held, results, unit)
<1>1. a \in Ancestors /\ unit \in Units /\ held \in Snapshots
  BY WalkAssumption DEF Inv, TypeOK, Ancestors
<1>2. results \in Results /\ Between(a, results) /\ Between(a, held.rec)
  BY <1>1, ReadIsTrue DEF Inv, CachesTrue
<1>3. /\ known[a][unit] \subseteq results[unit] \cap held.rec[unit]
      /\ results[unit] \subseteq recorded[a][unit]
  BY <1>1, <1>2 DEF Between
<1>4. /\ status \in Statuses
      /\ status = "failed" => "failed" \in results[unit]
      /\ "passed" \in results[unit] \cap held.rec[unit] => status = "passed"
      /\ results[unit] \cap held.rec[unit] # {} => status \in {"passed", "failed"}
  BY <1>1, <1>2, GroupStatusSays
<1> HIDE DEF a, results
<1>5. QED
  BY <1>3, <1>4 DEF Decisive, a, results

LEMMA ReadJobsKeeps ==
  ASSUME Inv, ReadJobs
  PROVE  Inv'
<1> DEFINE a == depth + 1
           snapshot == Cached(jobs[a], Current(a))
<1>0. TypeOK /\ CachesTrue /\ PassedRightly /\ Dropped
  BY DEF Inv
<1>1. a \in Ancestors /\ a \in 1 .. chain
  BY <1>0, WalkAssumption DEF ReadJobs, TypeOK, Ancestors
<1>2. snapshot \in Snapshots /\ Between(a, snapshot.rec)
  BY <1>1, ReadIsTrue
<1>3. jobs' = [jobs EXCEPT ![a] = snapshot] /\ pc = "walk" /\ unit # None /\ depth < chain
      /\ held = None /\ UNCHANGED <<task, server, groups, unresolved, pc, sleeps, known>>
  BY DEF ReadJobs
<1>4. CASE kind = "group"
  <2>1. held' = snapshot /\ UNCHANGED <<unit, depth, stepped, todo, new, pending>>
    BY <1>4 DEF ReadJobs
  <2> HIDE DEF a, snapshot
  <2>2. TypeOK'
    BY <1>0, <1>1, <1>2, <1>3, <2>1 DEF TypeOK, task, server
  <2>3. CachesTrue'
    BY <1>0, <1>1, <1>2, <1>3, <2>1 DEF TypeOK, CachesTrue, Between, server, a
  <2>4. PassedRightly'
    BY <1>0, <1>3, <2>1, UntouchedWalk DEF task
  <2>5. Dropped'
    BY <1>0, <1>3, <2>1, UntouchedVerdicts DEF task, server, verdicts
  <2>6. QED
    BY <2>2, <2>3, <2>4, <2>5 DEF Inv
<1>5. CASE kind # "group"
  <2> DEFINE status == LabelStatus(snapshot, unit)
  <2>1. Judge(status) /\ held' = None
    BY <1>3, <1>5 DEF ReadJobs
  <2>2. /\ status \in Statuses
        /\ status = "failed" => "failed" \in recorded[a][unit]
        /\ Decisive(a, unit) => status = "passed"
    BY <1>3, <1>5, LabelIsKnown
  <2>3. /\ todo' \subseteq todo
        /\ new' \subseteq units /\ pending' \subseteq unresolved \ todo'
        /\ unit' \in todo' \union {None} /\ depth' \in 0 .. chain /\ stepped' \in BOOLEAN
    BY <1>0, <1>3, <2>1, <2>2, JudgeSays
  <2>4. PassedRightly' /\ Dropped'
    BY <1>3, <2>1, <2>2, JudgeKeeps
  <2> HIDE DEF a, snapshot, status
  <2>5. TypeOK'
    BY <1>0, <1>1, <1>2, <1>3, <2>1, <2>3 DEF TypeOK, task, server
  <2>6. CachesTrue'
    BY <1>0, <1>1, <1>2, <1>3, <2>1 DEF TypeOK, CachesTrue, Between, server
  <2>7. QED
    BY <2>4, <2>5, <2>6 DEF Inv
<1>6. QED
  BY <1>4, <1>5

LEMMA ReadResultsKeeps ==
  ASSUME Inv, ReadResults
  PROVE  Inv'
<1> DEFINE a == depth + 1
           results == Cached(groups[a], recorded[a])
           status == GroupStatus(held, results, unit)
<1>0. TypeOK /\ CachesTrue /\ PassedRightly /\ Dropped
  BY DEF Inv
<1>1. groups' = [groups EXCEPT ![a] = results] /\ pc = "walk" /\ unit # None /\ depth < chain
      /\ held # None /\ held' = None
      /\ UNCHANGED <<task, server, jobs, unresolved, pc, sleeps, known>>
  BY <1>0 DEF ReadResults, TypeOK
<1>2. a \in Ancestors /\ a \in 1 .. chain
  BY <1>0, <1>1, WalkAssumption DEF TypeOK, Ancestors
<1>3. results \in Results /\ Between(a, results)
  BY <1>2, ReadIsTrue
<1>4. Judge(status)
  BY DEF ReadResults
<1>5. /\ status \in Statuses
      /\ status = "failed" => "failed" \in recorded[a][unit]
      /\ Decisive(a, unit) => status \in {"passed", "failed"}
  BY <1>1, GroupIsKnown
<1>6. /\ todo' \subseteq todo
      /\ new' \subseteq units /\ pending' \subseteq unresolved \ todo'
      /\ unit' \in todo' \union {None} /\ depth' \in 0 .. chain /\ stepped' \in BOOLEAN
  BY <1>0, <1>1, <1>4, <1>5, JudgeSays
<1>7. PassedRightly' /\ Dropped'
  BY <1>1, <1>4, <1>5, JudgeKeeps
<1> HIDE DEF a, results, status
<1>8. TypeOK'
  BY <1>0, <1>1, <1>2, <1>3, <1>6 DEF TypeOK, task, server
<1>9. CachesTrue'
  BY <1>0, <1>1, <1>2, <1>3 DEF TypeOK, CachesTrue, Between, server
<1>10. QED
  BY <1>7, <1>8, <1>9 DEF Inv

LEMMA ChainEndsKeeps ==
  ASSUME Inv, ChainEnds
  PROVE  Inv'
<1>0. TypeOK /\ CachesTrue /\ PassedRightly /\ Dropped
  BY DEF Inv
<1>1. /\ pc = "walk" /\ pc' = "walk" /\ unit # None /\ held = None /\ held' = None
      /\ UNCHANGED <<task, server, caches, unresolved, sleeps, known>>
      /\ todo' = todo \ {unit} /\ unit' = None /\ depth' = 0 /\ stepped' = FALSE
  BY <1>0 DEF ChainEnds, Classified, TypeOK
<1>2. /\ new' \subseteq new \union {unit} /\ pending' \subseteq pending \union {unit}
      /\ new \union pending \union {unit} \subseteq new' \union pending'
  BY DEF ChainEnds, Classified
<1>3. 0 \in 0 .. chain /\ unit \in todo
  BY <1>0, <1>1, WalkAssumption DEF TypeOK
<1>4. TypeOK'
  BY <1>0, <1>1, <1>2, <1>3 DEF TypeOK, task, server, caches
<1>5. CachesTrue'
  BY <1>0, <1>1 DEF CachesTrue, Between, server, caches
<1>6. PassedRightly'
  BY <1>1 DEF PassedRightly
<1>7. Dropped'
  <2>1. Alive \subseteq Alive'
    BY <1>1, <1>2 DEF Alive
  <2>2. \A u \in units : HasFailed(u) => HasFailed(u)'
    BY <1>1 DEF HasFailed, task, server
  <2>3. QED
    BY <1>0, <1>1, <2>1, <2>2 DEF Dropped, task
<1>8. QED
  BY <1>4, <1>5, <1>6, <1>7 DEF Inv

LEMMA EndsKeep ==
  ASSUME Inv, Raise \/ AllDecided \/ Deadline
  PROVE  Inv'
<1>0. TypeOK /\ CachesTrue /\ PassedRightly /\ Dropped
  BY DEF Inv
<1>1. /\ pc = "walk" /\ pc' = "done"
      /\ UNCHANGED <<task, server, caches, classify, unresolved, todo, pending, sleeps, known>>
  BY DEF Raise, AllDecided, Deadline, PollEnds, verdicts
<1>2. new' \subseteq new \union unresolved /\ new \union todo \union pending \subseteq new'
  BY <1>0 DEF Raise, AllDecided, Deadline, PollEnds, verdicts, TypeOK
<1>3. TypeOK'
  BY <1>0, <1>1, <1>2 DEF TypeOK, task, server, caches, classify
<1>4. CachesTrue'
  BY <1>0, <1>1, UntouchedCaches DEF server, classify
<1>5. PassedRightly'
  BY <1>0, <1>1, UntouchedWalk DEF classify, task
<1>6. Dropped'
  <2>1. Alive \subseteq Alive'
    BY <1>1, <1>2 DEF Alive
  <2>2. \A u \in units : HasFailed(u) => HasFailed(u)'
    BY <1>1 DEF HasFailed, task, server
  <2>3. QED
    BY <1>0, <1>1, <2>1, <2>2 DEF Dropped, task
<1>7. QED
  BY <1>3, <1>4, <1>5, <1>6 DEF Inv

LEMMA SleepKeeps ==
  ASSUME Inv, Sleep
  PROVE  Inv'
<1>0. TypeOK /\ CachesTrue /\ PassedRightly /\ Dropped
  BY DEF Inv
<1>1. /\ pc = "walk" /\ pc' = "poll" /\ unit = None /\ unit' = None /\ todo = {} /\ todo' = {}
      /\ pending' = pending /\ unresolved' = pending /\ new' = new /\ sleeps' = sleeps + 1
      /\ held = None /\ held' = None /\ known' = recorded /\ sleeps < MaxSleeps
      /\ UNCHANGED <<task, server, depth, stepped>>
      /\ jobs' = [a \in Ancestors |-> None] /\ groups' = [a \in Ancestors |-> None]
  BY <1>0 DEF TypeOK, Sleep, PollEnds, classify
<1>2. TypeOK'
  <2>1. sleeps' \in 0 .. MaxSleeps
    BY <1>0, <1>1, WalkAssumption DEF TypeOK
  <2>2. jobs' \in [Ancestors -> Snapshots \union {None}]
        /\ groups' \in [Ancestors -> Results \union {None}]
    BY <1>1
  <2>3. QED
    BY <1>0, <1>1, <2>1, <2>2 DEF TypeOK, task, server
<1>3. CachesTrue'
  BY <1>1 DEF CachesTrue, Between, server
<1>4. PassedRightly'
  BY <1>1 DEF PassedRightly
<1>5. Dropped'
  <2>1. Alive = Alive'
    BY <1>1 DEF Alive
  <2>2. \A u \in units : HasFailed(u) => HasFailed(u)'
    BY <1>1 DEF HasFailed, task, server
  <2>3. QED
    BY <1>0, <1>1, <2>1, <2>2 DEF Dropped, task
<1>6. QED
  BY <1>2, <1>3, <1>4, <1>5 DEF Inv

-----------------------------------------------------------------------------
(* The theorems. *)

LEMMA StepKeeps == Inv /\ [Next]_vars => Inv'
<1> SUFFICES ASSUME Inv, [Next]_vars PROVE Inv'
  OBVIOUS
<1>1. CASE World
  BY <1>1, JobEndsKeeps, JobScheduledKeeps, OtherWalkReadsKeeps, EntryExpiresKeeps DEF World
<1>2. CASE Walk
  BY <1>2, StartsKeep, TakeKeeps, ReadJobsKeeps, ReadResultsKeeps, ChainEndsKeeps, EndsKeep,
     SleepKeeps DEF Walk
<1>3. CASE UNCHANGED vars
  <2>1. TypeOK /\ CachesTrue /\ PassedRightly /\ Dropped
    BY DEF Inv
  <2>2. UNCHANGED <<task, server, caches, classify, verdicts, pc, sleeps, known>>
    BY <1>3 DEF vars
  <2>3. TypeOK'
    BY <2>1, <2>2 DEF TypeOK, task, server, caches, classify, verdicts
  <2>4. CachesTrue' /\ PassedRightly' /\ Dropped'
    BY <2>1, <2>2, UntouchedCaches, UntouchedWalk, UntouchedVerdicts
       DEF task, server, classify
  <2>5. QED
    BY <2>3, <2>4 DEF Inv
<1>4. QED
  BY <1>1, <1>2, <1>3 DEF Next

THEOREM Invariance == Spec => []Inv
BY InitInv, StepKeeps, PTL DEF Spec

\* The types of a walk.
THEOREM TypesHold == Spec => []TypeOK
<1>1. Inv => TypeOK
  BY DEF Inv
<1>2. QED
  BY <1>1, Invariance, PTL

\* The walk drops a unit only if a run on some ancestor recorded a failure of
\* it, whatever is cached, pending or unreadable (regression.py:220).
THEOREM NoRegressionDropped == Spec => []RegressionKept
<1>1. Inv => RegressionKept
  BY DEF Inv, Dropped, Alive, HasFailed, RegressionKept
<1>2. QED
  BY <1>1, Invariance, PTL

\* A unit that a poll is done with.
LEMMA DoneWith ==
  ASSUME Inv, [Next]_vars, NEW u \in todo \ todo'
  PROVE  /\ pc = "walk" /\ unit = u /\ u # None
         /\ ReadJobs \/ ReadResults \/ ChainEnds
<1>0. TypeOK
  BY DEF Inv
<1>1. ~(UNCHANGED vars) /\ ~World
  BY DEF vars, World, verdicts, JobEnds, JobScheduled, OtherWalkReads, EntryExpires
<1>2. ~(Incomparable \/ Abort \/ Poll \/ \E v \in units : Take(v))
  BY <1>0 DEF Incomparable, Abort, Poll, Take, verdicts, TypeOK
<1>3. ~(Raise \/ AllDecided \/ Deadline \/ Sleep)
  BY DEF Raise, AllDecided, Deadline, Sleep, verdicts
<1>4. ReadJobs \/ ReadResults \/ ChainEnds
  BY <1>1, <1>2, <1>3 DEF Next, Walk
<1>5. todo \subseteq todo' \union {unit}
  BY <1>4 DEF ReadJobs, ReadResults, ChainEnds, Judge, Classified, StepOver
<1>6. pc = "walk" /\ unit # None
  BY <1>0, <1>4 DEF ReadJobs, ReadResults, ChainEnds, TypeOK
<1>7. QED
  BY <1>4, <1>5, <1>6

\* No poll passes over an ancestor whose results were decisive when the walk
\* fell asleep, nor takes one that had passed for failing (treeherder.py:41).
THEOREM FreshResultsSeen == Spec => SeesFreshResults
<1>1. ASSUME Inv, [Next]_vars
      PROVE  [ \A u \in todo \ todo' :
                 /\ \A a \in 1 .. depth : ~Decisive(a, u)
                 /\ u \notin new' \union pending' => "passed" \notin known[depth + 1][u]
             ]_vars
  <2>1. SUFFICES ASSUME NEW u \in todo \ todo'
                 PROVE  /\ \A a \in 1 .. depth : ~Decisive(a, u)
                        /\ u \notin new' \union pending' => "passed" \notin known[depth + 1][u]
    OBVIOUS
  <2>2. pc = "walk" /\ unit = u /\ u # None /\ (ReadJobs \/ ReadResults \/ ChainEnds)
    BY <1>1, DoneWith
  <2>3. \A a \in 1 .. depth : ~Decisive(a, u)
    BY <1>1, <2>2 DEF Inv, PassedRightly
  <2>4. CASE ChainEnds
    <3>1. unit \in new' \union pending'
      BY <2>4 DEF ChainEnds, Classified
    <3>2. QED
      BY <2>2, <2>3, <3>1
  <2>5. ASSUME NEW status \in Statuses, Judge(status), depth < chain,
               "passed" \in known[depth + 1][unit] => status = "passed",
               u \notin new' \union pending'
        PROVE  "passed" \notin known[depth + 1][u]
    <3>1. status = "failed"
      BY <1>1, <2>1, <2>2, <2>5, JudgeSays DEF Inv
    <3>2. QED
      BY <2>2, <2>5, <3>1
  <2>6. CASE ReadJobs
    <3> DEFINE status == LabelStatus(Cached(jobs[depth + 1], Current(depth + 1)), unit)
    <3>1. kind # "group" /\ Judge(status) /\ depth < chain
      BY <2>1, <2>6 DEF ReadJobs
    <3>2. status \in Statuses /\ ("passed" \in known[depth + 1][unit] => status = "passed")
      BY <1>1, <2>2, <3>1, LabelIsKnown
    <3> HIDE DEF status
    <3>3. QED
      BY <2>3, <2>5, <3>1, <3>2
  <2>7. CASE ReadResults
    <3> DEFINE status == GroupStatus(held, Cached(groups[depth + 1], recorded[depth + 1]), unit)
    <3>1. held # None /\ Judge(status) /\ depth < chain
      BY <1>1, <2>7 DEF ReadResults, Inv, TypeOK
    <3>2. status \in Statuses /\ ("passed" \in known[depth + 1][unit] => status = "passed")
      BY <1>1, <2>2, <3>1, GroupIsKnown
    <3> HIDE DEF status
    <3>3. QED
      BY <2>3, <2>5, <3>1, <3>2
  <2>8. QED
    BY <2>2, <2>3, <2>4, <2>6, <2>7
<1>2. QED
  BY <1>1, Invariance, PTL DEF Spec, SeesFreshResults

=============================================================================
