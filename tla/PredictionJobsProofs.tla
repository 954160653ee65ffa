------------------------- MODULE PredictionJobsProofs -------------------------
(***************************************************************************)
(* PredictionJobs for any number of requests, workers, job ids, changes    *)
(* of the bug and faults: its types, and that a stored result is never     *)
(* older than the change time it is held against, short of two jobs for    *)
(* the bug at a time.                                                      *)
(***************************************************************************)
EXTENDS PredictionJobs, TLAPS

\* Short of an overlap one worker at most is busy; what it has read is not
\* older than any change time that is stored; and between its two writes the
\* result, if no request has dropped it, is its own.
Alone ==
    /\ \A w, x \in Workers : work[w] # "idle" /\ work[x] # "idle" => w = x
    /\ \A w \in Workers :
        /\ work[w] \in {"store", "stored"} => saved <= read[w]
        /\ work[w] = "stored" => result \in {Unset, read[w]}

\* No change time is about to be stored for a hidden version.
NoneHidden == \A w \in Workers : work[w] = "stored" => read[w] \notin Hidden

Inv == TypeOK /\ NoneHidden /\ (~overlap => Alone /\ PairIsTrue)

\* The change times are those of versions that can be seen.
LEMMA VersionsSeen == 0 \notin Hidden /\ \A n \in Nat : n \in 0 .. n
BY PredictionAssumption DEF Versions

LEMMA InitInv == Init => Inv
<1> SUFFICES ASSUME Init PROVE Inv
  OBVIOUS
<1>1. TypeOK
  <2>1. version \in Versions /\ 0 \in 0 .. version /\ 0 \notin Hidden /\ 0 \in 0 .. MaxFaults
    BY PredictionAssumption, VersionsSeen DEF Init, Versions
  <2>2. [h \in Requests |-> 0] \in [Requests -> (0 .. version) \ Hidden]
        /\ [w \in Workers |-> 0] \in [Workers -> 0 .. version]
    BY <2>1
  <2>3. QED
    BY <2>1, <2>2 DEF Init, TypeOK, Unset
<1>2. Alone /\ PairIsTrue /\ NoneHidden
  BY DEF Init, Alone, PairIsTrue, NoneHidden
<1>3. QED
  BY <1>1, <1>2 DEF Inv

\* The conjunct is not disturbed by what leaves keys and workers alone.
LEMMA Untouched ==
  ASSUME Inv, TypeOK', UNCHANGED <<result, saved, worker, overlap>>
  PROVE  Inv'
BY DEF Inv, NoneHidden, Alone, PairIsTrue, worker

\* Nor by a key that is dropped.
LEMMA KeyDropped ==
  ASSUME Inv, TypeOK', UNCHANGED <<worker, overlap>>,
         result' \in {Unset, result}, saved' \in {Unset, saved}
  PROVE  Inv'
<1>1. Unset = 0 /\ \A w \in Workers : read[w] >= 0
  BY PredictionAssumption DEF Inv, TypeOK, Unset, Versions
<1>2. QED
  BY <1>1 DEF Inv, NoneHidden, Alone, PairIsTrue, worker

-----------------------------------------------------------------------------
(* The bug and the requests. *)

LEMMA BugChangesKeeps ==
  ASSUME Inv, BugChanges
  PROVE  Inv'
<1>1. TypeOK'
  <2>1. version' \in Versions /\ 0 .. version \subseteq 0 .. version'
    BY PredictionAssumption DEF Inv, TypeOK, BugChanges, Versions
  <2>2. QED
    BY <2>1 DEF Inv, TypeOK, BugChanges, keys, request, worker
<1>2. QED
  BY <1>1, Untouched DEF BugChanges, keys

\* An answer, and a step of a request.
LEMMA AnswerTypes ==
  ASSUME TypeOK, NEW h \in Requests, Answer(h)
  PROVE  /\ req' = [req EXCEPT ![h] = "idle"]
         /\ seen' \in [Requests -> (0 .. version) \ Hidden]
         /\ named' = [named EXCEPT ![h] = None]
<1>1. 0 \in (0 .. version) \ Hidden
  BY PredictionAssumption, VersionsSeen DEF TypeOK, Versions
<1>2. QED
  BY <1>1 DEF TypeOK, Answer, Goto

LEMMA ReadsKeep ==
  ASSUME Inv, NEW h \in Requests, Ask(h) \/ ReadSaved(h) \/ ResultExists(h)
  PROVE  Inv'
<1>1. TypeOK'
  <2>1. version \notin Hidden => version \in (0 .. version) \ Hidden
    BY PredictionAssumption DEF Inv, TypeOK, Versions
  <2>2. CASE Ask(h)
    BY <2>1, <2>2 DEF Inv, TypeOK, Ask, Goto, keys, worker
  <2>3. CASE ReadSaved(h) \/ ResultExists(h)
    BY <2>3 DEF Inv, TypeOK, ReadSaved, ResultExists, Goto, keys, worker
  <2>4. QED
    BY <2>2, <2>3
<1>2. QED
  BY <1>1, Untouched DEF Ask, ReadSaved, ResultExists, keys

LEMMA CleansKeep ==
  ASSUME Inv, NEW h \in Requests, CleanResult(h) \/ CleanSaved(h)
  PROVE  Inv'
<1>1. TypeOK'
  <2>1. Unset \in 0 .. version /\ Unset \in (0 .. version) \ Hidden
    BY PredictionAssumption, VersionsSeen DEF Inv, TypeOK, Versions, Unset
  <2>2. QED
    BY <2>1 DEF Inv, TypeOK, CleanResult, CleanSaved, Goto, worker
<1>2. QED
  BY <1>1, KeyDropped DEF CleanResult, CleanSaved

LEMMA GetResultKeeps ==
  ASSUME Inv, NEW h \in Requests, GetResult(h)
  PROVE  Inv'
<1>1. TypeOK'
  <2>1. 0 \in (0 .. version) \ Hidden
    BY PredictionAssumption, VersionsSeen DEF Inv, TypeOK, Versions
  <2>2. QED
    BY <2>1, AnswerTypes DEF Inv, TypeOK, GetResult, Goto, keys, worker
<1>2. QED
  BY <1>1, Untouched DEF GetResult, keys

LEMMA PendingKeeps ==
  ASSUME Inv, NEW h \in Requests, ReadMapping(h) \/ Fetch(h)
  PROVE  Inv'
<1>1. CASE ReadMapping(h)
  <2>1. TypeOK'
    BY <1>1 DEF Inv, TypeOK, ReadMapping, Goto, keys, worker
  <2>2. QED
    BY <1>1, <2>1, Untouched DEF ReadMapping, keys
<1>2. CASE Fetch(h)
  <2>1. req[h] = "fetch" /\ UNCHANGED <<version, keys, job, worker, overlap, faults>>
    BY <1>2 DEF Fetch
  <2>2. CASE Answer(h)
    <3>1. TypeOK'
      BY <2>1, <2>2, AnswerTypes DEF Inv, TypeOK, keys, worker
    <3>2. QED
      BY <2>1, <3>1, Untouched DEF keys
  <2>3. CASE Goto(h, "cancel") /\ UNCHANGED <<seen, named>>
    <3>1. TypeOK'
      BY <2>1, <2>3 DEF Inv, TypeOK, Goto, keys, worker
    <3>2. QED
      BY <2>1, <3>1, Untouched DEF keys
  <2>4. CASE Create(h)
    <3>1. TypeOK'
      BY <2>1, <2>4 DEF Inv, TypeOK, Create, Goto, keys, worker
    <3>2. QED
      BY <2>1, <3>1, Untouched DEF keys
  <2>5. QED
    BY <1>2, <2>2, <2>3, <2>4 DEF Fetch
<1>3. QED
  BY <1>1, <1>2

LEMMA SchedulesKeep ==
  ASSUME Inv, NEW h \in Requests, Cancel(h) \/ SetMapping(h) \/ Enqueue(h)
  PROVE  Inv'
<1>1. CASE Cancel(h)
  <2>1. TypeOK'
    BY <1>1 DEF Inv, TypeOK, Cancel, Create, Goto, keys, worker
  <2>2. QED
    BY <1>1, <2>1, Untouched DEF Cancel, keys
<1>2. CASE SetMapping(h)
  <2>1. PICK j \in Jobs : mapping' = j /\ named' = [named EXCEPT ![h] = j]
    BY <1>2 DEF SetMapping
  <2>2. TypeOK'
    BY <1>2, <2>1, PredictionAssumption DEF Inv, TypeOK, SetMapping, Goto, worker
  <2>3. QED
    BY <1>2, <2>2, Untouched DEF SetMapping
<1>3. CASE Enqueue(h)
  <2>1. TypeOK'
    BY <1>3, AnswerTypes DEF Inv, TypeOK, Enqueue, keys, worker
  <2>2. QED
    BY <1>3, <2>1, Untouched DEF Enqueue, keys
<1>4. QED
  BY <1>1, <1>2, <1>3

LEMMA RequestDiesKeeps ==
  ASSUME Inv, NEW h \in Requests, RequestDies(h)
  PROVE  Inv'
<1>1. faults' \in 0 .. MaxFaults
  BY PredictionAssumption DEF Inv, TypeOK, RequestDies
<1>2. TypeOK'
  BY <1>1, AnswerTypes DEF Inv, TypeOK, RequestDies, keys, worker
<1>3. QED
  BY <1>2, Untouched DEF RequestDies, keys

-----------------------------------------------------------------------------
(* The workers. *)

LEMMA StartKeeps ==
  ASSUME Inv, NEW w \in Workers, Start(w)
  PROVE  Inv'
<1>1. PICK j \in Jobs : /\ job' = [job EXCEPT ![j] = "started"]
                        /\ runs' = [runs EXCEPT ![w] = j]
  BY DEF Start
<1>2. /\ work' = [work EXCEPT ![w] = "read"] /\ work[w] = "idle"
      /\ overlap' = (overlap \/ Busy # {})
      /\ UNCHANGED <<version, keys, request, read, faults>>
  BY DEF Start
<1>3. overlap' \in BOOLEAN
  BY <1>2 DEF Inv, TypeOK
<1>4. TypeOK'
  BY <1>1, <1>2, <1>3, PredictionAssumption DEF Inv, TypeOK, keys, request
<1>5. ASSUME ~overlap'
      PROVE  Alone' /\ PairIsTrue'
  <2>1. ~overlap /\ \A x \in Workers : work[x] = "idle"
    BY <1>2, <1>5 DEF Inv, TypeOK, Busy
  <2>2. \A x \in Workers : work'[x] = IF x = w THEN "read" ELSE "idle"
    BY <1>2, <2>1 DEF Inv, TypeOK
  <2>3. QED
    BY <1>2, <2>1, <2>2 DEF Inv, Alone, PairIsTrue, keys
<1>6. NoneHidden'
  BY <1>2 DEF Inv, TypeOK, NoneHidden
<1>7. QED
  BY <1>4, <1>5, <1>6 DEF Inv

LEMMA ReadBugKeeps ==
  ASSUME Inv, NEW w \in Workers, ReadBug(w)
  PROVE  Inv'
<1>1. version \in 0 .. version /\ saved <= version
  BY PredictionAssumption DEF Inv, TypeOK, Versions
<1>2. TypeOK'
  BY <1>1 DEF Inv, TypeOK, ReadBug, keys, request
<1>3. ASSUME ~overlap'
      PROVE  Alone' /\ PairIsTrue'
  BY <1>1, <1>3 DEF Inv, TypeOK, ReadBug, Alone, PairIsTrue, keys
<1>4. NoneHidden'
  BY DEF Inv, TypeOK, NoneHidden, ReadBug
<1>5. QED
  BY <1>2, <1>3, <1>4 DEF Inv

LEMMA EndsTypes ==
  ASSUME TypeOK, NEW w \in Workers, Ends(w), work[w] # "idle"
  PROVE  /\ work' \in [Workers -> {"idle", "read", "store", "stored"}]
         /\ runs' \in [Workers -> Jobs \union {None}]
         /\ read' \in [Workers -> 0 .. version]
         /\ job' \in [Jobs -> {"none", "queued", "started", "over"}]
         /\ \A x \in Workers : work'[x] = "idle" <=> runs'[x] = None
<1>1. 0 \in 0 .. version
  BY PredictionAssumption DEF TypeOK, Versions
<1>2. QED
  BY <1>1 DEF TypeOK, Ends

\* A worker that is idle again.
LEMMA FreedHidesNone ==
  ASSUME TypeOK, NEW w \in Workers, NoneHidden,
         work' = [work EXCEPT ![w] = "idle"], read' = [read EXCEPT ![w] = 0]
  PROVE  NoneHidden'
BY DEF TypeOK, NoneHidden

LEMMA Freed ==
  ASSUME TypeOK, NEW w \in Workers, Alone, UNCHANGED <<saved, result>>,
         work' = [work EXCEPT ![w] = "idle"], read' = [read EXCEPT ![w] = 0]
  PROVE  Alone'
BY DEF TypeOK, Alone

LEMMA StoreResultKeeps ==
  ASSUME Inv, NEW w \in Workers, StoreResult(w)
  PROVE  Inv'
<1>0. TypeOK
  BY DEF Inv
<1>1. result' = read[w] /\ read[w] \in 0 .. version /\ saved' = saved /\ overlap' = overlap
      /\ work[w] = "store" /\ UNCHANGED <<version, mapping, request, faults>>
  BY DEF Inv, TypeOK, StoreResult
<1>2. CASE read[w] \in Hidden
  <2>1. Ends(w)
    BY <1>2 DEF StoreResult
  <2>2. TypeOK'
    BY <1>0, <1>1, <2>1, EndsTypes DEF TypeOK, request
  <2>3. ASSUME ~overlap'
        PROVE  Alone' /\ PairIsTrue'
    <3>1. /\ \A x \in Workers : work[x] # "idle" => x = w
          /\ saved <= read[w]
      BY <1>1, <2>3 DEF Inv, Alone
    <3>2. \A x \in Workers : work'[x] = "idle"
      BY <1>0, <2>1, <3>1 DEF TypeOK, Ends
    <3>3. QED
      BY <1>1, <3>1, <3>2 DEF Alone, PairIsTrue
  <2>4. NoneHidden'
    BY <1>0, <2>1, FreedHidesNone DEF Inv, Ends
  <2>5. QED
    BY <2>2, <2>3, <2>4 DEF Inv
<1>3. CASE read[w] \notin Hidden
  <2>1. work' = [work EXCEPT ![w] = "stored"] /\ UNCHANGED <<runs, read, job>>
    BY <1>3 DEF StoreResult
  <2>2. TypeOK'
    BY <1>0, <1>1, <2>1 DEF TypeOK, request
  <2>3. ASSUME ~overlap'
        PROVE  Alone' /\ PairIsTrue'
    <3>1. /\ \A x \in Workers : work[x] # "idle" => x = w
          /\ saved <= read[w]
      BY <1>1, <2>3 DEF Inv, Alone
    <3>2. \A x \in Workers : work'[x] = IF x = w THEN "stored" ELSE "idle"
      BY <1>0, <2>1, <3>1 DEF TypeOK
    <3>3. QED
      BY <1>1, <2>1, <3>1, <3>2 DEF Alone, PairIsTrue
  <2>4. NoneHidden'
    BY <1>0, <1>3, <2>1 DEF Inv, TypeOK, NoneHidden
  <2>5. QED
    BY <2>2, <2>3, <2>4 DEF Inv
<1>4. QED
  BY <1>2, <1>3

LEMMA StoreChangeKeeps ==
  ASSUME Inv, NEW w \in Workers, StoreChange(w)
  PROVE  Inv'
<1>0. TypeOK
  BY DEF Inv
<1>1. saved' = read[w] /\ read[w] \in 0 .. version /\ result' = result /\ overlap' = overlap
      /\ work[w] = "stored" /\ Ends(w) /\ UNCHANGED <<version, mapping, request, faults>>
  BY DEF Inv, TypeOK, StoreChange
<1>2. read[w] \notin Hidden
  BY DEF Inv, NoneHidden, StoreChange
<1>3. TypeOK'
  BY <1>0, <1>1, <1>2, EndsTypes DEF TypeOK, request
<1>4. ASSUME ~overlap'
      PROVE  Alone' /\ PairIsTrue'
  <2>1. /\ \A x \in Workers : work[x] # "idle" => x = w
        /\ result \in {Unset, read[w]}
    BY <1>1, <1>4 DEF Inv, Alone
  <2>2. \A x \in Workers : work'[x] = "idle"
    BY <1>0, <1>1, <2>1 DEF TypeOK, Ends
  <2>3. QED
    BY <1>1, <2>1, <2>2 DEF Alone, PairIsTrue
<1>5. NoneHidden'
  BY <1>0, <1>1, FreedHidesNone DEF Inv, Ends
<1>6. QED
  BY <1>3, <1>4, <1>5 DEF Inv

LEMMA FaultsKeep ==
  ASSUME Inv, NEW w \in Workers, JobFails(w) \/ WorkerDies(w)
  PROVE  Inv'
<1>0. TypeOK /\ faults' \in 0 .. MaxFaults
  BY PredictionAssumption DEF Inv, TypeOK, JobFails, WorkerDies
<1>1. TypeOK'
  <2>1. CASE JobFails(w)
    BY <1>0, <2>1, EndsTypes DEF TypeOK, JobFails, keys, request
  <2>2. CASE WorkerDies(w)
    <3>1. 0 \in 0 .. version
      BY <1>0, PredictionAssumption DEF TypeOK, Versions
    <3>2. QED
      BY <1>0, <2>2, <3>1 DEF TypeOK, WorkerDies, keys, request
  <2>3. QED
    BY <2>1, <2>2
<1>2. /\ UNCHANGED <<result, saved, overlap>>
      /\ work' = [work EXCEPT ![w] = "idle"] /\ read' = [read EXCEPT ![w] = 0]
  BY DEF JobFails, WorkerDies, Ends, keys
<1>3. ~overlap' => Alone' /\ PairIsTrue'
  BY <1>0, <1>2, Freed DEF Inv, PairIsTrue
<1>4. NoneHidden'
  BY <1>0, <1>2, FreedHidesNone DEF Inv
<1>5. QED
  BY <1>1, <1>3, <1>4 DEF Inv

-----------------------------------------------------------------------------
(* RQ and Redis. *)

LEMMA JobsKeep ==
  ASSUME Inv, NEW j \in Jobs, Abandoned(j) \/ JobExpires(j)
  PROVE  Inv'
<1>1. TypeOK'
  BY DEF Inv, TypeOK, Abandoned, JobExpires, keys, request, worker
<1>2. QED
  BY <1>1, Untouched DEF Abandoned, JobExpires, keys

LEMMA KeyExpiresKeeps ==
  ASSUME Inv, KeyExpires
  PROVE  Inv'
<1>1. TypeOK'
  <2>1. Unset \in 0 .. version /\ Unset \in (0 .. version) \ Hidden
    BY PredictionAssumption, VersionsSeen DEF Inv, TypeOK, Versions, Unset
  <2>2. QED
    BY <2>1 DEF Inv, TypeOK, KeyExpires, request, worker
<1>2. QED
  BY <1>1, KeyDropped DEF KeyExpires

-----------------------------------------------------------------------------
(* The theorems. *)

LEMMA StepKeeps == Inv /\ [Next]_vars => Inv'
<1> SUFFICES ASSUME Inv, [Next]_vars PROVE Inv'
  OBVIOUS
<1>1. CASE BugChanges \/ KeyExpires
  BY <1>1, BugChangesKeeps, KeyExpiresKeeps
<1>2. ASSUME NEW h \in Requests, Serve(h) \/ RequestDies(h)
      PROVE  Inv'
  BY <1>2, ReadsKeep, CleansKeep, GetResultKeeps, PendingKeeps, SchedulesKeep, RequestDiesKeeps
     DEF Serve
<1>3. ASSUME NEW w \in Workers, Classify(w) \/ JobFails(w) \/ WorkerDies(w)
      PROVE  Inv'
  BY <1>3, StartKeeps, ReadBugKeeps, StoreResultKeeps, StoreChangeKeeps, FaultsKeep DEF Classify
<1>4. ASSUME NEW j \in Jobs, Abandoned(j) \/ JobExpires(j)
      PROVE  Inv'
  BY <1>4, JobsKeep
<1>5. CASE UNCHANGED vars
  <2>1. TypeOK'
    BY <1>5 DEF Inv, TypeOK, vars, keys, request, worker
  <2>2. QED
    BY <1>5, <2>1, Untouched DEF vars, keys
<1>6. QED
  BY <1>1, <1>2, <1>3, <1>4, <1>5 DEF Next

THEOREM Invariance == Spec => []Inv
BY InitInv, StepKeeps, PTL DEF Spec

\* The types of the keys, the jobs, the requests and the workers.
THEOREM TypesHold == Spec => []TypeOK
<1>1. Inv => TypeOK
  BY DEF Inv
<1>2. QED
  BY <1>1, Invariance, PTL

\* A stored result is not older than the change time it is held against,
\* even between the two writes, unless two jobs have run for the bug at a time
\* (classify_bug and clean_prediction_cache).
THEOREM PairsHold == Spec => []TrueUnlessOverlapped
<1>1. Inv => TrueUnlessOverlapped
  BY DEF Inv, TrueUnlessOverlapped
<1>2. QED
  BY <1>1, Invariance, PTL

=============================================================================
