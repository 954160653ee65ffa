-------------------------- MODULE ReviewRequestProofs --------------------------
(***************************************************************************)
(* ReviewRequest for any number of diffs, submissions, deliveries,         *)
(* comments and faults: its types, its safety, and that it keeps           *)
(* ReviewPromise.                                                          *)
(***************************************************************************)
EXTENDS ReviewRequest, FiniteSetTheorems, TLAPS

-----------------------------------------------------------------------------
(* The invariant.  Its first parts hold of every review, Solo only of      *)
(* those that no worker was at when another could take them over.          *)

\* Sessions are about diffs that have a row, but for a submission's first half.
Placed ==
  /\ \A c \in Clients :
      /\ client[c].pc \in {"read", "inserted"} => client[c].diff \in Diffs
      /\ client[c].pc = "inserted" => row[client[c].diff].status # "absent"
  /\ \A w \in Workers :
      worker[w].pc # "idle" => /\ worker[w].diff \in Diffs
                               /\ row[worker[w].diff].status # "absent"

\* A copy that is still what is stored is one of a review to work on.
Copies ==
  \A w \in current :
    /\ worker[w].pc = "read"
    /\ row[worker[w].diff].status \notin Final
    /\ worker[w].summary = row[worker[w].diff].summary

TaskIsTrue(d) ==
  /\ task[d] = "acked" => row[d].status \in Final
  /\ task[d] # "none" => row[d].status # "absent"

\* What is posted was generated, and what has an id was posted.
TextsOf(d) ==
  /\ saved[d] \subseteq shown[d] /\ shown[d] \ {Main} \subseteq kept[d]
  /\ ~row[d].summary => shown[d] = {} /\ kept[d] = {}
  /\ row[d].status = "published" => row[d].summary /\ Main \in shown[d]

TextsAt(w) ==
  LET d == worker[w].diff IN
  /\ worker[w].pc \in {"load", "publish", "posted"} => row[d].summary
  /\ worker[w].pc \in {"publish", "posted"} => worker[w].todo \subseteq kept[d]
  /\ worker[w].pc = "posted" =>
       /\ worker[w].open \in shown[d]
       /\ worker[w].open \in IF worker[w].todo = {} THEN {Main} ELSE worker[w].todo

\* Half an hour has passed before a review can be taken over.
LateIsOld == \A d \in late : row[d].age # "young"

\* One worker is at the review, its claim is fresh and nobody else's copy is
\* current; the agent runs only while there are no comments, and what is left
\* to post is what has no id.
SoloAt(w, d) ==
  /\ \A x \in At(d) : x = w
  /\ row[d].status = "processing" /\ row[d].age # "aged"
  /\ \A x \in current : worker[x].diff # d
  /\ worker[w].pc = "ai" => ~row[d].summary
  /\ worker[w].pc \in {"publish", "posted"} => worker[w].todo = kept[d] \ saved[d]

\* What was posted and not torn has its id, or is about to get it.
Recorded(d) ==
  \A p \in shown[d] \ torn[d] :
    \/ p \in saved[d]
    \/ p = Main /\ row[d].status = "published"
    \/ \E w \in At(d) : worker[w].pc = "posted" /\ worker[w].open = p

SoloOn(d) ==
  /\ \A w \in At(d) : SoloAt(w, d)
  /\ Recorded(d)
  /\ row[d].status = "published" => kept[d] = saved[d]
  /\ d \notin again

Tasks == \A d \in Diffs : TaskIsTrue(d)
Texts == (\A d \in Diffs : TextsOf(d)) /\ (\A w \in Workers : TextsAt(w))
Solo  == \A d \in Diffs \ late : SoloOn(d)

Inv == TypeOK /\ Placed /\ Copies /\ Tasks /\ Texts /\ LateIsOld /\ Solo

-----------------------------------------------------------------------------

LEMMA InitInv == Init => Inv
<1> SUFFICES ASSUME Init PROVE Inv
  OBVIOUS
<1>1. Cardinality(Clients) \in Nat
  BY ReviewAssumption, FS_CardinalityType
<1>2. 0 \in 0 .. Cardinality(Clients) /\ 0 \in 0 .. MaxFaults
  BY <1>1, ReviewAssumption
<1>3. NoWork \in [pc : {"idle", "read", "load", "ai", "publish", "posted"},
                  diff : Diffs \cup {0}, saw : Statuses, summary : BOOLEAN,
                  todo : SUBSET Rows, open : Posts]
  BY DEF NoWork, Statuses, Posts
<1>4. TypeOK
  BY <1>2, <1>3 DEF Init, TypeOK, Idle, Statuses, Rows
<1>5. \A w \in Workers : worker[w].pc = "idle"
  BY DEF Init, NoWork
<1>6. \A d \in Diffs : At(d) = {}
  BY <1>5 DEF At
<1>7. Placed /\ Copies /\ Tasks /\ LateIsOld
  BY <1>5 DEF Init, Placed, Copies, Tasks, TaskIsTrue, LateIsOld, Idle
<1>8. Texts
  BY <1>5 DEF Init, Texts, TextsOf, TextsAt
<1>9. Solo
  BY <1>6 DEF Init, Solo, SoloOn, Recorded
<1>10. QED
  BY <1>4, <1>7, <1>8, <1>9 DEF Inv

-----------------------------------------------------------------------------
(* Submissions. *)

\* Nothing a worker relies on.
LEMMA WorkUntouched ==
  ASSUME Inv, UNCHANGED <<row, kept, saved, worker, current, shown, torn, again, late>>
  PROVE  Copies' /\ Texts' /\ LateIsOld' /\ Solo'
<1>1. \A d \in Diffs : At(d)' = At(d)
  BY DEF At
<1>2. Copies' /\ Texts' /\ LateIsOld'
  BY DEF Inv, Copies, Texts, TextsOf, TextsAt, LateIsOld
<1>3. Solo'
  BY <1>1 DEF Inv, Solo, SoloOn, SoloAt, Recorded
<1>4. QED
  BY <1>2, <1>3

LEMMA SubmitKeeps ==
  ASSUME Inv, NEW c \in Clients, NEW d \in Diffs, Submit(c, d)
  PROVE  Inv'
<1> DEFINE n == Cardinality({o \in Clients : client[o].pc # "idle"})
<1>1. 1 + n \in 0 .. Cardinality(Clients)
  <2> DEFINE S == {o \in Clients : client[o].pc # "idle"}
  <2>1. S \subseteq Clients \ {c}
    BY DEF Submit
  <2>2. IsFiniteSet(Clients \ {c}) /\ Cardinality(Clients \ {c}) = Cardinality(Clients) - 1
    BY ReviewAssumption, FS_RemoveElement
  <2>3. Cardinality(S) <= Cardinality(Clients) - 1 /\ IsFiniteSet(S)
    BY <2>1, <2>2, FS_Subset
  <2>4. Cardinality(S) \in Nat /\ Cardinality(Clients) \in Nat
    BY <2>3, ReviewAssumption, FS_CardinalityType
  <2>5. QED
    BY <2>3, <2>4
<1> DEFINE new == [pc |-> IF Known(d) THEN "done" ELSE "read", diff |-> d, ticket |-> 1 + n]
<1>2. client' = [client EXCEPT ![c] = new]
      /\ UNCHANGED <<tables, task, worker, current, faults, ghosts>>
  BY DEF Submit
<1>3. new \in [pc : {"idle", "read", "inserted", "done", "died"},
               diff : Diffs \cup {0}, ticket : 0..Cardinality(Clients)]
      /\ new.pc # "inserted" /\ new.diff \in Diffs
  BY <1>1
<1> HIDE DEF new
<1>4. TypeOK'
  BY <1>2, <1>3 DEF Inv, TypeOK, tables, ghosts
<1>5. Placed'
  BY <1>2, <1>3 DEF Inv, TypeOK, Placed, tables
<1>6. Tasks'
  BY <1>2 DEF Inv, Tasks, TaskIsTrue, tables
<1>7. QED
  BY <1>2, <1>4, <1>5, <1>6, WorkUntouched DEF Inv, tables, ghosts

LEMMA InsertKeeps ==
  ASSUME Inv, NEW c \in Clients, Insert(c)
  PROVE  Inv'
<1> DEFINE d == client[c].diff
<1>1. client[c].pc = "read" /\ d \in Diffs
      /\ UNCHANGED <<kept, saved, task, worker, current, faults, ghosts>>
  BY DEF Insert, Inv, Placed
<1>2. CASE d \in Present
  <2>1. UNCHANGED row /\ client' = [client EXCEPT ![c].pc = "done"]
    BY <1>2 DEF Insert
  <2>2. TypeOK'
    <3> DEFINE Call == [pc : {"idle", "read", "inserted", "done", "died"},
                        diff : Diffs \cup {0}, ticket : 0..Cardinality(Clients)]
    <3>1. client \in [Clients -> Call]
      BY DEF Inv, TypeOK
    <3>2. client' \in [Clients -> Call]
      BY <2>1, <3>1
    <3>3. QED
      BY <1>1, <2>1, <3>2 DEF Inv, TypeOK, ghosts
  <2>3. Placed'
    BY <1>1, <2>1 DEF Inv, TypeOK, Placed
  <2>4. Tasks'
    BY <1>1, <2>1 DEF Inv, Tasks, TaskIsTrue
  <2>5. QED
    BY <1>1, <2>1, <2>2, <2>3, <2>4, WorkUntouched DEF Inv, ghosts
<1>3. CASE d \notin Present
  <2>1. row' = [row EXCEPT ![d].status = "pending", ![d].born = client[c].ticket]
        /\ client' = [client EXCEPT ![c].pc = "inserted"] /\ row[d].status = "absent"
    BY <1>1, <1>3 DEF Insert, Present
  <2>2. row' \in [Diffs -> [status : Statuses, age : {"young", "fresh", "aged"},
                            summary : BOOLEAN, born : 0..Cardinality(Clients)]]
    <3>1. client[c].ticket \in 0..Cardinality(Clients) /\ "pending" \in Statuses
      BY DEF Inv, TypeOK, Statuses
    <3> DEFINE Row == [status : Statuses, age : {"young", "fresh", "aged"},
                       summary : BOOLEAN, born : 0..Cardinality(Clients)]
               new == [row[d] EXCEPT !.status = "pending", !.born = client[c].ticket]
    <3>2. row \in [Diffs -> Row]
      BY DEF Inv, TypeOK
    <3>3. new \in Row
      BY <1>1, <3>1, <3>2
    <3>4. row' = [row EXCEPT ![d] = new]
      BY <1>1, <2>1, <3>2
    <3> HIDE DEF Row, new
    <3>5. row' \in [Diffs -> Row]
      BY <1>1, <3>2, <3>3, <3>4
    <3>6. QED
      BY <3>5 DEF Row
  <2>3. TypeOK'
    BY <1>1, <2>1, <2>2 DEF Inv, TypeOK, ghosts
  <2>4. /\ row'[d].status = "pending"
        /\ \A e \in Diffs : /\ row'[e].age = row[e].age /\ row'[e].summary = row[e].summary
                            /\ e # d => row'[e] = row[e]
    BY <1>1, <2>1 DEF Inv, TypeOK
  <2>5. \A w \in Workers : worker[w].pc # "idle" => worker[w].diff \in Diffs \ {d}
    BY <2>1 DEF Inv, Placed
  <2>6. At(d) = {} /\ \A e \in Diffs : At(e)' = At(e)
    BY <1>1, <2>5 DEF At
  <2>7. current \subseteq Workers /\ \A w \in current : worker[w].diff \in Diffs \ {d}
    BY <2>5 DEF Inv, TypeOK, Copies
  <2> HIDE DEF d
  <2>8. Placed'
    <3>1. \A o \in Clients : o # c => client'[o] = client[o]
      BY <2>1 DEF Inv, TypeOK
    <3>2. client'[c].pc = "inserted" /\ client'[c].diff = d
      BY <2>1 DEF Inv, TypeOK, d
    <3>3. \A e \in Diffs : row[e].status # "absent" => row'[e].status # "absent"
      BY <2>1, <2>4
    <3>4. QED
      BY <1>1, <2>4, <3>1, <3>2, <3>3 DEF Inv, Placed
  <2>9. Copies'
    BY <1>1, <2>4, <2>7 DEF Inv, Copies
  <2>10. Tasks'
    BY <1>1, <2>1, <2>4 DEF Inv, Tasks, TaskIsTrue, Final
  <2>11. Texts'
    <3>1. \A e \in Diffs : row'[e].status = "published" => row[e].status = "published"
      BY <2>4
    <3>2. \A w \in Workers : worker[w].pc # "idle" => worker[w].diff \in Diffs
      BY <2>5
    <3>3. QED
      BY <1>1, <2>4, <3>1, <3>2 DEF Inv, Texts, TextsOf, TextsAt, ghosts
  <2>12. LateIsOld'
    BY <1>1, <2>4 DEF Inv, TypeOK, LateIsOld, ghosts
  <2>13. Solo'
    <3>1. SUFFICES ASSUME NEW e \in Diffs \ late
                   PROVE  SoloOn(e)'
      BY <1>1 DEF Solo, ghosts
    <3>2. SoloOn(e)
      BY DEF Inv, Solo
    <3>3. \A w \in At(e) : SoloAt(w, e)'
      BY <1>1, <2>4, <2>6, <3>2 DEF SoloOn, SoloAt
    <3>4. row'[e].status = "published" <=> row[e].status = "published"
      BY <2>1, <2>4
    <3>5. QED
      BY <1>1, <2>6, <3>2, <3>3, <3>4 DEF SoloOn, Recorded, ghosts
  <2>14. QED
    BY <2>3, <2>8, <2>9, <2>10, <2>11, <2>12, <2>13 DEF Inv
<1>4. QED
  BY <1>2, <1>3

LEMMA EnqueueKeeps ==
  ASSUME Inv, NEW c \in Clients, Enqueue(c)
  PROVE  Inv'
<1> DEFINE d == client[c].diff
<1>1. client' = [client EXCEPT ![c].pc = "done"] /\ task' = [task EXCEPT ![d] = "queued"]
      /\ d \in Diffs /\ row[d].status # "absent"
      /\ UNCHANGED <<tables, worker, current, faults, ghosts>>
  BY DEF Enqueue, Inv, Placed
<1>2. TypeOK'
  BY <1>1 DEF Inv, TypeOK, tables, ghosts
<1>3. Placed'
  BY <1>1 DEF Inv, TypeOK, Placed, tables
<1>4. Tasks'
  BY <1>1 DEF Inv, TypeOK, Tasks, TaskIsTrue, tables
<1>5. QED
  BY <1>1, <1>2, <1>3, <1>4, WorkUntouched DEF Inv, tables, ghosts

LEMMA SubmitterDiesKeeps ==
  ASSUME Inv, NEW c \in Clients, SubmitterDies(c)
  PROVE  Inv'
<1>1. client' = [client EXCEPT ![c].pc = "died"] /\ faults' \in 0 .. MaxFaults
      /\ UNCHANGED <<tables, task, worker, current, ghosts>>
  BY ReviewAssumption DEF SubmitterDies, Fault, Inv, TypeOK
<1>2. TypeOK'
  BY <1>1 DEF Inv, TypeOK, tables, ghosts
<1>3. Placed'
  BY <1>1 DEF Inv, TypeOK, Placed, tables
<1>4. Tasks'
  BY <1>1 DEF Inv, Tasks, TaskIsTrue, tables
<1>5. QED
  BY <1>1, <1>2, <1>3, <1>4, WorkUntouched DEF Inv, tables, ghosts

-----------------------------------------------------------------------------
(* A step of a worker, which is about one review. *)

LEMMA WorkerStep ==
  ASSUME Inv, TypeOK', NEW w \in Workers, NEW d \in Diffs,
         UNCHANGED <<client, late>>,
         \A x \in Workers \ {w} : worker'[x] = worker[x],
         worker[w].pc = "idle" \/ worker[w].diff = d,
         worker'[w].pc = "idle" \/ worker'[w].diff = d,
         \A e \in Diffs \ {d} : /\ row'[e] = row[e] /\ kept'[e] = kept[e] /\ saved'[e] = saved[e]
                                /\ task'[e] = task[e]
                                /\ shown'[e] = shown[e] /\ torn'[e] = torn[e]
                                /\ e \in again' => e \in again,
         \A x \in current' \ {w} : x \in current /\ row'[worker[x].diff] = row[worker[x].diff],
         w \in current' => /\ worker'[w].pc = "read"
                           /\ row'[d].status \notin Final
                           /\ worker'[w].summary = row'[d].summary,
         row'[d].status # "absent",
         row'[d].age = "young" => row[d].age = "young",
         row[d].summary => row'[d].summary,
         kept[d] \subseteq kept'[d], shown[d] \subseteq shown'[d],
         TaskIsTrue(d)', TextsOf(d)', TextsAt(w)', d \notin late => SoloOn(d)'
  PROVE  Inv'
<1>1. current \subseteq Workers /\ current' \subseteq Workers
  BY DEF Inv, TypeOK
<1>2. \A x \in Workers \ {w} : worker[x].pc # "idle" => worker[x].diff \in Diffs
  BY DEF Inv, Placed
<1>3. Placed'
  <2>1. \A e \in Diffs : row[e].status # "absent" => row'[e].status # "absent"
    OBVIOUS
  <2>2. QED
    BY <2>1 DEF Inv, Placed
<1>4. Copies'
  BY <1>1 DEF Inv, Copies
<1>5. Tasks'
  BY DEF Inv, Tasks, TaskIsTrue
<1>6. Texts'
  <2>1. \A e \in Diffs : TextsOf(e)'
    BY DEF Inv, Texts, TextsOf
  <2>2. \A e \in Diffs : /\ row[e].summary => row'[e].summary
                         /\ kept[e] \subseteq kept'[e] /\ shown[e] \subseteq shown'[e]
    OBVIOUS
  <2>3. \A x \in Workers \ {w} : TextsAt(x)'
    BY <1>2, <2>2 DEF Inv, Texts, TextsAt
  <2>4. QED
    BY <2>1, <2>3 DEF Texts
<1>7. LateIsOld'
  BY DEF Inv, TypeOK, LateIsOld
<1>8. Solo'
  <2>1. SUFFICES ASSUME NEW e \in Diffs \ late, e # d
                 PROVE  SoloOn(e)'
    BY DEF Solo
  <2>2. SoloOn(e)
    BY DEF Inv, Solo
  <2>3. At(e)' = At(e) /\ \A x \in At(e) : worker'[x] = worker[x]
    BY <2>1 DEF At
  <2>4. \A x \in current' : worker'[x].diff = e => x \in current /\ worker[x].diff = e
    BY <1>1, <2>1
  <2>5. \A x \in At(e) : SoloAt(x, e)'
    BY <2>1, <2>2, <2>3, <2>4 DEF SoloOn, SoloAt
  <2>6. Recorded(e)'
    BY <2>1, <2>2, <2>3 DEF SoloOn, Recorded
  <2>7. QED
    BY <2>1, <2>2, <2>3, <2>5, <2>6 DEF SoloOn
<1>9. QED
  BY <1>3, <1>4, <1>5, <1>6, <1>7, <1>8 DEF Inv

Job == [pc : {"idle", "read", "load", "ai", "publish", "posted"},
        diff : Diffs \cup {0}, saw : Statuses, summary : BOOLEAN,
        todo : SUBSET Rows, open : Posts]
Row == [status : Statuses, age : {"young", "fresh", "aged"},
        summary : BOOLEAN, born : 0..Cardinality(Clients)]

LEMMA NoWorkIsJob == NoWork \in Job /\ NoWork.pc = "idle"
BY DEF NoWork, Job, Statuses, Posts

\* The rest of TypeOK.
DataOK ==
  /\ kept \in [Diffs -> SUBSET Rows] /\ saved \in [Diffs -> SUBSET Rows]
  /\ task \in [Diffs -> {"none", "queued", "acked"}]
  /\ current \in SUBSET Workers /\ faults \in 0..MaxFaults
  /\ shown \in [Diffs -> SUBSET Posts] /\ torn \in [Diffs -> SUBSET Posts]
  /\ again \in SUBSET Diffs /\ rerun \in SUBSET Diffs

LEMMA TypeSplit == TypeOK => worker \in [Workers -> Job] /\ row \in [Diffs -> Row] /\ DataOK
BY DEF TypeOK, Job, Row, DataOK

\* What a worker's step does to its types.
LEMMA WorkerTypes ==
  ASSUME TypeOK, NEW w \in Workers, NEW d \in Diffs, UNCHANGED <<client, late>>, DataOK',
         NEW job \in Job, worker' = [worker EXCEPT ![w] = job],
         NEW new \in Row, row' = [row EXCEPT ![d] = new]
  PROVE  /\ TypeOK'
         /\ worker'[w] = job /\ \A x \in Workers \ {w} : worker'[x] = worker[x]
         /\ row'[d] = new /\ \A e \in Diffs \ {d} : row'[e] = row[e]
<1>1. worker \in [Workers -> Job] /\ row \in [Diffs -> Row]
  BY TypeSplit
<1>2. worker' \in [Workers -> Job] /\ row' \in [Diffs -> Row]
  BY <1>1
<1>3. TypeOK'
  BY <1>2 DEF TypeOK, Job, Row, DataOK
<1>4. QED
  BY <1>1, <1>3

LEMMA WorkerOnlyTypes ==
  ASSUME TypeOK, NEW w \in Workers, UNCHANGED <<client, late, row>>, DataOK',
         NEW job \in Job, worker' = [worker EXCEPT ![w] = job]
  PROVE  /\ TypeOK'
         /\ worker'[w] = job /\ \A x \in Workers \ {w} : worker'[x] = worker[x]
<1>1. worker \in [Workers -> Job]
  BY TypeSplit
<1>2. worker' \in [Workers -> Job]
  BY <1>1
<1>3. TypeOK'
  BY <1>2 DEF TypeOK, Job, DataOK
<1>4. QED
  BY <1>1, <1>3

\* The fields of a row that is written, and whose copies remain.
LEMMA WriteSays ==
  ASSUME TypeOK, NEW d \in Diffs, NEW status \in Statuses, Write(d, status)
  PROVE  \E new \in Row :
           /\ row' = [row EXCEPT ![d] = new]
           /\ new.status = status /\ new.summary = row[d].summary /\ new.age # "aged"
           /\ new.age = "young" => row[d].age = "young"
           /\ current' = {x \in current : worker[x].diff # d} /\ current' \in SUBSET Workers
<1> DEFINE new == [Stored(row[d]) EXCEPT !.status = status]
<1>1. row[d] \in Row
  BY DEF TypeOK, Row
<1>2. Stored(row[d]) \in Row /\ Stored(row[d]).summary = row[d].summary
      /\ Stored(row[d]).age = IF row[d].age = "young" THEN "young" ELSE "fresh"
  BY <1>1 DEF Stored, Row
<1>3. new \in Row /\ new.status = status /\ new.summary = row[d].summary
      /\ new.age = IF row[d].age = "young" THEN "young" ELSE "fresh"
  BY <1>2 DEF Row
<1>4. row' = [row EXCEPT ![d] = new]
  BY DEF Write
<1>5. current' = {x \in current : worker[x].diff # d} /\ current' \in SUBSET Workers
  BY DEF Write, Elsewhere, TypeOK
<1> HIDE DEF new
<1>6. QED
  BY <1>3, <1>4, <1>5

\* A worker at a review no other has been late for is there alone, and holds it.
LEMMA AtWorkAlone ==
  ASSUME Inv, NEW w \in Workers, worker[w].pc \notin {"idle", "read"}, worker[w].diff \notin late
  PROVE  LET d == worker[w].diff IN
         /\ d \in Diffs /\ At(d) = {w} /\ SoloAt(w, d) /\ SoloOn(d)
<1>1. worker[w].diff \in Diffs
  BY DEF Inv, Placed
<1>2. w \in At(worker[w].diff)
  BY DEF At
<1>3. QED
  BY <1>1, <1>2 DEF Inv, Solo, SoloOn, SoloAt

\* A worker at work has no copy that counts.
LEMMA AtWorkStale ==
  ASSUME Inv, NEW w \in Workers, worker[w].pc # "read"
  PROVE  w \notin current
BY DEF Inv, Copies

LEMMA DeliverKeeps ==
  ASSUME Inv, NEW w \in Workers, NEW d \in Diffs, Deliver(w, d)
  PROVE  Inv'
<1>1. worker[w].pc = "idle" /\ task[d] = "queued" /\ row[d].status # "absent"
      /\ UNCHANGED <<client, tables, faults, ghosts>>
  BY DEF Deliver, Inv, Tasks, TaskIsTrue
<1>2. CASE row[d].status \in Final \cup {"absent"}
  <2>1. task' = [task EXCEPT ![d] = "acked"] /\ UNCHANGED <<worker, current>>
    BY <1>2 DEF Deliver, Ack
  <2>2. TypeOK'
    BY <1>1, <2>1 DEF Inv, TypeOK, tables, ghosts
  <2>3. Tasks'
    BY <1>1, <1>2, <2>1 DEF Inv, TypeOK, Tasks, TaskIsTrue, tables, Final
  <2>4. Placed'
    BY <1>1, <2>1 DEF Inv, Placed, tables
  <2>5. QED
    BY <1>1, <2>1, <2>2, <2>3, <2>4, WorkUntouched DEF Inv, tables, ghosts
<1>3. CASE row[d].status \notin Final \cup {"absent"}
  <2> DEFINE job == [NoWork EXCEPT !.pc = "read", !.diff = d, !.saw = row[d].status,
                                   !.summary = row[d].summary]
  <2>1. /\ row[d].status = "processing" => row[d].age = "aged"
        /\ worker' = [worker EXCEPT ![w] = job] /\ current' = current \cup {w} /\ UNCHANGED task
    BY <1>3 DEF Deliver
  <2>2. job \in Job /\ job.pc = "read" /\ job.diff = d /\ job.summary = row[d].summary
    BY NoWorkIsJob DEF Inv, TypeOK, NoWork, Job
  <2> HIDE DEF job
  <2>4. /\ TypeOK'
        /\ worker'[w] = job /\ \A x \in Workers \ {w} : worker'[x] = worker[x]
    <3>1. TypeOK /\ DataOK' /\ UNCHANGED <<client, late, row>>
      BY <1>1, <2>1, TypeSplit DEF Inv, DataOK, tables, ghosts
    <3>2. QED
      BY <2>1, <2>2, <3>1, WorkerOnlyTypes
  <2>5. TaskIsTrue(d)' /\ TextsOf(d)'
    BY <1>1, <2>1 DEF Inv, Tasks, TaskIsTrue, Texts, TextsOf, tables, ghosts
  <2>6. TextsAt(w)'
    BY <2>2, <2>4 DEF TextsAt
  <2>7. d \notin late => SoloOn(d)'
    <3>1. SUFFICES ASSUME d \notin late PROVE SoloOn(d)'
      OBVIOUS
    <3>2. SoloOn(d)
      BY <3>1 DEF Inv, Solo
    <3>3. At(d) = {}
      BY <2>1, <3>2 DEF SoloOn, SoloAt
    <3>4. At(d)' = {}
      BY <2>2, <2>4, <3>3 DEF At
    <3>5. QED
      BY <1>1, <3>2, <3>3, <3>4 DEF SoloOn, Recorded, tables, ghosts
  <2>8. QED
    BY <1>1, <1>3, <2>1, <2>2, <2>4, <2>5, <2>6, <2>7, WorkerStep DEF tables, ghosts
<1>4. QED
  BY <1>2, <1>3

LEMMA ClaimKeeps ==
  ASSUME Inv, NEW w \in Workers, NEW d \in Diffs, worker[w].diff = d, Claim(w)
  PROVE  Inv'
<1>0. TypeOK
  BY DEF Inv
<1>1. worker[w].pc = "read" /\ row[d].status # "absent"
      /\ UNCHANGED <<client, kept, saved, task, faults, ghosts>>
  BY DEF Claim, Inv, Placed
<1>2. CASE w \in current
  <2> DEFINE job == [worker[w] EXCEPT !.pc = IF worker[w].summary THEN "load" ELSE "ai"]
  <2>1. Write(d, "processing") /\ worker' = [worker EXCEPT ![w] = job]
    BY <1>2 DEF Claim, Inv, TypeOK
  <2>2. job \in Job /\ job.pc = (IF worker[w].summary THEN "load" ELSE "ai") /\ job.diff = d
    BY <1>0 DEF TypeOK, Job
  <2>3. row[d].status \notin Final /\ worker[w].summary = row[d].summary
    BY <1>2 DEF Inv, Copies
  <2>4. PICK new \in Row :
          /\ row' = [row EXCEPT ![d] = new]
          /\ new.status = "processing" /\ new.summary = row[d].summary /\ new.age # "aged"
          /\ new.age = "young" => row[d].age = "young"
          /\ current' = {x \in current : worker[x].diff # d} /\ current' \in SUBSET Workers
    BY <1>0, <1>1, <2>1, WriteSays DEF Statuses
  <2> HIDE DEF job
  <2>5. /\ TypeOK'
        /\ worker'[w] = job /\ \A x \in Workers \ {w} : worker'[x] = worker[x]
        /\ row'[d] = new /\ \A e \in Diffs \ {d} : row'[e] = row[e]
    <3>1. DataOK' /\ UNCHANGED <<client, late>>
      BY <1>0, <1>1, <2>4, TypeSplit DEF DataOK, ghosts
    <3>2. QED
      BY <1>0, <2>1, <2>2, <2>4, <3>1, WorkerTypes
  <2>6. TaskIsTrue(d)' /\ TextsOf(d)'
    BY <1>1, <2>3, <2>4, <2>5 DEF Inv, Tasks, TaskIsTrue, Texts, TextsOf, ghosts
  <2>7. TextsAt(w)'
    BY <2>2, <2>3, <2>4, <2>5 DEF TextsAt
  <2>8. d \notin late => SoloOn(d)'
    <3>1. SUFFICES ASSUME d \notin late PROVE SoloOn(d)'
      OBVIOUS
    <3>2. SoloOn(d)
      BY <1>1, <3>1 DEF Inv, Solo
    <3>3. At(d) = {}
      BY <1>2, <3>2 DEF SoloOn, SoloAt
    <3>4. At(d)' = {w}
      BY <2>2, <2>5, <3>3 DEF At
    <3>5. SoloAt(w, d)'
      <4>1. \A x \in current' : worker'[x].diff # d
        BY <1>0, <2>4, <2>5 DEF TypeOK
      <4>2. QED
        BY <2>2, <2>3, <2>4, <2>5, <3>4, <4>1 DEF SoloAt
    <3>6. Recorded(d)'
      BY <1>1, <2>3, <3>2, <3>3 DEF SoloOn, Recorded, Final, ghosts
    <3>7. QED
      BY <1>1, <2>4, <2>5, <3>2, <3>4, <3>5, <3>6 DEF SoloOn, ghosts
  <2>9. w \notin current' /\ \A x \in current' : x \in current /\ row'[worker[x].diff] = row[worker[x].diff]
    BY <2>4, <2>5, <1>0 DEF Inv, Placed, Copies, TypeOK
  <2>10. QED
    BY <1>1, <2>2, <2>4, <2>5, <2>6, <2>7, <2>8, <2>9, WorkerStep DEF ghosts
<1>3. CASE w \notin current
  <2>1. worker' = [worker EXCEPT ![w] = NoWork] /\ UNCHANGED <<row, current>>
    BY <1>3 DEF Claim, End
  <2>3. /\ TypeOK'
        /\ worker'[w] = NoWork /\ \A x \in Workers \ {w} : worker'[x] = worker[x]
    <3>1. DataOK' /\ UNCHANGED <<client, late>>
      BY <1>0, <1>1, <2>1, TypeSplit DEF DataOK, ghosts
    <3>2. QED
      BY <1>0, <2>1, <3>1, NoWorkIsJob, WorkerOnlyTypes
  <2>4. TaskIsTrue(d)' /\ TextsOf(d)'
    BY <1>1, <2>1 DEF Inv, Tasks, TaskIsTrue, Texts, TextsOf, ghosts
  <2>5. TextsAt(w)'
    BY <2>3, NoWorkIsJob DEF TextsAt
  <2>6. d \notin late => SoloOn(d)'
    <3>1. At(d)' = At(d) /\ w \notin At(d)
      BY <1>1, <2>3, NoWorkIsJob DEF At
    <3>2. \A x \in current' : worker'[x] = worker[x]
      BY <1>0, <1>3, <2>1, <2>3 DEF TypeOK
    <3>3. \A x \in At(d) : SoloAt(x, d) => SoloAt(x, d)'
      BY <1>1, <2>1, <2>3, <3>1, <3>2 DEF SoloAt, At
    <3>4. Recorded(d) => Recorded(d)'
      BY <1>1, <2>1, <2>3, <3>1 DEF Recorded, At, ghosts
    <3>5. QED
      BY <1>1, <2>1, <3>1, <3>3, <3>4 DEF Inv, Solo, SoloOn, ghosts
  <2>7. QED
    BY <1>1, <1>3, <2>1, <2>3, <2>4, <2>5, <2>6, NoWorkIsJob, WorkerStep DEF ghosts
<1>4. QED
  BY <1>2, <1>3

LEMMA LoadKeeps ==
  ASSUME Inv, NEW w \in Workers, NEW d \in Diffs, worker[w].diff = d, Load(w)
  PROVE  Inv'
<1> DEFINE job == [worker[w] EXCEPT !.pc = "publish", !.todo = kept[d] \ saved[d]]
<1>0. TypeOK /\ DataOK /\ worker[w] \in Job
  BY TypeSplit DEF Inv
<1>1. worker[w].pc = "load" /\ UNCHANGED <<client, tables, task, current, faults, ghosts>>
      /\ worker' = [worker EXCEPT ![w] = job]
  BY <1>0 DEF Load, TypeOK
<1>2. job \in Job /\ job.pc = "publish" /\ job.diff = d /\ job.todo = kept[d] \ saved[d]
  BY <1>0 DEF DataOK, Job
<1> HIDE DEF job
<1>3. /\ TypeOK'
      /\ worker'[w] = job /\ \A x \in Workers \ {w} : worker'[x] = worker[x]
  <2>1. DataOK' /\ UNCHANGED <<client, late, row>>
    BY <1>0, <1>1 DEF DataOK, tables, ghosts
  <2>2. QED
    BY <1>0, <1>1, <1>2, <2>1, WorkerOnlyTypes
<1>4. TaskIsTrue(d)' /\ TextsOf(d)' /\ row[d].status # "absent" /\ w \notin current
  BY <1>1, AtWorkStale DEF Inv, Placed, Tasks, TaskIsTrue, Texts, TextsOf, tables, ghosts
<1>5. TextsAt(w)'
  BY <1>1, <1>2, <1>3 DEF Inv, Texts, TextsAt, tables, ghosts
<1>6. ASSUME d \notin late PROVE SoloOn(d)'
  <2>1. At(d) = {w} /\ SoloAt(w, d) /\ SoloOn(d)
    BY <1>1, <1>6, AtWorkAlone
  <2>2. At(d)' = {w}
    BY <1>2, <1>3, <2>1 DEF At
  <2>3. SoloAt(w, d)'
    BY <1>0, <1>1, <1>2, <1>3, <1>4, <2>1, <2>2 DEF SoloAt, tables, TypeOK
  <2>4. Recorded(d)'
    BY <1>1, <2>1 DEF SoloOn, Recorded, tables, ghosts
  <2>5. QED
    BY <1>1, <2>1, <2>2, <2>3, <2>4 DEF SoloOn, tables, ghosts
<1>7. QED
  BY <1>1, <1>2, <1>3, <1>4, <1>5, <1>6, WorkerStep DEF tables, ghosts

LEMMA GenerateKeeps ==
  ASSUME Inv, NEW w \in Workers, NEW d \in Diffs, worker[w].diff = d,
         NEW C \in SUBSET Comments, Generate(w, C)
  PROVE  Inv'
<1> DEFINE job == [worker[w] EXCEPT !.pc = "publish", !.todo = {w} \X C]
           new == [Stored(row[d]) EXCEPT !.summary = TRUE]
<1>0. TypeOK /\ DataOK /\ worker[w] \in Job /\ row[d] \in Row
  BY TypeSplit DEF Inv
<1>1. /\ worker[w].pc = "ai" /\ UNCHANGED <<client, saved, task, faults, shown, torn, again, late>>
      /\ rerun' = (IF row[d].summary THEN rerun \cup {d} ELSE rerun)
      /\ kept' = [kept EXCEPT ![d] = @ \cup ({w} \X C)]
      /\ current' = {x \in current : worker[x].diff # d}
  BY DEF Generate, Elsewhere
<1>2. worker' = [worker EXCEPT ![w] = job] /\ row' = [row EXCEPT ![d] = new]
  BY DEF Generate
<1>3. {w} \X C \in SUBSET Rows
  BY DEF Rows
<1>4. job \in Job /\ job.pc = "publish" /\ job.diff = d /\ job.todo = {w} \X C
  BY <1>0, <1>3 DEF Job
<1>5. /\ new \in Row /\ new.status = row[d].status /\ new.summary
      /\ new.age \in {"young", "fresh"} /\ (new.age = "young" => row[d].age = "young")
  BY <1>0 DEF Row, Stored
<1> HIDE DEF job, new
<1>6. /\ TypeOK'
      /\ worker'[w] = job /\ \A x \in Workers \ {w} : worker'[x] = worker[x]
      /\ row'[d] = new /\ \A e \in Diffs \ {d} : row'[e] = row[e]
  <2>1. DataOK' /\ UNCHANGED <<client, late>>
    BY <1>0, <1>1, <1>3 DEF DataOK
  <2>2. QED
    BY <1>0, <1>2, <1>4, <1>5, <2>1, WorkerTypes
<1>7. kept'[d] = kept[d] \cup ({w} \X C) /\ \A e \in Diffs \ {d} : kept'[e] = kept[e]
  BY <1>0, <1>1 DEF DataOK
<1>8. TaskIsTrue(d)' /\ TextsOf(d)' /\ row[d].status # "absent" /\ w \notin current
  BY <1>1, <1>5, <1>6, <1>7, AtWorkStale
     DEF Inv, Placed, Tasks, TaskIsTrue, Texts, TextsOf
<1>9. TextsAt(w)'
  BY <1>4, <1>5, <1>6, <1>7 DEF TextsAt
<1>10. ASSUME d \notin late PROVE SoloOn(d)'
  <2>1. At(d) = {w} /\ SoloAt(w, d) /\ SoloOn(d)
    BY <1>1, <1>10, AtWorkAlone
  <2>2. At(d)' = {w}
    BY <1>4, <1>6, <2>1 DEF At
  <2>3. kept[d] = {} /\ saved[d] = {} /\ row[d].status = "processing"
    BY <1>1, <2>1 DEF SoloAt, Inv, Texts, TextsOf
  <2>4. \A x \in current' : worker'[x].diff # d
    BY <1>0, <1>1, <1>6, <1>8 DEF TypeOK
  <2>5. SoloAt(w, d)'
    BY <1>1, <1>4, <1>5, <1>6, <1>7, <2>2, <2>3, <2>4 DEF SoloAt
  <2>6. Recorded(d)'
    BY <1>1, <1>5, <1>6, <2>1, <2>3 DEF SoloOn, Recorded
  <2>7. QED
    BY <1>1, <1>5, <1>6, <2>1, <2>2, <2>3, <2>5, <2>6 DEF SoloOn
<1>11. \A x \in current' : x \in current /\ x # w /\ row'[worker[x].diff] = row[worker[x].diff]
  BY <1>0, <1>1, <1>6, <1>8 DEF Inv, Placed, Copies, TypeOK
<1>12. QED
  BY <1>1, <1>4, <1>5, <1>6, <1>7, <1>8, <1>9, <1>10, <1>11, WorkerStep

\* A worker that ends, whatever becomes of its review.
LEMMA EndKeeps ==
  ASSUME Inv, NEW w \in Workers, NEW d \in Diffs, worker[w].diff = d, worker[w].pc # "idle",
         End(w), UNCHANGED <<client, kept, saved, shown, again, late, rerun>>, DataOK',
         \A e \in Diffs \ {d} : task'[e] = task[e] /\ torn'[e] = torn[e] /\ row'[e] = row[e],
         row' \in [Diffs -> Row],
         row'[d].status # "absent", row'[d].summary = row[d].summary,
         row'[d].age = "young" => row[d].age = "young",
         row'[d].status = "published" => row[d].summary /\ Main \in shown[d],
         \A x \in current' : x \in current /\ x # w
                             /\ (worker[x].diff = d => row'[d] = row[d]),
         TaskIsTrue(d)', d \notin late => SoloOn(d)'
  PROVE  Inv'
<1>1. /\ TypeOK'
      /\ worker'[w] = NoWork /\ \A x \in Workers \ {w} : worker'[x] = worker[x]
  <2>1. worker \in [Workers -> Job] /\ worker' = [worker EXCEPT ![w] = NoWork]
    BY TypeSplit DEF Inv, End
  <2>2. worker' \in [Workers -> Job]
    BY <2>1, NoWorkIsJob
  <2>3. TypeOK'
    BY <2>2 DEF Inv, TypeOK, DataOK, Job, Row
  <2>4. QED
    BY <2>1, <2>3
<1>2. TextsOf(d)' /\ TextsAt(w)'
  BY <1>1, NoWorkIsJob DEF Inv, Texts, TextsOf, TextsAt
<1>3. \A x \in current' \ {w} : x \in current /\ row'[worker[x].diff] = row[worker[x].diff]
  BY DEF Inv, TypeOK, Placed, Copies
<1>4. row[d].summary => row'[d].summary
  OBVIOUS
<1>5. w \notin current'
  OBVIOUS
<1>6. \A e \in Diffs \ {d} : /\ row'[e] = row[e] /\ kept'[e] = kept[e] /\ saved'[e] = saved[e]
                             /\ task'[e] = task[e]
                             /\ shown'[e] = shown[e] /\ torn'[e] = torn[e]
                             /\ e \in again' => e \in again
  OBVIOUS
<1>7. QED
  BY <1>1, <1>2, <1>3, <1>4, <1>5, <1>6, NoWorkIsJob, WorkerStep

\* Its review is left to nobody.
LEMMA LeftAlone ==
  ASSUME Inv, NEW w \in Workers, NEW d \in Diffs, worker[w].diff = d,
         worker[w].pc \notin {"idle", "read"}, d \notin late,
         End(w), UNCHANGED <<kept, saved, shown, again>>,
         row'[d].status = "published" => kept[d] = saved[d],
         \A p \in shown[d] \ torn'[d] : p \in torn[d] \/ p \in saved[d]
            \/ (p = Main /\ row'[d].status = "published")
            \/ ~(worker[w].pc = "posted" /\ worker[w].open = p),
         torn[d] \subseteq torn'[d]
  PROVE  SoloOn(d)'
<1>1. At(d) = {w} /\ SoloAt(w, d) /\ SoloOn(d)
  BY AtWorkAlone
<1>2. worker'[w] = NoWork /\ \A x \in Workers \ {w} : worker'[x] = worker[x]
  BY TypeSplit DEF Inv, End
<1>3. At(d)' = {}
  BY <1>1, <1>2, NoWorkIsJob DEF At
<1>4. Recorded(d)'
  BY <1>1 DEF SoloOn, SoloAt, Recorded
<1>5. QED
  BY <1>1, <1>3, <1>4 DEF SoloOn

\* A worker that ends with a last word on its review.
LEMMA LastWordKeeps ==
  ASSUME Inv, NEW w \in Workers, NEW d \in Diffs, worker[w].diff = d,
         worker[w].pc \notin {"idle", "read"},
         NEW status \in Statuses \ {"absent"}, Write(d, status), End(w),
         UNCHANGED <<client, kept, saved, shown, again, late, rerun>>,
         faults' \in 0 .. MaxFaults,
         task' = task \/ (task' = [task EXCEPT ![d] = "acked"]),
         torn' = torn \/ Tear(w),
         status \in Final \/ (task' = task /\ row[d].status \notin Final),
         status = "published" => /\ worker[w].pc = "posted" /\ worker[w].open = Main,
         worker[w].pc = "posted" => status = "published" \/ Tear(w)
  PROVE  Inv'
<1>0. TypeOK /\ DataOK /\ worker[w] \in Job
  BY TypeSplit DEF Inv
<1>1. PICK new \in Row :
        /\ row' = [row EXCEPT ![d] = new]
        /\ new.status = status /\ new.summary = row[d].summary /\ new.age # "aged"
        /\ new.age = "young" => row[d].age = "young"
        /\ current' = {x \in current : worker[x].diff # d} /\ current' \in SUBSET Workers
  BY <1>0, WriteSays
<1>2. row \in [Diffs -> Row]
  BY <1>0, TypeSplit
<1>3. row' \in [Diffs -> Row] /\ row'[d] = new /\ \A e \in Diffs \ {d} : row'[e] = row[e]
  BY <1>1, <1>2
<1>4. /\ torn' \in [Diffs -> SUBSET Posts] /\ \A e \in Diffs \ {d} : torn'[e] = torn[e]
      /\ torn[d] \subseteq torn'[d]
      /\ worker[w].pc = "posted" /\ status # "published" => worker[w].open \in torn'[d]
  BY <1>0 DEF Tear, DataOK, Job
<1>5. /\ task' \in [Diffs -> {"none", "queued", "acked"}]
      /\ \A e \in Diffs \ {d} : task'[e] = task[e]
  BY <1>0 DEF DataOK
<1>6. DataOK'
  BY <1>0, <1>1, <1>4, <1>5 DEF DataOK
<1>7. TaskIsTrue(d)'
  BY <1>0, <1>1, <1>3 DEF Inv, Tasks, TaskIsTrue, DataOK
<1>8. status = "published" => row[d].summary /\ Main \in shown[d] /\ worker[w].todo = {}
  <2>1. TextsAt(w) /\ (worker[w].pc = "posted" => Main \notin worker[w].todo)
    BY <1>0, ReviewAssumption DEF Inv, Texts, Job, Rows
  <2>2. QED
    BY <2>1 DEF TextsAt
<1>9. ASSUME d \notin late PROVE SoloOn(d)'
  <2>1. SoloAt(w, d)
    BY <1>9, AtWorkAlone
  <2>2. saved[d] \subseteq kept[d]
    BY <1>0, ReviewAssumption DEF Inv, Texts, TextsOf, DataOK, Rows
  <2>3. status = "published" => kept[d] = saved[d]
    BY <1>8, <2>1, <2>2 DEF SoloAt
  <2>4. QED
    BY <1>1, <1>3, <1>4, <1>9, <2>3, LeftAlone
<1>10. QED
  BY <1>1, <1>3, <1>4, <1>5, <1>6, <1>7, <1>8, <1>9, EndKeeps

LEMMA NotYetPublicKeeps ==
  ASSUME Inv, NEW w \in Workers, NEW d \in Diffs, worker[w].diff = d, NotYetPublic(w)
  PROVE  Inv'
<1>1. d \notin late
  BY DEF NotYetPublic, Inv, LateIsOld
<1>2. row[d].status = "processing"
  BY <1>1, AtWorkAlone DEF NotYetPublic, SoloAt
<1>3. faults' \in 0 .. MaxFaults
  BY DEF NotYetPublic, Inv, TypeOK
<1>4. QED
  BY <1>2, <1>3, LastWordKeeps DEF NotYetPublic, Statuses, Final, ghosts

LEMMA GiveUpKeeps ==
  ASSUME Inv, NEW w \in Workers, NEW d \in Diffs, worker[w].diff = d, GiveUp(w)
  PROVE  Inv'
<1>1. faults' \in 0 .. MaxFaults
  BY DEF GiveUp, Inv, TypeOK
<1>2. QED
  BY <1>1, LastWordKeeps DEF GiveUp, Ack, Statuses, Final, ghosts

LEMMA FinishKeeps ==
  ASSUME Inv, NEW w \in Workers, NEW d \in Diffs, worker[w].diff = d, Finish(w)
  PROVE  Inv'
<1>1. faults' \in 0 .. MaxFaults
  BY DEF Finish, Inv, TypeOK
<1>2. QED
  BY <1>1, LastWordKeeps DEF Finish, Ack, Statuses, Final, ghosts

\* A worker that ends and leaves the row as it is.
LEMMA SilentEndKeeps ==
  ASSUME Inv, NEW w \in Workers, NEW d \in Diffs, worker[w].diff = d, worker[w].pc # "idle",
         End(w), Tear(w), current' = current \ {w}, faults' \in 0 .. MaxFaults,
         UNCHANGED <<client, tables, task, shown, again, late, rerun>>
  PROVE  Inv'
<1>0. TypeOK /\ DataOK /\ worker[w] \in Job
  BY TypeSplit DEF Inv
<1>1. /\ torn' \in [Diffs -> SUBSET Posts] /\ \A e \in Diffs \ {d} : torn'[e] = torn[e]
      /\ torn[d] \subseteq torn'[d]
      /\ worker[w].pc = "posted" => worker[w].open \in torn'[d]
      /\ worker[w].pc # "posted" => torn'[d] = torn[d]
  BY <1>0 DEF Tear, DataOK, Job
<1>2. DataOK'
  BY <1>0, <1>1 DEF DataOK, tables
<1>3. row' \in [Diffs -> Row] /\ row' = row
  BY <1>0, TypeSplit DEF tables
<1>4. TaskIsTrue(d)' /\ row[d].status # "absent"
  BY <1>3 DEF Inv, Placed, Tasks, TaskIsTrue
<1>5. row[d].status = "published" => row[d].summary /\ Main \in shown[d]
  BY DEF Inv, Texts, TextsOf
<1>6. ASSUME d \notin late, worker[w].pc # "read" PROVE SoloOn(d)'
  <2>1. row[d].status = "published" => kept[d] = saved[d]
    BY <1>6 DEF Inv, Solo, SoloOn
  <2>2. QED
    BY <1>1, <1>3, <1>6, <2>1, LeftAlone DEF tables
<1>7. ASSUME d \notin late, worker[w].pc = "read" PROVE SoloOn(d)'
  <2>1. SoloOn(d)
    BY <1>7 DEF Inv, Solo
  <2>2. worker'[w] = NoWork /\ \A x \in Workers \ {w} : worker'[x] = worker[x]
    BY TypeSplit DEF Inv, End
  <2>3. At(d)' = At(d) /\ w \notin At(d)
    BY <1>7, <2>2, NoWorkIsJob DEF At
  <2>4. \A x \in current' : x \in current /\ worker'[x] = worker[x]
    BY <1>0, <2>2 DEF TypeOK
  <2>5. \A x \in At(d) : SoloAt(x, d)'
    BY <1>3, <2>1, <2>2, <2>3, <2>4 DEF SoloOn, SoloAt, At, tables
  <2>6. Recorded(d)'
    BY <1>1, <1>3, <1>7, <2>1, <2>2, <2>3 DEF SoloOn, Recorded, At, tables
  <2>7. QED
    BY <1>3, <2>1, <2>3, <2>5, <2>6 DEF SoloOn, tables
<1>8. \A x \in current' : x \in current /\ x # w
  OBVIOUS
<1>9. QED
  BY <1>1, <1>2, <1>3, <1>4, <1>5, <1>6, <1>7, <1>8, EndKeeps DEF tables

LEMMA RaiseKeeps ==
  ASSUME Inv, NEW w \in Workers, NEW d \in Diffs, worker[w].diff = d, Raise(w)
  PROVE  Inv'
<1>1. /\ faults' \in 0 .. MaxFaults /\ worker[w].pc \in {"load", "ai", "publish", "posted"}
      /\ Tear(w) /\ End(w) /\ UNCHANGED <<client, kept, saved, task, shown, again, late, rerun>>
  BY ReviewAssumption DEF Raise, Fault, Inv, TypeOK
<1>2. CASE row[d].status = "processing"
  <2>1. Write(d, "retry_pending")
    BY <1>2 DEF Raise
  <2>2. QED
    BY <1>1, <1>2, <2>1, LastWordKeeps DEF Statuses, Final
<1>3. CASE row[d].status # "processing"
  <2>1. UNCHANGED <<row, current>>
    BY <1>3 DEF Raise
  <2>2. current' = current \ {w}
    BY <1>1, <2>1, AtWorkStale
  <2>3. QED
    BY <1>1, <2>1, <2>2, SilentEndKeeps DEF tables
<1>4. QED
  BY <1>2, <1>3

LEMMA WorkerDiesKeeps ==
  ASSUME Inv, NEW w \in Workers, NEW d \in Diffs, worker[w].diff = d, WorkerDies(w)
  PROVE  Inv'
<1>1. faults' \in 0 .. MaxFaults
  BY ReviewAssumption DEF WorkerDies, Fault, Inv, TypeOK
<1>2. QED
  BY <1>1, SilentEndKeeps DEF WorkerDies

LEMMA PostKeeps ==
  ASSUME Inv, NEW w \in Workers, NEW d \in Diffs, worker[w].diff = d, Post(w)
  PROVE  Inv'
<1>0. TypeOK /\ DataOK /\ worker[w] \in Job
  BY TypeSplit DEF Inv
<1>1. PICK p \in IF worker[w].todo = {} THEN {Main} ELSE worker[w].todo :
        /\ worker' = [worker EXCEPT ![w].pc = "posted", ![w].open = p]
        /\ shown' = [shown EXCEPT ![d] = @ \cup {p}]
        /\ torn' = [torn EXCEPT ![d] = @ \ {p}]
        /\ again' = IF p \in shown[d] \ torn[d] THEN again \cup {d} ELSE again
  BY DEF Post
<1> DEFINE job == [worker[w] EXCEPT !.pc = "posted", !.open = p]
<1>2. worker[w].pc = "publish" /\ UNCHANGED <<client, tables, task, current, faults, late, rerun>>
      /\ worker' = [worker EXCEPT ![w] = job]
  BY <1>1 DEF Post
<1>3. p \in Posts
  BY <1>0 DEF Job, Posts
<1>4. job \in Job /\ job.pc = "posted" /\ job.diff = d /\ job.open = p
      /\ job.todo = worker[w].todo
  BY <1>0, <1>3 DEF Job
<1> HIDE DEF job
<1>5. /\ shown'[d] = shown[d] \cup {p} /\ torn'[d] = torn[d] \ {p}
      /\ \A e \in Diffs \ {d} : shown'[e] = shown[e] /\ torn'[e] = torn[e]
  BY <1>0, <1>1 DEF DataOK
<1>6. /\ TypeOK'
      /\ worker'[w] = job /\ \A x \in Workers \ {w} : worker'[x] = worker[x]
  <2>1. DataOK' /\ UNCHANGED <<client, late, row>>
    BY <1>0, <1>1, <1>2, <1>3 DEF DataOK, tables
  <2>2. QED
    BY <1>0, <1>2, <1>4, <2>1, WorkerOnlyTypes
<1>7. row[d].summary /\ worker[w].todo \subseteq kept[d] /\ row[d].status # "absent"
      /\ w \notin current
  BY <1>2, AtWorkStale DEF Inv, Placed, Texts, TextsAt
<1>8. TaskIsTrue(d)' /\ TextsOf(d)'
  <2>1. p = Main \/ p \in kept[d]
    BY <1>7
  <2>2. QED
    BY <1>2, <1>5, <1>7, <2>1 DEF Inv, Tasks, TaskIsTrue, Texts, TextsOf, tables
<1>9. TextsAt(w)'
  BY <1>2, <1>4, <1>5, <1>6, <1>7 DEF TextsAt, tables
<1>10. ASSUME d \notin late PROVE SoloOn(d)'
  <2>1. At(d) = {w} /\ SoloAt(w, d) /\ SoloOn(d)
    BY <1>2, <1>10, AtWorkAlone
  <2>2. At(d)' = {w}
    BY <1>4, <1>6, <2>1 DEF At
  <2>3. SoloAt(w, d)'
    BY <1>0, <1>2, <1>4, <1>6, <1>7, <2>1, <2>2 DEF SoloAt, tables, TypeOK
  <2>4. Recorded(d)'
    <3>1. \A q \in shown[d] \ torn[d] : q \in saved[d]
      BY <1>2, <2>1 DEF SoloOn, SoloAt, Recorded
    <3>2. SUFFICES ASSUME NEW q \in shown'[d] \ torn'[d]
                   PROVE  q \in saved[d] \/ (worker'[w].pc = "posted" /\ worker'[w].open = q)
      BY <1>2, <2>2 DEF Recorded, tables
    <3>3. q = p \/ q \in shown[d] \ torn[d]
      BY <1>5, <3>2
    <3>4. QED
      BY <1>4, <1>6, <3>1, <3>3
  <2>5. p \notin shown[d] \ torn[d]
    <3>1. \A q \in shown[d] \ torn[d] : q \in saved[d]
      BY <1>2, <2>1 DEF SoloOn, SoloAt, Recorded
    <3>2. p = Main \/ p \in kept[d] \ saved[d]
      BY <1>2, <2>1 DEF SoloAt
    <3>3. Main \notin saved[d]
      BY <1>0, ReviewAssumption DEF DataOK, Rows
    <3>4. QED
      BY <3>1, <3>2, <3>3
  <2>6. QED
    BY <1>1, <1>2, <2>1, <2>2, <2>3, <2>4, <2>5 DEF SoloOn, tables
<1>11. \A e \in Diffs \ {d} : e \in again' => e \in again
  BY <1>1
<1>12. QED
  BY <1>2, <1>4, <1>5, <1>6, <1>7, <1>8, <1>9, <1>10, <1>11, WorkerStep DEF tables

LEMMA SaveInlineKeeps ==
  ASSUME Inv, NEW w \in Workers, NEW d \in Diffs, worker[w].diff = d, SaveInline(w)
  PROVE  Inv'
<1> DEFINE p == worker[w].open
           job == [worker[w] EXCEPT !.pc = "publish", !.open = Main, !.todo = @ \ {worker[w].open}]
<1>0. TypeOK /\ DataOK /\ worker[w] \in Job
  BY TypeSplit DEF Inv
<1>1. /\ worker[w].pc = "posted" /\ p # Main
      /\ UNCHANGED <<client, row, kept, task, current, faults, ghosts>>
      /\ saved' = [saved EXCEPT ![d] = @ \cup {p}] /\ worker' = [worker EXCEPT ![w] = job]
  BY DEF SaveInline
<1>2. p \in Rows
  BY <1>0, <1>1 DEF Job, Posts
<1>3. job \in Job /\ job.pc = "publish" /\ job.diff = d /\ job.todo = worker[w].todo \ {p}
  BY <1>0 DEF Job, Posts
<1>4. saved'[d] = saved[d] \cup {p} /\ \A e \in Diffs \ {d} : saved'[e] = saved[e]
  BY <1>0, <1>1 DEF DataOK
<1>5. row[d].summary /\ worker[w].todo \subseteq kept[d] /\ row[d].status # "absent"
      /\ p \in shown[d] /\ p \in worker[w].todo /\ w \notin current
  BY <1>1, AtWorkStale DEF Inv, Placed, Texts, TextsAt
<1> HIDE DEF job, p
<1>7. /\ TypeOK'
      /\ worker'[w] = job /\ \A x \in Workers \ {w} : worker'[x] = worker[x]
  <2>1. DataOK' /\ UNCHANGED <<client, late, row>>
    BY <1>0, <1>1, <1>2 DEF DataOK, ghosts
  <2>2. QED
    BY <1>0, <1>1, <1>3, <2>1, WorkerOnlyTypes
<1>8. TaskIsTrue(d)' /\ TextsOf(d)'
  BY <1>1, <1>4, <1>5 DEF Inv, Tasks, TaskIsTrue, Texts, TextsOf, ghosts
<1>9. TextsAt(w)'
  BY <1>1, <1>3, <1>5, <1>7 DEF TextsAt
<1>10. ASSUME d \notin late PROVE SoloOn(d)'
  <2>1. At(d) = {w} /\ SoloAt(w, d) /\ SoloOn(d)
    BY <1>1, <1>10, AtWorkAlone
  <2>2. At(d)' = {w}
    BY <1>3, <1>7, <2>1 DEF At
  <2>3. worker'[w].todo = kept[d] \ saved'[d] /\ worker'[w].pc = "publish"
    BY <1>1, <1>3, <1>4, <1>7, <2>1 DEF SoloAt
  <2>4. \A x \in current' : worker'[x].diff # d
    BY <1>0, <1>1, <1>5, <1>7, <2>1 DEF SoloAt, TypeOK
  <2>5. SoloAt(w, d)'
    BY <1>1, <2>1, <2>2, <2>3, <2>4 DEF SoloAt
  <2>6. Recorded(d)'
    <3>1. \A x \in shown[d] \ torn[d] : x \in saved[d] \cup {p}
      BY <1>1, <2>1 DEF SoloOn, SoloAt, Recorded, p
    <3>2. QED
      BY <1>1, <1>4, <3>1 DEF Recorded, ghosts
  <2>7. QED
    BY <1>1, <2>1, <2>2, <2>5, <2>6 DEF SoloOn, SoloAt, ghosts
<1>11. QED
  BY <1>1, <1>3, <1>4, <1>5, <1>7, <1>8, <1>9, <1>10, WorkerStep DEF ghosts

-----------------------------------------------------------------------------
(* Time. *)

LEMMA HalfHourKeeps ==
  ASSUME Inv, NEW d \in Diffs, HalfHour(d)
  PROVE  Inv'
<1> DEFINE new == [row[d] EXCEPT !.age = IF @ = "young" THEN "fresh" ELSE "aged"]
<1>0. TypeOK /\ row \in [Diffs -> Row]
  BY TypeSplit DEF Inv
<1>1. /\ row' = [row EXCEPT ![d] = new]
      /\ row[d].age = "young" \/ row[d].age = "fresh"
      /\ late' = IF row[d].age = "fresh" /\ At(d) # {} THEN late \cup {d} ELSE late
      /\ UNCHANGED <<client, kept, saved, task, worker, current, faults, shown, torn, again, rerun>>
  BY DEF HalfHour
<1>2. /\ new \in Row /\ new.status = row[d].status /\ new.summary = row[d].summary
      /\ new.age = IF row[d].age = "young" THEN "fresh" ELSE "aged"
  BY <1>0 DEF Row
<1> HIDE DEF new
<1>3. /\ row' \in [Diffs -> Row] /\ late' \in SUBSET Diffs /\ row'[d] = new
      /\ \A e \in Diffs : /\ row'[e].status = row[e].status /\ row'[e].summary = row[e].summary
                          /\ e # d => row'[e] = row[e]
  BY <1>0, <1>1, <1>2 DEF TypeOK
<1>4. TypeOK'
  BY <1>0, <1>1, <1>3 DEF TypeOK, Row
<1>5. Placed'
  BY <1>1, <1>3 DEF Inv, Placed
<1>6. Copies'
  <2>1. \A w \in current : w \in Workers /\ worker[w].diff \in Diffs
    BY <1>0 DEF TypeOK, Inv, Placed, Copies
  <2>2. QED
    BY <1>1, <1>3, <2>1 DEF Inv, Copies
<1>7. Tasks'
  BY <1>1, <1>3 DEF Inv, Tasks, TaskIsTrue
<1>8. Texts'
  <2>1. \A e \in Diffs : TextsOf(e)'
    BY <1>1, <1>3 DEF Inv, Texts, TextsOf
  <2>2. \A w \in Workers : worker[w].pc # "idle" => worker[w].diff \in Diffs
    BY DEF Inv, Placed
  <2>3. \A w \in Workers : TextsAt(w)'
    BY <1>1, <1>3, <2>2 DEF Inv, Texts, TextsAt
  <2>4. QED
    BY <2>1, <2>3 DEF Texts
<1>9. LateIsOld'
  BY <1>0, <1>1, <1>2, <1>3 DEF Inv, TypeOK, LateIsOld
<1>10. Solo'
  <2>1. SUFFICES ASSUME NEW e \in Diffs \ late'
                 PROVE  SoloOn(e)'
    BY DEF Solo
  <2>2. SoloOn(e) /\ At(e)' = At(e)
    BY <1>1, <2>1 DEF Inv, Solo, At
  <2>3. At(e) # {} => row'[e].age # "aged"
    BY <1>1, <1>2, <1>3, <2>1, <2>2 DEF SoloOn, SoloAt
  <2>4. \A w \in At(e) : SoloAt(w, e)'
    BY <1>1, <1>3, <2>2, <2>3 DEF SoloOn, SoloAt
  <2>5. QED
    BY <1>1, <1>3, <2>2, <2>4 DEF SoloOn, Recorded
<1>11. QED
  BY <1>4, <1>5, <1>6, <1>7, <1>8, <1>9, <1>10 DEF Inv

-----------------------------------------------------------------------------
(* The theorems. *)

\* A worker that is not idle is about a diff.
LEMMA HasDiff ==
  ASSUME Inv, NEW w \in Workers, worker[w].pc # "idle"
  PROVE  \E d \in Diffs : worker[w].diff = d
BY DEF Inv, Placed

LEMMA WorkKeeps ==
  ASSUME Inv, NEW w \in Workers, Work(w) \/ Raise(w) \/ WorkerDies(w)
  PROVE  Inv'
<1>1. worker[w].pc # "idle"
  BY DEF Work, Claim, Load, Generate, NotYetPublic, GiveUp, Post, SaveInline, Finish, Raise,
         WorkerDies
<1>2. PICK d \in Diffs : worker[w].diff = d
  BY <1>1, HasDiff
<1>3. QED
  BY <1>2, ClaimKeeps, LoadKeeps, GenerateKeeps, NotYetPublicKeeps, GiveUpKeeps, PostKeeps,
     SaveInlineKeeps, FinishKeeps, RaiseKeeps, WorkerDiesKeeps DEF Work

LEMMA StepKeeps == Inv /\ [Next]_vars => Inv'
<1> SUFFICES ASSUME Inv, [Next]_vars PROVE Inv'
  OBVIOUS
<1>1. ASSUME NEW c \in Clients, Serve(c) \/ SubmitterDies(c)
      PROVE  Inv'
  BY <1>1, SubmitKeeps, InsertKeeps, EnqueueKeeps, SubmitterDiesKeeps DEF Serve
<1>2. ASSUME NEW w \in Workers, NEW d \in Diffs, Deliver(w, d)
      PROVE  Inv'
  BY <1>2, DeliverKeeps
<1>3. ASSUME NEW w \in Workers, Work(w) \/ Raise(w) \/ WorkerDies(w)
      PROVE  Inv'
  BY <1>3, WorkKeeps
<1>4. ASSUME NEW d \in Diffs, HalfHour(d)
      PROVE  Inv'
  BY <1>4, HalfHourKeeps
<1>5. CASE UNCHANGED vars
  <2>1. TypeOK'
    BY <1>5 DEF Inv, TypeOK, vars, tables, ghosts
  <2>2. Placed' /\ Tasks'
    BY <1>5 DEF Inv, Placed, Tasks, TaskIsTrue, vars, tables, ghosts
  <2>3. QED
    BY <1>5, <2>1, <2>2, WorkUntouched DEF Inv, vars, tables, ghosts
<1>6. QED
  BY <1>1, <1>2, <1>3, <1>4, <1>5 DEF Next

THEOREM Invariance == Spec => []Inv
BY InitInv, StepKeeps, PTL DEF Spec

\* The types of the tables, the sessions and the ghosts.
THEOREM TypesHold == Spec => []TypeOK
<1>1. Inv => TypeOK
  BY DEF Inv
<1>2. QED
  BY <1>1, Invariance, PTL

\* Claiming by status and updated_at keeps all but one worker off a review that
\* no worker outlasts its claim at (claim_review_request).
THEOREM ClaimsExclude == Spec => []OneWorker
<1>1. ASSUME Inv PROVE OneWorker
  <2>1. SUFFICES ASSUME NEW d \in Diffs \ late
                 PROVE  Cardinality(At(d)) <= 1
    BY DEF OneWorker
  <2>2. CASE At(d) = {}
    BY <2>2, FS_EmptySet
  <2>3. ASSUME NEW w \in At(d) PROVE Cardinality(At(d)) <= 1
    <3>1. At(d) = {w}
      BY <1>1, <2>3 DEF Inv, Solo, SoloOn, SoloAt
    <3>2. Cardinality({w}) = 1
      BY FS_Singleton
    <3>3. QED
      BY <3>1, <3>2
  <2>4. QED
    BY <2>2, <2>3
<1>2. QED
  BY <1>1, Invariance, PTL

\* Of a review no worker has outlasted its claim at, a retry posts nothing a second
\* time that was posted and recorded (publish_review).
THEOREM RetriesPostOnce == Spec => []PostedOnce
<1>1. Inv => PostedOnce
  BY DEF Inv, TypeOK, Solo, SoloOn, PostedOnce
<1>2. QED
  BY <1>1, Invariance, PTL

-----------------------------------------------------------------------------
(* What a step does to the statuses. *)

\* The rows, the ghosts and what is shown, when nothing is written.
Unwritten == UNCHANGED <<row, shown>>

\* Every step writes one row at most, and shows one comment at most.
StatusStep ==
  \/ Unwritten
  \/ \E d \in Diffs :
      /\ \A e \in Diffs \ {d} : row'[e].status = row[e].status
      /\ \/ row[d].status = "absent" /\ row'[d].status = "pending"
         \/ row'[d].status = row[d].status
         \/ row[d].status \notin Final \cup {"absent"} /\ row'[d].status \in {"processing", "retry_pending"}
         \/ \E w \in Workers : /\ worker[w].pc = "ai" /\ worker[w].diff = d
                               /\ row'[d].status = "failed"
         \/ \E w \in Workers : /\ worker[w].pc = "posted" /\ worker[w].diff = d
                               /\ worker[w].open = Main /\ row'[d].status = "published"
      /\ UNCHANGED shown
  \/ \E w \in Workers, p \in Posts :
      /\ worker[w].pc = "publish" /\ UNCHANGED row
      /\ worker[w].diff \in Diffs /\ shown' = [shown EXCEPT ![worker[w].diff] = @ \cup {p}]

\* A write changes the status of one row.
LEMMA WriteStatus ==
  ASSUME TypeOK, NEW d \in Diffs, NEW status \in Statuses, Write(d, status)
  PROVE  row'[d].status = status /\ \A e \in Diffs \ {d} : row'[e].status = row[e].status
<1>1. PICK new \in Row : row' = [row EXCEPT ![d] = new] /\ new.status = status
  BY WriteSays
<1>2. row \in [Diffs -> Row]
  BY TypeSplit
<1>3. QED
  BY <1>1, <1>2

LEMMA WorkerStatuses ==
  ASSUME Inv, NEW w \in Workers, NEW d \in Diffs, worker[w].diff = d, Work(w) \/ Raise(w)
  PROVE  StatusStep
<1>0. TypeOK /\ row \in [Diffs -> Row] /\ worker[w] \in Job
  BY TypeSplit DEF Inv
<1>1. CASE Claim(w)
  <2>1. CASE w \in current
    <3>1. row[d].status \notin Final \cup {"absent"} /\ Write(d, "processing") /\ UNCHANGED shown
      BY <1>1, <2>1 DEF Claim, Inv, Placed, Copies, ghosts
    <3>2. QED
      BY <1>0, <3>1, WriteStatus DEF StatusStep, Statuses
  <2>2. CASE w \notin current
    BY <1>1, <2>2 DEF Claim, StatusStep, Unwritten, ghosts
  <2>3. QED
    BY <2>1, <2>2
<1>2. CASE Load(w) \/ SaveInline(w)
  BY <1>2 DEF Load, SaveInline, StatusStep, Unwritten, tables, ghosts
<1>3. ASSUME NEW C \in SUBSET Comments, Generate(w, C)
      PROVE  StatusStep
  <2>1. row' = [row EXCEPT ![d] = [Stored(@) EXCEPT !.summary = TRUE]] /\ UNCHANGED shown
    BY <1>3 DEF Generate, ghosts
  <2>2. \A e \in Diffs : row'[e].status = row[e].status
    BY <1>0, <2>1 DEF Stored, Row
  <2>3. QED
    BY <2>1, <2>2 DEF StatusStep
<1>4. CASE NotYetPublic(w)
  <2>1. d \notin late
    BY <1>4 DEF NotYetPublic, Inv, LateIsOld
  <2>2. row[d].status \notin Final \cup {"absent"}
    BY <1>4, <2>1, AtWorkAlone DEF NotYetPublic, SoloAt, Final
  <2>3. Write(d, "retry_pending") /\ UNCHANGED shown
    BY <1>4 DEF NotYetPublic, ghosts
  <2>4. QED
    BY <1>0, <2>2, <2>3, WriteStatus DEF StatusStep, Statuses
<1>5. CASE GiveUp(w)
  <2>1. worker[w].pc = "ai" /\ Write(d, "failed") /\ UNCHANGED shown
    BY <1>5 DEF GiveUp, ghosts
  <2>2. QED
    BY <1>0, <2>1, WriteStatus DEF StatusStep, Statuses, Final
<1>6. CASE Finish(w)
  <2>1. worker[w].pc = "posted" /\ worker[w].open = Main /\ Write(d, "published")
        /\ UNCHANGED shown
    BY <1>6 DEF Finish, ghosts
  <2>2. QED
    BY <1>0, <2>1, WriteStatus DEF StatusStep, Statuses, Final
<1>7. CASE Post(w)
  <2>1. PICK p \in IF worker[w].todo = {} THEN {Main} ELSE worker[w].todo :
          shown' = [shown EXCEPT ![d] = @ \cup {p}]
    BY <1>7 DEF Post
  <2>2. p \in Posts /\ worker[w].pc = "publish" /\ UNCHANGED row
    BY <1>0, <1>7 DEF Post, Job, Posts, tables
  <2>3. QED
    BY <2>1, <2>2 DEF StatusStep
<1>8. CASE Raise(w)
  <2>1. CASE row[d].status = "processing"
    <3>1. Write(d, "retry_pending") /\ UNCHANGED shown
      BY <1>8, <2>1 DEF Raise
    <3>2. QED
      BY <1>0, <2>1, <3>1, WriteStatus DEF StatusStep, Statuses, Final
  <2>2. CASE row[d].status # "processing"
    BY <1>8, <2>2 DEF Raise, StatusStep, Unwritten
  <2>3. QED
    BY <2>1, <2>2
<1>9. QED
  BY <1>1, <1>2, <1>3, <1>4, <1>5, <1>6, <1>7, <1>8 DEF Work

LEMMA StepStatuses ==
  ASSUME Inv, [Next]_vars
  PROVE  StatusStep
<1>0. row \in [Diffs -> Row]
  BY TypeSplit DEF Inv
<1>1. ASSUME NEW c \in Clients, Insert(c)
      PROVE  StatusStep
  <2> DEFINE d == client[c].diff
  <2>1. d \in Diffs /\ UNCHANGED shown
    BY <1>1 DEF Insert, Inv, Placed, ghosts
  <2>2. CASE d \in Present
    BY <1>1, <2>1, <2>2 DEF Insert, StatusStep, Unwritten
  <2>3. CASE d \notin Present
    <3>1. row' = [row EXCEPT ![d].status = "pending", ![d].born = client[c].ticket]
          /\ row[d].status = "absent"
      BY <1>1, <2>1, <2>3 DEF Insert, Present
    <3>2. row'[d].status = "pending" /\ \A e \in Diffs \ {d} : row'[e].status = row[e].status
      BY <1>0, <2>1, <3>1 DEF Row
    <3>3. QED
      BY <2>1, <3>1, <3>2 DEF StatusStep
  <2>4. QED
    BY <2>2, <2>3
<1>2. ASSUME NEW c \in Clients, NEW d \in Diffs, Submit(c, d)
      PROVE  StatusStep
  BY <1>2 DEF Submit, StatusStep, Unwritten, tables, ghosts
<1>3. ASSUME NEW c \in Clients, Enqueue(c) \/ SubmitterDies(c)
      PROVE  StatusStep
  BY <1>3 DEF Enqueue, SubmitterDies, StatusStep, Unwritten, tables, ghosts
<1>4. ASSUME NEW w \in Workers, (\E d \in Diffs : Deliver(w, d)) \/ WorkerDies(w)
      PROVE  StatusStep
  BY <1>4 DEF Deliver, WorkerDies, StatusStep, Unwritten, tables, ghosts
<1>5. ASSUME NEW w \in Workers, Work(w) \/ Raise(w)
      PROVE  StatusStep
  <2>1. worker[w].pc # "idle"
    BY <1>5 DEF Work, Claim, Load, Generate, NotYetPublic, GiveUp, Post, SaveInline, Finish, Raise
  <2>2. PICK d \in Diffs : worker[w].diff = d
    BY <2>1, HasDiff
  <2>3. QED
    BY <1>5, <2>2, WorkerStatuses
<1>6. ASSUME NEW d \in Diffs, HalfHour(d)
      PROVE  StatusStep
  <2>1. row' = [row EXCEPT ![d].age = IF @ = "young" THEN "fresh" ELSE "aged"] /\ UNCHANGED shown
    BY <1>6 DEF HalfHour
  <2>2. \A e \in Diffs : row'[e].status = row[e].status
    BY <1>0, <2>1 DEF Row
  <2>3. QED
    BY <2>1, <2>2 DEF StatusStep
<1>7. CASE UNCHANGED vars
  BY <1>7 DEF StatusStep, Unwritten, vars, tables, ghosts
<1>8. QED
  BY <1>1, <1>2, <1>3, <1>4, <1>5, <1>6, <1>7 DEF Next, Serve

\* A review that has ended never opens again, not even by a worker that was
\* taken over, and no task is acknowledged before its review has ended.
THEOREM EndsAreFinal == Spec => EndedStaysEnded
<1>1. ASSUME Inv, [Next]_vars
      PROVE  [ \A d \in Diffs : /\ row[d].status \in Final => row'[d].status \in Final
                                /\ task'[d] = "acked" => row'[d].status \in Final ]_vars
  <2>1. StatusStep /\ Inv'
    BY <1>1, StepStatuses, StepKeeps
  <2>2. \A d \in Diffs : row[d].status \in Final => row'[d].status \in Final
    BY <2>1 DEF StatusStep, Unwritten, Final
  <2>3. \A d \in Diffs : task'[d] = "acked" => row'[d].status \in Final
    BY <2>1 DEF Inv, Tasks, TaskIsTrue
  <2>4. QED
    BY <2>2, <2>3
<1>2. QED
  BY <1>1, Invariance, PTL DEF Spec, EndedStaysEnded

-----------------------------------------------------------------------------
(* What is published, of late reviews as well. *)

\* Who publishes a review the agent ran on once has all that has no id to post.
Carries(w) ==
  LET d == worker[w].diff IN
  worker[w].pc \in {"publish", "posted"} /\ d \notin rerun => kept[d] \ saved[d] \subseteq worker[w].todo

\* Somebody is about to commit its id.
Held(d, p) == \E w \in At(d) : worker[w].pc = "posted" /\ worker[w].open = p

Noted(d) == \A p \in shown[d] \ (saved[d] \cup torn[d] \cup {Main}) : Held(d, p)

Complete(d) == row[d].status = "published" /\ d \notin rerun => kept[d] \subseteq saved[d]

Whole == (\A w \in Workers : Carries(w)) /\ (\A d \in Diffs : Noted(d) /\ Complete(d))

\* A review is published by a worker that has nothing left to post.
LEMMA PublishedStep ==
  ASSUME Inv, Whole, [Next]_vars, NEW d \in Diffs, row'[d].status = "published", d \notin rerun
  PROVE  kept[d] \subseteq saved[d]
<1>1. CASE row[d].status = "published"
  BY <1>1 DEF Whole, Complete
<1>2. ASSUME NEW w \in Workers, worker[w].pc = "posted", worker[w].diff = d, worker[w].open = Main
      PROVE  kept[d] \subseteq saved[d]
  <2>1. worker[w].todo \subseteq Rows
    BY TypeSplit DEF Inv, Job
  <2>2. worker[w].todo = {}
    BY <1>2, <2>1, ReviewAssumption DEF Inv, Texts, TextsAt, Rows
  <2>3. kept[d] \ saved[d] \subseteq worker[w].todo
    BY <1>2 DEF Whole, Carries
  <2>4. QED
    BY <2>2, <2>3
<1>3. row[d].status = "published"
      \/ \E w \in Workers : worker[w].pc = "posted" /\ worker[w].diff = d /\ worker[w].open = Main
  BY StepStatuses DEF StatusStep, Unwritten
<1>4. QED
  BY <1>1, <1>2, <1>3

\* What a session is doing when its step is about no comment.
SameOrQuiet(x) ==
  \/ worker'[x] = worker[x]
  \/ /\ worker'[x].pc \notin {"publish", "posted"}
     /\ worker[x].pc = "posted" => worker[x].open \in torn'[worker[x].diff] \cup {Main}
  \/ /\ worker[x].pc = "load"
     /\ worker'[x].diff = worker[x].diff
     /\ worker'[x].todo = kept[worker[x].diff] \ saved[worker[x].diff]

LEMMA QuietKeepsWhole ==
  ASSUME Inv, Whole, [Next]_vars, UNCHANGED <<kept, saved, shown, rerun>>,
         \A x \in Workers : SameOrQuiet(x), \A d \in Diffs : torn[d] \subseteq torn'[d]
  PROVE  Whole'
<1>1. \A x \in Workers : Carries(x)'
  BY DEF Whole, Carries, SameOrQuiet
<1>2. ASSUME NEW d \in Diffs PROVE Noted(d)'
  <2>1. SUFFICES ASSUME NEW p \in shown[d] \ (saved[d] \cup torn'[d] \cup {Main})
                 PROVE  Held(d, p)'
    BY DEF Noted
  <2>2. PICK x \in At(d) : worker[x].pc = "posted" /\ worker[x].open = p
    BY <2>1 DEF Whole, Noted, Held
  <2>3. x \in Workers /\ worker[x].diff = d
    BY <2>2 DEF At
  <2>4. worker'[x] = worker[x]
    BY <2>1, <2>2, <2>3 DEF SameOrQuiet
  <2>5. x \in At(d)'
    BY <2>2, <2>3, <2>4 DEF At
  <2>6. QED
    BY <2>2, <2>4, <2>5 DEF Held
<1>3. \A d \in Diffs : Complete(d)'
  BY PublishedStep DEF Complete
<1>4. QED
  BY <1>1, <1>2, <1>3 DEF Whole

\* The steps that end a session.
LEMMA EndIsQuiet ==
  ASSUME Inv, NEW w \in Workers, End(w),
         worker[w].pc = "posted" => worker[w].open \in torn'[worker[w].diff] \cup {Main}
  PROVE  \A x \in Workers : SameOrQuiet(x)
<1>1. worker'[w] = NoWork /\ \A x \in Workers \ {w} : worker'[x] = worker[x]
  BY TypeSplit DEF Inv, End
<1>2. QED
  BY <1>1, NoWorkIsJob DEF SameOrQuiet

LEMMA TearSays ==
  ASSUME Inv, NEW w \in Workers, worker[w].pc # "idle", Tear(w)
  PROVE  /\ \A d \in Diffs : torn[d] \subseteq torn'[d]
         /\ worker[w].pc = "posted" => worker[w].open \in torn'[worker[w].diff]
<1>1. worker[w].diff \in Diffs /\ torn \in [Diffs -> SUBSET Posts]
  BY TypeSplit DEF Inv, Placed, DataOK
<1>2. QED
  BY <1>1 DEF Tear

LEMMA GenerateKeepsWhole ==
  ASSUME Inv, Whole, [Next]_vars, NEW w \in Workers, NEW C \in SUBSET Comments, Generate(w, C)
  PROVE  Whole'
<1>1. PICK d \in Diffs : worker[w].diff = d
  BY HasDiff DEF Generate
<1>2. /\ worker[w].pc = "ai" /\ UNCHANGED <<saved, shown, torn>>
      /\ kept' = [kept EXCEPT ![d] = @ \cup ({w} \X C)]
      /\ rerun' = (IF row[d].summary THEN rerun \cup {d} ELSE rerun)
      /\ worker' = [worker EXCEPT ![w].pc = "publish", ![w].todo = {w} \X C]
  BY <1>1 DEF Generate
<1>3. worker \in [Workers -> Job] /\ kept \in [Diffs -> SUBSET Rows]
  BY TypeSplit DEF Inv, DataOK
<1>4. /\ worker'[w].todo = {w} \X C /\ worker'[w].diff = d
      /\ \A x \in Workers \ {w} : worker'[x] = worker[x]
  BY <1>1, <1>2, <1>3 DEF Job
<1>5. /\ kept'[d] = kept[d] \cup ({w} \X C) /\ \A e \in Diffs \ {d} : kept'[e] = kept[e]
  BY <1>2, <1>3
<1>6. ~row[d].summary => kept[d] = {}
  BY DEF Inv, Texts, TextsOf
<1>7. ASSUME NEW x \in Workers PROVE Carries(x)'
  <2> DEFINE e == worker'[x].diff
  <2>1. SUFFICES ASSUME worker'[x].pc \in {"publish", "posted"}, e \notin rerun'
                 PROVE  kept'[e] \ saved[e] \subseteq worker'[x].todo
    BY <1>2 DEF Carries
  <2>2. CASE x = w
    <3>1. e = d /\ d \notin rerun'
      BY <1>4, <2>1, <2>2
    <3>2. kept[d] = {}
      BY <1>2, <1>6, <3>1
    <3>3. QED
      BY <1>4, <1>5, <2>2, <3>1, <3>2
  <2>3. CASE x # w
    <3>1. worker'[x] = worker[x] /\ e = worker[x].diff /\ e \in Diffs
      BY <1>4, <2>1, <2>3 DEF Inv, Placed
    <3>2. row[e].summary
      BY <2>1, <3>1 DEF Inv, Texts, TextsAt
    <3>3. e # d /\ e \notin rerun
      BY <1>2, <2>1, <3>2
    <3>4. kept[e] \ saved[e] \subseteq worker[x].todo
      BY <2>1, <3>1, <3>3 DEF Whole, Carries
    <3>5. QED
      BY <1>5, <3>1, <3>3, <3>4
  <2>4. QED
    BY <2>2, <2>3
<1>8. ASSUME NEW e \in Diffs PROVE Noted(e)'
  <2>1. SUFFICES ASSUME NEW p \in shown[e] \ (saved[e] \cup torn[e] \cup {Main})
                 PROVE  Held(e, p)'
    BY <1>2 DEF Noted
  <2>2. PICK x \in At(e) : worker[x].pc = "posted" /\ worker[x].open = p
    BY <2>1 DEF Whole, Noted, Held
  <2>3. worker'[x] = worker[x] /\ x \in At(e)'
    BY <1>2, <1>4, <2>2 DEF At
  <2>4. QED
    BY <2>2, <2>3 DEF Held
<1>9. ASSUME NEW e \in Diffs PROVE Complete(e)'
  <2>1. SUFFICES ASSUME row'[e].status = "published", e \notin rerun'
                 PROVE  kept'[e] \subseteq saved[e]
    BY <1>2 DEF Complete
  <2>2. kept[e] \subseteq saved[e]
    BY <1>2, <2>1, PublishedStep
  <2>3. row \in [Diffs -> Row] /\ row' = [row EXCEPT ![d] = [Stored(@) EXCEPT !.summary = TRUE]]
    BY <1>1, TypeSplit DEF Generate, Inv
  <2>4. row'[d].status = row[d].status
    BY <2>3 DEF Stored, Row
  <2>5. row[d].status = "published" => row[d].summary
    BY DEF Inv, Texts, TextsOf
  <2>6. e # d
    BY <1>2, <2>1, <2>4, <2>5
  <2>7. QED
    BY <1>5, <2>2, <2>6
<1>10. QED
  BY <1>7, <1>8, <1>9 DEF Whole

LEMMA PostKeepsWhole ==
  ASSUME Inv, Whole, [Next]_vars, NEW w \in Workers, Post(w)
  PROVE  Whole'
<1>1. PICK d \in Diffs : worker[w].diff = d
  BY HasDiff DEF Post
<1>2. PICK p :
        /\ worker' = [worker EXCEPT ![w].pc = "posted", ![w].open = p]
        /\ shown' = [shown EXCEPT ![d] = @ \cup {p}]
        /\ torn' = [torn EXCEPT ![d] = @ \ {p}]
  BY <1>1 DEF Post
<1>3. worker[w].pc = "publish" /\ UNCHANGED <<row, kept, saved, rerun>>
  BY DEF Post, tables
<1>4. worker \in [Workers -> Job] /\ shown \in [Diffs -> SUBSET Posts]
      /\ torn \in [Diffs -> SUBSET Posts]
  BY TypeSplit DEF Inv, DataOK
<1>5. /\ worker'[w].pc = "posted" /\ worker'[w].open = p /\ worker'[w].diff = d
      /\ worker'[w].todo = worker[w].todo /\ \A x \in Workers \ {w} : worker'[x] = worker[x]
  BY <1>1, <1>2, <1>4 DEF Job
<1>6. /\ shown'[d] = shown[d] \cup {p} /\ torn'[d] = torn[d] \ {p}
      /\ \A e \in Diffs \ {d} : shown'[e] = shown[e] /\ torn'[e] = torn[e]
  BY <1>2, <1>4
<1>7. \A x \in Workers : Carries(x)'
  BY <1>1, <1>3, <1>5 DEF Whole, Carries
<1>8. ASSUME NEW e \in Diffs, NEW q \in shown'[e] \ (saved[e] \cup torn'[e] \cup {Main})
      PROVE  Held(e, q)'
  <2>1. CASE e = d /\ q = p
    <3>1. w \in At(d)'
      BY <1>5 DEF At
    <3>2. QED
      BY <1>5, <2>1, <3>1 DEF Held
  <2>2. CASE ~(e = d /\ q = p)
    <3>1. q \in shown[e] \ (saved[e] \cup torn[e] \cup {Main})
      BY <1>6, <1>8, <2>2
    <3>2. PICK x \in At(e) : worker[x].pc = "posted" /\ worker[x].open = q
      BY <3>1 DEF Whole, Noted, Held
    <3>3. worker'[x] = worker[x] /\ x \in At(e)'
      BY <1>3, <1>5, <3>2 DEF At
    <3>4. QED
      BY <3>2, <3>3 DEF Held
  <2>3. QED
    BY <2>1, <2>2
<1>9. \A e \in Diffs : Noted(e)' /\ Complete(e)'
  BY <1>3, <1>8 DEF Noted, Complete, Whole
<1>10. QED
  BY <1>7, <1>9 DEF Whole

LEMMA SaveKeepsWhole ==
  ASSUME Inv, Whole, [Next]_vars, NEW w \in Workers, SaveInline(w)
  PROVE  Whole'
<1>1. PICK d \in Diffs : worker[w].diff = d
  BY HasDiff DEF SaveInline
<1> DEFINE p == worker[w].open
<1>2. /\ worker[w].pc = "posted" /\ UNCHANGED <<row, kept, shown, torn, rerun>>
      /\ saved' = [saved EXCEPT ![d] = @ \cup {p}]
      /\ worker' = [worker EXCEPT ![w].pc = "publish", ![w].open = Main, ![w].todo = @ \ {p}]
  BY <1>1 DEF SaveInline, ghosts
<1>3. worker \in [Workers -> Job] /\ saved \in [Diffs -> SUBSET Rows]
  BY TypeSplit DEF Inv, DataOK
<1>4. /\ worker'[w].diff = d /\ worker'[w].todo = worker[w].todo \ {p}
      /\ \A x \in Workers \ {w} : worker'[x] = worker[x]
  BY <1>1, <1>2, <1>3 DEF Job
<1>5. saved'[d] = saved[d] \cup {p} /\ \A e \in Diffs \ {d} : saved'[e] = saved[e]
  BY <1>2, <1>3
<1> HIDE DEF p
<1>6. ASSUME NEW x \in Workers PROVE Carries(x)'
  <2> DEFINE e == worker'[x].diff
  <2>1. SUFFICES ASSUME worker'[x].pc \in {"publish", "posted"}, e \notin rerun
                 PROVE  kept[e] \ saved'[e] \subseteq worker'[x].todo
    BY <1>2 DEF Carries
  <2>2. CASE x = w
    <3>1. kept[d] \ saved[d] \subseteq worker[w].todo
      BY <1>1, <1>2, <1>4, <2>1, <2>2 DEF Whole, Carries
    <3>2. QED
      BY <1>4, <1>5, <2>2, <3>1
  <2>3. CASE x # w
    <3>1. worker'[x] = worker[x] /\ e \in Diffs
      BY <1>4, <2>1, <2>3 DEF Inv, Placed
    <3>2. kept[e] \ saved[e] \subseteq worker[x].todo
      BY <2>1, <3>1 DEF Whole, Carries
    <3>3. QED
      BY <1>5, <3>1, <3>2
  <2>4. QED
    BY <2>2, <2>3
<1>7. ASSUME NEW e \in Diffs, NEW q \in shown[e] \ (saved'[e] \cup torn[e] \cup {Main})
      PROVE  Held(e, q)'
  <2>1. q \in shown[e] \ (saved[e] \cup torn[e] \cup {Main}) /\ (e = d => q # p)
    BY <1>5, <1>7
  <2>2. PICK x \in At(e) : worker[x].pc = "posted" /\ worker[x].open = q
    BY <2>1 DEF Whole, Noted, Held
  <2>3. x # w
    BY <1>1, <2>1, <2>2 DEF At, p
  <2>4. worker'[x] = worker[x] /\ x \in At(e)'
    BY <1>4, <2>2, <2>3 DEF At
  <2>5. QED
    BY <2>2, <2>4 DEF Held
<1>8. \A e \in Diffs : Noted(e)'
  BY <1>2, <1>7 DEF Noted
<1>9. \A e \in Diffs : Complete(e)'
  BY <1>2, <1>5 DEF Complete, Whole
<1>10. QED
  BY <1>6, <1>8, <1>9 DEF Whole

LEMMA StepKeepsWhole ==
  ASSUME Inv, Whole, [Next]_vars
  PROVE  Whole'
<1>0. worker \in [Workers -> Job]
  BY TypeSplit DEF Inv
<1>1. ASSUME UNCHANGED <<kept, saved, shown, rerun, worker, torn>>
      PROVE  Whole'
  BY <1>1, QuietKeepsWhole DEF SameOrQuiet
<1>2. CASE UNCHANGED vars
  BY <1>1, <1>2 DEF vars, tables, ghosts
<1>3. ASSUME NEW c \in Clients, Serve(c) \/ SubmitterDies(c)
      PROVE  Whole'
  BY <1>1, <1>3 DEF Serve, Submit, Insert, Enqueue, SubmitterDies, tables, ghosts
<1>4. ASSUME NEW d \in Diffs, HalfHour(d)
      PROVE  Whole'
  BY <1>1, <1>4 DEF HalfHour
<1>5. ASSUME NEW w \in Workers, NEW d \in Diffs, Deliver(w, d)
      PROVE  Whole'
  <2>1. UNCHANGED <<kept, saved, shown, rerun, torn>> /\ worker[w].pc = "idle"
    BY <1>5 DEF Deliver, tables, ghosts
  <2>2. \A x \in Workers : SameOrQuiet(x)
    BY <1>0, <1>5 DEF Deliver, SameOrQuiet, NoWork
  <2>3. QED
    BY <2>1, <2>2, QuietKeepsWhole
<1>6. ASSUME NEW w \in Workers, Claim(w)
      PROVE  Whole'
  <2>1. UNCHANGED <<kept, saved, shown, rerun, torn>> /\ worker[w].pc = "read"
    BY <1>6 DEF Claim, ghosts
  <2>2. \A x \in Workers : SameOrQuiet(x)
    BY <1>0, <1>6 DEF Claim, End, SameOrQuiet, NoWork, Job
  <2>3. QED
    BY <2>1, <2>2, QuietKeepsWhole
<1>7. ASSUME NEW w \in Workers, Load(w)
      PROVE  Whole'
  <2>1. UNCHANGED <<kept, saved, shown, rerun, torn>>
    BY <1>7 DEF Load, tables, ghosts
  <2>2. \A x \in Workers : SameOrQuiet(x)
    BY <1>0, <1>7 DEF Load, SameOrQuiet, Job
  <2>3. QED
    BY <2>1, <2>2, QuietKeepsWhole
<1>8. ASSUME NEW w \in Workers, NotYetPublic(w) \/ GiveUp(w) \/ Finish(w)
      PROVE  Whole'
  <2>1. UNCHANGED <<kept, saved, shown, rerun, torn>> /\ End(w)
        /\ (worker[w].pc = "posted" => worker[w].open = Main)
    BY <1>8 DEF NotYetPublic, GiveUp, Finish, ghosts
  <2>2. QED
    BY <2>1, EndIsQuiet, QuietKeepsWhole
<1>9. ASSUME NEW w \in Workers, Raise(w) \/ WorkerDies(w)
      PROVE  Whole'
  <2>1. UNCHANGED <<kept, saved, shown, rerun>> /\ End(w) /\ Tear(w) /\ worker[w].pc # "idle"
    BY <1>9 DEF Raise, WorkerDies, tables
  <2>2. QED
    BY <2>1, TearSays, EndIsQuiet, QuietKeepsWhole
<1>10. QED
  BY <1>2, <1>3, <1>4, <1>5, <1>6, <1>7, <1>8, <1>9,
     GenerateKeepsWhole, PostKeepsWhole, SaveKeepsWhole DEF Next, Work

\* A published review has its summary and its main comment, and no comment is
\* shown there whose id is lost; it has every comment if the agent ran on it
\* once, late or not (process_request_endpoint, publish_review).
THEOREM PublishedWhole == Spec => []PublishedIsWhole
<1>1. Init => Whole
  <2>1. SUFFICES ASSUME Init PROVE Whole
    OBVIOUS
  <2>2. \A w \in Workers : Carries(w)
    BY <2>1 DEF Init, NoWork, Carries
  <2>3. \A d \in Diffs : Noted(d) /\ Complete(d)
    BY <2>1 DEF Init, Noted, Complete
  <2>4. QED
    BY <2>2, <2>3 DEF Whole
<1>2. ASSUME Inv, Whole PROVE PublishedIsWhole
  <2>1. SUFFICES ASSUME NEW d \in Diffs, row[d].status = "published"
                 PROVE  /\ row[d].summary /\ Main \in shown[d]
                        /\ \A p \in shown[d] \ (saved[d] \cup torn[d] \cup {Main}) :
                             \E w \in At(d) : worker[w].pc = "posted" /\ worker[w].open = p
                        /\ d \notin rerun => kept[d] = saved[d] /\ saved[d] = shown[d] \ {Main}
    BY DEF PublishedIsWhole
  <2>2. TextsOf(d) /\ Noted(d) /\ Complete(d)
    BY <1>2 DEF Inv, Texts, Whole
  <2>3. Main \notin saved[d]
    BY <1>2, ReviewAssumption DEF Inv, TypeOK, Rows
  <2>4. QED
    BY <2>1, <2>2, <2>3 DEF TextsOf, Noted, Complete, Held
<1>3. QED
  BY <1>1, <1>2, Invariance, StepKeepsWhole, PTL DEF Spec

-----------------------------------------------------------------------------
(* The promise. *)

\* The passing of time can shake a review, and does no more.
LEMMA HalfHourKeepsPromise ==
  ASSUME Inv, NEW d \in Diffs, HalfHour(d)
  PROVE  [Promise!Next]_Promise!vars
<1>0. row \in [Diffs -> Row]
  BY TypeSplit DEF Inv
<1>1. UNCHANGED shown /\ (\A e \in Diffs : row'[e].status = row[e].status)
  BY <1>0 DEF HalfHour, Row
<1>2. Outcome' = Outcome
  BY <1>1 DEF Outcome
<1>3. CASE late' = late
  BY <1>1, <1>2, <1>3 DEF Promise!vars
<1>4. CASE late' = late \cup {d}
  <2>1. row[d].status # "absent"
    BY DEF HalfHour
  <2>2. Outcome[d] # "none"
    BY <2>1 DEF Outcome, Final
  <2>3. Promise!Shake(d)
    BY <1>1, <1>2, <1>4, <2>2 DEF Promise!Shake
  <2>4. QED
    BY <2>3 DEF Promise!Next
<1>5. QED
  BY <1>3, <1>4 DEF HalfHour

\* Every other step keeps the promise.
LEMMA OtherStepKeepsPromise ==
  ASSUME Inv, [Next]_vars, UNCHANGED late
  PROVE  [Promise!Next]_Promise!vars
<1>1. StatusStep /\ Inv'
  BY StepStatuses, StepKeeps
<1>3. CASE Unwritten
  BY <1>3 DEF Unwritten, Promise!vars, Outcome
<1> DEFINE Said(status) == CASE status = "absent" -> "none"
                             [] status \in Final  -> status
                             [] OTHER             -> "open"
<1>31. /\ Outcome = [e \in Diffs |-> Said(row[e].status)]
       /\ Outcome' = [e \in Diffs |-> Said(row'[e].status)]
  BY DEF Outcome
<1>32. /\ Said("absent") = "none" /\ Said("pending") = "open" /\ Said("processing") = "open"
       /\ Said("failed") = "failed" /\ Said("published") = "published"
  BY DEF Final
<1> HIDE DEF Said
<1>4. ASSUME NEW d \in Diffs,
             \A e \in Diffs \ {d} : row'[e].status = row[e].status
      PROVE  Outcome' = [Outcome EXCEPT ![d] = Said(row'[d].status)]
             /\ Outcome[d] = Said(row[d].status)
  BY <1>4, <1>31
<1>5. ASSUME NEW d \in Diffs,
             \A e \in Diffs \ {d} : row'[e].status = row[e].status,
             UNCHANGED shown,
             row[d].status = "absent", row'[d].status = "pending"
      PROVE  Promise!Next
  <2>1. Promise!Accept(d)
    BY <1>4, <1>5, <1>32 DEF Promise!Accept
  <2>2. QED
    BY <2>1 DEF Promise!Next
<1>6. ASSUME NEW d \in Diffs,
             \A e \in Diffs \ {d} : row'[e].status = row[e].status,
             UNCHANGED shown,
             \/ row'[d].status = row[d].status
             \/ /\ row[d].status \notin Final \cup {"absent"}
                /\ row'[d].status \in {"processing", "retry_pending"}
      PROVE  UNCHANGED Promise!vars
  BY <1>6 DEF Promise!vars, Outcome, Final
<1>7. ASSUME NEW d \in Diffs, NEW w \in Workers,
             \A e \in Diffs \ {d} : row'[e].status = row[e].status,
             UNCHANGED shown, worker[w].diff = d,
             \/ worker[w].pc = "ai" /\ row'[d].status = "failed"
             \/ worker[w].pc = "posted" /\ worker[w].open = Main /\ row'[d].status = "published"
      PROVE  Promise!Next
  <2>1. Promise!Going(d) /\ (worker[w].pc = "ai" => shown[d] = {} \/ d \in late)
    <3>1. CASE d \in late
      <4>1. row[d].status # "absent"
        BY <1>7 DEF Inv, Placed
      <4>2. QED
        BY <3>1, <4>1 DEF Promise!Going, Outcome, Final
    <3>2. CASE d \notin late
      <4>1. row[d].status = "processing" /\ (worker[w].pc = "ai" => shown[d] = {})
        BY <1>7, <3>2, AtWorkAlone DEF SoloAt, Inv, Texts, TextsOf
      <4>2. QED
        BY <1>4, <1>7, <1>32, <4>1 DEF Promise!Going
    <3>3. QED
      BY <3>1, <3>2
  <2>2. worker[w].pc = "posted" => shown[d] # {}
    BY <1>7 DEF Inv, Texts, TextsAt
  <2>3. Promise!Publish(d) \/ Promise!Fail(d)
    BY <1>4, <1>7, <1>32, <2>1, <2>2 DEF Promise!Publish, Promise!Fail
  <2>4. QED
    BY <2>3 DEF Promise!Next
<1>8. ASSUME NEW w \in Workers, NEW p \in Posts,
             worker[w].pc = "publish", UNCHANGED row,
             worker[w].diff \in Diffs, shown' = [shown EXCEPT ![worker[w].diff] = @ \cup {p}]
      PROVE  Promise!Next
  <2>1. /\ row[worker[w].diff].status # "absent"
        /\ worker[w].diff \notin late => row[worker[w].diff].status = "processing"
    BY <1>8, AtWorkAlone DEF SoloAt, Inv, Placed
  <2>2. Promise!Going(worker[w].diff) /\ UNCHANGED Outcome
    BY <1>8, <2>1 DEF Promise!Going, Outcome, Final
  <2>3. Promise!Show(worker[w].diff, p)
    BY <1>8, <2>2 DEF Promise!Show
  <2>4. QED
    BY <1>8, <2>3 DEF Promise!Next
<1>9. QED
  BY <1>1, <1>3, <1>5, <1>6, <1>7, <1>8 DEF StatusStep

LEMMA StepKeepsPromise ==
  ASSUME Inv, [Next]_vars
  PROVE  [Promise!Next]_Promise!vars
<1>1. UNCHANGED late \/ \E d \in Diffs : HalfHour(d)
  BY DEF Next, vars, ghosts, tables, Serve, Work, Submit, Insert, Enqueue, SubmitterDies, Deliver,
         Claim, Load, Generate, NotYetPublic, GiveUp, Post, SaveInline, Finish, Raise, WorkerDies
<1>2. QED
  BY <1>1, HalfHourKeepsPromise, OtherStepKeepsPromise

\* Each review is accepted once, shows its comments while it is open, ends and
\* never opens again; of a review a worker outlasted its claim at, less is
\* promised (ReviewPromise).
THEOREM PromiseKept == Spec => KeepsPromise
<1>1. Init => Promise!Init
  <2>1. SUFFICES ASSUME Init PROVE Promise!Init
    OBVIOUS
  <2>2. \A d \in Diffs : row[d].status = "absent"
    BY <2>1 DEF Init
  <2>3. Outcome = [d \in Diffs |-> "none"]
    BY <2>2 DEF Outcome, Final
  <2>4. QED
    BY <2>1, <2>3 DEF Init, Promise!Init
<1>2. QED
  BY <1>1, StepKeepsPromise, Invariance, PTL DEF Spec, KeepsPromise, Promise!Spec

=============================================================================
