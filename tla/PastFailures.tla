----------------------------- MODULE PastFailures -----------------------------
(***************************************************************************)
(* The failure history behind bugbug's test selection.                     *)
(*                                                                         *)
(* scripts/test_scheduling_history_retriever.py numbers the pushes of      *)
(* autoland.  Some it skips; for the others test_scheduling.py reads, per  *)
(* runnable and per item of the push (a file, a directory, a component),   *)
(* how often the two met in a regression so far and in the last weeks, and *)
(* then counts the push's own regressions.  The counts are kept by batches *)
(* of pushes, in an ExpQueue; a *.toml file that has none reads that of    *)
(* the *.ini file of its name, and goes on with it.  The trained model is  *)
(* evaluated on the last pushes saved, each with the counts as they were   *)
(* shortly before it, and the service asks for the counts of a push to     *)
(* come.                                                                   *)
(*                                                                         *)
(* A generation may end after any push, so every state is one a model is   *)
(* evaluated in, or a service asks in.                                     *)
(***************************************************************************)
EXTENDS ExpQueue, Sequences

CONSTANTS
  Batch,       \* pushes of a batch, 100
  Timespan,    \* HISTORICAL_TIMESPAN, 4500 pushes
  Lookbacks,   \* the windows of the features, 700, 1400 and 2800 pushes
  Month,       \* the longest of them, PAST_FAILURES_LOOKBACK_MONTH
  Runnables,
  Items,
  Ini,         \* of *.toml files, the *.ini file of the same name; none by labels
  Changes,     \* a bound: the sets of items that a push touches
  TrainShare,  \* the part of the saved pushes to train on, <<9, 10>>
  MaxPushes,   \* bound on the pushes
  None

ASSUME PastFailuresAssumption ==
  /\ Batch \in Nat \ {0} /\ Timespan \in Nat /\ Month \in Lookbacks
  /\ \A back \in Lookbacks : back \in Nat /\ back <= Month
  /\ Month % Batch = 0 /\ Month + Batch <= Timespan
  /\ MaxLen = Timespan \div Batch + 1
  /\ IsFiniteSet(Runnables) /\ IsFiniteSet(Items)
  /\ DOMAIN Ini \subseteq Items /\ Ini \in [DOMAIN Ini -> Items \ DOMAIN Ini]
  /\ \A t, u \in DOMAIN Ini : Ini[t] = Ini[u] => t = u
  /\ Changes \subseteq SUBSET Items
  /\ TrainShare[1] \in Nat /\ TrainShare[2] \in Nat \ {0}
  /\ MaxPushes \in Nat

Queue == [start : Int, list : [Slots -> Nat], default : {0}]

ASSUME NoneAssumption == None \notin Queue

VARIABLES
  push_num,   \* the number of the last push, 0 .. MaxPushes
  db,         \* [Runnables -> [Items -> Queue \cup {None}]]
  shared,     \* the *.toml files that have their *.ini file's queue object, until the
              \* cache in front of db is written: [Runnables -> SUBSET DOMAIN Ini]
  saved,      \* the numbers of the pushes in the history, oldest first
  met,        \* ghost: the set of regressions, <<push, runnable, item>>
  skipped     \* ghost: the set of pushes that were numbered and skipped

vars == <<push_num, db, shared, saved, met, skipped>>

Init ==
  /\ push_num = 0
  /\ db = [r \in Runnables |-> [i \in Items |-> None]]
  /\ shared = [r \in Runnables |-> {}]
  /\ saved = <<>> /\ met = {} /\ skipped = {}

-------------------------------------------------------------------------------
(* Reading                                                                   *)

\* round(n / 100): half a batch goes to the even neighbour.
Rounded(n) ==
  LET down == n \div Batch  rest == 2 * (n % Batch)
  IN  IF rest > Batch \/ (rest = Batch /\ down % 2 = 1) THEN down + 1 ELSE down

Toml == DOMAIN Ini

\* Where PastFailures.get finds the queue of an item.  "Fallback on INI if the
\* group is now TOML" looks at the end of the key, which is the item.
Cell(r, i) == IF i \in Toml /\ db[r][i] = None THEN Ini[i] ELSE i
Find(r, i) == db[r][Cell(r, i)]

\* What _read_and_update_past_failures reads of a queue as of push n: the
\* count so far, and the part of it within a lookback.
Total(q, n) == ValueAt(q, Rounded(n))
Within(q, n, back) == Total(q, n) - ValueAt(q, Rounded(n - back))

\* The sums over the items of a push; an item without a queue adds nothing.
Known(r, items) == {i \in items : Find(r, i) # None}
TotalOf(r, items, n) == SumFunction([i \in Known(r, items) |-> Total(Find(r, i), n)])
WithinOf(r, items, n, back) ==
  SumFunction([i \in Known(r, items) |-> Within(Find(r, i), n, back)])

-------------------------------------------------------------------------------
(* Generating                                                                *)

\* Mutant of Counted: a queue that was missing is counted from zero.
CountedLate(q, n, times) ==
  IF q = None THEN NewQueue(Rounded(n), 0)
  ELSE SetDay(q, Rounded(n), Total(q, n) + times)

\* A regression in push n, of as many items as use the queue; the first one
\* makes the queue.
Counted(q, n, times) ==
  LET queue == IF q = None THEN NewQueue(Rounded(n), 0) ELSE q
  IN  SetDay(queue, Rounded(n), Total(queue, n) + times)

\* The *.toml files of a push that fall back: their *.ini file has a queue, or
\* was given its first one by this push, before them in the list of files.
FallBack(r, items, regressed, later) ==
  {t \in items \cap Toml :
     /\ db[r][t] = None
     /\ db[r][Ini[t]] # None \/ (r \in regressed /\ Ini[t] \in items /\ t \in later)}

\* The items of a push whose queue is that of i.
Users(i, items, falling) ==
  {u \in items : i = IF u \in falling THEN Ini[u] ELSE u}

\* A push without known commits, from wpt-sync, too large or without runnables.
Skip ==
  /\ push_num < MaxPushes
  /\ push_num' = push_num + 1
  /\ skipped' = skipped \cup {push_num + 1}
  /\ UNCHANGED <<db, shared, saved, met>>

\* A push that touches items, with the runnables it regressed and those that
\* passed, which are read only.  Pushes are saved from some date on.
Push(items, regressed, passed, later, recent) ==
  /\ push_num < MaxPushes
  /\ saved # <<>> => recent
  /\ LET n == push_num + 1
         falling == [r \in Runnables |-> FallBack(r, items, regressed, later)]
     IN
       /\ push_num' = n
       /\ db' = [r \in Runnables |-> [i \in Items |->
                   LET users == Users(i, items, falling[r]) IN
                   IF r \in regressed /\ users # {} THEN Counted(db[r][i], n, Cardinality(users))
                                                    ELSE db[r][i]]]
       /\ shared' = [r \in Runnables |->
                       IF r \in regressed \cup passed THEN shared[r] \cup falling[r] ELSE shared[r]]
       /\ saved' = IF recent THEN Append(saved, n) ELSE saved
       /\ met' = met \cup ({n} \X regressed \X items)
  /\ UNCHANGED skipped

\* The cache is written, every 250 pushes and when a generation ends: what was
\* one object is stored under each of its keys.
Sync ==
  /\ db' = [r \in Runnables |-> [i \in Items |->
              IF i \in shared[r] THEN db[r][Ini[i]] ELSE db[r][i]]]
  /\ shared' = [r \in Runnables |-> {}]
  /\ UNCHANGED <<push_num, saved, met, skipped>>

Next ==
  \/ Skip
  \/ Sync
  \/ \E items \in Changes, regressed, passed \in SUBSET Runnables, recent \in BOOLEAN,
        later \in SUBSET Toml :
       Push(items, regressed, passed, later, recent)

Spec == Init /\ [][Next]_vars

-------------------------------------------------------------------------------
(* Evaluating: TestSelectModel.evaluation                                    *)

TrainLen == (TrainShare[1] * Len(saved)) \div TrainShare[2]
Tests == TrainLen + 1 .. Len(saved)

\* Mutant of AskedAs: the number of the push itself.
AskedAsItself(k) == push_num - (Len(saved) - k)

\* The number a test push is taken to have, less a batch "to make sure we
\* don't use past failure data for the push itself".
AskedAs(k) == push_num - (Len(saved) - k) - Batch

\* The test pushes whose longest lookback is still in every queue.
Evaluated ==
  LET start_day_max == Rounded(push_num) - Timespan \div Batch
  IN  {k \in Tests : AskedAs(k) >= (start_day_max + Month \div Batch) * Batch}

-------------------------------------------------------------------------------
(* Properties                                                                *)

Upcoming == push_num + 1
MetBefore(r, items, n) == Cardinality({m \in met : m[1] < n /\ m[2] = r /\ m[3] \in items})
MetAfterBatch(r, items, batch) ==
  Cardinality({m \in met : Rounded(m[1]) > batch /\ m[2] = r /\ m[3] \in items})

\* The *.ini files of the *.toml files among items, and the other way round.
Counterparts(items) ==
  {Ini[t] : t \in items \cap Toml} \cup {t \in Toml : Ini[t] \in items}
MetWithThem(r, items, n) == MetBefore(r, items, n) + MetBefore(r, Counterparts(items), n)

\* The number of failures so far that a push to come is given is the number of
\* regressions seen, whatever batches had none: nothing is lost or counted
\* twice as the window moves.  Only the failures of a *.toml file and those of
\* the *.ini file it has replaced may be given for one another.
TotalsExact ==
  \A r \in Runnables, items \in SUBSET Items :
    /\ TotalOf(r, items, Upcoming) >= MetBefore(r, items, Upcoming)
    /\ TotalOf(r, items, Upcoming) <= MetWithThem(r, items, Upcoming)

\* The failures of the last pushes that a push is given include all those of
\* the window, which is still in every counter.  They may include older ones:
\* "we need to extend the list except for 2 elements" is one copy short of the
\* batches that pass, so that a gap moves what was counted before it to a later
\* batch, and never to an earlier one.
WindowsMissNothing ==
  \A r \in Runnables, items \in SUBSET Items, back \in Lookbacks :
    /\ WithinOf(r, items, Upcoming, back) >= MetAfterBatch(r, items, Rounded(Upcoming - back))
    /\ \A i \in Known(r, items) : Readable(Find(r, i), Rounded(Upcoming - back))

NoLeak(k) ==
  \A r \in Runnables, items \in SUBSET Items :
    TotalOf(r, items, AskedAs(k)) <= MetWithThem(r, items, saved[k])

\* The longest lookback of a push that is evaluated is still in every counter.
InRange(k) ==
  \A r \in Runnables, i \in Items :
    Find(r, i) # None => Readable(Find(r, i), Rounded(AskedAs(k) - Month))

\* The evaluation gives a push no failures of that push or of a later one ("make
\* sure we don't use past failure data for the push itself"), and asks nothing
\* that is no longer kept; unless a push after it was skipped, or its number is in
\* the middle of a batch, where round goes to the even neighbour.
LeaksHaveTwoCauses ==
  \A k \in Evaluated :
    /\ InRange(k)
    /\ \/ NoLeak(k)
       \/ \E n \in skipped : n > saved[k]
       \/ 2 * (saved[k] % Batch) = Batch

===============================================================================
