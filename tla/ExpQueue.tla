------------------------------- MODULE ExpQueue -------------------------------
(***************************************************************************)
(* bugbug/utils.py, ExpQueue: the values of a counter on the last MaxLen   *)
(* days.  A day may be read unless it is before the first of them, and     *)
(* written unless it is before the last; a later one moves the window.     *)
(* What a day is depends on the user: for past failures, a batch of        *)
(* pushes.                                                                 *)
(***************************************************************************)
EXTENDS Integers, FiniteSetsExt

CONSTANT MaxLen

ASSUME MaxLenAssumption == MaxLen \in Nat \ {0}

Newest == MaxLen - 1
Slots == 0 .. Newest

NewQueue(day, default) ==
  [start |-> day - Newest, list |-> [i \in Slots |-> default], default |-> default]

LastDay(q) == q.start + Newest

\* The assertion of __getitem__.  The one of __setitem__ is that no day before the
\* last is set.
Readable(q, day) == day >= q.start

ValueAt(q, day) ==
  IF day < 0 THEN q.default
  ELSE q.list[Min({day, LastDay(q)}) - q.start]

\* Mutant of Appended: one more than the days passed.
AppendedTooMany(gap) == Min({gap, MaxLen}) + 1

\* How many elements the deque gains when the last day moves by gap: copies of
\* the last value, two fewer than the days passed, and the new value.
Appended(gap) == Max({Min({gap, MaxLen}) - 2, 0}) + 1

SetDay(q, day, value) ==
  IF day = LastDay(q)
    THEN [q EXCEPT !.list[Newest] = value]
    ELSE LET moved == Appended(day - LastDay(q))
             Shifted(i) == q.list[Min({i + moved, Newest})]
         IN [q EXCEPT !.start = day - Newest,
                      !.list = [i \in Slots |-> IF i = Newest THEN value ELSE Shifted(i)]]

===============================================================================
