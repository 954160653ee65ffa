----------------------------- MODULE BugzillaPuts -----------------------------
(***************************************************************************)
(* One pass of _apply_pending_rows over a run's recorded actions, all of   *)
(* which succeed: whatever the actions are, the coalesced PUTs must do     *)
(* what the actions say.  The names differ from those of ActionsApplier,   *)
(* so that one module of proofs can be about both.                         *)
(***************************************************************************)
EXTENDS Coalescing

CONSTANTS
  Length,      \* how many actions the run recorded
  Recordable,  \* what an agent records, its references aside
  RefLimit     \* a bound: how many earlier results an action refers to

ASSUME PutsAssumption ==
  /\ Length \in Nat \ {0} /\ RefLimit \in Nat
  /\ \A a \in Recordable :
       a.type # "bugzilla.update_bug" => a.changes = [f \in Fields |-> NoChange]

VARIABLES
  actions,  \* summary.actions
  unsent,   \* units still to be dispatched
  sent,     \* how often each action was dispatched
  bugs      \* the bugs' fields, in Bugzilla

putsVars == <<actions, unsent, sent, bugs>>

Positions == 1..Length

Fresh == [b \in Bugs |-> [f \in Fields |-> {}]]

RefSets(i) == {R \in SUBSET (1..(i - 1)) : Cardinality(R) <= RefLimit}
References == {r \in [Positions -> SUBSET Positions] : \A i \in Positions : r[i] \in RefSets(i)}

PutsInit ==
  /\ \E what \in [Positions -> Recordable], refs \in References :
       actions = [i \in Positions |-> [type |-> what[i].type, bug |-> what[i].bug,
                                       changes |-> what[i].changes, refs |-> refs[i]]]
  /\ unsent = Units(actions, Positions)
  /\ sent = [i \in Positions |-> 0]
  /\ bugs = Fresh

\* Only a bug's updates and comments are PUTs to an existing bug.
Put(b, u) == AfterPut(bugs[b], MergeResolved(actions, u))

Send(u) ==
  /\ unsent' = unsent \ {u}
  /\ sent' = [i \in Positions |-> IF i \in u THEN sent[i] + 1 ELSE sent[i]]
  /\ bugs' = [b \in Bugs |-> IF \E i \in u : actions[i].bug = b THEN Put(b, u) ELSE bugs[b]]
  /\ UNCHANGED actions

PutsNext == unsent # {} /\ Send(NextUnit(unsent))

PutsSpec == PutsInit /\ [][PutsNext]_putsVars

-----------------------------------------------------------------------------
\* The bugs when every action is sent on its own, in the order recorded.
Plainly ==
  LET after[k \in 0..Length] ==
        IF k = 0 THEN Fresh
        ELSE [b \in Bugs |-> IF actions[k].bug = b THEN AfterPut(after[k - 1][b], actions[k].changes)
                             ELSE after[k - 1][b]]
  IN after[Length]

\* Those of S that change a field of a bug.
Writers(S, b, f) == {i \in S : actions[i].bug = b /\ actions[i].changes[f] # NoChange}

\* The last change of a field in one PUT replaces others of it, although it was
\* to add to what they left or to take from it.
Overwritten(b, f) ==
  \E u \in Units(actions, Positions) :
    /\ Cardinality(Writers(u, b, f)) > 1
    /\ actions[Max(Writers(u, b, f))].changes[f].keep # {}

\* Every action takes effect once, whether it was merged, rides with an update
\* or stays alone: the plan is a partition, and as one PUT carries one comment
\* and concerns one bug, no comment is swallowed.
EachOnce ==
  /\ \A i \in Positions : sent[i] <= 1 /\ (unsent = {} => sent[i] = 1)
  /\ \A u \in unsent :
       /\ Cardinality({i \in u : actions[i].type = "bugzilla.add_comment"}) <= 1
       /\ Cardinality(u) > 1 => \A i, j \in u : actions[i].bug = actions[j].bug

\* "a group applies at its last member, once every earlier (backward)
\* dependency is resolved": what is sent next awaits no result, neither of a
\* unit that is still to be sent nor of its own members.
DependenciesFirst ==
  unsent # {} => \A i \in NextUnit(unsent) : actions[i].refs \cap UNION unsent = {}

\* Fields end up as if every recorded change had been sent on its own, whatever
\* was merged in between, and a field's last change is always in force ("all the
\* bug's field changes merged (later writes win)").  Of a list field, two updates
\* of which are merged and the last adds or removes, only the latter is true: the
\* earlier changes are lost, against that docstring.
SameOutcome ==
  unsent = {} => \A b \in Bugs, f \in Fields :
    /\ ~Overwritten(b, f) => bugs[b][f] = Plainly[b][f]
    /\ Writers(Positions, b, f) # {} =>
         LET last == actions[Max(Writers(Positions, b, f))].changes[f]
         IN last.add \subseteq bugs[b][f] /\ bugs[b][f] \ last.add \subseteq last.keep
=============================================================================
