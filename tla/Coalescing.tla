------------------------------ MODULE Coalescing ------------------------------
(***************************************************************************)
(* How hackbot-api merges a run's same-bug Bugzilla actions into single    *)
(* PUTs: plan_coalesced_groups and merge_resolved                          *)
(* (action_handlers/bugzilla_handler.py), and the order in which           *)
(* _apply_pending_rows (actions_applier.py) sends what comes of it.        *)
(* An operator takes the recorded actions A, a function from their indices *)
(* to records, and the set P of the indices still to be applied.           *)
(***************************************************************************)
EXTENDS Integers, FiniteSets, FiniteSetsExt

CONSTANTS
  Bugs,      \* bug ids
  NoBug,     \* the bug_id of an action that names none
  Fields,    \* fields of a bug that an update may change
  Elements,  \* what a field may hold; a scalar field holds one
  NoChange   \* an update leaves the field alone

ASSUME CoalescingAssumption == NoBug \notin Bugs

\* What Bugzilla makes of a field: keep some of its elements and add others.
\* A scalar's new value keeps none; a list's {"add": [x]} keeps all.
Change == [keep : SUBSET Elements, add : SUBSET Elements]

ActionType == {"bugzilla.update_bug", "bugzilla.add_comment", "bugzilla.create_bug",
               "phabricator.submit_patch", "slack.post_message", "email.send"}

\* A recorded action: refs are the earlier actions whose results its params
\* name in {{actions.<id>.<field>}} placeholders.
IsAction(a, i) ==
  /\ a.type \in ActionType
  /\ a.bug \in Bugs \cup {NoBug}
  /\ a.refs \subseteq 1..(i - 1)
  /\ a.changes \in [Fields -> Change \cup {NoChange}]
  /\ a.type # "bugzilla.update_bug" => a.changes = [f \in Fields |-> NoChange]

Updates(A, P, b)  == {i \in P : A[i].type = "bugzilla.update_bug" /\ A[i].bug = b}
Comments(A, P, b) == {i \in P : A[i].type = "bugzilla.add_comment" /\ A[i].bug = b}

\* Distances are counted in the list of pending actions, not in indices.
Place(P, i) == Cardinality({j \in P : j < i})
Gap(P, i, j) == IF i < j THEN Place(P, j) - Place(P, i) ELSE Place(P, i) - Place(P, j)

\* The comment nearest to any of the updates, the earliest of the nearest.
ClosestComment(A, P, b) ==
  LET Near(c) == Min({Gap(P, c, u) : u \in Updates(A, P, b)})
  IN CHOOSE c \in Comments(A, P, b) : \A d \in Comments(A, P, b) :
       Near(c) < Near(d) \/ (Near(c) = Near(d) /\ c <= d)

\* A bug's updates and the one comment that rides with them.
Group(A, P, b) ==
  Updates(A, P, b) \cup
    (IF Comments(A, P, b) = {} THEN {} ELSE {ClosestComment(A, P, b)})

PlanCoalescedGroups(A, P) ==
  {G \in {Group(A, P, b) : b \in {c \in Bugs : Updates(A, P, c) # {}}} :
     Cardinality(G) >= 2}

Referenced(A, P) == UNION {A[i].refs : i \in P}

\* Mutant of Units: groups stay together though a member's result is awaited.
AllGroups(A, P) ==
  LET groups == PlanCoalescedGroups(A, P)
  IN groups \cup {{i} : i \in P \ UNION groups}

\* Mutant of Units: a group claims its bug, and the bug's other comments with it.
WholeBugs(A, P) ==
  LET groups == {Updates(A, P, b) \cup Comments(A, P, b) : b \in {c \in Bugs : Updates(A, P, c) # {}}}
      kept   == {G \in groups : G \cap Referenced(A, P) = {}}
  IN kept \cup {{i} : i \in P \ UNION kept}

\* What is dispatched at once: the groups none of whose members another
\* pending action refers to, and every other action on its own.
Units(A, P) ==
  LET groups == {G \in PlanCoalescedGroups(A, P) : G \cap Referenced(A, P) = {}}
  IN groups \cup {{i} : i \in P \ UNION groups}

\* A group is sent at its last member.
NextUnit(units) == CHOOSE u \in units : \A v \in units : Max(u) <= Max(v)

\* Mutant of MergeResolved: the first write to a field wins.
MergeFirst(A, G) ==
  [f \in Fields |->
     LET writers == {i \in G : A[i].changes[f] # NoChange}
     IN IF writers = {} THEN NoChange ELSE A[Min(writers)].changes[f]]

\* The changes of the one PUT: per field, those of the last update that has it.
MergeResolved(A, G) ==
  [f \in Fields |->
     LET writers == {i \in G : A[i].changes[f] # NoChange}
     IN IF writers = {} THEN NoChange ELSE A[Max(writers)].changes[f]]

\* The bug's fields after a PUT with these changes (external: Bugzilla).
AfterPut(bug, changes) ==
  [f \in Fields |-> IF changes[f] = NoChange THEN bug[f]
                    ELSE (bug[f] \cap changes[f].keep) \cup changes[f].add]
=============================================================================
