--------------------------- MODULE MCActionsApplier ---------------------------
(***************************************************************************)
(* ActionsApplier for TLC: the agents of app/agents.py that differ in      *)
(* their policy, and a few runs' worth of recorded actions.                *)
(***************************************************************************)
EXTENDS ActionsApplier, TLC

CONSTANTS s1, s2, b1, status, v

Symmetry == Permutations(Sessions)

Spec1(auto, consent, always, never) ==
  [auto_apply_actions |-> auto, auto_apply_requires_consent |-> consent,
   always_apply_actions |-> always, never_apply_actions |-> never]

BugFix         == Spec1(TRUE, FALSE, {}, {})
FrontendTriage == Spec1(TRUE, TRUE, {"slack.post_message"}, {})
TestRepair     == Spec1(FALSE, FALSE, {"slack.post_message", "email.send"}, {})
\* never_apply_actions, which no registered agent sets yet.
Careful        == Spec1(FALSE, FALSE, {"bugzilla.update_bug", "bugzilla.add_comment"},
                        {"bugzilla.add_comment"})
\* One that submits its patches itself and leaves what names them to a person.
Submitter      == Spec1(FALSE, FALSE, {"phabricator.submit_patch"}, {})

Trusted    == {BugFix}
Triage     == {FrontendTriage}
EveryAgent == {NoSpec, BugFix, FrontendTriage, TestRepair, Careful, Submitter}

Unchanged == [f \in Fields |-> NoChange]
Act(type, bug, refs) == [type |-> type, bug |-> bug, refs |-> refs, changes |-> Unchanged]
Update == [type |-> "bugzilla.update_bug", bug |-> b1, refs |-> {},
           changes |-> [Unchanged EXCEPT ![status] = [keep |-> {}, add |-> {v}]]]

\* A patch, and an update of the bug merged with a comment that names the patch.
Repaired == <<Act("phabricator.submit_patch", b1, {}), Update, Act("bugzilla.add_comment", b1, {1})>>

\* A patch, and a notice that names it.
Patched == <<Act("phabricator.submit_patch", b1, {}), Act("slack.post_message", NoBug, {1})>>
=============================================================================
