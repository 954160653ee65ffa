---------------------------- MODULE MCBugzillaPuts ----------------------------
(***************************************************************************)
(* BugzillaPuts for TLC: every list of N actions drawn from a few kinds.   *)
(***************************************************************************)
EXTENDS BugzillaPuts

CONSTANTS b1, b2, status, cc, x, y

Unchanged == [f \in Fields |-> NoChange]
Update(b, f, c) == [type |-> "bugzilla.update_bug", bug |-> b,
                    changes |-> [Unchanged EXCEPT ![f] = c]]
Comment(b) == [type |-> "bugzilla.add_comment", bug |-> b, changes |-> Unchanged]
Create == [type |-> "bugzilla.create_bug", bug |-> NoBug, changes |-> Unchanged]

To(v)      == [keep |-> {}, add |-> {v}]
With(v)    == [keep |-> Elements, add |-> {v}]
Without(v) == [keep |-> Elements \ {v}, add |-> {}]

\* A scalar and a list field, two bugs.
SomeActions ==
  {Update(b1, status, To(x)), Update(b1, status, To(y)),
   Update(b1, cc, With(x)), Update(b1, cc, With(y)), Update(b1, cc, Without(x)), Update(b1, cc, To(y)),
   Update(b2, cc, With(x)), Comment(b1), Comment(b2), Create}
=============================================================================
