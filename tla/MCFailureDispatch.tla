--------------------------- MODULE MCFailureDispatch ---------------------------
(***************************************************************************)
(* FailureDispatch for TLC: two pushes; a manifest broken by the first     *)
(* stays broken on the second, which has two failing test tasks; a build   *)
(* task fails on the first.                                                *)
(***************************************************************************)
EXTENDS FailureDispatch

CONSTANTS p1, p2, t1, t2, t3, b1, m1, m2, suite

OnPush   == [t \in Tasks |-> IF t \in {t2, t3} THEN p2 ELSE p1]
ByKind   == [t \in Tasks |-> IF t = b1 THEN "build-repair" ELSE "test-repair"]
Broken   == [t \in Tasks |-> IF t \in {t1, t3} THEN {m1} ELSE IF t = t2 THEN {m1, m2} ELSE {}]
OneSuite == [t \in Tasks |-> suite]
=============================================================================
