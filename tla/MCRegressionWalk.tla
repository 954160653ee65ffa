-------------------------- MODULE MCRegressionWalk --------------------------
(* One failure with two ancestors, or two with one: the case a walk over  *)
(* several units adds is that one is decided before the other.            *)
EXTENDS RegressionWalk

CONSTANTS u1, MaxRecords

Small ==
    /\ Init
    /\ u1 \in units /\ (units # {u1} => chain < MaxDepth)
    /\ \A a \in Ancestors : a > chain => ~open[a]

\* No more than MaxRecords different results are recorded.
Few == Cardinality({<<a, u, r>> \in Ancestors \X Units \X Outcomes :
                       r \in recorded[a][u]}) <= MaxRecords

SmallSpec == Small /\ [][Next /\ Few']_vars /\ WF_vars(Walk)

=============================================================================
