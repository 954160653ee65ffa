---------------------------- MODULE MCCommitRefresh ----------------------------
(* A first day, of the image and of one commit, and a second day.  All commits *)
(* have something in common.                                                   *)
EXTENDS CommitRefresh

TwoDays == [n \in Nodes |-> IF n <= 3 THEN 1 ELSE 2]
AllAlike == Nodes \X Nodes

===============================================================================
