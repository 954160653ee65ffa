--------------------------- MODULE MCReviewRequest ---------------------------
(***************************************************************************)
(* ReviewRequest for TLC: one diff of a revision, two submissions, two     *)
(* deliveries at a time.                                                   *)
(***************************************************************************)
EXTENDS ReviewRequest

CONSTANTS w1, w2, c1, c2
=============================================================================
