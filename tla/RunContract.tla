---------------------------- MODULE RunContract -----------------------------
(***************************************************************************)
(* What hackbot-api promises of a run, whatever finalizes it: the row is   *)
(* opened once, settled once with a verdict that stands, and announced at  *)
(* most once, after it is settled and with that verdict.  When two         *)
(* sessions hold an open run at once the promise is void.                  *)
(***************************************************************************)
EXTENDS Naturals

CONSTANTS Runs, Verdicts, NoVerdict

VARIABLES phase, verdict, announced

contractVars == <<phase, verdict, announced>>

Init ==
  /\ phase = [r \in Runs |-> "absent"]
  /\ verdict = [r \in Runs |-> NoVerdict]
  /\ announced = [r \in Runs |-> 0]

Open(r) ==
  /\ phase[r] = "absent"
  /\ phase' = [phase EXCEPT ![r] = "open"]
  /\ UNCHANGED <<verdict, announced>>

Settle(r) ==
  /\ phase[r] = "open"
  /\ phase' = [phase EXCEPT ![r] = "settled"]
  /\ \E v \in Verdicts : verdict' = [verdict EXCEPT ![r] = v]
  /\ UNCHANGED announced

Announce(r) ==
  /\ phase[r] = "settled"
  /\ announced[r] = 0
  /\ announced' = [announced EXCEPT ![r] = 1]
  /\ UNCHANGED <<phase, verdict>>

Void(S) ==
  /\ S # {} /\ \A r \in S : phase[r] = "open"
  /\ phase' = [r \in Runs |-> IF r \in S THEN "void" ELSE phase[r]]
  /\ UNCHANGED <<verdict, announced>>

Next ==
  \/ \E r \in Runs : Open(r) \/ Settle(r) \/ Announce(r)
  \/ \E S \in SUBSET Runs : Void(S)

Spec == Init /\ [][Next]_contractVars
=============================================================================
