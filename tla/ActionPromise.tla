---------------------------- MODULE ActionPromise ----------------------------
(***************************************************************************)
(* What hackbot-api promises of a run's recorded actions, however many     *)
(* deliveries and apply-alls there are: an action takes effect only while  *)
(* it is claimed, it is settled as done only if it took effect, and what   *)
(* is done is never touched again.  An action that is claimed again while  *)
(* a living claimant is still at it is void: nothing is promised of it.    *)
(***************************************************************************)
EXTENDS Naturals

CONSTANT Idx

VARIABLES
  phase,  \* "open", "busy" under a claim, "done", "void"
  times   \* how often the action took effect: 0, 1, or 2 for more than once

promiseVars == <<phase, times>>

Init ==
  /\ phase = [i \in Idx |-> "open"]
  /\ times = [i \in Idx |-> 0]

\* A claim takes a set of actions S, a takeover included, some of them, V, from
\* a claimant that is still at work.
Begin(S, V) ==
  /\ S # {} /\ \A i \in S : phase[i] # "done"
  /\ \A i \in V : phase[i] = "busy"
  /\ phase' = [i \in Idx |-> CASE i \in V -> "void"
                                [] i \in S \ V /\ phase[i] # "void" -> "busy"
                                [] OTHER -> phase[i]]
  /\ UNCHANGED times

Perform(S) ==
  /\ S # {} /\ \A i \in S : phase[i] \in {"busy", "void"}
  /\ times' = [i \in Idx |-> IF i \in S /\ times[i] < 2 THEN times[i] + 1 ELSE times[i]]
  /\ UNCHANGED phase

Settles(S, result) ==
  /\ S # {} /\ \A i \in S : phase[i] \in {"busy", "void"}
  /\ phase' = [i \in Idx |-> IF i \in S /\ phase[i] = "busy" THEN result ELSE phase[i]]
  /\ UNCHANGED times

Settle(S) == Settles(S, "open") \/ (Settles(S, "done") /\ \A i \in S : times[i] > 0)

Next == \E S \in SUBSET Idx : (\E V \in SUBSET S : Begin(S, V)) \/ Perform(S) \/ Settle(S)

Spec == Init /\ [][Next]_promiseVars
=============================================================================
