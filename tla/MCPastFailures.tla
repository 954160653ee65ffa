---------------------------- MODULE MCPastFailures ----------------------------
(* Batches of two pushes and a window of a few batches; a manifest that was  *)
(* an *.ini file and became a *.toml file, and a file beside it.             *)
EXTENDS PastFailures

CONSTANTS ini, toml, other

HalfTrains == <<1, 2>>
OneMoves == [t \in {toml} |-> ini]
SomeChanges == {{ini, other}, {toml}, {ini, toml}}

===============================================================================
