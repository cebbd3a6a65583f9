----------------------------- MODULE MCProcChaos ----------------------------
(***************************************************************************)
(* Small instances of ProcChaos, with two ticks in a second.               *)
(***************************************************************************)
EXTENDS ProcChaos, TLC

Once(nodes) == [once |-> TRUE, period |-> 0, nodes |-> nodes]
Every(p, nodes) == [once |-> FALSE, period |-> p, nodes |-> nodes]

\* A task without a period between two with periods of one and one and a half
\* seconds.
TasksMixed == <<Every(2, {"n1"}), Once({"n1"}), Every(3, {"n1", "n2"})>>

\* One task without a period.
TasksOnce == <<Once({"n1"})>>

\* A period of half a second.
TasksShort == <<Every(1, {"n1"})>>
=============================================================================
