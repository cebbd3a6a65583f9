----------------------------- MODULE MCWorkloads ----------------------------
(***************************************************************************)
(* Small instances of Workloads.                                           *)
(***************************************************************************)
EXTENDS Workloads, TLC

Run(n, i) == [node |-> n, image |-> i]

\* Two workloads, one of which wants two nodes, the second one shared.
Workload2 == {"w1", "w2"}
JobsShared == [w1 |-> <<Run("n1", "i1"), Run("n2", "i1")>>, w2 |-> <<Run("n2", "i2")>>]

\* Two workloads on one node.
JobsSame == [w1 |-> <<Run("n1", "i1")>>, w2 |-> <<Run("n1", "i2")>>]

\* One workload on one node.
Workload1 == {"w1"}
JobsOne == [w1 |-> <<Run("n1", "i1")>>]
=============================================================================
