--------------------------- MODULE MCPlainTopology --------------------------
(***************************************************************************)
(* Small instances of PlainTopology.                                       *)
(***************************************************************************)
EXTENDS PlainTopology, TLC

Spec1(kind, hosts, control, proxy) ==
    [kind |-> kind, hosts |-> hosts, control |-> control, proxy |-> proxy]

\* A DM cluster on two nodes, a TiDB cluster on one of them with an HAProxy on
\* the other, which the workload wants, too.
PlanShared ==
    [dm |-> Spec1("dm", {"n1", "n2"}, "n1", "none"),
     db |-> Spec1("tidb", {"n2"}, "n2", "n1")]
MachinesShared == [n1 |-> "m1", n2 |-> "m2"]

\* A Flink cluster on a node that the workload wants, too.
PlanFlink == [fl |-> Spec1("flink", {"n1", "n2"}, "n1", "none")]
MachinesFlink == [n1 |-> "m1", n2 |-> "m1"]

\* A TiDB cluster with an HAProxy.
PlanProxy == [db |-> Spec1("tidb", {"n1"}, "n1", "n2")]
MachinesProxy == [n1 |-> "m1", n2 |-> "m1", n3 |-> "m1"]
=============================================================================
