----------------------------- MODULE MCTopology -----------------------------
(***************************************************************************)
(* A small instance of ClusterTopology.                                    *)
(***************************************************************************)
EXTENDS ClusterTopology, TLC

Base == [version |-> 1, conf |-> 1, patch |-> "Patch", fixed |-> 1, entry |-> 1,
         db |-> {"n1"}, kv |-> {"n1", "n2"}]

\* An upgrade, a new configuration, a TiDB more, a TiKV less, one change in
\* each direction, a TiKV moved to another host, and changes of what may not
\* be changed.
Specs8 ==
    {Base,
     [Base EXCEPT !.version = 2],
     [Base EXCEPT !.conf = 2],
     [Base EXCEPT !.db = {"n1", "n3"}],
     [Base EXCEPT !.kv = {"n1"}],
     [Base EXCEPT !.db = {"n1", "n3"}, !.kv = {"n1"}],
     [Base EXCEPT !.kv = {"n1", "n3"}],
     [Base EXCEPT !.patch = "Replace", !.fixed = 2, !.entry = 2]}

First2 == {Base, [Base EXCEPT !.patch = "Replace", !.fixed = 2, !.entry = 2]}
=============================================================================
