--------------------------- MODULE TopologyWebhook --------------------------
(***************************************************************************)
(* Which updates of a TestClusterTopology the admission webhook accepts:   *)
(* ValidateUpdate compares the new specification of a TiDB cluster with    *)
(* Status.PreTiDBCluster, the one that was deployed last.                  *)
(*                                                                         *)
(* A specification names the version, the server configuration, whether    *)
(* and how binaries are exchanged after the installation, and the hosts of *)
(* the TiDB and of the TiKV instances (PD is treated as TiDB is).  fixed   *)
(* stands for the components whose update is not supported, entry for what *)
(* the entries of the instances say besides the host.                      *)
(***************************************************************************)
EXTENDS Integers, FiniteSets

CONSTANTS
    Node,       \* names of the TestResources of the request
    Control,    \* the node that tiup runs on
    Specs,      \* the specifications users may apply
    None        \* no specification

ASSUME TopologyAssumption ==
    /\ Control \in Node
    /\ None \notin Specs
    /\ \A s \in Specs :
          /\ DOMAIN s = {"version", "conf", "patch", "fixed", "entry", "db", "kv"}
          /\ s.patch \in {"none", "Replace", "Patch"}
          /\ s.db \subseteq Node /\ IsFiniteSet(s.db)
          /\ s.kv \subseteq Node /\ IsFiniteSet(s.kv)

AllHosts(s) == s.db \cup s.kv \cup {Control}

\* Both this package and the package cluster decide by the lengths of the
\* lists, whatever is in them.
IsScaleIn(pre, cur) ==
    Cardinality(pre.db) > Cardinality(cur.db) \/ Cardinality(pre.kv) > Cardinality(cur.kv)

IsScaleOut(pre, cur) ==
    Cardinality(pre.db) < Cardinality(cur.db) \/ Cardinality(pre.kv) < Cardinality(cur.kv)

IsScale(pre, cur) == IsScaleIn(pre, cur) \/ IsScaleOut(pre, cur)

IsServerConfigModified(pre, cur) == pre.conf # cur.conf

IsUpgrade(pre, cur) == pre.version # cur.version

checkUnsupportedComponentsChanged(pre, cur) == pre.fixed = cur.fixed

\* The directories and ports of an instance that stays are in entry.
checkImmutableFieldChanged(pre, cur) ==
    pre.db \cap cur.db # {} \/ pre.kv \cap cur.kv # {} => pre.entry = cur.entry

checkAtMostOneKindUpdation(pre, cur) ==
    /\ IsScale(pre, cur) => ~IsServerConfigModified(pre, cur) /\ ~IsUpgrade(pre, cur)
    /\ IsServerConfigModified(pre, cur) => ~IsUpgrade(pre, cur)

checkVersionDownloadURLModified(pre, cur) == (pre.patch = "none") <=> (cur.patch = "none")

\* With the same numbers one host in common is enough.
checkSimultaneousScaleOutAndScaleIn(pre, cur) ==
    /\ ~(IsScaleIn(pre, cur) /\ IsScaleOut(pre, cur))
    /\ \/ IsScale(pre, cur)
       \/ /\ pre.db = {} \/ pre.db \cap cur.db # {}
          /\ pre.kv = {} \/ pre.kv \cap cur.kv # {}

\* validateTiDBUpdate of the stored object o, with its status, towards the
\* specification cur.  Nothing is compared before o.pre is set.
validateTiDBUpdate(o, cur) ==
    o.pre # None =>
        /\ checkUnsupportedComponentsChanged(o.pre, cur)
        /\ checkAtMostOneKindUpdation(o.pre, cur)
        /\ checkImmutableFieldChanged(o.pre, cur)
        /\ checkVersionDownloadURLModified(o.pre, cur)
        /\ checkSimultaneousScaleOutAndScaleIn(o.pre, cur)
        /\ IsScaleIn(o.pre, cur) => o.offline = {}
=============================================================================
