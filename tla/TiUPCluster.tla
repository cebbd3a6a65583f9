----------------------------- MODULE TiUPCluster ----------------------------
(***************************************************************************)
(* The TiDB cluster of a topology as tiup keeps it on the control node,    *)
(* and the commands of package cluster on it.  tiup is external: a command *)
(* is modelled by what the code expects of it.                             *)
(*                                                                         *)
(* cl.db and cl.kv are the hosts in tiup's meta file, cl.inst the          *)
(* instances there are on the nodes.  A TiKV that is scaled in stays until *)
(* its regions have moved (cl.off), and then as a tombstone (cl.tomb) that *)
(* prune takes away.                                                       *)
(***************************************************************************)
EXTENDS TopologyWebhook

VARIABLE cl

NoCluster ==
    [st |-> "none", version |-> None, conf |-> None, patched |-> FALSE,
     db |-> {}, kv |-> {}, off |-> {}, tomb |-> {}, inst |-> {}]

\* The instances of a specification, or of the meta file.
Instances(s) == ({"db"} \X s.db) \cup ({"kv"} \X s.kv)

ClusterTypeOK ==
    /\ cl.st \in {"none", "deployed", "up"}
    /\ cl.version \in {s.version : s \in Specs} \cup {None}
    /\ cl.conf \in {s.conf : s \in Specs} \cup {None}
    /\ cl.patched \in BOOLEAN
    /\ cl.db \subseteq Node /\ cl.kv \subseteq Node
    /\ cl.off \subseteq cl.kv /\ cl.tomb \subseteq cl.kv /\ cl.off \cap cl.tomb = {}
    /\ cl.inst \subseteq {"db", "kv"} \X Node

\* The cluster is what s asks for, and nothing else is on the nodes.
Matches(s) ==
    /\ cl.st = "up" /\ cl.version = s.version /\ cl.conf = s.conf
    /\ cl.db = s.db /\ cl.kv = s.kv /\ cl.off = {} /\ cl.tomb = {}
    /\ cl.inst = Instances(s)

----------------------------------------------------------------------------
(* What has changed between the deployed specification and the new one.     *)

IsUpgraded(pre, cur) == pre.version # cur.version

IsConfigModified(pre, cur) == pre.conf # cur.conf

IsClusterConfigModified(pre, cur) == pre # cur

\* Seeded fault: the instances that stay are scaled in.
ScaleInNodes_Wrong(pre, cur) == Instances(pre) \cap Instances(cur)

ScaleInNodes(pre, cur) == Instances(pre) \ Instances(cur)

ScaleOutRoles(pre, cur) == Instances(cur) \ Instances(pre)

----------------------------------------------------------------------------
(* InstallCluster.                                                          *)

\* A cluster of this name that is there already is no error, whatever it was
\* deployed from.
DeployCluster(s) ==
    cl' = IF cl.st = "none"
          THEN [NoCluster EXCEPT !.st = "deployed", !.version = s.version, !.conf = s.conf,
                                 !.db = s.db, !.kv = s.kv, !.inst = Instances(s)]
          ELSE cl

StartCluster == cl' = [cl EXCEPT !.st = "up"]

\* Binaries are exchanged where policy is the one of s: replaced before the
\* start, patched after it.
ExchangeBinaries(s, policy) ==
    cl' = IF s.patch = policy THEN [cl EXCEPT !.patched = TRUE] ELSE cl

----------------------------------------------------------------------------
(* Updates.                                                                 *)

UpgradeCluster(s) == cl' = [cl EXCEPT !.version = s.version]

\* UpdateCluster moves a meta file made from the specification over tiup's
\* own before it reloads.
ReloadCluster(s) ==
    cl' = [cl EXCEPT !.version = s.version, !.conf = s.conf, !.db = s.db, !.kv = s.kv,
                     !.off = @ \cap s.kv, !.tomb = @ \cap s.kv]

ReloadFails(s) == ~(Instances(s) \subseteq cl.inst)

\* tiup refuses a node that is not in its meta file.
ScaleInFails(pre, s) == ~(ScaleInNodes(pre, s) \subseteq Instances(cl))

ScaleInCluster(pre, s) ==
    LET goes(role) == {h \in Node : <<role, h>> \in ScaleInNodes(pre, s)} IN
    cl' = [cl EXCEPT !.db = @ \ goes("db"),
                     !.inst = @ \ ({"db"} \X goes("db")),
                     !.off = @ \cup (goes("kv") \ cl.tomb)]

\* tiup refuses an instance that is there already.
ScaleOutFails(pre, s) == ScaleOutRoles(pre, s) \cap Instances(cl) # {}

ScaleOutCluster(pre, s) ==
    cl' = [cl EXCEPT !.db = @ \cup (s.db \ pre.db), !.kv = @ \cup (s.kv \ pre.kv),
                     !.inst = @ \cup ScaleOutRoles(pre, s)]

\* The regions of a TiKV that is going have moved.
StoreMoved(h) ==
    /\ h \in cl.off
    /\ cl' = [cl EXCEPT !.off = @ \ {h}, !.tomb = @ \cup {h}]

GetNodeStatusList == cl.off

PruneCluster ==
    cl' = [cl EXCEPT !.kv = @ \ cl.tomb, !.inst = @ \ ({"kv"} \X cl.tomb), !.tomb = {}]

UninstallCluster == cl' = NoCluster
=============================================================================
