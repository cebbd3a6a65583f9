---------------------------- MODULE ClusterProofs ---------------------------
(***************************************************************************)
(* For every set of specifications, with any number of changes, faults and *)
(* deletions: a topology that has gone has left no cluster; and, when no   *)
(* user changes a topology that is not settled, a topology that says so is *)
(* deployed, every store that is going is tracked, and no instance that is *)
(* wanted goes.                                                            *)
(*                                                                         *)
(* The worker reads the topology from a cache, so it may repeat a whole    *)
(* installation or update that has been done and noted already.  The       *)
(* invariant relates four things: the object, the cluster it has led to so *)
(* far, the older version that the cache may show, and the version that    *)
(* the worker is at.                                                       *)
(***************************************************************************)
EXTENDS ClusterTopology, FiniteSetTheorems, TLAPS

KPc == {"idle", "prune", "pruned", "uninstalled"} \cup InstallSteps \cup UpdateSteps

Versions == {s.version : s \in Specs} \cup {None}
Confs == {s.conf : s \in Specs} \cup {None}

Cluster ==
    [st : {"none", "deployed", "up"}, version : Versions, conf : Confs, patched : BOOLEAN,
     db : SUBSET Node, kv : SUBSET Node, off : SUBSET Node, tomb : SUBSET Node,
     inst : SUBSET ({"db", "kv"} \X Node)]

KWorker == [pc : KPc, seen : TopologyObject, obj : TopologyObject]

Types ==
    /\ cl \in Cluster
    /\ topo \in TopologyObject /\ view \in TopologyObject
    /\ request \in {"pending", "ready", "absent"}
    /\ nodes \in [Node -> {"free", "starting", "up", "down", "gone"}]
    /\ kw \in KWorker
    /\ hasty \in BOOLEAN

\* The worker is in the middle of an installation, an update or a prune.
Busy == kw.pc \notin {"idle", "uninstalled"}

\* The cache shows a topology that is there to stay.
Following == view.fin /\ ~view.del

Life ==
    /\ topo.state = "absent" => ~topo.fin
    /\ topo.del => topo.fin
    /\ ~topo.fin => topo.state \in {"absent", Unset}
    /\ topo.state # "absent" => topo.spec \in Specs
    /\ view.fin => view.spec \in Specs

\* What the cache shows may be old, but is of the same topology.
Lag ==
    /\ Following => topo.fin
    /\ view.del /\ topo.fin => topo.del

\* The copies of a worker are of a topology that is there to stay.
Copied ==
    /\ kw.obj.spec \in Specs /\ kw.obj.state # "absent" /\ kw.obj.fin
    /\ kw.seen.fin /\ ~kw.seen.del /\ ~kw.obj.del

\* The topology that the worker is at keeps its finalizer.
Working ==
    /\ Busy => topo.fin /\ request # "pending" /\ Copied
    /\ kw.pc = "uninstalled" => cl = NoCluster /\ ~Following /\ (topo.fin => topo.del)

\* When there is no cluster.
Empty ==
    /\ ~topo.fin \/ request # "ready" => cl = NoCluster
    /\ request = "absent" => \A h \in Node : nodes[h] = "gone"
    /\ request = "pending" =>
          topo.state \notin {"ready", "updating"} /\ view.state \notin {"ready", "updating"}

LifeInv == Types /\ Life /\ Lag /\ Working /\ Empty

----------------------------------------------------------------------------
\* Lemma: the state of a new object is none that the controller gives.
LEMMA UnsetIsNone == Unset \notin {"absent", "pending", "ready", "updating"}
  BY DEF Unset

\* Lemma: the bound on versions is a number.
LEMMA MaxGenIsNat == MaxGen \in Nat
  BY ClusterTopologyAssumption

\* Lemma: a topology that is gone, or new, is an object.
LEMMA NewIsObject ==
    ASSUME NEW st \in {"absent", Unset}, NEW s \in Specs \cup {None}, NEW g \in 0 .. MaxGen
    PROVE /\ NewTopology(st, s, g) \in TopologyObject
          /\ NewTopology(st, s, g).state = st /\ NewTopology(st, s, g).spec = s
          /\ ~NewTopology(st, s, g).fin /\ ~NewTopology(st, s, g).del
          /\ NewTopology(st, s, g).pre = None /\ ~NewTopology(st, s, g).scaling
  BY DEF NewTopology, TopologyObject

\* Lemma: the same of the one that is gone.
LEMMA AbsentIsObject ==
    ASSUME NEW g \in 0 .. MaxGen
    PROVE /\ Absent(g) \in TopologyObject /\ Absent(g).state = "absent"
          /\ ~Absent(g).fin /\ ~Absent(g).del
  BY NewIsObject DEF Absent

\* Lemma: no cluster is a cluster.
LEMMA NoClusterIsCluster ==
    /\ NoCluster \in Cluster
    /\ NoCluster.off = {} /\ NoCluster.tomb = {} /\ NoCluster.st = "none"
    /\ NoCluster.db = {} /\ NoCluster.kv = {} /\ NoCluster.inst = {} /\ ~NoCluster.patched
  BY DEF NoCluster, Cluster, Versions, Confs

\* Lemma: a worker whose call ends is idle.
LEMMA ReturnEffect ==
    ASSUME kw' = KIdle
    PROVE kw' \in KWorker /\ kw'.pc = "idle"
  <1>1. 0 \in 0 .. MaxGen
    BY MaxGenIsNat
  <1>2. Absent(0) \in TopologyObject
    BY <1>1, AbsentIsObject
  <1> QED
    BY <1>2 DEF KIdle, Worker, KWorker, KPc

\* Lemma: a worker that goes on keeps its copies.
LEMMA GotoEffect ==
    ASSUME Types, NEW pc \in KPc, Goto(pc)
    PROVE kw' \in KWorker /\ kw'.pc = pc /\ kw'.obj = kw.obj /\ kw'.seen = kw.seen
  BY DEF Types, Goto, KWorker

\* Lemma: a worker that takes up a topology has it as its copies.
LEMMA WorkerEffect ==
    ASSUME NEW pc \in KPc, NEW seen \in TopologyObject, NEW obj \in TopologyObject,
           kw' = Worker(pc, seen, obj)
    PROVE kw' \in KWorker /\ kw'.pc = pc /\ kw'.obj = obj /\ kw'.seen = seen
  BY DEF Worker, KWorker

\* Lemma: what a specification asks for can be had.
LEMMA SpecFields ==
    ASSUME NEW s \in Specs
    PROVE /\ s.version \in Versions /\ s.conf \in Confs
          /\ s.db \in SUBSET Node /\ s.kv \in SUBSET Node
          /\ Instances(s) \in SUBSET ({"db", "kv"} \X Node)
          /\ IsFiniteSet(s.db) /\ IsFiniteSet(s.kv)
          /\ s.patch \in {"none", "Replace", "Patch"} /\ s # None
  <1>1. /\ s.db \subseteq Node /\ s.kv \subseteq Node /\ IsFiniteSet(s.db) /\ IsFiniteSet(s.kv)
        /\ s.patch \in {"none", "Replace", "Patch"} /\ s # None
    BY TopologyAssumption
  <1> QED
    BY <1>1 DEF Versions, Confs, Instances

\* Lemma: the invariant holds initially.
LEMMA LifeInvInit == ASSUME Init PROVE LifeInv
  <1>1. 0 \in 0 .. MaxGen
    BY MaxGenIsNat
  <1>2. PICK a : a = Absent(0)
    OBVIOUS
  <1>3. a \in TopologyObject /\ a.state = "absent" /\ ~a.fin /\ ~a.del
    BY <1>1, <1>2, AbsentIsObject
  <1>4. topo = a /\ view = a
    BY <1>2 DEF Init, ControllerInit
  <1>5. kw \in KWorker /\ kw.pc = "idle"
    BY <1>2, <1>3 DEF Init, ControllerInit, KIdle, Worker, KWorker, KPc
  <1>6. cl = NoCluster /\ cl \in Cluster /\ request = "pending" /\ hasty = FALSE
    BY NoClusterIsCluster DEF Init, ControllerInit
  <1>7. Types
    BY <1>3, <1>4, <1>5, <1>6 DEF Types, Init, ControllerInit
  <1> QED
    BY <1>3, <1>4, <1>5, <1>6, <1>7
    DEF LifeInv, Life, Lag, Working, Empty, Busy, Following

----------------------------------------------------------------------------
(* LifeInv: steps of the worker on the cluster.                             *)

\* Lemma: a command runs while the request is ready.
LEMMA CommandRuns ==
    ASSUME LifeInv, Busy, NodesUp
    PROVE request = "ready" /\ topo.fin
  <1>1. Control \in Node /\ Control \in AllHosts(NewSpec)
    BY TopologyAssumption DEF AllHosts
  <1>2. nodes[Control] = "up"
    BY <1>1 DEF NodesUp
  <1> QED
    BY <1>1, <1>2 DEF LifeInv, Types, Working, Empty

\* Lemma: the invariant is kept when the worker goes on or ends its call, and
\* changes the cluster by a command only.
LEMMA CommandKeeps ==
    ASSUME LifeInv, Busy, cl' \in Cluster, cl' = cl \/ NodesUp,
           UNCHANGED <<topo, view, request, nodes, hasty>>,
           kw' \in KWorker, kw'.pc # "uninstalled",
           kw'.pc = "idle" \/ (kw'.obj = kw.obj /\ kw'.seen = kw.seen)
    PROVE LifeInv'
  <1>1. cl' = cl \/ (request = "ready" /\ topo.fin)
    BY CommandRuns
  <1>2. Types' /\ Life' /\ Lag'
    BY DEF LifeInv, Types, Life, Lag, Following
  <1>3. Working'
    BY DEF LifeInv, Working, Busy, Copied
  <1>4. Empty'
    BY <1>1 DEF LifeInv, Empty
  <1> QED
    BY <1>2, <1>3, <1>4 DEF LifeInv

\* Lemma: every command leaves a cluster.
LEMMA CommandTypes ==
    ASSUME LifeInv, NEW s \in Specs,
           \/ DeployCluster(s) \/ StartCluster
           \/ \E policy \in {"Replace", "Patch"} : ExchangeBinaries(s, policy)
           \/ UpgradeCluster(s) \/ ReloadCluster(s) \/ PruneCluster
    PROVE cl' \in Cluster
  <1>1. cl \in Cluster
    BY DEF LifeInv, Types
  <1>2. CASE DeployCluster(s)
    <2>1. NoCluster \in Cluster
      BY NoClusterIsCluster
    <2>2. PICK n : n = NoCluster
      OBVIOUS
    <2>3. PICK i : i = Instances(s)
      OBVIOUS
    <2>4. /\ s.version \in Versions /\ s.conf \in Confs
          /\ s.db \in SUBSET Node /\ s.kv \in SUBSET Node /\ i \in SUBSET ({"db", "kv"} \X Node)
      BY <2>3, SpecFields
    <2>5. cl' = cl \/ cl' = [n EXCEPT !.st = "deployed", !.version = s.version, !.conf = s.conf,
                                       !.db = s.db, !.kv = s.kv, !.inst = i]
      BY <1>2, <2>2, <2>3 DEF DeployCluster
    <2> QED
      BY <1>1, <2>1, <2>2, <2>4, <2>5 DEF Cluster
  <1>3. CASE StartCluster
    BY <1>1, <1>3 DEF StartCluster, Cluster
  <1>4. CASE \E policy \in {"Replace", "Patch"} : ExchangeBinaries(s, policy)
    BY <1>1, <1>4 DEF ExchangeBinaries, Cluster
  <1>5. CASE UpgradeCluster(s)
    <2>1. s.version \in Versions
      BY SpecFields
    <2> QED
      BY <1>1, <1>5, <2>1 DEF UpgradeCluster, Cluster
  <1>6. CASE ReloadCluster(s)
    <2>1. s.version \in Versions /\ s.conf \in Confs /\ s.db \in SUBSET Node /\ s.kv \in SUBSET Node
      BY SpecFields
    <2>2. PICK o, t : o = cl.off \cap s.kv /\ t = cl.tomb \cap s.kv
      OBVIOUS
    <2>3. o \in SUBSET Node /\ t \in SUBSET Node
      BY <2>1, <2>2
    <2>4. cl' = [cl EXCEPT !.version = s.version, !.conf = s.conf, !.db = s.db, !.kv = s.kv,
                           !.off = o, !.tomb = t]
      BY <1>1, <1>6, <2>2 DEF ReloadCluster, Cluster
    <2> QED
      BY <1>1, <2>1, <2>3, <2>4 DEF Cluster
  <1>7. CASE PruneCluster
    <2>1. PICK k, i : k = cl.kv \ cl.tomb /\ i = cl.inst \ ({"kv"} \X cl.tomb)
      OBVIOUS
    <2>2. k \in SUBSET Node /\ i \in SUBSET ({"db", "kv"} \X Node)
      BY <1>1, <2>1 DEF Cluster
    <2>3. cl' = [cl EXCEPT !.kv = k, !.inst = i, !.tomb = {}]
      BY <1>1, <1>7, <2>1 DEF PruneCluster, Cluster
    <2> QED
      BY <1>1, <2>2, <2>3 DEF Cluster
  <1> QED
    BY <1>2, <1>3, <1>4, <1>5, <1>6, <1>7

\* The hosts of a role that go.
Goes(p, s, role) == {h \in Node : <<role, h>> \in ScaleInNodes(p, s)}

\* Lemma: what a scale-in does to the cluster.
LEMMA ScaleInEffect ==
    ASSUME Types, NEW p, NEW s, ScaleInCluster(p, s)
    PROVE /\ cl' \in Cluster
          /\ cl'.st = cl.st /\ cl'.version = cl.version /\ cl'.conf = cl.conf
          /\ cl'.patched = cl.patched
          /\ cl'.db = cl.db \ Goes(p, s, "db") /\ cl'.kv = cl.kv
          /\ cl'.off = cl.off \cup (Goes(p, s, "kv") \ cl.tomb) /\ cl'.tomb = cl.tomb
          /\ cl'.inst = cl.inst \ ({"db"} \X Goes(p, s, "db"))
  <1>1. PICK d, i, o : /\ d = cl.db \ Goes(p, s, "db")
                       /\ i = cl.inst \ ({"db"} \X Goes(p, s, "db"))
                       /\ o = cl.off \cup (Goes(p, s, "kv") \ cl.tomb)
    OBVIOUS
  <1>2. cl \in Cluster
    BY DEF Types
  <1>3. Goes(p, s, "kv") \subseteq Node
    BY DEF Goes
  <1>4. d \in SUBSET Node /\ i \in SUBSET ({"db", "kv"} \X Node) /\ o \in SUBSET Node
    BY <1>1, <1>2, <1>3 DEF Cluster
  <1>5. cl' = [cl EXCEPT !.db = d, !.inst = i, !.off = o]
    BY <1>1, <1>2 DEF ScaleInCluster, Goes, Cluster
  <1> QED
    BY <1>1, <1>2, <1>4, <1>5 DEF Cluster

\* Lemma: what a scale-out does to the cluster.
LEMMA ScaleOutEffect ==
    ASSUME Types, NEW p, NEW s \in Specs, ScaleOutCluster(p, s)
    PROVE /\ cl' \in Cluster
          /\ cl'.st = cl.st /\ cl'.version = cl.version /\ cl'.conf = cl.conf
          /\ cl'.patched = cl.patched
          /\ cl'.db = cl.db \cup (s.db \ p.db) /\ cl'.kv = cl.kv \cup (s.kv \ p.kv)
          /\ cl'.off = cl.off /\ cl'.tomb = cl.tomb
          /\ cl'.inst = cl.inst \cup ScaleOutRoles(p, s)
  <1>1. PICK d, k, i : /\ d = cl.db \cup (s.db \ p.db) /\ k = cl.kv \cup (s.kv \ p.kv)
                       /\ i = cl.inst \cup ScaleOutRoles(p, s)
    OBVIOUS
  <1>2. cl \in Cluster
    BY DEF Types
  <1>3. /\ s.db \in SUBSET Node /\ s.kv \in SUBSET Node
        /\ Instances(s) \in SUBSET ({"db", "kv"} \X Node)
    BY SpecFields
  <1>4. d \in SUBSET Node /\ k \in SUBSET Node
    BY <1>1, <1>2, <1>3 DEF Cluster
  <1>5. i \in SUBSET ({"db", "kv"} \X Node)
    <2>1. ScaleOutRoles(p, s) \subseteq Instances(s)
      BY DEF ScaleOutRoles
    <2>2. cl.inst \in SUBSET ({"db", "kv"} \X Node)
      BY <1>2 DEF Cluster
    <2> QED
      BY <1>1, <1>3, <2>1, <2>2
  <1>6. cl' = [cl EXCEPT !.db = d, !.kv = k, !.inst = i]
    BY <1>1, <1>2 DEF ScaleOutCluster, Cluster
  <1> QED
    BY <1>1, <1>2, <1>4, <1>5, <1>6 DEF Cluster

\* Lemma: what happens to the cluster when the regions of a store have moved.
LEMMA StoreMovedEffect ==
    ASSUME Types, NEW h \in Node, StoreMoved(h)
    PROVE /\ cl' \in Cluster /\ h \in cl.off
          /\ cl'.st = cl.st /\ cl'.version = cl.version /\ cl'.conf = cl.conf
          /\ cl'.patched = cl.patched /\ cl'.inst = cl.inst
          /\ cl'.db = cl.db /\ cl'.kv = cl.kv
          /\ cl'.off = cl.off \ {h} /\ cl'.tomb = cl.tomb \cup {h}
  <1>1. PICK o, t : o = cl.off \ {h} /\ t = cl.tomb \cup {h}
    OBVIOUS
  <1>2. cl \in Cluster
    BY DEF Types
  <1>3. o \in SUBSET Node /\ t \in SUBSET Node
    BY <1>1, <1>2 DEF Cluster
  <1>4. cl' = [cl EXCEPT !.off = o, !.tomb = t]
    BY <1>1, <1>2 DEF StoreMoved, Cluster
  <1> QED
    BY <1>1, <1>2, <1>3, <1>4 DEF Cluster, StoreMoved

\* The steps of a call that do not write the topology.
CallGoesOn ==
    \/ Deploy \/ Replace \/ Start \/ Patch
    \/ Upgrade \/ Reload \/ ScaleIn \/ ScaleOut \/ Skip \/ Prune

\* Lemma: such a step leaves a cluster, and the worker at a next step with its
\* copies, or idle.
LEMMA CallGoesOnEffect ==
    ASSUME LifeInv, CallGoesOn
    PROVE /\ UNCHANGED <<topo, view, request, nodes>>
          /\ Busy /\ cl' \in Cluster /\ (cl' = cl \/ NodesUp)
          /\ kw' \in KWorker /\ kw'.pc # "uninstalled"
          /\ kw'.pc = "idle" \/ (kw'.obj = kw.obj /\ kw'.seen = kw.seen)
  <1>1. UNCHANGED <<topo, view, request, nodes>>
    BY DEF CallGoesOn, Deploy, Replace, Start, Patch, Upgrade, Reload, ScaleIn, ScaleOut, Skip,
           Prune
  <1>2. Busy
    BY DEF CallGoesOn, Deploy, Replace, Start, Patch, Upgrade, Reload, ScaleIn, ScaleOut, Skip,
           Prune, At, Busy
  <1>3. Skip \/ NodesUp
    BY DEF CallGoesOn, Deploy, Replace, Start, Patch, Upgrade, Reload, ScaleIn, ScaleOut,
           Prune, At
  <1>4. PICK s : s = kw.obj.spec
    OBVIOUS
  <1>5. s \in Specs /\ Types
    BY <1>2, <1>4 DEF LifeInv, Working, Copied
  <1>6. cl' \in Cluster /\ (cl' = cl \/ NodesUp)
    <2>1. CASE Skip
      BY <1>5, <2>1 DEF Skip, Types
    <2>2. CASE Deploy \/ Replace \/ Start \/ Patch \/ Upgrade \/ Reload \/ Prune
      <3>1. \/ DeployCluster(s) \/ StartCluster
            \/ \E policy \in {"Replace", "Patch"} : ExchangeBinaries(s, policy)
            \/ UpgradeCluster(s) \/ ReloadCluster(s) \/ PruneCluster
        BY <1>4, <2>2 DEF Deploy, Replace, Start, Patch, Upgrade, Reload, Prune, NewSpec
      <3> QED
        BY <1>3, <1>5, <2>2, <3>1, CommandTypes DEF Skip
    <2>3. CASE ScaleIn
      BY <1>3, <1>5, <2>3, ScaleInEffect DEF ScaleIn, Skip
    <2>4. CASE ScaleOut
      BY <1>3, <1>4, <1>5, <2>4, ScaleOutEffect DEF ScaleOut, Skip, NewSpec
    <2> QED
      BY <2>1, <2>2, <2>3, <2>4 DEF CallGoesOn
  <1>7. Return \/ \E pc \in KPc \ {"uninstalled"} : Goto(pc)
    BY DEF CallGoesOn, Deploy, Replace, Start, Patch, Upgrade, Reload, ScaleIn, ScaleOut, Skip,
           Prune, KPc, InstallSteps, UpdateSteps
  <1>8. /\ kw' \in KWorker /\ kw'.pc # "uninstalled"
        /\ kw'.pc = "idle" \/ (kw'.obj = kw.obj /\ kw'.seen = kw.seen)
    BY <1>5, <1>7, ReturnEffect, GotoEffect DEF Return
  <1> QED
    BY <1>1, <1>2, <1>6, <1>8

\* Lemma: LifeInv is kept by it.
LEMMA CallGoesOnKeeps == ASSUME LifeInv, CallGoesOn, UNCHANGED hasty PROVE LifeInv'
  BY CallGoesOnEffect, CommandKeeps

\* The steps that give nodes their images, which may end the call.
NodesGiven == InitForInstall \/ InitForScaleOut

\* Lemma: LifeInv is kept when nodes change, but for one that is gone, and the
\* worker goes on or ends its call.
LEMMA NodesKeep ==
    ASSUME LifeInv, UNCHANGED <<cl, topo, view, request, hasty>>,
           nodes' \in [Node -> {"free", "starting", "up", "down", "gone"}],
           \A h \in Node : nodes[h] = "gone" => nodes'[h] = "gone",
           kw' = kw \/ (kw' \in KWorker /\ kw'.pc = "idle")
    PROVE LifeInv'
  <1>1. Types' /\ Life' /\ Lag'
    BY DEF LifeInv, Types, Life, Lag, Following
  <1>2. Working' /\ Empty'
    BY DEF LifeInv, Working, Busy, Copied, Following, Empty
  <1> QED
    BY <1>1, <1>2 DEF LifeInv

\* Lemma: so it is when nodes are given images.
LEMMA NodesGivenKeeps ==
    ASSUME LifeInv, NodesGiven, UNCHANGED hasty
    PROVE LifeInv'
  <1>1. UNCHANGED <<cl, topo, view, request>> /\ (kw' = kw \/ kw' = KIdle)
    BY DEF NodesGiven, InitForInstall, InitForScaleOut, Return
  <1>2. kw' = kw \/ (kw' \in KWorker /\ kw'.pc = "idle")
    BY <1>1, ReturnEffect
  <1>3. PICK s : InitNodes(s)
    BY DEF NodesGiven, InitForInstall, InitForScaleOut
  <1>4. PICK given \in SUBSET Free(s) :
          nodes' = [h \in Node |-> IF h \in given THEN "starting" ELSE nodes[h]]
    BY <1>3 DEF InitNodes
  <1>5. \A h \in given : nodes[h] = "free"
    BY <1>4 DEF Free
  <1>6. /\ nodes' \in [Node -> {"free", "starting", "up", "down", "gone"}]
        /\ \A h \in Node : nodes[h] = "gone" => nodes'[h] = "gone"
    BY <1>4, <1>5 DEF LifeInv, Types
  <1> QED
    BY <1>1, <1>2, <1>6, NodesKeep

----------------------------------------------------------------------------
(* LifeInv: steps that write the topology.                                  *)

\* Lemma: LifeInv is kept when a topology that stays is written.
LEMMA TopologyWritten ==
    ASSUME LifeInv, NEW o \in TopologyObject, topo' = o, UNCHANGED <<cl, view, request, nodes>>,
           hasty' \in BOOLEAN, kw' \in KWorker,
           o.fin, o.state # "absent", o.spec \in Specs, topo.del => o.del,
           topo.fin \/ (kw.pc = "idle" /\ ~view.del),
           request = "pending" => o.state \notin {"ready", "updating"},
           \/ kw' = kw \/ kw'.pc = "idle"
           \/ kw'.pc # "uninstalled" /\ request # "pending" /\ Copied'
    PROVE LifeInv'
  <1>1. Types' /\ Life'
    BY DEF LifeInv, Types, Life
  <1>2. Lag'
    BY DEF LifeInv, Lag, Following
  <1>3. Working'
    BY DEF LifeInv, Working, Busy, Copied, Following
  <1>4. Empty'
    BY DEF LifeInv, Empty
  <1> QED
    BY <1>1, <1>2, <1>3, <1>4 DEF LifeInv

\* Lemma: LifeInv is kept when a topology without finalizer comes or goes.
LEMMA TopologyReplaced ==
    ASSUME LifeInv, NEW o \in TopologyObject, topo' = o, UNCHANGED <<cl, view, request, nodes>>,
           hasty' = hasty, ~o.fin, ~o.del, o.state \in {"absent", Unset},
           o.state # "absent" => o.spec \in Specs,
           \/ kw' = kw /\ ~topo.fin
           \/ kw' \in KWorker /\ kw'.pc = "idle" /\ ~Following /\ cl = NoCluster
    PROVE LifeInv'
  <1>1. Types' /\ Life'
    BY UnsetIsNone DEF LifeInv, Types, Life
  <1>2. Lag' /\ Working'
    BY DEF LifeInv, Lag, Following, Working, Busy, Copied
  <1>3. Empty'
    BY UnsetIsNone DEF LifeInv, Empty
  <1> QED
    BY <1>1, <1>2, <1>3 DEF LifeInv

\* The writes of a worker that has just read the topology.
Reads ==
    AddFinalizer \/ BeginPending \/ FirstPre \/ BeginUpdating

\* Lemma: what they write.
LEMMA ReadsEffect ==
    ASSUME LifeInv, Reads
    PROVE /\ UNCHANGED <<cl, view, request, nodes, kw>>
          /\ kw.pc = "idle" /\ view = topo /\ ~topo.del
          /\ topo' \in TopologyObject /\ topo'.fin /\ ~topo'.del /\ topo'.spec = topo.spec
          /\ topo'.scaling = topo.scaling
          /\ AddFinalizer =>
                topo'.state = topo.state /\ topo'.pre = topo.pre /\ topo.state # "absent" /\ ~topo.fin
          /\ BeginPending =>
                topo'.state = "pending" /\ topo'.pre = topo.pre /\ topo.state = Unset /\ topo.fin
          /\ FirstPre =>
                topo'.state = topo.state /\ topo'.pre = topo.spec /\ topo.state = "ready"
                /\ topo.pre = None /\ topo.fin
          /\ BeginUpdating =>
                topo'.state = "updating" /\ topo'.pre = topo.pre /\ topo.state = "ready"
                /\ topo.pre # None /\ topo.pre # topo.spec /\ topo.fin
  <1> DEFINE Common == /\ UNCHANGED <<cl, view, request, nodes, kw>>
                       /\ kw.pc = "idle" /\ view = topo /\ ~topo.del
                       /\ topo' \in TopologyObject /\ topo'.fin /\ ~topo'.del
                       /\ topo'.spec = topo.spec /\ topo'.scaling = topo.scaling
  <1>1. topo \in TopologyObject
    BY DEF LifeInv, Types
  <1>2. ASSUME AddFinalizer
        PROVE Common /\ topo'.state = topo.state /\ topo'.pre = topo.pre /\ topo.state # "absent"
              /\ ~topo.fin
    <2>1. topo' = [topo EXCEPT !.fin = TRUE] /\ view = topo
      BY <1>2 DEF AddFinalizer, UpdateTopology
    <2> QED
      BY <1>1, <1>2, <2>1 DEF AddFinalizer, TopologyObject
  <1>3. ASSUME BeginPending
        PROVE Common /\ topo'.state = "pending" /\ topo'.pre = topo.pre /\ topo.state = Unset
              /\ topo.fin
    <2>1. topo' = [topo EXCEPT !.state = "pending"] /\ view = topo
      BY <1>3 DEF BeginPending, UpdateTopology
    <2> QED
      BY <1>1, <1>3, <2>1 DEF BeginPending, Reconciling, TopologyObject
  <1>4. ASSUME FirstPre
        PROVE Common /\ topo'.state = topo.state /\ topo'.pre = topo.spec /\ topo.state = "ready"
              /\ topo.pre = None /\ topo.fin
    <2>1. topo' = [topo EXCEPT !.pre = topo.spec] /\ view = topo
      BY <1>4 DEF FirstPre, UpdateTopology
    <2> QED
      BY <1>1, <1>4, <2>1 DEF FirstPre, Reconciling, TopologyObject
  <1>5. ASSUME BeginUpdating
        PROVE Common /\ topo'.state = "updating" /\ topo'.pre = topo.pre /\ topo.state = "ready"
              /\ topo.pre # None /\ topo.pre # topo.spec /\ topo.fin
    <2>1. topo' = [topo EXCEPT !.state = "updating"] /\ view = topo
      BY <1>5 DEF BeginUpdating, UpdateTopology
    <2> QED
      BY <1>1, <1>5, <2>1 DEF BeginUpdating, Reconciling, TopologyObject, IsClusterConfigModified
  <1> HIDE DEF Common
  <1>6. Common
    BY <1>2, <1>3, <1>4, <1>5 DEF Reads
  <1>7. UNCHANGED <<cl, view, request, nodes, kw>> /\ kw.pc = "idle" /\ view = topo /\ ~topo.del
        /\ topo' \in TopologyObject /\ topo'.fin /\ ~topo'.del /\ topo'.spec = topo.spec
        /\ topo'.scaling = topo.scaling
    BY <1>6 DEF Common
  <1> QED
    BY <1>2, <1>3, <1>4, <1>5, <1>7

\* Lemma: LifeInv is kept by them.
LEMMA ReadsKeep == ASSUME LifeInv, Reads, UNCHANGED hasty PROVE LifeInv'
  <1>1. /\ UNCHANGED <<cl, view, request, nodes, kw>>
        /\ kw.pc = "idle" /\ view = topo /\ ~topo.del
        /\ topo' \in TopologyObject /\ topo'.fin /\ topo'.spec = topo.spec
    BY ReadsEffect
  <1>2. topo.state # "absent" /\ topo'.state # "absent"
        /\ (topo'.state \in {"ready", "updating"} => topo.state \in {"ready", "updating"})
    BY ReadsEffect, UnsetIsNone DEF LifeInv, Life, Reads
  <1>3. topo.spec \in Specs /\ kw \in KWorker /\ hasty \in BOOLEAN
        /\ (request = "pending" => topo'.state \notin {"ready", "updating"})
    BY <1>2 DEF LifeInv, Life, Types, Empty
  <1>4. PICK o : o = topo'
    OBVIOUS
  <1> QED
    BY <1>1, <1>2, <1>3, <1>4, TopologyWritten

\* Lemma: what the check of a scale-in writes, and where it leads.
LEMMA CheckScaleInEffect ==
    ASSUME LifeInv, CheckScaleIn
    PROVE /\ UNCHANGED <<cl, view, request, nodes>>
          /\ kw.pc = "idle" /\ view = topo /\ topo.fin /\ ~topo.del /\ topo.state = "ready"
          /\ topo.pre = topo.spec /\ topo.scaling /\ request # "absent"
          /\ topo' = [topo EXCEPT !.offline = cl.off] /\ topo' \in TopologyObject
          /\ kw' \in KWorker
          /\ \/ kw'.pc = "idle"
             \/ kw'.pc = "prune" /\ kw'.obj = topo' /\ kw'.seen = topo' /\ cl.off = {}
  <1>1. topo \in TopologyObject /\ view = topo /\ cl.off \in SUBSET Node
    BY DEF LifeInv, Types, CheckScaleIn, UpdateTopology, Cluster
  <1>2. PICK f : f = [view EXCEPT !.offline = cl.off]
    OBVIOUS
  <1>3. f \in TopologyObject /\ f.offline = cl.off
    BY <1>1, <1>2 DEF TopologyObject
  <1>4. topo' = f /\ kw' = IF f.offline = {} THEN Worker("prune", f, f) ELSE KIdle
    BY <1>2 DEF CheckScaleIn, UpdateTopology, GetNodeStatusList
  <1>5. \/ kw' \in KWorker /\ kw'.pc = "idle"
        \/ kw' \in KWorker /\ kw'.pc = "prune" /\ kw'.obj = f /\ kw'.seen = f /\ cl.off = {}
    BY <1>3, <1>4, ReturnEffect, WorkerEffect DEF KPc
  <1> QED
    BY <1>1, <1>2, <1>3, <1>4, <1>5 DEF CheckScaleIn, Reconciling

\* Lemma: LifeInv is kept by it.
LEMMA CheckScaleInKeeps == ASSUME LifeInv, CheckScaleIn, UNCHANGED hasty PROVE LifeInv'
  <1>1. PICK o : o = topo'
    OBVIOUS
  <1>2. /\ o \in TopologyObject /\ o.fin /\ o.state = "ready" /\ o.spec = topo.spec
        /\ o.del = topo.del
    BY <1>1, CheckScaleInEffect DEF LifeInv, Types, TopologyObject
  <1>3. topo.spec \in Specs /\ request # "pending" /\ hasty \in BOOLEAN
    BY CheckScaleInEffect DEF LifeInv, Types, Life, Empty
  <1>4. kw'.pc = "idle" \/ (kw'.pc # "uninstalled" /\ Copied')
    BY <1>1, <1>2, <1>3, CheckScaleInEffect DEF Copied
  <1> QED
    BY <1>1, <1>2, <1>3, <1>4, CheckScaleInEffect, TopologyWritten

\* Lemma: what the status write at the end of a call does.
LEMMA WriteOutcomeEffect ==
    ASSUME LifeInv, WriteOutcome
    PROVE /\ UNCHANGED <<cl, view, request, nodes>> /\ kw' \in KWorker /\ kw'.pc = "idle"
          /\ topo = kw.seen /\ Busy
          /\ topo' \in TopologyObject /\ topo'.fin = kw.obj.fin /\ topo'.del = kw.obj.del
          /\ topo'.spec = kw.obj.spec
          /\ \/ kw.pc = "installed" /\ topo'.state = "ready" /\ topo'.pre = kw.obj.pre
                /\ topo'.scaling = kw.obj.scaling
             \/ kw.pc = "updated" /\ topo'.state = "ready" /\ topo'.pre = kw.obj.spec
                /\ topo'.scaling = kw.obj.scaling
             \/ kw.pc = "pruned" /\ topo'.state = kw.obj.state /\ topo'.pre = kw.obj.pre
                /\ ~topo'.scaling
  <1>1. kw.obj \in TopologyObject
    BY DEF LifeInv, Types, KWorker
  <1>2. PICK o : o = kw.obj
    OBVIOUS
  <1>3. topo' = Outcome(kw.pc, o) /\ kw' \in KWorker /\ kw'.pc = "idle" /\ topo = kw.seen
        /\ UNCHANGED <<cl, view, request, nodes>>
    BY <1>2, ReturnEffect DEF WriteOutcome, UpdateTopology, Return
  <1>4. CASE kw.pc = "installed"
    <2>1. topo' = [o EXCEPT !.state = "ready"]
      BY <1>3, <1>4 DEF Outcome
    <2> QED
      BY <1>1, <1>2, <1>3, <1>4, <2>1 DEF TopologyObject, Busy
  <1>5. CASE kw.pc = "updated"
    <2>1. topo' = [o EXCEPT !.state = "ready", !.pre = o.spec]
      BY <1>3, <1>5 DEF Outcome
    <2> QED
      BY <1>1, <1>2, <1>3, <1>5, <2>1 DEF TopologyObject, Busy
  <1>6. CASE kw.pc = "pruned"
    <2>1. topo' = [o EXCEPT !.scaling = FALSE]
      BY <1>3, <1>6 DEF Outcome
    <2> QED
      BY <1>1, <1>2, <1>3, <1>6, <2>1 DEF TopologyObject, Busy
  <1> QED
    BY <1>4, <1>5, <1>6 DEF WriteOutcome

\* Lemma: LifeInv is kept by the status write, and when it is refused.
LEMMA WriteOutcomeKeeps == ASSUME LifeInv, WriteOutcome, UNCHANGED hasty PROVE LifeInv'
  <1>1. PICK o : o = topo'
    OBVIOUS
  <1>2. Copied /\ topo.fin /\ request # "pending" /\ hasty \in BOOLEAN
    BY WriteOutcomeEffect DEF LifeInv, Working, Types
  <1>3. o \in TopologyObject /\ o.fin /\ o.state # "absent" /\ o.spec \in Specs
    BY <1>1, <1>2, WriteOutcomeEffect DEF Copied
  <1>4. ~topo.del
    BY <1>2, WriteOutcomeEffect DEF Copied
  <1> QED
    BY <1>1, <1>2, <1>3, <1>4, WriteOutcomeEffect, TopologyWritten

\* Lemma: LifeInv is kept when a call just ends.
LEMMA CallEndsKeeps ==
    ASSUME LifeInv, kw' = KIdle, UNCHANGED <<cl, topo, view, request, nodes, hasty>>
    PROVE LifeInv'
  <1>1. nodes' \in [Node -> {"free", "starting", "up", "down", "gone"}]
    BY DEF LifeInv, Types
  <1> QED
    BY <1>1, ReturnEffect, NodesKeep

\* Lemma: what a worker that begins an installation or an update holds.
LEMMA BeginEffect ==
    ASSUME LifeInv, BeginInstall \/ BeginUpdate
    PROVE /\ UNCHANGED <<cl, topo, view, request, nodes>>
          /\ kw.pc = "idle" /\ Following /\ request # "absent" /\ kw' \in KWorker /\ Copied'
          /\ kw'.seen = view /\ kw'.obj.state = view.state /\ kw'.obj.spec = view.spec
          /\ kw'.obj.pre = view.pre
          /\ \/ BeginInstall /\ kw'.pc = "deploy" /\ view.state = "pending" /\ kw'.obj = view
                /\ request = "ready"
             \/ BeginUpdate /\ kw'.pc = "upgrade" /\ view.state = "updating"
                /\ kw'.obj.scaling = (view.scaling \/ IsScaleIn(view.pre, view.spec))
  <1>1. view \in TopologyObject /\ view.fin /\ ~view.del /\ view.spec \in Specs
    BY DEF LifeInv, Types, Life, BeginInstall, BeginUpdate, Reconciling
  <1>2. CASE BeginInstall
    <2>1. kw' \in KWorker /\ kw'.pc = "deploy" /\ kw'.obj = view /\ kw'.seen = view
      BY <1>1, <1>2, WorkerEffect DEF BeginInstall, KPc, InstallSteps
    <2>2. view.state = "pending" /\ request = "ready" /\ kw.pc = "idle"
      BY <1>2 DEF BeginInstall, Reconciling
    <2> QED
      BY <1>1, <1>2, <2>1, <2>2 DEF BeginInstall, Following, Copied
  <1>3. CASE BeginUpdate
    <2>1. PICK b \in BOOLEAN : b = (view.scaling \/ IsScaleIn(view.pre, view.spec))
      BY <1>1 DEF TopologyObject
    <2>2. PICK o : o = [view EXCEPT !.scaling = b]
      OBVIOUS
    <2>3. /\ o \in TopologyObject /\ o.state = view.state /\ o.spec = view.spec /\ o.pre = view.pre
          /\ o.scaling = b /\ o.fin = view.fin /\ o.del = view.del
      BY <1>1, <2>1, <2>2 DEF TopologyObject
    <2>4. kw' = Worker("upgrade", view, o)
      BY <1>1, <1>3, <2>1, <2>2 DEF BeginUpdate, TopologyObject
    <2>5. kw' \in KWorker /\ kw'.pc = "upgrade" /\ kw'.obj = o /\ kw'.seen = view
      BY <1>1, <2>3, <2>4, WorkerEffect DEF KPc, UpdateSteps
    <2>6. view.state = "updating" /\ request # "absent" /\ kw.pc = "idle"
      BY <1>3 DEF BeginUpdate, Reconciling
    <2> QED
      BY <1>1, <1>3, <2>1, <2>3, <2>5, <2>6 DEF BeginUpdate, Following, Copied
  <1> QED
    BY <1>2, <1>3

\* Lemma: LifeInv is kept when they begin.
LEMMA BeginKeeps ==
    ASSUME LifeInv, BeginInstall \/ BeginUpdate, UNCHANGED hasty
    PROVE LifeInv'
  <1>1. UNCHANGED <<cl, topo, view, request, nodes>> /\ kw' \in KWorker /\ Copied' /\ Following
        /\ kw'.pc \in {"deploy", "upgrade"} /\ request # "pending"
    BY BeginEffect DEF LifeInv, Empty
  <1>2. Types' /\ Life' /\ Lag' /\ Empty'
    BY <1>1 DEF LifeInv, Types, Life, Lag, Following, Empty
  <1>3. Working'
    BY <1>1 DEF LifeInv, Working, Busy, Lag
  <1> QED
    BY <1>2, <1>3 DEF LifeInv

\* Lemma: what a worker that has uninstalled the cluster holds.
LEMMA DeleteTopologyEffect ==
    ASSUME LifeInv, DeleteTopology
    PROVE /\ UNCHANGED <<topo, view, request, nodes>> /\ cl' = NoCluster
          /\ kw.pc = "idle" /\ view.del
          /\ kw' \in KWorker /\ kw'.pc = "uninstalled" /\ kw'.seen = view
  <1>1. view \in TopologyObject
    BY DEF LifeInv, Types
  <1>2. kw' \in KWorker /\ kw'.pc = "uninstalled" /\ kw'.seen = view
    BY <1>1, WorkerEffect DEF DeleteTopology, KPc
  <1>3. cl' = NoCluster
    BY DEF DeleteTopology, UninstallCluster, LifeInv, Empty
  <1> QED
    BY <1>2, <1>3 DEF DeleteTopology

\* Lemma: LifeInv is kept when the cluster of a deleted topology goes.
LEMMA DeleteTopologyKeeps == ASSUME LifeInv, DeleteTopology, UNCHANGED hasty PROVE LifeInv'
  <1>1. Types'
    BY DeleteTopologyEffect, NoClusterIsCluster DEF LifeInv, Types
  <1>2. Life' /\ Lag' /\ Empty'
    BY DeleteTopologyEffect DEF LifeInv, Life, Lag, Following, Empty
  <1>3. Working'
    BY DeleteTopologyEffect DEF LifeInv, Working, Busy, Following, Lag
  <1> QED
    BY <1>1, <1>2, <1>3 DEF LifeInv

\* Lemma: LifeInv is kept when the finalizer is removed.
LEMMA RemoveFinalizerKeeps == ASSUME LifeInv, RemoveFinalizer, UNCHANGED hasty PROVE LifeInv'
  <1>1. UNCHANGED <<cl, view, request, nodes>> /\ kw.pc = "uninstalled" /\ kw' = KIdle
    BY DEF RemoveFinalizer, Return
  <1>2. CASE topo' = topo
    BY <1>1, <1>2, CallEndsKeeps
  <1>3. CASE topo' = Absent(topo.gen)
    <2>1. topo.gen \in 0 .. MaxGen
      BY DEF LifeInv, Types, TopologyObject
    <2>2. PICK o : o = Absent(topo.gen)
      OBVIOUS
    <2>3. o \in TopologyObject /\ o.state = "absent" /\ ~o.fin /\ ~o.del
      BY <2>1, <2>2, AbsentIsObject
    <2>4. cl = NoCluster /\ ~Following /\ hasty' = hasty
      BY <1>1 DEF LifeInv, Working
    <2> QED
      BY <1>1, <1>3, <2>2, <2>3, <2>4, ReturnEffect, TopologyReplaced
  <1> QED
    BY <1>2, <1>3 DEF RemoveFinalizer

----------------------------------------------------------------------------
(* LifeInv: steps of everybody else.                                        *)

\* Lemma: what a new topology is.
LEMMA CreateTopologyEffect ==
    ASSUME LifeInv, NEW s \in Specs, CreateTopology(s)
    PROVE /\ UNCHANGED <<cl, view, request, nodes, kw, hasty>> /\ topo.state = "absent"
          /\ topo' \in TopologyObject /\ topo'.state = Unset /\ topo'.spec = s
          /\ ~topo'.fin /\ ~topo'.del /\ topo'.pre = None /\ ~topo'.scaling
  <1>1. topo.gen + 1 \in 0 .. MaxGen
    BY MaxGenIsNat DEF CreateTopology, LifeInv, Types, TopologyObject
  <1>2. PICK g \in 0 .. MaxGen : g = topo.gen + 1
    BY <1>1
  <1>3. topo' = NewTopology(Unset, s, g)
    BY <1>2 DEF CreateTopology
  <1> QED
    BY <1>3, NewIsObject DEF CreateTopology, envVars

\* Lemma: LifeInv is kept when a user creates a topology.
LEMMA CreateTopologyKeeps ==
    ASSUME LifeInv, NEW s \in Specs, CreateTopology(s)
    PROVE LifeInv'
  <1>1. PICK o : o = topo'
    OBVIOUS
  <1>2. ~topo.fin
    BY CreateTopologyEffect DEF LifeInv, Life
  <1> QED
    BY <1>1, <1>2, CreateTopologyEffect, TopologyReplaced

\* Lemma: what a change of the specification is.
LEMMA EditTopologyEffect ==
    ASSUME LifeInv, NEW s \in Specs, EditTopology(s)
    PROVE /\ UNCHANGED <<cl, view, request, nodes, kw>> /\ hasty' \in BOOLEAN
          /\ topo.state # "absent" /\ ~topo.del
          /\ topo' \in TopologyObject /\ topo'.state = topo.state /\ topo'.spec = s
          /\ topo'.fin = topo.fin /\ topo'.del = topo.del /\ topo'.pre = topo.pre
          /\ topo'.scaling = topo.scaling
          /\ ~hasty' => ~hasty /\ Settled /\ InPlace(s)
          /\ validateTiDBUpdate(topo, s)
  <1>1. PICK g : g = topo.gen + 1
    OBVIOUS
  <1>2. topo \in TopologyObject /\ g \in 0 .. MaxGen
    BY <1>1, MaxGenIsNat DEF EditTopology, LifeInv, Types, TopologyObject
  <1>3. topo' = [topo EXCEPT !.spec = s, !.gen = g]
    BY <1>1, <1>2 DEF EditTopology, TopologyObject
  <1>4. /\ topo' \in TopologyObject /\ topo'.state = topo.state /\ topo'.spec = s
        /\ topo'.fin = topo.fin /\ topo'.del = topo.del /\ topo'.pre = topo.pre
        /\ topo'.scaling = topo.scaling
    BY <1>2, <1>3 DEF TopologyObject
  <1>5. hasty' \in BOOLEAN /\ (~hasty' => ~hasty /\ Settled /\ InPlace(s))
    BY DEF EditTopology
  <1> QED
    BY <1>4, <1>5 DEF EditTopology

\* Lemma: LifeInv is kept when a user changes the specification.
LEMMA EditTopologyKeeps ==
    ASSUME LifeInv, NEW s \in Specs, EditTopology(s)
    PROVE LifeInv'
  <1>1. Types' /\ Life'
    BY EditTopologyEffect DEF LifeInv, Types, Life
  <1>2. Lag' /\ Working'
    BY EditTopologyEffect DEF LifeInv, Lag, Following, Working, Busy, Copied
  <1>3. Empty'
    BY EditTopologyEffect DEF LifeInv, Empty
  <1> QED
    BY <1>1, <1>2, <1>3 DEF LifeInv

\* Lemma: what is left when a user deletes the topology.
LEMMA DeleteByUserEffect ==
    ASSUME LifeInv, DeleteByUser
    PROVE /\ UNCHANGED <<cl, view, request, nodes, kw, hasty>> /\ topo.state # "absent"
          /\ topo' \in TopologyObject
          /\ \/ topo.fin /\ topo'.fin /\ topo'.del /\ topo'.state = topo.state
                /\ topo'.spec = topo.spec
             \/ ~topo.fin /\ ~topo'.fin /\ ~topo'.del /\ topo'.state = "absent"
  <1>1. topo \in TopologyObject /\ topo.gen \in 0 .. MaxGen
    BY DEF LifeInv, Types, TopologyObject
  <1>2. CASE topo.fin
    <2>1. topo' = [topo EXCEPT !.del = TRUE]
      BY <1>2 DEF DeleteByUser
    <2> QED
      BY <1>1, <1>2, <2>1 DEF DeleteByUser, TopologyObject, envVars
  <1>3. CASE ~topo.fin
    <2>1. PICK g \in 0 .. MaxGen : g = topo.gen
      BY <1>1
    <2>2. topo' = Absent(g)
      BY <1>3, <2>1 DEF DeleteByUser
    <2> QED
      BY <1>3, <2>2, AbsentIsObject DEF DeleteByUser, envVars
  <1> QED
    BY <1>2, <1>3

\* Lemma: LifeInv is kept when a user deletes the topology.
LEMMA DeleteByUserKeeps == ASSUME LifeInv, DeleteByUser PROVE LifeInv'
  <1>1. PICK o : o = topo'
    OBVIOUS
  <1>2. CASE topo.fin
    BY <1>1, <1>2, DeleteByUserEffect, TopologyWritten DEF LifeInv, Life, Types, Empty
  <1>3. CASE ~topo.fin
    BY <1>1, <1>3, DeleteByUserEffect, TopologyReplaced
  <1> QED
    BY <1>2, <1>3

\* Lemma: LifeInv is kept when the cache learns of the topology.
LEMMA WatchKeeps == ASSUME LifeInv, Watch PROVE LifeInv'
  <1>1. view' = topo /\ UNCHANGED <<cl, topo, request, nodes, kw, hasty>>
    BY DEF Watch, WatchTopology, envVars
  <1>2. Types' /\ Life'
    BY <1>1 DEF LifeInv, Types, Life
  <1>3. Lag' /\ Empty'
    BY <1>1 DEF LifeInv, Lag, Following, Empty
  <1>4. Working'
    BY <1>1 DEF LifeInv, Working, Following, Busy, Copied
  <1> QED
    BY <1>2, <1>3, <1>4 DEF LifeInv

\* Lemma: LifeInv is kept when the request becomes ready, or goes.
LEMMA RequestKeeps == ASSUME LifeInv, RequestReady \/ DeleteRequest PROVE LifeInv'
  <1>1. UNCHANGED <<topo, view, kw, hasty>>
    BY DEF RequestReady, DeleteRequest, envVars
  <1>2. CASE RequestReady
    <2>1. request = "pending" /\ request' = "ready" /\ UNCHANGED <<cl, nodes>>
      BY <1>2 DEF RequestReady
    <2>2. Types' /\ Life' /\ Lag'
      BY <1>1, <2>1 DEF LifeInv, Types, Life, Lag, Following
    <2>3. Working' /\ Empty'
      BY <1>1, <2>1 DEF LifeInv, Working, Busy, Copied, Following, Empty
    <2> QED
      BY <2>2, <2>3 DEF LifeInv
  <1>3. CASE DeleteRequest
    <2>1. request' = "absent" /\ cl' = NoCluster /\ nodes' = [h \in Node |-> "gone"]
      BY <1>3 DEF DeleteRequest
    <2>2. Types' /\ Life' /\ Lag'
      BY <1>1, <2>1, NoClusterIsCluster DEF LifeInv, Types, Life, Lag, Following
    <2>3. Working' /\ Empty'
      BY <1>1, <2>1 DEF LifeInv, Working, Busy, Copied, Following, Empty
    <2> QED
      BY <2>2, <2>3 DEF LifeInv
  <1> QED
    BY <1>2, <1>3

\* Lemma: LifeInv is kept when the regions of a store have moved.
LEMMA MovedKeeps == ASSUME LifeInv, NEW h \in Node, Moved(h) PROVE LifeInv'
  <1>1. StoreMoved(h) /\ UNCHANGED <<topo, view, request, nodes, kw, hasty>>
    BY DEF Moved, envVars
  <1>2. cl' \in Cluster /\ cl # NoCluster
    BY <1>1, StoreMovedEffect, NoClusterIsCluster DEF LifeInv
  <1>3. Types' /\ Life' /\ Lag'
    BY <1>1, <1>2 DEF LifeInv, Types, Life, Lag, Following
  <1>4. Working' /\ Empty'
    BY <1>1, <1>2 DEF LifeInv, Working, Busy, Copied, Following, Empty
  <1> QED
    BY <1>3, <1>4 DEF LifeInv

\* Lemma: LifeInv is kept when a node starts or ends.
LEMMA NodeKeeps ==
    ASSUME LifeInv, NEW h \in Node, NodeStarts(h) \/ NodeEnds(h)
    PROVE LifeInv'
  <1>1. UNCHANGED <<cl, topo, view, request, kw, hasty>>
    BY DEF NodeStarts, NodeEnds, envVars
  <1>2. /\ nodes' \in [Node -> {"free", "starting", "up", "down", "gone"}]
        /\ \A k \in Node : nodes[k] = "gone" => nodes'[k] = "gone"
    BY DEF NodeStarts, NodeEnds, LifeInv, Types
  <1> QED
    BY <1>1, <1>2, NodesKeep

\* A call ends and nothing else happens.
CallEnds ==
    \/ (CommandFails \/ WriteRefused) /\ UNCHANGED envVars
    \/ CutOff

\* Lemma: what happens then.
LEMMA CallEndsEffect ==
    ASSUME CallEnds
    PROVE kw' = KIdle /\ UNCHANGED <<cl, topo, view, request, nodes, hasty>>
  BY DEF CallEnds, CommandFails, WriteRefused, CutOff, Return, envVars

\* Lemma: LifeInv is inductive.
LEMMA LifeInvKept == ASSUME LifeInv, [Next]_vars PROVE LifeInv'
  <1>1. CASE UNCHANGED vars
    <2>1. UNCHANGED <<cl, topo, view, request, nodes, kw, hasty>>
      BY <1>1 DEF vars, controllerVars, envVars
    <2>2. nodes' \in [Node -> {"free", "starting", "up", "down", "gone"}]
      BY <2>1 DEF LifeInv, Types
    <2> QED
      BY <2>1, <2>2, NodesKeep
  <1>2. CASE TopologyStep
    <2>1. UNCHANGED <<faults, hasty>>
      BY <1>2 DEF TopologyStep, envVars
    <2>2. CASE TopologyBegin
      BY <2>1, <2>2, ReadsKeep, NodesGivenKeeps, BeginKeeps, CheckScaleInKeeps, DeleteTopologyKeeps
      DEF TopologyBegin, Reads, NodesGiven
    <2>3. CASE TopologyContinue
      BY <2>1, <2>3, CallGoesOnKeeps, NodesGivenKeeps, CallEndsEffect, CallEndsKeeps,
         WriteOutcomeKeeps, RemoveFinalizerKeeps
      DEF TopologyContinue, CallGoesOn, NodesGiven, CallEnds, envVars
    <2> QED
      BY <1>2, <2>2, <2>3 DEF TopologyStep
  <1>3. CASE CutOff
    BY <1>3, CallEndsEffect, CallEndsKeeps DEF CallEnds
  <1> QED
    BY <1>1, <1>2, <1>3, WatchKeeps, CreateTopologyKeeps, EditTopologyKeeps, DeleteByUserKeeps,
       RequestKeeps, NodeKeeps, MovedKeeps
    DEF Next

\* Theorem: LifeInv holds throughout.
THEOREM LifeHolds == Spec => []LifeInv
  BY LifeInvInit, LifeInvKept, PTL DEF Spec

\* Theorem: a topology that has gone has left no cluster (deleteTopology of
\* testclustertopology_controller.go), whatever version the cache showed and
\* wherever calls were cut off.
THEOREM GoneTopologiesAreUninstalled == Spec => []GoneIsUninstalled
  <1>1. LifeInv => GoneIsUninstalled
    BY DEF LifeInv, Life, Empty, GoneIsUninstalled
  <1> QED
    BY <1>1, LifeHolds, PTL

----------------------------------------------------------------------------
(* What the cluster is while nobody disturbs the controller: no user has    *)
(* changed a topology that was not settled, the request is there and the    *)
(* topology is not deleted.                                                 *)

Calm == ~hasty /\ request # "absent" /\ ~topo.del

Nested(a, b) == a \subseteq b \/ b \subseteq a

\* What the webhook, and users who let the instances where they are, leave of
\* the changes from p to s.
Pair(p, s) ==
    /\ p \in Specs /\ s \in Specs
    /\ Nested(p.db, s.db) /\ Nested(p.kv, s.kv)
    /\ checkAtMostOneKindUpdation(p, s)
    /\ ~(IsScaleIn(p, s) /\ IsScaleOut(p, s))

\* The instances on the nodes are those in the meta file.
Tallies == cl.inst = Instances(cl)

Fresh(s) ==
    /\ cl.version = s.version /\ cl.conf = s.conf /\ cl.db = s.db /\ cl.kv = s.kv
    /\ cl.off = {} /\ cl.tomb = {} /\ Tallies

\* The cluster is that of s, but for stores that are going.
Deployed(s) ==
    /\ cl.st = "up" /\ cl.version = s.version /\ cl.conf = s.conf
    /\ cl.db = s.db /\ cl.kv = s.kv \cup cl.off \cup cl.tomb
    /\ (cl.off \cup cl.tomb) \cap s.kv = {} /\ Tallies

Unscaled(p) == cl.db = p.db /\ cl.kv = p.kv /\ cl.off = {} /\ cl.tomb = {}

Scaled(p, s) ==
    cl.db = s.db /\ cl.kv = p.kv \cup s.kv /\ cl.off \cup cl.tomb = p.kv \ s.kv

\* The update from p to s is under way, or was cut off somewhere.
Between(p, s) ==
    /\ cl.st = "up" /\ cl.version \in {p.version, s.version} /\ cl.conf \in {p.conf, s.conf}
    /\ Unscaled(p) \/ Scaled(p, s)
    /\ Tallies

Done(p, s) ==
    cl.st = "up" /\ cl.version = s.version /\ cl.conf = s.conf /\ Scaled(p, s) /\ Tallies

ObjectInstalling ==
    topo.state \in {Unset, "pending"} =>
        /\ topo.pre = None /\ ~topo.scaling
        /\ cl.st = "none" => cl = NoCluster
        /\ cl.st # "none" => Fresh(topo.spec)
        /\ cl.patched => topo.spec.patch # "none"

ObjectFirst ==
    topo.state = "ready" /\ topo.pre = None =>
        ~topo.scaling /\ Matches(topo.spec) /\ (cl.patched <=> topo.spec.patch # "none")

ObjectReady ==
    topo.state = "ready" /\ topo.pre # None =>
        /\ Deployed(topo.pre)
        /\ ~topo.scaling => cl.off = {} /\ cl.tomb = {}
        /\ topo.scaling => topo.pre = topo.spec
        /\ topo.pre # topo.spec => Pair(topo.pre, topo.spec)

ObjectUpdating ==
    topo.state = "updating" =>
        ~topo.scaling /\ Pair(topo.pre, topo.spec) /\ Between(topo.pre, topo.spec)

\* The object says how far the cluster is.
ObjectOK == ObjectInstalling /\ ObjectFirst /\ ObjectReady /\ ObjectUpdating

\* The update from p to s is what the object asks for.
Live(p, s) == topo.state = "updating" /\ topo.pre = p /\ topo.spec = s

\* It has been done and noted.
Stale(p, s) ==
    topo.state = "ready" /\ topo.pre = s /\ Done(p, s) /\ (IsScaleIn(p, s) => topo.scaling)

WorkerInstalling ==
    kw.pc \in InstallSteps =>
        /\ kw.seen = kw.obj
        /\ kw.obj.state = "pending" /\ kw.obj.pre = None /\ ~kw.obj.scaling
        /\ kw.obj.spec = topo.spec /\ topo.pre = None
        /\ topo.state \in {Unset, "pending", "ready"}
        /\ kw.pc # "deploy" => cl.st # "none"
        /\ kw.pc \in {"patch", "installed"} => cl.st = "up"
        /\ kw.pc \in {"start", "patch", "installed"} /\ topo.spec.patch = "Replace" => cl.patched
        /\ kw.pc = "installed" /\ topo.spec.patch = "Patch" => cl.patched

\* What has been done of the update from p to s when the worker is at pc.
Progress(pc, p, s) ==
    /\ pc # "upgrade" => cl.version = s.version
    /\ pc \in {"scale-in", "scale-out", "updated"} => cl.conf = s.conf
    /\ pc \in {"scale-out", "updated"} /\ IsScaleIn(p, s) => Scaled(p, s)
    /\ pc = "updated" => Scaled(p, s)

WorkerUpdating ==
    kw.pc \in UpdateSteps =>
        /\ Pair(kw.obj.pre, kw.obj.spec)
        /\ kw.seen.state = "updating"
        /\ kw.obj.scaling <=> IsScaleIn(kw.obj.pre, kw.obj.spec)
        /\ \/ Stale(kw.obj.pre, kw.obj.spec)
           \/ Live(kw.obj.pre, kw.obj.spec) /\ Progress(kw.pc, kw.obj.pre, kw.obj.spec)

WorkerPruning ==
    kw.pc \in {"prune", "pruned"} =>
        /\ topo = kw.obj /\ topo = kw.seen
        /\ topo.state = "ready" /\ topo.pre = topo.spec /\ topo.scaling
        /\ cl.off = {} /\ view.state # "updating"
        /\ kw.pc = "pruned" => cl.tomb = {}

\* The worker is at what the object asks for, or repeats what has been done.
WorkerOK == WorkerInstalling /\ WorkerUpdating /\ WorkerPruning

CacheInstalling ==
    Following /\ view.state \in {Unset, "pending"} =>
        /\ view.pre = None /\ ~view.scaling
        /\ topo.pre = None /\ topo.spec = view.spec /\ topo.state \in {Unset, "pending", "ready"}

CacheUpdating ==
    Following /\ view.state = "updating" =>
        /\ Pair(view.pre, view.spec) /\ ~view.scaling
        /\ Live(view.pre, view.spec) \/ Stale(view.pre, view.spec)

\* The cache shows what the object asks for, or what has been done.
CacheOK == CacheInstalling /\ CacheUpdating

CalmInv == Calm => ObjectOK /\ WorkerOK /\ CacheOK

----------------------------------------------------------------------------
\* Lemma: a finite set within another one that is not larger is the whole.
LEMMA NestedSizes ==
    ASSUME NEW a, NEW b, IsFiniteSet(a), IsFiniteSet(b), Nested(a, b)
    PROVE /\ ~(Cardinality(a) > Cardinality(b)) => a \subseteq b
          /\ ~(Cardinality(a) < Cardinality(b)) => b \subseteq a
  <1>1. Cardinality(a) \in Nat /\ Cardinality(b) \in Nat
    BY FS_CardinalityType
  <1>2. a \subseteq b => Cardinality(a) <= Cardinality(b) /\ (Cardinality(a) = Cardinality(b) => a = b)
    BY FS_Subset
  <1>3. b \subseteq a => Cardinality(b) <= Cardinality(a) /\ (Cardinality(a) = Cardinality(b) => a = b)
    BY FS_Subset
  <1> QED
    BY <1>1, <1>2, <1>3 DEF Nested

\* Lemma: what an accepted change may be.  A scale-in takes away only, a
\* scale-out adds only, and another change leaves the hosts as they are.
LEMMA PairFacts ==
    ASSUME NEW p, NEW s, Pair(p, s)
    PROVE /\ p \in Specs /\ s \in Specs
          /\ ~IsScaleIn(p, s) => p.db \subseteq s.db /\ p.kv \subseteq s.kv
          /\ ~IsScaleOut(p, s) => s.db \subseteq p.db /\ s.kv \subseteq p.kv
          /\ ~(IsScaleIn(p, s) /\ IsScaleOut(p, s))
          /\ IsScaleIn(p, s) \/ IsScaleOut(p, s) => p.version = s.version /\ p.conf = s.conf
          /\ p.conf # s.conf => p.version = s.version
  <1>1. p \in Specs /\ s \in Specs /\ Nested(p.db, s.db) /\ Nested(p.kv, s.kv)
    BY DEF Pair
  <1>2. IsFiniteSet(p.db) /\ IsFiniteSet(p.kv) /\ IsFiniteSet(s.db) /\ IsFiniteSet(s.kv)
    BY <1>1, SpecFields
  <1>3. ~IsScaleIn(p, s) => p.db \subseteq s.db /\ p.kv \subseteq s.kv
    BY <1>1, <1>2, NestedSizes DEF IsScaleIn
  <1>4. ~IsScaleOut(p, s) => s.db \subseteq p.db /\ s.kv \subseteq p.kv
    BY <1>1, <1>2, NestedSizes DEF IsScaleOut
  <1> QED
    BY <1>1, <1>3, <1>4
    DEF Pair, checkAtMostOneKindUpdation, IsScale, IsServerConfigModified, IsUpgrade

\* Lemma: equal hosts, equal instances.
LEMMA InstancesEqual ==
    ASSUME NEW a, NEW b, a.db = b.db, a.kv = b.kv
    PROVE Instances(a) = Instances(b)
  BY DEF Instances

\* Lemma: the instances of a cluster with its hosts.
LEMMA InstancesOf ==
    ASSUME NEW c, NEW h
    PROVE /\ <<"db", h>> \in Instances(c) <=> h \in c.db
          /\ <<"kv", h>> \in Instances(c) <=> h \in c.kv
  BY DEF Instances

\* Lemma: the hosts that a scale-in takes.
LEMMA GoesAre ==
    ASSUME NEW p \in Specs, NEW s \in Specs
    PROVE Goes(p, s, "db") = p.db \ s.db /\ Goes(p, s, "kv") = p.kv \ s.kv
  <1>1. p.db \subseteq Node /\ p.kv \subseteq Node
    BY SpecFields
  <1> QED
    BY <1>1, InstancesOf DEF Goes, ScaleInNodes

\* Lemma: clusters that agree in everything are the same.
LEMMA SameCluster ==
    ASSUME NEW c \in Cluster, NEW d \in Cluster,
           c.st = d.st, c.version = d.version, c.conf = d.conf, c.patched = d.patched,
           c.db = d.db, c.kv = d.kv, c.off = d.off, c.tomb = d.tomb, c.inst = d.inst
    PROVE c = d
  BY DEF Cluster

\* Lemma: an update that is done leaves the cluster of s, and without a
\* scale-in nothing that is going.
LEMMA DoneIsDeployed ==
    ASSUME NEW p, NEW s, Pair(p, s), Done(p, s)
    PROVE Deployed(s) /\ (~IsScaleIn(p, s) => cl.off = {} /\ cl.tomb = {})
  <1>1. cl.off \cup cl.tomb = p.kv \ s.kv /\ cl.kv = p.kv \cup s.kv
    BY DEF Done, Scaled
  <1>2. (cl.off \cup cl.tomb) \cap s.kv = {} /\ cl.kv = s.kv \cup cl.off \cup cl.tomb
    BY <1>1
  <1>3. ~IsScaleIn(p, s) => cl.off = {} /\ cl.tomb = {}
    BY <1>1, PairFacts
  <1> QED
    BY <1>2, <1>3 DEF Done, Scaled, Deployed

\* Lemma: the cluster is that of s when nothing is going.
LEMMA DeployedMatches ==
    ASSUME NEW s, Deployed(s), cl.off = {}, cl.tomb = {}
    PROVE Matches(s)
  <1>1. cl.db = s.db /\ cl.kv = s.kv
    BY DEF Deployed
  <1>2. Instances(cl) = Instances(s)
    BY <1>1 DEF Instances
  <1> QED
    BY <1>1, <1>2 DEF Deployed, Tallies, Matches

\* Lemma: and the other way round.
LEMMA MatchesDeployed ==
    ASSUME NEW s, Matches(s)
    PROVE Deployed(s) /\ Tallies /\ cl.off = {} /\ cl.tomb = {}
  <1>1. Instances(cl) = Instances(s)
    BY DEF Instances, Matches
  <1>2. cl.db = s.db /\ cl.kv = s.kv /\ cl.off = {} /\ cl.tomb = {}
    BY DEF Matches
  <1>3. cl.kv = s.kv \cup cl.off \cup cl.tomb /\ (cl.off \cup cl.tomb) \cap s.kv = {}
    BY <1>2
  <1> QED
    BY <1>1, <1>2, <1>3 DEF Matches, Deployed, Tallies

----------------------------------------------------------------------------
(* CalmInv: steps that leave the cluster alone.                             *)

\* Lemma: CalmInv is kept when the worker at most ends its call.
LEMMA QuietKeeps ==
    ASSUME CalmInv, UNCHANGED <<cl, topo, view, hasty>>, request = "absent" => request' = "absent",
           kw' = kw \/ kw'.pc \in {"idle", "uninstalled"}
    PROVE CalmInv'
  <1> SUFFICES ASSUME Calm' PROVE (ObjectOK /\ WorkerOK /\ CacheOK)'
    BY DEF CalmInv
  <1>1. Calm /\ ObjectOK /\ WorkerOK /\ CacheOK
    BY DEF Calm, CalmInv
  <1>2. ObjectOK'
    BY <1>1 DEF ObjectOK, ObjectInstalling, ObjectFirst, ObjectReady, ObjectUpdating,
                Fresh, Matches, Deployed, Between, Unscaled, Scaled, Tallies
  <1>3. WorkerOK'
    BY <1>1 DEF WorkerOK, WorkerInstalling, WorkerUpdating, WorkerPruning, InstallSteps,
                UpdateSteps, Stale, Live, Done, Scaled, Tallies, Progress
  <1>4. CacheOK'
    BY <1>1 DEF CacheOK, CacheInstalling, CacheUpdating, Following, Stale, Live, Done, Scaled,
                Tallies
  <1> QED
    BY <1>2, <1>3, <1>4

\* Lemma: CalmInv is kept when the cluster goes: it is that of a topology in
\* deletion, or there is none.
LEMMA DeleteTopologyCalm ==
    ASSUME LifeInv, CalmInv, DeleteTopology, UNCHANGED hasty
    PROVE CalmInv'
  <1>1. /\ UNCHANGED <<topo, view, request, nodes>> /\ cl' = NoCluster
        /\ view.del /\ kw'.pc = "uninstalled"
    BY DeleteTopologyEffect
  <1>2. CASE ~topo.del
    <2>1. cl = NoCluster
      BY <1>1, <1>2 DEF LifeInv, Lag, Empty
    <2> QED
      BY <1>1, <2>1, QuietKeeps
  <1>3. CASE topo.del
    BY <1>1, <1>3 DEF CalmInv, Calm
  <1> QED
    BY <1>2, <1>3

\* Lemma: CalmInv is kept when the cache learns of the topology.
LEMMA WatchCalm == ASSUME LifeInv, CalmInv, Watch PROVE CalmInv'
  <1>1. view' = topo /\ UNCHANGED <<cl, topo, request, nodes, kw, hasty>>
    BY DEF Watch, WatchTopology, envVars
  <1> SUFFICES ASSUME Calm' PROVE (ObjectOK /\ WorkerOK /\ CacheOK)'
    BY DEF CalmInv
  <1>2. Calm /\ ObjectOK /\ WorkerOK
    BY <1>1 DEF Calm, CalmInv
  <1>3. ObjectOK'
    BY <1>1, <1>2 DEF ObjectOK, ObjectInstalling, ObjectFirst, ObjectReady, ObjectUpdating,
                      Fresh, Matches, Deployed, Between, Unscaled, Scaled, Tallies
  <1>4. WorkerOK'
    BY <1>1, <1>2 DEF WorkerOK, WorkerInstalling, WorkerUpdating, WorkerPruning,
                      Stale, Live, Done, Scaled, Tallies, Progress
  <1>5. CacheOK'
    BY <1>1, <1>2, UnsetIsNone
    DEF CacheOK, CacheInstalling, CacheUpdating, Live, ObjectOK, ObjectInstalling, ObjectUpdating
  <1> QED
    BY <1>3, <1>4, <1>5

\* Lemma: CalmInv is kept by the writes of a worker that has just read the
\* topology.
LEMMA ReadsCalm ==
    ASSUME LifeInv, CalmInv, Reads, UNCHANGED hasty
    PROVE CalmInv'
  <1>1. /\ UNCHANGED <<cl, view, request, nodes, kw>>
        /\ kw.pc = "idle" /\ view = topo /\ ~topo.del
        /\ topo'.spec = topo.spec /\ topo'.scaling = topo.scaling
    BY ReadsEffect
  <1> SUFFICES ASSUME Calm' PROVE (ObjectOK /\ WorkerOK /\ CacheOK)'
    BY DEF CalmInv
  <1>2. Calm /\ ObjectOK
    BY <1>1 DEF Calm, CalmInv
  <1>3. WorkerOK'
    BY <1>1 DEF WorkerOK, WorkerInstalling, WorkerUpdating, WorkerPruning, InstallSteps, UpdateSteps
  <1>4. CASE AddFinalizer \/ BeginPending
    <2>1. /\ topo'.state \in {Unset, "pending"} /\ topo.state = Unset /\ topo'.pre = topo.pre
      BY <1>4, ReadsEffect DEF LifeInv, Life
    <2>2. ObjectInstalling
      BY <1>2 DEF ObjectOK
    <2>3. ObjectInstalling'
      BY <1>1, <2>1, <2>2 DEF ObjectInstalling, Fresh, Tallies
    <2>4. ObjectOK'
      BY <2>1, <2>3, UnsetIsNone DEF ObjectOK, ObjectFirst, ObjectReady, ObjectUpdating
    <2>5. CacheOK'
      BY <1>1, <2>1, <2>2, UnsetIsNone DEF CacheOK, CacheInstalling, CacheUpdating, ObjectInstalling
    <2> QED
      BY <1>3, <2>4, <2>5
  <1>5. CASE FirstPre
    <2>1. topo'.state = "ready" /\ topo.state = "ready" /\ topo'.pre = topo.spec /\ topo.pre = None
          /\ topo.spec \in Specs
      BY <1>5, ReadsEffect, UnsetIsNone DEF LifeInv, Life
    <2>2. Matches(topo.spec) /\ ~topo.scaling
      BY <1>2, <2>1 DEF ObjectOK, ObjectFirst
    <2>3. PICK s : s = topo.spec
      OBVIOUS
    <2>4. Deployed(s) /\ cl.off = {} /\ cl.tomb = {}
      BY <2>2, <2>3, MatchesDeployed
    <2>5. Deployed(s)'
      BY <1>1, <2>4 DEF Deployed, Tallies
    <2>6. ObjectOK'
      BY <1>1, <2>1, <2>2, <2>3, <2>4, <2>5, UnsetIsNone, SpecFields
      DEF ObjectOK, ObjectInstalling, ObjectFirst, ObjectReady, ObjectUpdating
    <2>7. CacheOK'
      BY <1>1, <2>1, UnsetIsNone DEF CacheOK, CacheInstalling, CacheUpdating
    <2> QED
      BY <1>3, <2>6, <2>7
  <1>6. CASE BeginUpdating
    <2>1. topo'.state = "updating" /\ topo.state = "ready" /\ topo'.pre = topo.pre
          /\ topo.pre # None /\ topo.pre # topo.spec
      BY <1>6, ReadsEffect
    <2>2. Deployed(topo.pre) /\ ~topo.scaling /\ Pair(topo.pre, topo.spec) /\ cl.off = {}
          /\ cl.tomb = {}
      BY <1>2, <2>1 DEF ObjectOK, ObjectReady
    <2>3. PICK p, s : p = topo.pre /\ s = topo.spec
      OBVIOUS
    <2>4. Between(p, s)
      BY <2>2, <2>3 DEF Deployed, Between, Unscaled
    <2>5. Between(p, s)'
      BY <1>1, <2>4 DEF Between, Unscaled, Scaled, Tallies
    <2>6. ObjectOK'
      BY <1>1, <2>1, <2>2, <2>3, <2>5, UnsetIsNone
      DEF ObjectOK, ObjectInstalling, ObjectFirst, ObjectReady, ObjectUpdating
    <2>7. CacheOK'
      BY <1>1, <2>1, UnsetIsNone DEF CacheOK, CacheInstalling, CacheUpdating
    <2> QED
      BY <1>3, <2>6, <2>7
  <1> QED
    BY <1>4, <1>5, <1>6 DEF Reads

\* Lemma: CalmInv is kept by the check of a scale-in.
LEMMA CheckScaleInCalm ==
    ASSUME LifeInv, CalmInv, CheckScaleIn, UNCHANGED hasty
    PROVE CalmInv'
  <1>1. /\ UNCHANGED <<cl, view, request, nodes>> /\ view = topo /\ ~topo.del
        /\ topo.state = "ready" /\ topo.pre = topo.spec /\ topo.scaling
        /\ topo' = [topo EXCEPT !.offline = cl.off]
        /\ \/ kw'.pc = "idle"
           \/ kw'.pc = "prune" /\ kw'.obj = topo' /\ kw'.seen = topo' /\ cl.off = {}
    BY CheckScaleInEffect
  <1>2. /\ topo'.state = "ready" /\ topo'.pre = topo.pre /\ topo'.spec = topo.spec
        /\ topo'.scaling
    BY <1>1 DEF LifeInv, Types, TopologyObject
  <1> SUFFICES ASSUME Calm' PROVE (ObjectOK /\ WorkerOK /\ CacheOK)'
    BY DEF CalmInv
  <1>3. ObjectOK
    BY <1>1 DEF Calm, CalmInv
  <1>4. topo.pre # None
    BY <1>1, SpecFields DEF LifeInv, Life
  <1>5. PICK p : p = topo.pre
    OBVIOUS
  <1>6. Deployed(p)
    BY <1>1, <1>3, <1>4, <1>5 DEF ObjectOK, ObjectReady
  <1>7. Deployed(p)'
    BY <1>1, <1>6 DEF Deployed, Tallies
  <1>8. ObjectOK'
    BY <1>1, <1>2, <1>4, <1>5, <1>7, UnsetIsNone
    DEF ObjectOK, ObjectInstalling, ObjectFirst, ObjectReady, ObjectUpdating
  <1>9. WorkerOK'
    BY <1>1, <1>2 DEF WorkerOK, WorkerInstalling, WorkerUpdating, WorkerPruning, InstallSteps,
                      UpdateSteps
  <1>10. CacheOK'
    BY <1>1, UnsetIsNone DEF CacheOK, CacheInstalling, CacheUpdating
  <1> QED
    BY <1>8, <1>9, <1>10

\* Lemma: CalmInv is kept when an installation or an update begins.
LEMMA BeginCalm ==
    ASSUME LifeInv, CalmInv, BeginInstall \/ BeginUpdate, UNCHANGED hasty
    PROVE CalmInv'
  <1>1. UNCHANGED <<cl, topo, view, request, nodes>> /\ Following
    BY BeginEffect
  <1> SUFFICES ASSUME Calm' PROVE (ObjectOK /\ WorkerOK /\ CacheOK)'
    BY DEF CalmInv
  <1>2. Calm /\ ObjectOK /\ CacheOK
    BY <1>1 DEF Calm, CalmInv
  <1>3. ObjectOK'
    BY <1>1, <1>2 DEF ObjectOK, ObjectInstalling, ObjectFirst, ObjectReady, ObjectUpdating,
                      Fresh, Matches, Deployed, Between, Unscaled, Scaled, Tallies
  <1>4. CacheOK'
    BY <1>1, <1>2 DEF CacheOK, CacheInstalling, CacheUpdating, Following, Stale, Live, Done,
                      Scaled, Tallies
  <1>5. CASE BeginInstall
    <2>1. kw'.pc = "deploy" /\ view.state = "pending" /\ kw'.obj = view /\ kw'.seen = view
      BY <1>5, BeginEffect DEF BeginUpdate, BeginInstall, Reconciling
    <2>2. /\ view.pre = None /\ ~view.scaling /\ topo.pre = None /\ topo.spec = view.spec
          /\ topo.state \in {Unset, "pending", "ready"}
      BY <1>1, <1>2, <2>1 DEF CacheOK, CacheInstalling
    <2>3. WorkerOK'
      BY <1>1, <2>1, <2>2 DEF WorkerOK, WorkerInstalling, WorkerUpdating, WorkerPruning, UpdateSteps
    <2> QED
      BY <1>3, <1>4, <2>3
  <1>6. CASE BeginUpdate
    <2>1. /\ kw'.pc = "upgrade" /\ view.state = "updating" /\ kw'.seen = view
          /\ kw'.obj.spec = view.spec /\ kw'.obj.pre = view.pre
          /\ kw'.obj.scaling = (view.scaling \/ IsScaleIn(view.pre, view.spec))
      BY <1>6, BeginEffect DEF BeginUpdate, BeginInstall, Reconciling
    <2>2. PICK p, s : p = view.pre /\ s = view.spec
      OBVIOUS
    <2>3. Pair(p, s) /\ ~view.scaling /\ (Live(p, s) \/ Stale(p, s))
      BY <1>1, <1>2, <2>1, <2>2 DEF CacheOK, CacheUpdating
    <2>4. Live(p, s)' \/ Stale(p, s)'
      BY <1>1, <2>3 DEF Live, Stale, Done, Scaled, Tallies
    <2>5. Progress("upgrade", p, s)'
      BY DEF Progress
    <2>6. WorkerOK'
      BY <2>1, <2>2, <2>3, <2>4, <2>5
      DEF WorkerOK, WorkerInstalling, WorkerUpdating, WorkerPruning, InstallSteps
    <2> QED
      BY <1>3, <1>4, <2>6
  <1> QED
    BY <1>5, <1>6

----------------------------------------------------------------------------
(* CalmInv: the installation.                                               *)

\* Every field of the cluster but st and patched stays.
FieldsStay ==
    /\ cl'.version = cl.version /\ cl'.conf = cl.conf /\ cl'.db = cl.db /\ cl'.kv = cl.kv
    /\ cl'.off = cl.off /\ cl'.tomb = cl.tomb /\ cl'.inst = cl.inst

Installs == Deploy \/ Replace \/ Start \/ Patch

\* Lemma: what the commands of an installation of s do.
LEMMA InstallEffect ==
    ASSUME LifeInv, Installs, NEW s \in Specs, kw.obj.spec = s
    PROVE /\ UNCHANGED <<topo, view, request, nodes>>
          /\ kw.pc \in InstallSteps /\ kw'.obj = kw.obj /\ kw'.seen = kw.seen
          /\ \/ /\ kw.pc = "deploy" /\ kw'.pc = "replace"
                /\ \/ /\ cl.st = "none" /\ cl'.st = "deployed"
                      /\ cl'.version = s.version /\ cl'.conf = s.conf
                      /\ cl'.db = s.db /\ cl'.kv = s.kv /\ cl'.off = {} /\ cl'.tomb = {}
                      /\ cl'.inst = Instances(s) /\ ~cl'.patched
                   \/ cl.st # "none" /\ cl' = cl
             \/ /\ kw.pc = "replace" /\ kw'.pc = "start"
                /\ FieldsStay /\ cl'.st = cl.st
                /\ cl'.patched = (s.patch = "Replace" \/ cl.patched)
             \/ /\ kw.pc = "start" /\ kw'.pc = "patch"
                /\ FieldsStay /\ cl'.st = "up" /\ cl'.patched = cl.patched
             \/ /\ kw.pc = "patch" /\ kw'.pc = "installed"
                /\ FieldsStay /\ cl'.st = cl.st
                /\ cl'.patched = (s.patch = "Patch" \/ cl.patched)
  <1>1. cl \in Cluster /\ Types
    BY DEF LifeInv, Types
  <1>2. UNCHANGED <<topo, view, request, nodes>>
    BY DEF Installs, Deploy, Replace, Start, Patch
  <1>3. CASE Deploy
    <2>1. kw.pc = "deploy" /\ kw'.pc = "replace" /\ kw'.obj = kw.obj /\ kw'.seen = kw.seen
      BY <1>1, <1>3, GotoEffect DEF Deploy, At, KPc, InstallSteps
    <2>2. DeployCluster(s)
      BY <1>3 DEF Deploy, NewSpec
    <2>3. PICK i : i = Instances(s)
      OBVIOUS
    <2>4. cl.st = "none" => cl' = [NoCluster EXCEPT !.st = "deployed", !.version = s.version,
                                     !.conf = s.conf, !.db = s.db, !.kv = s.kv, !.inst = i]
      BY <2>2, <2>3 DEF DeployCluster
    <2>5. cl.st # "none" => cl' = cl
      BY <2>2 DEF DeployCluster
    <2>6. cl.st = "none" =>
             /\ cl'.st = "deployed" /\ cl'.version = s.version /\ cl'.conf = s.conf
             /\ cl'.db = s.db /\ cl'.kv = s.kv /\ cl'.off = {} /\ cl'.tomb = {}
             /\ cl'.inst = i /\ ~cl'.patched
      BY <2>4 DEF NoCluster
    <2> QED
      BY <1>2, <2>1, <2>3, <2>5, <2>6 DEF InstallSteps
  <1>4. CASE Replace
    <2>1. kw.pc = "replace" /\ kw'.pc = "start" /\ kw'.obj = kw.obj /\ kw'.seen = kw.seen
      BY <1>1, <1>4, GotoEffect DEF Replace, At, KPc, InstallSteps
    <2>2. cl' = IF s.patch = "Replace" THEN [cl EXCEPT !.patched = TRUE] ELSE cl
      BY <1>4 DEF Replace, ExchangeBinaries, NewSpec
    <2>3. FieldsStay /\ cl'.st = cl.st /\ cl'.patched = (s.patch = "Replace" \/ cl.patched)
      BY <1>1, <2>2 DEF FieldsStay, Cluster
    <2> QED
      BY <1>2, <2>1, <2>3 DEF InstallSteps
  <1>5. CASE Start
    <2>1. kw.pc = "start" /\ kw'.pc = "patch" /\ kw'.obj = kw.obj /\ kw'.seen = kw.seen
      BY <1>1, <1>5, GotoEffect DEF Start, At, KPc, InstallSteps
    <2>2. FieldsStay /\ cl'.st = "up" /\ cl'.patched = cl.patched
      BY <1>1, <1>5 DEF Start, StartCluster, FieldsStay, Cluster
    <2> QED
      BY <1>2, <2>1, <2>2 DEF InstallSteps
  <1>6. CASE Patch
    <2>1. kw.pc = "patch" /\ kw'.pc = "installed" /\ kw'.obj = kw.obj /\ kw'.seen = kw.seen
      BY <1>1, <1>6, GotoEffect DEF Patch, At, KPc, InstallSteps
    <2>2. cl' = IF s.patch = "Patch" THEN [cl EXCEPT !.patched = TRUE] ELSE cl
      BY <1>6 DEF Patch, ExchangeBinaries, NewSpec
    <2>3. FieldsStay /\ cl'.st = cl.st /\ cl'.patched = (s.patch = "Patch" \/ cl.patched)
      BY <1>1, <2>2 DEF FieldsStay, Cluster
    <2> QED
      BY <1>2, <2>1, <2>3 DEF InstallSteps
  <1> QED
    BY <1>3, <1>4, <1>5, <1>6 DEF Installs

\* Lemma: CalmInv is kept by them: they lead to the cluster of a topology that
\* is pending, and change nothing at one that has been installed.
LEMMA InstallCalm ==
    ASSUME LifeInv, CalmInv, Installs, UNCHANGED hasty
    PROVE CalmInv'
  <1>1. PICK s : s = kw.obj.spec
    OBVIOUS
  <1>2. s \in Specs /\ cl \in Cluster
    BY <1>1 DEF LifeInv, Working, Busy, Copied, Types, Installs, Deploy, Replace, Start, Patch, At
  <1>3. /\ UNCHANGED <<topo, view, request, nodes>>
        /\ kw.pc \in InstallSteps /\ kw'.obj = kw.obj /\ kw'.seen = kw.seen
        /\ kw'.pc \in {"replace", "start", "patch", "installed"}
    BY <1>1, <1>2, InstallEffect
  <1> SUFFICES ASSUME Calm' PROVE (ObjectOK /\ WorkerOK /\ CacheOK)'
    BY DEF CalmInv
  <1>4. Calm /\ ObjectOK /\ WorkerInstalling /\ CacheOK
    BY <1>3 DEF Calm, CalmInv, WorkerOK
  <1>5. topo.spec = s /\ topo.pre = None /\ topo.state \in {Unset, "pending", "ready"}
        /\ (kw.pc # "deploy" => cl.st # "none")
        /\ (kw.pc = "patch" => cl.st = "up")
        /\ (kw.pc \in {"start", "patch"} /\ s.patch = "Replace" => cl.patched)
    BY <1>1, <1>3, <1>4 DEF WorkerInstalling
  <1>6. CASE topo.state \in {Unset, "pending"}
    <2>1. /\ ~topo.scaling
          /\ cl.st # "none" => Fresh(s)
          /\ cl.st = "none" => cl = NoCluster
          /\ cl.patched => s.patch # "none"
      BY <1>4, <1>5, <1>6 DEF ObjectOK, ObjectInstalling
    <2>2. cl'.st # "none" /\ (cl'.patched => s.patch # "none")
      BY <1>1, <1>2, <1>5, <2>1, InstallEffect
    <2>3. Fresh(s)'
      <3>1. CASE cl.st = "none"
        <4>1. /\ cl'.version = s.version /\ cl'.conf = s.conf /\ cl'.db = s.db /\ cl'.kv = s.kv
              /\ cl'.off = {} /\ cl'.tomb = {} /\ cl'.inst = Instances(s)
          BY <1>1, <1>2, <1>5, <3>1, InstallEffect
        <4>2. Instances(cl') = Instances(s)
          BY <4>1 DEF Instances
        <4> QED
          BY <4>1, <4>2 DEF Fresh, Tallies
      <3>2. CASE cl.st # "none"
        <4>1. FieldsStay
          BY <1>1, <1>2, <1>5, <3>2, InstallEffect DEF FieldsStay
        <4>2. Instances(cl') = Instances(cl)
          BY <4>1 DEF FieldsStay, Instances
        <4> QED
          BY <2>1, <3>2, <4>1, <4>2 DEF Fresh, Tallies, FieldsStay
      <3> QED
        BY <3>1, <3>2
    <2> QED
      <3>1. ObjectOK'
        BY <1>3, <1>5, <1>6, <2>1, <2>2, <2>3, UnsetIsNone
        DEF ObjectOK, ObjectInstalling, ObjectFirst, ObjectReady, ObjectUpdating
      <3>2. WorkerOK'
        <4>1. /\ cl'.st # "none"
              /\ kw'.pc \in {"patch", "installed"} => cl'.st = "up"
              /\ kw'.pc \in {"start", "patch", "installed"} /\ s.patch = "Replace" => cl'.patched
              /\ kw'.pc = "installed" /\ s.patch = "Patch" => cl'.patched
          BY <1>1, <1>2, <1>5, <2>2, InstallEffect DEF FieldsStay
        <4> QED
          BY <1>1, <1>3, <1>4, <1>5, <4>1
          DEF WorkerOK, WorkerInstalling, WorkerUpdating, WorkerPruning, UpdateSteps
      <3>3. CacheOK'
        BY <1>3, <1>4, <1>5, <1>6, UnsetIsNone
        DEF CacheOK, CacheInstalling, CacheUpdating, Following, Live, Stale
      <3> QED
        BY <3>1, <3>2, <3>3
  <1>7. CASE topo.state = "ready"
    <2>1. ~topo.scaling /\ Matches(s) /\ (cl.patched <=> s.patch # "none")
      BY <1>4, <1>5, <1>7 DEF ObjectOK, ObjectFirst
    <2>2. cl.st = "up"
      BY <2>1 DEF Matches
    <2>3. FieldsStay /\ cl'.st = "up" /\ (cl'.patched <=> cl.patched)
      BY <1>1, <1>2, <1>5, <2>1, <2>2, InstallEffect DEF FieldsStay
    <2>4. Matches(s)'
      BY <2>1, <2>2, <2>3 DEF Matches, FieldsStay
    <2>5. ObjectOK'
      BY <1>3, <1>5, <1>7, <2>1, <2>3, <2>4, UnsetIsNone
      DEF ObjectOK, ObjectInstalling, ObjectFirst, ObjectReady, ObjectUpdating
    <2>6. WorkerOK'
      BY <1>1, <1>3, <1>4, <1>5, <2>1, <2>3
      DEF WorkerOK, WorkerInstalling, WorkerUpdating, WorkerPruning, UpdateSteps
    <2>7. CacheOK'
      <3>1. ~(Following /\ view.state = "updating")
        BY <1>4, <1>5, <1>7, SpecFields DEF CacheOK, CacheUpdating, Live, Stale, Pair
      <3> QED
        BY <1>3, <1>4, <3>1 DEF CacheOK, CacheInstalling, CacheUpdating, Following
    <2> QED
      BY <2>5, <2>6, <2>7
  <1> QED
    BY <1>5, <1>6, <1>7

----------------------------------------------------------------------------
(* CalmInv: updates.                                                        *)

\* Lemma: a scale-in takes the cluster from p to s, and nothing more when it
\* is repeated.
LEMMA ScaleInDoes ==
    ASSUME Types, NEW p, NEW s, Pair(p, s), IsScaleIn(p, s), ~ScaleInFails(p, s),
           ScaleInCluster(p, s), Unscaled(p) \/ Scaled(p, s), Tallies
    PROVE /\ Scaled(p, s)' /\ Tallies'
          /\ cl'.st = cl.st /\ cl'.version = cl.version /\ cl'.conf = cl.conf
          /\ Scaled(p, s) => cl' = cl
  <1>1. p \in Specs /\ s \in Specs /\ s.db \subseteq p.db /\ s.kv \subseteq p.kv
    BY PairFacts
  <1>2. Goes(p, s, "db") = p.db \ s.db /\ Goes(p, s, "kv") = p.kv \ s.kv
    BY <1>1, GoesAre
  <1>3. /\ cl' \in Cluster /\ cl \in Cluster
        /\ cl'.st = cl.st /\ cl'.version = cl.version /\ cl'.conf = cl.conf
        /\ cl'.patched = cl.patched
        /\ cl'.db = cl.db \ (p.db \ s.db) /\ cl'.kv = cl.kv
        /\ cl'.off = cl.off \cup ((p.kv \ s.kv) \ cl.tomb) /\ cl'.tomb = cl.tomb
        /\ cl'.inst = cl.inst \ ({"db"} \X (p.db \ s.db))
    BY <1>2, ScaleInEffect DEF Types
  <1>4. Scaled(p, s) => cl' = cl
    <2> SUFFICES ASSUME Scaled(p, s) PROVE cl' = cl
      OBVIOUS
    <2>1. cl.db = s.db /\ cl.off \cup cl.tomb = p.kv \ s.kv
      BY DEF Scaled
    <2>2. \A h \in p.db \ s.db : <<"db", h>> \in Instances(cl)
      BY InstancesOf DEF ScaleInFails, ScaleInNodes
    <2>3. p.db \ s.db = {}
      BY <2>1, <2>2, InstancesOf
    <2>4. cl'.db = cl.db /\ cl'.off = cl.off /\ cl'.inst = cl.inst
      BY <1>3, <2>1, <2>3
    <2>5. PICK c, d : c = cl /\ d = cl'
      OBVIOUS
    <2>6. c = d
      BY <1>3, <2>4, <2>5, SameCluster
    <2> QED
      BY <2>5, <2>6
  <1>5. CASE Scaled(p, s)
    BY <1>3, <1>4, <1>5 DEF Scaled, Tallies
  <1>6. CASE Unscaled(p)
    <2>1. cl.db = p.db /\ cl.kv = p.kv /\ cl.off = {} /\ cl.tomb = {}
      BY <1>6 DEF Unscaled
    <2>2. cl'.db = s.db /\ cl'.kv = p.kv \cup s.kv /\ cl'.off \cup cl'.tomb = p.kv \ s.kv
      BY <1>1, <1>3, <2>1
    <2>3. cl'.inst = Instances(cl')
      BY <1>3 DEF Tallies, Instances
    <2> QED
      BY <1>3, <1>4, <2>2, <2>3 DEF Scaled, Tallies
  <1> QED
    BY <1>5, <1>6

\* Lemma: so does a scale-out.
LEMMA ScaleOutDoes ==
    ASSUME Types, NEW p, NEW s, Pair(p, s), IsScaleOut(p, s),
           ScaleOutCluster(p, s), Unscaled(p) \/ Scaled(p, s), Tallies
    PROVE /\ Scaled(p, s)' /\ Tallies'
          /\ cl'.st = cl.st /\ cl'.version = cl.version /\ cl'.conf = cl.conf
          /\ Scaled(p, s) => cl' = cl
  <1>1. p \in Specs /\ s \in Specs /\ p.db \subseteq s.db /\ p.kv \subseteq s.kv
    BY PairFacts
  <1>2. /\ cl' \in Cluster /\ cl \in Cluster
        /\ cl'.st = cl.st /\ cl'.version = cl.version /\ cl'.conf = cl.conf
        /\ cl'.patched = cl.patched
        /\ cl'.db = cl.db \cup (s.db \ p.db) /\ cl'.kv = cl.kv \cup (s.kv \ p.kv)
        /\ cl'.off = cl.off /\ cl'.tomb = cl.tomb
        /\ cl'.inst = cl.inst \cup ScaleOutRoles(p, s)
    BY <1>1, ScaleOutEffect DEF Types
  <1>3. ScaleOutRoles(p, s) = ({"db"} \X (s.db \ p.db)) \cup ({"kv"} \X (s.kv \ p.kv))
    BY DEF ScaleOutRoles, Instances
  <1>4. cl'.inst = Instances(cl')
    BY <1>2, <1>3 DEF Tallies, Instances
  <1>5. Scaled(p, s) => cl' = cl
    <2> SUFFICES ASSUME Scaled(p, s) PROVE cl' = cl
      OBVIOUS
    <2>1. cl'.db = cl.db /\ cl'.kv = cl.kv
      BY <1>2 DEF Scaled
    <2>2. cl'.inst = cl.inst
      BY <1>4, <2>1 DEF Tallies, Instances
    <2>3. PICK c, d : c = cl /\ d = cl'
      OBVIOUS
    <2>4. c = d
      BY <1>2, <2>1, <2>2, <2>3, SameCluster
    <2> QED
      BY <2>3, <2>4
  <1>6. CASE Scaled(p, s)
    BY <1>2, <1>5, <1>6 DEF Scaled, Tallies
  <1>7. CASE Unscaled(p)
    <2>1. cl'.db = s.db /\ cl'.kv = p.kv \cup s.kv /\ cl'.off \cup cl'.tomb = p.kv \ s.kv
      BY <1>1, <1>2, <1>7 DEF Unscaled
    <2> QED
      BY <1>2, <1>4, <1>5, <2>1 DEF Scaled, Tallies
  <1> QED
    BY <1>6, <1>7

\* Lemma: a reload changes the configuration only, since a change of it is no
\* scaling.
LEMMA ReloadDoes ==
    ASSUME Types, NEW p, NEW s, Pair(p, s), IsConfigModified(p, s), ReloadCluster(s),
           Unscaled(p) \/ Scaled(p, s)
    PROVE /\ cl' \in Cluster /\ cl'.st = cl.st /\ cl'.patched = cl.patched /\ cl'.inst = cl.inst
          /\ cl'.version = s.version /\ cl'.conf = s.conf
          /\ cl'.db = cl.db /\ cl'.kv = cl.kv /\ cl'.off = cl.off /\ cl'.tomb = cl.tomb
          /\ p.version = s.version
  <1>1. p \in Specs /\ s \in Specs /\ p.db = s.db /\ p.kv = s.kv /\ p.version = s.version
    <2>1. ~IsScaleIn(p, s) /\ ~IsScaleOut(p, s) /\ p.version = s.version
      BY PairFacts DEF IsConfigModified
    <2>2. p \in Specs /\ s \in Specs
      BY PairFacts
    <2>3. p.db \subseteq s.db /\ s.db \subseteq p.db /\ p.kv \subseteq s.kv /\ s.kv \subseteq p.kv
      BY <2>1, PairFacts
    <2> QED
      BY <2>1, <2>2, <2>3
  <1>2. /\ s.version \in Versions /\ s.conf \in Confs /\ s.db \in SUBSET Node
        /\ s.kv \in SUBSET Node /\ cl \in Cluster
    BY <1>1, SpecFields DEF Types
  <1>3. cl.db = s.db /\ cl.kv = s.kv /\ cl.off = {} /\ cl.tomb = {}
    BY <1>1 DEF Unscaled, Scaled
  <1>4. cl' = [cl EXCEPT !.version = s.version, !.conf = s.conf, !.db = s.db, !.kv = s.kv,
                         !.off = {}, !.tomb = {}]
    BY <1>2, <1>3 DEF ReloadCluster, Cluster
  <1> QED
    BY <1>1, <1>2, <1>3, <1>4 DEF Cluster

\* Lemma: and an upgrade the version only.
LEMMA UpgradeDoes ==
    ASSUME Types, NEW s \in Specs, UpgradeCluster(s)
    PROVE /\ cl' \in Cluster /\ cl'.st = cl.st /\ cl'.patched = cl.patched /\ cl'.inst = cl.inst
          /\ cl'.version = s.version /\ cl'.conf = cl.conf
          /\ cl'.db = cl.db /\ cl'.kv = cl.kv /\ cl'.off = cl.off /\ cl'.tomb = cl.tomb
  <1>1. s.version \in Versions /\ cl \in Cluster
    BY SpecFields DEF Types
  <1> QED
    BY <1>1 DEF UpgradeCluster, Cluster

\* Lemma: CalmInv is kept by a worker that goes on with an update from p to s
\* and changes nothing, because all has been done before.
LEMMA StaleKeeps ==
    ASSUME CalmInv, UNCHANGED <<cl, topo, view, request, hasty>>, kw.pc \in UpdateSteps,
           Calm => Stale(kw.obj.pre, kw.obj.spec),
           \/ kw'.pc = "idle"
           \/ kw'.pc \in UpdateSteps /\ kw'.obj = kw.obj /\ kw'.seen = kw.seen
    PROVE CalmInv'
  <1> SUFFICES ASSUME Calm' PROVE (ObjectOK /\ WorkerOK /\ CacheOK)'
    BY DEF CalmInv
  <1>1. Calm /\ ObjectOK /\ WorkerUpdating /\ CacheOK
    BY DEF Calm, CalmInv, WorkerOK
  <1>2. ObjectOK'
    BY <1>1 DEF ObjectOK, ObjectInstalling, ObjectFirst, ObjectReady, ObjectUpdating,
                Fresh, Matches, Deployed, Between, Unscaled, Scaled, Tallies
  <1>3. WorkerOK'
    BY <1>1 DEF WorkerOK, WorkerInstalling, WorkerUpdating, WorkerPruning, InstallSteps,
                UpdateSteps, Stale, Done, Scaled, Tallies
  <1>4. CacheOK'
    BY <1>1 DEF CacheOK, CacheInstalling, CacheUpdating, Following, Stale, Live, Done, Scaled,
                Tallies
  <1> QED
    BY <1>2, <1>3, <1>4

\* Lemma: CalmInv is kept by a worker that goes on with an update that the
\* object asks for.
LEMMA LiveKeeps ==
    ASSUME CalmInv, UNCHANGED <<topo, view, request, hasty>>, kw.pc \in UpdateSteps,
           NEW p, NEW s, kw.obj.pre = p, kw.obj.spec = s, Live(p, s),
           Between(p, s)',
           \/ kw'.pc = "idle"
           \/ /\ kw'.pc \in UpdateSteps /\ kw'.obj = kw.obj /\ kw'.seen = kw.seen
              /\ Progress(kw.pc, p, s)'
    PROVE CalmInv'
  <1> SUFFICES ASSUME Calm' PROVE (ObjectOK /\ WorkerOK /\ CacheOK)'
    BY DEF CalmInv
  <1>1. Calm /\ ObjectOK /\ WorkerUpdating /\ CacheOK
    BY DEF Calm, CalmInv, WorkerOK
  <1>2. topo.state = "updating" /\ topo.pre = p /\ topo.spec = s
    BY DEF Live
  <1>3. ObjectOK'
    BY <1>1, <1>2, UnsetIsNone
    DEF ObjectOK, ObjectInstalling, ObjectFirst, ObjectReady, ObjectUpdating
  <1>4. WorkerOK'
    <2>1. Pair(p, s) /\ kw.seen.state = "updating" /\ (kw.obj.scaling <=> IsScaleIn(p, s))
      BY <1>1 DEF WorkerUpdating
    <2>2. Live(p, s)'
      BY <1>2 DEF Live
    <2>3. WorkerInstalling' /\ WorkerPruning'
      BY DEF WorkerInstalling, WorkerPruning, InstallSteps, UpdateSteps
    <2>4. CASE kw'.pc = "idle"
      BY <2>3, <2>4 DEF WorkerOK, WorkerUpdating, UpdateSteps
    <2>5. CASE kw'.pc \in UpdateSteps /\ kw'.obj = kw.obj /\ kw'.seen = kw.seen
               /\ Progress(kw.pc, p, s)'
      <3>1. Progress(kw.pc, kw.obj.pre, kw.obj.spec)'
        BY <2>5 DEF Progress
      <3> QED
        BY <2>1, <2>2, <2>3, <2>5, <3>1 DEF WorkerOK, WorkerUpdating
    <2> QED
      BY <2>4, <2>5
  <1>5. CacheOK'
    BY <1>1, <1>2, UnsetIsNone
    DEF CacheOK, CacheInstalling, CacheUpdating, Following, Stale, Live
  <1> QED
    BY <1>3, <1>4, <1>5

Updates == Upgrade \/ Reload \/ ScaleIn \/ ScaleOut \/ Skip

\* Lemma: where the steps of an update lead the worker.
LEMMA UpdateEffect ==
    ASSUME LifeInv, Updates
    PROVE /\ UNCHANGED <<topo, view, request, nodes>> /\ kw.pc \in UpdateSteps
          /\ \/ kw'.pc = "idle"
             \/ kw'.pc \in UpdateSteps /\ kw'.obj = kw.obj /\ kw'.seen = kw.seen
          /\ Upgrade => kw.pc = "upgrade" /\ kw'.pc = "reload"
          /\ Reload => kw.pc = "reload" /\ kw'.pc \in {"idle", "scale-in"}
          /\ ScaleIn => kw.pc = "scale-in" /\ kw'.pc = "scale-out"
          /\ ScaleOut => kw.pc = "scale-out" /\ kw'.pc = "updated"
          /\ Skip => \/ kw.pc = "upgrade" /\ kw'.pc = "reload"
                     \/ kw.pc = "reload" /\ kw'.pc = "scale-in"
                     \/ kw.pc = "scale-in" /\ kw'.pc = "scale-out"
                     \/ kw.pc = "scale-out" /\ kw'.pc = "updated"
  <1>1. Types /\ UpdateSteps \subseteq KPc
    BY DEF LifeInv, KPc
  <1>2. UNCHANGED <<topo, view, request, nodes>> /\ kw.pc \in UpdateSteps
    BY DEF Updates, Upgrade, Reload, ScaleIn, ScaleOut, Skip, At, UpdateSteps
  <1>3. Upgrade => kw.pc = "upgrade" /\ Goto("reload")
    BY DEF Upgrade, At
  <1>4. Reload => kw.pc = "reload" /\ (kw' = KIdle \/ Goto("scale-in"))
    BY DEF Reload, At, Return
  <1>5. ScaleIn => kw.pc = "scale-in" /\ Goto("scale-out")
    BY DEF ScaleIn, At
  <1>6. ScaleOut => kw.pc = "scale-out" /\ Goto("updated")
    BY DEF ScaleOut, At
  <1>7. Skip => \/ kw.pc = "upgrade" /\ Goto("reload")
                \/ kw.pc = "reload" /\ Goto("scale-in")
                \/ kw.pc = "scale-in" /\ Goto("scale-out")
                \/ kw.pc = "scale-out" /\ Goto("updated")
    BY DEF Skip
  <1>8. \A pc \in UpdateSteps : Goto(pc) =>
           kw'.pc = pc /\ kw'.obj = kw.obj /\ kw'.seen = kw.seen
    BY <1>1, GotoEffect
  <1>9. /\ "reload" \in UpdateSteps /\ "scale-in" \in UpdateSteps /\ "scale-out" \in UpdateSteps
        /\ "updated" \in UpdateSteps
    BY DEF UpdateSteps
  <1> QED
    BY <1>2, <1>3, <1>4, <1>5, <1>6, <1>7, <1>8, <1>9, ReturnEffect DEF Updates

\* Lemma: a step of an update changes nothing when all has been done before.
LEMMA DoneStays ==
    ASSUME Types, Updates, NEW p, NEW s, kw.obj.pre = p, kw.obj.spec = s, Pair(p, s), Done(p, s)
    PROVE cl' = cl
  <1>1. /\ cl.st = "up" /\ cl.version = s.version /\ cl.conf = s.conf /\ Scaled(p, s) /\ Tallies
        /\ s \in Specs /\ cl \in Cluster
    BY PairFacts DEF Done, Types
  <1>2. PICK c, d : c = cl /\ d = cl'
    OBVIOUS
  <1>3. CASE Upgrade
    <2>1. /\ d \in Cluster /\ d.st = c.st /\ d.patched = c.patched /\ d.inst = c.inst
          /\ d.version = s.version /\ d.conf = c.conf
          /\ d.db = c.db /\ d.kv = c.kv /\ d.off = c.off /\ d.tomb = c.tomb
      BY <1>1, <1>2, <1>3, UpgradeDoes DEF Upgrade, NewSpec
    <2>2. d = c
      BY <1>1, <1>2, <2>1, SameCluster
    <2> QED
      BY <1>2, <2>2
  <1>4. CASE Reload
    <2>1. /\ d \in Cluster /\ d.st = c.st /\ d.patched = c.patched /\ d.inst = c.inst
          /\ d.version = s.version /\ d.conf = s.conf
          /\ d.db = c.db /\ d.kv = c.kv /\ d.off = c.off /\ d.tomb = c.tomb
      BY <1>1, <1>2, <1>4, ReloadDoes DEF Reload, NewSpec, OldSpec
    <2>2. d = c
      BY <1>1, <1>2, <2>1, SameCluster
    <2> QED
      BY <1>2, <2>2
  <1>5. CASE ScaleIn
    BY <1>1, <1>5, ScaleInDoes DEF ScaleIn, NewSpec, OldSpec
  <1>6. CASE ScaleOut
    BY <1>1, <1>6, ScaleOutDoes DEF ScaleOut, NewSpec, OldSpec
  <1>7. CASE Skip
    BY <1>7 DEF Skip
  <1> QED
    BY <1>3, <1>4, <1>5, <1>6, <1>7 DEF Updates

\* Lemma: a step of an update goes on from p towards s.
LEMMA UpdateProgress ==
    ASSUME LifeInv, Updates, NEW p, NEW s, kw.obj.pre = p, kw.obj.spec = s, Pair(p, s),
           Between(p, s), Progress(kw.pc, p, s)
    PROVE Between(p, s)' /\ (kw'.pc # "idle" => Progress(kw.pc, p, s)')
  <1>1. /\ cl.st = "up" /\ cl.version \in {p.version, s.version} /\ cl.conf \in {p.conf, s.conf}
        /\ Unscaled(p) \/ Scaled(p, s)
        /\ Tallies /\ s \in Specs /\ Types
    BY PairFacts DEF Between, LifeInv
  <1>2. CASE Upgrade
    <2>1. kw'.pc = "reload"
      BY <1>2, UpdateEffect
    <2>2. /\ cl'.st = cl.st /\ cl'.inst = cl.inst /\ cl'.version = s.version /\ cl'.conf = cl.conf
          /\ cl'.db = cl.db /\ cl'.kv = cl.kv /\ cl'.off = cl.off /\ cl'.tomb = cl.tomb
      BY <1>1, <1>2, UpgradeDoes DEF Upgrade, NewSpec
    <2>3. Between(p, s)'
      BY <1>1, <2>2, InstancesEqual DEF Between, Unscaled, Scaled, Tallies
    <2>4. kw'.pc = "reload" => Progress(kw.pc, p, s)'
      BY <2>2 DEF Progress
    <2> QED
      BY <2>1, <2>3, <2>4
  <1>3. CASE Reload
    <2>1. kw'.pc \in {"idle", "scale-in"}
      BY <1>3, UpdateEffect
    <2>2. /\ cl'.st = cl.st /\ cl'.inst = cl.inst /\ cl'.version = s.version /\ cl'.conf = s.conf
          /\ cl'.db = cl.db /\ cl'.kv = cl.kv /\ cl'.off = cl.off /\ cl'.tomb = cl.tomb
      BY <1>1, <1>3, ReloadDoes DEF Reload, NewSpec, OldSpec
    <2>3. Between(p, s)'
      BY <1>1, <2>2, InstancesEqual DEF Between, Unscaled, Scaled, Tallies
    <2>4. kw'.pc = "scale-in" => Progress(kw.pc, p, s)'
      BY <2>2 DEF Progress
    <2> QED
      BY <2>1, <2>3, <2>4
  <1>4. CASE ScaleIn
    <2>1. kw.pc = "scale-in" /\ kw'.pc = "scale-out"
      BY <1>4, UpdateEffect
    <2>2. /\ Scaled(p, s)' /\ Tallies'
          /\ cl'.st = cl.st /\ cl'.version = cl.version /\ cl'.conf = cl.conf
      BY <1>1, <1>4, ScaleInDoes DEF ScaleIn, NewSpec, OldSpec
    <2>3. Between(p, s)'
      BY <1>1, <2>2 DEF Between
    <2>4. kw'.pc = "scale-out" => Progress(kw.pc, p, s)'
      BY <2>1, <2>2 DEF Progress
    <2> QED
      BY <2>1, <2>3, <2>4
  <1>5. CASE ScaleOut
    <2>1. kw.pc = "scale-out" /\ kw'.pc = "updated"
      BY <1>5, UpdateEffect
    <2>2. /\ Scaled(p, s)' /\ Tallies'
          /\ cl'.st = cl.st /\ cl'.version = cl.version /\ cl'.conf = cl.conf
      BY <1>1, <1>5, ScaleOutDoes DEF ScaleOut, NewSpec, OldSpec
    <2>3. Between(p, s)'
      BY <1>1, <2>2 DEF Between
    <2>4. kw'.pc = "updated" => Progress(kw.pc, p, s)'
      BY <2>1, <2>2 DEF Progress
    <2> QED
      BY <2>1, <2>3, <2>4
  <1>6. CASE Skip
    <2>1. cl' = cl
      BY <1>6 DEF Skip
    <2>2. Between(p, s)'
      BY <1>1, <2>1 DEF Between, Unscaled, Scaled, Tallies
    <2>3. CASE kw.pc = "upgrade"
      <3>1. p.version = s.version /\ kw'.pc = "reload"
        BY <1>6, <2>3, UpdateEffect DEF Skip, IsUpgraded, NewSpec, OldSpec
      <3>2. kw'.pc = "reload" => Progress(kw.pc, p, s)'
        BY <1>1, <2>1, <3>1 DEF Progress
      <3> QED
        BY <2>2, <3>1, <3>2
    <2>4. CASE kw.pc = "reload"
      <3>1. p.conf = s.conf /\ kw'.pc = "scale-in"
        BY <1>6, <2>4, UpdateEffect DEF Skip, IsConfigModified, NewSpec, OldSpec
      <3>2. kw'.pc = "scale-in" => Progress(kw.pc, p, s)'
        BY <1>1, <2>1, <2>4, <3>1 DEF Progress
      <3> QED
        BY <2>2, <3>1, <3>2
    <2>5. CASE kw.pc = "scale-in"
      <3>1. ~IsScaleIn(p, s) /\ kw'.pc = "scale-out"
        BY <1>6, <2>5, UpdateEffect DEF Skip, NewSpec, OldSpec
      <3>2. kw'.pc = "scale-out" => Progress(kw.pc, p, s)'
        BY <2>1, <2>5, <3>1 DEF Progress
      <3> QED
        BY <2>2, <3>1, <3>2
    <2>6. CASE kw.pc = "scale-out"
      <3>1. ~IsScaleOut(p, s) /\ kw'.pc = "updated"
        BY <1>6, <2>6, UpdateEffect DEF Skip, NewSpec, OldSpec
      <3>2. IsScaleIn(p, s) => Scaled(p, s)
        BY <2>6 DEF Progress
      <3>3. ~IsScaleIn(p, s) => p.db = s.db /\ p.kv = s.kv
        <4>1. s.db \subseteq p.db /\ s.kv \subseteq p.kv
          BY <3>1, PairFacts
        <4>2. ~IsScaleIn(p, s) => p.db \subseteq s.db /\ p.kv \subseteq s.kv
          BY PairFacts
        <4> QED
          BY <4>1, <4>2
      <3>4. Scaled(p, s)
        BY <1>1, <3>2, <3>3 DEF Unscaled, Scaled
      <3>5. kw'.pc = "updated" => Progress(kw.pc, p, s)'
        BY <2>1, <2>6, <3>4 DEF Progress, Scaled
      <3> QED
        BY <2>2, <3>1, <3>5
    <2> QED
      BY <1>6, <2>3, <2>4, <2>5, <2>6 DEF Skip
  <1> QED
    BY <1>2, <1>3, <1>4, <1>5, <1>6 DEF Updates

\* Lemma: CalmInv is kept by the steps of an update.
LEMMA UpdateCalm ==
    ASSUME LifeInv, CalmInv, Updates, UNCHANGED hasty
    PROVE CalmInv'
  <1>1. /\ UNCHANGED <<topo, view, request, nodes>> /\ kw.pc \in UpdateSteps
        /\ \/ kw'.pc = "idle"
           \/ kw'.pc \in UpdateSteps /\ kw'.obj = kw.obj /\ kw'.seen = kw.seen
    BY UpdateEffect
  <1>2. PICK p, s : p = kw.obj.pre /\ s = kw.obj.spec
    OBVIOUS
  <1>3. CASE ~Calm
    BY <1>1, <1>3 DEF CalmInv, Calm
  <1>4. CASE Calm
    <2>1. ObjectOK /\ WorkerUpdating /\ CacheOK
      BY <1>4 DEF CalmInv, WorkerOK
    <2>2. Pair(p, s) /\ (Stale(p, s) \/ (Live(p, s) /\ Progress(kw.pc, p, s)))
      BY <1>1, <1>2, <2>1 DEF WorkerUpdating
    <2>3. CASE Stale(p, s)
      <3>1. cl' = cl
        BY <1>2, <2>2, <2>3, DoneStays DEF Stale, LifeInv
      <3> QED
        BY <1>1, <1>2, <2>3, <3>1, StaleKeeps
    <2>4. CASE Live(p, s) /\ Progress(kw.pc, p, s)
      <3>1. Between(p, s)
        BY <2>1, <2>4 DEF Live, ObjectOK, ObjectUpdating
      <3>2. Between(p, s)' /\ (kw'.pc # "idle" => Progress(kw.pc, p, s)')
        BY <1>2, <2>2, <2>4, <3>1, UpdateProgress
      <3> QED
        BY <1>1, <1>2, <2>4, <3>2, LiveKeeps
    <2> QED
      BY <2>2, <2>3, <2>4
  <1> QED
    BY <1>3, <1>4

----------------------------------------------------------------------------
(* CalmInv: prunes, and the writes at the end of calls.                     *)

\* Lemma: CalmInv is kept by a prune, which leaves the cluster of the
\* specification.
LEMMA PruneCalm == ASSUME LifeInv, CalmInv, Prune, UNCHANGED hasty PROVE CalmInv'
  <1>1. /\ UNCHANGED <<topo, view, request, nodes>> /\ kw.pc = "prune" /\ kw'.pc = "pruned"
        /\ kw'.obj = kw.obj /\ kw'.seen = kw.seen
    BY GotoEffect DEF Prune, At, KPc, LifeInv
  <1> SUFFICES ASSUME Calm' PROVE (ObjectOK /\ WorkerOK /\ CacheOK)'
    BY DEF CalmInv
  <1>2. Calm /\ ObjectOK /\ WorkerPruning /\ CacheOK
    BY <1>1 DEF Calm, CalmInv, WorkerOK
  <1>3. /\ topo = kw.obj /\ topo = kw.seen /\ topo.state = "ready" /\ topo.pre = topo.spec
        /\ topo.scaling /\ cl.off = {} /\ view.state # "updating"
    BY <1>1, <1>2 DEF WorkerPruning
  <1>4. topo.pre # None
    BY <1>3, SpecFields DEF LifeInv, Life
  <1>5. PICK p : p = topo.pre
    OBVIOUS
  <1>6. Deployed(p)
    BY <1>2, <1>3, <1>4, <1>5 DEF ObjectOK, ObjectReady
  <1>7. PICK k, i : k = cl.kv \ cl.tomb /\ i = cl.inst \ ({"kv"} \X cl.tomb)
    OBVIOUS
  <1>8. cl' = [cl EXCEPT !.kv = k, !.inst = i, !.tomb = {}] /\ cl \in Cluster
    BY <1>7 DEF Prune, PruneCluster, LifeInv, Types, Cluster
  <1>9. /\ cl'.st = cl.st /\ cl'.version = cl.version /\ cl'.conf = cl.conf /\ cl'.db = cl.db
        /\ cl'.kv = k /\ cl'.inst = i /\ cl'.tomb = {} /\ cl'.off = {}
    BY <1>3, <1>8 DEF Cluster
  <1>10. i = ({"db"} \X cl.db) \cup ({"kv"} \X k)
    BY <1>6, <1>7 DEF Deployed, Tallies, Instances
  <1>11. Tallies'
    BY <1>9, <1>10 DEF Tallies, Instances
  <1>12. k = p.kv
    BY <1>3, <1>6, <1>7 DEF Deployed
  <1>13. Deployed(p)'
    BY <1>6, <1>9, <1>11, <1>12 DEF Deployed
  <1>14. ObjectOK'
    BY <1>1, <1>3, <1>4, <1>5, <1>9, <1>13, UnsetIsNone
    DEF ObjectOK, ObjectInstalling, ObjectFirst, ObjectReady, ObjectUpdating
  <1>15. WorkerOK'
    BY <1>1, <1>3, <1>9
    DEF WorkerOK, WorkerInstalling, WorkerUpdating, WorkerPruning, InstallSteps, UpdateSteps
  <1>16. CacheOK'
    BY <1>1, <1>2, <1>3 DEF CacheOK, CacheInstalling, CacheUpdating, Following
  <1> QED
    BY <1>14, <1>15, <1>16

\* Lemma: CalmInv is kept by the status write at the end of a call.
LEMMA WriteOutcomeCalm ==
    ASSUME LifeInv, CalmInv, WriteOutcome, UNCHANGED hasty
    PROVE CalmInv'
  <1>1. /\ UNCHANGED <<cl, view, request, nodes>> /\ kw'.pc = "idle" /\ topo = kw.seen
        /\ topo'.spec = kw.obj.spec /\ topo'.del = kw.obj.del
        /\ kw.pc \in {"installed", "updated", "pruned"}
    BY WriteOutcomeEffect
  <1>2. ~topo.del /\ kw.obj.spec \in Specs
    BY <1>1 DEF LifeInv, Working, Busy, Copied
  <1> SUFFICES ASSUME Calm' PROVE (ObjectOK /\ WorkerOK /\ CacheOK)'
    BY DEF CalmInv
  <1>3. Calm /\ ObjectOK /\ WorkerOK /\ CacheOK
    BY <1>1, <1>2 DEF Calm, CalmInv
  <1>4. WorkerOK'
    BY <1>1 DEF WorkerOK, WorkerInstalling, WorkerUpdating, WorkerPruning, InstallSteps, UpdateSteps
  <1>5. PICK s : s = kw.obj.spec
    OBVIOUS
  <1>6. s \in Specs /\ s # None
    BY <1>2, <1>5, SpecFields
  <1>7. CASE kw.pc = "installed"
    <2>1. /\ kw.seen = kw.obj /\ kw.obj.state = "pending" /\ kw.obj.pre = None /\ ~kw.obj.scaling
          /\ topo.spec = s /\ cl.st = "up"
          /\ (s.patch = "Replace" => cl.patched) /\ (s.patch = "Patch" => cl.patched)
      BY <1>3, <1>5, <1>7 DEF WorkerOK, WorkerInstalling, InstallSteps
    <2>2. topo.state = "pending" /\ Fresh(s) /\ (cl.patched => s.patch # "none")
      BY <1>1, <1>3, <2>1 DEF ObjectOK, ObjectInstalling
    <2>3. cl.patched <=> s.patch # "none"
      BY <1>6, <2>1, <2>2, SpecFields
    <2>4. Instances(cl) = Instances(s)
      BY <2>2 DEF Fresh, Instances
    <2>5. Matches(s)
      BY <2>1, <2>2, <2>4 DEF Fresh, Tallies, Matches
    <2>6. Matches(s)'
      BY <1>1, <2>5 DEF Matches
    <2>7. topo'.state = "ready" /\ topo'.pre = None /\ ~topo'.scaling /\ topo'.spec = s
      BY <1>1, <1>5, <1>7, <2>1, WriteOutcomeEffect
    <2>8. ObjectOK'
      BY <1>1, <2>3, <2>6, <2>7, UnsetIsNone
      DEF ObjectOK, ObjectInstalling, ObjectFirst, ObjectReady, ObjectUpdating
    <2>9. CacheOK'
      BY <1>1, <1>3, <2>1, <2>2, <2>7
      DEF CacheOK, CacheInstalling, CacheUpdating, Following, Live, Stale
    <2> QED
      BY <1>4, <2>8, <2>9
  <1>8. CASE kw.pc = "updated"
    <2>1. PICK p : p = kw.obj.pre
      OBVIOUS
    <2>2. /\ Pair(p, s) /\ kw.seen.state = "updating" /\ (kw.obj.scaling <=> IsScaleIn(p, s))
          /\ Stale(p, s) \/ (Live(p, s) /\ Progress("updated", p, s))
      BY <1>3, <1>5, <1>8, <2>1 DEF WorkerOK, WorkerUpdating, UpdateSteps
    <2>3. Live(p, s) /\ Progress("updated", p, s)
      BY <1>1, <2>2 DEF Stale
    <2>4. Between(p, s) /\ topo.state = "updating" /\ topo.pre = p /\ topo.spec = s
      BY <1>3, <2>3 DEF Live, ObjectOK, ObjectUpdating
    <2>5. Done(p, s)
      BY <2>3, <2>4 DEF Progress, Between, Done
    <2>6. Deployed(s) /\ (~IsScaleIn(p, s) => cl.off = {} /\ cl.tomb = {})
      BY <2>2, <2>5, DoneIsDeployed
    <2>7. Deployed(s)' /\ Done(p, s)'
      BY <1>1, <2>5, <2>6 DEF Deployed, Done, Scaled, Tallies
    <2>8. /\ topo'.state = "ready" /\ topo'.pre = s /\ topo'.spec = s
          /\ (topo'.scaling <=> IsScaleIn(p, s))
      BY <1>1, <1>5, <1>8, <2>2, WriteOutcomeEffect
    <2>9. ObjectOK'
      BY <1>1, <1>6, <2>6, <2>7, <2>8, UnsetIsNone
      DEF ObjectOK, ObjectInstalling, ObjectFirst, ObjectReady, ObjectUpdating
    <2>10. CacheInstalling'
      BY <1>1, <1>3, <2>4, UnsetIsNone DEF CacheOK, CacheInstalling, Following
    <2>11. Stale(p, s)'
      BY <2>7, <2>8 DEF Stale
    <2>12. CacheUpdating'
      <3> SUFFICES ASSUME Following, view.state = "updating"
                   PROVE Pair(view.pre, view.spec) /\ ~view.scaling /\ view.pre = p /\ view.spec = s
        BY <1>1, <2>11 DEF CacheUpdating, Following
      <3> QED
        BY <1>3, <2>4 DEF CacheOK, CacheUpdating, Live, Stale
    <2> QED
      BY <1>4, <2>9, <2>10, <2>12 DEF CacheOK
  <1>9. CASE kw.pc = "pruned"
    <2>1. /\ topo = kw.obj /\ topo.state = "ready" /\ topo.pre = topo.spec
          /\ cl.off = {} /\ view.state # "updating" /\ cl.tomb = {}
      BY <1>3, <1>9 DEF WorkerOK, WorkerPruning
    <2>2. topo'.state = "ready" /\ topo'.pre = s /\ topo'.spec = s /\ ~topo'.scaling
          /\ topo.pre = s /\ topo.spec = s
      BY <1>1, <1>5, <1>9, <2>1, WriteOutcomeEffect
    <2>3. Deployed(s)
      BY <1>3, <1>6, <2>1, <2>2 DEF ObjectOK, ObjectReady
    <2>4. Deployed(s)'
      BY <1>1, <2>3 DEF Deployed, Tallies
    <2>5. ObjectOK'
      BY <1>1, <1>6, <2>1, <2>2, <2>4, UnsetIsNone
      DEF ObjectOK, ObjectInstalling, ObjectFirst, ObjectReady, ObjectUpdating
    <2>6. CacheOK'
      BY <1>1, <1>3, <1>6, <2>1, <2>2 DEF CacheOK, CacheInstalling, CacheUpdating, Following
    <2> QED
      BY <1>4, <2>5, <2>6
  <1> QED
    BY <1>1, <1>7, <1>8, <1>9

\* Lemma: CalmInv holds of an object that is not there, and of a new one
\* without cluster.
LEMMA NothingCalm ==
    ASSUME kw'.pc = "idle" \/ kw'.pc = "uninstalled", ~Following',
           \/ topo'.state = "absent"
           \/ topo'.state = Unset /\ topo'.pre = None /\ ~topo'.scaling /\ cl' = NoCluster
    PROVE CalmInv'
  <1>1. ObjectOK'
    BY UnsetIsNone, NoClusterIsCluster
    DEF ObjectOK, ObjectInstalling, ObjectFirst, ObjectReady, ObjectUpdating
  <1>2. WorkerOK'
    BY DEF WorkerOK, WorkerInstalling, WorkerUpdating, WorkerPruning, InstallSteps, UpdateSteps
  <1>3. CacheOK'
    BY DEF CacheOK, CacheInstalling, CacheUpdating
  <1> QED
    BY <1>1, <1>2, <1>3 DEF CalmInv

\* Lemma: CalmInv is kept when the finalizer is removed.
LEMMA RemoveFinalizerCalm ==
    ASSUME LifeInv, CalmInv, RemoveFinalizer, UNCHANGED hasty
    PROVE CalmInv'
  <1>1. UNCHANGED <<cl, view, request, nodes>> /\ kw.pc = "uninstalled" /\ kw'.pc = "idle"
    BY ReturnEffect DEF RemoveFinalizer, Return
  <1>2. CASE topo' = topo
    BY <1>1, <1>2, QuietKeeps
  <1>3. CASE topo' = Absent(topo.gen)
    <2>1. topo.gen \in 0 .. MaxGen
      BY DEF LifeInv, Types, TopologyObject
    <2>2. topo'.state = "absent"
      BY <1>3, <2>1, AbsentIsObject
    <2>3. ~Following'
      BY <1>1 DEF LifeInv, Working, Following
    <2> QED
      BY <1>1, <2>2, <2>3, NothingCalm
  <1> QED
    BY <1>2, <1>3 DEF RemoveFinalizer

----------------------------------------------------------------------------
(* CalmInv: steps of everybody else.                                        *)

\* Lemma: CalmInv is kept when a user creates or deletes the topology.
LEMMA ComesAndGoesCalm ==
    ASSUME LifeInv, CalmInv, DeleteByUser \/ \E s \in Specs : CreateTopology(s)
    PROVE CalmInv'
  <1>1. CASE \E s \in Specs : CreateTopology(s)
    <2>1. PICK s \in Specs : CreateTopology(s)
      BY <1>1
    <2>2. /\ UNCHANGED <<cl, view, kw>> /\ topo.state = "absent"
          /\ topo'.state = Unset /\ topo'.pre = None /\ ~topo'.scaling
      BY <2>1, CreateTopologyEffect
    <2>3. ~topo.fin /\ cl = NoCluster /\ ~Busy /\ ~Following
      BY <2>2 DEF LifeInv, Life, Empty, Working, Lag
    <2> QED
      BY <2>2, <2>3, NothingCalm DEF Busy, Following
  <1>2. CASE DeleteByUser
    <2>1. CASE topo.fin
      BY <1>2, <2>1, DeleteByUserEffect DEF CalmInv, Calm
    <2>2. CASE ~topo.fin
      <3>1. UNCHANGED <<view, kw>> /\ topo'.state = "absent"
        BY <1>2, <2>2, DeleteByUserEffect
      <3>2. ~Busy /\ ~Following
        BY <2>2 DEF LifeInv, Working, Lag
      <3> QED
        BY <3>1, <3>2, NothingCalm DEF Busy, Following
    <2> QED
      BY <2>1, <2>2
  <1> QED
    BY <1>1, <1>2

\* Lemma: CalmInv is kept when a user changes the specification of a settled
\* topology: the webhook and the user let pass a pair only.
LEMMA EditTopologyCalm ==
    ASSUME LifeInv, CalmInv, NEW s \in Specs, EditTopology(s)
    PROVE CalmInv'
  <1>1. /\ UNCHANGED <<cl, view, request, nodes, kw>> /\ ~topo.del /\ topo'.state = topo.state
        /\ topo'.spec = s /\ topo'.del = topo.del /\ topo'.pre = topo.pre
        /\ topo'.scaling = topo.scaling
    BY EditTopologyEffect
  <1> SUFFICES ASSUME Calm' PROVE (ObjectOK /\ WorkerOK /\ CacheOK)'
    BY DEF CalmInv
  <1>2. ~hasty /\ Settled /\ InPlace(s) /\ validateTiDBUpdate(topo, s)
    BY EditTopologyEffect DEF Calm
  <1>3. Calm /\ ObjectOK /\ WorkerOK /\ CacheOK
    BY <1>1, <1>2 DEF Calm, CalmInv
  <1>4. topo.state = "ready" /\ topo.pre = topo.spec /\ ~topo.scaling
    BY <1>2 DEF Settled
  <1>5. topo.spec \in Specs /\ topo.pre # None
    BY <1>4, SpecFields DEF LifeInv, Life
  <1>6. PICK p : p = topo.pre
    OBVIOUS
  <1>7. Deployed(p) /\ cl.off = {} /\ cl.tomb = {}
    BY <1>3, <1>4, <1>5, <1>6 DEF ObjectOK, ObjectReady
  <1>8. Pair(p, s)
    <2>1. checkAtMostOneKindUpdation(p, s) /\ checkSimultaneousScaleOutAndScaleIn(p, s)
      BY <1>2, <1>5, <1>6 DEF validateTiDBUpdate
    <2>2. Nested(p.db, s.db) /\ Nested(p.kv, s.kv)
      BY <1>2, <1>4, <1>6 DEF InPlace, Nested
    <2> QED
      BY <1>4, <1>5, <1>6, <2>1, <2>2 DEF Pair, checkSimultaneousScaleOutAndScaleIn
  <1>9. Deployed(p)'
    BY <1>1, <1>7 DEF Deployed, Tallies
  <1>10. ObjectOK'
    BY <1>1, <1>4, <1>5, <1>6, <1>7, <1>8, <1>9, UnsetIsNone
    DEF ObjectOK, ObjectInstalling, ObjectFirst, ObjectReady, ObjectUpdating
  <1>11. WorkerOK'
    <2>1. WorkerInstalling' /\ WorkerPruning'
      BY <1>1, <1>3, <1>4, <1>5 DEF WorkerOK, WorkerInstalling, WorkerPruning
    <2>2. WorkerUpdating'
      BY <1>1, <1>3, <1>4
      DEF WorkerOK, WorkerUpdating, Stale, Live, Done, Scaled, Tallies
    <2> QED
      BY <2>1, <2>2 DEF WorkerOK
  <1>12. CacheOK'
    <2>1. CacheInstalling'
      BY <1>1, <1>3, <1>5 DEF CacheOK, CacheInstalling, Following
    <2>2. CacheUpdating'
      BY <1>1, <1>3, <1>4
      DEF CacheOK, CacheUpdating, Following, Stale, Live, Done, Scaled, Tallies
    <2> QED
      BY <2>1, <2>2 DEF CacheOK
  <1> QED
    BY <1>10, <1>11, <1>12

\* Lemma: CalmInv is kept when the regions of a store have moved, which only
\* happens while somebody waits for it.
LEMMA MovedCalm ==
    ASSUME LifeInv, CalmInv, NEW h \in Node, Moved(h)
    PROVE CalmInv'
  <1>1. StoreMoved(h) /\ UNCHANGED <<topo, view, request, nodes, kw, hasty>> /\ Types
    BY DEF Moved, envVars, LifeInv
  <1>2. /\ h \in cl.off
        /\ cl'.st = cl.st /\ cl'.version = cl.version /\ cl'.conf = cl.conf
        /\ cl'.patched = cl.patched /\ cl'.inst = cl.inst
        /\ cl'.db = cl.db /\ cl'.kv = cl.kv
        /\ cl'.off = cl.off \ {h} /\ cl'.tomb = cl.tomb \cup {h}
    BY <1>1, StoreMovedEffect
  <1>3. PICK u : u = cl.off \cup cl.tomb
    OBVIOUS
  <1>4. cl'.off \cup cl'.tomb = u /\ cl.off # {}
    BY <1>2, <1>3
  <1> SUFFICES ASSUME Calm' PROVE (ObjectOK /\ WorkerOK /\ CacheOK)'
    BY DEF CalmInv
  <1>5. Calm /\ ObjectOK /\ WorkerOK /\ CacheOK
    BY <1>1 DEF Calm, CalmInv
  <1>6. Tallies => Tallies'
    BY <1>2 DEF Tallies, Instances
  <1>7. \A p, s : Scaled(p, s) => Scaled(p, s)'
    BY <1>2, <1>3, <1>4 DEF Scaled
  <1>8. \A p, s : Done(p, s) => Done(p, s)'
    BY <1>2, <1>6, <1>7 DEF Done
  <1>9. \A p, s : Between(p, s) => Between(p, s)'
    BY <1>2, <1>4, <1>6, <1>7 DEF Between, Unscaled
  <1>10. \A s : Deployed(s) => Deployed(s)'
    <2> SUFFICES ASSUME NEW s, Deployed(s) PROVE Deployed(s)'
      OBVIOUS
    <2>1. cl.kv = s.kv \cup u /\ u \cap s.kv = {}
      BY <1>3 DEF Deployed
    <2>2. cl'.kv = s.kv \cup cl'.off \cup cl'.tomb /\ (cl'.off \cup cl'.tomb) \cap s.kv = {}
      BY <1>2, <1>4, <2>1
    <2> QED
      BY <1>2, <1>6, <2>2 DEF Deployed
  <1>11. ObjectOK'
    <2>1. topo.state \notin {Unset, "pending"}
      BY <1>4, <1>5, NoClusterIsCluster DEF ObjectOK, ObjectInstalling, Fresh
    <2>2. ~(topo.state = "ready" /\ topo.pre = None)
      BY <1>4, <1>5 DEF ObjectOK, ObjectFirst, Matches
    <2>3. ObjectReady'
      <3> SUFFICES ASSUME topo.state = "ready", topo.pre # None
                   PROVE /\ Deployed(topo.pre)' /\ topo.scaling /\ topo.pre = topo.spec
        BY <1>1 DEF ObjectReady
      <3>1. Deployed(topo.pre) /\ topo.scaling /\ topo.pre = topo.spec
        BY <1>4, <1>5 DEF ObjectOK, ObjectReady
      <3>2. PICK p : p = topo.pre
        OBVIOUS
      <3>3. Deployed(p)'
        BY <1>10, <3>1, <3>2
      <3>4. topo'.pre = p
        BY <1>1, <3>2
      <3> QED
        BY <3>1, <3>3, <3>4
    <2>4. ObjectUpdating'
      <3> SUFFICES ASSUME topo.state = "updating"
                   PROVE ~topo.scaling /\ Pair(topo.pre, topo.spec) /\ Between(topo.pre, topo.spec)'
        BY <1>1 DEF ObjectUpdating
      <3>1. ~topo.scaling /\ Pair(topo.pre, topo.spec) /\ Between(topo.pre, topo.spec)
        BY <1>5 DEF ObjectOK, ObjectUpdating
      <3>2. PICK p, s : p = topo.pre /\ s = topo.spec
        OBVIOUS
      <3>3. Between(p, s)'
        BY <1>9, <3>1, <3>2
      <3>4. topo'.pre = p /\ topo'.spec = s
        BY <1>1, <3>2
      <3> QED
        BY <3>1, <3>3, <3>4
    <2> QED
      BY <1>1, <2>1, <2>2, <2>3, <2>4 DEF ObjectOK, ObjectInstalling, ObjectFirst
  <1>12. WorkerOK'
    <2>1. WorkerInstalling'
      BY <1>1, <1>2, <1>5 DEF WorkerOK, WorkerInstalling
    <2>2. WorkerPruning'
      BY <1>1, <1>4, <1>5 DEF WorkerOK, WorkerPruning
    <2>3. WorkerUpdating'
      <3> SUFFICES ASSUME kw.pc \in UpdateSteps PROVE WorkerUpdating'
        BY <1>1 DEF WorkerUpdating
      <3>1. PICK p, s : p = kw.obj.pre /\ s = kw.obj.spec
        OBVIOUS
      <3>2. /\ Pair(p, s) /\ kw.seen.state = "updating" /\ (kw.obj.scaling <=> IsScaleIn(p, s))
            /\ Stale(p, s) \/ (Live(p, s) /\ Progress(kw.pc, p, s))
        BY <1>5, <3>1 DEF WorkerOK, WorkerUpdating
      <3>3. Stale(p, s) => Stale(p, s)'
        BY <1>1, <1>8 DEF Stale
      <3>4. Live(p, s) => Live(p, s)'
        BY <1>1 DEF Live
      <3>5. Progress(kw.pc, p, s) => Progress(kw.pc, p, s)'
        BY <1>1, <1>2, <1>7 DEF Progress
      <3>6. kw'.obj.pre = p /\ kw'.obj.spec = s /\ kw' = kw
        BY <1>1, <3>1
      <3> QED
        BY <3>2, <3>3, <3>4, <3>5, <3>6 DEF WorkerUpdating
    <2> QED
      BY <2>1, <2>2, <2>3 DEF WorkerOK
  <1>13. CacheOK'
    <2>1. CacheInstalling'
      BY <1>1, <1>5 DEF CacheOK, CacheInstalling, Following
    <2>2. CacheUpdating'
      <3> SUFFICES ASSUME Following, view.state = "updating" PROVE CacheUpdating'
        BY <1>1 DEF CacheUpdating, Following
      <3>1. PICK p, s : p = view.pre /\ s = view.spec
        OBVIOUS
      <3>2. Pair(p, s) /\ ~view.scaling /\ (Live(p, s) \/ Stale(p, s))
        BY <1>5, <3>1 DEF CacheOK, CacheUpdating
      <3>3. Live(p, s)' \/ Stale(p, s)'
        BY <1>1, <1>8, <3>2 DEF Live, Stale
      <3>4. view'.pre = p /\ view'.spec = s /\ view' = view
        BY <1>1, <3>1
      <3> QED
        BY <3>2, <3>3, <3>4 DEF CacheUpdating
    <2> QED
      BY <2>1, <2>2 DEF CacheOK
  <1> QED
    BY <1>11, <1>12, <1>13

\* Lemma: CalmInv is kept by what happens to requests and nodes.
LEMMA OutsideCalm ==
    ASSUME LifeInv, CalmInv,
           \/ RequestReady \/ DeleteRequest
           \/ \E h \in Node : NodeStarts(h) \/ NodeEnds(h)
           \/ NodesGiven /\ UNCHANGED hasty
    PROVE CalmInv'
  <1>1. CASE DeleteRequest
    BY <1>1 DEF DeleteRequest, CalmInv, Calm
  <1>2. CASE RequestReady \/ \E h \in Node : NodeStarts(h) \/ NodeEnds(h)
    <2>1. UNCHANGED <<cl, topo, view, kw, hasty>> /\ (request = "absent" => request' = "absent")
      BY <1>2 DEF RequestReady, NodeStarts, NodeEnds, envVars
    <2> QED
      BY <2>1, QuietKeeps
  <1>3. CASE NodesGiven /\ UNCHANGED hasty
    <2>1. UNCHANGED <<cl, topo, view, request, hasty>> /\ (kw' = kw \/ kw' = KIdle)
      BY <1>3 DEF NodesGiven, InitForInstall, InitForScaleOut, Return
    <2> QED
      BY <2>1, QuietKeeps, ReturnEffect
  <1> QED
    BY <1>1, <1>2, <1>3

\* Lemma: CalmInv holds initially.
LEMMA CalmInvInit == ASSUME Init PROVE CalmInv
  <1>1. 0 \in 0 .. MaxGen
    BY MaxGenIsNat
  <1>2. topo = Absent(0) /\ view = Absent(0) /\ kw = KIdle
    BY DEF Init, ControllerInit
  <1>3. topo.state = "absent" /\ ~view.fin
    BY <1>1, <1>2, AbsentIsObject
  <1>4. kw.pc = "idle"
    BY <1>2 DEF KIdle, Worker
  <1>5. ObjectOK
    BY <1>3, UnsetIsNone DEF ObjectOK, ObjectInstalling, ObjectFirst, ObjectReady, ObjectUpdating
  <1>6. WorkerOK
    BY <1>4 DEF WorkerOK, WorkerInstalling, WorkerUpdating, WorkerPruning, InstallSteps, UpdateSteps
  <1>7. CacheOK
    BY <1>3 DEF CacheOK, CacheInstalling, CacheUpdating, Following
  <1> QED
    BY <1>5, <1>6, <1>7 DEF CalmInv

\* Lemma: CalmInv is kept by every step that LifeInv allows.
LEMMA CalmInvKept == ASSUME LifeInv, CalmInv, [Next]_vars PROVE CalmInv'
  <1>1. CASE UNCHANGED vars
    BY <1>1, QuietKeeps DEF vars, controllerVars, envVars
  <1>2. CASE TopologyStep
    <2>1. UNCHANGED <<faults, hasty>>
      BY <1>2 DEF TopologyStep, envVars
    <2>2. CASE TopologyBegin
      BY <2>1, <2>2, ReadsCalm, OutsideCalm, BeginCalm, CheckScaleInCalm, DeleteTopologyCalm
      DEF TopologyBegin, Reads, NodesGiven
    <2>3. CASE CommandFails \/ WriteRefused
      <3>1. CallEnds
        BY <2>1, <2>3 DEF CallEnds, envVars
      <3> QED
        BY <3>1, CallEndsEffect, ReturnEffect, QuietKeeps
    <2>4. CASE TopologyContinue
      BY <2>1, <2>3, <2>4, InstallCalm, UpdateCalm, PruneCalm, OutsideCalm, WriteOutcomeCalm,
         RemoveFinalizerCalm
      DEF TopologyContinue, Installs, Updates, NodesGiven
    <2> QED
      BY <1>2, <2>2, <2>4 DEF TopologyStep
  <1>3. CASE CutOff
    BY <1>3, CallEndsEffect, ReturnEffect, QuietKeeps DEF CallEnds
  <1> QED
    BY <1>1, <1>2, <1>3, WatchCalm, ComesAndGoesCalm, EditTopologyCalm, OutsideCalm, MovedCalm
    DEF Next

\* Theorem: CalmInv holds throughout.
THEOREM CalmHolds == Spec => []CalmInv
  BY LifeInvInit, LifeInvKept, CalmInvInit, CalmInvKept, PTL DEF Spec

\* Theorem: whenever the status says that the last specification has been
\* deployed, the cluster is the one it asks for (updateTiDBCluster and
\* installTiDBCluster of testclustertopology_controller.go), whatever version
\* the cache shows and wherever calls are cut off and repeated.
THEOREM SettledTopologiesAreDeployed == Spec => []SettledIsDeployed
  <1>1. ASSUME LifeInv, CalmInv PROVE SettledIsDeployed
    <2> SUFFICES ASSUME ~hasty, request # "absent", topo.state = "ready", ~topo.del
                 PROVE /\ Settled => Matches(topo.spec)
                       /\ topo.pre = None =>
                            Matches(topo.spec) /\ (cl.patched <=> topo.spec.patch # "none")
      BY DEF SettledIsDeployed, Settled
    <2>1. ObjectOK
      BY <1>1 DEF CalmInv, Calm
    <2>2. topo.pre = None => Matches(topo.spec) /\ (cl.patched <=> topo.spec.patch # "none")
      BY <2>1 DEF ObjectOK, ObjectFirst
    <2>3. ASSUME Settled, topo.pre # None PROVE Matches(topo.spec)
      <3>1. Deployed(topo.spec) /\ cl.off = {} /\ cl.tomb = {}
        BY <2>1, <2>3 DEF ObjectOK, ObjectReady, Settled
      <3> QED
        BY <3>1, DeployedMatches
    <2> QED
      BY <2>2, <2>3
  <1> QED
    BY <1>1, LifeHolds, CalmHolds, PTL

\* Theorem: a store that is going is known to the status, or the update that
\* sends it away is still to be finished (checkTiKVFinishedScaleIn), so that it
\* is pruned in the end and not forgotten.
THEOREM GoingStoresAreTracked == Spec => []GoingIsTracked
  <1>1. ASSUME LifeInv, CalmInv PROVE GoingIsTracked
    <2> SUFFICES ASSUME ~hasty, cl.off # {} \/ cl.tomb # {}, ~topo.del, ~topo.scaling
                 PROVE topo.state = "updating"
      BY DEF GoingIsTracked
    <2>1. cl # NoCluster
      BY NoClusterIsCluster
    <2>2. request = "ready" /\ topo.state # "absent"
      BY <1>1, <2>1 DEF LifeInv, Life, Empty, Types
    <2>3. ObjectOK
      BY <1>1, <2>2 DEF CalmInv, Calm
    <2>4. topo.state \notin {Unset, "pending"}
      BY <2>1, <2>3 DEF ObjectOK, ObjectInstalling, Fresh
    <2>5. topo.state # "ready"
      BY <2>3 DEF ObjectOK, ObjectFirst, ObjectReady, Matches
    <2> QED
      BY <1>1, <2>2, <2>4, <2>5 DEF LifeInv, Types, TopologyObject
  <1> QED
    BY <1>1, LifeHolds, CalmHolds, PTL

----------------------------------------------------------------------------
(* What a step may never do to an instance that is wanted.                  *)

Kept(i) ==
    \/ i \in cl'.inst /\ i \notin {"kv"} \X cl'.off
    \/ topo.del \/ hasty \/ request' = "absent"

WantedKept ==
    \A i \in Instances(cl) \ ({"kv"} \X cl.off) : i \in Instances(topo.spec) => Kept(i)

\* Lemma: a cluster c with the hosts of s serves all instances of s.
LEMMA Served ==
    ASSUME NEW c, NEW s, c.inst = Instances(c), s.db \subseteq c.db, s.kv \subseteq c.kv,
           c.off \cap s.kv = {}
    PROVE \A i \in Instances(s) : i \in c.inst /\ i \notin {"kv"} \X c.off
  BY DEF Instances

\* Lemma: without a request, or without a cluster, nothing can be taken away.
LEMMA NothingTaken == ASSUME LifeInv, cl = NoCluster \/ request = "absent" PROVE WantedKept
  <1>1. cl.db = {} /\ cl.kv = {}
    BY NoClusterIsCluster DEF LifeInv, Empty
  <1>2. Instances(cl) = {}
    BY <1>1 DEF Instances
  <1> QED
    BY <1>2 DEF WantedKept

\* Lemma: the instances are those in the meta file.
LEMMA CalmTallies == ASSUME LifeInv, CalmInv, Calm PROVE Tallies
  <1>1. ObjectOK
    BY DEF CalmInv
  <1>2. CASE cl = NoCluster
    BY <1>2, NoClusterIsCluster DEF Tallies, Instances
  <1>3. CASE cl # NoCluster
    <2>1. topo.state # "absent"
      BY <1>3 DEF LifeInv, Life, Empty
    <2>2. topo.state \in {Unset, "pending"} => Tallies
      BY <1>1, <1>3 DEF ObjectOK, ObjectInstalling, Fresh
    <2>3. topo.state = "ready" /\ topo.pre # None => Tallies
      BY <1>1 DEF ObjectOK, ObjectReady, Deployed
    <2>4. topo.state = "ready" /\ topo.pre = None => Tallies
      BY <1>1, MatchesDeployed DEF ObjectOK, ObjectFirst
    <2>5. topo.state = "updating" => Tallies
      BY <1>1 DEF ObjectOK, ObjectUpdating, Between
    <2> QED
      BY <2>1, <2>2, <2>3, <2>4, <2>5 DEF LifeInv, Types, TopologyObject
  <1> QED
    BY <1>2, <1>3

\* Lemma: an instance stays where none goes and no further store is sent away.
LEMMA NoneTaken ==
    ASSUME Tallies, cl.inst \subseteq cl'.inst, cl'.off \subseteq cl.off
    PROVE WantedKept
  <1>1. \A i \in cl.inst \ ({"kv"} \X cl.off) : i \in cl'.inst /\ i \notin {"kv"} \X cl'.off
    OBVIOUS
  <1> QED
    BY <1>1 DEF Tallies, WantedKept, Kept

\* Lemma: the steps of an update take away no instance that is wanted.
LEMMA UpdateWanted ==
    ASSUME LifeInv, CalmInv, Calm, Updates
    PROVE WantedKept
  <1>1. kw.pc \in UpdateSteps /\ Types /\ Tallies
    BY UpdateEffect, CalmTallies DEF LifeInv
  <1>2. PICK p, s : p = kw.obj.pre /\ s = kw.obj.spec
    OBVIOUS
  <1>3. Pair(p, s) /\ (Stale(p, s) \/ Live(p, s)) /\ ObjectOK
    BY <1>1, <1>2 DEF CalmInv, WorkerOK, WorkerUpdating
  <1>4. s \in Specs
    BY <1>3, PairFacts
  <1>5. CASE Stale(p, s)
    <2>1. cl' = cl
      BY <1>1, <1>2, <1>3, <1>5, DoneStays DEF Stale
    <2> QED
      BY <1>1, <2>1, NoneTaken
  <1>6. CASE Live(p, s)
    <2>1. topo.spec = s /\ (Unscaled(p) \/ Scaled(p, s))
      BY <1>3, <1>6 DEF Live, ObjectOK, ObjectUpdating, Between
    <2>2. CASE Upgrade
      BY <1>1, <1>2, <1>4, <2>2, UpgradeDoes, NoneTaken DEF Upgrade, NewSpec
    <2>3. CASE Reload
      BY <1>1, <1>2, <1>3, <2>1, <2>3, ReloadDoes, NoneTaken DEF Reload, NewSpec, OldSpec
    <2>4. CASE ScaleIn \/ ScaleOut
      <3>1. Scaled(p, s)' /\ Tallies'
        BY <1>1, <1>2, <1>3, <2>1, <2>4, ScaleInDoes, ScaleOutDoes
        DEF ScaleIn, ScaleOut, NewSpec, OldSpec
      <3>2. PICK c : c = cl'
        OBVIOUS
      <3>3. /\ c.inst = Instances(c) /\ s.db \subseteq c.db /\ s.kv \subseteq c.kv
            /\ c.off \cap s.kv = {}
        BY <3>1, <3>2 DEF Scaled, Tallies
      <3>4. \A i \in Instances(s) : i \in c.inst /\ i \notin {"kv"} \X c.off
        BY <3>3, Served
      <3> QED
        BY <2>1, <3>2, <3>4 DEF WantedKept, Kept
    <2>5. CASE Skip
      BY <1>1, <2>5, NoneTaken DEF Skip
    <2> QED
      BY <2>2, <2>3, <2>4, <2>5 DEF Updates
  <1> QED
    BY <1>3, <1>5, <1>6

\* Lemma: nor do those of an installation.
LEMMA InstallWanted ==
    ASSUME LifeInv, CalmInv, Calm, Installs
    PROVE WantedKept
  <1>1. PICK s : s = kw.obj.spec
    OBVIOUS
  <1>2. s \in Specs /\ Tallies
    BY <1>1, CalmTallies
    DEF LifeInv, Working, Busy, Copied, Installs, Deploy, Replace, Start, Patch, At
  <1>3. kw.pc \in InstallSteps
    BY <1>1, <1>2, InstallEffect
  <1>4. ObjectOK /\ WorkerInstalling
    BY DEF CalmInv, WorkerOK
  <1>5. topo.pre = None /\ topo.state \in {Unset, "pending", "ready"}
    BY <1>3, <1>4 DEF WorkerInstalling
  <1>6. CASE cl.st = "none"
    <2>1. cl = NoCluster
      BY <1>4, <1>5, <1>6 DEF ObjectOK, ObjectInstalling, ObjectFirst, Matches
    <2> QED
      BY <2>1, NothingTaken
  <1>7. CASE cl.st # "none"
    <2>1. cl'.inst = cl.inst /\ cl'.off = cl.off
      BY <1>1, <1>2, <1>7, InstallEffect DEF FieldsStay
    <2> QED
      BY <1>2, <2>1, NoneTaken
  <1> QED
    BY <1>6, <1>7

\* Lemma: nor does a prune, which takes stores that are no longer asked for.
LEMMA PruneWanted ==
    ASSUME LifeInv, CalmInv, Calm, Prune, UNCHANGED hasty
    PROVE WantedKept
  <1>1. UNCHANGED <<topo, view, request, nodes>> /\ kw.pc = "prune"
    BY DEF Prune, At
  <1>2. CalmInv' /\ Calm'
    BY <1>1, PruneCalm DEF Calm
  <1>3. topo.state = "ready" /\ topo.pre = topo.spec
    BY <1>1 DEF CalmInv, WorkerOK, WorkerPruning
  <1>4. topo.spec # None
    BY <1>3, SpecFields DEF LifeInv, Life
  <1>5. PICK c, s : c = cl' /\ s = topo.spec
    OBVIOUS
  <1>6. Deployed(s)'
    BY <1>1, <1>2, <1>3, <1>4, <1>5 DEF CalmInv, ObjectOK, ObjectReady
  <1>7. /\ c.inst = Instances(c) /\ s.db \subseteq c.db /\ s.kv \subseteq c.kv
        /\ c.off \cap s.kv = {}
    BY <1>5, <1>6 DEF Deployed, Tallies
  <1>8. \A i \in Instances(s) : i \in c.inst /\ i \notin {"kv"} \X c.off
    BY <1>7, Served
  <1> QED
    BY <1>5, <1>8 DEF WantedKept, Kept

\* Lemma: a step changes the cluster in one of these ways.
LEMMA ClusterSteps ==
    ASSUME [Next]_vars, cl' # cl
    PROVE \/ (Installs \/ Updates \/ Prune \/ DeleteTopology) /\ UNCHANGED hasty
          \/ DeleteRequest \/ \E h \in Node : Moved(h)
  <1>1. Next
    BY DEF vars, controllerVars
  <1>2. ASSUME TopologyBegin PROVE DeleteTopology
    BY <1>2 DEF TopologyBegin, AddFinalizer, BeginPending, InitForInstall, BeginInstall, FirstPre,
                BeginUpdating, CheckScaleIn, BeginUpdate
  <1>3. ASSUME TopologyContinue PROVE Installs \/ Updates \/ Prune
    BY <1>3 DEF TopologyContinue, Installs, Updates, InitForScaleOut, CommandFails, WriteOutcome,
                WriteRefused, RemoveFinalizer
  <1>4. ~Watch /\ ~DeleteByUser /\ ~RequestReady /\ ~CutOff
    BY DEF Watch, WatchTopology, DeleteByUser, RequestReady, CutOff
  <1>5. TopologyStep \/ DeleteRequest \/ \E h \in Node : Moved(h)
    <2>1. ~\E s \in Specs : CreateTopology(s) \/ EditTopology(s)
      BY DEF CreateTopology, EditTopology
    <2>2. ASSUME NEW h \in Node, NodeStarts(h) \/ NodeEnds(h) \/ Moved(h) PROVE Moved(h)
      BY <2>2 DEF NodeStarts, NodeEnds
    <2>3. (\E h \in Node : NodeStarts(h) \/ NodeEnds(h) \/ Moved(h)) => \E h \in Node : Moved(h)
      BY <2>2
    <2> QED
      BY <1>1, <1>4, <2>1, <2>3 DEF Next
  <1>6. ASSUME TopologyStep
        PROVE (Installs \/ Updates \/ Prune \/ DeleteTopology) /\ UNCHANGED hasty
    <2>1. (TopologyBegin \/ TopologyContinue) /\ UNCHANGED hasty
      BY <1>6 DEF TopologyStep, envVars
    <2> QED
      BY <1>2, <1>3, <2>1
  <1> QED
    BY <1>5, <1>6

\* Theorem: no step takes away, or sends away, an instance that the
\* specification asks for (ScaleInCluster, Prune and UninstallCluster of package
\* cluster), also when a call that has been done is repeated from a stale cache.
THEOREM WantedInstancesStay == Spec => WantedStays
  <1>1. ASSUME LifeInv, CalmInv, [Next]_vars PROVE [WantedKept]_cl
    <2> SUFFICES ASSUME cl' # cl, ~topo.del, ~hasty, request' # "absent" PROVE WantedKept
      BY DEF WantedKept, Kept
    <2>1. CASE request = "absent"
      BY <1>1, <2>1, NothingTaken
    <2>2. CASE request # "absent"
      <3>1. Calm
        BY <2>2 DEF Calm
      <3>2. CASE Installs
        BY <1>1, <3>1, <3>2, InstallWanted
      <3>3. CASE Updates
        BY <1>1, <3>1, <3>3, UpdateWanted
      <3>4. CASE Prune /\ UNCHANGED hasty
        BY <1>1, <3>1, <3>4, PruneWanted
      <3>5. CASE DeleteTopology
        <4>1. cl = NoCluster
          BY <1>1, <3>5, DeleteTopologyEffect DEF LifeInv, Lag, Empty
        <4> QED
          BY <1>1, <4>1, NothingTaken
      <3>6. CASE DeleteRequest
        BY <3>6 DEF DeleteRequest
      <3>7. CASE \E h \in Node : Moved(h)
        <4>1. PICK h \in Node : StoreMoved(h)
          BY <3>7 DEF Moved
        <4>2. cl'.inst = cl.inst /\ cl'.off \subseteq cl.off
          BY <1>1, <4>1, StoreMovedEffect DEF LifeInv
        <4> QED
          BY <1>1, <3>1, <4>2, CalmTallies, NoneTaken
      <3> QED
        BY <1>1, <3>2, <3>3, <3>4, <3>5, <3>6, <3>7, ClusterSteps
    <2> QED
      BY <2>1, <2>2
  <1>2. (LifeInv /\ CalmInv /\ [Next]_vars) => [WantedKept]_cl
    BY <1>1
  <1>3. Spec => [][WantedKept]_cl
    BY <1>2, LifeHolds, CalmHolds, PTL DEF Spec
  <1> QED
    BY <1>3 DEF WantedStays, WantedKept, Kept
=============================================================================
