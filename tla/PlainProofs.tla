---------------------------- MODULE PlainProofs -----------------------------
(***************************************************************************)
(* For every set of topologies on every set of nodes, and any number of    *)
(* faults and of creations: a topology that is gone has left nothing but   *)
(* the file that a daemon has kept, one of DM or TiDB that is ready is     *)
(* installed, and an HAProxy that is started reads the file of its own     *)
(* topology.                                                               *)
(*                                                                         *)
(* What the worker writes last was done some steps before, on nodes that   *)
(* may have gone since and for a topology that may be deleted meanwhile,   *)
(* so the invariant says what it may still rely on: the finalizer is kept  *)
(* while it is at work (AtWork), what it did has not been undone unless    *)
(* the request is going (WorkDone), nodes go with the request only         *)
(* (NodesGo), what is on nodes and machines was put there by a topology    *)
(* whose plan says so (Footprint) and that has its finalizer (Finalized).  *)
(***************************************************************************)
EXTENDS PlainTopology, TLAPS

\* Before the request is deleted.
Early == request \in {"pending", "ready"}

KPc == {"idle", "init", "proxy", "config", "deploy", "start", "installed", "uninstall",
        "uninstalled"}

KWorker == [pc : KPc, t : Topology \cup {AnyTopology}, obj : Object, todo : SUBSET Node,
            list : {<<>>} \cup [Node -> Resource], again : BOOLEAN]

\* The types, also of what the worker holds.
Types ==
    /\ topo \in [Topology -> Object]
    /\ request \in {"pending", "ready", "going", "absent"}
    /\ nodes \in [Node -> Resource] /\ seen \in [Node -> Resource]
    /\ cl \in [Topology -> {"none", "deployed", "started"}]
    /\ files \in [Machine -> Topology \cup {None}]
    /\ kw \in KWorker
    /\ spoiled \in BOOLEAN

\* Whose topology the worker is at, and what it has listed.
AtWork ==
    /\ kw.pc # "idle" => kw.t \in Topology /\ topo[kw.t].fin
    /\ kw.pc \notin {"idle", "uninstalled"} => request # "pending"
    /\ kw.pc \in {"uninstall", "uninstalled"} => topo[kw.t].del
    /\ kw.pc \in {"deploy", "start", "config", "proxy"} => Plan[kw.t].kind # "flink"
    /\ kw.pc \in {"config", "proxy"} => Plan[kw.t].proxy # None
    /\ kw.pc \in {"init", "config", "proxy"} => kw.list \in [Node -> Resource]

\* What the worker has done before it writes the topology.
WorkDone ==
    /\ kw.pc = "installed" /\ Plan[kw.t].kind # "flink" /\ Early => cl[kw.t] = "started"
    /\ kw.pc = "uninstalled" => cl[kw.t] = "none"
    /\ kw.pc \in {"uninstall", "uninstalled"} /\ Early /\ kw.t \notin kept =>
          \A m \in Machine : files[m] # kw.t

\* Nodes go after the request has been deleted and before it is gone.
NodesGo ==
    \A h \in Node :
        /\ seen[h].state = "gone" => nodes[h].state = "gone"
        /\ nodes[h].state = "gone" => ~Early
        /\ request = "absent" => nodes[h].state = "gone"

\* A cluster goes with its control node, and a file is where the plan of its
\* topology has the HAProxy; before the request is ready there is neither.
Footprint ==
    /\ \A t \in Topology :
          /\ nodes[Plan[t].control].state = "gone" => cl[t] = "none"
          /\ request = "pending" => cl[t] = "none"
          /\ Plan[t].kind = "flink" => cl[t] = "none"
    /\ \A m \in Machine :
          /\ request = "pending" => files[m] = None
          /\ \A t \in Topology : files[m] = t => Plan[t].proxy # None /\ m = ProxyMachine(t)

\* A topology without the finalizer has nothing, but for a file that the daemon
\* has kept; one that is ready has its cluster.
Finalized ==
    \A t \in Topology :
        /\ topo[t].state = "absent" => ~topo[t].fin
        /\ ~topo[t].fin => cl[t] = "none"
        /\ ~topo[t].fin /\ Early /\ t \notin kept => \A m \in Machine : files[m] # t
        /\ topo[t].state = "ready" /\ ~topo[t].del /\ Early /\ Plan[t].kind # "flink"
              => cl[t] = "started"

PlainInv == Types /\ AtWork /\ WorkDone /\ NodesGo /\ Footprint /\ Finalized

----------------------------------------------------------------------------
\* Lemma: what nobody has set is no state and no image that somebody sets.
LEMMA UnsetIsNone ==
    Unset \notin {"absent", "pending", "ready", "tiup", "flink", "haproxy", "client"}
  BY DEF Unset

\* Lemma: a worker that goes to another place stays with its topology.
LEMMA GotoEffect ==
    ASSUME Types, NEW pc \in KPc, Goto(pc)
    PROVE /\ kw' \in KWorker /\ kw'.pc = pc /\ kw'.t = kw.t
          /\ pc \in {"config", "proxy"} => kw'.list = kw.list
  <1>1. CASE pc \in {"config", "proxy"}
    BY <1>1 DEF Types, Goto, KWorker
  <1>2. CASE pc \notin {"config", "proxy"}
    BY <1>2 DEF Types, Goto, KWorker
  <1> QED
    BY <1>1, <1>2

\* Lemma: the object that is gone is an object.
LEMMA AbsentIsObject == ASSUME NEW g \in 0 .. MaxGen PROVE Absent(g) \in Object
  BY DEF Absent, Object

\* Lemma: a worker whose call ends is idle.
LEMMA ReturnEffect ==
    ASSUME Return
    PROVE kw' \in KWorker /\ kw'.pc = "idle"
  <1>1. 0 \in 0 .. MaxGen
    BY PlainAssumption
  <1>2. Absent(0) \in Object
    BY <1>1, AbsentIsObject
  <1> QED
    BY <1>2 DEF Return, KIdle, KWorker, KPc

\* Lemma: a plan names nodes, and its HAProxy a machine.
LEMMA PlanNamesNodes ==
    ASSUME NEW t \in Topology
    PROVE /\ Plan[t].hosts \subseteq Node /\ Plan[t].control \in Plan[t].hosts
          /\ Plan[t].control \in Node
          /\ Plan[t].proxy # None =>
                Plan[t].proxy \in Node /\ ProxyMachine(t) \in Machine /\ Plan[t].kind # "flink"
          /\ t # None
  BY PlainAssumption DEF ProxyMachine, Machine

\* Lemma: the invariant is kept by a step of the worker that leaves everything
\* else alone, when what the worker then relies on is so.
LEMMA WorkerMoves ==
    ASSUME PlainInv, UNCHANGED <<topo, request, nodes, seen, cl, files, kept>>,
           kw' \in KWorker, spoiled' \in BOOLEAN, AtWork', WorkDone'
    PROVE PlainInv'
  <1>1. Types'
    BY DEF PlainInv, Types
  <1>2. NodesGo' /\ Footprint'
    BY DEF PlainInv, NodesGo, Footprint, Early
  <1>3. Finalized'
    BY DEF PlainInv, Finalized, Early
  <1> QED
    BY <1>1, <1>2, <1>3 DEF PlainInv

\* Lemma: so it is when a call just ends.
LEMMA CallEnds ==
    ASSUME PlainInv, Return, UNCHANGED <<topo, request, nodes, seen, cl, files, kept>>,
           spoiled' \in BOOLEAN
    PROVE PlainInv'
  <1>1. kw' \in KWorker /\ kw'.pc = "idle"
    BY ReturnEffect
  <1>2. AtWork' /\ WorkDone'
    BY <1>1 DEF AtWork, WorkDone
  <1> QED
    BY <1>1, <1>2, WorkerMoves

\* Lemma: the invariant holds initially.
LEMMA PlainInvInit == ASSUME Init PROVE PlainInv
  <1>1. 0 \in 0 .. MaxGen
    BY PlainAssumption
  <1>2. Absent(0) \in Object /\ Absent(0).state = "absent" /\ ~Absent(0).fin
    BY <1>1, AbsentIsObject DEF Absent
  <1>3. FreeNode \in Resource /\ FreeNode.state = "uninitialized"
    BY DEF FreeNode, Resource
  <1>4. kw \in KWorker /\ kw.pc = "idle"
    BY <1>2 DEF Init, KIdle, KWorker, KPc
  <1>5. Types /\ AtWork /\ WorkDone
    BY <1>2, <1>3, <1>4 DEF Init, Types, AtWork, WorkDone
  <1>6. NodesGo
    BY <1>3 DEF Init, NodesGo
  <1>7. Footprint
    BY <1>3, PlanNamesNodes DEF Init, Footprint
  <1>8. Finalized
    BY <1>2, PlanNamesNodes DEF Init, Finalized
  <1> QED
    BY <1>5, <1>6, <1>7, <1>8 DEF PlainInv

----------------------------------------------------------------------------
(* The steps that write a topology.                                         *)

\* What the invariant asks of an object o written as topology t.
Fits(t, o) ==
    /\ o.state = "absent" => ~o.fin
    /\ ~o.fin => cl[t] = "none"
    /\ ~o.fin /\ Early /\ t \notin kept => \A m \in Machine : files[m] # t
    /\ o.state = "ready" /\ ~o.del /\ Early /\ Plan[t].kind # "flink" => cl[t] = "started"

\* Lemma: the invariant is kept when a topology is written that fits, by the
\* worker at the end of its call or by somebody who leaves the finalizer and
\* the mark of deletion of the topology that the worker is at.
LEMMA TopologyWritten ==
    ASSUME PlainInv, NEW t \in Topology, NEW o \in Object, Fits(t, o),
           topo' = [topo EXCEPT ![t] = o],
           UNCHANGED <<request, nodes, seen, cl, files, kept, spoiled>>,
           \/ kw' \in KWorker /\ kw'.pc = "idle"
           \/ kw' = kw /\ (kw.pc # "idle" /\ kw.t = t => o.fin /\ (topo[t].del => o.del))
    PROVE PlainInv'
  <1>1. topo' \in [Topology -> Object] /\ topo'[t] = o
        /\ \A u \in Topology \ {t} : topo'[u] = topo[u]
    BY DEF PlainInv, Types
  <1>2. Types'
    BY <1>1 DEF PlainInv, Types
  <1>3. AtWork'
    BY <1>1 DEF PlainInv, AtWork
  <1>4. WorkDone'
    BY DEF PlainInv, WorkDone, Early
  <1>5. NodesGo' /\ Footprint'
    BY DEF PlainInv, NodesGo, Footprint, Early
  <1>6. Finalized'
    BY <1>1 DEF PlainInv, Finalized, Fits, Early
  <1> QED
    BY <1>2, <1>3, <1>4, <1>5, <1>6 DEF PlainInv

\* Lemma: the invariant is kept when the controller adds the finalizer.
LEMMA AddFinalizerKeeps ==
    ASSUME PlainInv, NEW t \in Topology, AddFinalizer(t)
    PROVE PlainInv'
  <1>1. PICK o : o = [topo[t] EXCEPT !.fin = TRUE]
    OBVIOUS
  <1>2. /\ topo[t] \in Object /\ o \in Object
        /\ o.fin /\ o.state = topo[t].state /\ o.del = topo[t].del
    BY <1>1 DEF PlainInv, Types, Object
  <1>3. Fits(t, o)
    BY <1>2 DEF PlainInv, Finalized, Fits, AddFinalizer
  <1>4. topo' = [topo EXCEPT ![t] = o]
    BY <1>1 DEF AddFinalizer, PlainInv, Types
  <1> QED
    BY <1>2, <1>3, <1>4, TopologyWritten DEF AddFinalizer, Outside

\* Lemma: the invariant is kept when a new topology becomes pending.
LEMMA BeginPendingKeeps ==
    ASSUME PlainInv, NEW t \in Topology, BeginPending(t)
    PROVE PlainInv'
  <1>1. PICK o : o = [topo[t] EXCEPT !.state = "pending"]
    OBVIOUS
  <1>2. /\ topo[t] \in Object /\ o \in Object
        /\ o.fin = topo[t].fin /\ o.state = "pending" /\ o.del = topo[t].del
    BY <1>1 DEF PlainInv, Types, Object
  <1>3. Fits(t, o)
    BY <1>2 DEF Fits, BeginPending
  <1>4. topo' = [topo EXCEPT ![t] = o]
    BY <1>1 DEF BeginPending, PlainInv, Types
  <1> QED
    BY <1>2, <1>3, <1>4, TopologyWritten DEF BeginPending, Outside

\* Lemma: the invariant is kept when a user creates a topology.
LEMMA CreateTopologyKeeps ==
    ASSUME PlainInv, NEW t \in Topology, CreateTopology(t)
    PROVE PlainInv'
  <1>1. PICK o : o = [Absent(topo[t].gen + 1) EXCEPT !.state = Unset]
    OBVIOUS
  <1>2. topo[t] \in Object /\ topo[t].gen + 1 \in 0 .. MaxGen
    BY PlainAssumption DEF PlainInv, Types, Object, CreateTopology
  <1>3. o \in Object /\ ~o.fin /\ o.state = Unset
    BY <1>1, <1>2 DEF Absent, Object
  <1>4. ~topo[t].fin
    BY DEF PlainInv, Finalized, CreateTopology
  <1>5. Fits(t, o)
    BY <1>3, <1>4, UnsetIsNone DEF PlainInv, Finalized, Fits
  <1>6. topo' = [topo EXCEPT ![t] = o]
    BY <1>1 DEF CreateTopology, PlainInv, Types
  <1>7. ~(kw.pc # "idle" /\ kw.t = t)
    BY <1>4 DEF PlainInv, AtWork
  <1> QED
    BY <1>3, <1>5, <1>6, <1>7, TopologyWritten DEF CreateTopology, Outside

\* Lemma: the invariant is kept when a user deletes a topology.
LEMMA DeleteTopologyKeeps ==
    ASSUME PlainInv, NEW t \in Topology, DeleteTopology(t)
    PROVE PlainInv'
  <1>1. topo[t] \in Object
    BY DEF PlainInv, Types
  <1>2. CASE topo[t].fin
    <2>1. PICK o : o = [topo[t] EXCEPT !.del = TRUE]
      OBVIOUS
    <2>2. o \in Object /\ o.fin /\ o.state = topo[t].state /\ o.del
      BY <1>1, <1>2, <2>1 DEF Object
    <2>3. Fits(t, o)
      BY <2>2 DEF Fits, DeleteTopology
    <2>4. topo' = [topo EXCEPT ![t] = o]
      BY <1>2, <2>1 DEF DeleteTopology, PlainInv, Types
    <2> QED
      BY <2>2, <2>3, <2>4, TopologyWritten DEF DeleteTopology, Outside
  <1>3. CASE ~topo[t].fin
    <2>1. PICK o : o = Absent(topo[t].gen)
      OBVIOUS
    <2>2. topo[t].gen \in 0 .. MaxGen
      BY <1>1 DEF Object
    <2>3. o \in Object /\ ~o.fin /\ o.state = "absent"
      BY <2>1, <2>2, AbsentIsObject DEF Absent
    <2>4. Fits(t, o)
      BY <1>3, <2>3 DEF PlainInv, Finalized, Fits
    <2>5. topo' = [topo EXCEPT ![t] = o]
      BY <1>3, <2>1 DEF DeleteTopology, PlainInv, Types
    <2>6. ~(kw.pc # "idle" /\ kw.t = t)
      BY <1>3 DEF PlainInv, AtWork
    <2> QED
      BY <2>3, <2>4, <2>5, <2>6, TopologyWritten DEF DeleteTopology, Outside
  <1> QED
    BY <1>2, <1>3

\* Lemma: the invariant is kept when a topology becomes ready: its cluster has
\* been started and, while the request stays, nobody has destroyed it since.
LEMMA WriteReadyKeeps == ASSUME PlainInv, WriteReady PROVE PlainInv'
  <1>1. kw' \in KWorker /\ kw'.pc = "idle"
    BY ReturnEffect DEF WriteReady
  <1>2. PICK t : t = kw.t
    OBVIOUS
  <1>3. t \in Topology /\ topo[t].fin /\ topo[t] \in Object
    BY <1>2 DEF PlainInv, AtWork, WriteReady, Types
  <1>4. CASE topo[t] = kw.obj
    <2>1. PICK o : o = [topo[t] EXCEPT !.state = "ready"]
      OBVIOUS
    <2>2. o \in Object /\ o.fin /\ o.state = "ready"
      BY <1>3, <2>1 DEF Object
    <2>3. Fits(t, o)
      BY <1>2, <2>2 DEF PlainInv, WorkDone, Fits, WriteReady
    <2>4. topo' = [topo EXCEPT ![t] = o]
      BY <1>2, <1>4, <2>1 DEF WriteReady, PlainInv, Types
    <2> QED
      BY <1>1, <1>3, <2>2, <2>3, <2>4, TopologyWritten DEF WriteReady, Outside
  <1>5. CASE topo[t] # kw.obj
    BY <1>2, <1>5, CallEnds DEF WriteReady, Outside, PlainInv, Types
  <1> QED
    BY <1>4, <1>5

\* Lemma: the invariant is kept when a topology goes: the cluster and the file
\* have been removed.
LEMMA RemoveFinalizerKeeps == ASSUME PlainInv, RemoveFinalizer PROVE PlainInv'
  <1>1. kw' \in KWorker /\ kw'.pc = "idle"
    BY ReturnEffect DEF RemoveFinalizer
  <1>2. PICK t : t = kw.t
    OBVIOUS
  <1>3. t \in Topology /\ topo[t] \in Object
    BY <1>2 DEF PlainInv, AtWork, RemoveFinalizer, Types
  <1>4. PICK o : o = Absent(topo[t].gen)
    OBVIOUS
  <1>5. topo[t].gen \in 0 .. MaxGen
    BY <1>3 DEF Object
  <1>6. o \in Object /\ ~o.fin /\ o.state = "absent"
    BY <1>4, <1>5, AbsentIsObject DEF Absent
  <1>7. Fits(t, o)
    BY <1>2, <1>6 DEF PlainInv, WorkDone, Fits, RemoveFinalizer
  <1>8. topo' = [topo EXCEPT ![t] = o]
    BY <1>2, <1>4 DEF RemoveFinalizer, PlainInv, Types
  <1> QED
    BY <1>1, <1>3, <1>6, <1>7, <1>8, TopologyWritten DEF RemoveFinalizer, Outside

----------------------------------------------------------------------------
(* What the steps do to nodes, clusters and files.                          *)

\* Lemma: the invariant is kept when nodes change and none goes.
LEMMA NodesWritten ==
    ASSUME PlainInv, nodes' \in [Node -> Resource],
           \A h \in Node : nodes'[h].state = "gone" <=> nodes[h].state = "gone",
           UNCHANGED <<topo, request, seen, cl, files, kept>>,
           kw' \in KWorker, spoiled' \in BOOLEAN, AtWork', WorkDone'
    PROVE PlainInv'
  <1>1. Types'
    BY DEF PlainInv, Types
  <1>2. NodesGo'
    BY DEF PlainInv, NodesGo, Early
  <1>3. Footprint'
    BY PlanNamesNodes DEF PlainInv, Footprint
  <1>4. Finalized'
    BY DEF PlainInv, Finalized, Early
  <1> QED
    BY <1>1, <1>2, <1>3, <1>4 DEF PlainInv

\* Lemma: so it is when the step is none of the worker's.
LEMMA NodesAside ==
    ASSUME PlainInv, nodes' \in [Node -> Resource],
           \A h \in Node : nodes'[h].state = "gone" <=> nodes[h].state = "gone",
           UNCHANGED <<topo, request, seen, cl, files, kept, kw, spoiled>>
    PROVE PlainInv'
  <1>1. AtWork' /\ WorkDone'
    BY DEF PlainInv, AtWork, WorkDone, Early
  <1>2. kw' \in KWorker /\ spoiled' \in BOOLEAN
    BY DEF PlainInv, Types
  <1> QED
    BY <1>1, <1>2, NodesWritten

\* Lemma: the invariant is kept when the cluster of a topology changes, when a
\* cluster that is left has the right to be there.
LEMMA ClusterChanged ==
    ASSUME PlainInv, NEW t \in Topology, NEW v \in {"none", "deployed", "started"},
           cl' = [cl EXCEPT ![t] = v], UNCHANGED <<topo, request, nodes, seen, files, kept, spoiled>>,
           v # "none" => /\ nodes[Plan[t].control].state # "gone" /\ request # "pending"
                         /\ Plan[t].kind # "flink" /\ topo[t].fin,
           topo[t].state = "ready" /\ ~topo[t].del /\ cl[t] = "started" => v = "started",
           kw' \in KWorker, AtWork', WorkDone'
    PROVE PlainInv'
  <1>1. Types'
    BY DEF PlainInv, Types
  <1>2. NodesGo'
    BY DEF PlainInv, NodesGo, Early
  <1>3. cl'[t] = v /\ \A u \in Topology \ {t} : cl'[u] = cl[u]
    BY DEF PlainInv, Types
  <1>4. Footprint'
    BY <1>3 DEF PlainInv, Footprint
  <1>5. Finalized'
    BY <1>3 DEF PlainInv, Finalized, Early
  <1> QED
    BY <1>1, <1>2, <1>4, <1>5 DEF PlainInv

\* Lemma: the invariant is kept when the file on a machine changes, when a file
\* that is new is that of a topology with its HAProxy there, and when it is not
\* forgotten that the file of a topology without the finalizer was kept.
LEMMA FileChanged ==
    ASSUME PlainInv, NEW m \in Machine, NEW v \in Topology \cup {None},
           files' = [files EXCEPT ![m] = v], UNCHANGED <<topo, request, nodes, seen, cl>>,
           v = files[m] \/ v = None
               \/ (request # "pending" /\ topo[v].fin
                   /\ Plan[v].proxy # None /\ m = ProxyMachine(v)),
           \A u \in Topology : ~topo[u].fin /\ u \notin kept' => u \notin kept,
           kw' \in KWorker, spoiled' \in BOOLEAN, AtWork', WorkDone'
    PROVE PlainInv'
  <1>1. Types'
    BY DEF PlainInv, Types
  <1>2. NodesGo'
    BY DEF PlainInv, NodesGo, Early
  <1>3. files'[m] = v /\ \A k \in Machine \ {m} : files'[k] = files[k]
    BY DEF PlainInv, Types
  <1>4. \A t \in Topology : t # None
    BY PlanNamesNodes
  <1>5. Footprint'
    BY <1>3, <1>4 DEF PlainInv, Footprint
  <1>6. Finalized'
    BY <1>3, <1>4 DEF PlainInv, Finalized, Early
  <1> QED
    BY <1>1, <1>2, <1>5, <1>6 DEF PlainInv

----------------------------------------------------------------------------
(* The steps of the worker.                                                 *)

\* Lemma: the invariant is kept when the worker lists the nodes.
LEMMA BeginInitKeeps ==
    ASSUME PlainInv, NEW t \in Topology, BeginInit(t)
    PROVE PlainInv'
  <1>1. PICK pc : pc = IF IndexFails(t) THEN AfterError(t) ELSE "init"
    OBVIOUS
  <1>2. pc \in KPc /\ (pc = "init" \/ (pc = "installed" /\ Plan[t].kind = "flink")
                                  \/ (pc = "deploy" /\ Plan[t].kind # "flink"))
    BY <1>1 DEF AfterError, KPc
  <1>3. kw' = [pc |-> pc, t |-> t, obj |-> topo[t], todo |-> Plan[t].hosts, list |-> seen,
               again |-> FALSE]
    BY <1>1 DEF BeginInit
  <1>4. topo[t] \in Object /\ Plan[t].hosts \subseteq Node /\ seen \in [Node -> Resource]
    BY PlanNamesNodes DEF PlainInv, Types
  <1>5. kw' \in KWorker /\ kw'.pc = pc /\ kw'.t = t /\ kw'.list = seen
    BY <1>2, <1>3, <1>4 DEF KWorker
  <1>6. UNCHANGED <<topo, request, nodes, seen, cl, files, kept, spoiled>> /\ spoiled' \in BOOLEAN
    BY DEF BeginInit, Plane, Outside, PlainInv, Types
  <1>7. AtWork' /\ WorkDone'
    BY <1>2, <1>4, <1>5, <1>6 DEF AtWork, WorkDone, BeginInit, RequestIsReady
  <1> QED
    BY <1>5, <1>6, <1>7, WorkerMoves

\* Lemma: after an error of initResource a DM or TiDB cluster is installed all
\* the same, and of a Flink cluster nothing is left to do.
LEMMA AfterErrorKeeps ==
    ASSUME PlainInv, kw.pc = "init", Goto(AfterError(kw.t)),
           UNCHANGED <<topo, request, nodes, seen, cl, files, kept, spoiled>>
    PROVE PlainInv'
  <1>1. PICK pc : pc = AfterError(kw.t)
    OBVIOUS
  <1>2. pc \in KPc /\ ((pc = "installed" /\ Plan[kw.t].kind = "flink")
                       \/ (pc = "deploy" /\ Plan[kw.t].kind # "flink"))
    BY <1>1 DEF AfterError, KPc
  <1>3. kw' \in KWorker /\ kw'.pc = pc /\ kw'.t = kw.t
    BY <1>1, <1>2, GotoEffect DEF PlainInv
  <1>4. AtWork' /\ WorkDone'
    BY <1>2, <1>3 DEF PlainInv, AtWork, WorkDone
  <1>5. spoiled' \in BOOLEAN
    BY DEF PlainInv, Types
  <1> QED
    BY <1>3, <1>4, <1>5, WorkerMoves

\* Lemma: the invariant is kept when the worker looks at a node.
LEMMA InitNodeKeeps ==
    ASSUME PlainInv, NEW h \in Node, InitNode(h)
    PROVE PlainInv'
  <1>1. UNCHANGED <<topo, request, seen, cl, files, kept, spoiled>> /\ spoiled' \in BOOLEAN
        /\ kw.pc = "init"
    BY DEF InitNode, Plane, Outside, PlainInv, Types
  <1>2. ASSUME kw' = [kw EXCEPT !.todo = @ \ {h}, !.again = TRUE]
               \/ kw' = [kw EXCEPT !.todo = @ \ {h}]
        PROVE kw' \in KWorker /\ AtWork' /\ WorkDone'
    <2>1. kw' \in KWorker /\ kw'.pc = kw.pc /\ kw'.t = kw.t /\ kw'.list = kw.list
      <3>1. PICK d : d = kw.todo \ {h}
        OBVIOUS
      <3>2. kw \in KWorker /\ d \in SUBSET Node
        BY <3>1 DEF PlainInv, Types, KWorker
      <3>3. CASE kw' = [kw EXCEPT !.todo = d, !.again = TRUE]
        BY <3>2, <3>3 DEF KWorker
      <3>4. CASE kw' = [kw EXCEPT !.todo = d]
        BY <3>2, <3>4 DEF KWorker
      <3> QED
        BY <1>2, <3>1, <3>3, <3>4
    <2> QED
      BY <1>1, <2>1 DEF PlainInv, AtWork, WorkDone
  <1>3. CASE UNCHANGED nodes /\ (kw' = [kw EXCEPT !.todo = @ \ {h}, !.again = TRUE]
                                 \/ kw' = [kw EXCEPT !.todo = @ \ {h}])
    BY <1>1, <1>2, <1>3, WorkerMoves
  <1>4. CASE GiveImage(h)
    <2>1. nodes' \in [Node -> Resource] /\ \A k \in Node : nodes'[k].state = nodes[k].state
      <3>1. PICK i : i = Image(kw.t)
        OBVIOUS
      <3>2. i \in {"flink", "tiup"}
        BY <3>1 DEF Image
      <3>3. PICK q : q = [nodes[h] EXCEPT !.image = i]
        OBVIOUS
      <3>4. nodes[h] \in Resource
        BY DEF PlainInv, Types
      <3>5. q \in Resource /\ q.state = nodes[h].state
        BY <3>2, <3>3, <3>4 DEF Resource
      <3>6. nodes' = [nodes EXCEPT ![h] = q]
        BY <1>4, <3>1, <3>3 DEF GiveImage, PlainInv, Types
      <3> QED
        BY <3>5, <3>6 DEF PlainInv, Types
    <2>2. kw' \in KWorker /\ AtWork' /\ WorkDone'
      BY <1>2, <1>4 DEF GiveImage
    <2> QED
      BY <1>1, <2>1, <2>2, NodesWritten
  <1>5. CASE Goto(AfterError(kw.t)) /\ UNCHANGED nodes
    BY <1>1, <1>5, AfterErrorKeeps
  <1> QED
    BY <1>3, <1>4, <1>5 DEF InitNode

\* Lemma: the invariant is kept at the end of the loop.
LEMMA InitEndKeeps == ASSUME PlainInv, InitEnd PROVE PlainInv'
  <1>1. UNCHANGED <<topo, request, nodes, seen, cl, files, kept, spoiled>> /\ spoiled' \in BOOLEAN
        /\ kw.pc = "init"
    BY DEF InitEnd, Plane, Outside, PlainInv, Types
  <1>2. CASE Return
    BY <1>1, <1>2, CallEnds
  <1>3. ASSUME NEW pc \in {"config", "installed", "deploy"}, Goto(pc),
               pc = "config" => Plan[kw.t].proxy # None,
               pc = "installed" <=> Plan[kw.t].kind = "flink"
        PROVE PlainInv'
    <2>1. /\ kw' \in KWorker /\ kw'.pc = pc /\ kw'.t = kw.t
          /\ pc = "config" => kw'.list = kw.list
      BY <1>3, GotoEffect DEF PlainInv, KPc
    <2>2. AtWork' /\ WorkDone'
      BY <1>1, <1>3, <2>1 DEF PlainInv, AtWork, WorkDone
    <2> QED
      BY <1>1, <2>1, <2>2, WorkerMoves
  <1>4. Plan[kw.t].proxy # None => Plan[kw.t].kind # "flink"
    BY <1>1, PlanNamesNodes DEF PlainInv, AtWork
  <1>5. \/ Return
        \/ Plan[kw.t].proxy # None /\ Goto("config")
        \/ Plan[kw.t].kind = "flink" /\ Goto("installed")
        \/ Plan[kw.t].kind # "flink" /\ Goto("deploy")
    BY DEF InitEnd
  <1> QED
    BY <1>2, <1>3, <1>4, <1>5

\* Lemma: the invariant is kept when the file of the HAProxy is written, and
\* when the daemon only removes the old one or leaves it.
LEMMA WriteConfigKeeps ==
    ASSUME PlainInv, WriteConfig \/ WriteConfigLost
    PROVE PlainInv'
  <1>1. kw.pc = "config" /\ Goto("proxy") /\ UNCHANGED <<topo, request, nodes, seen, cl>>
    BY DEF WriteConfig, WriteConfigLost, Plane
  <1>2. spoiled' \in BOOLEAN
    BY DEF WriteConfig, WriteConfigLost, Outside, PlainInv, Types
  <1>3. PICK t : t = kw.t
    OBVIOUS
  <1>4. t \in Topology /\ topo[t].fin /\ request # "pending" /\ Plan[t].proxy # None
    BY <1>1, <1>3 DEF PlainInv, AtWork
  <1>5. PICK m : m = ProxyMachine(t)
    OBVIOUS
  <1>6. m \in Machine
    BY <1>4, <1>5, PlanNamesNodes
  <1>7. kw' \in KWorker /\ kw'.pc = "proxy" /\ kw'.t = kw.t /\ kw'.list = kw.list
    BY <1>1, GotoEffect DEF PlainInv, KPc
  <1>8. AtWork' /\ WorkDone'
    BY <1>1, <1>7 DEF PlainInv, AtWork, WorkDone
  <1>9. PICK v \in {None, t, files[m]} : files' = [files EXCEPT ![m] = v]
    BY <1>3, <1>5 DEF WriteConfig, WriteConfigLost
  <1>10. v \in Topology \cup {None}
    BY <1>4, <1>6, <1>9 DEF PlainInv, Types
  <1>11. kept' = kept
    BY DEF WriteConfig, WriteConfigLost, Outside
  <1> QED
    BY <1>1, <1>2, <1>4, <1>5, <1>6, <1>7, <1>8, <1>9, <1>10, <1>11, FileChanged

\* Lemma: the invariant is kept when the node of the HAProxy gets its image.
LEMMA InitProxyKeeps == ASSUME PlainInv, InitProxy PROVE PlainInv'
  <1>1. kw.pc = "proxy" /\ Goto("deploy") /\ UNCHANGED <<topo, request, seen, cl, files, kept>>
        /\ spoiled' \in BOOLEAN
    BY DEF InitProxy, Plane, Outside, PlainInv, Types
  <1>2. kw' \in KWorker /\ kw'.pc = "deploy" /\ kw'.t = kw.t
    BY <1>1, GotoEffect DEF PlainInv, KPc
  <1>3. AtWork' /\ WorkDone'
    BY <1>1, <1>2 DEF PlainInv, AtWork, WorkDone
  <1>4. PICK h : h = Plan[kw.t].proxy
    OBVIOUS
  <1>5. h \in Node /\ nodes[h] \in Resource
    BY <1>1, <1>4, PlanNamesNodes DEF PlainInv, AtWork, Types
  <1>6. PICK q : q = [nodes[h] EXCEPT !.image = "haproxy"]
    OBVIOUS
  <1>7. q \in Resource /\ q.state = nodes[h].state
    BY <1>5, <1>6 DEF Resource
  <1>8. nodes' = nodes \/ nodes' = [nodes EXCEPT ![h] = q]
    BY <1>4, <1>6 DEF InitProxy, PlainInv, Types
  <1>9. nodes' \in [Node -> Resource] /\ \A k \in Node : nodes'[k].state = nodes[k].state
    BY <1>5, <1>7, <1>8 DEF PlainInv, Types
  <1> QED
    BY <1>1, <1>2, <1>3, <1>9, NodesWritten

\* Lemma: the invariant is kept when tiup deploys or starts the cluster, which
\* it does while the control node is up.
LEMMA InstallKeeps ==
    ASSUME PlainInv, DeployCluster \/ StartCluster
    PROVE PlainInv'
  <1>1. UNCHANGED <<topo, request, nodes, seen, files, kept, spoiled>> /\ CanRun
        /\ kw.pc \in {"deploy", "start"}
    BY DEF DeployCluster, StartCluster, Plane, Outside
  <1>2. PICK t : t = kw.t
    OBVIOUS
  <1>3. t \in Topology /\ topo[t].fin /\ request # "pending" /\ Plan[t].kind # "flink"
    BY <1>1, <1>2 DEF PlainInv, AtWork
  <1>4. nodes[Plan[t].control].state # "gone"
    BY <1>1, <1>2, <1>3, PlanNamesNodes DEF CanRun, Reachable
  <1>5. CASE DeployCluster
    <2>1. PICK v : v = IF cl[t] = "none" THEN "deployed" ELSE cl[t]
      OBVIOUS
    <2>2. v \in {"none", "deployed", "started"} /\ (cl[t] = "started" => v = "started")
      BY <1>3, <2>1 DEF PlainInv, Types
    <2>3. cl' = [cl EXCEPT ![t] = v]
      BY <1>2, <1>5, <2>1 DEF DeployCluster, PlainInv, Types
    <2>4. kw' \in KWorker /\ kw'.pc = "start" /\ kw'.t = kw.t
      BY <1>5, GotoEffect DEF PlainInv, KPc, DeployCluster
    <2>5. AtWork' /\ WorkDone'
      BY <1>1, <1>5, <2>4 DEF PlainInv, AtWork, WorkDone, DeployCluster
    <2> QED
      BY <1>1, <1>3, <1>4, <2>2, <2>3, <2>4, <2>5, ClusterChanged
  <1>6. CASE StartCluster
    <2>1. cl' = [cl EXCEPT ![t] = "started"]
      BY <1>2, <1>6 DEF StartCluster
    <2>2. kw' \in KWorker /\ kw'.pc = "installed" /\ kw'.t = kw.t
      BY <1>6, GotoEffect DEF PlainInv, KPc, StartCluster
    <2>3. cl'[t] = "started"
      BY <1>3, <2>1 DEF PlainInv, Types
    <2>4. AtWork' /\ WorkDone'
      BY <1>1, <1>2, <1>6, <2>2, <2>3 DEF PlainInv, AtWork, WorkDone, StartCluster
    <2> QED
      BY <1>1, <1>3, <1>4, <2>1, <2>2, <2>4, ClusterChanged
  <1> QED
    BY <1>5, <1>6

\* Lemma: a worker that takes up a topology in deletion holds it as it is.
LEMMA BeginDeleteEffect ==
    ASSUME Types, NEW t \in Topology, GoOnDeleting(t)
    PROVE /\ kw' \in KWorker /\ kw'.t = t
          /\ kw'.pc = IF RequestIsReady /\ Plan[t].kind # "flink" THEN "uninstall"
                      ELSE "uninstalled"
  <1>1. 0 \in 0 .. MaxGen
    BY PlainAssumption
  <1>2. Absent(0) \in Object /\ topo[t] \in Object
    BY <1>1, AbsentIsObject DEF Types
  <1>3. KIdle(t) \in KWorker /\ KIdle(t).t = t
    BY <1>2 DEF KIdle, KWorker, KPc
  <1>4. PICK pc : pc = IF RequestIsReady /\ Plan[t].kind # "flink" THEN "uninstall"
                       ELSE "uninstalled"
    OBVIOUS
  <1>5. PICK q : q = KIdle(t)
    OBVIOUS
  <1>6. kw' = [q EXCEPT !.pc = pc, !.obj = topo[t]]
    BY <1>4, <1>5 DEF GoOnDeleting
  <1>7. pc \in KPc
    BY <1>4 DEF KPc
  <1>8. kw' \in KWorker /\ kw'.t = t /\ kw'.pc = pc
    BY <1>2, <1>3, <1>5, <1>6, <1>7 DEF KWorker
  <1> QED
    BY <1>4, <1>8

\* Lemma: when the daemon does as it is told, no file of t is left while the
\* request stays.
LEMMA DeleteConfigEffect ==
    ASSUME PlainInv, NEW t \in Topology, DeleteConfig(t), Early
    PROVE \A m \in Machine : files'[m] # t
  <1>1. CASE HasConfig(t)
    <2>1. files' = [files EXCEPT ![ProxyMachine(t)] = None]
      BY <1>1 DEF DeleteConfig
    <2>2. ProxyMachine(t) \in Machine /\ t # None
      BY <1>1, PlanNamesNodes DEF HasConfig
    <2> QED
      BY <2>1, <2>2 DEF PlainInv, Types, Footprint
  <1>2. CASE ~HasConfig(t)
    <2>1. files' = files
      BY <1>2 DEF DeleteConfig
    <2>2. CASE request = "pending"
      BY <2>1, <2>2, PlanNamesNodes DEF PlainInv, Footprint
    <2>3. CASE Plan[t].proxy = None
      BY <2>1, <2>3 DEF PlainInv, Footprint
    <2>4. CASE Plan[t].proxy # None /\ seen[Plan[t].proxy].state = "gone"
      BY <2>4, PlanNamesNodes DEF PlainInv, NodesGo
    <2> QED
      BY <1>2, <2>2, <2>3, <2>4 DEF HasConfig, RequestIsReady, Early
  <1> QED
    BY <1>1, <1>2

\* Lemma: the invariant is kept when the worker takes up a topology in deletion:
\* the file goes with this step while the request stays, or it is noted that it
\* has not, and when there is no cluster to destroy there is none indeed.
LEMMA BeginDeleteKeeps ==
    ASSUME PlainInv, NEW t \in Topology, BeginDelete(t) \/ BeginDeleteLost(t)
    PROVE PlainInv'
  <1>1. UNCHANGED <<topo, request, nodes, seen, cl>> /\ spoiled' \in BOOLEAN
        /\ topo[t].del /\ topo[t].fin /\ GoOnDeleting(t)
    BY DEF BeginDelete, BeginDeleteLost, GoOnDeleting, Plane, PlainInv, Types
  <1>2. /\ kw' \in KWorker /\ kw'.t = t
        /\ kw'.pc = IF RequestIsReady /\ Plan[t].kind # "flink" THEN "uninstall"
                    ELSE "uninstalled"
    BY <1>1, BeginDeleteEffect DEF PlainInv
  <1>3. AtWork'
    BY <1>1, <1>2 DEF AtWork, RequestIsReady
  <1>4. kw'.pc = "uninstalled" => cl[t] = "none"
    <2>1. CASE Plan[t].kind = "flink" \/ request = "pending"
      BY <2>1 DEF PlainInv, Footprint
    <2>2. CASE request = "absent"
      BY <2>2, PlanNamesNodes DEF PlainInv, NodesGo, Footprint
    <2>3. CASE RequestIsReady /\ Plan[t].kind # "flink"
      BY <1>2, <2>3
    <2> QED
      BY <2>1, <2>2, <2>3 DEF RequestIsReady, PlainInv, Types
  <1>5. ASSUME Early, t \notin kept' PROVE \A m \in Machine : files'[m] # t
    BY <1>5, DeleteConfigEffect DEF BeginDelete, BeginDeleteLost
  <1>6. WorkDone'
    BY <1>1, <1>2, <1>4, <1>5 DEF WorkDone, Early
  <1>7. \A u \in Topology : ~topo[u].fin /\ u \notin kept' => u \notin kept
    BY <1>1 DEF BeginDelete, BeginDeleteLost, DeleteConfig
  <1>8. CASE files' = files
    <2>1. Types'
      BY <1>1, <1>2, <1>8 DEF PlainInv, Types
    <2>2. NodesGo' /\ Footprint'
      BY <1>1, <1>8 DEF PlainInv, NodesGo, Footprint, Early
    <2>3. Finalized'
      BY <1>1, <1>7, <1>8 DEF PlainInv, Finalized, Early
    <2> QED
      BY <1>3, <1>6, <2>1, <2>2, <2>3 DEF PlainInv
  <1>9. CASE Plan[t].proxy # None /\ files' = [files EXCEPT ![ProxyMachine(t)] = None]
    <2>1. PICK m : m = ProxyMachine(t)
      OBVIOUS
    <2>2. m \in Machine
      BY <1>9, <2>1, PlanNamesNodes
    <2> QED
      BY <1>1, <1>2, <1>3, <1>6, <1>7, <1>9, <2>1, <2>2, FileChanged
  <1> QED
    BY <1>8, <1>9 DEF BeginDelete, BeginDeleteLost, DeleteConfig, HasConfig

\* Lemma: the invariant is kept when tiup destroys the cluster.
LEMMA UninstallKeeps == ASSUME PlainInv, UninstallCluster PROVE PlainInv'
  <1>1. UNCHANGED <<topo, request, nodes, seen, files, kept, spoiled>> /\ kw.pc = "uninstall"
    BY DEF UninstallCluster, Plane, Outside
  <1>2. PICK t : t = kw.t
    OBVIOUS
  <1>3. t \in Topology /\ topo[t].del
    BY <1>1, <1>2 DEF PlainInv, AtWork
  <1>4. cl' = [cl EXCEPT ![t] = "none"]
    BY <1>2 DEF UninstallCluster
  <1>5. kw' \in KWorker /\ kw'.pc = "uninstalled" /\ kw'.t = kw.t
    BY GotoEffect DEF PlainInv, KPc, UninstallCluster
  <1>6. cl'[t] = "none"
    BY <1>3, <1>4 DEF PlainInv, Types
  <1>7. AtWork' /\ WorkDone'
    BY <1>1, <1>2, <1>5, <1>6 DEF PlainInv, AtWork, WorkDone, Early
  <1> QED
    BY <1>1, <1>3, <1>4, <1>5, <1>7, ClusterChanged

----------------------------------------------------------------------------
(* The steps of everybody else.                                             *)

\* Lemma: the invariant is kept when the request becomes ready, is deleted or
\* is gone with its nodes.
LEMMA RequestKeeps ==
    ASSUME PlainInv, RequestReady \/ DeleteRequest \/ RequestGone
    PROVE PlainInv'
  <1>1. UNCHANGED <<topo, nodes, seen, cl, files, kept, kw, spoiled>>
    BY DEF RequestReady, DeleteRequest, RequestGone, Outside
  <1>2. /\ request' \in {"ready", "going", "absent"}
        /\ Early' => Early
        /\ request' = "absent" => \A h \in Node : nodes[h].state = "gone"
    BY DEF RequestReady, DeleteRequest, RequestGone, Early
  <1>3. Types' /\ AtWork'
    BY <1>1, <1>2 DEF PlainInv, Types, AtWork
  <1>4. WorkDone' /\ NodesGo'
    BY <1>1, <1>2 DEF PlainInv, WorkDone, NodesGo
  <1>5. Footprint' /\ Finalized'
    BY <1>1, <1>2 DEF PlainInv, Footprint, Finalized
  <1> QED
    BY <1>3, <1>4, <1>5 DEF PlainInv

\* Lemma: the invariant is kept when a node goes, and the clusters with it that
\* have it as their control node.
LEMMA NodeGoesKeeps ==
    ASSUME PlainInv, NEW h \in Node, NodeGoes(h)
    PROVE PlainInv'
  <1>1. UNCHANGED <<topo, request, seen, files, kept, kw, spoiled>> /\ request = "going"
    BY DEF NodeGoes, Plane, Outside
  <1>2. GoneNode \in Resource /\ GoneNode.state = "gone"
    BY DEF GoneNode, FreeNode, Resource
  <1>3. nodes' \in [Node -> Resource] /\ nodes'[h].state = "gone"
        /\ \A k \in Node \ {h} : nodes'[k] = nodes[k]
    BY <1>2 DEF NodeGoes, PlainInv, Types
  <1>4. /\ cl' \in [Topology -> {"none", "deployed", "started"}]
        /\ \A t \in Topology : cl'[t] = IF Plan[t].control = h THEN "none" ELSE cl[t]
    BY DEF NodeGoes, PlainInv, Types
  <1>5. Types' /\ AtWork'
    BY <1>1, <1>3, <1>4 DEF PlainInv, Types, AtWork
  <1>6. ~Early /\ ~Early'
    BY <1>1 DEF Early
  <1>7. WorkDone'
    BY <1>1, <1>4, <1>6 DEF PlainInv, WorkDone, AtWork
  <1>8. NodesGo'
    BY <1>1, <1>3, <1>6 DEF PlainInv, NodesGo
  <1>9. Footprint'
    BY <1>1, <1>3, <1>4, PlanNamesNodes DEF PlainInv, Footprint
  <1>10. Finalized'
    BY <1>1, <1>4, <1>6 DEF PlainInv, Finalized
  <1> QED
    BY <1>5, <1>7, <1>8, <1>9, <1>10 DEF PlainInv

\* Lemma: the invariant is kept when the cache learns of a node.
LEMMA WatchNodeKeeps ==
    ASSUME PlainInv, NEW h \in Node, WatchNode(h)
    PROVE PlainInv'
  <1>1. UNCHANGED <<topo, request, nodes, cl, files, kept, kw, spoiled>>
    BY DEF WatchNode, Outside
  <1>2. Types' /\ NodesGo'
    BY <1>1 DEF WatchNode, PlainInv, Types, NodesGo, Early
  <1>3. AtWork' /\ WorkDone'
    BY <1>1 DEF PlainInv, AtWork, WorkDone, Early
  <1>4. Footprint' /\ Finalized'
    BY <1>1 DEF PlainInv, Footprint, Finalized, Early
  <1> QED
    BY <1>2, <1>3, <1>4 DEF PlainInv

\* What happens to a node that is there: it is claimed for the workload, its
\* container is started, its container ends.
NodeStep(h) == NodeStarts(h) \/ NodeEnds(h) \/ (ClaimNode /\ h = Client)

\* Lemma: such a step changes this node only, which is there before and after.
LEMMA NodeStepEffect ==
    ASSUME PlainInv, NEW h \in Node, NodeStep(h)
    PROVE /\ UNCHANGED <<topo, request, seen, cl, files, kept, kw, spoiled>>
          /\ nodes' \in [Node -> Resource] /\ \A k \in Node \ {h} : nodes'[k] = nodes[k]
          /\ nodes'[h].state = "gone" <=> nodes[h].state = "gone"
  <1>1. nodes[h] \in Resource
    BY DEF PlainInv, Types
  <1>2. CASE NodeStarts(h)
    <2>1. PICK c : c = IF nodes[h].image = "haproxy" THEN files[MachineOf[h]] ELSE None
      OBVIOUS
    <2>2. c \in Topology \cup {None}
      BY <2>1 DEF PlainInv, Types, Machine
    <2>3. PICK q : q = [nodes[h] EXCEPT !.state = "ready", !.cfg = c]
      OBVIOUS
    <2>4. q \in Resource /\ q.state = "ready"
      BY <1>1, <2>2, <2>3 DEF Resource
    <2>5. nodes' = [nodes EXCEPT ![h] = q]
      BY <1>2, <2>1, <2>3 DEF NodeStarts, PlainInv, Types
    <2> QED
      BY <1>2, <2>4, <2>5 DEF NodeStarts, Plane, Outside, PlainInv, Types
  <1>3. CASE NodeEnds(h)
    <2>1. PICK q : q = [nodes[h] EXCEPT !.state = "finish"]
      OBVIOUS
    <2>2. q \in Resource /\ q.state = "finish"
      BY <1>1, <2>1 DEF Resource
    <2>3. nodes' = [nodes EXCEPT ![h] = q]
      BY <1>3, <2>1 DEF NodeEnds, PlainInv, Types
    <2> QED
      BY <1>3, <2>2, <2>3 DEF NodeEnds, Plane, PlainInv, Types
  <1>4. CASE ClaimNode /\ h = Client
    <2>1. PICK q : q = [nodes[h] EXCEPT !.image = "client"]
      OBVIOUS
    <2>2. q \in Resource /\ q.state = nodes[h].state
      BY <1>1, <2>1 DEF Resource
    <2>3. nodes' = nodes \/ nodes' = [nodes EXCEPT ![h] = q]
      BY <1>4, <2>1 DEF ClaimNode, PlainInv, Types
    <2> QED
      BY <1>4, <2>2, <2>3 DEF ClaimNode, PlainInv, Types
  <1> QED
    BY <1>2, <1>3, <1>4 DEF NodeStep

\* Lemma: the invariant is kept by it.
LEMMA NodeStepKeeps ==
    ASSUME PlainInv, NEW h \in Node, NodeStep(h)
    PROVE PlainInv'
  BY NodeStepEffect, NodesAside

\* Lemma: the invariant is kept by a step that changes nothing it speaks of.
LEMMA NothingKeeps ==
    ASSUME PlainInv, UNCHANGED <<topo, request, nodes, seen, cl, files, kept, kw, spoiled>>
    PROVE PlainInv'
  <1>1. nodes' \in [Node -> Resource]
    BY DEF PlainInv, Types
  <1> QED
    BY <1>1, NodesAside

\* Lemma: PlainInv is inductive.
LEMMA PlainInvKept == ASSUME PlainInv, [Next]_vars PROVE PlainInv'
  <1>1. CASE UNCHANGED vars \/ CheckTopologies
    BY <1>1, NothingKeeps DEF vars, CheckTopologies
  <1>2. CASE CommandFails \/ CutOff
    <2>1. Return /\ UNCHANGED <<topo, request, nodes, seen, cl, files, kept>> /\ spoiled' = spoiled
      BY <1>2 DEF CommandFails, CutOff, Plane, Outside
    <2>2. spoiled' \in BOOLEAN
      BY <2>1 DEF PlainInv, Types
    <2> QED
      BY <2>1, <2>2, CallEnds
  <1>3. CASE ClaimNode
    BY <1>3, PlainAssumption, NodeStepKeeps DEF NodeStep
  <1>4. CASE \E h \in Node : NodeGoes(h) \/ WatchNode(h) \/ NodeStarts(h) \/ NodeEnds(h)
    BY <1>4, NodeGoesKeeps, WatchNodeKeeps, NodeStepKeeps DEF NodeStep
  <1>5. CASE \E t \in Topology : CreateTopology(t) \/ DeleteTopology(t)
    BY <1>5, CreateTopologyKeeps, DeleteTopologyKeeps
  <1>6. CASE Reconcile
    <2>1. CASE \E t \in Topology :
                  AddFinalizer(t) \/ BeginPending(t) \/ BeginInit(t) \/ BeginDelete(t)
      BY <2>1, AddFinalizerKeeps, BeginPendingKeeps, BeginInitKeeps, BeginDeleteKeeps
    <2>2. CASE \E h \in Node : InitNode(h)
      BY <2>2, InitNodeKeeps
    <2> QED
      BY <1>2, <1>6, <2>1, <2>2, InitEndKeeps, WriteConfigKeeps, InitProxyKeeps, InstallKeeps,
         WriteReadyKeeps, UninstallKeeps, RemoveFinalizerKeeps
      DEF Reconcile
  <1>7. CASE \E t \in Topology : BeginDeleteLost(t)
    BY <1>7, BeginDeleteKeeps
  <1> QED
    BY <1>1, <1>2, <1>3, <1>4, <1>5, <1>6, <1>7, WriteConfigKeeps, RequestKeeps DEF Next

\* Theorem: PlainInv holds throughout, for all topologies, nodes and faults.
THEOREM PlainHolds == Spec => []PlainInv
  BY PlainInvInit, PlainInvKept, PTL DEF Spec

\* Theorem: a topology that is gone has left no cluster and no file
\* (deleteTopology of testclustertopology_controller.go), in whatever step it
\* was deleted and however often calls were cut off, but for a file that the
\* daemon kept and said it had not (cmd/daemon/deploy.go:29-36).
THEOREM GoneTopologiesLeaveNothing == Spec => []GoneLeavesNothing
  <1>1. PlainInv => GoneLeavesNothing
    BY DEF PlainInv, Finalized, Early, GoneLeavesNothing
  <1> QED
    BY <1>1, PlainHolds, PTL

NoFlink == \A t \in Topology : Plan[t].kind # "flink"

\* Theorem: a DM or TiDB topology that is ready has been installed
\* (installCluster of testclustertopology_controller.go), whoever else uses its
\* nodes.  Of a Flink cluster this is not so: an error drops what is left to do.
THEOREM ReadyTopologiesAreInstalled == NoFlink => (Spec => []ReadyIsInstalled)
  <1>1. NoFlink /\ PlainInv => ReadyIsInstalled
    BY DEF PlainInv, Finalized, Early, ReadyIsInstalled, Installed, NoFlink
  <1>2. SUFFICES ASSUME NoFlink PROVE Spec => []ReadyIsInstalled
    OBVIOUS
  <1>3. PlainInv => ReadyIsInstalled
    BY <1>1, <1>2
  <1> QED
    BY <1>3, PlainHolds, PTL

----------------------------------------------------------------------------
(* The HAProxy.  Its file is written before its node gets the image, and is *)
(* read when the container is started, any number of steps later.           *)

\* No two topologies have their HAProxies on the same machine, where all files
\* of a request have the same name.
ProxiesApart ==
    \A t, u \in Topology :
        Plan[t].proxy # None /\ Plan[u].proxy # None /\ t # u => ProxyMachine(t) # ProxyMachine(u)

Excused(t) == spoiled \/ topo[t].gen > 1 \/ topo[t].state = "absent" \/ topo[t].del

\* The file of t is there, or need not be.
HasFile(t) == files[ProxyMachine(t)] = t \/ Excused(t)

\* The HAProxy of t waits for its start, or has been started, with the file.
NodeConfigured(t) ==
    Plan[t].proxy # None /\ nodes[Plan[t].proxy].image = "haproxy" =>
        /\ topo[t].gen # 0
        /\ nodes[Plan[t].proxy].state = "uninitialized" => HasFile(t)
        /\ nodes[Plan[t].proxy].state = "ready" => nodes[Plan[t].proxy].cfg = t \/ Excused(t)

ProxyInv ==
    /\ kw.pc = "proxy" => HasFile(kw.t)
    /\ \A t \in Topology : (topo[t].gen = 0 => topo[t].state = "absent") /\ NodeConfigured(t)

\* Lemma: who writes topologies.
LEMMA WhoWritesTopologies ==
    ASSUME Next, topo' # topo
    PROVE \/ \E t \in Topology : \/ AddFinalizer(t) \/ BeginPending(t)
                                 \/ CreateTopology(t) \/ DeleteTopology(t)
          \/ WriteReady \/ RemoveFinalizer
  <1>1. ~(InitEnd \/ WriteConfig \/ InitProxy \/ DeployCluster \/ StartCluster \/ CommandFails
          \/ UninstallCluster \/ WriteConfigLost \/ CheckTopologies \/ ClaimNode
          \/ RequestReady \/ DeleteRequest \/ RequestGone \/ CutOff)
    BY DEF InitEnd, WriteConfig, InitProxy, DeployCluster, StartCluster, CommandFails,
           UninstallCluster, WriteConfigLost, CheckTopologies, ClaimNode, RequestReady,
           DeleteRequest, RequestGone, CutOff, Plane
  <1>2. \A t \in Topology : ~BeginInit(t) /\ ~BeginDelete(t) /\ ~BeginDeleteLost(t)
    BY DEF BeginInit, BeginDelete, BeginDeleteLost, Plane
  <1>3. \A h \in Node : ~(InitNode(h) \/ NodeGoes(h) \/ WatchNode(h) \/ NodeStarts(h) \/ NodeEnds(h))
    BY DEF InitNode, NodeGoes, WatchNode, NodeStarts, NodeEnds, Plane
  <1> QED
    BY <1>1, <1>2, <1>3 DEF Next, Reconcile

\* Lemma: who writes files.
LEMMA WhoWritesFiles ==
    ASSUME Next, files' # files
    PROVE WriteConfig \/ WriteConfigLost \/ \E t \in Topology : BeginDelete(t)
  <1>1. ~(InitEnd \/ InitProxy \/ DeployCluster \/ StartCluster \/ CommandFails \/ WriteReady
          \/ UninstallCluster \/ RemoveFinalizer \/ CheckTopologies \/ ClaimNode
          \/ RequestReady \/ DeleteRequest \/ RequestGone \/ CutOff)
    BY DEF InitEnd, InitProxy, DeployCluster, StartCluster, CommandFails, WriteReady,
           UninstallCluster, RemoveFinalizer, CheckTopologies, ClaimNode, RequestReady,
           DeleteRequest, RequestGone, CutOff
  <1>2. \A t \in Topology : ~(AddFinalizer(t) \/ BeginPending(t) \/ BeginInit(t)
                              \/ BeginDeleteLost(t) \/ CreateTopology(t) \/ DeleteTopology(t))
    BY DEF AddFinalizer, BeginPending, BeginInit, BeginDeleteLost, CreateTopology, DeleteTopology
  <1>3. \A h \in Node : ~(InitNode(h) \/ NodeGoes(h) \/ WatchNode(h) \/ NodeStarts(h) \/ NodeEnds(h))
    BY DEF InitNode, NodeGoes, WatchNode, NodeStarts, NodeEnds
  <1> QED
    BY <1>1, <1>2, <1>3 DEF Next, Reconcile

\* Lemma: who writes nodes.
LEMMA WhoWritesNodes ==
    ASSUME Next, nodes' # nodes
    PROVE \/ InitProxy \/ ClaimNode
          \/ \E h \in Node : GiveImage(h) \/ NodeGoes(h) \/ NodeStarts(h) \/ NodeEnds(h)
  <1>1. ~(InitEnd \/ WriteConfig \/ WriteConfigLost \/ DeployCluster \/ StartCluster
          \/ CommandFails \/ WriteReady \/ UninstallCluster \/ RemoveFinalizer
          \/ CheckTopologies \/ RequestReady \/ DeleteRequest \/ RequestGone \/ CutOff)
    BY DEF InitEnd, WriteConfig, WriteConfigLost, DeployCluster, StartCluster, CommandFails,
           WriteReady, UninstallCluster, RemoveFinalizer, CheckTopologies, RequestReady,
           DeleteRequest, RequestGone, CutOff
  <1>2. \A t \in Topology : ~(AddFinalizer(t) \/ BeginPending(t) \/ BeginInit(t) \/ BeginDelete(t)
                              \/ BeginDeleteLost(t) \/ CreateTopology(t) \/ DeleteTopology(t))
    BY DEF AddFinalizer, BeginPending, BeginInit, BeginDelete, BeginDeleteLost, CreateTopology,
           DeleteTopology
  <1>3. \A h \in Node : ~WatchNode(h) /\ (InitNode(h) => GiveImage(h))
    BY DEF WatchNode, InitNode
  <1> QED
    BY <1>1, <1>2, <1>3 DEF Next, Reconcile

\* Lemma: the worker comes to the node of the HAProxy from writing the file only.
LEMMA WhoComesToProxy ==
    ASSUME PlainInv, Next, kw'.pc = "proxy"
    PROVE kw' = kw \/ WriteConfig \/ WriteConfigLost
  <1>1. ASSUME Return PROVE FALSE
    BY <1>1, ReturnEffect
  <1>2. ASSUME NEW pc \in KPc, Goto(pc) PROVE pc = "proxy"
    BY <1>2, GotoEffect DEF PlainInv
  <1>3. ~(InitEnd \/ InitProxy)
    BY <1>1, <1>2 DEF InitEnd, InitProxy, KPc
  <1>4. ~(DeployCluster \/ StartCluster \/ CommandFails \/ WriteReady \/ UninstallCluster
          \/ RemoveFinalizer \/ CutOff)
    BY <1>1, <1>2 DEF DeployCluster, StartCluster, CommandFails, WriteReady, UninstallCluster,
                      RemoveFinalizer, CutOff, KPc
  <1>5. \A t \in Topology : ~BeginInit(t) /\ ~BeginDelete(t) /\ ~BeginDeleteLost(t)
    <2> TAKE t \in Topology
    <2>1. ~BeginInit(t)
      <3>1. AfterError(t) # "proxy"
        BY DEF AfterError
      <3> QED
        BY <3>1 DEF BeginInit
    <2>2. ~BeginDelete(t) /\ ~BeginDeleteLost(t)
      BY BeginDeleteEffect DEF BeginDelete, BeginDeleteLost, PlainInv
    <2> QED
      BY <2>1, <2>2
  <1>6. \A h \in Node : ~InitNode(h)
    <2> SUFFICES ASSUME NEW h \in Node, InitNode(h) PROVE FALSE
      OBVIOUS
    <2>1. AfterError(kw.t) \in KPc /\ AfterError(kw.t) # "proxy"
      BY DEF AfterError, KPc
    <2>2. PICK pc : pc = AfterError(kw.t)
      OBVIOUS
    <2>3. ~Goto(AfterError(kw.t))
      BY <1>2, <2>1, <2>2
    <2>4. \/ kw' = [kw EXCEPT !.todo = @ \ {h}, !.again = TRUE]
          \/ kw' = [kw EXCEPT !.todo = @ \ {h}]
      BY <2>3 DEF InitNode, GiveImage
    <2>5. kw'.pc = kw.pc
      BY <2>4 DEF PlainInv, Types, KWorker
    <2> QED
      BY <2>5 DEF InitNode
  <1>7. \A t \in Topology : AddFinalizer(t) \/ BeginPending(t) \/ CreateTopology(t)
                            \/ DeleteTopology(t) => kw' = kw
    BY DEF AddFinalizer, BeginPending, CreateTopology, DeleteTopology
  <1>8. \A h \in Node : NodeGoes(h) \/ WatchNode(h) \/ NodeStarts(h) \/ NodeEnds(h) => kw' = kw
    BY DEF NodeGoes, WatchNode, NodeStarts, NodeEnds
  <1>9. CheckTopologies \/ ClaimNode \/ RequestReady \/ DeleteRequest \/ RequestGone => kw' = kw
    BY DEF CheckTopologies, ClaimNode, RequestReady, DeleteRequest, RequestGone
  <1> QED
    BY <1>3, <1>4, <1>5, <1>6, <1>7, <1>8, <1>9 DEF Next, Reconcile

\* Lemma: a file that was lost once is remembered.
LEMMA SpoiledStays == ASSUME Next, spoiled PROVE spoiled'
  <1>1. InitEnd \/ WriteConfig \/ InitProxy \/ DeployCluster \/ StartCluster \/ CommandFails
        \/ WriteReady \/ UninstallCluster \/ RemoveFinalizer => spoiled'
    BY DEF InitEnd, WriteConfig, InitProxy, DeployCluster, StartCluster, CommandFails,
           WriteReady, UninstallCluster, RemoveFinalizer, Outside
  <1>2. WriteConfigLost \/ CheckTopologies \/ ClaimNode \/ RequestReady \/ DeleteRequest
        \/ RequestGone \/ CutOff => spoiled'
    BY DEF WriteConfigLost, CheckTopologies, ClaimNode, RequestReady, DeleteRequest,
           RequestGone, CutOff, Outside
  <1>3. \A t \in Topology : AddFinalizer(t) \/ BeginPending(t) \/ BeginInit(t) \/ BeginDelete(t)
                            \/ BeginDeleteLost(t) \/ CreateTopology(t) \/ DeleteTopology(t)
                            => spoiled'
    BY DEF AddFinalizer, BeginPending, BeginInit, BeginDelete, BeginDeleteLost, CreateTopology,
           DeleteTopology, Outside
  <1>4. \A h \in Node : InitNode(h) \/ NodeGoes(h) \/ WatchNode(h) \/ NodeStarts(h) \/ NodeEnds(h)
                        => spoiled'
    BY DEF InitNode, NodeGoes, WatchNode, NodeStarts, NodeEnds, Outside
  <1> QED
    BY <1>1, <1>2, <1>3, <1>4 DEF Next, Reconcile

\* What may become of the topology t: it grows no younger, and does not come
\* back from its deletion but as another one of that name.
Ageing(t) ==
    /\ topo'[t].gen \in Nat /\ topo'[t].gen >= topo[t].gen
    /\ topo[t].state # "absent" /\ topo[t].del => topo'[t].del \/ topo'[t].state = "absent"
    /\ topo[t].state = "absent" => topo'[t].state = "absent" \/ topo'[t].gen = topo[t].gen + 1
    /\ topo[t].state # "absent" => topo'[t].gen = topo[t].gen
    /\ topo'[t].gen = topo[t].gen /\ topo[t].state = "absent" => topo'[t].state = "absent"

\* Lemma: so it is in every step.
LEMMA TopologiesAge ==
    ASSUME PlainInv, Next, NEW t \in Topology
    PROVE Ageing(t)
  <1> USE DEF Ageing
  <1>1. topo[t] \in Object /\ topo[t].gen \in Nat /\ topo \in [Topology -> Object]
    BY PlainAssumption DEF PlainInv, Types, Object
  <1>2. CASE topo'[t] = topo[t]
    BY <1>1, <1>2
  <1>3. ASSUME NEW u \in Topology, AddFinalizer(u), topo'[t] # topo[t] PROVE Ageing(t)
    <2>1. u = t /\ topo'[t] = [topo[t] EXCEPT !.fin = TRUE]
      BY <1>1, <1>3 DEF AddFinalizer
    <2> QED
      BY <1>1, <2>1 DEF Object
  <1>4. ASSUME NEW u \in Topology, BeginPending(u), topo'[t] # topo[t] PROVE Ageing(t)
    <2>1. u = t /\ topo'[t] = [topo[t] EXCEPT !.state = "pending"] /\ topo[t].fin
      BY <1>1, <1>4 DEF BeginPending
    <2>2. topo[t].state # "absent"
      BY <2>1 DEF PlainInv, Finalized
    <2> QED
      BY <1>1, <2>1, <2>2 DEF Object
  <1>5. ASSUME NEW u \in Topology, CreateTopology(u), topo'[t] # topo[t] PROVE Ageing(t)
    <2>1. u = t /\ topo'[t] = [Absent(topo[t].gen + 1) EXCEPT !.state = Unset]
          /\ topo[t].state = "absent"
      BY <1>1, <1>5 DEF CreateTopology
    <2>2. topo'[t].gen = topo[t].gen + 1
      BY <1>1, <2>1 DEF Absent
    <2> QED
      BY <1>1, <2>1, <2>2
  <1>6. ASSUME NEW u \in Topology, DeleteTopology(u), topo'[t] # topo[t] PROVE Ageing(t)
    <2>1. u = t /\ topo[t].state # "absent" /\
          topo'[t] = IF topo[t].fin THEN [topo[t] EXCEPT !.del = TRUE] ELSE Absent(topo[t].gen)
      BY <1>1, <1>6 DEF DeleteTopology
    <2>2. CASE topo[t].fin
      BY <1>1, <2>1, <2>2 DEF Object
    <2>3. CASE ~topo[t].fin
      BY <1>1, <2>1, <2>3 DEF Absent
    <2> QED
      BY <2>2, <2>3
  <1>7. ASSUME WriteReady, topo'[t] # topo[t] PROVE Ageing(t)
    <2>1. kw.t = t /\ topo'[t] = [topo[t] EXCEPT !.state = "ready"] /\ topo[t].fin
      BY <1>1, <1>7 DEF WriteReady, PlainInv, AtWork
    <2>2. topo[t].state # "absent"
      BY <2>1 DEF PlainInv, Finalized
    <2> QED
      BY <1>1, <2>1, <2>2 DEF Object
  <1>8. ASSUME RemoveFinalizer, topo'[t] # topo[t] PROVE Ageing(t)
    <2>1. kw.t = t /\ topo'[t] = Absent(topo[t].gen)
      BY <1>1, <1>8 DEF RemoveFinalizer, PlainInv, AtWork
    <2> QED
      BY <1>1, <2>1 DEF Absent
  <1>9. CASE topo'[t] # topo[t]
    BY <1>3, <1>4, <1>5, <1>6, <1>7, <1>8, <1>9, WhoWritesTopologies
  <1> QED
    BY <1>2, <1>9

\* Lemma: a topology that was created has been, and what excuses it stays.
LEMMA ExcuseStays ==
    ASSUME PlainInv, Next, NEW t \in Topology, topo[t].gen # 0
    PROVE topo'[t].gen # 0 /\ (Excused(t) => Excused(t)')
  <1>1. topo[t].gen \in Nat /\ Ageing(t)
    BY TopologiesAge, PlainAssumption DEF PlainInv, Types, Object
  <1> QED
    BY <1>1, SpoiledStays DEF Ageing, Excused

\* Lemma: the file of t stays while t is not excused, for nobody else writes
\* one on that machine.
LEMMA FileStays ==
    ASSUME PlainInv, ProxiesApart, Next, NEW t \in Topology, Plan[t].proxy # None,
           topo[t].gen # 0, HasFile(t)
    PROVE HasFile(t)'
  <1>1. topo[t].gen # 0 /\ (Excused(t) => Excused(t)')
    BY ExcuseStays
  <1>2. CASE files'[ProxyMachine(t)] = files[ProxyMachine(t)]
    BY <1>1, <1>2 DEF HasFile, ProxyMachine
  <1>3. CASE WriteConfig
    <2>1. kw.t \in Topology /\ Plan[kw.t].proxy # None
      BY <1>3 DEF WriteConfig, PlainInv, AtWork
    <2>2. CASE kw.t = t
      <3>1. files'[ProxyMachine(t)] = t
        BY <1>3, <2>2, PlanNamesNodes DEF WriteConfig, PlainInv, Types
      <3> QED
        BY <3>1 DEF HasFile, ProxyMachine
    <2>3. CASE kw.t # t
      <3>1. ProxyMachine(kw.t) # ProxyMachine(t)
        BY <2>1, <2>3 DEF ProxiesApart
      <3>2. files'[ProxyMachine(t)] = files[ProxyMachine(t)]
        BY <1>3, <3>1, PlanNamesNodes DEF WriteConfig, PlainInv, Types
      <3> QED
        BY <1>2, <3>2
    <2> QED
      BY <2>2, <2>3
  <1>4. CASE WriteConfigLost
    BY <1>4 DEF WriteConfigLost, HasFile, Excused
  <1>5. ASSUME NEW u \in Topology, BeginDelete(u),
               files'[ProxyMachine(t)] # files[ProxyMachine(t)]
        PROVE HasFile(t)'
    <2>1. Plan[u].proxy # None /\ files' = [files EXCEPT ![ProxyMachine(u)] = None]
      BY <1>5 DEF BeginDelete, DeleteConfig, HasConfig
    <2>2. ProxyMachine(u) = ProxyMachine(t)
      BY <1>5, <2>1, PlanNamesNodes DEF PlainInv, Types
    <2>3. u = t
      BY <2>1, <2>2 DEF ProxiesApart
    <2>4. topo[t].del /\ topo' = topo
      BY <1>5, <2>3 DEF BeginDelete, GoOnDeleting, Plane
    <2> QED
      BY <2>4 DEF HasFile, Excused
  <1> QED
    BY <1>2, <1>3, <1>4, <1>5, WhoWritesFiles

\* Lemma: the HAProxy of t stays configured when nothing happens to its node.
LEMMA NodeStaysConfigured ==
    ASSUME PlainInv, ProxiesApart, Next, NEW t \in Topology, NodeConfigured(t),
           Plan[t].proxy # None => nodes'[Plan[t].proxy] = nodes[Plan[t].proxy]
    PROVE NodeConfigured(t)'
  <1> SUFFICES ASSUME Plan[t].proxy # None, nodes[Plan[t].proxy].image = "haproxy"
               PROVE NodeConfigured(t)'
    BY DEF NodeConfigured
  <1>1. topo[t].gen # 0
    BY DEF NodeConfigured
  <1>2. topo'[t].gen # 0 /\ (Excused(t) => Excused(t)')
    BY <1>1, ExcuseStays
  <1>3. HasFile(t) => HasFile(t)'
    BY <1>1, FileStays
  <1> QED
    BY <1>2, <1>3 DEF NodeConfigured

\* Lemma: it stays configured when something happens to its node: the worker
\* gives the image when the file is there, and the container reads that file.
LEMMA NodeBecomesConfigured ==
    ASSUME PlainInv, ProxyInv, ProxiesApart, Next, NEW t \in Topology, NodeConfigured(t),
           Plan[t].proxy # None, nodes'[Plan[t].proxy] # nodes[Plan[t].proxy]
    PROVE NodeConfigured(t)'
  <1>1. PICK p : p = Plan[t].proxy
    OBVIOUS
  <1>2. p \in Node /\ nodes[p] \in Resource /\ nodes \in [Node -> Resource]
    BY <1>1, PlanNamesNodes DEF PlainInv, Types
  <1>3. ASSUME nodes'[p].image # "haproxy" PROVE NodeConfigured(t)'
    BY <1>1, <1>3 DEF NodeConfigured
  <1>4. CASE ClaimNode
    <2>1. nodes'[p].image = "client"
      BY <1>1, <1>2, <1>4 DEF ClaimNode, Resource
    <2> QED
      BY <1>3, <2>1
  <1>5. ASSUME NEW h \in Node, GiveImage(h) PROVE NodeConfigured(t)'
    <2>1. PICK i : i = Image(kw.t)
      OBVIOUS
    <2>2. i # "haproxy"
      BY <2>1 DEF Image
    <2>3. nodes'[p].image = i
      BY <1>1, <1>2, <1>5, <2>1 DEF GiveImage, Resource
    <2> QED
      BY <1>3, <2>2, <2>3
  <1>6. ASSUME NEW h \in Node, NodeGoes(h) PROVE NodeConfigured(t)'
    <2>1. nodes'[p] = GoneNode
      BY <1>1, <1>2, <1>6 DEF NodeGoes
    <2>2. nodes'[p].image = Unset
      BY <2>1 DEF GoneNode, FreeNode
    <2> QED
      BY <1>3, <2>2, UnsetIsNone
  <1>7. ASSUME NEW h \in Node, NodeEnds(h) PROVE NodeConfigured(t)'
    <2>1. nodes'[p] = [nodes[p] EXCEPT !.state = "finish"]
      BY <1>1, <1>2, <1>7 DEF NodeEnds
    <2>2. nodes'[p].state = "finish" /\ nodes'[p].image = nodes[p].image
      BY <1>2, <2>1 DEF Resource
    <2> QED
      BY <1>1, <2>2, ExcuseStays DEF NodeConfigured
  <1>8. ASSUME NEW h \in Node, NodeStarts(h) PROVE NodeConfigured(t)'
    <2> SUFFICES ASSUME nodes'[p].image = "haproxy" PROVE NodeConfigured(t)'
      BY <1>3
    <2>1. PICK c : c = IF nodes[p].image = "haproxy" THEN files[MachineOf[p]] ELSE None
      OBVIOUS
    <2>2. nodes'[p] = [nodes[p] EXCEPT !.state = "ready", !.cfg = c]
          /\ nodes[p].state = "uninitialized"
      BY <1>1, <1>2, <1>8, <2>1 DEF NodeStarts
    <2>3. nodes'[p].state = "ready" /\ nodes'[p].cfg = c /\ nodes'[p].image = nodes[p].image
      BY <1>2, <2>2 DEF Resource
    <2>4. c = files[ProxyMachine(t)]
      BY <1>1, <2>1, <2>3 DEF ProxyMachine
    <2>5. topo[t].gen # 0 /\ HasFile(t)
      BY <1>1, <2>2, <2>3 DEF NodeConfigured
    <2>6. topo'[t].gen # 0 /\ (Excused(t) => Excused(t)')
      BY <2>5, ExcuseStays
    <2> QED
      BY <1>1, <2>3, <2>4, <2>5, <2>6 DEF NodeConfigured, HasFile
  <1>9. CASE InitProxy
    <2>1. kw.t \in Topology /\ topo[kw.t].fin /\ Plan[kw.t].proxy # None
      BY <1>9 DEF InitProxy, PlainInv, AtWork
    <2>2. Plan[kw.t].proxy = p
      BY <1>1, <1>2, <1>9 DEF InitProxy
    <2>3. ProxyMachine(kw.t) = ProxyMachine(t)
      BY <1>1, <2>2 DEF ProxyMachine
    <2>4. kw.t = t
      BY <2>1, <2>3 DEF ProxiesApart
    <2>5. topo[t].state # "absent" /\ topo[t].gen # 0
      BY <2>1, <2>4 DEF PlainInv, Finalized, ProxyInv
    <2>6. HasFile(t)
      BY <1>9, <2>4 DEF ProxyInv, InitProxy
    <2>7. topo'[t].gen # 0 /\ HasFile(t)'
      BY <2>5, <2>6, ExcuseStays, FileStays
    <2>8. nodes'[p] = [nodes[p] EXCEPT !.image = "haproxy"] /\ kw.list[p] = nodes[p]
          /\ kw.list[p].state = "uninitialized"
      BY <1>1, <1>2, <1>9, <2>2 DEF InitProxy
    <2>9. nodes'[p].state = "uninitialized"
      BY <1>2, <2>8 DEF Resource
    <2> QED
      BY <1>1, <2>7, <2>9 DEF NodeConfigured
  <1> QED
    BY <1>4, <1>5, <1>6, <1>7, <1>8, <1>9, WhoWritesNodes

\* Lemma: ProxyInv is kept, when the HAProxies are on different machines.
LEMMA ProxyInvKept ==
    ASSUME PlainInv, ProxyInv, ProxiesApart, [Next]_vars
    PROVE ProxyInv'
  <1>1. CASE UNCHANGED vars
    BY <1>1 DEF vars, ProxyInv, HasFile, NodeConfigured, Excused, ProxyMachine
  <1>2. CASE Next
    <2>1. ASSUME NEW t \in Topology PROVE topo'[t].gen = 0 => topo'[t].state = "absent"
      <3>1. Ageing(t) /\ topo[t].gen \in Nat /\ (topo[t].gen = 0 => topo[t].state = "absent")
        BY <1>2, TopologiesAge, PlainAssumption DEF PlainInv, Types, Object, ProxyInv
      <3> QED
        BY <3>1 DEF Ageing
    <2>2. ASSUME NEW t \in Topology PROVE NodeConfigured(t)'
      BY <1>2, NodeStaysConfigured, NodeBecomesConfigured DEF ProxyInv
    <2>3. ASSUME kw'.pc = "proxy" PROVE HasFile(kw.t)' /\ kw'.t = kw.t
      <3>1. CASE kw' = kw
        <4>1. PICK t : t = kw.t
          OBVIOUS
        <4>2. t \in Topology /\ topo[t].fin /\ Plan[t].proxy # None /\ HasFile(t)
          BY <2>3, <3>1, <4>1 DEF PlainInv, AtWork, ProxyInv
        <4>3. topo[t].gen # 0
          BY <4>2 DEF PlainInv, Finalized, ProxyInv
        <4>4. HasFile(t)'
          BY <1>2, <4>2, <4>3, FileStays
        <4> QED
          BY <3>1, <4>1, <4>4 DEF HasFile, Excused, ProxyMachine
      <3>2. CASE WriteConfig
        <4>1. kw.t \in Topology /\ Plan[kw.t].proxy # None
          BY <3>2 DEF WriteConfig, PlainInv, AtWork
        <4>2. kw'.t = kw.t
          BY <3>2, GotoEffect DEF WriteConfig, PlainInv, KPc
        <4>3. files'[ProxyMachine(kw.t)] = kw.t
          BY <3>2, <4>1, PlanNamesNodes DEF WriteConfig, PlainInv, Types
        <4> QED
          BY <4>2, <4>3 DEF HasFile, ProxyMachine
      <3>3. CASE WriteConfigLost
        <4>1. kw'.t = kw.t
          BY <3>3, GotoEffect DEF WriteConfigLost, PlainInv, KPc
        <4> QED
          BY <3>3, <4>1 DEF WriteConfigLost, HasFile, Excused
      <3> QED
        BY <1>2, <2>3, <3>1, <3>2, <3>3, WhoComesToProxy
    <2>4. kw'.pc = "proxy" => HasFile(kw.t)'
      BY <2>3
    <2> QED
      BY <2>1, <2>2, <2>4 DEF ProxyInv
  <1> QED
    BY <1>1, <1>2

\* Theorem: an HAProxy that is started finds the file of its own topology
\* (WriteConfigToMachine, then the image, in initTiDBResources), when no two
\* HAProxies of the request are on the same machine; two that are share the
\* name of the file.
THEOREM ProxiesAreConfigured == ProxiesApart => (Spec => []ProxyConfigured)
  <1> SUFFICES ASSUME ProxiesApart PROVE Spec => []ProxyConfigured
    OBVIOUS
  <1>1. Init => ProxyInv
    <2> SUFFICES ASSUME Init PROVE ProxyInv
      OBVIOUS
    <2>1. kw.pc = "idle"
      BY DEF Init, KIdle
    <2>2. \A h \in Node : nodes[h].image = Unset
      BY DEF Init, FreeNode
    <2>3. \A t \in Topology : topo[t].state = "absent"
      BY DEF Init, Absent
    <2> QED
      BY <2>1, <2>2, <2>3, UnsetIsNone, PlanNamesNodes DEF ProxyInv, NodeConfigured
  <1>2. PlainInv /\ ProxyInv /\ [Next]_vars => ProxyInv'
    BY ProxyInvKept
  <1>3. ProxyInv => ProxyConfigured
    BY DEF ProxyInv, NodeConfigured, Excused, ProxyConfigured
  <1> QED
    BY <1>1, <1>2, <1>3, PlainHolds, PTL DEF Spec
=============================================================================
