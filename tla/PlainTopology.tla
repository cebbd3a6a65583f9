---------------------------- MODULE PlainTopology ---------------------------
(***************************************************************************)
(* Topologies that share the nodes of one request: DM and Flink clusters,  *)
(* which are installed and uninstalled and never changed, TiDB clusters    *)
(* with an HAProxy in front (what else happens to a TiDB cluster is in     *)
(* TopologyController), and a workload that waits for them.                *)
(*                                                                         *)
(* kw is the one worker of the topology controller.  It lists the nodes    *)
(* from a cache, looks at them one by one and gives those that have none   *)
(* an image, each with a status write of its own that may be refused.  The *)
(* topologies themselves are read as they are; the lag of that cache is in *)
(* TopologyController.                                                     *)
(***************************************************************************)
EXTENDS Naturals

CONSTANTS
    Node,       \* names of the TestResources of the request
    Topology,   \* names of TestClusterTopologies
    Plan,       \* Plan[t]: [kind, hosts, control, proxy], the specification
    MachineOf,  \* MachineOf[h]: the machine that node h is bound to
    Client,     \* the node of the workload
    Needs,      \* the topologies the workload refers to
    None,       \* no node, no file
    MaxGen,     \* bound: creations of one topology name
    MaxFault    \* bound: calls cut off, nodes that end, files not written or deleted

ASSUME PlainAssumption ==
    /\ \A t \in Topology :
          /\ Plan[t].kind \in {"dm", "flink", "tidb"}
          /\ Plan[t].hosts \subseteq Node /\ Plan[t].control \in Plan[t].hosts
          /\ Plan[t].proxy \in Node \cup {None}
          /\ Plan[t].proxy # None => Plan[t].kind = "tidb" /\ Plan[t].proxy \notin Plan[t].hosts
    /\ Client \in Node /\ Needs \subseteq Topology /\ None \notin Node \cup Topology
    /\ MaxGen \in Nat /\ MaxFault \in Nat

VARIABLES
    topo,       \* topo[t]: the topology
    request,    \* the TestResourceRequest: "pending", "ready", "going" or "absent"
    nodes,      \* nodes[h]: the TestResource at the API server
    seen,       \* seen[h]: the TestResource as the manager's cache shows it
    cl,         \* cl[t]: the cluster that tiup has under the name t
    files,      \* files[m]: the topology whose HAProxy file is on machine m
    kw, wl,     \* the worker; the workload
    faults,
    spoiled,    \* history: a file was not written though the daemon said so
    kept        \* history: topologies whose file was not deleted, the last time
                \* the daemon said so

vars == <<topo, request, nodes, seen, cl, files, kw, wl, faults, spoiled, kept>>

Machine == {MachineOf[h] : h \in Node}

AllHosts(t) == Plan[t].hosts \cup ({Plan[t].proxy} \ {None})

Image(t) == IF Plan[t].kind = "flink" THEN "flink" ELSE "tiup"

Absent(gen) == [state |-> "absent", fin |-> FALSE, del |-> FALSE, gen |-> gen]

\* A state or an image that nobody has set.
Unset == ""

\* cfg is what the HAProxy of a node was started with; a node has an address
\* from when it is started.
FreeNode == [state |-> "uninitialized", image |-> Unset, cfg |-> None]
GoneNode == [FreeNode EXCEPT !.state = "gone"]

HasAddress(o) == o.state \in {"ready", "finish"}

\* todo are the nodes still to be looked at, list the nodes as they were
\* listed, again: one of them is not up yet.
KIdle(t) ==
    [pc |-> "idle", t |-> t, obj |-> Absent(0), todo |-> {}, list |-> <<>>, again |-> FALSE]

AnyTopology == CHOOSE t \in Topology : TRUE

Object == [state : {"absent", Unset, "pending", "ready"}, fin : BOOLEAN, del : BOOLEAN,
           gen : 0 .. MaxGen]

Resource == [state : {"uninitialized", "ready", "finish", "gone"},
             image : {Unset, "tiup", "flink", "haproxy", "client"}, cfg : Topology \cup {None}]

\* Every variable has its type, also what the worker holds.
TypeOK ==
    /\ topo \in [Topology -> Object]
    /\ request \in {"pending", "ready", "going", "absent"}
    /\ nodes \in [Node -> Resource] /\ seen \in [Node -> Resource]
    /\ cl \in [Topology -> {"none", "deployed", "started"}]
    /\ files \in [Machine -> Topology \cup {None}]
    /\ kw.pc \in {"idle", "init", "proxy", "config", "deploy", "start", "installed",
                  "uninstall", "uninstalled"}
    /\ kw.t \in Topology /\ kw.obj \in Object /\ kw.todo \subseteq Node
    /\ wl \in [state : {"pending", "checked", "claimed"}, addressed : BOOLEAN]
    /\ faults \in 0 .. MaxFault /\ spoiled \in BOOLEAN /\ kept \subseteq Topology

Init ==
    /\ topo = [t \in Topology |-> Absent(0)]
    /\ request = "pending"
    /\ nodes = [h \in Node |-> FreeNode] /\ seen = nodes
    /\ cl = [t \in Topology |-> "none"]
    /\ files = [m \in Machine |-> None]
    /\ kw = KIdle(AnyTopology)
    /\ wl = [state |-> "pending", addressed |-> FALSE]
    /\ faults = 0 /\ spoiled = FALSE /\ kept = {}

----------------------------------------------------------------------------
Plane == <<topo, request, seen>>
Outside == <<wl, faults, spoiled, kept>>

\* The list is not used after the nodes have been looked at.
Goto(pc) ==
    kw' = IF pc \in {"config", "proxy"} THEN [kw EXCEPT !.pc = pc]
          ELSE [kw EXCEPT !.pc = pc, !.todo = {}, !.list = <<>>]

\* The call ends; an error or a delay brings the topology back.
Return == kw' = KIdle(AnyTopology)

\* A request that is being deleted keeps its state until it is gone.
RequestIsReady == request \in {"ready", "going"}

\* ssh reaches a node that runs tiup's image.
Reachable(h) == nodes[h].state = "ready" /\ nodes[h].image = "tiup"

AddFinalizer(t) ==
    /\ kw.pc = "idle" /\ topo[t].state # "absent" /\ ~topo[t].del /\ ~topo[t].fin
    /\ topo' = [topo EXCEPT ![t].fin = TRUE]
    /\ UNCHANGED <<request, nodes, seen, cl, files, kw, Outside>>

BeginPending(t) ==
    /\ kw.pc = "idle" /\ topo[t].fin /\ ~topo[t].del /\ topo[t].state = Unset
    /\ topo' = [topo EXCEPT ![t].state = "pending"]
    /\ UNCHANGED <<request, nodes, seen, cl, files, kw, Outside>>

\* Seeded fault: after an error there is nothing more to install.
AfterError_Done(t) == "installed"

\* A node of the specification that is not listed is an error of
\* indexResourceExposedPorts, and like every error of initResource dropped.
AfterError(t) == IF Plan[t].kind = "flink" THEN "installed" ELSE "deploy"

\* BuildSpecification looks up every node of the specification.
NotFound(t) == \E h \in Plan[t].hosts : seen[h].state = "gone"

\* The ports to expose are taken from that specification.
IndexFails(t) == NotFound(t)

BeginInit(t) ==
    /\ kw.pc = "idle" /\ topo[t].fin /\ ~topo[t].del /\ topo[t].state = "pending"
    /\ RequestIsReady
    /\ kw' = [pc |-> IF IndexFails(t) THEN AfterError(t) ELSE "init",
              t |-> t, obj |-> topo[t], todo |-> Plan[t].hosts, list |-> seen, again |-> FALSE]
    /\ UNCHANGED <<Plane, nodes, cl, files, Outside>>

GiveImage(h) ==
    /\ nodes[h] = kw.list[h]
    /\ nodes' = [nodes EXCEPT ![h].image = Image(kw.t)]
    /\ kw' = [kw EXCEPT !.todo = @ \ {h}, !.again = TRUE]

\* One turn of the loop of initDMResources, initFlinkResources or
\* initTiDBResources.
InitNode(h) ==
    LET o == kw.list[h] IN
    /\ kw.pc = "init" /\ h \in kw.todo
    /\ \/ o.state = "uninitialized" /\ o.image = Unset /\ GiveImage(h)
       \/ o.state = "uninitialized" /\ o.image # Unset
          /\ kw' = [kw EXCEPT !.todo = @ \ {h}, !.again = TRUE] /\ UNCHANGED nodes
       \/ o.state = "ready" /\ o.image = Image(kw.t)
          /\ kw' = [kw EXCEPT !.todo = @ \ {h}] /\ UNCHANGED nodes
       \/ /\ \/ o.state = "uninitialized" /\ o.image = Unset /\ nodes[h] # o
             \/ o.state = "ready" /\ o.image # Image(kw.t)
             \/ o.state = "finish"
          /\ Goto(AfterError(kw.t)) /\ UNCHANGED nodes
    /\ UNCHANGED <<Plane, cl, files, Outside>>

\* The loop has ended: some node has to be waited for, or the nodes are up.  The
\* process panics when the node of the HAProxy is not among those listed.
InitEnd ==
    LET h == Plan[kw.t].proxy IN
    /\ kw.pc = "init" /\ kw.todo = {}
    /\ IF kw.again \/ (h # None /\ kw.list[h].state = "gone")
       THEN Return
       ELSE \/ h # None /\ Goto("config")
            \/ h = None /\ Plan[kw.t].kind = "flink" /\ Goto("installed")
            \/ h = None /\ Plan[kw.t].kind # "flink" /\ Goto("deploy")
    /\ UNCHANGED <<Plane, nodes, cl, files, Outside>>

----------------------------------------------------------------------------
(* The second half of initTiDBResources.                                    *)

ProxyMachine(t) == MachineOf[Plan[t].proxy]

\* Seeded fault: nothing is written.
WriteConfig_Skipped ==
    /\ kw.pc = "config" /\ Goto("proxy")
    /\ UNCHANGED <<Plane, nodes, cl, files, Outside>>

\* WriteConfigToMachine: the name of the file is made of namespace and request,
\* so that all topologies of a request have the same one.
WriteConfig ==
    /\ kw.pc = "config" /\ Goto("proxy")
    /\ files' = [files EXCEPT ![ProxyMachine(kw.t)] = kw.t]
    /\ UNCHANGED <<Plane, nodes, cl, Outside>>

\* The daemon cannot remove the old file, or cannot write the new one, and says
\* nothing: the old file is gone, or still there, or its end follows the new text.
WriteConfigLost ==
    /\ faults < MaxFault /\ faults' = faults + 1
    /\ kw.pc = "config" /\ Goto("proxy")
    /\ \E f \in {None, kw.t, files[ProxyMachine(kw.t)]} :
          files' = [files EXCEPT ![ProxyMachine(kw.t)] = f]
    /\ spoiled' = TRUE
    /\ UNCHANGED <<Plane, nodes, cl, wl, kept>>

\* The node of the HAProxy is given its image and not waited for: the variable
\* that says so is not the one that is returned.  In every other case, too, the
\* call goes on to the installation.
InitProxy ==
    LET h == Plan[kw.t].proxy
        o == kw.list[h]
    IN
    /\ kw.pc = "proxy"
    /\ IF o.state = "uninitialized" /\ o.image = Unset /\ nodes[h] = o
       THEN nodes' = [nodes EXCEPT ![h].image = "haproxy"]
       ELSE UNCHANGED nodes
    /\ Goto("deploy")
    /\ UNCHANGED <<Plane, cl, files, Outside>>

----------------------------------------------------------------------------
(* InstallCluster with tiup, for DM and TiDB; a command fails unless all    *)
(* the nodes of the cluster can be reached.                                 *)

CanRun == \A h \in Plan[kw.t].hosts : Reachable(h)

\* To destroy a cluster its nodes must be listed and up; that there is none the
\* control node knows.
CanUninstall ==
    /\ \A h \in Plan[kw.t].hosts : seen[h].state # "gone"
    /\ IF cl[kw.t] = "none" THEN Reachable(Plan[kw.t].control) ELSE CanRun

\* A cluster that is there already is no error.
DeployCluster ==
    /\ kw.pc = "deploy" /\ CanRun
    /\ cl' = [cl EXCEPT ![kw.t] = IF @ = "none" THEN "deployed" ELSE @]
    /\ Goto("start")
    /\ UNCHANGED <<Plane, nodes, files, Outside>>

StartCluster ==
    /\ kw.pc = "start" /\ CanRun
    /\ cl' = [cl EXCEPT ![kw.t] = "started"]
    /\ Goto("installed")
    /\ UNCHANGED <<Plane, nodes, files, Outside>>

CommandFails ==
    /\ \/ kw.pc \in {"deploy", "start"} /\ ~CanRun
       \/ kw.pc = "uninstall" /\ ~CanUninstall
    /\ Return
    /\ UNCHANGED <<Plane, nodes, cl, files, Outside>>

WriteReady ==
    /\ kw.pc = "installed"
    /\ topo' = IF topo[kw.t] = kw.obj THEN [topo EXCEPT ![kw.t].state = "ready"] ELSE topo
    /\ Return
    /\ UNCHANGED <<request, nodes, seen, cl, files, Outside>>

----------------------------------------------------------------------------
(* deleteTopology: the file of the HAProxy, then the cluster.  Nothing is   *)
(* done unless the request is ready.                                        *)

HasConfig(t) == RequestIsReady /\ Plan[t].proxy # None /\ seen[Plan[t].proxy].state # "gone"

\* Seeded fault: the file is not deleted.
DeleteConfig_Keeps(t) == UNCHANGED files /\ kept' = kept \ {t}

DeleteConfig(t) ==
    /\ files' = IF HasConfig(t) THEN [files EXCEPT ![ProxyMachine(t)] = None] ELSE files
    /\ kept' = kept \ {t}

\* What follows the deletion of the file.
GoOnDeleting(t) ==
    /\ kw.pc = "idle" /\ topo[t].del /\ topo[t].fin
    /\ kw' = [KIdle(t) EXCEPT
                !.pc = IF RequestIsReady /\ Plan[t].kind # "flink" THEN "uninstall" ELSE "uninstalled",
                !.obj = topo[t]]

BeginDelete(t) ==
    /\ GoOnDeleting(t) /\ DeleteConfig(t)
    /\ UNCHANGED <<Plane, nodes, cl, wl, faults, spoiled>>

\* The daemon cannot remove the file, and says nothing.
BeginDeleteLost(t) ==
    /\ faults < MaxFault /\ faults' = faults + 1
    /\ GoOnDeleting(t) /\ HasConfig(t)
    /\ kept' = kept \cup {t}
    /\ UNCHANGED <<Plane, nodes, cl, files, wl, spoiled>>

\* tiup destroys the cluster; one that does not exist is no error.
UninstallCluster ==
    /\ kw.pc = "uninstall" /\ CanUninstall
    /\ cl' = [cl EXCEPT ![kw.t] = "none"]
    /\ Goto("uninstalled")
    /\ UNCHANGED <<Plane, nodes, files, Outside>>

RemoveFinalizer ==
    /\ kw.pc = "uninstalled"
    /\ topo' = [topo EXCEPT ![kw.t] = Absent(@.gen)]
    /\ Return
    /\ UNCHANGED <<request, nodes, seen, cl, files, Outside>>

Reconcile ==
    \/ \E t \in Topology : AddFinalizer(t) \/ BeginPending(t) \/ BeginInit(t) \/ BeginDelete(t)
    \/ \E h \in Node : InitNode(h)
    \/ InitEnd \/ WriteConfig \/ InitProxy
    \/ DeployCluster \/ StartCluster \/ CommandFails \/ WriteReady
    \/ UninstallCluster \/ RemoveFinalizer

----------------------------------------------------------------------------
(* reconcilePending of the workload controller, with its topologies.        *)

\* buildTopologyEnvs finds an address of every node.
Addressed == \A t \in Needs : \A h \in AllHosts(t) : HasAddress(seen[h])

\* checkTopologiesReady; then the nodes are listed, of which the addresses in
\* the environment of the container are taken.
CheckTopologies ==
    /\ wl.state = "pending"
    /\ \A t \in Needs : topo[t].state = "ready"
    /\ wl' = [state |-> "checked",
              addressed |-> Addressed]
    /\ UNCHANGED <<topo, request, nodes, seen, cl, files, kw, faults, spoiled, kept>>

\* The claim; refused, or the node not free, everything is checked again.
ClaimNode ==
    /\ wl.state = "checked"
    /\ IF seen[Client] = FreeNode /\ nodes[Client] = FreeNode
       THEN /\ nodes' = [nodes EXCEPT ![Client].image = "client"]
            /\ wl' = [wl EXCEPT !.state = "claimed"]
       ELSE UNCHANGED nodes /\ wl' = [state |-> "pending", addressed |-> FALSE]
    /\ UNCHANGED <<topo, request, seen, cl, files, kw, faults, spoiled, kept>>

----------------------------------------------------------------------------
(* Users, nodes and the process.                                            *)

\* countClusterNum: a topology has one cluster, of the kind in Plan.
CreateTopology(t) ==
    /\ topo[t].state = "absent" /\ topo[t].gen < MaxGen
    /\ topo' = [topo EXCEPT ![t] = [Absent(@.gen + 1) EXCEPT !.state = Unset]]
    /\ UNCHANGED <<request, nodes, seen, cl, files, kw, Outside>>

DeleteTopology(t) ==
    /\ topo[t].state # "absent" /\ ~topo[t].del
    /\ topo' = [topo EXCEPT ![t] =
                  IF @.fin THEN [@ EXCEPT !.del = TRUE] ELSE Absent(@.gen)]
    /\ UNCHANGED <<request, nodes, seen, cl, files, kw, Outside>>

RequestReady ==
    /\ request = "pending" /\ request' = "ready"
    /\ UNCHANGED <<topo, nodes, seen, cl, files, kw, Outside>>

DeleteRequest ==
    /\ request = "ready" /\ request' = "going"
    /\ UNCHANGED <<topo, nodes, seen, cl, files, kw, Outside>>

\* The nodes go before the request, and with the control node what tiup knows
\* of the cluster, but no file on a machine.
NodeGoes(h) ==
    /\ request = "going" /\ nodes[h].state # "gone"
    /\ nodes' = [nodes EXCEPT ![h] = GoneNode]
    /\ cl' = [t \in Topology |-> IF Plan[t].control = h THEN "none" ELSE cl[t]]
    /\ UNCHANGED <<Plane, files, kw, Outside>>

RequestGone ==
    /\ request = "going" /\ \A h \in Node : nodes[h].state = "gone"
    /\ request' = "absent"
    /\ UNCHANGED <<topo, nodes, seen, cl, files, kw, Outside>>

WatchNode(h) ==
    /\ seen[h] # nodes[h]
    /\ seen' = [seen EXCEPT ![h] = nodes[h]]
    /\ UNCHANGED <<topo, request, nodes, cl, files, kw, Outside>>

\* The container is started; that of an HAProxy with the file on its machine.
NodeStarts(h) ==
    /\ nodes[h].state = "uninitialized" /\ nodes[h].image # Unset
    /\ nodes' = [nodes EXCEPT ![h].state = "ready",
                              ![h].cfg = IF nodes[h].image = "haproxy" THEN files[MachineOf[h]] ELSE None]
    /\ UNCHANGED <<Plane, cl, files, kw, Outside>>

NodeEnds(h) ==
    /\ faults < MaxFault /\ faults' = faults + 1
    /\ nodes[h].state = "ready"
    /\ nodes' = [nodes EXCEPT ![h].state = "finish"]
    /\ UNCHANGED <<Plane, cl, files, kw, wl, spoiled, kept>>

CutOff ==
    /\ faults < MaxFault /\ faults' = faults + 1
    /\ kw.pc # "idle" /\ Return
    /\ UNCHANGED <<Plane, nodes, cl, files, wl, spoiled, kept>>

Next ==
    \/ Reconcile \/ WriteConfigLost \/ \E t \in Topology : BeginDeleteLost(t)
    \/ CheckTopologies \/ ClaimNode
    \/ \E t \in Topology : CreateTopology(t) \/ DeleteTopology(t)
    \/ RequestReady \/ DeleteRequest \/ RequestGone
    \/ \E h \in Node : NodeGoes(h) \/ WatchNode(h) \/ NodeStarts(h) \/ NodeEnds(h)
    \/ CutOff

Spec == Init /\ [][Next]_vars

----------------------------------------------------------------------------
Installed(t) ==
    IF Plan[t].kind = "flink"
    THEN \A h \in Plan[t].hosts : nodes[h].state # "uninitialized" /\ nodes[h].image = "flink"
    ELSE cl[t] = "started"

\* testclustertopology_controller.go:123, "flink cluster %s is installed" (and
\* the same for tidb and dm): a topology is ready when its cluster has been
\* installed on all of its nodes, whatever the error that interrupted it and
\* whoever else used the nodes.
ReadyIsInstalled ==
    \A t \in Topology :
        topo[t].state = "ready" /\ ~topo[t].del /\ request = "ready" => Installed(t)

\* A topology that is gone has left no cluster on the nodes and no file on the
\* machine of its HAProxy, in whatever step it was deleted, unless the daemon kept
\* the file and said it had not; when the nodes of the request go first the files
\* stay.
GoneLeavesNothing ==
    \A t \in Topology : topo[t].state = "absent" =>
        /\ cl[t] = "none"
        /\ request \in {"pending", "ready"} /\ t \notin kept => \A m \in Machine : files[m] # t

\* The same without the daemon's silence.
GoneLeavesNoFile ==
    \A t \in Topology : topo[t].state = "absent" /\ request = "ready" =>
        \A m \in Machine : files[m] # t

\* An HAProxy that is started finds the file of its own topology, unless the
\* daemon has lost the file, the topology is deleted, or it is a later one of
\* that name and finds the node as the first one has left it.
ProxyConfigured ==
    \A t \in Topology :
        LET h == Plan[t].proxy IN
        h # None /\ nodes[h].state = "ready" /\ nodes[h].image = "haproxy" /\ nodes[h].cfg # t =>
            spoiled \/ topo[t].gen > 1 \/ topo[t].state = "absent" \/ topo[t].del

\* testworkload_controller.go:103, "check all dependent topologies are
\* installed": the container of a workload is told an address of every node of
\* the topologies it depends on.
DependenciesUp == wl.state = "claimed" => wl.addressed
=============================================================================
