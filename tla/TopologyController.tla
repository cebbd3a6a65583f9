------------------------- MODULE TopologyController -------------------------
(***************************************************************************)
(* TestClusterTopologyReconciler for a topology with a TiDB cluster: it    *)
(* installs the cluster when the request is ready and its nodes are up,    *)
(* brings later changes of the specification to it, watches a scale-in     *)
(* until the stores can be pruned, and uninstalls the cluster of a deleted *)
(* topology.  kw is the local state of the one worker, which reads the     *)
(* topology from a cache; a write based on an old version is refused.      *)
(* Each command on the control node is a step of its own.                  *)
(***************************************************************************)
EXTENDS TiUPCluster

CONSTANT MaxGen     \* bound: creations and changes of the topology by users

VARIABLES
    topo,       \* the object at the API server
    view,       \* the object as the manager's cache shows it
    request,    \* the TestResourceRequest: "pending", "ready" or "absent"
    nodes,      \* nodes[h]: its TestResource
    kw          \* the worker

controllerVars == <<cl, topo, view, request, nodes, kw>>

\* The state of an object that the controller has not yet seen.
Unset == ""

\* gen grows with what users do; the other fields are written by the one
\* worker.  Copies that are equal are taken for the same version.
NewTopology(state, spec, gen) ==
    [state |-> state, fin |-> FALSE, del |-> FALSE, gen |-> gen, spec |-> spec,
     pre |-> None, scaling |-> FALSE, offline |-> {}]

Absent(gen) == NewTopology("absent", None, gen)

\* seen is the topology as it was read or last written, obj the copy that the
\* call has changed since.
Worker(pc, seen, obj) == [pc |-> pc, seen |-> seen, obj |-> obj]

KIdle == Worker("idle", Absent(0), Absent(0))

InstallSteps == {"deploy", "replace", "start", "patch", "installed"}
UpdateSteps == {"upgrade", "reload", "scale-in", "scale-out", "updated"}

TopologyObject ==
    [state : {"absent", Unset, "pending", "ready", "updating"}, fin : BOOLEAN, del : BOOLEAN,
     gen : 0 .. MaxGen, spec : Specs \cup {None}, pre : Specs \cup {None},
     scaling : BOOLEAN, offline : SUBSET Node]

ControllerTypeOK ==
    /\ ClusterTypeOK
    /\ topo \in TopologyObject
    /\ view \in TopologyObject
    /\ request \in {"pending", "ready", "absent"}
    /\ nodes \in [Node -> {"free", "starting", "up", "down", "gone"}]
    /\ kw.pc \in {"idle", "prune", "pruned", "uninstalled"} \cup InstallSteps \cup UpdateSteps
    /\ kw.seen \in TopologyObject /\ kw.obj \in TopologyObject

ControllerInit ==
    /\ cl = NoCluster
    /\ topo = Absent(0) /\ view = Absent(0)
    /\ request = "pending"
    /\ nodes = [h \in Node |-> "free"]
    /\ kw = KIdle

----------------------------------------------------------------------------
\* A write of the topology, read as seen.
UpdateTopology(seen, o) == topo = seen /\ topo' = o

WatchTopology ==
    /\ view # topo
    /\ view' = topo
    /\ UNCHANGED <<cl, topo, request, nodes, kw>>

Reconciling(state) ==
    /\ kw.pc = "idle" /\ view.fin /\ ~view.del
    /\ view.state = state

\* The specification to deploy, and the one deployed last.
NewSpec == kw.obj.spec
OldSpec == kw.obj.pre

Goto(pc) == kw' = [kw EXCEPT !.pc = pc]

Return == kw' = KIdle

\* Commands need every node of the cluster and of the specification.
NodesUp == \A h \in AllHosts(NewSpec) \cup cl.db \cup cl.kv : nodes[h] = "up"

\* The worker is at the command pc, which can run.
At(pc) == kw.pc = pc /\ NodesUp

AddFinalizer ==
    /\ kw.pc = "idle" /\ view.state # "absent" /\ ~view.del /\ ~view.fin
    /\ UpdateTopology(view, [view EXCEPT !.fin = TRUE])
    /\ UNCHANGED <<cl, view, request, nodes, kw>>

BeginPending ==
    /\ Reconciling(Unset)
    /\ UpdateTopology(view, [view EXCEPT !.state = "pending"])
    /\ UNCHANGED <<cl, view, request, nodes, kw>>

----------------------------------------------------------------------------
(* initTiDBResources: a node without an image is given tiup's, and the call *)
(* is repeated until all nodes run it.  At a node that cannot be used the   *)
(* loop stops with an error, the error is dropped and the first command     *)
(* fails: some of the nodes after it may not have been given an image.      *)

AllUp(s) == \A h \in AllHosts(s) : nodes[h] = "up"

Free(s) == {h \in AllHosts(s) : nodes[h] = "free"}

InitNodes(s) ==
    /\ ~AllUp(s)
    /\ \E given \in SUBSET Free(s) :
        /\ given # Free(s) => \E h \in AllHosts(s) : nodes[h] \in {"down", "gone"}
        /\ nodes' = [h \in Node |-> IF h \in given THEN "starting" ELSE nodes[h]]

InitForInstall ==
    /\ Reconciling("pending") /\ request = "ready"
    /\ InitNodes(view.spec)
    /\ UNCHANGED <<cl, topo, view, request, kw>>

BeginInstall ==
    /\ Reconciling("pending") /\ request = "ready"
    /\ AllUp(view.spec)
    /\ kw' = Worker("deploy", view, view)
    /\ UNCHANGED <<cl, topo, view, request, nodes>>

Deploy ==
    /\ At("deploy") /\ DeployCluster(NewSpec) /\ Goto("replace")
    /\ UNCHANGED <<topo, view, request, nodes>>

Replace ==
    /\ At("replace") /\ ExchangeBinaries(NewSpec, "Replace") /\ Goto("start")
    /\ UNCHANGED <<topo, view, request, nodes>>

Start ==
    /\ At("start") /\ StartCluster /\ Goto("patch")
    /\ UNCHANGED <<topo, view, request, nodes>>

Patch ==
    /\ At("patch") /\ ExchangeBinaries(NewSpec, "Patch") /\ Goto("installed")
    /\ UNCHANGED <<topo, view, request, nodes>>

----------------------------------------------------------------------------
(* State ready.                                                             *)

\* The specification is taken for the one that was installed.
FirstPre ==
    /\ Reconciling("ready") /\ view.pre = None
    /\ UpdateTopology(view, [view EXCEPT !.pre = view.spec])
    /\ UNCHANGED <<cl, view, request, nodes, kw>>

BeginUpdating ==
    /\ Reconciling("ready") /\ view.pre # None
    /\ IsClusterConfigModified(view.pre, view.spec)
    /\ UpdateTopology(view, [view EXCEPT !.state = "updating"])
    /\ UNCHANGED <<cl, view, request, nodes, kw>>

\* checkTiKVFinishedScaleIn and the write of what it has found.
CheckScaleIn ==
    LET found == [view EXCEPT !.offline = GetNodeStatusList] IN
    /\ Reconciling("ready") /\ view.pre = view.spec /\ view.scaling
    /\ request # "absent" /\ nodes[Control] = "up"
    /\ UpdateTopology(view, found)
    /\ kw' = IF found.offline = {} THEN Worker("prune", found, found) ELSE KIdle
    /\ UNCHANGED <<cl, view, request, nodes>>

\* Seeded fault: nothing is pruned.
Prune_Skipped ==
    /\ At("prune") /\ Goto("pruned")
    /\ UNCHANGED <<cl, topo, view, request, nodes>>

Prune ==
    /\ At("prune") /\ PruneCluster /\ Goto("pruned")
    /\ UNCHANGED <<topo, view, request, nodes>>

----------------------------------------------------------------------------
(* State updating: the steps of updateTiDBCluster, each where it is needed. *)

\* Seeded fault: only the reconciliation that ends the update knows of a
\* scale-in, and it does not look.
BeginUpdate_NotScaling ==
    /\ Reconciling("updating") /\ request # "absent"
    /\ kw' = Worker("upgrade", view, view)
    /\ UNCHANGED <<cl, topo, view, request, nodes>>

BeginUpdate ==
    /\ Reconciling("updating") /\ request # "absent"
    /\ kw' = Worker("upgrade", view,
                    [view EXCEPT !.scaling = @ \/ IsScaleIn(view.pre, view.spec)])
    /\ UNCHANGED <<cl, topo, view, request, nodes>>

Upgrade ==
    /\ At("upgrade") /\ IsUpgraded(OldSpec, NewSpec)
    /\ UpgradeCluster(NewSpec) /\ Goto("reload")
    /\ UNCHANGED <<topo, view, request, nodes>>

\* The meta file is replaced even if the reload then fails.
Reload ==
    /\ At("reload") /\ IsConfigModified(OldSpec, NewSpec)
    /\ ReloadCluster(NewSpec)
    /\ IF ReloadFails(NewSpec) THEN Return ELSE Goto("scale-in")
    /\ UNCHANGED <<topo, view, request, nodes>>

ScaleIn ==
    /\ At("scale-in") /\ IsScaleIn(OldSpec, NewSpec) /\ ~ScaleInFails(OldSpec, NewSpec)
    /\ ScaleInCluster(OldSpec, NewSpec) /\ Goto("scale-out")
    /\ UNCHANGED <<topo, view, request, nodes>>

\* New nodes are initialised first.
InitForScaleOut ==
    /\ kw.pc = "scale-out" /\ IsScaleOut(OldSpec, NewSpec)
    /\ InitNodes(NewSpec) /\ Return
    /\ UNCHANGED <<cl, topo, view, request>>

ScaleOut ==
    /\ At("scale-out") /\ IsScaleOut(OldSpec, NewSpec) /\ ~ScaleOutFails(OldSpec, NewSpec)
    /\ ScaleOutCluster(OldSpec, NewSpec) /\ Goto("updated")
    /\ UNCHANGED <<topo, view, request, nodes>>

\* The step is not needed.
Skip ==
    /\ \/ kw.pc = "upgrade" /\ ~IsUpgraded(OldSpec, NewSpec) /\ Goto("reload")
       \/ kw.pc = "reload" /\ ~IsConfigModified(OldSpec, NewSpec) /\ Goto("scale-in")
       \/ kw.pc = "scale-in" /\ ~IsScaleIn(OldSpec, NewSpec) /\ Goto("scale-out")
       \/ kw.pc = "scale-out" /\ ~IsScaleOut(OldSpec, NewSpec) /\ Goto("updated")
    /\ UNCHANGED <<cl, topo, view, request, nodes>>

\* A command that is due fails, and the call with it.
CommandFails ==
    /\ \/ kw.pc \in {"deploy", "replace", "start", "patch", "prune"} /\ ~NodesUp
       \/ kw.pc = "upgrade" /\ IsUpgraded(OldSpec, NewSpec) /\ ~NodesUp
       \/ kw.pc = "reload" /\ IsConfigModified(OldSpec, NewSpec) /\ ~NodesUp
       \/ kw.pc = "scale-in" /\ IsScaleIn(OldSpec, NewSpec)
             /\ (~NodesUp \/ ScaleInFails(OldSpec, NewSpec))
       \/ kw.pc = "scale-out" /\ IsScaleOut(OldSpec, NewSpec)
             /\ AllUp(NewSpec) /\ (~NodesUp \/ ScaleOutFails(OldSpec, NewSpec))
    /\ Return
    /\ UNCHANGED <<cl, topo, view, request, nodes>>

----------------------------------------------------------------------------
(* The status write at the end of an installation, an update, a prune.      *)

\* Seeded fault: what was deployed last is not noted.
Outcome_KeepsPre(pc, o) ==
    CASE pc = "installed" -> [o EXCEPT !.state = "ready"]
      [] pc = "updated"   -> [o EXCEPT !.state = "ready"]
      [] pc = "pruned"    -> [o EXCEPT !.scaling = FALSE]

Outcome(pc, o) ==
    CASE pc = "installed" -> [o EXCEPT !.state = "ready"]
      [] pc = "updated"   -> [o EXCEPT !.state = "ready", !.pre = o.spec]
      [] pc = "pruned"    -> [o EXCEPT !.scaling = FALSE]

WriteOutcome ==
    /\ kw.pc \in {"installed", "updated", "pruned"}
    /\ UpdateTopology(kw.seen, Outcome(kw.pc, kw.obj))
    /\ Return
    /\ UNCHANGED <<cl, view, request, nodes>>

WriteRefused ==
    /\ kw.pc \in {"installed", "updated", "pruned"}
    /\ topo # kw.seen
    /\ Return
    /\ UNCHANGED <<cl, topo, view, request, nodes>>

----------------------------------------------------------------------------
(* Deletion.                                                                *)

\* Seeded fault: the cluster is left to the nodes.
DeleteTopology_Keeps ==
    /\ kw.pc = "idle" /\ view.del /\ view.fin
    /\ kw' = Worker("uninstalled", view, view)
    /\ UNCHANGED <<cl, topo, view, request, nodes>>

\* Seeded fault: a request that is not found is an error.
DeleteTopology_NotFound ==
    /\ kw.pc = "idle" /\ view.del /\ view.fin
    /\ request # "absent"
    /\ IF request = "ready"
       THEN /\ \A h \in {Control} \cup cl.db \cup cl.kv : nodes[h] = "up"
            /\ UninstallCluster
       ELSE UNCHANGED cl
    /\ kw' = Worker("uninstalled", view, view)
    /\ UNCHANGED <<topo, view, request, nodes>>

\* deleteTopology: there is nothing to uninstall unless the request is ready.
DeleteTopology ==
    /\ kw.pc = "idle" /\ view.del /\ view.fin
    /\ IF request = "ready"
       THEN /\ \A h \in {Control} \cup cl.db \cup cl.kv : nodes[h] = "up"
            /\ UninstallCluster
       ELSE UNCHANGED cl
    /\ kw' = Worker("uninstalled", view, view)
    /\ UNCHANGED <<topo, view, request, nodes>>

\* The update that removes the finalizer passes the webhook like any other.
RemoveFinalizer ==
    /\ kw.pc = "uninstalled"
    /\ topo' = IF topo = kw.seen /\ validateTiDBUpdate(topo, topo.spec) THEN Absent(topo.gen) ELSE topo
    /\ Return
    /\ UNCHANGED <<cl, view, request, nodes>>

TopologyBegin ==
    \/ AddFinalizer \/ BeginPending
    \/ InitForInstall \/ BeginInstall
    \/ FirstPre \/ BeginUpdating \/ CheckScaleIn
    \/ BeginUpdate
    \/ DeleteTopology

TopologyContinue ==
    \/ Deploy \/ Replace \/ Start \/ Patch
    \/ Upgrade \/ Reload \/ ScaleIn \/ InitForScaleOut \/ ScaleOut \/ Skip
    \/ Prune \/ CommandFails
    \/ WriteOutcome \/ WriteRefused
    \/ RemoveFinalizer
=============================================================================
