------------------------- MODULE WorkloadController -------------------------
(***************************************************************************)
(* TestWorkloadReconciler: a workload claims the nodes of its items one    *)
(* after the other, gives each an image to run, waits until all of them    *)
(* run or have run, and reports how they ended; deleted, it gives its      *)
(* nodes up.  ww is the local state of the one worker, which reads and     *)
(* writes the nodes one by one.                                            *)
(***************************************************************************)
EXTENDS ContainerLife

CONSTANTS
    Workload,   \* names of TestWorkloads
    Jobs,       \* Jobs[w]: the sequence of [node, image] of the items of w
    MaxGen      \* bound: creations of one workload name

\* What ClaimRef holds: the workload with its UID.
WorkloadRef == [name : Workload, gen : 1 .. MaxGen]

ASSUME WorkloadAssumption ==
    /\ None \notin WorkloadRef
    /\ \A w \in Workload : Jobs[w] \in Seq([node : Node, image : Image])
    /\ MaxGen \in Nat

VARIABLES workloads, ww

workloadVars == <<workloads, ww>>

Ref(w, o) == [name |-> w, gen |-> o.gen]

\* phases is Status.WorkloadStatus by item; "none" where it has no entry.
NoPhases(w) == [i \in DOMAIN Jobs[w] |-> "none"]

AbsentWorkload(w, gen) ==
    [state |-> "absent", fin |-> FALSE, del |-> FALSE, gen |-> gen, phases |-> NoPhases(w)]

WIdle == [pc |-> "idle", w |-> None, obj |-> None, i |-> 0, count |-> 0, phases |-> <<>>]

Phase == {"none", Unset, "pending", "running", "succeeded", "failed"}

WorkloadObject(w) ==
    [state : {"absent", Unset, "pending", "running", "succeeded", "failed"},
     fin : BOOLEAN, del : BOOLEAN, gen : 0 .. MaxGen, phases : [DOMAIN Jobs[w] -> Phase]]

WorkerAt(w) ==
    [pc : {"install", "inspect", "uninstall"}, w : {w}, obj : WorkloadObject(w),
     i : 1 .. Len(Jobs[w]) + 1, count : Nat, phases : [DOMAIN Jobs[w] -> Phase]]

WorkloadTypeOK ==
    /\ DOMAIN workloads = Workload
    /\ \A w \in Workload : workloads[w] \in WorkloadObject(w)
    /\ ww = WIdle \/ \E w \in Workload : ww \in WorkerAt(w)

WorkloadInit ==
    /\ workloads = [w \in Workload |-> AbsentWorkload(w, 0)]
    /\ ww = WIdle

Self == Ref(ww.w, ww.obj)

\* The item the worker is at, and its node as the cache shows it.
Job == Jobs[ww.w][ww.i]

WorkloadNode == cache[Job.node]

AtItem(pc) == ww.pc = pc /\ ww.i <= Len(Jobs[ww.w])

AfterItems(pc) == ww.pc = pc /\ ww.i > Len(Jobs[ww.w])

\* The call ends: with an error, or to be repeated later.
Return == ww' = WIdle

Proceed(counted) == ww' = [ww EXCEPT !.i = @ + 1, !.count = @ + counted]

UpdateWorkload(w, seen, o) ==
    /\ workloads[w] = seen
    /\ workloads' = [workloads EXCEPT ![w] = o]

----------------------------------------------------------------------------
(* Reconcile up to the switch on the state.                                 *)

WorkloadAddFinalizer(w) ==
    LET o == workloads[w] IN
    /\ ww.pc = "idle" /\ Exists(o) /\ ~o.del /\ ~o.fin
    /\ UpdateWorkload(w, o, [o EXCEPT !.fin = TRUE])
    /\ UNCHANGED ww /\ UNCHANGED nodeVars

WorkloadBeginPending(w) ==
    LET o == workloads[w] IN
    /\ ww.pc = "idle" /\ o.fin /\ ~o.del /\ o.state = Unset
    /\ UpdateWorkload(w, o, [o EXCEPT !.state = "pending"])
    /\ UNCHANGED ww /\ UNCHANGED nodeVars

\* Seeded fault: the state is looked at before the deletion.
WorkloadLoop_StateFirst(w) ==
    LET o == workloads[w]
        loop == IF o.del THEN "uninstall" ELSE IF o.state = "pending" THEN "install" ELSE "inspect"
    IN
    /\ ww.pc = "idle" /\ o.fin
    /\ o.state \in {"pending", "running"}
    /\ ww' = [pc |-> loop, w |-> w, obj |-> o, i |-> 1, count |-> 0, phases |-> o.phases]
    /\ UNCHANGED workloads /\ UNCHANGED nodeVars

\* One of the loops over the items starts.
WorkloadLoop(w) ==
    LET o == workloads[w]
        loop == IF o.del THEN "uninstall" ELSE IF o.state = "pending" THEN "install" ELSE "inspect"
    IN
    /\ ww.pc = "idle" /\ o.fin
    /\ o.del \/ o.state \in {"pending", "running"}
    /\ ww' = [pc |-> loop, w |-> w, obj |-> o, i |-> 1, count |-> 0, phases |-> o.phases]
    /\ UNCHANGED workloads /\ UNCHANGED nodeVars

----------------------------------------------------------------------------
(* reconcilePending, with no cluster topology to wait for.                  *)

OccupiedByOther(o) == o.claim \notin {None, Self}

\* The node is not there, occupied by another workload, being destroyed, or
\* has an image or a container of somebody else.
InstallBlocked ==
    LET o == WorkloadNode IN
    /\ AtItem("install")
    /\ \/ ~Exists(o)
       \/ OccupiedByOther(o)
       \/ o.state = "destroy"
       \/ o.state = "uninitialized" /\ o.image \notin {None, Job.image}
       \/ o.state \in {"ready", "finish"} /\ o.claim # Self
    /\ Return
    /\ UNCHANGED workloads /\ UNCHANGED nodeVars

\* A free node is claimed and given its image in one status write.
InstallClaim ==
    LET o == WorkloadNode IN
    /\ AtItem("install")
    /\ ~OccupiedByOther(o) /\ o.state = "uninitialized" /\ o.image = None
    /\ UpdateNode(Job.node, o, [o EXCEPT !.claim = Self, !.image = Job.image])
    /\ Proceed(0)
    /\ UNCHANGED <<workloads, cache, ctr, cleaner, tw, losses, relVars>>

InstallClaimConflict ==
    LET o == WorkloadNode IN
    /\ AtItem("install")
    /\ ~OccupiedByOther(o) /\ o.state = "uninitialized" /\ o.image = None
    /\ nodes[Job.node] # o
    /\ Return
    /\ UNCHANGED workloads /\ UNCHANGED nodeVars

\* The node has its image and is not up yet.
InstallStarting ==
    LET o == WorkloadNode IN
    /\ AtItem("install")
    /\ ~OccupiedByOther(o) /\ o.state = "uninitialized" /\ o.image = Job.image
    /\ Proceed(0)
    /\ UNCHANGED workloads /\ UNCHANGED nodeVars

\* Seeded fault: it does not matter whose container is up on the node.
InstallUp_Anyone ==
    LET o == WorkloadNode IN
    /\ AtItem("install")
    /\ o.state \in {"ready", "finish"}
    /\ Proceed(1)
    /\ UNCHANGED workloads /\ UNCHANGED nodeVars

\* Seeded fault: a node that only has been claimed counts as installed.
InstallUp_Claimed ==
    LET o == WorkloadNode IN
    /\ AtItem("install")
    /\ o.claim = Self
    /\ Proceed(1)
    /\ UNCHANGED workloads /\ UNCHANGED nodeVars

InstallUp ==
    LET o == WorkloadNode IN
    /\ AtItem("install")
    /\ o.state \in {"ready", "finish"} /\ o.claim = Self
    /\ Proceed(1)
    /\ UNCHANGED workloads /\ UNCHANGED nodeVars

Installed == ww.count = Len(Jobs[ww.w])

InstallEnd ==
    /\ AfterItems("install")
    /\ IF Installed /\ workloads[ww.w] = ww.obj
       THEN workloads' = [workloads EXCEPT ![ww.w] = [ww.obj EXCEPT !.state = "running"]]
       ELSE UNCHANGED workloads
    /\ Return
    /\ UNCHANGED nodeVars

----------------------------------------------------------------------------
(* reconcileRunning.                                                        *)

InspectNotFound ==
    /\ AtItem("inspect") /\ ~Exists(WorkloadNode)
    /\ Return
    /\ UNCHANGED workloads /\ UNCHANGED nodeVars

\* The phase of the node is taken over as the phase of the item.
InspectItem ==
    /\ AtItem("inspect") /\ CouldUninstall(WorkloadNode)
    /\ ww' = [ww EXCEPT !.i = @ + 1, !.phases[ww.i] = WorkloadNode.phase]
    /\ UNCHANGED workloads /\ UNCHANGED nodeVars

Verdict(phases) ==
    IF \A i \in DOMAIN phases : phases[i] = "succeeded" THEN "succeeded"
    ELSE IF \A i \in DOMAIN phases : phases[i] \in {"succeeded", "failed"} THEN "failed"
    ELSE "running"

\* Nothing is written unless a phase has changed (an item without an entry
\* counts as changed).
InspectEnd ==
    /\ AfterItems("inspect")
    /\ IF ww.phases # ww.obj.phases /\ workloads[ww.w] = ww.obj
       THEN workloads' = [workloads EXCEPT ![ww.w] =
                            [ww.obj EXCEPT !.phases = ww.phases,
                                           !.state = Verdict(ww.phases)]]
       ELSE UNCHANGED workloads
    /\ Return
    /\ UNCHANGED nodeVars

\* The states the two loops call a bug: the process panics.
SeesBug ==
    \/ /\ AtItem("install")
       /\ ~OccupiedByOther(WorkloadNode)
       /\ WorkloadNode.state \in {Unset, "pending"}
    \/ AtItem("inspect") /\ WorkloadNode.state \in {Unset, "pending", "destroy"}

----------------------------------------------------------------------------
(* uninstallWorkload.  The node is released whoever holds it, and a refused *)
(* write is not noticed: the error of Status().Update is dropped.           *)

\* Seeded fault: the claim stays.
Released_KeepsClaim(o) == [o EXCEPT !.state = "destroy"]

Released(o) == [o EXCEPT !.state = "destroy", !.claim = None]

UninstallItem ==
    LET o == WorkloadNode IN
    /\ AtItem("uninstall")
    /\ IF CouldUninstall(o) /\ nodes[Job.node] = o
       THEN UpdateNode(Job.node, o, Released(o))
       ELSE UNCHANGED nodes
    /\ Proceed(0)
    /\ UNCHANGED <<workloads, cache, ctr, cleaner, tw, losses, relVars>>

UninstallEnd ==
    /\ AfterItems("uninstall")
    /\ IF workloads[ww.w] = ww.obj
       THEN workloads' = [workloads EXCEPT ![ww.w] = AbsentWorkload(ww.w, ww.obj.gen)]
       ELSE UNCHANGED workloads
    /\ Return
    /\ UNCHANGED nodeVars

WorkloadBegin(w) ==
    \/ WorkloadAddFinalizer(w)
    \/ WorkloadBeginPending(w)
    \/ WorkloadLoop(w)

WorkloadContinue ==
    \/ InstallBlocked \/ InstallClaim \/ InstallClaimConflict \/ InstallStarting
    \/ InstallUp \/ InstallEnd
    \/ InspectNotFound \/ InspectItem \/ InspectEnd
    \/ UninstallItem \/ UninstallEnd
=============================================================================
