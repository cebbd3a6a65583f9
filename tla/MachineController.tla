------------------------- MODULE MachineController --------------------------
(***************************************************************************)
(* MachineReconciler: a machine is locked for this system by a container   *)
(* on its host, made ready, entered in the Relationship, and taken out of  *)
(* it and unlocked when it is deleted.  mc is the local state of the one   *)
(* worker between two accesses of shared state.                            *)
(***************************************************************************)
EXTENDS ControlPlane

VARIABLES
    mc,     \* the worker: where it is, and the machine, object and
            \* Relationship it has read
    docker  \* docker[m]: the containers of this system on the host of m

machineVars == <<mc, docker>>

MIdle == [pc |-> "idle", m |-> None, obj |-> AbsentMachine, base |-> EmptyRelationship]

MachineTypeOK ==
    /\ mc \in [pc : {"idle", "ready", "upload", "unlock", "unload", "unregister", "finalizer"},
               m : Machine \cup {None}, obj : MachineObject, base : {mc.base}]
    /\ mc.pc # "idle" => mc.m \in Machine
    /\ RelationshipOK(mc.base)
    /\ docker \in [Machine -> SUBSET {"chaos-daemon", "upload-daemon"}]

MachineInit ==
    /\ mc = MIdle
    /\ docker = [m \in Machine |->
                   IF Booted THEN {"chaos-daemon", "upload-daemon"} ELSE {}]

\* Reconcile gets as far as the switch on the state of machine m.
Reconciling(m) ==
    /\ mc.pc = "idle"
    /\ SeenRel.init
    /\ Exists(SeenMachines[m])

\* The object that Reconcile(m) has read is written back as o; the write is
\* refused when the object has changed since.
UpdateMachine(m, seen, o) ==
    /\ machines[m] = seen
    /\ machines' = [machines EXCEPT ![m] = o]
    /\ UNCHANGED <<requests, resources, rel, cache>>

MachineAddFinalizer(m) ==
    LET o == SeenMachines[m] IN
    /\ Reconciling(m) /\ ~o.del /\ ~o.fin
    /\ UpdateMachine(m, o, [o EXCEPT !.fin = TRUE])
    /\ UNCHANGED machineVars

MachineBeginShutdown(m) ==
    LET o == SeenMachines[m] IN
    /\ Reconciling(m) /\ o.del /\ o.fin /\ o.state # "shutdown"
    /\ UpdateMachine(m, o, [o EXCEPT !.state = "shutdown"])
    /\ UNCHANGED machineVars

MachineBeginStarting(m) ==
    LET o == SeenMachines[m] IN
    /\ Reconciling(m) /\ o.fin /\ ~o.del /\ o.state = ""
    /\ UpdateMachine(m, o, [o EXCEPT !.state = "starting"])
    /\ UNCHANGED machineVars

----------------------------------------------------------------------------
\* reconcileStarting: tryLock runs the chaos daemon, which is the lock.
MachineTryLock(m) ==
    LET o == SeenMachines[m] IN
    /\ Reconciling(m) /\ o.fin /\ ~o.del /\ o.state = "starting"
    /\ docker' = [docker EXCEPT ![m] = @ \cup {"chaos-daemon"}]
    /\ mc' = [MIdle EXCEPT !.pc = "ready", !.m = m, !.obj = o]
    /\ UNCHANGED storeVars

MachineReady ==
    /\ mc.pc = "ready"
    /\ UpdateMachine(mc.m, mc.obj, [mc.obj EXCEPT !.state = "ready"])
    /\ mc' = MIdle
    /\ UNCHANGED docker

\* reconcileRunning, first part: the upload daemon.
MachineCreateUploadDaemon(m) ==
    LET o == SeenMachines[m] IN
    /\ Reconciling(m) /\ o.fin /\ ~o.del /\ o.state = "ready" /\ ~o.upload
    /\ docker' = [docker EXCEPT ![m] = @ \cup {"upload-daemon"}]
    /\ mc' = [MIdle EXCEPT !.pc = "upload", !.m = m, !.obj = o]
    /\ UNCHANGED storeVars

MachineSetUploadPort ==
    /\ mc.pc = "upload"
    /\ UpdateMachine(mc.m, mc.obj, [mc.obj EXCEPT !.upload = TRUE])
    /\ mc' = MIdle
    /\ UNCHANGED docker

\* reconcileRunning, second part: an empty list in MachineToResources.  The
\* Relationship is read and written with no other access in between.
MachineRegister(m) ==
    LET o == SeenMachines[m] IN
    /\ Reconciling(m) /\ o.fin /\ ~o.del /\ o.state = "ready" /\ o.upload
    /\ m \notin SeenRel.keys
    /\ UpdateRelationship(SeenRel, [SeenRel EXCEPT !.keys = @ \cup {m}])
    /\ UNCHANGED machineVars

----------------------------------------------------------------------------
(* reconcileShutdown.  The two daemons are removed before the Relationship  *)
(* is written, and stay removed when that write is refused.                 *)

\* Seeded fault: a machine that still has resources is shut down.
MachineShutdown_IgnoresResources(m) ==
    LET o == SeenMachines[m] IN
    /\ Reconciling(m) /\ o.fin /\ o.state = "shutdown"
    /\ mc' = [pc |-> "unlock", m |-> m, obj |-> o, base |-> SeenRel]
    /\ UNCHANGED storeVars /\ UNCHANGED docker

MachineShutdown(m) ==
    LET o == SeenMachines[m] IN
    /\ Reconciling(m) /\ o.fin /\ o.state = "shutdown"
    /\ SeenRel.m2r[m] = {}
    /\ mc' = [pc |-> "unlock", m |-> m, obj |-> o, base |-> SeenRel]
    /\ UNCHANGED storeVars /\ UNCHANGED docker

\* Seeded fault: the lock is left on the host.
MachineUnlock_KeepsLock ==
    /\ mc.pc = "unlock"
    /\ mc' = [mc EXCEPT !.pc = "unload"]
    /\ UNCHANGED docker /\ UNCHANGED storeVars

MachineUnlock ==
    /\ mc.pc = "unlock"
    /\ docker' = [docker EXCEPT ![mc.m] = @ \ {"chaos-daemon"}]
    /\ mc' = [mc EXCEPT !.pc = "unload"]
    /\ UNCHANGED storeVars

MachineDeleteUploadDaemon ==
    /\ mc.pc = "unload"
    /\ docker' = [docker EXCEPT ![mc.m] = @ \ {"upload-daemon"}]
    /\ mc' = [mc EXCEPT !.pc = "unregister"]
    /\ UNCHANGED storeVars

MachineUnregister ==
    /\ mc.pc = "unregister"
    /\ UpdateRelationship(mc.base, [mc.base EXCEPT !.keys = @ \ {mc.m},
                                                  !.m2r[mc.m] = {}])
    /\ mc' = [mc EXCEPT !.pc = "finalizer", !.base = EmptyRelationship]
    /\ UNCHANGED docker

MachineRemoveFinalizer ==
    /\ mc.pc = "finalizer"
    /\ UpdateMachine(mc.m, mc.obj, AbsentMachine)
    /\ mc' = MIdle
    /\ UNCHANGED docker

\* Seeded fault: a refused write of the Relationship is not noticed.
MachineConflict_NotRelationship ==
    /\ mc.pc \in {"ready", "upload", "finalizer"} /\ machines[mc.m] # mc.obj
    /\ mc' = MIdle
    /\ UNCHANGED storeVars /\ UNCHANGED docker

\* A refused write: Reconcile returns the error and starts again later.
MachineConflict ==
    /\ \/ mc.pc \in {"ready", "upload", "finalizer"} /\ machines[mc.m] # mc.obj
       \/ mc.pc = "unregister" /\ rel # mc.base
    /\ mc' = MIdle
    /\ UNCHANGED storeVars /\ UNCHANGED docker

MachineBegin(m) ==
    \/ MachineAddFinalizer(m)
    \/ MachineBeginShutdown(m)
    \/ MachineBeginStarting(m)
    \/ MachineTryLock(m)
    \/ MachineCreateUploadDaemon(m)
    \/ MachineRegister(m)
    \/ MachineShutdown(m)

MachineContinue ==
    \/ MachineReady
    \/ MachineSetUploadPort
    \/ MachineUnlock
    \/ MachineDeleteUploadDaemon
    \/ MachineUnregister
    \/ MachineRemoveFinalizer
    \/ MachineConflict
=============================================================================
