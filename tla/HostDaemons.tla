----------------------------- MODULE HostDaemons ----------------------------
(***************************************************************************)
(* One host that several Naglfar systems have a Machine object for.  The   *)
(* machine controller of each system locks it with a named container that  *)
(* carries the UID of its object, reads the facts of the host from the     *)
(* output of a second container, and runs the upload daemon in a third.    *)
(* Here Run and JustExec of the docker client are taken apart into their   *)
(* calls; MachineController has them as one step, for one system.          *)
(***************************************************************************)
EXTENDS Naturals

CONSTANTS
    System,     \* Naglfar systems, each with its own API server
    MaxGen,     \* bound: Machine objects that a system creates for the host
    MaxFault    \* bound: crashes of the systems and failures of containers

ASSUME HostAssumption == MaxGen \in Nat /\ MaxFault \in Nat

VARIABLES
    mach,       \* mach[s]: the Machine object of system s
    host,       \* host[c]: the container named c
    wk,         \* wk[s]: the worker of the machine controller of s
    faults

vars == <<mach, host, wk, faults>>

Lock == "chaos-daemon"
Stat == "naglfar-machine-stat"
Upload == "upload-daemon"

Name == {Lock, Stat, Upload}

Uid == System \X (1 .. MaxGen)

\* uid is the label of the lock; the other two have no label, and for them uid
\* only says who has created the container.
None == <<>>
NoContainer == [st |-> "none", uid |-> None]
Container == [st : {"created", "running", "succeeded", "failed"}, uid : Uid] \cup {NoContainer}

\* The state of a Machine object that no controller has seen yet.
Unset == ""

Absent(gen) ==
    [state |-> "absent", fin |-> FALSE, del |-> FALSE, upload |-> FALSE, gen |-> gen]

Machine ==
    [state : {"absent", Unset, "starting", "ready", "shutdown"},
     fin : BOOLEAN, del : BOOLEAN, upload : BOOLEAN, gen : 0 .. MaxGen]

\* obj is the object that Reconcile has read, c the container it is at.
Idle == [pc |-> "idle", c |-> Lock, obj |-> Absent(0)]

Pc == {"idle", "inspect", "create", "start", "remove", "ready", "port",
       "unlock", "unlockRemove", "unload", "unloadRemove", "finalizer"}

Worker == [pc : Pc, c : Name, obj : Machine]

\* Every variable has its type, also the copies that the workers hold.
TypeOK ==
    /\ mach \in [System -> Machine]
    /\ host \in [Name -> Container]
    /\ wk \in [System -> Worker]
    /\ faults \in 0 .. MaxFault

Init ==
    /\ mach = [s \in System |-> Absent(0)]
    /\ host = [c \in Name |-> NoContainer]
    /\ wk = [s \in System |-> Idle]
    /\ faults = 0

UidOf(s) == <<s, wk[s].obj.gen>>

Goto(s, pc) == wk' = [wk EXCEPT ![s].pc = pc]

Return(s) == wk' = [wk EXCEPT ![s] = Idle]

At(s, pc) == wk[s].pc = pc

\* The container that the worker is at.
Here(s) == host[wk[s].c]

----------------------------------------------------------------------------
(* Reconcile up to the switch.                                              *)

AddFinalizer(s) ==
    /\ At(s, "idle") /\ mach[s].state # "absent" /\ ~mach[s].del /\ ~mach[s].fin
    /\ mach' = [mach EXCEPT ![s].fin = TRUE]
    /\ UNCHANGED <<host, wk, faults>>

BeginStarting(s) ==
    /\ At(s, "idle") /\ mach[s].state = Unset /\ mach[s].fin /\ ~mach[s].del
    /\ mach' = [mach EXCEPT ![s].state = "starting"]
    /\ UNCHANGED <<host, wk, faults>>

BeginShutdown(s) ==
    /\ At(s, "idle") /\ mach[s].del /\ mach[s].state # "shutdown"
    /\ mach' = [mach EXCEPT ![s].state = "shutdown"]
    /\ UNCHANGED <<host, wk, faults>>

\* reconcileStarting runs the lock, reconcileRunning the upload daemon unless
\* the status has its port.
BeginRun(s) ==
    LET o == mach[s] IN
    /\ At(s, "idle") /\ ~o.del
    /\ o.state = "starting" \/ (o.state = "ready" /\ ~o.upload)
    /\ wk' = [wk EXCEPT ![s] = [pc |-> "inspect", obj |-> o,
                                c |-> IF o.state = "ready" THEN Upload ELSE Lock]]
    /\ UNCHANGED <<mach, host, faults>>

BeginUnlock(s) ==
    /\ At(s, "idle") /\ mach[s].state = "shutdown"
    /\ wk' = [wk EXCEPT ![s] = [pc |-> "unlock", obj |-> mach[s], c |-> Lock]]
    /\ UNCHANGED <<mach, host, faults>>

----------------------------------------------------------------------------
(* Run: the container is inspected, created, inspected, started and         *)
(* inspected, until it has been started.                                    *)

RunInspect(s) ==
    /\ At(s, "inspect")
    /\ \/ Here(s) = NoContainer /\ Goto(s, "create")
       \/ Here(s).st = "created" /\ Goto(s, "start")
    /\ UNCHANGED <<mach, host, faults>>

\* The name may have been taken since the inspection.
RunCreate(s) ==
    /\ At(s, "create")
    /\ IF Here(s) = NoContainer
       THEN /\ host' = [host EXCEPT ![wk[s].c] = [st |-> "created", uid |-> UidOf(s)]]
            /\ Goto(s, "inspect")
       ELSE Return(s) /\ UNCHANGED host
    /\ UNCHANGED <<mach, faults>>

RunStart(s) ==
    /\ At(s, "start")
    /\ IF Here(s) # NoContainer
       THEN /\ host' = [host EXCEPT ![wk[s].c].st = IF @ = "created" THEN "running" ELSE @]
            /\ Goto(s, "inspect")
       ELSE Return(s) /\ UNCHANGED host
    /\ UNCHANGED <<mach, faults>>

Started(s) == At(s, "inspect") /\ Here(s).st \notin {"none", "created"}

\* Seeded fault: whoever finds the lock running has it.
tryLock_Anyone(s) ==
    /\ Started(s) /\ wk[s].c = Lock
    /\ wk' = [wk EXCEPT ![s].pc = "inspect", ![s].c = Stat]
    /\ UNCHANGED <<mach, host, faults>>

\* tryLock compares the label; a host that is locked by another system is an
\* error.  fetchMachineInfo comes next.
tryLock(s) ==
    /\ Started(s) /\ wk[s].c = Lock
    /\ IF Here(s).uid = UidOf(s)
       THEN wk' = [wk EXCEPT ![s].pc = "inspect", ![s].c = Stat]
       ELSE Return(s)
    /\ UNCHANGED <<mach, host, faults>>

\* JustExec waits for the end of the container, however long ago it was
\* started and by whom; one that has failed stays where it is.
JustExec(s) ==
    /\ Started(s) /\ wk[s].c = Stat /\ Here(s).st # "running"
    /\ IF Here(s).st = "failed" THEN Return(s) ELSE Goto(s, "remove")
    /\ UNCHANGED <<mach, host, faults>>

\* The removal is by ID; only the holder of the lock gets here, so that nobody
\* has put another container in its place.
ExecRemove(s) ==
    /\ At(s, "remove")
    /\ host' = [host EXCEPT ![Stat] = NoContainer]
    /\ IF Here(s) = NoContainer THEN Return(s) ELSE Goto(s, "ready")
    /\ UNCHANGED <<mach, faults>>

\* createUploadDaemon takes any container of that name.
createUploadDaemon(s) ==
    /\ Started(s) /\ wk[s].c = Upload
    /\ Goto(s, "port")
    /\ UNCHANGED <<mach, host, faults>>

\* The status write that ends either of them.
WriteStatus(s) ==
    /\ At(s, "ready") \/ At(s, "port")
    /\ IF mach[s] # wk[s].obj THEN UNCHANGED mach
       ELSE mach' = [mach EXCEPT ![s].state = "ready", ![s].upload = At(s, "port")]
    /\ Return(s)
    /\ UNCHANGED <<host, faults>>

----------------------------------------------------------------------------
(* reconcileShutdown, without the Relationship.                             *)

\* Seeded fault: the label is compared with the wrong UID.
Unlock_WrongLabel(s) ==
    /\ At(s, "unlock")
    /\ Goto(s, IF host[Lock].uid = <<s, 0>> THEN "unlockRemove" ELSE "unload")
    /\ UNCHANGED <<mach, host, faults>>

Unlock(s) ==
    /\ At(s, "unlock")
    /\ Goto(s, IF host[Lock].uid = UidOf(s) THEN "unlockRemove" ELSE "unload")
    /\ UNCHANGED <<mach, host, faults>>

\* The removal is by name.
UnlockRemove(s) ==
    /\ At(s, "unlockRemove")
    /\ host' = [host EXCEPT ![Lock] = NoContainer]
    /\ IF host[Lock] = NoContainer THEN Return(s) ELSE Goto(s, "unload")
    /\ UNCHANGED <<mach, faults>>

\* deleteUploadDaemon does not ask whose it is.
deleteUploadDaemon(s) ==
    /\ At(s, "unload")
    /\ Goto(s, IF host[Upload] = NoContainer THEN "finalizer" ELSE "unloadRemove")
    /\ UNCHANGED <<mach, host, faults>>

UploadRemove(s) ==
    /\ At(s, "unloadRemove")
    /\ host' = [host EXCEPT ![Upload] = NoContainer]
    /\ IF host[Upload] = NoContainer THEN Return(s) ELSE Goto(s, "finalizer")
    /\ UNCHANGED <<mach, faults>>

RemoveFinalizer(s) ==
    /\ At(s, "finalizer")
    /\ mach' = [mach EXCEPT ![s] = Absent(@.gen)]
    /\ Return(s)
    /\ UNCHANGED <<host, faults>>

Reconcile(s) ==
    \/ AddFinalizer(s) \/ BeginStarting(s) \/ BeginShutdown(s) \/ BeginRun(s) \/ BeginUnlock(s)
    \/ RunInspect(s) \/ RunCreate(s) \/ RunStart(s)
    \/ tryLock(s) \/ JustExec(s) \/ ExecRemove(s) \/ createUploadDaemon(s) \/ WriteStatus(s)
    \/ Unlock(s) \/ UnlockRemove(s) \/ deleteUploadDaemon(s) \/ UploadRemove(s)
    \/ RemoveFinalizer(s)

----------------------------------------------------------------------------
(* Users, the host and the processes.                                       *)

CreateMachine(s) ==
    /\ mach[s].state = "absent" /\ mach[s].gen < MaxGen
    /\ mach' = [mach EXCEPT ![s] = [Absent(@.gen + 1) EXCEPT !.state = Unset]]
    /\ UNCHANGED <<host, wk, faults>>

DeleteMachine(s) ==
    /\ mach[s].state # "absent" /\ ~mach[s].del
    /\ mach' = [mach EXCEPT ![s] =
                  IF @.fin THEN [@ EXCEPT !.del = TRUE] ELSE Absent(@.gen)]
    /\ UNCHANGED <<host, wk, faults>>

StatEnds ==
    /\ host[Stat].st = "running"
    /\ host' = [host EXCEPT ![Stat].st = "succeeded"]
    /\ UNCHANGED <<mach, wk, faults>>

StatFails ==
    /\ faults < MaxFault /\ faults' = faults + 1
    /\ host[Stat].st = "running"
    /\ host' = [host EXCEPT ![Stat].st = "failed"]
    /\ UNCHANGED <<mach, wk>>

Crash(s) ==
    /\ faults < MaxFault /\ faults' = faults + 1
    /\ ~At(s, "idle") /\ Return(s)
    /\ UNCHANGED <<mach, host>>

Next ==
    \/ \E s \in System : Reconcile(s) \/ CreateMachine(s) \/ DeleteMachine(s) \/ Crash(s)
    \/ StatEnds \/ StatFails

Spec == Init /\ [][Next]_vars

\* A call that failed is repeated, and the container that reads the facts ends.
Fairness == WF_vars(StatEnds) /\ \A s \in System : WF_vars(Reconcile(s))

FairSpec == Spec /\ Fairness

----------------------------------------------------------------------------
\* machine_controller.go:304, "machine(%s) locked by other naglfar system": a
\* machine is ready in one system only, the one whose lock is on the host, and
\* until it is deleted there nobody removes the lock.
ReadyHoldsLock ==
    \A s \in System : mach[s].state = "ready" =>
        host[Lock].uid = <<s, mach[s].gen>> /\ host[Lock].st = "running"

\* machine_types.go:127 on UploadPort, "Port for uploading files: 31234": a
\* machine that has the port has a daemon that serves it.
PortIsServed ==
    \A s \in System : mach[s].state = "ready" /\ mach[s].upload => host[Upload].st = "running"

Waits(s) == mach[s].state \in {Unset, "starting"} /\ ~mach[s].del

\* A host goes from one system to the other: a machine that waits becomes ready
\* once no other system has an object for the host.  The exception is a host on
\* which reading the facts has failed: nobody removes that container.
HostHandedOver ==
    \A s \in System :
        Waits(s) ~> \/ ~Waits(s)
                    \/ \E t \in System \ {s} : mach[t].state # "absent"
                    \/ host[Stat].st = "failed"
=============================================================================
