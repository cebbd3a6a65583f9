------------------------------- MODULE Naglfar ------------------------------
(***************************************************************************)
(* The scheduling core of Naglfar: the four controllers that share the     *)
(* Relationship, the users that create and delete requests and machines,   *)
(* the garbage collector, and the process that may stop and start again.   *)
(***************************************************************************)
EXTENDS RequestController, ResourceController, MachineController

CONSTANTS
    Users,      \* which of the optional user actions happen
    MaxCrash    \* bound: crashes of the controller process

ASSUME NaglfarAssumption ==
    /\ Users \subseteq {"delete request", "delete machine", "delete new machine",
                        "delete resource"}
    /\ MaxCrash \in Nat

VARIABLE crashes

vars == <<storeVars, rc, tc, machineVars, crashes>>

localVars == <<rc, tc, machineVars, crashes>>

Init ==
    /\ ControlPlaneInit
    /\ RequestInit
    /\ ResourceInit
    /\ MachineInit
    /\ crashes = 0

----------------------------------------------------------------------------
(* Users.                                                                   *)

CreateRequest(r) ==
    /\ ~Exists(requests[r])
    /\ requests[r].gen < MaxGen
    /\ requests' = [requests EXCEPT ![r] =
                      [AbsentRequest(@.gen + 1) EXCEPT !.state = ""]]
    /\ UNCHANGED <<machines, resources, rel, cache>> /\ UNCHANGED localVars

DeleteRequest(r) ==
    /\ "delete request" \in Users
    /\ Exists(requests[r]) /\ ~requests[r].del
    /\ requests' = [requests EXCEPT ![r] =
                      IF @.fin THEN [@ EXCEPT !.del = TRUE] ELSE AbsentRequest(@.gen)]
    /\ UNCHANGED <<machines, resources, rel, cache>> /\ UNCHANGED localVars

\* A machine is deleted, by default not before it is in the Relationship.
DeleteMachine(m) ==
    /\ \/ "delete machine" \in Users /\ m \in rel.keys
       \/ "delete new machine" \in Users
    /\ Exists(machines[m]) /\ ~machines[m].del
    /\ machines' = [machines EXCEPT ![m] =
                      IF @.fin THEN [@ EXCEPT !.del = TRUE] ELSE AbsentMachine]
    /\ UNCHANGED <<requests, resources, rel, cache>> /\ UNCHANGED localVars

\* The deletion of a namespace deletes the resources in it one by one.  One
\* creation is left for the owner and one for each later request of its name,
\* so that MaxInc never keeps a request from creating its resources.
DeleteNamespacedResource(x) ==
    /\ "delete resource" \in Users
    /\ Exists(resources[x]) /\ ~resources[x].del
    /\ resources[x].inc + MaxGen - resources[x].owner.gen < MaxInc
    /\ DeleteResource(x)
    /\ UNCHANGED localVars

\* The garbage collector deletes resources whose owner is gone.
CollectGarbage(x) ==
    LET q == resources[x].owner IN
    /\ Exists(resources[x]) /\ ~resources[x].del
    /\ Exists(requests[q.name]) => requests[q.name].gen # q.gen
    /\ DeleteResource(x)
    /\ UNCHANGED localVars

----------------------------------------------------------------------------
(* The process.                                                             *)

Restart ==
    /\ rc' = RIdle /\ tc' = TIdle /\ mc' = MIdle
    /\ cache' = RelistedCache
    /\ UNCHANGED <<machines, requests, resources, rel, docker>>

Crash ==
    /\ crashes < MaxCrash
    /\ crashes' = crashes + 1
    /\ Restart

Panic == RequestPanics /\ Restart /\ UNCHANGED crashes

RequestStep(r) == RequestBegin(r) /\ UNCHANGED <<tc, machineVars, crashes>>
RequestOngoing == RequestContinue /\ UNCHANGED <<tc, machineVars, crashes>>

ResourceStep(x) == ResourceBegin(x) /\ UNCHANGED <<rc, machineVars, crashes>>
ResourceOngoing == ResourceContinue /\ UNCHANGED <<rc, machineVars, crashes>>

MachineStep(m) == MachineBegin(m) /\ UNCHANGED <<rc, tc, crashes>>
MachineOngoing == MachineContinue /\ UNCHANGED <<rc, tc, crashes>>

RelationshipStep == RelationshipReconcile /\ UNCHANGED localVars

Watch(kind) == WatchEvent(kind) /\ UNCHANGED localVars

Next ==
    \/ \E r \in Request : RequestStep(r) \/ CreateRequest(r) \/ DeleteRequest(r)
    \/ \E x \in Resource :
          ResourceStep(x) \/ DeleteNamespacedResource(x) \/ CollectGarbage(x)
    \/ \E m \in Machine : MachineStep(m) \/ DeleteMachine(m)
    \/ RequestOngoing \/ ResourceOngoing \/ MachineOngoing
    \/ RelationshipStep
    \/ \E kind \in Kind : Watch(kind)
    \/ Crash \/ Panic

Spec == Init /\ [][Next]_vars

\* What the worker of a controller does for one object: it takes the object
\* and goes on with it, or panics, until the call is over.
RequestTurn(r) == RequestStep(r) \/ (rc.r = r /\ (RequestOngoing \/ Panic))
ResourceTurn(x) == ResourceStep(x) \/ (tc.x = x /\ ResourceOngoing)
MachineTurn(m) == MachineStep(m) \/ (mc.m = m /\ MachineOngoing)

(* The work queue is first in, first out, and every object not at rest is   *)
(* put back in it, by an event, an error or a RequeueAfter: an object whose *)
(* turn keeps coming has it, though the worker may be busy with others in   *)
(* between (SF); a worker that has begun goes on, which is all it can do    *)
(* then, and a process that panics is started again.  Watches deliver and   *)
(* the garbage collector runs.  Users and crashes owe nothing.              *)
Fairness ==
    /\ \A r \in Request : SF_vars(RequestTurn(r))
    /\ \A x \in Resource : SF_vars(ResourceTurn(x)) /\ WF_vars(CollectGarbage(x))
    /\ \A m \in Machine : SF_vars(MachineTurn(m))
    /\ WF_vars(RelationshipStep)
    /\ \A kind \in Lagging : WF_vars(Watch(kind))

FairSpec == Spec /\ Fairness

----------------------------------------------------------------------------
\* Every variable has its type; the Relationships that the caches and the
\* workers hold are as well formed as the stored one.
TypeOK ==
    /\ ControlPlaneTypeOK
    /\ RequestTypeOK
    /\ ResourceTypeOK
    /\ MachineTypeOK
    /\ crashes \in 0 .. MaxCrash

----------------------------------------------------------------------------
(* Safety of the ledger that the Relationship is.                           *)

\* No two resources on a machine have a CPU in common and none has a reserved
\* one, whatever the caches showed the scheduler (tryRequest, Machine.Rest,
\* pickCpuSet and the refused writes together).
CPUsExclusive == SharesNoCPU(rel)

\* No device of a machine is bound to two resources, whatever the caches showed
\* the scheduler.  (One resource can hold a device twice: resourceOverflow takes
\* the name of the disk, not of the device, from what is left.)
DevicesExclusive == SharesNoDevice(rel)

\* The resources of a machine never ask for more memory than it has left
\* after the reserve, across any history of binding and releasing.
MemoryWithinMachine ==
    \A m \in Machine : MemoryOf(rel.m2r[m]) <= AvailableMemory(m)

\* MachineToResources and ResourceToMachine tell the same story, so that
\* releasing through one map cleans the other (refsRemove panics otherwise).
MapsAgree == MapsTally(rel)

\* A machine locked by a request carries resources of that request only.
LockExclusive == RespectsLocks(rel)

Lives(q) == Exists(requests[q.name]) /\ requests[q.name].gen = q.gen

\* A lock or an acceptance never outlives its request, even when the request
\* is deleted while the scheduler is placing it.
NoOrphanLock ==
    /\ \A q \in rel.accepted : Lives(q)
    /\ \A m \in Machine : rel.locks[m] # None => Lives(rel.locks[m])

\* A binding never outlives its resource: what nobody uses can be given to
\* the next request.
NoLeak ==
    \A k \in DOMAIN rel.r2m :
        Exists(resources[k.name]) /\ ResRef(k.name, resources[k.name]) = k

\* A machine that a resource is bound to is there: the resource could neither
\* start nor be cleaned up otherwise.
BoundMachineExists ==
    \A k \in DOMAIN rel.r2m : Exists(machines[rel.r2m[k].machine])

\* A host is given back to other Naglfar systems with its machine object: no
\* locking container stays behind.
HostReleased ==
    \A m \in Machine : ~Exists(machines[m]) => docker[m] = {}

\* A resource of an accepted request that has no machine will never have one:
\* acceptance is not reconsidered (RequestReadRelationship).
Forgotten(r) ==
    /\ Ref(r, requests[r]) \in rel.accepted
    /\ \E x \in ItemNames(r) :
          Exists(resources[x]) /\ ResRef(x, resources[x]) \notin DOMAIN rel.r2m

\* A ready request has all of its resources, each bound to a machine and
\* past waiting for it, however the request came to be ready.  (Not so one
\* that was deleted with its namespace, or was created again after that.)
ReadyImpliesBound ==
    \A r \in Request : requests[r].state = "ready" /\ ~requests[r].del =>
        \A x \in ItemNames(r) :
            \/ /\ resources[x].owner = Ref(r, requests[r])
               /\ IsRequired(resources[x])
               /\ ResRef(x, resources[x]) \in DOMAIN rel.r2m
            \/ /\ "delete resource" \in Users
               /\ resources[x].del \/ ~Exists(resources[x]) \/ Forgotten(r)

----------------------------------------------------------------------------
(* What a step may never do.                                                *)

\* A machine lock is never handed from one request to another directly.
LockNotStolen ==
    [][\A m \in Machine : rel.locks[m] # None => rel'.locks[m] \in {None, rel.locks[m]}]_rel

\* A resource that has reached its machine goes only when its binding has been
\* given back, however old the Relationship its deletion is decided on.
RequiredGoesReleased ==
    [][\A x \in Resource :
        IsRequired(resources[x]) /\ ~Exists(resources'[x]) =>
            ResRef(x, resources[x]) \notin DOMAIN rel'.r2m]_<<resources, rel>>

----------------------------------------------------------------------------
(* What must happen in the end: nothing is for ever on its way.             *)

\* A deleted request goes: its resources, its locks and its object.
DeletionCompletes ==
    \A r \in Request : []<>~requests[r].del

\* A deleted machine goes unless resources are, or stay, on it.
MachineLeaves ==
    \A m \in Machine : []<>(~machines[m].del \/ rel.m2r[m] # {})

Waiting(r) == requests[r].state = "pending" /\ ~requests[r].del

\* A request that is alone, with its machines there, nothing leaked by the
\* ones before it and none of its resources taken away from it, gets them: the
\* capacity and the locks of deleted requests come back.
AloneIsServed ==
    \A r \in Request :
        []<>(\/ ~Waiting(r)
             \/ \E q \in Request \ {r} : Exists(requests[q])
             \/ \E m \in Machine : machines[m].del \/ ~Exists(machines[m])
             \/ ~NoLeak
             \/ Forgotten(r))

\* Not all requests wait for ever where there is room for everyone: a resource of
\* another request is left out of the list, as the comment at
\* testresourcerequest_controller.go:117 says ("filter out resources that not
\* owned by this request"), so that whoever has its resources gets on.
SomebodyServed == []<>(\E r \in Request : ~Waiting(r))

----------------------------------------------------------------------------
(* The abstract ledger.                                                     *)

Grants ==
    [k \in DOMAIN rel.r2m |->
        [machine |-> rel.r2m[k].machine,
         cpus    |-> rel.r2m[k].binding.cpus,
         devices |-> {rel.r2m[k].binding.disks[n] : n \in DOMAIN rel.r2m[k].binding.disks}]]

MembersOf(q) == ItemNames(q.name)

L == INSTANCE Ledger WITH
        CPUs <- [m \in Machine |-> AvailableCPUs(m)],
        Members <- MembersOf,
        grants <- Grants,
        locks <- rel.locks

\* The controllers implement the ledger: all resources of a request at once,
\* no CPU, device or locked machine shared.
ImplementsLedger == L!Spec
=============================================================================
