------------------------- MODULE RequestController --------------------------
(***************************************************************************)
(* TestResourceRequestReconciler: the scheduler.  A request creates its    *)
(* resources, then tries to place all of them on machines in one write of  *)
(* the Relationship; deleted, it deletes its resources, gives its locks    *)
(* back and goes.  rc is the local state of the one worker: what Reconcile *)
(* has read so far and the working copy of the Relationship it fills.      *)
(***************************************************************************)
EXTENDS ControlPlane

VARIABLE rc

RIdle ==
    [pc     |-> "idle",
     r      |-> None,               \* the request being reconciled
     obj    |-> AbsentRequest(0),   \* its object as read
     refs   |-> <<>>,               \* resourceMap: item name |-> reference
     base   |-> EmptyRelationship,  \* the Relationship as read
     work   |-> EmptyRelationship,  \* the working copy
     order  |-> <<>>,               \* sortedMachineList
     named  |-> {},                 \* named groups still to place
     single |-> {},                 \* other items still to place, by position
     toLock |-> {}]                 \* toLockMachines

RequestTypeOK ==
    /\ rc \in [pc : {"idle", "relation", "machines", "bind", "release", "finalizer"},
               r : Request \cup {None}, obj : RequestObject, refs : {rc.refs},
               base : {rc.base}, work : {rc.work}, order : {rc.order},
               named : {rc.named}, single : SUBSET Nat, toLock : SUBSET Machine]
    /\ RelationshipOK(rc.base) /\ RelationshipOK(rc.work)
    /\ \A x \in DOMAIN rc.refs : rc.refs[x] \in ResourceRef
    /\ \A i \in DOMAIN rc.order : rc.order[i] \in Machine
    /\ rc.pc # "idle" => rc.r \in Request

RequestInit == rc = RIdle

Self == Ref(rc.r, rc.obj)

UpdateRequest(r, seen, o) ==
    /\ requests[r] = seen
    /\ requests' = [requests EXCEPT ![r] = o]
    /\ UNCHANGED <<machines, resources, rel, cache>>

ItemNames(r) == {Items[r][i] : i \in DOMAIN Items[r]}

\* listResources: everything in the namespace of r.
listResources(r) ==
    {x \in Resource : Ns[x] = Ns[r] /\ Exists(SeenResources[x])}

\* listOwnedResources: the index is on the name of the owner, not its UID.
listOwnedResources(r) ==
    {x \in listResources(r) : SeenResources[x].owner.name = r}

----------------------------------------------------------------------------
(* Reconcile up to the switch on the state.                                 *)

RequestAddFinalizer(r) ==
    LET o == SeenRequests[r] IN
    /\ rc.pc = "idle" /\ Exists(o) /\ ~o.del /\ ~o.fin
    /\ UpdateRequest(r, o, [o EXCEPT !.fin = TRUE])
    /\ UNCHANGED rc

RequestBeginPending(r) ==
    LET o == SeenRequests[r] IN
    /\ rc.pc = "idle" /\ o.fin /\ ~o.del /\ o.state = ""
    /\ UpdateRequest(r, o, [o EXCEPT !.state = "pending"])
    /\ UNCHANGED rc

----------------------------------------------------------------------------
(* reconcilePending.  A resource in the namespace that this request does    *)
(* not own ends the call at once.                                           *)

PendingWithOwnResources(r) ==
    LET o == SeenRequests[r] IN
    /\ rc.pc = "idle" /\ o.fin /\ ~o.del /\ o.state = "pending"
    /\ \A x \in listResources(r) : SeenResources[x].owner = Ref(r, o)

\* One of the missing resources is created; a create of a name that is
\* taken is ignored.  The loop may be cut short after any of its calls.
RequestCreateResource(r, x) ==
    /\ PendingWithOwnResources(r)
    /\ x \in ItemNames(r) \ listResources(r)
    /\ resources[x].inc < MaxInc
    /\ ~Exists(resources[x])
    /\ resources' = [resources EXCEPT ![x] =
                        [AbsentResource(resources[x].inc + 1) EXCEPT
                            !.state = "", !.owner = Ref(r, SeenRequests[r])]]
    /\ UNCHANGED <<machines, requests, rel, cache>> /\ UNCHANGED rc

\* The resources listed are the request's own, named after its items: that there
\* are as many as items, which is what the code asks, means that all are there
\* and that no item has the name of another one.
AllCreated(r) ==
    /\ \A i, j \in DOMAIN Items[r] : Items[r][i] = Items[r][j] => i = j
    /\ ItemNames(r) \subseteq listResources(r)

AllRequired(r) == \A x \in ItemNames(r) : IsRequired(SeenResources[x])

RequestReady(r) ==
    LET o == SeenRequests[r] IN
    /\ PendingWithOwnResources(r) /\ AllCreated(r) /\ AllRequired(r)
    /\ UpdateRequest(r, o, [o EXCEPT !.state = "ready"])
    /\ UNCHANGED rc

\* The resources are there and not all of them have their machine: the
\* references are kept and the Relationship is looked at next.
RequestNotRequired(r) ==
    /\ PendingWithOwnResources(r) /\ AllCreated(r) /\ ~AllRequired(r)
    /\ rc' = [RIdle EXCEPT
                !.pc = "relation", !.r = r, !.obj = SeenRequests[r],
                !.refs = [x \in listResources(r) |-> ResRef(x, SeenResources[x])]]
    /\ UNCHANGED storeVars

\* An accepted request only waits.
RequestWait ==
    /\ rc.pc = "relation"
    /\ Self \in SeenRel.accepted
    /\ rc' = RIdle
    /\ UNCHANGED storeVars

RequestReadRelationship ==
    /\ rc.pc = "relation"
    /\ Self \notin SeenRel.accepted
    /\ rc' = [rc EXCEPT !.pc = "machines", !.base = SeenRel, !.work = SeenRel]
    /\ UNCHANGED storeVars

----------------------------------------------------------------------------
(* tryRequest: the machines are listed after the Relationship is read.      *)

getMachines == {m \in Machine : SeenMachines[m].state = "ready"}

\* Seeded fault: locked machines stay candidates.
selectNonLockMachines_All(R) == getMachines

selectNonLockMachines(R) == {m \in getMachines : R.locks[m] = None}

ExplicitMachines(r) ==
    {MachineRequest[r][l].machine : l \in DOMAIN MachineRequest[r]} \ {None}

\* The comparison of sortMachines: machines asked for by name first, then
\* the ones with more resources; the shuffle decides the rest.
Before(r, R, m, n) ==
    \/ m \in ExplicitMachines(r) /\ n \notin ExplicitMachines(r)
    \/ /\ m \in ExplicitMachines(r) <=> n \in ExplicitMachines(r)
       /\ Cardinality(R.m2r[m]) > Cardinality(R.m2r[n])

sortMachines(r, S, R) ==
    {s \in [1 .. Cardinality(S) -> S] :
        \A i, j \in DOMAIN s : i < j => s[i] # s[j] /\ ~Before(r, R, s[j], s[i])}

\* groupCoLocatedItems: the items (their positions) of logical machine l.
GroupItems(r, l) == {i \in DOMAIN Items[r] : ItemSpec[Items[r][i]].machine = l}

Logical(r) == {ItemSpec[x].machine : x \in ItemNames(r)} \ {None}

RequestListMachines ==
    /\ rc.pc = "machines"
    /\ ExplicitMachines(rc.r) \subseteq getMachines
    /\ \E s \in sortMachines(rc.r, selectNonLockMachines(rc.base), rc.base) :
          rc' = [rc EXCEPT !.pc = "bind", !.order = s,
                           !.named = Logical(rc.r),
                           !.single = GroupItems(rc.r, None)]
    /\ UNCHANGED storeVars

\* "no ready ExplicitMachine": an error, tried again later.
RequestNoExplicitMachine ==
    /\ rc.pc = "machines"
    /\ ~(ExplicitMachines(rc.r) \subseteq getMachines)
    /\ rc' = RIdle
    /\ UNCHANGED storeVars

----------------------------------------------------------------------------
(* One group is placed: on the first machine of the list that takes all of  *)
(* its items, one after the other.                                          *)

Item(i) == Items[rc.r][i]

Entries(I, b) == {[ref |-> rc.refs[Item(i)], binding |-> b[i]] : i \in I}

UpTo(I, k) == {j \in I : j < k}

\* Any binding an item could get on machine m.
BindingOn(m, x) ==
    [cpus : {c \in SUBSET AvailableCPUs(m) : Cardinality(c) = ItemSpec[x].cores},
     memory : {ItemSpec[x].memory},
     disks : DiskChoices(m, {}, x)]

\* The ways the items can be bound on m with A allocated, each item after
\* the ones before it.
Placements(m, A, I) ==
    {b \in [I -> UNION {BindingOn(m, Item(i)) : i \in I}] :
        \A k \in I :
            b[k] \in resourceOverflow(m, A \cup Entries(UpTo(I, k), b), Item(k))}

\* Some item of the group may find nothing left on m.
MaySkip(m, A, I) ==
    \E k \in I : \E b \in Placements(m, A, UpTo(I, k)) :
        resourceOverflow(m, A \cup Entries(UpTo(I, k), b), Item(k)) = {}

\* Seeded fault: an exclusive group also takes machines in use.
Candidate_InUse(l, m) ==
    l # None => MachineRequest[rc.r][l].machine \in {None, m}

\* The machines a group may use: all, or the one asked for by name; empty
\* ones only when the group is exclusive.
Candidate(l, m) ==
    l # None => LET q == MachineRequest[rc.r][l] IN
                /\ q.machine \in {None, m}
                /\ q.exclusive => rc.work.m2r[m] = {}

IsExclusive(l) == l # None /\ MachineRequest[rc.r][l].exclusive

\* The working copy with the items I put on machine m.
Bound(R, m, I, b) ==
    LET new == {rc.refs[Item(i)] : i \in I}
        at(k) == CHOOSE i \in I : rc.refs[Item(i)] = k IN
    [R EXCEPT !.keys = @ \cup {m},
              !.m2r = [R.m2r EXCEPT ![m] = @ \cup Entries(I, b)],
              !.r2m = [k \in DOMAIN R.r2m \cup new |->
                        IF k \in new THEN [machine |-> m, binding |-> b[at(k)]]
                                     ELSE R.r2m[k]]]

\* order[i] is reached by the search for a machine for the group of l.
Reached(l, I, i) ==
    /\ Candidate(l, rc.order[i])
    /\ \A j \in 1 .. i - 1 :
          Candidate(l, rc.order[j]) =>
             MaySkip(rc.order[j], rc.work.m2r[rc.order[j]], I)

\* tryBindResource finds order[i] for the group.  Writing the nil maps of a
\* Relationship that is not initialized panics instead (RequestPanics).
PlaceGroup(l, I) ==
    \E i \in DOMAIN rc.order :
        LET m == rc.order[i] IN
        /\ rc.base.init
        /\ Reached(l, I, i)
        /\ \E b \in Placements(m, rc.work.m2r[m], I) :
              rc' = [rc EXCEPT !.work = Bound(rc.work, m, I, b),
                               !.named = @ \ {l},
                               !.single = @ \ I,
                               !.toLock = IF IsExclusive(l) THEN @ \cup {m} ELSE @]

NothingFits(l, I) ==
    \A i \in DOMAIN rc.order :
        Candidate(l, rc.order[i]) => MaySkip(rc.order[i], rc.work.m2r[rc.order[i]], I)

\* Seeded fault: a group for which there is no machine is left out.
NoPlace_Skips(l, I) ==
    /\ NothingFits(l, I)
    /\ rc' = [rc EXCEPT !.named = @ \ {l}, !.single = @ \ I]

\* "fail to find suitable machines": nothing is written.
NoPlace(l, I) == NothingFits(l, I) /\ rc' = RIdle

\* Named groups come first, in the order of a Go map, then the other items.
NextGroups ==
    IF rc.named # {}
    THEN {<<l, GroupItems(rc.r, l)>> : l \in rc.named}
    ELSE {<<None, {i}>> : i \in {j \in rc.single : \A k \in rc.single : j <= k}}

RequestBindGroup ==
    /\ rc.pc = "bind"
    /\ \E g \in NextGroups : PlaceGroup(g[1], g[2]) \/ NoPlace(g[1], g[2])
    /\ UNCHANGED storeVars

RequestPanics ==
    /\ rc.pc = "bind" /\ ~rc.base.init
    /\ \E g \in NextGroups : \E i \in DOMAIN rc.order :
          /\ Reached(g[1], g[2], i)
          /\ Placements(rc.order[i], rc.work.m2r[rc.order[i]], g[2]) # {}

\* All groups have a machine: locks and acceptance are added and the whole
\* is written.
Accepted(R) ==
    [R EXCEPT !.locks = [m \in Machine |-> IF m \in rc.toLock THEN Self ELSE R.locks[m]],
              !.accepted = @ \cup {Self}]

AllPlaced == rc.pc = "bind" /\ rc.named = {} /\ rc.single = {}

RequestCommit ==
    /\ AllPlaced
    /\ UpdateRelationship(rc.base, Accepted(rc.work))
    /\ rc' = RIdle

\* While the groups are placed, the working copy stays a possible next
\* Relationship for the one that was read: what was exclusive stays so, and
\* nothing is added to a locked machine or to one about to be locked for
\* this request by anyone else.  (The groups are placed one by one in
\* tryRequest, which looks at the working copy only.)
WorkingCopyOK ==
    /\ rc.pc \in {"relation", "machines", "bind"} =>
          \A x \in ItemNames(rc.r) : x \in DOMAIN rc.refs /\ rc.refs[x].owner = Self
    /\ rc.pc = "relation" => rc.toLock = {}
    /\ rc.pc = "machines" => rc.toLock = {} /\ rc.work = rc.base
    /\ rc.pc = "bind" =>
          /\ rc.single \subseteq DOMAIN Items[rc.r]
          /\ \A i \in DOMAIN rc.order : rc.base.locks[rc.order[i]] = None
          /\ rc.work.locks = rc.base.locks
          /\ \A m \in Machine : rc.base.locks[m] # None => rc.work.m2r[m] = rc.base.m2r[m]
          /\ \A m \in rc.toLock : /\ rc.base.locks[m] = None
                                  /\ \A e \in rc.work.m2r[m] : OwnerOf(e) = Self
          /\ SharesNoCPU(rc.base) => SharesNoCPU(rc.work)
          /\ SharesNoDevice(rc.base) => SharesNoDevice(rc.work)

----------------------------------------------------------------------------
(* reconcileDeletion.                                                       *)

Deleting(r) ==
    LET o == SeenRequests[r] IN rc.pc = "idle" /\ o.del /\ o.fin

\* Seeded fault: only resources that have a machine are deleted.
RequestDeleteResource_RequiredOnly(r, x) ==
    /\ Deleting(r)
    /\ x \in listOwnedResources(r)
    /\ IsRequired(resources[x])
    /\ DeleteResource(x)
    /\ UNCHANGED rc

\* One of the resources is deleted, by name.
RequestDeleteResource(r, x) ==
    /\ Deleting(r)
    /\ x \in listOwnedResources(r)
    /\ Exists(resources[x])
    /\ DeleteResource(x)
    /\ UNCHANGED rc

RequestNoResources(r) ==
    /\ Deleting(r)
    /\ listOwnedResources(r) = {}
    /\ rc' = [RIdle EXCEPT !.pc = "release", !.r = r, !.obj = SeenRequests[r]]
    /\ UNCHANGED storeVars

\* Seeded fault: the locks are kept.
Withdrawn_KeepsLocks(R) == [R EXCEPT !.accepted = @ \ {Self}]

\* The Relationship without the acceptance and the locks of this request.
Withdrawn(R) ==
    [R EXCEPT !.accepted = @ \ {Self},
              !.locks = [m \in Machine |->
                           IF R.locks[m] = Self THEN None ELSE R.locks[m]]]

\* The Relationship is read and written with no other access in between.
RequestRelease ==
    /\ rc.pc = "release"
    /\ UpdateRelationship(SeenRel, Withdrawn(SeenRel))
    /\ rc' = [rc EXCEPT !.pc = "finalizer"]

RequestRemoveFinalizer ==
    /\ rc.pc = "finalizer"
    /\ UpdateRequest(rc.r, rc.obj, AbsentRequest(rc.obj.gen))
    /\ rc' = RIdle

\* A refused write.
RequestConflict ==
    /\ \/ AllPlaced /\ rel # rc.base
       \/ rc.pc = "release" /\ rel # SeenRel
       \/ rc.pc = "finalizer" /\ requests[rc.r] # rc.obj
    /\ rc' = RIdle
    /\ UNCHANGED storeVars

\* A call of Reconcile for request r starts, and the call under way goes on.
RequestBegin(r) ==
    \/ RequestAddFinalizer(r)
    \/ RequestBeginPending(r)
    \/ \E x \in Resource : RequestCreateResource(r, x)
    \/ RequestReady(r)
    \/ RequestNotRequired(r)
    \/ \E x \in Resource : RequestDeleteResource(r, x)
    \/ RequestNoResources(r)

RequestContinue ==
    \/ RequestWait
    \/ RequestReadRelationship
    \/ RequestListMachines
    \/ RequestNoExplicitMachine
    \/ RequestBindGroup
    \/ RequestCommit
    \/ RequestRelease
    \/ RequestRemoveFinalizer
    \/ RequestConflict
=============================================================================
