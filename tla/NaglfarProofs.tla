---------------------------- MODULE NaglfarProofs ---------------------------
(***************************************************************************)
(* Proofs about Naglfar for any machines, requests, items, caches that lag *)
(* and users.                                                              *)
(*                                                                         *)
(* Part 1, exclusiveness: TypeOK /\ WorkingCopyOK is inductive; on it rest *)
(* the exclusiveness of CPUs, devices and locked machines.                 *)
(* Part 2, memory: what is bound on a machine adds up to no more than it   *)
(* has.                                                                    *)
(* Part 3, references: a request and its references are followed from the  *)
(* cache into the Relationship and out of it again: the two maps of the    *)
(* Relationship agree, no lock outlives its request, no binding its        *)
(* resource, and the controllers implement the abstract Ledger.            *)
(* Part 4, service: a host is given back with its machine, resources are   *)
(* bound to machines that are there, and a request that is ready has all   *)
(* of its resources.                                                       *)
(***************************************************************************)
EXTENDS Naglfar, FiniteSetTheorems, TLAPS

----------------------------------------------------------------------------
(* Part 1: exclusiveness.                                                   *)

(***************************************************************************)
(* What a binding that resourceOverflow gives takes from a machine, for    *)
(* every machine, item and set of entries already there.                   *)
(***************************************************************************)

\* pickCpuSet takes its CPUs from the idle ones.
LEMMA PickedAreIdle ==
    ASSUME NEW idle, NEW n
    PROVE  pickCpuSet(idle, n) \subseteq idle
  BY DEF pickCpuSet

\* The CPUs a machine has to give are numbers.
LEMMA AvailableAreNumbers ==
    ASSUME NEW m \in Machine
    PROVE  AvailableCPUs(m) \subseteq Nat
  BY HardwareAssumption DEF AvailableCPUs, makeCPUSet

\* resourceOverflow gives CPUs and devices that the machine has and that no
\* entry holds already, as many CPUs as the item asks for, and its memory
\* only when there is as much left.
THEOREM OverflowIsFree ==
    ASSUME NEW m \in Machine, NEW A, NEW x \in Resource,
           NEW b \in resourceOverflow(m, A, x)
    PROVE  /\ b = [cpus |-> b.cpus, memory |-> b.memory, disks |-> b.disks]
           /\ b.cpus \subseteq AvailableCPUs(m) \ CPUsOf(A)
           /\ Cardinality(b.cpus) >= ItemSpec[x].cores
           /\ b.memory = ItemSpec[x].memory
           /\ RestMemory(m, A) >= ItemSpec[x].memory
           /\ b.disks \in [DOMAIN ItemSpec[x].disks -> RestDevices(m, A)]
  <1>1. PICK d \in DiskChoices(m, A, x) :
          /\ b = [cpus |-> pickCpuSet(RestCPUs(m, A), ItemSpec[x].cores),
                  memory |-> ItemSpec[x].memory, disks |-> d]
          /\ RestMemory(m, A) >= ItemSpec[x].memory
          /\ Cardinality(pickCpuSet(RestCPUs(m, A), ItemSpec[x].cores)) >= ItemSpec[x].cores
    BY DEF resourceOverflow
  <1>2. pickCpuSet(RestCPUs(m, A), ItemSpec[x].cores) \subseteq RestCPUs(m, A)
    BY PickedAreIdle
  <1>3. d \in [DOMAIN ItemSpec[x].disks -> RestDevices(m, A)]
    BY DEF DiskChoices
  <1> QED
    BY <1>1, <1>2, <1>3 DEF RestCPUs

\* An entry's CPUs are among the CPUs of every set of entries it is in.
LEMMA EntryCPUs ==
    ASSUME NEW A, NEW e \in A
    PROVE  e.binding.cpus \subseteq CPUsOf(A)
  BY DEF CPUsOf

\* A device that an entry holds is not in the rest.
LEMMA EntryDevices ==
    ASSUME NEW m, NEW A, NEW c \in DiskClaims(A)
    PROVE  DeviceOf(c) \notin RestDevices(m, A)
  BY DEF RestDevices

USE DEF Exists, Ref, ResRef

(***************************************************************************)
(* Well-formed Relationships.                                              *)
(***************************************************************************)

\* The Relationship as it is installed, with nothing in it, is well formed.
LEMMA EmptyOK == RelationshipOK(EmptyRelationship)
  BY DEF RelationshipOK, EmptyRelationship

\* Setting the flag or the keys does not touch the rest.
LEMMA InitializedOK ==
    ASSUME NEW R, RelationshipOK(R)
    PROVE  RelationshipOK([R EXCEPT !.init = TRUE])
  BY DEF RelationshipOK

\* Entering a machine (reconcileRunning) keeps the Relationship well formed.
LEMMA RegisteredOK ==
    ASSUME NEW R, NEW m \in Machine, RelationshipOK(R)
    PROVE  RelationshipOK([R EXCEPT !.keys = @ \cup {m}])
  BY DEF RelationshipOK

\* Taking a machine out (reconcileShutdown) keeps the Relationship well formed.
LEMMA UnregisteredOK ==
    ASSUME NEW R, NEW m \in Machine, RelationshipOK(R)
    PROVE  RelationshipOK([R EXCEPT !.keys = @ \ {m}, !.m2r[m] = {}])
  BY DEF RelationshipOK

\* Giving the binding of a deleted resource back keeps it well formed.
LEMMA ReleasedOK ==
    ASSUME NEW R, NEW k \in DOMAIN R.r2m, RelationshipOK(R)
    PROVE  RelationshipOK(Released(R, k))
  BY DEF RelationshipOK, Released

\* New maps with well-formed entries keep the Relationship well formed.
LEMMA MapsReplacedOK ==
    ASSUME NEW R, NEW m \in Machine, NEW m2r, NEW r2m, RelationshipOK(R),
           m2r \in [Machine -> {m2r[n] : n \in Machine}],
           \A n \in Machine : \A e \in m2r[n] : e \in [ref : ResourceRef, binding : Binding],
           \A k \in DOMAIN r2m :
              k \in ResourceRef /\ r2m[k] \in [machine : Machine, binding : Binding]
    PROVE  RelationshipOK([R EXCEPT !.keys = @ \cup {m}, !.m2r = m2r, !.r2m = r2m])
  BY DEF RelationshipOK

\* The version that the server gives a write does not matter to the rest.
LEMMA VersionOK ==
    ASSUME NEW R, NEW n \in Nat, RelationshipOK(R)
    PROVE  RelationshipOK([R EXCEPT !.version = n])
  BY DEF RelationshipOK

\* What the server stores after a write that it does not refuse.
LEMMA UpdateOK ==
    ASSUME NEW seen, NEW R, RelationshipOK(seen), RelationshipOK(R),
           UpdateRelationship(seen, R)
    PROVE  RelationshipOK(rel')
  <1>1. seen.version + 1 \in Nat
    BY DEF RelationshipOK
  <1>2. RelationshipOK([R EXCEPT !.version = seen.version + 1])
    BY <1>1, VersionOK
  <1> QED
    BY <1>2 DEF UpdateRelationship

(***************************************************************************)
(* Placing a group on a machine.                                           *)
(***************************************************************************)

\* A position of a request's items holds a resource.
LEMMA ItemIsResource ==
    ASSUME NEW r \in Request, NEW i \in DOMAIN Items[r]
    PROVE  i \in Nat /\ Items[r][i] \in Resource /\ Items[r][i] \in ItemNames(r)
  <1>1. Items[r] \in Seq(Resource)
    BY ControlPlaneAssumption
  <1> QED
    BY <1>1 DEF ItemNames

\* A group consists of items of the request.
LEMMA GroupIsItems ==
    ASSUME WorkingCopyOK, rc.pc = "bind", NEW g \in NextGroups
    PROVE  g[2] \subseteq DOMAIN Items[rc.r]
  BY DEF WorkingCopyOK, NextGroups, GroupItems

\* What is asked of a group that is being placed: everything that the
\* lemmas below need of the state.
Placing(m, I, b) ==
    /\ RequestTypeOK /\ WorkingCopyOK /\ rc.pc = "bind"
    /\ m \in Machine
    /\ I \subseteq DOMAIN Items[rc.r]
    /\ b \in Placements(m, rc.work.m2r[m], I)

\* The binding of an item is well formed, on CPUs and devices that are free.
LEMMA PlacedBinding ==
    ASSUME NEW m, NEW I, NEW b, Placing(m, I, b), NEW k \in I
    PROVE  LET A == rc.work.m2r[m] \cup Entries(UpTo(I, k), b) IN
           /\ Item(k) \in Resource
           /\ b[k] \in Binding
           /\ b[k].cpus \subseteq AvailableCPUs(m) \ CPUsOf(A)
           /\ b[k].disks \in [DOMAIN ItemSpec[Item(k)].disks -> RestDevices(m, A)]
  <1> DEFINE A == rc.work.m2r[m] \cup Entries(UpTo(I, k), b)
  <1>1. m \in Machine /\ rc.r \in Request /\ k \in DOMAIN Items[rc.r]
    BY DEF Placing, RequestTypeOK
  <1>2. Item(k) \in Resource
    BY <1>1, ItemIsResource DEF Item
  <1>3. b[k] \in resourceOverflow(m, A, Item(k))
    BY DEF Placing, Placements
  <1> HIDE DEF A
  <1>4. /\ b[k] = [cpus |-> b[k].cpus, memory |-> b[k].memory, disks |-> b[k].disks]
        /\ b[k].cpus \subseteq AvailableCPUs(m) \ CPUsOf(A)
        /\ b[k].memory = ItemSpec[Item(k)].memory
        /\ b[k].disks \in [DOMAIN ItemSpec[Item(k)].disks -> RestDevices(m, A)]
    BY <1>1, <1>2, <1>3, OverflowIsFree
  <1>5. b[k].cpus \in SUBSET Nat
    BY <1>1, <1>4, AvailableAreNumbers
  <1>6. b[k].memory \in Nat
    BY <1>2, <1>4, ItemSpecAssumption
  <1>7. RestDevices(m, A) \subseteq Device
    BY <1>1 DEF RestDevices, Device
  <1>8. b[k].disks \in [DOMAIN ItemSpec[Item(k)].disks -> Device]
    BY <1>4, <1>7
  <1>9. b[k] \in Binding
    BY <1>2, <1>4, <1>5, <1>6, <1>8 DEF Binding
  <1> QED
    BY <1>2, <1>4, <1>9 DEF A

\* The new entries are well formed and belong to the request.
LEMMA PlacedEntries ==
    ASSUME NEW m, NEW I, NEW b, Placing(m, I, b)
    PROVE  /\ Entries(I, b) \subseteq [ref : ResourceRef, binding : Binding]
           /\ \A e \in Entries(I, b) : OwnerOf(e) = Self
  <1> SUFFICES ASSUME NEW k \in I
               PROVE  /\ rc.refs[Item(k)] \in ResourceRef
                      /\ rc.refs[Item(k)].owner = Self
                      /\ b[k] \in Binding
    BY DEF Entries, OwnerOf
  <1>1. rc.r \in Request /\ k \in DOMAIN Items[rc.r]
    BY DEF Placing, RequestTypeOK
  <1>2. Item(k) \in ItemNames(rc.r)
    BY <1>1, ItemIsResource DEF Item
  <1>3. Item(k) \in DOMAIN rc.refs /\ rc.refs[Item(k)].owner = Self
    BY <1>2 DEF Placing, WorkingCopyOK
  <1>4. rc.refs[Item(k)] \in ResourceRef
    BY <1>3 DEF Placing, RequestTypeOK
  <1> QED
    BY <1>3, <1>4, PlacedBinding

\* The fields of the working copy after a group is placed.
LEMMA BoundFields ==
    ASSUME NEW m, NEW I, NEW b, Placing(m, I, b)
    PROVE  LET B == Bound(rc.work, m, I, b) IN
           /\ B.locks = rc.work.locks
           /\ B.m2r[m] = rc.work.m2r[m] \cup Entries(I, b)
           /\ \A n \in Machine \ {m} : B.m2r[n] = rc.work.m2r[n]
  <1>1. RelationshipOK(rc.work) /\ m \in Machine
    BY DEF Placing, RequestTypeOK
  <1> QED
    BY <1>1 DEF Bound, RelationshipOK

\* The working copy is well formed after tryBindResource has placed a group.
LEMMA BoundOK ==
    ASSUME NEW m, NEW I, NEW b, Placing(m, I, b)
    PROVE  RelationshipOK(Bound(rc.work, m, I, b))
  <1> DEFINE new == {rc.refs[Item(i)] : i \in I}
             at(k) == CHOOSE i \in I : rc.refs[Item(i)] = k
             R == rc.work
             r2m == [k \in DOMAIN R.r2m \cup new |->
                        IF k \in new THEN [machine |-> m, binding |-> b[at(k)]]
                                     ELSE R.r2m[k]]
             m2r == [R.m2r EXCEPT ![m] = @ \cup Entries(I, b)]
  <1>1. RelationshipOK(R) /\ m \in Machine
    BY DEF Placing, RequestTypeOK
  <1>2. \A k \in new : /\ k \in ResourceRef
                       /\ b[at(k)] \in Binding
    <2> SUFFICES ASSUME NEW k \in new
                 PROVE  k \in ResourceRef /\ b[at(k)] \in Binding
      OBVIOUS
    <2>1. at(k) \in I /\ rc.refs[Item(at(k))] = k
      OBVIOUS
    <2>2. [ref |-> rc.refs[Item(at(k))], binding |-> b[at(k)]] \in Entries(I, b)
      BY <2>1 DEF Entries
    <2> QED
      BY <2>1, <2>2, PlacedEntries
  <1>3. \A k \in DOMAIN r2m : k \in ResourceRef /\ r2m[k] \in [machine : Machine, binding : Binding]
    BY <1>1, <1>2 DEF RelationshipOK
  <1>4. /\ m2r \in [Machine -> {m2r[n] : n \in Machine}]
        /\ \A n \in Machine : \A e \in m2r[n] : e \in [ref : ResourceRef, binding : Binding]
    BY <1>1, PlacedEntries DEF RelationshipOK
  <1>5. Bound(R, m, I, b) = [R EXCEPT !.keys = @ \cup {m}, !.m2r = m2r, !.r2m = r2m]
    BY DEF Bound
  <1> HIDE DEF m2r, r2m
  <1>6. RelationshipOK([R EXCEPT !.keys = @ \cup {m}, !.m2r = m2r, !.r2m = r2m])
    BY <1>1, <1>3, <1>4, MapsReplacedOK
  <1> QED
    BY <1>5, <1>6

\* Placing a group keeps every CPU in one hand.
LEMMA BoundSharesNoCPU ==
    ASSUME NEW m, NEW I, NEW b, Placing(m, I, b), SharesNoCPU(rc.work)
    PROVE  SharesNoCPU(Bound(rc.work, m, I, b))
  <1> DEFINE B == Bound(rc.work, m, I, b)
             A == rc.work.m2r[m]
  <1>1. /\ B.m2r[m] = A \cup Entries(I, b)
        /\ \A n \in Machine \ {m} : B.m2r[n] = rc.work.m2r[n]
    BY BoundFields
  <1>2. m \in Machine /\ \A k \in I : k \in Nat
    BY ItemIsResource DEF Placing, RequestTypeOK
  <1>3. ASSUME NEW e \in A, NEW k \in I
        PROVE  e.binding.cpus \cap b[k].cpus = {}
    <2>1. e.binding.cpus \subseteq CPUsOf(A \cup Entries(UpTo(I, k), b))
      BY EntryCPUs
    <2> QED
      BY <2>1, PlacedBinding
  <1>4. ASSUME NEW j \in I, NEW k \in I, j < k
        PROVE  b[j].cpus \cap b[k].cpus = {}
    <2>1. [ref |-> rc.refs[Item(j)], binding |-> b[j]] \in Entries(UpTo(I, k), b)
      BY <1>4 DEF Entries, UpTo
    <2>2. b[j].cpus \subseteq CPUsOf(A \cup Entries(UpTo(I, k), b))
      BY <2>1, EntryCPUs
    <2> QED
      BY <2>2, PlacedBinding
  <1>5. \A k \in I : b[k].cpus \subseteq AvailableCPUs(m)
    BY PlacedBinding
  <1>6. ASSUME NEW e \in B.m2r[m], NEW f \in B.m2r[m], e # f
        PROVE  e.binding.cpus \cap f.binding.cpus = {}
    <2>1. CASE e \in A /\ f \in A
      BY <1>2, <1>6, <2>1 DEF SharesNoCPU
    <2>2. CASE e \in A /\ f \notin A
      BY <1>1, <1>3, <2>2 DEF Entries
    <2>3. CASE e \notin A /\ f \in A
      BY <1>1, <1>3, <2>3 DEF Entries
    <2>4. CASE e \notin A /\ f \notin A
      <3>1. PICK j \in I : e = [ref |-> rc.refs[Item(j)], binding |-> b[j]]
        BY <1>1, <2>4 DEF Entries
      <3>2. PICK k \in I : f = [ref |-> rc.refs[Item(k)], binding |-> b[k]]
        BY <1>1, <2>4 DEF Entries
      <3>3. j \in Nat /\ k \in Nat /\ j # k
        BY <1>2, <1>6, <3>1, <3>2
      <3>4. b[j].cpus \cap b[k].cpus = {} \/ b[k].cpus \cap b[j].cpus = {}
        BY <1>4, <3>3
      <3> QED
        BY <3>1, <3>2, <3>4
    <2> QED
      BY <2>1, <2>2, <2>3, <2>4
  <1>7. \A e \in B.m2r[m] : e.binding.cpus \subseteq AvailableCPUs(m)
    BY <1>1, <1>2, <1>5 DEF Entries, SharesNoCPU
  <1> HIDE DEF B
  <1>8. SharesNoCPU(B)
    BY <1>1, <1>6, <1>7 DEF SharesNoCPU
  <1> QED
    BY <1>8 DEF B

\* A device of an entry is not given to an item placed after it.
LEMMA DeviceTaken ==
    ASSUME NEW m, NEW A, NEW e \in A, NEW d, NEW S,
           d \in [S -> RestDevices(m, A)],
           NEW n \in DOMAIN e.binding.disks, NEW p \in DOMAIN d
    PROVE  e.binding.disks[n] # d[p]
  <1>1. <<e, n>> \in DiskClaims(A)
    BY DEF DiskClaims
  <1>2. DeviceOf(<<e, n>>) = e.binding.disks[n]
    BY DEF DeviceOf
  <1>3. d[p] \in RestDevices(m, A)
    OBVIOUS
  <1> QED
    BY <1>1, <1>2, <1>3, EntryDevices

\* Placing a group keeps every device in one hand.
LEMMA BoundSharesNoDevice ==
    ASSUME NEW m, NEW I, NEW b, Placing(m, I, b), SharesNoDevice(rc.work)
    PROVE  SharesNoDevice(Bound(rc.work, m, I, b))
  <1> DEFINE B == Bound(rc.work, m, I, b)
             A == rc.work.m2r[m]
             Apart(e, f) == \A n \in DOMAIN e.binding.disks, p \in DOMAIN f.binding.disks :
                                e.binding.disks[n] # f.binding.disks[p]
             New(k) == [ref |-> rc.refs[Item(k)], binding |-> b[k]]
  <1>1. /\ B.m2r[m] = A \cup Entries(I, b)
        /\ \A n \in Machine \ {m} : B.m2r[n] = rc.work.m2r[n]
    BY BoundFields
  <1>2. m \in Machine /\ \A k \in I : k \in Nat
    BY ItemIsResource DEF Placing, RequestTypeOK
  <1>3. ASSUME NEW k \in I, NEW e \in A \cup Entries(UpTo(I, k), b)
        PROVE  Apart(e, New(k))
    <2>1. b[k].disks \in [DOMAIN ItemSpec[Item(k)].disks ->
                            RestDevices(m, A \cup Entries(UpTo(I, k), b))]
      BY PlacedBinding
    <2> QED
      BY <2>1, DeviceTaken
  <1>4. ASSUME NEW j \in I, NEW k \in I, j < k
        PROVE  Apart(New(j), New(k))
    <2>1. New(j) \in Entries(UpTo(I, k), b)
      BY <1>4 DEF Entries, UpTo
    <2> QED
      BY <1>3, <2>1
  <1>5. ASSUME NEW e \in B.m2r[m], NEW f \in B.m2r[m], e # f
        PROVE  Apart(e, f)
    <2>1. CASE e \in A /\ f \in A
      BY <1>2, <1>5, <2>1 DEF SharesNoDevice
    <2>2. CASE e \in A /\ f \notin A
      <3>1. PICK k \in I : f = New(k)
        BY <1>1, <2>2 DEF Entries
      <3> QED
        BY <1>3, <2>2, <3>1
    <2>3. CASE e \notin A /\ f \in A
      <3>1. PICK k \in I : e = New(k)
        BY <1>1, <2>3 DEF Entries
      <3>2. Apart(f, New(k))
        BY <1>3, <2>3
      <3> QED
        BY <3>1, <3>2
    <2>4. CASE e \notin A /\ f \notin A
      <3>1. PICK j \in I : e = New(j)
        BY <1>1, <2>4 DEF Entries
      <3>2. PICK k \in I : f = New(k)
        BY <1>1, <2>4 DEF Entries
      <3>3. j \in Nat /\ k \in Nat /\ j # k
        BY <1>2, <1>5, <3>1, <3>2
      <3>4. Apart(New(j), New(k)) \/ Apart(New(k), New(j))
        BY <1>4, <3>3
      <3> QED
        BY <3>1, <3>2, <3>4
    <2> QED
      BY <2>1, <2>2, <2>3, <2>4
  <1> HIDE DEF B
  <1>6. SharesNoDevice(B)
    BY <1>1, <1>5 DEF SharesNoDevice
  <1> QED
    BY <1>6 DEF B

(***************************************************************************)
(* The scheduler's own state.                                              *)
(***************************************************************************)

\* What a controller sees is as well formed as what is stored.
LEMMA SeenOK ==
    ASSUME ControlPlaneTypeOK
    PROVE  /\ SeenMachines \in [Machine -> MachineObject]
           /\ SeenRequests \in [Request -> RequestObject]
           /\ SeenResources \in [Resource -> ResourceObject]
           /\ RelationshipOK(SeenRel)
  BY DEF ControlPlaneTypeOK, SeenMachines, SeenRequests, SeenResources, SeenRel

SchedulerOK == RequestTypeOK /\ WorkingCopyOK

\* A call of Reconcile that ends leaves the scheduler's state in order.
LEMMA SchedulerIdle ==
    ASSUME rc' = RIdle
    PROVE  SchedulerOK'
  <1>1. AbsentRequest(0) \in RequestObject
    BY DEF AbsentRequest, RequestObject
  <1>2. RequestTypeOK'
    BY <1>1, EmptyOK DEF RequestTypeOK, RIdle
  <1>3. WorkingCopyOK'
    BY DEF WorkingCopyOK, RIdle
  <1> QED
    BY <1>2, <1>3 DEF SchedulerOK

\* So does a step that the scheduler takes no part in.
LEMMA SchedulerSame ==
    ASSUME SchedulerOK, rc' = rc
    PROVE  SchedulerOK'
  <1>1. RequestTypeOK'
    BY DEF SchedulerOK, RequestTypeOK
  <1>2. WorkingCopyOK'
    BY DEF SchedulerOK, WorkingCopyOK, Self
  <1> QED
    BY <1>1, <1>2 DEF SchedulerOK

\* The references that reconcilePending collects are the request's own.
LEMMA SchedulerNotRequired ==
    ASSUME ControlPlaneTypeOK, NEW r \in Request, RequestNotRequired(r)
    PROVE  SchedulerOK'
  <1> DEFINE o == SeenRequests[r]
             refs == [x \in listResources(r) |-> ResRef(x, SeenResources[x])]
  <1>1. /\ rc' = [RIdle EXCEPT !.pc = "relation", !.r = r, !.obj = o, !.refs = refs]
        /\ PendingWithOwnResources(r) /\ AllCreated(r)
    BY DEF RequestNotRequired
  <1>2. o \in RequestObject
    BY SeenOK
  <1>3. ASSUME NEW x \in listResources(r)
        PROVE  refs[x] \in ResourceRef /\ refs[x].owner = [name |-> r, gen |-> o.gen]
    <2>1. x \in Resource /\ SeenResources[x] \in ResourceObject
      BY SeenOK DEF listResources
    <2>2. SeenResources[x].owner = [name |-> r, gen |-> o.gen]
      BY <1>1 DEF PendingWithOwnResources
    <2>3. SeenResources[x].inc \in Nat
      BY <2>1 DEF ResourceObject
    <2>4. [name |-> r, gen |-> o.gen] \in RequestRef
      BY <1>2 DEF RequestObject, RequestRef
    <2> QED
      BY <2>1, <2>2, <2>3, <2>4 DEF ResourceRef
  <1>4. ItemNames(r) \subseteq DOMAIN refs
    BY <1>1 DEF AllCreated
  <1>5. DOMAIN refs = listResources(r)
    OBVIOUS
  <1> HIDE DEF o, refs
  <1>6. rc' = [pc |-> "relation", r |-> r, obj |-> o, refs |-> refs,
               base |-> EmptyRelationship, work |-> EmptyRelationship,
               order |-> <<>>, named |-> {}, single |-> {}, toLock |-> {}]
    BY <1>1 DEF RIdle
  <1>7. RequestTypeOK'
    <2>1. \A x \in DOMAIN refs : refs[x] \in ResourceRef
      BY <1>3, <1>5
    <2> QED
      BY <1>2, <1>6, <2>1, EmptyOK DEF RequestTypeOK
  <1>8. WorkingCopyOK'
    BY <1>3, <1>4, <1>5, <1>6 DEF WorkingCopyOK, Self
  <1> QED
    BY <1>7, <1>8 DEF SchedulerOK

\* The working copy starts as the Relationship that was read.
LEMMA SchedulerReadsRelationship ==
    ASSUME ControlPlaneTypeOK, SchedulerOK, RequestReadRelationship
    PROVE  SchedulerOK'
  <1>1. /\ rc.pc = "relation"
        /\ rc' = [rc EXCEPT !.pc = "machines", !.base = SeenRel, !.work = SeenRel]
    BY DEF RequestReadRelationship
  <1>2. RelationshipOK(SeenRel)
    BY SeenOK
  <1>3. RequestTypeOK'
    BY <1>1, <1>2 DEF SchedulerOK, RequestTypeOK
  <1>4. /\ rc'.pc = "machines" /\ rc'.toLock = rc.toLock /\ rc'.work = rc'.base
        /\ rc'.refs = rc.refs /\ rc'.r = rc.r /\ rc'.obj = rc.obj
    BY <1>1 DEF SchedulerOK, RequestTypeOK
  <1>5. WorkingCopyOK'
    BY <1>1, <1>4 DEF SchedulerOK, WorkingCopyOK, Self
  <1> QED
    BY <1>3, <1>5 DEF SchedulerOK

\* The machines that tryRequest goes through are not locked.
LEMMA SchedulerListsMachines ==
    ASSUME ControlPlaneTypeOK, SchedulerOK, RequestListMachines
    PROVE  SchedulerOK'
  <1>1. rc.pc = "machines"
    BY DEF RequestListMachines
  <1>2. PICK s \in sortMachines(rc.r, selectNonLockMachines(rc.base), rc.base) :
          rc' = [rc EXCEPT !.pc = "bind", !.order = s, !.named = Logical(rc.r),
                           !.single = GroupItems(rc.r, None)]
    BY DEF RequestListMachines
  <1>3. \A i \in DOMAIN s : s[i] \in selectNonLockMachines(rc.base)
    BY DEF sortMachines
  <1>4. \A i \in DOMAIN s : s[i] \in Machine /\ rc.base.locks[s[i]] = None
    BY <1>3 DEF selectNonLockMachines, getMachines
  <1>5. rc.r \in Request
    BY <1>1 DEF SchedulerOK, RequestTypeOK
  <1>6. GroupItems(rc.r, None) \subseteq DOMAIN Items[rc.r]
    BY DEF GroupItems
  <1>7. GroupItems(rc.r, None) \subseteq Nat
    BY <1>5, <1>6, ItemIsResource
  <1>8. RequestTypeOK'
    BY <1>1, <1>2, <1>4, <1>7 DEF SchedulerOK, RequestTypeOK
  <1>9. /\ rc'.pc = "bind" /\ rc'.toLock = rc.toLock /\ rc'.work = rc.work
        /\ rc'.base = rc.base /\ rc'.refs = rc.refs /\ rc'.r = rc.r /\ rc'.obj = rc.obj
        /\ rc'.order = s /\ rc'.single = GroupItems(rc.r, None)
    BY <1>2 DEF SchedulerOK, RequestTypeOK
  <1>10. rc.toLock = {} /\ rc.work = rc.base
    BY <1>1 DEF SchedulerOK, WorkingCopyOK
  <1>11. WorkingCopyOK'
    BY <1>1, <1>4, <1>6, <1>9, <1>10 DEF SchedulerOK, WorkingCopyOK, Self
  <1> QED
    BY <1>8, <1>11 DEF SchedulerOK

\* Placing a group, or finding no place for it, keeps the working copy a
\* possible next Relationship.
LEMMA SchedulerBindsGroup ==
    ASSUME SchedulerOK, RequestBindGroup
    PROVE  SchedulerOK'
  <1>1. rc.pc = "bind"
    BY DEF RequestBindGroup
  <1>2. PICK g \in NextGroups : PlaceGroup(g[1], g[2]) \/ NoPlace(g[1], g[2])
    BY DEF RequestBindGroup
  <1> DEFINE l == g[1]
             I == g[2]
  <1>3. CASE NoPlace(l, I)
    BY <1>3, SchedulerIdle DEF NoPlace
  <1>4. CASE PlaceGroup(l, I)
    <2>1. PICK i \in DOMAIN rc.order :
            /\ Reached(l, I, i)
            /\ \E b \in Placements(rc.order[i], rc.work.m2r[rc.order[i]], I) :
                 rc' = [rc EXCEPT !.work = Bound(rc.work, rc.order[i], I, b),
                                  !.named = @ \ {l},
                                  !.single = @ \ I,
                                  !.toLock = IF IsExclusive(l) THEN @ \cup {rc.order[i]} ELSE @]
      BY <1>4 DEF PlaceGroup
    <2> DEFINE m == rc.order[i]
    <2>2. PICK b \in Placements(m, rc.work.m2r[m], I) :
            rc' = [rc EXCEPT !.work = Bound(rc.work, m, I, b),
                             !.named = @ \ {l},
                             !.single = @ \ I,
                             !.toLock = IF IsExclusive(l) THEN @ \cup {m} ELSE @]
      BY <2>1
    <2> DEFINE B == Bound(rc.work, m, I, b)
    <2>3. m \in Machine /\ rc.base.locks[m] = None
      BY <1>1 DEF SchedulerOK, RequestTypeOK, WorkingCopyOK
    <2>4. Placing(m, I, b)
      BY <1>1, <2>3, GroupIsItems DEF SchedulerOK, Placing
    <2>5. RelationshipOK(B)
      BY <2>4, BoundOK
    <2>6. /\ B.locks = rc.work.locks
          /\ B.m2r[m] = rc.work.m2r[m] \cup Entries(I, b)
          /\ \A n \in Machine \ {m} : B.m2r[n] = rc.work.m2r[n]
      BY <2>4, BoundFields
    <2>7. \A e \in Entries(I, b) : OwnerOf(e) = Self
      BY <2>4, PlacedEntries
    <2>8. /\ SharesNoCPU(rc.work) => SharesNoCPU(B)
          /\ SharesNoDevice(rc.work) => SharesNoDevice(B)
      BY <2>4, BoundSharesNoCPU, BoundSharesNoDevice
    <2>9. IsExclusive(l) => rc.work.m2r[m] = {}
      BY <2>1 DEF Reached, Candidate, IsExclusive
    <2> HIDE DEF B
    <2>10. rc' = [rc EXCEPT !.work = B, !.named = @ \ {l}, !.single = @ \ I,
                            !.toLock = IF IsExclusive(l) THEN @ \cup {m} ELSE @]
      BY <2>2 DEF B
    <2> HIDE DEF m, l, I
    <2>11. RequestTypeOK'
      BY <1>1, <2>3, <2>5, <2>10 DEF SchedulerOK, RequestTypeOK
    <2>12. /\ rc'.pc = "bind" /\ rc'.work = B
           /\ rc'.base = rc.base /\ rc'.refs = rc.refs /\ rc'.r = rc.r /\ rc'.obj = rc.obj
           /\ rc'.order = rc.order /\ rc'.single = rc.single \ I
           /\ rc'.toLock = IF IsExclusive(l) THEN rc.toLock \cup {m} ELSE rc.toLock
      BY <1>1, <2>10 DEF SchedulerOK, RequestTypeOK
    <2>13. \A n \in rc'.toLock : /\ rc.base.locks[n] = None
                                 /\ \A e \in B.m2r[n] : OwnerOf(e) = Self
      <3> SUFFICES ASSUME NEW n \in rc'.toLock
                   PROVE  /\ rc.base.locks[n] = None
                          /\ \A e \in B.m2r[n] : OwnerOf(e) = Self
        OBVIOUS
      <3>1. n \in Machine
        BY <2>11 DEF RequestTypeOK
      <3>2. CASE n \in rc.toLock
        <4>1. /\ rc.base.locks[n] = None
              /\ \A e \in rc.work.m2r[n] : OwnerOf(e) = Self
          BY <1>1, <3>2 DEF SchedulerOK, WorkingCopyOK
        <4> QED
          BY <2>6, <2>7, <3>1, <4>1
      <3>3. CASE n \notin rc.toLock
        <4>1. n = m /\ IsExclusive(l)
          BY <2>12, <3>3
        <4> QED
          BY <2>3, <2>6, <2>7, <2>9, <4>1
      <3> QED
        BY <3>2, <3>3
    <2>14. \A n \in Machine : rc.base.locks[n] # None => B.m2r[n] = rc.base.m2r[n]
      BY <1>1, <2>3, <2>6 DEF SchedulerOK, WorkingCopyOK
    <2>15. WorkingCopyOK'
      BY <1>1, <2>6, <2>8, <2>12, <2>13, <2>14 DEF SchedulerOK, WorkingCopyOK, Self
    <2> QED
      BY <2>11, <2>15 DEF SchedulerOK
  <1> QED
    BY <1>2, <1>3, <1>4

\* Turning to the release of the locks leaves nothing of a working copy.
LEMMA SchedulerNoResources ==
    ASSUME ControlPlaneTypeOK, NEW r \in Request, RequestNoResources(r)
    PROVE  SchedulerOK'
  <1>1. rc' = [pc |-> "release", r |-> r, obj |-> SeenRequests[r], refs |-> <<>>,
               base |-> EmptyRelationship, work |-> EmptyRelationship,
               order |-> <<>>, named |-> {}, single |-> {}, toLock |-> {}]
    BY DEF RequestNoResources, RIdle
  <1>2. SeenRequests[r] \in RequestObject
    BY SeenOK
  <1>3. RequestTypeOK'
    BY <1>1, <1>2, EmptyOK DEF RequestTypeOK
  <1>4. WorkingCopyOK'
    BY <1>1 DEF WorkingCopyOK
  <1> QED
    BY <1>3, <1>4 DEF SchedulerOK

\* Giving the locks back leaves the scheduler's state in order.
LEMMA SchedulerReleases ==
    ASSUME SchedulerOK, RequestRelease
    PROVE  SchedulerOK'
  <1>1. rc.pc = "release" /\ rc' = [rc EXCEPT !.pc = "finalizer"]
    BY DEF RequestRelease
  <1>2. RequestTypeOK'
    BY <1>1 DEF SchedulerOK, RequestTypeOK
  <1>3. rc'.pc = "finalizer"
    BY <1>1 DEF SchedulerOK, RequestTypeOK
  <1>4. WorkingCopyOK'
    BY <1>3 DEF WorkingCopyOK
  <1> QED
    BY <1>2, <1>4 DEF SchedulerOK

\* Every step of the system keeps the scheduler's state in order.
LEMMA SchedulerStep ==
    ASSUME ControlPlaneTypeOK, SchedulerOK, [Next]_vars
    PROVE  SchedulerOK'
  <1> USE DEF localVars, machineVars
  <1>1. CASE rc' = rc
    BY <1>1, SchedulerSame
  <1>2. CASE rc' = RIdle
    BY <1>2, SchedulerIdle
  <1>3. ASSUME NEW r \in Request, RequestBegin(r)
        PROVE  SchedulerOK'
    <2>1. CASE RequestNotRequired(r)
      BY <2>1, SchedulerNotRequired
    <2>2. CASE RequestNoResources(r)
      BY <2>2, SchedulerNoResources
    <2>3. CASE rc' = rc
      BY <2>3, SchedulerSame
    <2> QED
      BY <1>3, <2>1, <2>2, <2>3
      DEF RequestBegin, RequestAddFinalizer, RequestBeginPending, RequestCreateResource,
          RequestReady, RequestDeleteResource
  <1>4. ASSUME RequestContinue
        PROVE  SchedulerOK'
    <2>1. CASE RequestReadRelationship
      BY <2>1, SchedulerReadsRelationship
    <2>2. CASE RequestListMachines
      BY <2>2, SchedulerListsMachines
    <2>3. CASE RequestBindGroup
      BY <2>3, SchedulerBindsGroup
    <2>4. CASE RequestRelease
      BY <2>4, SchedulerReleases
    <2>5. CASE rc' = RIdle
      BY <2>5, SchedulerIdle
    <2> QED
      BY <1>4, <2>1, <2>2, <2>3, <2>4, <2>5
      DEF RequestContinue, RequestWait, RequestNoExplicitMachine, RequestCommit,
          RequestRemoveFinalizer, RequestConflict
  <1>5. \/ rc' = rc
        \/ rc' = RIdle
        \/ \E r \in Request : RequestBegin(r)
        \/ RequestContinue
    BY DEF Next, vars, RequestStep, RequestOngoing, ResourceStep, ResourceOngoing,
           MachineStep, MachineOngoing, RelationshipStep, Watch, CreateRequest,
           DeleteRequest, DeleteMachine, DeleteNamespacedResource, CollectGarbage,
           Crash, Panic, Restart
  <1> QED
    BY <1>1, <1>2, <1>3, <1>4, <1>5

(***************************************************************************)
(* The writers of the Relationship.  All of them are listed here; the      *)
(* safety theorems look at nothing else.                                   *)
(***************************************************************************)

WriteInitialized == UpdateRelationship(SeenRel, [SeenRel EXCEPT !.init = TRUE])

WriteRegistered ==
    /\ mc.pc = "idle"
    /\ \E m \in Machine :
          /\ SeenMachines[m].fin /\ SeenMachines[m].state = "ready"
          /\ UpdateRelationship(SeenRel, [SeenRel EXCEPT !.keys = @ \cup {m}])

WriteUnregistered ==
    /\ mc.pc = "unregister" /\ mc.m \in Machine
    /\ UpdateRelationship(mc.base, [mc.base EXCEPT !.keys = @ \ {mc.m}, !.m2r[mc.m] = {}])

\* The references of the resources that are seen to be deleted.
SeenDeleted == {ResRef(x, SeenResources[x]) : x \in {y \in Resource : SeenResources[y].del}}

WriteReleased ==
    \E k \in DOMAIN SeenRel.r2m :
        k \in SeenDeleted /\ UpdateRelationship(SeenRel, Released(SeenRel, k))

WriteAccepted == AllPlaced /\ UpdateRelationship(rc.base, Accepted(rc.work))

WriteWithdrawn == rc.pc = "release" /\ UpdateRelationship(SeenRel, Withdrawn(SeenRel))

\* A step leaves the Relationship alone or is one of the six writes that the
\* controllers make: initialising it, entering and taking out a machine,
\* releasing a binding, accepting a request and withdrawing it.
LEMMA Writers ==
    ASSUME TypeOK, [Next]_vars
    PROVE  \/ rel' = rel
           \/ WriteInitialized \/ WriteRegistered \/ WriteUnregistered
           \/ WriteReleased \/ WriteAccepted \/ WriteWithdrawn
  <1> USE DEF storeVars
  <1>1. ASSUME NEW r \in Request, RequestBegin(r)
        PROVE  rel' = rel
    BY <1>1 DEF RequestBegin, RequestAddFinalizer, RequestBeginPending,
                RequestCreateResource, RequestReady, RequestNotRequired,
                RequestDeleteResource, RequestNoResources, UpdateRequest, DeleteResource
  <1>2. ASSUME RequestContinue
        PROVE  rel' = rel \/ WriteAccepted \/ WriteWithdrawn
    BY <1>2 DEF RequestContinue, RequestWait, RequestReadRelationship, RequestListMachines,
                RequestNoExplicitMachine, RequestBindGroup, RequestCommit, RequestRelease,
                RequestRemoveFinalizer, RequestConflict, UpdateRequest,
                WriteAccepted, WriteWithdrawn
  <1>3. ASSUME NEW x \in Resource, ResourceBegin(x)
        PROVE  rel' = rel \/ WriteReleased
    BY <1>3 DEF ResourceBegin, ResourceAddFinalizer, ResourceBeginPending, ResourcePending,
                ResourceRelease, ResourceSkipRelease, UpdateResource, WriteReleased, SeenDeleted
  <1>4. ASSUME ResourceContinue
        PROVE  rel' = rel
    BY <1>4 DEF ResourceContinue, ResourceRemoveFinalizer, ResourceConflict, UpdateResource
  <1>5. ASSUME NEW m \in Machine, MachineBegin(m)
        PROVE  rel' = rel \/ WriteRegistered
    <2>1. CASE MachineRegister(m)
      BY <2>1 DEF MachineRegister, Reconciling, WriteRegistered
    <2> QED
      BY <1>5, <2>1 DEF MachineBegin, MachineAddFinalizer, MachineBeginShutdown,
                        MachineBeginStarting, MachineTryLock, MachineCreateUploadDaemon,
                        MachineShutdown, UpdateMachine
  <1>6. ASSUME MachineContinue
        PROVE  rel' = rel \/ WriteUnregistered
    <2>1. mc.pc # "idle" => mc.m \in Machine
      BY DEF TypeOK, MachineTypeOK
    <2> QED
      BY <1>6, <2>1
      DEF MachineContinue, MachineReady, MachineSetUploadPort, MachineUnlock,
          MachineDeleteUploadDaemon, MachineUnregister, MachineRemoveFinalizer,
          MachineConflict, UpdateMachine, WriteUnregistered
  <1>7. \/ rel' = rel
        \/ WriteInitialized
        \/ \E r \in Request : RequestBegin(r)
        \/ RequestContinue
        \/ \E x \in Resource : ResourceBegin(x)
        \/ ResourceContinue
        \/ \E m \in Machine : MachineBegin(m)
        \/ MachineContinue
    BY DEF Next, vars, RequestStep, RequestOngoing, ResourceStep, ResourceOngoing,
           MachineStep, MachineOngoing, RelationshipStep, RelationshipReconcile, Watch,
           WatchEvent, CreateRequest, DeleteRequest, DeleteMachine,
           DeleteNamespacedResource, CollectGarbage, DeleteResource,
           Crash, Panic, Restart, WriteInitialized
  <1> QED
    BY <1>1, <1>2, <1>3, <1>4, <1>5, <1>6, <1>7

\* The request that the scheduler works for has a reference.
LEMMA SelfIsReference ==
    ASSUME RequestTypeOK, rc.pc # "idle"
    PROVE  Self \in RequestRef
  BY DEF RequestTypeOK, RequestObject, Self, RequestRef

\* What the scheduler writes is its working copy with its locks added.
LEMMA AcceptedFields ==
    ASSUME SchedulerOK, AllPlaced
    PROVE  /\ RelationshipOK(Accepted(rc.work))
           /\ Accepted(rc.work).m2r = rc.work.m2r
           /\ \A m \in Machine :
                 Accepted(rc.work).locks[m] = IF m \in rc.toLock THEN Self ELSE rc.work.locks[m]
  <1>1. Self \in RequestRef /\ RelationshipOK(rc.work)
    BY SelfIsReference DEF SchedulerOK, RequestTypeOK, AllPlaced
  <1> QED
    BY <1>1 DEF RelationshipOK, Accepted

\* Withdrawing a request changes no entry and no lock of another request.
LEMMA WithdrawnFields ==
    ASSUME NEW R, RelationshipOK(R)
    PROVE  /\ RelationshipOK(Withdrawn(R))
           /\ Withdrawn(R).m2r = R.m2r
           /\ \A m \in Machine :
                 Withdrawn(R).locks[m] = IF R.locks[m] = Self THEN None ELSE R.locks[m]
  BY DEF RelationshipOK, Withdrawn

\* The stored Relationship stays well formed.
LEMMA RelationshipStaysOK ==
    ASSUME TypeOK, WorkingCopyOK, [Next]_vars
    PROVE  RelationshipOK(rel')
  <1>1. /\ RelationshipOK(rel) /\ RelationshipOK(SeenRel)
        /\ RelationshipOK(mc.base) /\ RelationshipOK(rc.base)
        /\ SchedulerOK
    BY SeenOK DEF TypeOK, ControlPlaneTypeOK, MachineTypeOK, RequestTypeOK, SchedulerOK
  <1>2. CASE rel' = rel
    BY <1>1, <1>2
  <1>3. CASE WriteInitialized
    BY <1>1, <1>3, InitializedOK, UpdateOK DEF WriteInitialized
  <1>4. CASE WriteRegistered
    BY <1>1, <1>4, RegisteredOK, UpdateOK DEF WriteRegistered
  <1>5. CASE WriteUnregistered
    BY <1>1, <1>5, UnregisteredOK, UpdateOK DEF WriteUnregistered
  <1>6. CASE WriteReleased
    BY <1>1, <1>6, ReleasedOK, UpdateOK DEF WriteReleased
  <1>7. CASE WriteAccepted
    BY <1>1, <1>7, AcceptedFields, UpdateOK DEF WriteAccepted
  <1>8. CASE WriteWithdrawn
    BY <1>1, <1>8, WithdrawnFields, UpdateOK DEF WriteWithdrawn
  <1> QED
    BY <1>2, <1>3, <1>4, <1>5, <1>6, <1>7, <1>8, Writers

(***************************************************************************)
(* Types.                                                                  *)
(***************************************************************************)

\* Objects without a name in use are objects.
LEMMA AbsentObjects ==
    /\ AbsentMachine \in MachineObject
    /\ \A n \in Nat : AbsentRequest(n) \in RequestObject
    /\ \A n \in Nat : AbsentResource(n) \in ResourceObject
  BY DEF AbsentMachine, AbsentRequest, AbsentResource,
         MachineObject, RequestObject, ResourceObject

\* Setting a field keeps an object an object.
LEMMA ChangedMachine ==
    ASSUME NEW o \in MachineObject
    PROVE  /\ [o EXCEPT !.fin = TRUE] \in MachineObject
           /\ [o EXCEPT !.del = TRUE] \in MachineObject
           /\ [o EXCEPT !.upload = TRUE] \in MachineObject
           /\ [o EXCEPT !.state = "starting"] \in MachineObject
           /\ [o EXCEPT !.state = "ready"] \in MachineObject
           /\ [o EXCEPT !.state = "shutdown"] \in MachineObject
  BY DEF MachineObject

\* Setting a field keeps a request object a request object.
LEMMA ChangedRequest ==
    ASSUME NEW o \in RequestObject
    PROVE  /\ [o EXCEPT !.fin = TRUE] \in RequestObject
           /\ [o EXCEPT !.del = TRUE] \in RequestObject
           /\ [o EXCEPT !.state = ""] \in RequestObject
           /\ [o EXCEPT !.state = "pending"] \in RequestObject
           /\ [o EXCEPT !.state = "ready"] \in RequestObject
  BY DEF RequestObject

\* Setting a field keeps a resource object a resource object.
LEMMA ChangedResource ==
    ASSUME NEW o \in ResourceObject
    PROVE  /\ [o EXCEPT !.fin = TRUE] \in ResourceObject
           /\ [o EXCEPT !.del = TRUE] \in ResourceObject
           /\ [o EXCEPT !.state = "pending"] \in ResourceObject
           /\ [o EXCEPT !.state = "uninitialized"] \in ResourceObject
           /\ \A q \in RequestRef : [o EXCEPT !.state = "", !.owner = q] \in ResourceObject
  BY DEF ResourceObject

\* Every step keeps the machine objects well formed.
LEMMA MachinesStayOK ==
    ASSUME TypeOK, [Next]_vars
    PROVE  machines' \in [Machine -> MachineObject]
  <1>1. machines \in [Machine -> MachineObject] /\ SeenMachines \in [Machine -> MachineObject]
    BY SeenOK DEF TypeOK, ControlPlaneTypeOK
  <1>2. mc.obj \in MachineObject /\ (mc.pc # "idle" => mc.m \in Machine)
    BY DEF TypeOK, MachineTypeOK
  <1>3. ASSUME NEW m \in Machine, MachineBegin(m)
        PROVE  machines' \in [Machine -> MachineObject]
    <2>1. SeenMachines[m] \in MachineObject
      BY <1>1
    <2> QED
      BY <1>1, <1>3, <2>1, ChangedMachine
      DEF MachineBegin, MachineAddFinalizer, MachineBeginShutdown, MachineBeginStarting,
          MachineTryLock, MachineCreateUploadDaemon, MachineRegister, MachineShutdown,
          UpdateMachine, UpdateRelationship, storeVars
  <1>4. ASSUME MachineContinue
        PROVE  machines' \in [Machine -> MachineObject]
    BY <1>1, <1>2, <1>4, AbsentObjects, ChangedMachine
    DEF MachineContinue, MachineReady, MachineSetUploadPort, MachineUnlock,
        MachineDeleteUploadDaemon, MachineUnregister, MachineRemoveFinalizer,
        MachineConflict, UpdateMachine, UpdateRelationship, storeVars
  <1>5. ASSUME NEW m \in Machine, DeleteMachine(m)
        PROVE  machines' \in [Machine -> MachineObject]
    <2>1. machines[m] \in MachineObject
      BY <1>1
    <2> QED
      BY <1>1, <1>5, <2>1, AbsentObjects, ChangedMachine DEF DeleteMachine
  <1>6. \/ machines' = machines
        \/ \E m \in Machine : MachineBegin(m)
        \/ MachineContinue
        \/ \E m \in Machine : DeleteMachine(m)
    <2>1. ASSUME NEW r \in Request, RequestBegin(r)
          PROVE  machines' = machines
      BY <2>1 DEF RequestBegin, RequestAddFinalizer, RequestBeginPending,
                  RequestCreateResource, RequestReady, RequestNotRequired, storeVars,
                  RequestDeleteResource, RequestNoResources, UpdateRequest, DeleteResource
    <2>2. ASSUME RequestContinue
          PROVE  machines' = machines
      BY <2>2 DEF RequestContinue, RequestWait, RequestReadRelationship, RequestListMachines,
                  RequestNoExplicitMachine, RequestBindGroup, RequestCommit, RequestRelease,
                  RequestRemoveFinalizer, RequestConflict, UpdateRequest,
                  UpdateRelationship, storeVars
    <2>3. ASSUME NEW x \in Resource, ResourceBegin(x)
          PROVE  machines' = machines
      BY <2>3 DEF ResourceBegin, ResourceAddFinalizer, ResourceBeginPending, storeVars,
                  ResourcePending, ResourceRelease, ResourceSkipRelease, UpdateResource,
                  UpdateRelationship
    <2>4. ASSUME ResourceContinue
          PROVE  machines' = machines
      BY <2>4 DEF ResourceContinue, ResourceRemoveFinalizer, ResourceConflict,
                  UpdateResource, storeVars
    <2> QED
      BY <2>1, <2>2, <2>3, <2>4
      DEF Next, vars, storeVars, RequestStep, RequestOngoing, ResourceStep, ResourceOngoing,
          MachineStep, MachineOngoing, RelationshipStep, RelationshipReconcile, Watch,
          WatchEvent, CreateRequest, DeleteRequest, UpdateRelationship,
          DeleteNamespacedResource, CollectGarbage, DeleteResource, Crash, Panic, Restart
  <1> QED
    BY <1>1, <1>3, <1>4, <1>5, <1>6

\* Every step keeps the request objects well formed.
LEMMA RequestsStayOK ==
    ASSUME TypeOK, [Next]_vars
    PROVE  requests' \in [Request -> RequestObject]
  <1>1. requests \in [Request -> RequestObject] /\ SeenRequests \in [Request -> RequestObject]
    BY SeenOK DEF TypeOK, ControlPlaneTypeOK
  <1>2. rc.obj \in RequestObject /\ (rc.pc # "idle" => rc.r \in Request)
    BY DEF TypeOK, RequestTypeOK
  <1>3. ASSUME NEW r \in Request, RequestBegin(r)
        PROVE  requests' \in [Request -> RequestObject]
    <2>1. SeenRequests[r] \in RequestObject
      BY <1>1
    <2> QED
      BY <1>1, <1>3, <2>1, ChangedRequest
      DEF RequestBegin, RequestAddFinalizer, RequestBeginPending, RequestCreateResource,
          RequestReady, RequestNotRequired, RequestDeleteResource, RequestNoResources,
          UpdateRequest, DeleteResource, storeVars
  <1>4. ASSUME RequestContinue
        PROVE  requests' \in [Request -> RequestObject]
    <2>1. rc.obj.gen \in Nat
      BY <1>2 DEF RequestObject
    <2>2. AbsentRequest(rc.obj.gen) \in RequestObject
      BY <2>1, AbsentObjects
    <2> QED
      BY <1>1, <1>2, <1>4, <2>2
      DEF RequestContinue, RequestWait, RequestReadRelationship, RequestListMachines,
          RequestNoExplicitMachine, RequestBindGroup, RequestCommit, RequestRelease,
          RequestRemoveFinalizer, RequestConflict, UpdateRequest, UpdateRelationship, storeVars
  <1>5. ASSUME NEW r \in Request, CreateRequest(r) \/ DeleteRequest(r)
        PROVE  requests' \in [Request -> RequestObject]
    <2>1. requests[r] \in RequestObject /\ requests[r].gen \in Nat
      BY <1>1 DEF RequestObject
    <2>2. /\ AbsentRequest(requests[r].gen) \in RequestObject
          /\ AbsentRequest(requests[r].gen + 1) \in RequestObject
      BY <2>1, AbsentObjects
    <2> QED
      BY <1>1, <1>5, <2>1, <2>2, ChangedRequest DEF CreateRequest, DeleteRequest
  <1>6. \/ requests' = requests
        \/ \E r \in Request : RequestBegin(r) \/ CreateRequest(r) \/ DeleteRequest(r)
        \/ RequestContinue
    <2>1. ASSUME NEW x \in Resource, ResourceBegin(x)
          PROVE  requests' = requests
      BY <2>1 DEF ResourceBegin, ResourceAddFinalizer, ResourceBeginPending, storeVars,
                  ResourcePending, ResourceRelease, ResourceSkipRelease, UpdateResource,
                  UpdateRelationship
    <2>2. ASSUME ResourceContinue
          PROVE  requests' = requests
      BY <2>2 DEF ResourceContinue, ResourceRemoveFinalizer, ResourceConflict,
                  UpdateResource, storeVars
    <2>3. ASSUME NEW m \in Machine, MachineBegin(m)
          PROVE  requests' = requests
      BY <2>3 DEF MachineBegin, MachineAddFinalizer, MachineBeginShutdown, storeVars,
                  MachineBeginStarting, MachineTryLock, MachineCreateUploadDaemon,
                  MachineRegister, MachineShutdown, UpdateMachine, UpdateRelationship
    <2>4. ASSUME MachineContinue
          PROVE  requests' = requests
      BY <2>4 DEF MachineContinue, MachineReady, MachineSetUploadPort, MachineUnlock,
                  MachineDeleteUploadDaemon, MachineUnregister, MachineRemoveFinalizer,
                  MachineConflict, UpdateMachine, UpdateRelationship, storeVars
    <2> QED
      BY <2>1, <2>2, <2>3, <2>4
      DEF Next, vars, storeVars, RequestStep, RequestOngoing, ResourceStep, ResourceOngoing,
          MachineStep, MachineOngoing, RelationshipStep, RelationshipReconcile, Watch,
          WatchEvent, DeleteMachine, UpdateRelationship,
          DeleteNamespacedResource, CollectGarbage, DeleteResource, Crash, Panic, Restart
  <1> QED
    BY <1>1, <1>3, <1>4, <1>5, <1>6

\* Every step keeps the resource objects well formed.
LEMMA ResourcesStayOK ==
    ASSUME TypeOK, [Next]_vars
    PROVE  resources' \in [Resource -> ResourceObject]
  <1>1. /\ resources \in [Resource -> ResourceObject]
        /\ SeenResources \in [Resource -> ResourceObject]
        /\ SeenRequests \in [Request -> RequestObject]
    BY SeenOK DEF TypeOK, ControlPlaneTypeOK
  <1>2. tc.obj \in ResourceObject /\ (tc.pc # "idle" => tc.x \in Resource)
    BY DEF TypeOK, ResourceTypeOK
  <1>3. ASSUME NEW x \in Resource, DeleteResource(x)
        PROVE  resources' \in [Resource -> ResourceObject]
    <2>1. resources[x] \in ResourceObject /\ resources[x].inc \in Nat
      BY <1>1 DEF ResourceObject
    <2>2. DeletedResource(resources[x]) \in ResourceObject
      BY <2>1, AbsentObjects, ChangedResource DEF DeletedResource
    <2> QED
      BY <1>1, <1>3, <2>2 DEF DeleteResource
  <1>4. ASSUME NEW r \in Request, NEW x \in Resource, RequestCreateResource(r, x)
        PROVE  resources' \in [Resource -> ResourceObject]
    <2>1. resources[x].inc \in Nat /\ SeenRequests[r].gen \in Nat
      BY <1>1 DEF ResourceObject, RequestObject
    <2>2. AbsentResource(resources[x].inc + 1) \in ResourceObject
      BY <2>1, AbsentObjects
    <2>3. [name |-> r, gen |-> SeenRequests[r].gen] \in RequestRef
      BY <2>1 DEF RequestRef
    <2> QED
      BY <1>1, <1>4, <2>2, <2>3, ChangedResource DEF RequestCreateResource
  <1>5. ASSUME NEW x \in Resource, ResourceBegin(x)
        PROVE  resources' \in [Resource -> ResourceObject]
    <2>1. SeenResources[x] \in ResourceObject
      BY <1>1
    <2> QED
      BY <1>1, <1>5, <2>1, ChangedResource
      DEF ResourceBegin, ResourceAddFinalizer, ResourceBeginPending, ResourcePending,
          ResourceRelease, ResourceSkipRelease, UpdateResource, UpdateRelationship, storeVars
  <1>6. ASSUME ResourceContinue
        PROVE  resources' \in [Resource -> ResourceObject]
    <2>1. tc.obj.inc \in Nat
      BY <1>2 DEF ResourceObject
    <2>2. AbsentResource(tc.obj.inc) \in ResourceObject
      BY <2>1, AbsentObjects
    <2> QED
      BY <1>1, <1>2, <1>6, <2>2
      DEF ResourceContinue, ResourceRemoveFinalizer, ResourceConflict, UpdateResource, storeVars
  <1>7. \/ resources' = resources
        \/ \E x \in Resource : DeleteResource(x) \/ ResourceBegin(x)
        \/ \E r \in Request, x \in Resource : RequestCreateResource(r, x)
        \/ ResourceContinue
    <2>1. ASSUME NEW r \in Request, RequestBegin(r)
          PROVE  \/ resources' = resources
                 \/ \E x \in Resource : DeleteResource(x) \/ RequestCreateResource(r, x)
      BY <2>1 DEF RequestBegin, RequestAddFinalizer, RequestBeginPending, RequestReady,
                  RequestNotRequired, RequestDeleteResource, RequestNoResources,
                  UpdateRequest, storeVars
    <2>2. ASSUME RequestContinue
          PROVE  resources' = resources
      BY <2>2 DEF RequestContinue, RequestWait, RequestReadRelationship, RequestListMachines,
                  RequestNoExplicitMachine, RequestBindGroup, RequestCommit, RequestRelease,
                  RequestRemoveFinalizer, RequestConflict, UpdateRequest,
                  UpdateRelationship, storeVars
    <2>3. ASSUME NEW m \in Machine, MachineBegin(m)
          PROVE  resources' = resources
      BY <2>3 DEF MachineBegin, MachineAddFinalizer, MachineBeginShutdown, storeVars,
                  MachineBeginStarting, MachineTryLock, MachineCreateUploadDaemon,
                  MachineRegister, MachineShutdown, UpdateMachine, UpdateRelationship
    <2>4. ASSUME MachineContinue
          PROVE  resources' = resources
      BY <2>4 DEF MachineContinue, MachineReady, MachineSetUploadPort, MachineUnlock,
                  MachineDeleteUploadDaemon, MachineUnregister, MachineRemoveFinalizer,
                  MachineConflict, UpdateMachine, UpdateRelationship, storeVars
    <2> QED
      BY <2>1, <2>2, <2>3, <2>4
      DEF Next, vars, storeVars, RequestStep, RequestOngoing, ResourceStep, ResourceOngoing,
          MachineStep, MachineOngoing, RelationshipStep, RelationshipReconcile, Watch,
          WatchEvent, CreateRequest, DeleteRequest, DeleteMachine, UpdateRelationship,
          DeleteNamespacedResource, CollectGarbage, Crash, Panic, Restart
  <1> QED
    BY <1>1, <1>3, <1>4, <1>5, <1>6, <1>7

CacheOK(c) ==
    /\ c \in [machines : [Machine -> MachineObject],
              requests : [Request -> RequestObject],
              resources : [Resource -> ResourceObject],
              rel : {c.rel}]
    /\ RelationshipOK(c.rel)

\* Every step, a watch event or a restart too, keeps the caches well formed.
LEMMA CacheStaysOK ==
    ASSUME TypeOK, [Next]_vars
    PROVE  CacheOK(cache')
  <1>1. /\ machines \in [Machine -> MachineObject] /\ requests \in [Request -> RequestObject]
        /\ resources \in [Resource -> ResourceObject] /\ RelationshipOK(rel)
        /\ CacheOK(cache)
    BY DEF TypeOK, ControlPlaneTypeOK, CacheOK
  <1>2. CacheOK(RelistedCache)
    BY <1>1 DEF RelistedCache, Snapshot, CacheOK
  <1>3. ASSUME NEW kind \in Kind, cache' = [cache EXCEPT ![kind] = RelistedCache[kind]]
        PROVE  CacheOK(cache')
    BY <1>1, <1>2, <1>3 DEF CacheOK, Kind
  <1>4. \/ cache' = cache
        \/ cache' = RelistedCache
        \/ \E kind \in Kind : cache' = [cache EXCEPT ![kind] = RelistedCache[kind]]
    <2>1. ASSUME NEW r \in Request, RequestBegin(r)
          PROVE  cache' = cache
      BY <2>1 DEF RequestBegin, RequestAddFinalizer, RequestBeginPending,
                  RequestCreateResource, RequestReady, RequestNotRequired, storeVars,
                  RequestDeleteResource, RequestNoResources, UpdateRequest, DeleteResource
    <2>2. ASSUME RequestContinue
          PROVE  cache' = cache
      BY <2>2 DEF RequestContinue, RequestWait, RequestReadRelationship, RequestListMachines,
                  RequestNoExplicitMachine, RequestBindGroup, RequestCommit, RequestRelease,
                  RequestRemoveFinalizer, RequestConflict, UpdateRequest,
                  UpdateRelationship, storeVars
    <2>3. ASSUME NEW x \in Resource, ResourceBegin(x)
          PROVE  cache' = cache
      BY <2>3 DEF ResourceBegin, ResourceAddFinalizer, ResourceBeginPending, storeVars,
                  ResourcePending, ResourceRelease, ResourceSkipRelease, UpdateResource,
                  UpdateRelationship
    <2>4. ASSUME ResourceContinue
          PROVE  cache' = cache
      BY <2>4 DEF ResourceContinue, ResourceRemoveFinalizer, ResourceConflict,
                  UpdateResource, storeVars
    <2>5. ASSUME NEW m \in Machine, MachineBegin(m)
          PROVE  cache' = cache
      BY <2>5 DEF MachineBegin, MachineAddFinalizer, MachineBeginShutdown, storeVars,
                  MachineBeginStarting, MachineTryLock, MachineCreateUploadDaemon,
                  MachineRegister, MachineShutdown, UpdateMachine, UpdateRelationship
    <2>6. ASSUME MachineContinue
          PROVE  cache' = cache
      BY <2>6 DEF MachineContinue, MachineReady, MachineSetUploadPort, MachineUnlock,
                  MachineDeleteUploadDaemon, MachineUnregister, MachineRemoveFinalizer,
                  MachineConflict, UpdateMachine, UpdateRelationship, storeVars
    <2> QED
      BY <2>1, <2>2, <2>3, <2>4, <2>5, <2>6
      DEF Next, vars, storeVars, RequestStep, RequestOngoing, ResourceStep, ResourceOngoing,
          MachineStep, MachineOngoing, RelationshipStep, RelationshipReconcile, Watch,
          WatchEvent, CreateRequest, DeleteRequest, DeleteMachine, UpdateRelationship,
          DeleteNamespacedResource, CollectGarbage, DeleteResource, Crash, Panic, Restart
  <1> QED
    BY <1>1, <1>2, <1>3, <1>4

\* Every step keeps the resource controller's worker well formed.
LEMMA ResourceWorkerStaysOK ==
    ASSUME TypeOK, [Next]_vars
    PROVE  ResourceTypeOK'
  <1>1. AbsentResource(0) \in ResourceObject
    BY AbsentObjects
  <1>2. CASE tc' = tc
    BY <1>2 DEF TypeOK, ResourceTypeOK
  <1>3. CASE tc' = TIdle
    BY <1>1, <1>3 DEF TIdle, ResourceTypeOK
  <1>4. ASSUME NEW x \in Resource, tc' = [pc |-> "finalizer", x |-> x, obj |-> SeenResources[x]]
        PROVE  ResourceTypeOK'
    <2>1. SeenResources[x] \in ResourceObject
      BY SeenOK DEF TypeOK
    <2> QED
      BY <1>4, <2>1 DEF ResourceTypeOK
  <1>5. \/ tc' = tc
        \/ tc' = TIdle
        \/ \E x \in Resource : tc' = [pc |-> "finalizer", x |-> x, obj |-> SeenResources[x]]
    <2>1. ASSUME NEW x \in Resource, ResourceBegin(x)
          PROVE  tc' = tc \/ tc' = [pc |-> "finalizer", x |-> x, obj |-> SeenResources[x]]
      BY <2>1 DEF ResourceBegin, ResourceAddFinalizer, ResourceBeginPending,
                  ResourcePending, ResourceRelease, ResourceSkipRelease
    <2> QED
      BY <2>1
      DEF Next, vars, localVars, RequestStep, RequestOngoing, ResourceStep, ResourceOngoing,
          MachineStep, MachineOngoing, RelationshipStep, Watch, CreateRequest,
          DeleteRequest, DeleteMachine, DeleteNamespacedResource, CollectGarbage,
          ResourceContinue, ResourceRemoveFinalizer, ResourceConflict, Crash, Panic, Restart
  <1> QED
    BY <1>2, <1>3, <1>4, <1>5

\* Every step keeps the machine controller's worker and the hosts well formed.
LEMMA MachineWorkerStaysOK ==
    ASSUME TypeOK, [Next]_vars
    PROVE  MachineTypeOK'
  <1> USE DEF machineVars
  <1>1. /\ MachineTypeOK
        /\ SeenMachines \in [Machine -> MachineObject]
        /\ RelationshipOK(SeenRel)
    BY SeenOK DEF TypeOK
  <1>2. ASSUME mc' = mc, docker' = docker
        PROVE  MachineTypeOK'
    BY <1>1, <1>2 DEF MachineTypeOK
  <1>3. ASSUME mc' = MIdle, docker' = docker
        PROVE  MachineTypeOK'
    BY <1>1, <1>3, AbsentObjects, EmptyOK DEF MachineTypeOK, MIdle
  <1>4. ASSUME NEW m \in Machine, MachineBegin(m)
        PROVE  MachineTypeOK'
    <2>1. SeenMachines[m] \in MachineObject
      BY <1>1
    <2>2. CASE MachineTryLock(m)
      BY <1>1, <2>1, <2>2, EmptyOK DEF MachineTypeOK, MachineTryLock, MIdle
    <2>3. CASE MachineCreateUploadDaemon(m)
      BY <1>1, <2>1, <2>3, EmptyOK DEF MachineTypeOK, MachineCreateUploadDaemon, MIdle
    <2>4. CASE MachineShutdown(m)
      BY <1>1, <2>1, <2>4 DEF MachineTypeOK, MachineShutdown
    <2> QED
      BY <1>2, <1>4, <2>2, <2>3, <2>4
      DEF MachineBegin, MachineAddFinalizer, MachineBeginShutdown, MachineBeginStarting,
          MachineRegister
  <1>5. ASSUME MachineContinue
        PROVE  MachineTypeOK'
    <2>1. CASE MachineUnlock
      BY <1>1, <2>1 DEF MachineTypeOK, MachineUnlock
    <2>2. CASE MachineDeleteUploadDaemon
      BY <1>1, <2>2 DEF MachineTypeOK, MachineDeleteUploadDaemon
    <2>3. CASE MachineUnregister
      BY <1>1, <2>3, EmptyOK DEF MachineTypeOK, MachineUnregister
    <2> QED
      BY <1>3, <1>5, <2>1, <2>2, <2>3
      DEF MachineContinue, MachineReady, MachineSetUploadPort, MachineRemoveFinalizer,
          MachineConflict
  <1>6. \/ mc' = mc /\ docker' = docker
        \/ mc' = MIdle /\ docker' = docker
        \/ \E m \in Machine : MachineBegin(m)
        \/ MachineContinue
    BY DEF Next, vars, localVars, RequestStep, RequestOngoing, ResourceStep, ResourceOngoing,
           MachineStep, MachineOngoing, RelationshipStep, Watch, CreateRequest,
           DeleteRequest, DeleteMachine, DeleteNamespacedResource, CollectGarbage,
           Crash, Panic, Restart
  <1> QED
    BY <1>2, <1>3, <1>4, <1>5, <1>6

\* The types and the invariant of the working copy hold initially.
LEMMA InitOK ==
    ASSUME Init
    PROVE  TypeOK /\ WorkingCopyOK
  <1>1. machines \in [Machine -> MachineObject]
    BY DEF Init, ControlPlaneInit, AbsentMachine, MachineObject
  <1>2. requests \in [Request -> RequestObject] /\ resources \in [Resource -> ResourceObject]
    BY AbsentObjects DEF Init, ControlPlaneInit
  <1>3. RelationshipOK(rel)
    BY EmptyOK DEF Init, ControlPlaneInit, RelationshipOK, EmptyRelationship
  <1>4. ControlPlaneTypeOK
    BY <1>1, <1>2, <1>3 DEF Init, ControlPlaneInit, ControlPlaneTypeOK
  <1>5. RequestTypeOK
    BY AbsentObjects, EmptyOK DEF Init, RequestInit, RIdle, RequestTypeOK
  <1>6. WorkingCopyOK
    BY DEF Init, RequestInit, RIdle, WorkingCopyOK
  <1>7. ResourceTypeOK
    BY AbsentObjects DEF Init, ResourceInit, TIdle, ResourceTypeOK
  <1>8. MachineTypeOK
    BY AbsentObjects, EmptyOK DEF Init, MachineInit, MIdle, MachineTypeOK
  <1>9. crashes \in 0 .. MaxCrash
    <2>1. MaxCrash \in Nat
      BY NaglfarAssumption
    <2> QED
      BY <2>1 DEF Init
  <1> QED
    BY <1>4, <1>5, <1>6, <1>7, <1>8, <1>9 DEF TypeOK

\* Every step keeps the types and the invariant of the working copy.
LEMMA StepOK ==
    ASSUME TypeOK, WorkingCopyOK, [Next]_vars
    PROVE  TypeOK' /\ WorkingCopyOK'
  <1>1. ControlPlaneTypeOK'
    BY MachinesStayOK, RequestsStayOK, ResourcesStayOK, RelationshipStaysOK, CacheStaysOK
    DEF ControlPlaneTypeOK, CacheOK
  <1>2. RequestTypeOK' /\ WorkingCopyOK'
    BY SchedulerStep DEF SchedulerOK, TypeOK
  <1>3. crashes' \in 0 .. MaxCrash
    <2>1. crashes \in 0 .. MaxCrash /\ MaxCrash \in Nat
      BY NaglfarAssumption DEF TypeOK
    <2>2. crashes' = crashes \/ (crashes < MaxCrash /\ crashes' = crashes + 1)
      BY DEF Next, vars, localVars, RequestStep, RequestOngoing, ResourceStep,
             ResourceOngoing, MachineStep, MachineOngoing, RelationshipStep, Watch,
             CreateRequest, DeleteRequest, DeleteMachine, DeleteNamespacedResource,
             CollectGarbage, Crash, Panic
    <2> QED
      BY <2>1, <2>2
  <1> QED
    BY <1>1, <1>2, <1>3, ResourceWorkerStaysOK, MachineWorkerStaysOK DEF TypeOK

\* Every variable keeps its type and the scheduler's working copy stays a
\* possible next Relationship, in every behaviour of every instance.
THEOREM TypeCorrect == Spec => [](TypeOK /\ WorkingCopyOK)
  <1>1. Init => TypeOK /\ WorkingCopyOK
    BY InitOK
  <1>2. TypeOK /\ WorkingCopyOK /\ [Next]_vars => (TypeOK /\ WorkingCopyOK)'
    BY StepOK
  <1> QED
    BY <1>1, <1>2, PTL DEF Spec

(***************************************************************************)
(* Exclusiveness.                                                          *)
(***************************************************************************)

\* What a write that is not refused leaves in the maps.
LEMMA Stored ==
    ASSUME NEW seen, NEW R, RelationshipOK(R), UpdateRelationship(seen, R)
    PROVE  rel = seen /\ rel'.m2r = R.m2r /\ rel'.locks = R.locks /\ rel'.r2m = R.r2m
  BY DEF UpdateRelationship, RelationshipOK

\* Apart from the scheduler, every writer only takes entries out, and no
\* writer but the scheduler locks a machine.
LEMMA OthersOnlyTake ==
    ASSUME TypeOK, WorkingCopyOK, [Next]_vars, ~WriteAccepted
    PROVE  \A m \in Machine : /\ rel'.m2r[m] \subseteq rel.m2r[m]
                              /\ rel'.locks[m] \in {None, rel.locks[m]}
  <1>1. RelationshipOK(rel) /\ RelationshipOK(SeenRel) /\ RelationshipOK(mc.base)
    BY SeenOK DEF TypeOK, ControlPlaneTypeOK, MachineTypeOK
  <1>2. CASE rel' = rel
    BY <1>2
  <1>3. CASE WriteInitialized
    <2> DEFINE R == [SeenRel EXCEPT !.init = TRUE]
    <2>1. rel = SeenRel /\ rel'.m2r = R.m2r /\ rel'.locks = R.locks
      BY <1>1, <1>3, InitializedOK, Stored DEF WriteInitialized
    <2> QED
      BY <1>1, <2>1 DEF RelationshipOK
  <1>4. CASE WriteRegistered
    <2>1. PICK n \in Machine : UpdateRelationship(SeenRel, [SeenRel EXCEPT !.keys = @ \cup {n}])
      BY <1>4 DEF WriteRegistered
    <2> DEFINE R == [SeenRel EXCEPT !.keys = @ \cup {n}]
    <2>2. rel = SeenRel /\ rel'.m2r = R.m2r /\ rel'.locks = R.locks
      BY <1>1, <2>1, RegisteredOK, Stored
    <2> QED
      BY <1>1, <2>2 DEF RelationshipOK
  <1>5. CASE WriteUnregistered
    <2> DEFINE R == [mc.base EXCEPT !.keys = @ \ {mc.m}, !.m2r[mc.m] = {}]
    <2>1. rel = mc.base /\ rel'.m2r = R.m2r /\ rel'.locks = R.locks
      BY <1>1, <1>5, UnregisteredOK, Stored DEF WriteUnregistered
    <2> QED
      BY <1>1, <1>5, <2>1 DEF RelationshipOK, WriteUnregistered
  <1>6. CASE WriteReleased
    <2>1. PICK k \in DOMAIN SeenRel.r2m : UpdateRelationship(SeenRel, Released(SeenRel, k))
      BY <1>6 DEF WriteReleased
    <2>2. /\ rel = SeenRel /\ rel'.m2r = Released(SeenRel, k).m2r
          /\ rel'.locks = Released(SeenRel, k).locks
      BY <1>1, <2>1, ReleasedOK, Stored
    <2> QED
      BY <1>1, <2>2 DEF Released, RelationshipOK
  <1>7. CASE WriteWithdrawn
    BY <1>1, <1>7, WithdrawnFields, Stored DEF WriteWithdrawn
  <1> QED
    BY <1>2, <1>3, <1>4, <1>5, <1>6, <1>7, Writers

\* The scheduler's write replaces what it read by its working copy.
LEMMA SchedulerWrites ==
    ASSUME TypeOK, WorkingCopyOK, WriteAccepted
    PROVE  /\ rc.pc = "bind"
           /\ rel = rc.base
           /\ rel'.m2r = rc.work.m2r
           /\ \A m \in Machine :
                 rel'.locks[m] = IF m \in rc.toLock THEN Self ELSE rel.locks[m]
  <1>1. SchedulerOK /\ AllPlaced /\ rc.pc = "bind"
    BY DEF TypeOK, SchedulerOK, WriteAccepted, AllPlaced
  <1>2. RelationshipOK(Accepted(rc.work))
    BY <1>1, AcceptedFields
  <1>3. /\ rel = rc.base
        /\ rel'.m2r = Accepted(rc.work).m2r /\ rel'.locks = Accepted(rc.work).locks
    BY <1>2, Stored DEF WriteAccepted
  <1>4. rc.work.locks = rc.base.locks
    BY <1>1 DEF WorkingCopyOK
  <1> QED
    BY <1>1, <1>3, <1>4, AcceptedFields

Safe == TypeOK /\ WorkingCopyOK

\* No step makes two resources share a CPU.
LEMMA CPUStep ==
    ASSUME Safe, CPUsExclusive, [Next]_vars
    PROVE  CPUsExclusive'
  <1>1. CASE WriteAccepted
    <2>1. rc.pc = "bind" /\ rel = rc.base /\ rel'.m2r = rc.work.m2r
      BY <1>1, SchedulerWrites DEF Safe
    <2>2. SharesNoCPU(rc.work)
      BY <2>1 DEF Safe, WorkingCopyOK, CPUsExclusive
    <2> QED
      BY <2>1, <2>2 DEF CPUsExclusive, SharesNoCPU
  <1>2. CASE ~WriteAccepted
    <2>1. \A m \in Machine : rel'.m2r[m] \subseteq rel.m2r[m]
      BY <1>2, OthersOnlyTake DEF Safe
    <2> QED
      BY <2>1 DEF CPUsExclusive, SharesNoCPU
  <1> QED
    BY <1>1, <1>2

\* Every step keeps every device in one hand.
LEMMA DeviceStep ==
    ASSUME Safe, DevicesExclusive, [Next]_vars
    PROVE  DevicesExclusive'
  <1>1. CASE WriteAccepted
    <2>1. rc.pc = "bind" /\ rel = rc.base /\ rel'.m2r = rc.work.m2r
      BY <1>1, SchedulerWrites DEF Safe
    <2>2. SharesNoDevice(rc.work)
      BY <2>1 DEF Safe, WorkingCopyOK, DevicesExclusive
    <2> QED
      BY <2>1, <2>2 DEF DevicesExclusive, SharesNoDevice
  <1>2. CASE ~WriteAccepted
    <2>1. \A m \in Machine : rel'.m2r[m] \subseteq rel.m2r[m]
      BY <1>2, OthersOnlyTake DEF Safe
    <2> QED
      BY <2>1 DEF DevicesExclusive, SharesNoDevice
  <1> QED
    BY <1>1, <1>2

\* Every step keeps a locked machine to the request that locked it, and hands
\* no lock to another request.
LEMMA LockStep ==
    ASSUME Safe, LockExclusive, [Next]_vars
    PROVE  /\ LockExclusive'
           /\ \A m \in Machine : rel.locks[m] # None => rel'.locks[m] \in {None, rel.locks[m]}
  <1>1. CASE WriteAccepted
    <2>1. /\ rc.pc = "bind" /\ rel = rc.base /\ rel'.m2r = rc.work.m2r
          /\ \A m \in Machine :
                rel'.locks[m] = IF m \in rc.toLock THEN Self ELSE rel.locks[m]
      BY <1>1, SchedulerWrites DEF Safe
    <2>2. /\ \A m \in Machine : rel.locks[m] # None => rc.work.m2r[m] = rel.m2r[m]
          /\ \A m \in rc.toLock : /\ rel.locks[m] = None
                                  /\ \A e \in rc.work.m2r[m] : OwnerOf(e) = Self
      BY <2>1 DEF Safe, WorkingCopyOK
    <2>3. \A m \in Machine : rel'.locks[m] # None =>
             \A e \in rel'.m2r[m] : OwnerOf(e) = rel'.locks[m]
      BY <2>1, <2>2 DEF LockExclusive, RespectsLocks
    <2> QED
      BY <2>1, <2>2, <2>3 DEF LockExclusive, RespectsLocks, OwnerOf
  <1>2. CASE ~WriteAccepted
    <2>1. \A m \in Machine : /\ rel'.m2r[m] \subseteq rel.m2r[m]
                             /\ rel'.locks[m] \in {None, rel.locks[m]}
      BY <1>2, OthersOnlyTake DEF Safe
    <2> QED
      BY <2>1 DEF LockExclusive, RespectsLocks, OwnerOf
  <1> QED
    BY <1>1, <1>2

\* Nothing is shared initially: nothing is bound.
LEMMA InitExclusive ==
    ASSUME Init
    PROVE  CPUsExclusive /\ DevicesExclusive /\ LockExclusive
  <1>1. \A m \in Machine : rel.m2r[m] = {}
    BY DEF Init, ControlPlaneInit, EmptyRelationship
  <1> QED
    BY <1>1 DEF CPUsExclusive, SharesNoCPU, DevicesExclusive, SharesNoDevice,
                LockExclusive, RespectsLocks

\* No two resources on a machine ever share a CPU, and none gets a reserved
\* one: for any number of machines and requests, whatever the caches show and
\* wherever the process crashes.
THEOREM CPUsAreExclusive == Spec => []CPUsExclusive
  <1>1. Init => Safe /\ CPUsExclusive
    BY InitOK, InitExclusive DEF Safe
  <1>2. Safe /\ CPUsExclusive /\ [Next]_vars => (Safe /\ CPUsExclusive)'
    BY StepOK, CPUStep DEF Safe
  <1> QED
    BY <1>1, <1>2, PTL DEF Spec

\* No device of a machine is ever bound to two resources.
THEOREM DevicesAreExclusive == Spec => []DevicesExclusive
  <1>1. Init => Safe /\ DevicesExclusive
    BY InitOK, InitExclusive DEF Safe
  <1>2. Safe /\ DevicesExclusive /\ [Next]_vars => (Safe /\ DevicesExclusive)'
    BY StepOK, DeviceStep DEF Safe
  <1> QED
    BY <1>1, <1>2, PTL DEF Spec

\* A machine locked by a request carries resources of that request only.
THEOREM LocksAreExclusive == Spec => []LockExclusive
  <1>1. Init => Safe /\ LockExclusive
    BY InitOK, InitExclusive DEF Safe
  <1>2. Safe /\ LockExclusive /\ [Next]_vars => (Safe /\ LockExclusive)'
    BY StepOK, LockStep DEF Safe
  <1> QED
    BY <1>1, <1>2, PTL DEF Spec

\* A machine lock never passes from one request to another in one step.
THEOREM LocksAreNotStolen == Spec => LockNotStolen
  <1>1. Init => Safe /\ LockExclusive
    BY InitOK, InitExclusive DEF Safe
  <1>2. Safe /\ LockExclusive /\ [Next]_vars => (Safe /\ LockExclusive)'
    BY StepOK, LockStep DEF Safe
  <1>3. Safe /\ LockExclusive /\ [Next]_vars =>
          [\A m \in Machine : rel.locks[m] # None =>
              rel'.locks[m] \in {None, rel.locks[m]}]_rel
    BY LockStep
  <1> QED
    BY <1>1, <1>2, <1>3, PTL DEF Spec, LockNotStolen

----------------------------------------------------------------------------
(* Part 2: memory.                                                          *)

(***************************************************************************)
(* Numbers.                                                                *)
(***************************************************************************)

\* Lemma: a set of natural numbers that is not empty has a least one.
LEMMA Smallest ==
    ASSUME NEW S \in SUBSET Nat, S # {}
    PROVE  Min(S) \in S /\ \A n \in S : Min(S) <= n
  <1>1. PICK m \in S : \A n \in S : <<n, m>> \notin OpToRel(<, Nat)
    BY WFMin, NatLessThanWellFounded, Zenon
  <1>2. ASSUME NEW n \in S PROVE m <= n
    <2>1. <<n, m>> \in Nat \X Nat /\ <<n, m>>[1] = n /\ <<n, m>>[2] = m
      OBVIOUS
    <2>2. n < m => <<n, m>> \in OpToRel(<, Nat)
      BY <2>1 DEF OpToRel
    <2>3. ~(n < m)
      BY <1>1, <2>2, Zenon
    <2> QED BY <2>3
  <1> QED BY <1>2 DEF Min

\* Lemma: what holds of 0, and with a number of the next one, holds of all.
LEMMA AllNumbers ==
    ASSUME NEW S, 0 \in S, \A n \in Nat : n \in S => n + 1 \in S
    PROVE  Nat \subseteq S
  <1> SUFFICES ASSUME Nat \ S # {} PROVE FALSE
    OBVIOUS
  <1>1. Min(Nat \ S) \in Nat \ S /\ \A n \in Nat \ S : Min(Nat \ S) <= n
    BY Smallest
  <1>2. Min(Nat \ S) - 1 \in Nat /\ Min(Nat \ S) - 1 \in S
    BY <1>1
  <1> QED BY <1>1, <1>2

Bytes(S) == \A e \in S : e.binding.memory \in Nat

\* g adds up the memory of every part of S.
AddsUp(g, S) ==
    /\ g \in [SUBSET S -> Nat] /\ g[{}] = 0
    /\ \A T \in SUBSET S : \A e \in T : g[T] = e.binding.memory + g[T \ {e}]
    /\ \A T \in SUBSET S : \A U \in SUBSET T : g[U] <= g[T]

\* Lemma: one more entry.
LEMMA OneMore ==
    ASSUME NEW S, NEW e \in S, Bytes(S), NEW h, AddsUp(h, S \ {e})
    PROVE  \E g : AddsUp(g, S)
  <1> DEFINE m == e.binding.memory
             g == [T \in SUBSET S |-> IF e \in T THEN m + h[T \ {e}] ELSE h[T]]
  <1>1. m \in Nat /\ \A T \in SUBSET S : h[T \ {e}] \in Nat /\ (e \notin T => h[T] \in Nat)
    BY DEF Bytes, AddsUp
  <1>2. \A T \in SUBSET S : g[T] = IF e \in T THEN m + h[T \ {e}] ELSE h[T]
    OBVIOUS
  <1>3. g \in [SUBSET S -> Nat]
    BY <1>1
  <1> HIDE DEF g
  <1>4. g[{}] = 0
    BY <1>2 DEF AddsUp
  <1>5. ASSUME NEW T \in SUBSET S, NEW f \in T
        PROVE  g[T] = f.binding.memory + g[T \ {f}]
    <2>1. CASE f = e
      <3>1. g[T \ {f}] = h[T \ {e}]
        BY <1>2, <2>1
      <3> QED BY <1>2, <1>5, <2>1, <3>1
    <2>2. CASE f # e /\ e \notin T
      <3>1. g[T] = h[T] /\ g[T \ {f}] = h[T \ {f}]
        BY <1>2, <2>2
      <3> QED BY <2>2, <3>1 DEF AddsUp
    <2>3. CASE f # e /\ e \in T
      <3> DEFINE U == T \ {e}
      <3>1. g[T] = m + h[U] /\ g[T \ {f}] = m + h[(T \ {f}) \ {e}]
        BY <1>2, <2>3
      <3>2. (T \ {f}) \ {e} = U \ {f}
        OBVIOUS
      <3>3. h[U] = f.binding.memory + h[U \ {f}]
        BY <2>3 DEF AddsUp
      <3>4. h[U \ {f}] \in Nat /\ f.binding.memory \in Nat
        BY <1>5 DEF AddsUp, Bytes
      <3>5. g[T \ {f}] = m + h[U \ {f}]
        BY <3>1, <3>2
      <3>6. m \in Nat /\ g[T] = m + h[U]
        BY <1>1, <3>1
      <3> HIDE DEF U, m
      <3> QED BY <3>3, <3>4, <3>5, <3>6
    <2> QED BY <2>1, <2>2, <2>3
  <1>6. ASSUME NEW T \in SUBSET S, NEW U \in SUBSET T
        PROVE  g[U] <= g[T]
    <2>1. h[U \ {e}] <= h[T \ {e}] /\ h[U \ {e}] \in Nat /\ h[T \ {e}] \in Nat
      BY DEF AddsUp
    <2>2. e \notin T => U \ {e} = U /\ T \ {e} = T /\ e \notin U
      OBVIOUS
    <2>3. e \notin U => U \ {e} = U
      OBVIOUS
    <2>4. g[U] = IF e \in U THEN m + h[U \ {e}] ELSE h[U \ {e}]
      BY <1>2, <2>3
    <2>5. g[T] = IF e \in T THEN m + h[T \ {e}] ELSE h[T \ {e}]
      BY <1>2, <2>2
    <2>6. m \in Nat
      BY <1>1
    <2> HIDE DEF m
    <2> QED BY <2>1, <2>2, <2>4, <2>5, <2>6
  <1> QED BY <1>3, <1>4, <1>5, <1>6 DEF AddsUp

\* Lemma: every finite set can be added up.
LEMMA CanBeAddedUp ==
    ASSUME NEW S, IsFiniteSet(S), Bytes(S)
    PROVE  \E g : AddsUp(g, S)
  <1> DEFINE Q == {n \in Nat : \A T : IsFiniteSet(T) /\ Cardinality(T) = n /\ Bytes(T) =>
                                  \E g : AddsUp(g, T)}
  <1>1. 0 \in Q
    <2>1. ASSUME NEW T, T = {} PROVE \E g : AddsUp(g, T)
      <3>1. AddsUp([U \in SUBSET T |-> 0], T)
        BY <2>1 DEF AddsUp
      <3> QED BY <3>1
    <2> QED BY <2>1, FS_EmptySet
  <1>2. ASSUME NEW n \in Nat, n \in Q PROVE n + 1 \in Q
    <2>1. ASSUME NEW T, IsFiniteSet(T), Cardinality(T) = n + 1, Bytes(T)
          PROVE  \E g : AddsUp(g, T)
      <3>1. PICK e : e \in T
        BY <2>1, FS_EmptySet
      <3>2. IsFiniteSet(T \ {e}) /\ Cardinality(T \ {e}) = n
        <4>1. /\ IsFiniteSet(T \ {e})
              /\ Cardinality(T \ {e}) = IF e \in T THEN Cardinality(T) - 1 ELSE Cardinality(T)
          BY <2>1, FS_RemoveElement
        <4> QED BY <2>1, <3>1, <4>1
      <3>3. PICK h : AddsUp(h, T \ {e})
        BY <1>2, <2>1, <3>2 DEF Bytes
      <3> QED BY <2>1, <3>1, <3>3, OneMore
    <2> QED BY <2>1
  <1> HIDE DEF Q
  <1>3. Nat \subseteq Q
    BY <1>1, <1>2, AllNumbers
  <1>4. Cardinality(S) \in Q
    BY <1>3, FS_CardinalityType
  <1> QED BY <1>4 DEF Q

\* What is added up is what MemoryOf gives.
LEMMA MemoryIsSum ==
    ASSUME NEW S, IsFiniteSet(S), NEW g, AddsUp(g, S)
    PROVE  MemoryOf(S) = g[S]
  <1> DEFINE F(it) == it = [s \in SUBSET S |->
                            IF s = {} THEN 0
                            ELSE (CHOOSE e \in s : TRUE).binding.memory + it[s \ {CHOOSE e \in s : TRUE}]]
             iter == CHOOSE it : F(it)
  <1>1. MemoryOf(S) = iter[S]
    BY DEF MemoryOf, MapThenSumSet, MapThenFoldSet
  <1>2. F(g)
    <2>1. ASSUME NEW s \in SUBSET S
          PROVE  g[s] = IF s = {} THEN 0
                        ELSE (CHOOSE e \in s : TRUE).binding.memory + g[s \ {CHOOSE e \in s : TRUE}]
      <3>1. s # {} => (CHOOSE e \in s : TRUE) \in s
        OBVIOUS
      <3> QED BY <3>1 DEF AddsUp
    <2> QED BY <2>1 DEF AddsUp
  <1>3. F(iter)
    BY <1>2
  <1> HIDE DEF iter
  <1> DEFINE Same == {n \in Nat : \A T \in SUBSET S : Cardinality(T) = n => iter[T] = g[T]}
  <1>4. \A T \in SUBSET S : IsFiniteSet(T) /\ Cardinality(T) \in Nat
    BY FS_Subset, FS_CardinalityType
  <1>5. 0 \in Same
    <2>1. iter[{}] = 0 /\ g[{}] = 0
      BY <1>2, <1>3
    <2>2. \A T \in SUBSET S : Cardinality(T) = 0 => T = {}
      BY <1>4, FS_EmptySet
    <2> QED BY <2>1, <2>2
  <1>6. ASSUME NEW n \in Nat, n \in Same PROVE n + 1 \in Same
    <2>1. ASSUME NEW T \in SUBSET S, Cardinality(T) = n + 1
          PROVE  iter[T] = g[T]
      <3> DEFINE e == CHOOSE e \in T : TRUE
      <3>1. T # {} /\ e \in T
        BY <2>1, FS_EmptySet
      <3>2. Cardinality(T \ {e}) = n
        <4>1. Cardinality(T \ {e}) = IF e \in T THEN Cardinality(T) - 1 ELSE Cardinality(T)
          BY <1>4, FS_RemoveElement
        <4> QED BY <2>1, <3>1, <4>1
      <3>3. iter[T \ {e}] = g[T \ {e}]
        BY <1>6, <3>2
      <3>4. iter[T] = e.binding.memory + iter[T \ {e}]
        BY <1>3, <3>1
      <3>5. g[T] = e.binding.memory + g[T \ {e}]
        BY <1>2, <3>1
      <3> QED BY <3>3, <3>4, <3>5
    <2> QED BY <2>1
  <1> HIDE DEF Same
  <1>7. Cardinality(S) \in Same
    BY <1>4, <1>5, <1>6, AllNumbers
  <1> QED BY <1>1, <1>7 DEF Same

\* Lemma: adding an entry to a finite set.
LEMMA MemoryOfMore ==
    ASSUME NEW S, IsFiniteSet(S), Bytes(S), NEW e, e.binding.memory \in Nat
    PROVE  /\ MemoryOf(S) \in Nat
           /\ MemoryOf(S \cup {e}) <= MemoryOf(S) + e.binding.memory
           /\ \A T \in SUBSET S : MemoryOf(T) \in Nat /\ MemoryOf(T) <= MemoryOf(S)
  <1> DEFINE R == S \cup {e}
  <1>1. IsFiniteSet(R) /\ Bytes(R)
    BY FS_AddElement DEF Bytes
  <1>2. PICK g : AddsUp(g, R)
    BY <1>1, CanBeAddedUp
  <1>3. ASSUME NEW T \in SUBSET R
        PROVE  MemoryOf(T) = g[T] /\ g[T] \in Nat
    <2> DEFINE h == [U \in SUBSET T |-> g[U]]
    <2>1. \A U \in SUBSET T : h[U] = g[U] /\ U \in SUBSET R
      OBVIOUS
    <2>2. h \in [SUBSET T -> Nat]
      BY <1>2, <2>1 DEF AddsUp
    <2> HIDE DEF h
    <2>3. AddsUp(h, T)
      BY <1>2, <2>1, <2>2 DEF AddsUp
    <2>4. IsFiniteSet(T)
      BY <1>1, FS_Subset
    <2> QED BY <1>2, <2>1, <2>3, <2>4, MemoryIsSum DEF AddsUp
  <1>4. g[R] <= g[S] + e.binding.memory
    <2>1. g[R] = e.binding.memory + g[R \ {e}] /\ g[R \ {e}] <= g[S]
      BY <1>2 DEF AddsUp
    <2>2. g[R \ {e}] \in Nat /\ g[S] \in Nat
      BY <1>3
    <2> QED BY <2>1, <2>2
  <1>5. \A T \in SUBSET S : g[T] <= g[S]
    BY <1>2 DEF AddsUp
  <1> QED BY <1>3, <1>4, <1>5

(***************************************************************************)
(* Memory.                                                                 *)
(***************************************************************************)

\* No machine reserves more memory than it has.
EnoughMemory == \A m \in Machine : Hardware[m].reserveMemory <= Hardware[m].memory

\* Every machine has room for what R says is on it.
HasRoom(R) ==
    \A m \in Machine : IsFiniteSet(R.m2r[m]) /\ MemoryOf(R.m2r[m]) <= AvailableMemory(m)

\* While groups are placed the working copy does not outgrow the machines.
WorkHasRoom == rc.pc = "bind" => (HasRoom(rc.base) => HasRoom(rc.work))

\* Lemma: the entries of a Relationship have sizes.
LEMMA EntriesHaveSizes ==
    ASSUME NEW R, RelationshipOK(R), NEW m \in Machine
    PROVE  Bytes(R.m2r[m])
  BY DEF RelationshipOK, Bytes, Binding

\* Lemma: what has room has it with less on it.
LEMMA LessHasRoom ==
    ASSUME NEW R, RelationshipOK(R), HasRoom(R), NEW Q,
           \A m \in Machine : Q.m2r[m] \subseteq R.m2r[m]
    PROVE  HasRoom(Q)
  <1> SUFFICES ASSUME NEW m \in Machine
               PROVE  IsFiniteSet(Q.m2r[m]) /\ MemoryOf(Q.m2r[m]) <= AvailableMemory(m)
    BY DEF HasRoom
  <1> DEFINE A == R.m2r[m]
             B == Q.m2r[m]
             e == [binding |-> [memory |-> 0]]
  <1>1. IsFiniteSet(A) /\ MemoryOf(A) <= AvailableMemory(m) /\ Bytes(A) /\ B \in SUBSET A
    BY EntriesHaveSizes DEF HasRoom
  <1>2. IsFiniteSet(B)
    BY <1>1, FS_Subset
  <1>3. MemoryOf(A) \in Nat /\ MemoryOf(B) \in Nat /\ MemoryOf(B) <= MemoryOf(A)
    <2>1. e.binding.memory \in Nat
      OBVIOUS
    <2> HIDE DEF A, B, e
    <2> QED BY <1>1, <2>1, MemoryOfMore
  <1>4. AvailableMemory(m) \in Int
    BY HardwareAssumption DEF AvailableMemory
  <1> HIDE DEF A, B
  <1>5. MemoryOf(B) <= AvailableMemory(m)
    BY <1>1, <1>3, <1>4
  <1> QED BY <1>2, <1>5 DEF B

\* Lemma: an item is placed where its memory is left (resourceOverflow).
LEMMA PlacedHasRoom ==
    ASSUME NEW m, NEW I, NEW b, Placing(m, I, b), NEW k \in I
    PROVE  LET A == rc.work.m2r[m] \cup Entries(UpTo(I, k), b) IN
           b[k].memory \in Nat /\ AvailableMemory(m) - MemoryOf(A) >= b[k].memory
  <1> DEFINE A == rc.work.m2r[m] \cup Entries(UpTo(I, k), b)
  <1>1. b[k] \in resourceOverflow(m, A, Item(k)) /\ m \in Machine
    BY DEF Placing, Placements
  <1>2. b[k] \in Binding /\ Item(k) \in Resource
    BY PlacedBinding
  <1> HIDE DEF A
  <1>3. b[k].memory = ItemSpec[Item(k)].memory /\ RestMemory(m, A) >= ItemSpec[Item(k)].memory
    BY <1>1, <1>2, OverflowIsFree
  <1> QED BY <1>2, <1>3 DEF A, RestMemory, Binding

\* Lemma: a group that is placed fits.
LEMMA BoundHasRoom ==
    ASSUME NEW m, NEW I, NEW b, Placing(m, I, b), HasRoom(rc.work)
    PROVE  HasRoom(Bound(rc.work, m, I, b))
  <1> DEFINE A == rc.work.m2r[m]
             X(k) == A \cup Entries(UpTo(I, k), b)
             New(k) == [ref |-> rc.refs[Item(k)], binding |-> b[k]]
             Fit == {k \in Nat : IsFiniteSet(X(k)) /\ MemoryOf(X(k)) <= AvailableMemory(m)}
  <1>1. m \in Machine /\ rc.r \in Request /\ I \subseteq DOMAIN Items[rc.r] /\ RelationshipOK(rc.work)
    BY DEF Placing, RequestTypeOK
  <1>2. /\ Bound(rc.work, m, I, b).m2r[m] = A \cup Entries(I, b)
        /\ \A n \in Machine \ {m} : Bound(rc.work, m, I, b).m2r[n] = rc.work.m2r[n]
    BY BoundFields
  <1>3. \A k \in Nat : Bytes(X(k))
    <2>1. Bytes(A)
      BY <1>1, EntriesHaveSizes
    <2>2. Bytes(Entries(I, b))
      BY PlacedEntries DEF Bytes, Binding
    <2>3. \A k \in Nat : Entries(UpTo(I, k), b) \subseteq Entries(I, b)
      BY DEF Entries, UpTo
    <2> HIDE DEF A
    <2> QED BY <2>1, <2>2, <2>3 DEF Bytes
  <1>4. 0 \in Fit
    <2>1. \A k \in I : k \in Nat /\ k > 0
      <3>1. Items[rc.r] \in Seq(Resource)
        BY <1>1, ControlPlaneAssumption
      <3> QED BY <1>1, <3>1
    <2>2. UpTo(I, 0) = {}
      BY <2>1 DEF UpTo
    <2>3. X(0) = A
      BY <2>2 DEF Entries
    <2> QED BY <1>1, <2>3 DEF HasRoom
  <1>5. ASSUME NEW k \in Nat, k \in Fit PROVE k + 1 \in Fit
    <2>1. \A i \in I : i \in Nat
      BY <1>1, ItemIsResource
    <2>2. CASE k \notin I
      <3>1. UpTo(I, k + 1) = UpTo(I, k)
        BY <2>1, <2>2 DEF UpTo
      <3> QED BY <1>5, <3>1, SMTT(20)
    <2>3. CASE k \in I
      <3>1. UpTo(I, k + 1) = UpTo(I, k) \cup {k}
        <4>1. \A j \in I : j < k + 1 <=> j < k \/ j = k
          BY <2>1
        <4> QED BY <2>3, <4>1 DEF UpTo
      <3>2. Entries(UpTo(I, k + 1), b) = Entries(UpTo(I, k), b) \cup {New(k)}
        BY <3>1 DEF Entries
      <3>3. X(k + 1) = X(k) \cup {New(k)}
        BY <3>2
      <3>4. b[k].memory \in Nat /\ AvailableMemory(m) - MemoryOf(X(k)) >= b[k].memory
        BY <2>3, PlacedHasRoom
      <3>5. New(k).binding.memory = b[k].memory
        OBVIOUS
      <3>6. AvailableMemory(m) \in Int
        BY <1>1, HardwareAssumption DEF AvailableMemory
      <3>7. IsFiniteSet(X(k)) /\ Bytes(X(k))
        BY <1>3, <1>5
      <3> HIDE DEF X, New
      <3>8. /\ MemoryOf(X(k)) \in Nat /\ IsFiniteSet(X(k) \cup {New(k)})
            /\ MemoryOf(X(k) \cup {New(k)}) <= MemoryOf(X(k)) + b[k].memory
        BY <3>4, <3>5, <3>7, MemoryOfMore, FS_AddElement
      <3>9. MemoryOf(X(k) \cup {New(k)}) \in Nat
        <4> DEFINE Y == X(k) \cup {New(k)}
        <4>1. Bytes(Y) /\ IsFiniteSet(Y) /\ New(k).binding.memory \in Nat
          BY <3>4, <3>5, <3>7, <3>8 DEF Bytes
        <4> HIDE DEF Y
        <4>2. MemoryOf(Y) \in Nat
          BY <4>1, MemoryOfMore
        <4> QED BY <4>2 DEF Y
      <3>10. MemoryOf(X(k) \cup {New(k)}) <= AvailableMemory(m)
        BY <3>4, <3>6, <3>8, <3>9
      <3>11. IsFiniteSet(X(k + 1)) /\ MemoryOf(X(k + 1)) <= AvailableMemory(m)
        BY <3>3, <3>8, <3>10
      <3> QED BY <3>11
    <2> QED BY <2>2, <2>3
  <1>6. Nat \subseteq Fit
    <2> HIDE DEF Fit
    <2> QED BY <1>4, <1>5, AllNumbers
  <1>7. \E k \in Nat : X(k) = A \cup Entries(I, b)
    <2>1. Items[rc.r] \in Seq(Resource)
      BY <1>1, ControlPlaneAssumption
    <2>2. Len(Items[rc.r]) + 1 \in Nat /\ UpTo(I, Len(Items[rc.r]) + 1) = I
      BY <1>1, <2>1 DEF UpTo
    <2> QED BY <2>2
  <1>8. IsFiniteSet(A \cup Entries(I, b)) /\ MemoryOf(A \cup Entries(I, b)) <= AvailableMemory(m)
    BY <1>6, <1>7
  <1> QED BY <1>2, <1>8 DEF HasRoom

\* Lemma: what is at work keeps room.
LEMMA WorkStep ==
    ASSUME Safe, WorkHasRoom, [Next]_vars
    PROVE  WorkHasRoom'
  <1> USE DEF localVars, machineVars
  <1>1. RequestTypeOK /\ WorkingCopyOK
    BY DEF Safe, TypeOK
  <1>2. CASE rc' = rc
    BY <1>2 DEF WorkHasRoom, HasRoom
  <1>3. CASE rc'.pc # "bind"
    BY <1>3 DEF WorkHasRoom
  <1>4. CASE RequestListMachines
    <2>1. rc.pc = "machines" /\ rc'.base = rc.base /\ rc'.work = rc.work /\ rc.work = rc.base
      BY <1>1, <1>4 DEF RequestListMachines, RequestTypeOK, WorkingCopyOK
    <2> QED BY <2>1 DEF WorkHasRoom, HasRoom
  <1>5. CASE RequestBindGroup
    <2>1. PICK g \in NextGroups : PlaceGroup(g[1], g[2]) \/ NoPlace(g[1], g[2])
      BY <1>5 DEF RequestBindGroup
    <2>2. CASE NoPlace(g[1], g[2])
      BY <1>3, <2>2 DEF NoPlace, RIdle
    <2>3. CASE PlaceGroup(g[1], g[2])
      <3>1. PICK i \in DOMAIN rc.order :
               \E b \in Placements(rc.order[i], rc.work.m2r[rc.order[i]], g[2]) :
                  rc' = [rc EXCEPT !.work = Bound(rc.work, rc.order[i], g[2], b),
                                   !.named = @ \ {g[1]}, !.single = @ \ g[2],
                                   !.toLock = IF IsExclusive(g[1]) THEN @ \cup {rc.order[i]} ELSE @]
        BY <2>3 DEF PlaceGroup
      <3> DEFINE m == rc.order[i]
      <3>2. PICK b \in Placements(m, rc.work.m2r[m], g[2]) :
               rc' = [rc EXCEPT !.work = Bound(rc.work, m, g[2], b),
                                !.named = @ \ {g[1]}, !.single = @ \ g[2],
                                !.toLock = IF IsExclusive(g[1]) THEN @ \cup {m} ELSE @]
        BY <3>1
      <3>3. rc.pc = "bind" /\ m \in Machine
        BY <1>1, <1>5 DEF RequestBindGroup, RequestTypeOK
      <3>4. Placing(m, g[2], b)
        BY <1>1, <3>3, GroupIsItems DEF Placing
      <3> HIDE DEF m
      <3>5. rc'.base = rc.base /\ rc'.work = Bound(rc.work, m, g[2], b)
        BY <1>1, <3>2 DEF RequestTypeOK
      <3>6. HasRoom(rc.base) => HasRoom(rc'.work)
        BY <3>3, <3>4, <3>5, BoundHasRoom DEF WorkHasRoom
      <3> QED BY <3>5, <3>6 DEF WorkHasRoom, HasRoom
    <2> QED BY <2>1, <2>2, <2>3
  <1>6. \/ rc' = rc \/ rc'.pc # "bind" \/ RequestListMachines \/ RequestBindGroup
    <2>1. \/ rc' = rc \/ rc' = RIdle
          \/ \E r \in Request : RequestBegin(r)
          \/ RequestContinue
      BY DEF Next, vars, RequestStep, RequestOngoing, ResourceStep, ResourceOngoing,
             MachineStep, MachineOngoing, RelationshipStep, Watch, CreateRequest,
             DeleteRequest, DeleteMachine, DeleteNamespacedResource, CollectGarbage,
             Crash, Panic, Restart
    <2>2. ASSUME NEW r \in Request, RequestBegin(r)
          PROVE  rc' = rc \/ rc'.pc # "bind"
      <3>1. RequestNotRequired(r) => rc'.pc = "relation"
        BY DEF RequestNotRequired, RIdle
      <3>2. RequestNoResources(r) => rc'.pc = "release"
        BY DEF RequestNoResources, RIdle
      <3>3. RequestNotRequired(r) \/ RequestNoResources(r) \/ rc' = rc
        BY <2>2 DEF RequestBegin, RequestAddFinalizer, RequestBeginPending, RequestCreateResource,
               RequestReady, RequestDeleteResource
      <3> QED BY <3>1, <3>2, <3>3
    <2>3. ASSUME RequestContinue
          PROVE  rc'.pc # "bind" \/ RequestListMachines \/ RequestBindGroup
      <3>1. RequestReadRelationship => rc'.pc = "machines"
        BY <1>1 DEF RequestReadRelationship, RequestTypeOK
      <3>2. RequestRelease => rc'.pc = "finalizer"
        BY <1>1 DEF RequestRelease, RequestTypeOK
      <3>3. \/ RequestReadRelationship \/ RequestRelease \/ rc' = RIdle
            \/ RequestListMachines \/ RequestBindGroup
        BY <2>3 DEF RequestContinue, RequestWait, RequestNoExplicitMachine, RequestCommit,
               RequestRemoveFinalizer, RequestConflict
      <3> QED BY <3>1, <3>2, <3>3 DEF RIdle
    <2>4. RIdle.pc # "bind"
      BY DEF RIdle
    <2> QED BY <2>1, <2>2, <2>3, <2>4
  <1> QED BY <1>2, <1>3, <1>4, <1>5, <1>6

\* Lemma: every step leaves every machine the memory that it has given.
LEMMA RoomStep ==
    ASSUME Safe, WorkHasRoom, HasRoom(rel), [Next]_vars
    PROVE  HasRoom(rel')
  <1>1. CASE WriteAccepted
    <2>1. rc.pc = "bind" /\ rel = rc.base /\ rel'.m2r = rc.work.m2r
      BY <1>1, SchedulerWrites DEF Safe
    <2>2. HasRoom(rc.work)
      BY <2>1 DEF WorkHasRoom
    <2> QED BY <2>1, <2>2 DEF HasRoom
  <1>2. CASE ~WriteAccepted
    <2>1. \A m \in Machine : rel'.m2r[m] \subseteq rel.m2r[m]
      BY <1>2, OthersOnlyTake DEF Safe
    <2>2. RelationshipOK(rel)
      BY DEF Safe, TypeOK, ControlPlaneTypeOK
    <2> QED BY <2>1, <2>2, LessHasRoom
  <1> QED BY <1>1, <1>2

\* The resources of a machine never ask for more memory than it has left after
\* the reserve, whatever the caches showed the scheduler and across any history
\* of binding and releasing: for machines that do not reserve more than they have.
THEOREM MemoryIsEnough ==
    ASSUME EnoughMemory
    PROVE  Spec => []MemoryWithinMachine
  <1> DEFINE Inv == Safe /\ WorkHasRoom /\ HasRoom(rel)
  <1>1. Init => Inv
    <2> SUFFICES ASSUME Init PROVE Inv
      OBVIOUS
    <2>1. Safe
      BY InitOK DEF Safe
    <2>2. WorkHasRoom
      BY DEF Init, RequestInit, RIdle, WorkHasRoom
    <2>3. \A m \in Machine : rel.m2r[m] = {}
      BY DEF Init, ControlPlaneInit, EmptyRelationship
    <2>4. MemoryOf({}) = 0
      <3>1. AddsUp([T \in SUBSET {} |-> 0], {})
        BY DEF AddsUp
      <3> QED BY <3>1, MemoryIsSum, FS_EmptySet
    <2>5. \A m \in Machine : AvailableMemory(m) >= 0
      BY HardwareAssumption DEF EnoughMemory, AvailableMemory
    <2> QED BY <2>1, <2>2, <2>3, <2>4, <2>5, FS_EmptySet DEF HasRoom
  <1>2. Inv /\ [Next]_vars => Inv'
    BY StepOK, WorkStep, RoomStep DEF Safe, HasRoom
  <1>3. Inv => MemoryWithinMachine
    BY DEF HasRoom, MemoryWithinMachine
  <1> QED BY <1>1, <1>2, <1>3, PTL DEF Spec

----------------------------------------------------------------------------
(* Part 3: references.                                                      *)

(***************************************************************************)
(* What a request's object may become.                                     *)
(***************************************************************************)

Ended(o) == o.del \/ ~Exists(o)

\* p is the object o later on, or an object that had the name after it.
NotBefore(o, p) == p.gen > o.gen \/ (p.gen = o.gen /\ (Ended(o) => Ended(p)))

\* What the controllers see says that request q is deleted or gone.
Gone(q) ==
    LET o == SeenRequests[q.name] IN o.gen > q.gen \/ (o.gen = q.gen /\ Ended(o))

Holds(q) == Lives(q) /\ requests[q.name].fin

Binding3 == {"relation", "machines", "bind"}

(***************************************************************************)
(* References that are, or were, bound: what the Relationship or a copy of *)
(* it says, and the resources that have got their machine.                 *)
(***************************************************************************)

Known ==
    DOMAIN rel.r2m \cup DOMAIN SeenRel.r2m
    \cup {ResRef(x, resources[x]) : x \in {y \in Resource : IsRequired(resources[y])}}
    \cup {ResRef(x, SeenResources[x]) : x \in {y \in Resource : IsRequired(SeenResources[y])}}
    \cup {k \in {ResRef(tc.x, tc.obj)} : tc.pc = "finalizer" /\ IsRequired(tc.obj)}

\* The caches are behind the API server, and a request that the controllers see
\* with its finalizer and not deleted is there, with its finalizer.
CacheBehind ==
    \A r \in Request :
        /\ NotBefore(cache.requests[r], requests[r])
        /\ LET o == SeenRequests[r] IN
           Exists(o) /\ o.fin /\ ~o.del => Holds(Ref(r, o))

\* Every reference that was ever bound belongs to a request that is accepted or
\* that the controllers know to be deleted; while a request is being placed,
\* deleted does not count.
KnownAreAccepted ==
    \A k \in Known :
        /\ k \in ResourceRef
        /\ k.owner \in rel.accepted \/ Gone(k.owner)
        /\ rc.pc \in Binding3 /\ k.owner = Self => Self \in rel.accepted

\* An accepted request, the holder of a lock and a request that is being placed
\* are there; one that has given its locks back holds none.
HoldersLive ==
    /\ \A q \in rel.accepted : Holds(q)
    /\ \A m \in Machine : rel.locks[m] # None => Holds(rel.locks[m])
    /\ rc.pc \in Binding3 => Holds(Self)
    /\ rc.pc \in {"machines", "bind"} => Self \notin rc.base.accepted
    /\ rc.pc \in {"release", "finalizer"} => Gone(Self)
    /\ rc.pc = "finalizer" =>
          Self \notin rel.accepted /\ \A m \in Machine : rel.locks[m] # Self

(***************************************************************************)
(* The working copy, against the Relationship that was read.               *)
(***************************************************************************)

Remaining ==
    rc.single \cup {i \in DOMAIN Items[rc.r] : ItemSpec[Item(i)].machine \in rc.named}

PlacedRefs == {rc.refs[Item(i)] : i \in DOMAIN Items[rc.r] \ Remaining}

\* R knows nothing of the request that is being placed.
Fresh(R) == \A k \in DOMAIN R.r2m : k.owner # Self

\* What has been placed is what has been added.
CopyIsPlaced ==
    /\ DOMAIN rc.work.r2m = DOMAIN rc.base.r2m \cup PlacedRefs
    /\ \A k \in DOMAIN rc.base.r2m : rc.work.r2m[k] = rc.base.r2m[k]
    /\ \A k \in PlacedRefs : rc.base.locks[rc.work.r2m[k].machine] = None
    /\ \A m \in rc.toLock : \E k \in PlacedRefs : rc.work.r2m[k].machine = m
    /\ MapsTally(rc.base) => MapsTally(rc.work)

PlacingOK ==
    /\ rc.pc \in Binding3 =>
          /\ \A x \in DOMAIN rc.refs : rc.refs[x].name = x
          /\ \A i, j \in DOMAIN Items[rc.r] : Item(i) = Item(j) => i = j
    /\ rc.pc = "bind" =>
          /\ rc.named \subseteq Logical(rc.r)
          /\ rc.single \subseteq GroupItems(rc.r, None)
          /\ rc.work.accepted = rc.base.accepted
          /\ Fresh(rc.base) => CopyIsPlaced

\* A machine is taken out of the Relationship with nothing bound to it.
TakenOutEmpty ==
    mc.pc \in {"unlock", "unload", "unregister"} => mc.base.m2r[mc.m] = {}

\* A resource that has its machine, and is not bound in the Relationship that
\* the controllers see, is not bound; nor is one whose finalizer is about to go.
NotBoundAgain ==
    /\ \A x \in Resource : IsRequired(resources[x]) => resources[x].fin
    /\ \A x \in Resource : \A o \in {resources[x], SeenResources[x]} :
          IsRequired(o) /\ ResRef(x, o) \notin DOMAIN SeenRel.r2m =>
              ResRef(x, o) \notin DOMAIN rel.r2m
    /\ tc.pc = "finalizer" /\ IsRequired(tc.obj) =>
          ResRef(tc.x, tc.obj) \notin DOMAIN rel.r2m

LedgerInv ==
    /\ Safe /\ CacheBehind /\ KnownAreAccepted /\ HoldersLive
    /\ PlacingOK /\ TakenOutEmpty /\ NotBoundAgain /\ MapsAgree

(***************************************************************************)
(* How requests and the caches move.                                       *)
(***************************************************************************)

\* Later than a later object is later; every object is as late as itself.
LEMMA NotBeforeOrder ==
    ASSUME NEW o \in RequestObject, NEW p \in RequestObject, NEW q \in RequestObject
    PROVE  NotBefore(o, o) /\ (NotBefore(o, p) /\ NotBefore(p, q) => NotBefore(o, q))
  <1>1. o.gen \in Nat /\ p.gen \in Nat /\ q.gen \in Nat
    BY DEF RequestObject
  <1> QED
    BY <1>1 DEF NotBefore

\* A name is taken by a new object.
Created(o, p) == ~Exists(o) /\ p.gen = o.gen + 1 /\ Exists(p)

\* The object stays, and loses neither its finalizer nor its deletion mark.
Advanced(o, p) ==
    Exists(o) /\ Exists(p) /\ p.gen = o.gen /\ (o.fin => p.fin) /\ (o.del => p.del)

\* An object without a finalizer goes with its deletion.
Dropped(o, p) == ~o.fin /\ ~Exists(p) /\ p.gen = o.gen

\* The scheduler removes the finalizer of the request it has read as deleted.
Finalized(r, p) == rc.pc = "finalizer" /\ rc.r = r /\ requests[r].gen = rc.obj.gen
                   /\ ~Exists(p) /\ p.gen = rc.obj.gen

\* What a step does to the object of request r: users create and delete it, and
\* Reconcile adds the finalizer, changes the state and removes the finalizer.
LEMMA RequestsMove ==
    ASSUME TypeOK, [Next]_vars, NEW r \in Request
    PROVE  LET o == requests[r]
               p == requests'[r] IN
           p = o \/ Created(o, p) \/ Advanced(o, p) \/ Dropped(o, p) \/ Finalized(r, p)
  <1> DEFINE o == requests[r]
             p == requests'[r]
             Goal == p = o \/ Created(o, p) \/ Advanced(o, p) \/ Dropped(o, p) \/ Finalized(r, p)
  <1>0. requests \in [Request -> RequestObject]
    BY DEF TypeOK, ControlPlaneTypeOK
  <1>1. ASSUME NEW q \in Request, RequestBegin(q)
        PROVE  Goal
    <2>1. CASE requests' = requests
      BY <2>1
    <2>2. CASE RequestAddFinalizer(q)
      BY <1>0, <2>2 DEF RequestAddFinalizer, UpdateRequest, Advanced, RequestObject
    <2>3. CASE RequestBeginPending(q)
      <3>1. requests'[q] = [requests[q] EXCEPT !.state = "pending"] /\ requests[q].state = ""
        BY <1>0, <2>3 DEF RequestBeginPending, UpdateRequest
      <3>2. \A n \in Request \ {q} : requests'[n] = requests[n]
        BY <1>0, <2>3 DEF RequestBeginPending, UpdateRequest
      <3> QED BY <1>0, <3>1, <3>2 DEF Advanced, RequestObject
    <2>4. CASE RequestReady(q)
      <3>1. requests'[q] = [requests[q] EXCEPT !.state = "ready"] /\ requests[q].state = "pending"
        BY <1>0, <2>4 DEF RequestReady, UpdateRequest, PendingWithOwnResources
      <3>2. \A n \in Request \ {q} : requests'[n] = requests[n]
        BY <1>0, <2>4 DEF RequestReady, UpdateRequest
      <3> QED BY <1>0, <3>1, <3>2 DEF Advanced, RequestObject
    <2> QED
      BY <1>1, <2>1, <2>2, <2>3, <2>4
      DEF RequestBegin, RequestCreateResource, RequestNotRequired, storeVars,
          RequestDeleteResource, RequestNoResources, DeleteResource
  <1>2. ASSUME RequestContinue
        PROVE  Goal
    <2>1. CASE requests' = requests
      BY <2>1
    <2>2. CASE RequestRemoveFinalizer
      BY <1>0, <2>2 DEF RequestRemoveFinalizer, UpdateRequest, Finalized, AbsentRequest
    <2> QED
      BY <1>2, <2>1, <2>2
      DEF RequestContinue, RequestWait, RequestReadRelationship, RequestListMachines,
          RequestNoExplicitMachine, RequestBindGroup, RequestCommit, RequestRelease,
          RequestConflict, UpdateRelationship, storeVars
  <1>3. ASSUME NEW q \in Request, CreateRequest(q)
        PROVE  Goal
    BY <1>0, <1>3 DEF CreateRequest, Created, AbsentRequest, RequestObject
  <1>4. ASSUME NEW q \in Request, DeleteRequest(q)
        PROVE  Goal
    <2>1. CASE requests[q].fin
      <3>1. requests'[q] = [requests[q] EXCEPT !.del = TRUE] /\ Exists(requests[q])
        BY <1>0, <1>4, <2>1 DEF DeleteRequest
      <3>2. \A n \in Request \ {q} : requests'[n] = requests[n]
        BY <1>0, <1>4 DEF DeleteRequest
      <3>3. /\ requests'[q].del = TRUE /\ requests'[q].fin = requests[q].fin
            /\ requests'[q].gen = requests[q].gen /\ requests'[q].state = requests[q].state
        BY <1>0, <3>1 DEF RequestObject
      <3> QED BY <3>1, <3>2, <3>3 DEF Advanced
    <2>2. CASE ~requests[q].fin
      BY <1>0, <1>4, <2>2 DEF DeleteRequest, Dropped, AbsentRequest
    <2> QED BY <2>1, <2>2
  <1>5. \/ requests' = requests
        \/ \E q \in Request : RequestBegin(q) \/ CreateRequest(q) \/ DeleteRequest(q)
        \/ RequestContinue
    <2>1. ASSUME NEW x \in Resource, ResourceBegin(x)
          PROVE  requests' = requests
      BY <2>1 DEF ResourceBegin, ResourceAddFinalizer, ResourceBeginPending, ResourcePending,
                  ResourceRelease, ResourceSkipRelease, UpdateResource, UpdateRelationship, storeVars
    <2>2. ASSUME ResourceContinue
          PROVE  requests' = requests
      BY <2>2 DEF ResourceContinue, ResourceRemoveFinalizer, ResourceConflict,
                  UpdateResource, storeVars
    <2>3. ASSUME NEW m \in Machine, MachineBegin(m)
          PROVE  requests' = requests
      BY <2>3 DEF MachineBegin, MachineAddFinalizer, MachineBeginShutdown, storeVars,
                  MachineBeginStarting, MachineTryLock, MachineCreateUploadDaemon,
                  MachineRegister, MachineShutdown, UpdateMachine, UpdateRelationship
    <2>4. ASSUME MachineContinue
          PROVE  requests' = requests
      BY <2>4 DEF MachineContinue, MachineReady, MachineSetUploadPort, MachineUnlock,
                  MachineDeleteUploadDaemon, MachineUnregister, MachineRemoveFinalizer,
                  MachineConflict, UpdateMachine, UpdateRelationship, storeVars
    <2> QED
      BY <2>1, <2>2, <2>3, <2>4
      DEF Next, vars, storeVars, RequestStep, RequestOngoing, ResourceStep, ResourceOngoing,
          MachineStep, MachineOngoing, RelationshipStep, RelationshipReconcile, Watch,
          WatchEvent, DeleteMachine, UpdateRelationship,
          DeleteNamespacedResource, CollectGarbage, DeleteResource, Crash, Panic, Restart
  <1> QED
    BY <1>1, <1>2, <1>3, <1>4, <1>5

\* A cache changes only when nothing else does: some of its kinds catch up.
LEMMA CacheMoves ==
    ASSUME TypeOK, [Next]_vars
    PROVE  \/ cache' = cache
           \/ /\ UNCHANGED <<machines, requests, resources, rel>>
              /\ cache'.requests \in {cache.requests, requests}
              /\ cache'.machines \in {cache.machines, machines}
              /\ cache'.resources \in {cache.resources, resources}
              /\ cache'.rel \in {cache.rel, rel}
  <1> DEFINE CaughtUp ==
              /\ UNCHANGED <<machines, requests, resources, rel>>
              /\ cache'.requests \in {cache.requests, requests}
              /\ cache'.machines \in {cache.machines, machines}
              /\ cache'.resources \in {cache.resources, resources}
              /\ cache'.rel \in {cache.rel, rel}
  <1>1. ASSUME NEW kind \in Kind, Watch(kind)
        PROVE  CaughtUp
    BY <1>1 DEF Watch, WatchEvent, RelistedCache, Snapshot, Kind, TypeOK, ControlPlaneTypeOK
  <1>2. ASSUME Restart
        PROVE  CaughtUp
    BY <1>2 DEF Restart, RelistedCache, Snapshot
  <1>3. \/ cache' = cache \/ Restart
        \/ \E kind \in Kind : Watch(kind)
    <2>1. ASSUME NEW r \in Request, RequestBegin(r)
          PROVE  cache' = cache
      BY <2>1 DEF RequestBegin, RequestAddFinalizer, RequestBeginPending,
                  RequestCreateResource, RequestReady, RequestNotRequired, storeVars,
                  RequestDeleteResource, RequestNoResources, UpdateRequest, DeleteResource
    <2>2. ASSUME RequestContinue
          PROVE  cache' = cache
      BY <2>2 DEF RequestContinue, RequestWait, RequestReadRelationship, RequestListMachines,
                  RequestNoExplicitMachine, RequestBindGroup, RequestCommit, RequestRelease,
                  RequestRemoveFinalizer, RequestConflict, UpdateRequest,
                  UpdateRelationship, storeVars
    <2>3. ASSUME NEW x \in Resource, ResourceBegin(x)
          PROVE  cache' = cache
      BY <2>3 DEF ResourceBegin, ResourceAddFinalizer, ResourceBeginPending, storeVars,
                  ResourcePending, ResourceRelease, ResourceSkipRelease, UpdateResource,
                  UpdateRelationship
    <2>4. ASSUME ResourceContinue
          PROVE  cache' = cache
      BY <2>4 DEF ResourceContinue, ResourceRemoveFinalizer, ResourceConflict,
                  UpdateResource, storeVars
    <2>5. ASSUME NEW m \in Machine, MachineBegin(m)
          PROVE  cache' = cache
      BY <2>5 DEF MachineBegin, MachineAddFinalizer, MachineBeginShutdown, storeVars,
                  MachineBeginStarting, MachineTryLock, MachineCreateUploadDaemon,
                  MachineRegister, MachineShutdown, UpdateMachine, UpdateRelationship
    <2>6. ASSUME MachineContinue
          PROVE  cache' = cache
      BY <2>6 DEF MachineContinue, MachineReady, MachineSetUploadPort, MachineUnlock,
                  MachineDeleteUploadDaemon, MachineUnregister, MachineRemoveFinalizer,
                  MachineConflict, UpdateMachine, UpdateRelationship, storeVars
    <2> QED
      BY <2>1, <2>2, <2>3, <2>4, <2>5, <2>6
      DEF Next, vars, storeVars, RequestStep, RequestOngoing, ResourceStep, ResourceOngoing,
          MachineStep, MachineOngoing, RelationshipStep, RelationshipReconcile,
          CreateRequest, DeleteRequest, DeleteMachine, UpdateRelationship,
          DeleteNamespacedResource, CollectGarbage, DeleteResource, Crash, Panic
  <1> QED
    BY <1>1, <1>2, <1>3

\* So what the controllers see stays or is what is stored.
LEMMA SeenMoves ==
    ASSUME TypeOK, [Next]_vars
    PROVE  /\ SeenRequests' = SeenRequests \/ SeenRequests' = requests'
           /\ SeenResources' = SeenResources \/ SeenResources' = resources'
           /\ SeenMachines' = SeenMachines \/ SeenMachines' = machines'
           /\ SeenRel' = SeenRel \/ SeenRel' = rel'
  BY CacheMoves DEF SeenRequests, SeenResources, SeenMachines, SeenRel

(***************************************************************************)
(* How the workers and the Relationship move.                              *)
(***************************************************************************)

\* The writes of the other controllers.
OthersWrite ==
    rel' = rel \/ WriteInitialized \/ WriteRegistered \/ WriteUnregistered \/ WriteReleased

\* The scheduler stays as it is or ends its call, takes a step of its own, or
\* makes one of its two writes of the Relationship.
LEMMA SchedulerMoves ==
    ASSUME TypeOK, [Next]_vars
    PROVE  \/ rc' \in {rc, RIdle} /\ OthersWrite
           \/ \E r \in Request : RequestNotRequired(r) \/ RequestNoResources(r)
           \/ RequestReadRelationship \/ RequestListMachines \/ RequestBindGroup
           \/ WriteAccepted /\ rc' = RIdle /\ tc' = tc
           \/ RequestRelease /\ tc' = tc
  <1> USE DEF storeVars, localVars, machineVars
  <1>1. ASSUME NEW r \in Request, RequestBegin(r)
        PROVE  \/ rc' = rc /\ rel' = rel
               \/ RequestNotRequired(r) \/ RequestNoResources(r)
    BY <1>1 DEF RequestBegin, RequestAddFinalizer, RequestBeginPending,
                RequestCreateResource, RequestReady, RequestDeleteResource, UpdateRequest,
                DeleteResource
  <1>2. ASSUME RequestContinue, tc' = tc
        PROVE  \/ rc' = RIdle /\ rel' = rel
               \/ RequestReadRelationship \/ RequestListMachines \/ RequestBindGroup
               \/ WriteAccepted /\ rc' = RIdle /\ tc' = tc
               \/ RequestRelease /\ tc' = tc
    BY <1>2 DEF RequestContinue, RequestWait, RequestNoExplicitMachine, RequestCommit,
                RequestRemoveFinalizer, RequestConflict, UpdateRequest, WriteAccepted
  <1>3. ASSUME NEW x \in Resource, ResourceBegin(x)
        PROVE  OthersWrite
    BY <1>3 DEF ResourceBegin, ResourceAddFinalizer, ResourceBeginPending, ResourcePending,
                ResourceRelease, ResourceSkipRelease, UpdateResource, WriteReleased, SeenDeleted,
                OthersWrite
  <1>4. ASSUME ResourceContinue
        PROVE  OthersWrite
    BY <1>4 DEF ResourceContinue, ResourceRemoveFinalizer, ResourceConflict, UpdateResource,
                OthersWrite
  <1>5. ASSUME NEW m \in Machine, MachineBegin(m)
        PROVE  OthersWrite
    <2>1. CASE MachineRegister(m)
      BY <2>1 DEF MachineRegister, Reconciling, WriteRegistered, OthersWrite
    <2> QED
      BY <1>5, <2>1 DEF MachineBegin, MachineAddFinalizer, MachineBeginShutdown,
                        MachineBeginStarting, MachineTryLock, MachineCreateUploadDaemon,
                        MachineShutdown, UpdateMachine, OthersWrite
  <1>6. ASSUME MachineContinue
        PROVE  OthersWrite
    <2>1. mc.pc # "idle" => mc.m \in Machine
      BY DEF TypeOK, MachineTypeOK
    <2> QED
      BY <1>6, <2>1
      DEF MachineContinue, MachineReady, MachineSetUploadPort, MachineUnlock,
          MachineDeleteUploadDaemon, MachineUnregister, MachineRemoveFinalizer,
          MachineConflict, UpdateMachine, WriteUnregistered, OthersWrite
  <1>7. \/ rc' \in {rc, RIdle} /\ rel' = rel
        \/ rc' = rc /\ WriteInitialized
        \/ \E r \in Request : RequestBegin(r)
        \/ RequestContinue /\ tc' = tc
        \/ rc' = rc /\ \E x \in Resource : ResourceBegin(x)
        \/ rc' = rc /\ ResourceContinue
        \/ rc' = rc /\ \E m \in Machine : MachineBegin(m)
        \/ rc' = rc /\ MachineContinue
    BY DEF Next, vars, RequestStep, RequestOngoing, ResourceStep, ResourceOngoing,
           MachineStep, MachineOngoing, RelationshipStep, RelationshipReconcile, Watch,
           WatchEvent, CreateRequest, DeleteRequest, DeleteMachine,
           DeleteNamespacedResource, CollectGarbage, DeleteResource,
           Crash, Panic, Restart, WriteInitialized
  <1> QED
    BY <1>1, <1>2, <1>3, <1>4, <1>5, <1>6, <1>7 DEF OthersWrite

\* The other controllers accept and lock nothing and bind nothing new: of
\* ResourceToMachine they keep all or all but one entry.
LEMMA OthersKeep ==
    ASSUME TypeOK, OthersWrite
    PROVE  /\ rel'.accepted = rel.accepted
           /\ rel'.locks = rel.locks
           /\ \/ rel'.r2m = rel.r2m
              \/ \E k \in DOMAIN rel.r2m :
                    /\ k \in SeenDeleted
                    /\ rel'.r2m = [j \in DOMAIN rel.r2m \ {k} |-> rel.r2m[j]]
  <1>1. RelationshipOK(rel) /\ RelationshipOK(SeenRel) /\ RelationshipOK(mc.base)
    BY SeenOK DEF TypeOK, ControlPlaneTypeOK, MachineTypeOK
  <1>2. ASSUME NEW seen, NEW R, RelationshipOK(R), UpdateRelationship(seen, R)
        PROVE  rel'.accepted = R.accepted /\ rel'.locks = R.locks /\ rel'.r2m = R.r2m /\ rel = seen
    BY <1>2 DEF UpdateRelationship, RelationshipOK
  <1>3. CASE rel' = rel
    BY <1>3
  <1>4. CASE WriteInitialized
    <2> DEFINE R == [SeenRel EXCEPT !.init = TRUE]
    <2>1. RelationshipOK(R) /\ UpdateRelationship(SeenRel, R)
      BY <1>1, <1>4, InitializedOK DEF WriteInitialized
    <2>2. R.accepted = SeenRel.accepted /\ R.locks = SeenRel.locks /\ R.r2m = SeenRel.r2m
      BY <1>1 DEF RelationshipOK
    <2> HIDE DEF R
    <2> QED BY <1>2, <2>1, <2>2
  <1>5. CASE WriteRegistered
    <2>1. PICK n \in Machine : UpdateRelationship(SeenRel, [SeenRel EXCEPT !.keys = @ \cup {n}])
      BY <1>5 DEF WriteRegistered
    <2> DEFINE R == [SeenRel EXCEPT !.keys = @ \cup {n}]
    <2>2. RelationshipOK(R) /\ UpdateRelationship(SeenRel, R)
      BY <1>1, <2>1, RegisteredOK
    <2>3. R.accepted = SeenRel.accepted /\ R.locks = SeenRel.locks /\ R.r2m = SeenRel.r2m
      BY <1>1 DEF RelationshipOK
    <2> HIDE DEF R
    <2> QED BY <1>2, <2>2, <2>3
  <1>6. CASE WriteUnregistered
    <2> DEFINE R == [mc.base EXCEPT !.keys = @ \ {mc.m}, !.m2r[mc.m] = {}]
    <2>1. RelationshipOK(R) /\ UpdateRelationship(mc.base, R)
      BY <1>1, <1>6, UnregisteredOK DEF WriteUnregistered
    <2>2. R.accepted = mc.base.accepted /\ R.locks = mc.base.locks /\ R.r2m = mc.base.r2m
      BY <1>1 DEF RelationshipOK
    <2> HIDE DEF R
    <2> QED BY <1>2, <2>1, <2>2
  <1>7. CASE WriteReleased
    <2>1. PICK k \in DOMAIN SeenRel.r2m :
             k \in SeenDeleted /\ UpdateRelationship(SeenRel, Released(SeenRel, k))
      BY <1>7 DEF WriteReleased
    <2> DEFINE R == Released(SeenRel, k)
    <2>2. RelationshipOK(R) /\ UpdateRelationship(SeenRel, R)
      BY <1>1, <2>1, ReleasedOK
    <2>3. /\ R.accepted = SeenRel.accepted /\ R.locks = SeenRel.locks
          /\ R.r2m = [j \in DOMAIN SeenRel.r2m \ {k} |-> SeenRel.r2m[j]]
      BY <1>1 DEF RelationshipOK, Released
    <2> HIDE DEF R
    <2> QED BY <1>2, <2>1, <2>2, <2>3
  <1> QED
    BY <1>3, <1>4, <1>5, <1>6, <1>7 DEF OthersWrite

\* What the write that accepts a request leaves (the last lines of tryRequest).
LEMMA AcceptedKeeps ==
    ASSUME TypeOK, WorkingCopyOK, WriteAccepted
    PROVE  /\ rc.pc = "bind" /\ rel = rc.base
           /\ rel'.accepted = rc.work.accepted \cup {Self}
           /\ \A m \in Machine : rel'.locks[m] = IF m \in rc.toLock THEN Self ELSE rel.locks[m]
           /\ rel'.r2m = rc.work.r2m /\ rel'.m2r = rc.work.m2r /\ rel'.keys = rc.work.keys
  <1>1. SchedulerOK /\ AllPlaced /\ rc.pc = "bind"
    BY DEF TypeOK, SchedulerOK, WriteAccepted, AllPlaced
  <1>2. RelationshipOK(Accepted(rc.work)) /\ RelationshipOK(rc.work)
    BY <1>1, AcceptedFields DEF SchedulerOK, RequestTypeOK
  <1>3. /\ Accepted(rc.work).accepted = rc.work.accepted \cup {Self}
        /\ Accepted(rc.work).r2m = rc.work.r2m /\ Accepted(rc.work).m2r = rc.work.m2r
        /\ Accepted(rc.work).keys = rc.work.keys
    BY <1>2 DEF Accepted, RelationshipOK
  <1>4. /\ rel = rc.base /\ rel'.accepted = Accepted(rc.work).accepted
        /\ rel'.r2m = Accepted(rc.work).r2m /\ rel'.keys = Accepted(rc.work).keys
        /\ rel'.m2r = Accepted(rc.work).m2r
    BY <1>2 DEF UpdateRelationship, RelationshipOK, WriteAccepted
  <1> QED
    BY <1>1, <1>3, <1>4, SchedulerWrites

\* What the write of reconcileDeletion leaves.
LEMMA WithdrawnKeeps ==
    ASSUME TypeOK, WriteWithdrawn
    PROVE  /\ rel'.accepted = rel.accepted \ {Self}
           /\ \A m \in Machine : rel'.locks[m] = IF rel.locks[m] = Self THEN None ELSE rel.locks[m]
           /\ rel'.r2m = rel.r2m /\ rel'.m2r = rel.m2r /\ rel'.keys = rel.keys
  <1>1. RelationshipOK(SeenRel)
    BY SeenOK DEF TypeOK
  <1>2. RelationshipOK(Withdrawn(SeenRel))
    BY <1>1, WithdrawnFields
  <1>3. /\ Withdrawn(SeenRel).accepted = SeenRel.accepted \ {Self}
        /\ Withdrawn(SeenRel).r2m = SeenRel.r2m /\ Withdrawn(SeenRel).m2r = SeenRel.m2r
        /\ Withdrawn(SeenRel).keys = SeenRel.keys
    BY <1>1 DEF Withdrawn, RelationshipOK
  <1>4. /\ rel = SeenRel /\ rel'.accepted = Withdrawn(SeenRel).accepted
        /\ rel'.r2m = Withdrawn(SeenRel).r2m /\ rel'.keys = Withdrawn(SeenRel).keys
        /\ rel'.m2r = Withdrawn(SeenRel).m2r /\ rel'.locks = Withdrawn(SeenRel).locks
    BY <1>2 DEF UpdateRelationship, RelationshipOK, WriteWithdrawn
  <1> QED
    BY <1>1, <1>3, <1>4, WithdrawnFields

(***************************************************************************)
(* The invariant, conjunct by conjunct.                                    *)
(***************************************************************************)

\* The object of a request never goes back.
LEMMA RequestsOnlyAdvance ==
    ASSUME TypeOK, [Next]_vars, NEW r \in Request, rc.pc = "finalizer" => Gone(Self)
    PROVE  /\ requests[r] \in RequestObject /\ requests'[r] \in RequestObject
           /\ NotBefore(requests[r], requests'[r])
  <1>1. requests[r] \in RequestObject /\ requests'[r] \in RequestObject
    BY RequestsStayOK DEF TypeOK, ControlPlaneTypeOK
  <1>2. requests[r].gen \in Nat /\ requests'[r].gen \in Nat
    BY <1>1 DEF RequestObject
  <1> QED
    BY <1>1, <1>2, RequestsMove
    DEF NotBefore, Ended, Created, Advanced, Dropped, Finalized

\* What the controllers see of a request never goes back either.
LEMMA SeenOnlyAdvance ==
    ASSUME TypeOK, CacheBehind, [Next]_vars, NEW r \in Request,
           rc.pc = "finalizer" => Gone(Self)
    PROVE  /\ SeenRequests[r] \in RequestObject /\ SeenRequests'[r] \in RequestObject
           /\ NotBefore(SeenRequests[r], SeenRequests'[r])
           /\ NotBefore(cache'.requests[r], requests'[r])
  <1>1. /\ cache.requests[r] \in RequestObject /\ cache'.requests[r] \in RequestObject
        /\ requests[r] \in RequestObject /\ requests'[r] \in RequestObject
    BY CacheStaysOK, RequestsStayOK DEF TypeOK, ControlPlaneTypeOK, CacheOK
  <1>2. NotBefore(cache.requests[r], requests[r]) /\ NotBefore(requests[r], requests'[r])
    BY RequestsOnlyAdvance DEF CacheBehind
  <1>3. NotBefore(cache.requests[r], requests'[r])
    BY <1>1, <1>2, NotBeforeOrder
  <1>4. NotBefore(cache'.requests[r], requests'[r])
    BY <1>1, <1>2, <1>3, CacheMoves
  <1>5. SeenRequests[r] \in RequestObject /\ SeenRequests'[r] \in RequestObject
    BY <1>1 DEF SeenRequests
  <1>6. NotBefore(SeenRequests[r], SeenRequests'[r])
    <2>1. CASE "requests" \notin Lagging
      BY <1>2, <2>1 DEF SeenRequests
    <2>2. CASE "requests" \in Lagging
      BY <1>1, <1>2, <2>2, CacheMoves, NotBeforeOrder DEF SeenRequests
    <2> QED BY <2>1, <2>2
  <1> QED
    BY <1>4, <1>5, <1>6

\* A request that is seen to be deleted or gone stays so.
LEMMA GoneStays ==
    ASSUME TypeOK, CacheBehind, [Next]_vars, NEW q \in RequestRef, Gone(q),
           rc.pc = "finalizer" => Gone(Self)
    PROVE  Gone(q)'
  <1>1. q.name \in Request /\ q.gen \in Nat
    BY DEF RequestRef
  <1>2. /\ SeenRequests[q.name].gen \in Nat /\ SeenRequests'[q.name].gen \in Nat
        /\ NotBefore(SeenRequests[q.name], SeenRequests'[q.name])
    BY <1>1, SeenOnlyAdvance DEF RequestObject
  <1> QED
    BY <1>1, <1>2 DEF Gone, NotBefore

\* A request that is there with its finalizer stays there, unless the scheduler
\* removes the finalizer.
LEMMA HoldsStays ==
    ASSUME TypeOK, [Next]_vars, NEW q \in RequestRef, Holds(q),
           ~(rc.pc = "finalizer" /\ q = Self)
    PROVE  Holds(q)'
  <1>1. q.name \in Request /\ q = [name |-> q.name, gen |-> q.gen] /\ q.gen \in Nat
    BY DEF RequestRef
  <1>2. /\ requests[q.name].state # "absent" /\ requests[q.name].gen = q.gen
        /\ requests[q.name].fin
    BY DEF Holds, Lives
  <1>3. ~Finalized(q.name, requests'[q.name])
    BY <1>1, <1>2 DEF Finalized, Self
  <1>4. \/ requests'[q.name] = requests[q.name]
        \/ Advanced(requests[q.name], requests'[q.name])
    BY <1>1, <1>2, <1>3, RequestsMove DEF Created, Dropped
  <1> QED
    BY <1>2, <1>4 DEF Holds, Lives, Advanced

\* Every step keeps the caches behind the server.
LEMMA CacheStep ==
    ASSUME TypeOK, CacheBehind, HoldersLive, [Next]_vars
    PROVE  CacheBehind'
  <1>0. rc.pc = "finalizer" => Gone(Self)
    BY DEF HoldersLive
  <1> SUFFICES ASSUME NEW r \in Request,
                      SeenRequests'[r].state # "absent", SeenRequests'[r].fin, ~SeenRequests'[r].del
               PROVE  Holds([name |-> r, gen |-> SeenRequests[r].gen])'
    BY <1>0, SeenOnlyAdvance DEF CacheBehind
  <1>1. CASE SeenRequests' = requests'
    BY <1>1 DEF Holds, Lives
  <1>2. CASE SeenRequests' = SeenRequests
    <2>2. PICK g \in Nat : g = SeenRequests[r].gen
      BY SeenOK DEF TypeOK, RequestObject
    <2> DEFINE q == [name |-> r, gen |-> g]
    <2>1. Holds(q)
      BY <1>2, <2>2 DEF CacheBehind
    <2>3. q \in RequestRef
      BY DEF RequestRef
    <2>4. ~Gone(q)
      BY <1>2, <2>2 DEF Gone, Ended
    <2>5. Holds(q)'
      BY <1>0, <2>1, <2>3, <2>4, HoldsStays
    <2> QED BY <1>2, <2>2, <2>5
  <1> QED
    BY <1>1, <1>2, SeenMoves

\* The steps between reading the request and writing the Relationship: the call
\* ends or goes on for the same request, with the Relationship that it has read
\* or, once, reads now.
LEMMA SchedulerKeeps ==
    ASSUME TypeOK,
           RequestReadRelationship \/ RequestListMachines \/ RequestBindGroup
    PROVE  /\ UNCHANGED storeVars
           /\ \/ rc' = RIdle
              \/ /\ rc'.r = rc.r /\ rc'.obj = rc.obj /\ rc'.refs = rc.refs
                 /\ rc.pc \in Binding3 /\ rc'.pc \in {"machines", "bind"}
                 /\ \/ rc'.base = rc.base /\ rc.pc \in {"machines", "bind"}
                    \/ rc'.base = SeenRel /\ Self \notin SeenRel.accepted /\ rc'.pc = "machines"
  <1>0. RequestTypeOK
    BY DEF TypeOK
  <1>1. CASE RequestReadRelationship
    BY <1>0, <1>1 DEF RequestReadRelationship, RequestTypeOK, Binding3
  <1>2. CASE RequestListMachines
    BY <1>0, <1>2 DEF RequestListMachines, RequestTypeOK, Binding3
  <1>3. CASE RequestBindGroup
    BY <1>0, <1>3 DEF RequestBindGroup, PlaceGroup, NoPlace, RequestTypeOK, Binding3
  <1> QED
    BY <1>1, <1>2, <1>3

\* Every step keeps the holders of acceptances and locks alive.
LEMMA HoldersStep ==
    ASSUME Safe, CacheBehind, HoldersLive, PlacingOK, [Next]_vars
    PROVE  HoldersLive'
  <1>0. TypeOK /\ WorkingCopyOK /\ RequestTypeOK /\ RelationshipOK(rel)
    BY DEF Safe, TypeOK, ControlPlaneTypeOK
  <1>1. /\ \A q \in rel.accepted : q \in RequestRef /\ Holds(q)
        /\ \A m \in Machine : rel.locks[m] # None =>
              rel.locks[m] \in RequestRef /\ Holds(rel.locks[m])
    BY <1>0 DEF RelationshipOK, HoldersLive
  <1>2. rc.pc = "finalizer" => Gone(Self)
    BY DEF HoldersLive
  <1>3. ASSUME UNCHANGED <<requests, cache>>
        PROVE  \A q : Holds(q)' = Holds(q) /\ Gone(q)' = Gone(q)
    BY <1>3 DEF Holds, Lives, Gone, SeenRequests
  <1>4. ASSUME rc' \in {rc, RIdle}, OthersWrite
        PROVE  HoldersLive'
    <2>1. rel'.accepted = rel.accepted /\ rel'.locks = rel.locks
      BY <1>0, <1>4, OthersKeep
    <2>2. \A q \in RequestRef : q \in rel.accepted => Holds(q)'
      BY <1>0, <1>1, HoldsStays DEF HoldersLive
    <2>3. \A q \in RequestRef : \A m \in Machine :
             rel.locks[m] = q /\ q # None => Holds(q)'
      BY <1>0, <1>1, HoldsStays DEF HoldersLive
    <2>4. CASE rc' = RIdle
      <3>1. rc'.pc = "idle"
        BY <2>4 DEF RIdle
      <3> QED
        BY <1>1, <2>1, <2>2, <2>3, <3>1 DEF HoldersLive, Binding3
    <2>5. CASE rc' = rc
      <3>1. rc.pc \in Binding3 => Holds(Self)'
        <4> SUFFICES ASSUME rc.pc \in Binding3 PROVE Holds(Self)'
          OBVIOUS
        <4>1. PICK q \in RequestRef : q = Self
          BY <1>0, SelfIsReference DEF Binding3
        <4>2. Holds(q) /\ rc.pc # "finalizer"
          BY <4>1 DEF HoldersLive, Binding3
        <4>3. Holds(q)'
          BY <1>0, <4>2, HoldsStays
        <4>4. Self' = q
          BY <2>5, <4>1 DEF Self
        <4> QED BY <4>3, <4>4
      <3>2. rc.pc \in {"release", "finalizer"} => Gone(Self)'
        <4> SUFFICES ASSUME rc.pc \in {"release", "finalizer"} PROVE Gone(Self)'
          OBVIOUS
        <4>1. PICK q \in RequestRef : q = Self
          BY <1>0, SelfIsReference
        <4>2. Gone(q)
          BY <4>1 DEF HoldersLive
        <4>3. Gone(q)'
          BY <1>0, <1>2, <4>2, GoneStays
        <4>4. Self' = q
          BY <2>5, <4>1 DEF Self
        <4> QED BY <4>3, <4>4
      <3>3. Self' = Self
        BY <2>5 DEF Self
      <3> QED
        BY <1>1, <2>1, <2>2, <2>3, <2>5, <3>1, <3>2, <3>3 DEF HoldersLive
    <2> QED BY <1>4, <2>4, <2>5
  <1>5. ASSUME NEW r \in Request, RequestNotRequired(r)
        PROVE  HoldersLive'
    <2>1. /\ UNCHANGED storeVars /\ rc'.pc = "relation"
          /\ rc'.r = r /\ rc'.obj = SeenRequests[r]
          /\ SeenRequests[r].fin /\ ~SeenRequests[r].del /\ SeenRequests[r].state = "pending"
      BY <1>5 DEF RequestNotRequired, PendingWithOwnResources, RIdle
    <2>2. Holds([name |-> r, gen |-> SeenRequests[r].gen])
      BY <2>1 DEF CacheBehind
    <2>3. Self' = [name |-> r, gen |-> SeenRequests[r].gen]
      BY <2>1 DEF Self
    <2> QED
      BY <1>1, <1>3, <2>1, <2>2, <2>3 DEF HoldersLive, storeVars, Holds, Lives
  <1>6. ASSUME NEW r \in Request, RequestNoResources(r)
        PROVE  HoldersLive'
    <2>1. /\ UNCHANGED storeVars /\ rc'.pc = "release"
          /\ rc'.r = r /\ rc'.obj = SeenRequests[r] /\ SeenRequests[r].del
      BY <1>6 DEF RequestNoResources, Deleting, RIdle
    <2>2. Self' = [name |-> r, gen |-> SeenRequests[r].gen] /\ SeenRequests' = SeenRequests
      BY <2>1 DEF Self, storeVars, SeenRequests
    <2>3. Gone(Self)'
      BY <2>1, <2>2 DEF Gone, Ended
    <2> QED
      BY <1>1, <2>1, <2>3 DEF HoldersLive, storeVars, Holds, Lives, Binding3
  <1>7. ASSUME RequestReadRelationship \/ RequestListMachines \/ RequestBindGroup
        PROVE  HoldersLive'
    <2>1. UNCHANGED storeVars
      BY <1>0, <1>7, SchedulerKeeps
    <2>2. CASE rc' = RIdle
      BY <1>1, <2>1, <2>2 DEF HoldersLive, storeVars, Holds, Lives, Binding3, RIdle
    <2>3. CASE rc' # RIdle
      <3>1. /\ rc'.r = rc.r /\ rc'.obj = rc.obj
            /\ rc.pc \in Binding3 /\ rc'.pc \in {"machines", "bind"}
            /\ \/ rc'.base = rc.base /\ rc.pc \in {"machines", "bind"}
               \/ rc'.base = SeenRel /\ Self \notin SeenRel.accepted
        BY <1>0, <1>7, <2>3, SchedulerKeeps
      <3>2. Self' = Self
        BY <3>1 DEF Self
      <3>3. Self' \notin rc'.base.accepted
        BY <3>1, <3>2 DEF HoldersLive
      <3> QED
        BY <1>1, <2>1, <3>1, <3>2, <3>3 DEF HoldersLive, storeVars, Holds, Lives, Binding3
    <2> QED BY <2>2, <2>3
  <1>8. ASSUME WriteAccepted, rc' = RIdle
        PROVE  HoldersLive'
    <2>1. /\ rc.pc = "bind" /\ rel = rc.base
          /\ rel'.accepted = rc.work.accepted \cup {Self}
          /\ \A m \in Machine : rel'.locks[m] = IF m \in rc.toLock THEN Self ELSE rel.locks[m]
      BY <1>0, <1>8, AcceptedKeeps
    <2>2. rel'.accepted = rel.accepted \cup {Self} /\ Holds(Self)
      BY <2>1 DEF PlacingOK, HoldersLive, Binding3
    <2>3. UNCHANGED <<requests, cache>>
      BY <1>8 DEF WriteAccepted, UpdateRelationship
    <2>4. rc'.pc = "idle"
      BY <1>8 DEF RIdle
    <2>5. /\ \A q \in rel'.accepted : Holds(q)
          /\ \A m \in Machine : rel'.locks[m] # None => Holds(rel'.locks[m])
      BY <1>1, <2>1, <2>2
    <2> QED
      BY <2>3, <2>4, <2>5 DEF HoldersLive, Binding3, Holds, Lives
  <1>9. ASSUME RequestRelease
        PROVE  HoldersLive'
    <2>1. WriteWithdrawn /\ rc.pc = "release" /\ UNCHANGED <<requests, cache>>
      BY <1>9 DEF RequestRelease, WriteWithdrawn, UpdateRelationship
    <2>2. /\ rel'.accepted = rel.accepted \ {Self}
          /\ \A m \in Machine : rel'.locks[m] = IF rel.locks[m] = Self THEN None ELSE rel.locks[m]
      BY <1>0, <2>1, WithdrawnKeeps
    <2>3. rc'.pc = "finalizer" /\ rc'.r = rc.r /\ rc'.obj = rc.obj
      BY <1>0, <1>9 DEF RequestRelease, RequestTypeOK
    <2>4. Self' = Self /\ Gone(Self)
      BY <2>1, <2>3 DEF Self, HoldersLive
    <2>5. Gone(Self)'
      BY <2>1, <2>4 DEF Gone, SeenRequests
    <2>6. Self # None
      BY <1>0, <2>1, SelfIsReference, ControlPlaneAssumption
    <2> QED
      BY <1>1, <2>1, <2>2, <2>3, <2>4, <2>5, <2>6 DEF HoldersLive, Binding3, Holds, Lives
  <1> QED
    BY <1>0, <1>4, <1>5, <1>6, <1>7, <1>8, <1>9, SchedulerMoves

\* The items of the request that is being placed have references of their own,
\* the request's.
LEMMA RefsAreDistinct ==
    ASSUME TypeOK, WorkingCopyOK, PlacingOK, rc.pc \in Binding3
    PROVE  /\ rc.r \in Request
           /\ \A i \in DOMAIN Items[rc.r] :
                 /\ rc.refs[Item(i)].owner = Self
                 /\ rc.refs[Item(i)].name = Item(i)
                 /\ rc.refs[Item(i)] \in ResourceRef
                 /\ Item(i) \in ItemNames(rc.r)
                 /\ \A j \in DOMAIN Items[rc.r] : rc.refs[Item(i)] = rc.refs[Item(j)] => i = j
  <1>1. rc.r \in Request
    BY DEF TypeOK, RequestTypeOK, Binding3
  <1>2. \A i \in DOMAIN Items[rc.r] : Item(i) \in ItemNames(rc.r)
    BY <1>1, ItemIsResource DEF Item
  <1>3. \A i \in DOMAIN Items[rc.r] : Item(i) \in DOMAIN rc.refs /\ rc.refs[Item(i)].owner = Self
    BY <1>2 DEF WorkingCopyOK, Binding3
  <1>4. \A i \in DOMAIN Items[rc.r] :
           rc.refs[Item(i)] \in ResourceRef /\ rc.refs[Item(i)].name = Item(i)
    BY <1>3 DEF TypeOK, RequestTypeOK, PlacingOK
  <1>5. \A i, j \in DOMAIN Items[rc.r] : Item(i) = Item(j) => i = j
    BY DEF PlacingOK
  <1> QED
    BY <1>1, <1>2, <1>3, <1>4, <1>5

\* What tryBindResource puts into ResourceToMachine for a group.
LEMMA BoundMaps ==
    ASSUME NEW m, NEW I, NEW b, Placing(m, I, b), TypeOK, PlacingOK
    PROVE  LET B == Bound(rc.work, m, I, b)
               new == {rc.refs[Item(i)] : i \in I} IN
           /\ DOMAIN B.r2m = DOMAIN rc.work.r2m \cup new
           /\ \A i \in I : B.r2m[rc.refs[Item(i)]] = [machine |-> m, binding |-> b[i]]
           /\ \A k \in DOMAIN rc.work.r2m \ new : B.r2m[k] = rc.work.r2m[k]
           /\ B.keys = rc.work.keys \cup {m}
           /\ B.accepted = rc.work.accepted
  <1> DEFINE new == {rc.refs[Item(i)] : i \in I}
             at(k) == CHOOSE i \in I : rc.refs[Item(i)] = k
             r2m == [k \in DOMAIN rc.work.r2m \cup new |->
                        IF k \in new THEN [machine |-> m, binding |-> b[at(k)]]
                                     ELSE rc.work.r2m[k]]
             B == Bound(rc.work, m, I, b)
  <1>1. RelationshipOK(rc.work) /\ WorkingCopyOK /\ rc.pc = "bind" /\ I \subseteq DOMAIN Items[rc.r]
    BY DEF Placing, RequestTypeOK
  <1>2. ASSUME NEW i \in I
        PROVE  at(rc.refs[Item(i)]) = i
    <2>1. \A j \in I : rc.refs[Item(j)] = rc.refs[Item(i)] => j = i
      BY <1>1, RefsAreDistinct DEF Binding3
    <2> QED BY <2>1
  <1>3. B.r2m = r2m /\ B.keys = rc.work.keys \cup {m} /\ B.accepted = rc.work.accepted
    BY <1>1 DEF Bound, RelationshipOK
  <1>4. \A i \in I : r2m[rc.refs[Item(i)]] = [machine |-> m, binding |-> b[i]]
    <2> SUFFICES ASSUME NEW i \in I
                 PROVE  r2m[rc.refs[Item(i)]] = [machine |-> m, binding |-> b[i]]
      OBVIOUS
    <2>1. rc.refs[Item(i)] \in new
      OBVIOUS
    <2>2. r2m[rc.refs[Item(i)]] = [machine |-> m, binding |-> b[at(rc.refs[Item(i)])]]
      BY <2>1
    <2> QED BY <1>2, <2>2
  <1>5. DOMAIN r2m = DOMAIN rc.work.r2m \cup new
    OBVIOUS
  <1>6. \A k \in DOMAIN rc.work.r2m \ new : r2m[k] = rc.work.r2m[k]
    OBVIOUS
  <1> HIDE DEF r2m, B
  <1> QED
    BY <1>3, <1>4, <1>5, <1>6 DEF B

\* Placing a group that is not bound yet keeps the two maps in agreement.
LEMMA BoundTallies ==
    ASSUME NEW m, NEW I, NEW b, Placing(m, I, b), TypeOK, PlacingOK, MapsTally(rc.work),
           \A i \in I : rc.refs[Item(i)] \notin DOMAIN rc.work.r2m
    PROVE  MapsTally(Bound(rc.work, m, I, b))
  <1> DEFINE B == Bound(rc.work, m, I, b)
             new == {rc.refs[Item(i)] : i \in I}
  <1>1. /\ DOMAIN B.r2m = DOMAIN rc.work.r2m \cup new
        /\ \A i \in I : B.r2m[rc.refs[Item(i)]] = [machine |-> m, binding |-> b[i]]
        /\ \A k \in DOMAIN rc.work.r2m \ new : B.r2m[k] = rc.work.r2m[k]
        /\ B.keys = rc.work.keys \cup {m}
    BY BoundMaps
  <1>2. /\ B.m2r[m] = rc.work.m2r[m] \cup Entries(I, b)
        /\ \A n \in Machine \ {m} : B.m2r[n] = rc.work.m2r[n]
        /\ m \in Machine
    BY BoundFields DEF Placing
  <1>3. DOMAIN rc.work.r2m \cap new = {}
    OBVIOUS
  <1>4. RelationshipOK(rc.work)
    BY DEF Placing, RequestTypeOK
  <1> HIDE DEF B
  <1>5. ASSUME NEW n \in Machine, NEW e \in B.m2r[n]
        PROVE  /\ n \in B.keys /\ e.ref \in DOMAIN B.r2m
               /\ B.r2m[e.ref] = [machine |-> n, binding |-> e.binding]
    <2>1. CASE e \in rc.work.m2r[n]
      <3>1. /\ n \in rc.work.keys /\ e.ref \in DOMAIN rc.work.r2m
            /\ rc.work.r2m[e.ref] = [machine |-> n, binding |-> e.binding]
        BY <2>1 DEF MapsTally
      <3> QED BY <1>1, <1>3, <3>1
    <2>2. CASE e \notin rc.work.m2r[n]
      <3>1. n = m
        BY <1>2, <2>2
      <3>2. PICK i \in I : e = [ref |-> rc.refs[Item(i)], binding |-> b[i]]
        BY <1>2, <2>2, <3>1 DEF Entries
      <3> QED BY <1>1, <3>1, <3>2
    <2> QED BY <2>1, <2>2
  <1>6. ASSUME NEW k \in DOMAIN B.r2m
        PROVE  [ref |-> k, binding |-> B.r2m[k].binding] \in B.m2r[B.r2m[k].machine]
    <2>1. CASE k \in new
      <3>1. PICK i \in I : k = rc.refs[Item(i)]
        BY <2>1
      <3>2. B.r2m[k] = [machine |-> m, binding |-> b[i]]
        BY <1>1, <3>1
      <3>3. [ref |-> k, binding |-> b[i]] \in Entries(I, b)
        BY <3>1 DEF Entries
      <3> QED BY <1>2, <3>2, <3>3
    <2>2. CASE k \notin new
      <3>1. k \in DOMAIN rc.work.r2m /\ B.r2m[k] = rc.work.r2m[k]
        BY <1>1, <2>2
      <3>2. [ref |-> k, binding |-> rc.work.r2m[k].binding] \in rc.work.m2r[rc.work.r2m[k].machine]
        BY <3>1 DEF MapsTally
      <3>3. rc.work.r2m[k].machine \in Machine
        BY <1>4, <3>1 DEF RelationshipOK
      <3> QED BY <1>2, <3>1, <3>2, <3>3
    <2> QED BY <2>1, <2>2
  <1>7. MapsTally(B)
    BY <1>5, <1>6 DEF MapsTally
  <1> QED
    BY <1>7 DEF B

\* When tryRequest starts to place the groups, all items remain.
LEMMA ListedPlacing ==
    ASSUME Safe, PlacingOK, RequestListMachines
    PROVE  PlacingOK'
  <1>0. TypeOK /\ WorkingCopyOK /\ RequestTypeOK /\ rc.pc = "machines" /\ rc.r \in Request
    BY DEF Safe, TypeOK, RequestListMachines, RequestTypeOK
  <1>1. /\ rc'.pc = "bind" /\ rc'.toLock = rc.toLock /\ rc'.work = rc.work
        /\ rc'.base = rc.base /\ rc'.refs = rc.refs /\ rc'.r = rc.r /\ rc'.obj = rc.obj
        /\ rc'.named = Logical(rc.r) /\ rc'.single = GroupItems(rc.r, None)
    BY <1>0 DEF RequestListMachines, RequestTypeOK
  <1>2. rc.toLock = {} /\ rc.work = rc.base
    BY <1>0 DEF WorkingCopyOK
  <1>3. \A i \in DOMAIN Items[rc.r] : Items[rc.r][i] \in ItemNames(rc.r)
    BY <1>0, ItemIsResource
  <1>4. DOMAIN Items[rc.r] \ Remaining' = {}
    BY <1>1, <1>3 DEF Remaining, Item, Logical, GroupItems
  <1>5. PlacedRefs' = {}
    BY <1>1, <1>4 DEF PlacedRefs
  <1>6. CopyIsPlaced'
    BY <1>1, <1>2, <1>5 DEF CopyIsPlaced
  <1>7. /\ \A x \in DOMAIN rc'.refs : rc'.refs[x].name = x
        /\ (\A i, j \in DOMAIN Items[rc.r] : Item(i) = Item(j) => i = j)'
    BY <1>0, <1>1 DEF PlacingOK, Binding3, Item
  <1> QED
    BY <1>1, <1>2, <1>6, <1>7 DEF PlacingOK

\* The items of a group remain until the group is placed, and then they do not.
LEMMA GroupRemains ==
    ASSUME Safe, PlacingOK, rc.pc = "bind", NEW g \in NextGroups
    PROVE  /\ g[2] \subseteq Remaining
           /\ g[2] \subseteq DOMAIN Items[rc.r]
           /\ IsExclusive(g[1]) => g[2] # {}
           /\ (rc.single \ g[2]) \cup {i \in DOMAIN Items[rc.r] :
                                          ItemSpec[Item(i)].machine \in rc.named \ {g[1]}}
              = Remaining \ g[2]
  <1>0. /\ WorkingCopyOK /\ rc.named \subseteq Logical(rc.r)
        /\ rc.single \subseteq GroupItems(rc.r, None)
    BY DEF Safe, PlacingOK
  <1>1. CASE rc.named # {}
    <2>1. PICK l \in rc.named : g = <<l, GroupItems(rc.r, l)>>
      BY <1>1 DEF NextGroups
    <2>2. g[1] = l /\ g[2] = GroupItems(rc.r, l) /\ l \in Logical(rc.r)
      BY <1>0, <2>1
    <2>3. l # None /\ \E i \in DOMAIN Items[rc.r] : ItemSpec[Items[rc.r][i]].machine = l
      BY <2>2 DEF Logical, ItemNames
    <2> QED
      BY <1>0, <2>2, <2>3 DEF GroupItems, Remaining, Item
  <1>2. CASE rc.named = {}
    <2>1. PICK i \in rc.single : g = <<None, {i}>>
      BY <1>2 DEF NextGroups
    <2>2. g[1] = None /\ g[2] = {i}
      BY <2>1
    <2> QED
      BY <1>0, <1>2, <2>2 DEF GroupItems, Remaining, Item
  <1> QED
    BY <1>1, <1>2

\* A group that is placed is added to the working copy, and nothing else.
LEMMA BindsPlacing ==
    ASSUME Safe, PlacingOK, RequestBindGroup
    PROVE  PlacingOK'
  <1>0. TypeOK /\ WorkingCopyOK /\ RequestTypeOK /\ rc.pc = "bind" /\ SchedulerOK
    BY DEF Safe, TypeOK, RequestBindGroup, SchedulerOK
  <1>1. PICK g \in NextGroups : PlaceGroup(g[1], g[2]) \/ NoPlace(g[1], g[2])
    BY DEF RequestBindGroup
  <1>2. CASE NoPlace(g[1], g[2])
    BY <1>2 DEF NoPlace, RIdle, PlacingOK, Binding3
  <1>3. CASE PlaceGroup(g[1], g[2])
    <2> DEFINE I == g[2]
    <2>1. PICK i \in DOMAIN rc.order : \E b \in Placements(rc.order[i], rc.work.m2r[rc.order[i]], I) :
             rc' = [rc EXCEPT !.work = Bound(rc.work, rc.order[i], I, b),
                              !.named = @ \ {g[1]}, !.single = @ \ I,
                              !.toLock = IF IsExclusive(g[1]) THEN @ \cup {rc.order[i]} ELSE @]
      BY <1>3 DEF PlaceGroup
    <2> DEFINE m == rc.order[i]
    <2>2. PICK b \in Placements(m, rc.work.m2r[m], I) :
             rc' = [rc EXCEPT !.work = Bound(rc.work, m, I, b),
                              !.named = @ \ {g[1]}, !.single = @ \ I,
                              !.toLock = IF IsExclusive(g[1]) THEN @ \cup {m} ELSE @]
      BY <2>1
    <2> DEFINE B == Bound(rc.work, m, I, b)
               new == {rc.refs[Item(j)] : j \in I}
    <2>3. m \in Machine /\ rc.base.locks[m] = None
      BY <1>0 DEF RequestTypeOK, WorkingCopyOK
    <2>4. Placing(m, I, b)
      BY <1>0, <2>3, GroupIsItems DEF Placing
    <2>5. /\ DOMAIN B.r2m = DOMAIN rc.work.r2m \cup new
          /\ \A j \in I : B.r2m[rc.refs[Item(j)]] = [machine |-> m, binding |-> b[j]]
          /\ \A k \in DOMAIN rc.work.r2m \ new : B.r2m[k] = rc.work.r2m[k]
          /\ B.accepted = rc.work.accepted
      BY <1>0, <2>4, BoundMaps
    <2>6. /\ I \subseteq Remaining /\ I \subseteq DOMAIN Items[rc.r]
          /\ IsExclusive(g[1]) => I # {}
          /\ (rc.single \ I) \cup {j \in DOMAIN Items[rc.r] :
                                      ItemSpec[Item(j)].machine \in rc.named \ {g[1]}}
             = Remaining \ I
      BY <1>0, GroupRemains
    <2>7. MapsTally(rc.work) /\ (\A j \in I : rc.refs[Item(j)] \notin DOMAIN rc.work.r2m)
             => MapsTally(B)
      BY <1>0, <2>4, BoundTallies
    <2> HIDE DEF B
    <2>8. rc' = [rc EXCEPT !.work = B, !.named = @ \ {g[1]}, !.single = @ \ I,
                           !.toLock = IF IsExclusive(g[1]) THEN @ \cup {m} ELSE @]
      BY <2>2 DEF B
    <2> HIDE DEF m, I
    <2>9. /\ rc'.pc = "bind" /\ rc'.work = B
          /\ rc'.base = rc.base /\ rc'.refs = rc.refs /\ rc'.r = rc.r /\ rc'.obj = rc.obj
          /\ rc'.named = rc.named \ {g[1]} /\ rc'.single = rc.single \ I
          /\ rc'.toLock = IF IsExclusive(g[1]) THEN rc.toLock \cup {m} ELSE rc.toLock
      BY <1>0, <2>8 DEF RequestTypeOK
    <2>10. Remaining' = Remaining \ I
      BY <2>6, <2>9 DEF Remaining, Item
    <2>11. PlacedRefs' = PlacedRefs \cup new
      <3>1. DOMAIN Items[rc.r] \ Remaining' = (DOMAIN Items[rc.r] \ Remaining) \cup I
        BY <2>6, <2>10
      <3> QED
        BY <2>9, <3>1 DEF PlacedRefs, Item
    <2>12. \A j \in DOMAIN Items[rc.r] :
              /\ rc.refs[Item(j)].owner = Self
              /\ \A k \in DOMAIN Items[rc.r] : rc.refs[Item(j)] = rc.refs[Item(k)] => j = k
      BY <1>0, RefsAreDistinct DEF Binding3
    <2>13. PlacedRefs \cap new = {}
      BY <2>6, <2>12 DEF PlacedRefs
    <2>14. ASSUME Fresh(rc.base)
           PROVE  CopyIsPlaced'
      <3>1. CopyIsPlaced
        BY <1>0, <2>14 DEF PlacingOK
      <3>2. DOMAIN rc.base.r2m \cap new = {}
        BY <2>6, <2>12, <2>14 DEF Fresh
      <3>3. DOMAIN rc.work.r2m = DOMAIN rc.base.r2m \cup PlacedRefs
        BY <3>1 DEF CopyIsPlaced
      <3>4. \A k \in DOMAIN rc.work.r2m : B.r2m[k] = rc.work.r2m[k]
        BY <2>5, <2>13, <3>2, <3>3
      <3>5. DOMAIN B.r2m = DOMAIN rc.base.r2m \cup PlacedRefs'
        BY <2>5, <2>11, <3>3
      <3>6. \A k \in DOMAIN rc.base.r2m : B.r2m[k] = rc.base.r2m[k]
        BY <3>1, <3>3, <3>4 DEF CopyIsPlaced
      <3>7. \A k \in new : B.r2m[k].machine = m
        <4> SUFFICES ASSUME NEW j \in I PROVE B.r2m[rc.refs[Item(j)]].machine = m
          OBVIOUS
        <4>1. B.r2m[rc.refs[Item(j)]] = [machine |-> m, binding |-> b[j]]
          BY <2>5
        <4> QED BY <4>1
      <3>8. \A k \in PlacedRefs' : rc.base.locks[B.r2m[k].machine] = None
        BY <2>3, <2>11, <3>1, <3>3, <3>4, <3>7 DEF CopyIsPlaced
      <3>9. \A n \in rc'.toLock : \E k \in PlacedRefs' : B.r2m[k].machine = n
        <4> SUFFICES ASSUME NEW n \in rc'.toLock
                     PROVE  \E k \in PlacedRefs' : B.r2m[k].machine = n
          OBVIOUS
        <4>1. CASE n \in rc.toLock
          BY <2>11, <3>1, <3>3, <3>4, <4>1 DEF CopyIsPlaced
        <4>2. CASE n \notin rc.toLock
          <5>1. n = m /\ IsExclusive(g[1])
            BY <2>9, <4>2
          <5>2. \E k \in new : TRUE
            BY <2>6, <5>1
          <5> QED BY <2>11, <3>7, <5>1, <5>2
        <4> QED BY <4>1, <4>2
      <3>10. MapsTally(rc.base) => MapsTally(B)
        <4>1. \A j \in I : rc.refs[Item(j)] \notin DOMAIN rc.work.r2m
          BY <2>13, <3>2, <3>3
        <4> QED BY <2>7, <3>1, <4>1 DEF CopyIsPlaced
      <3> QED
        BY <2>9, <3>5, <3>6, <3>8, <3>9, <3>10 DEF CopyIsPlaced
    <2>15. Fresh(rc.base)' => Fresh(rc.base)
      BY <2>9 DEF Fresh, Self
    <2>16. /\ \A x \in DOMAIN rc'.refs : rc'.refs[x].name = x
           /\ (\A j, k \in DOMAIN Items[rc.r] : Item(j) = Item(k) => j = k)'
      BY <1>0, <2>9 DEF PlacingOK, Binding3, Item
    <2> QED
      BY <1>0, <2>5, <2>9, <2>14, <2>15, <2>16 DEF PlacingOK
  <1> QED
    BY <1>1, <1>2, <1>3

\* Every step keeps the working copy what has been placed.
LEMMA PlacingStep ==
    ASSUME Safe, PlacingOK, [Next]_vars
    PROVE  PlacingOK'
  <1>0. TypeOK /\ RequestTypeOK
    BY DEF Safe, TypeOK
  <1>1. CASE rc' = rc
    BY <1>1 DEF PlacingOK, CopyIsPlaced, PlacedRefs, Remaining, Fresh, Self, Item
  <1>2. CASE rc' = RIdle
    BY <1>2 DEF PlacingOK, RIdle, Binding3
  <1>3. ASSUME NEW r \in Request, RequestNotRequired(r)
        PROVE  PlacingOK'
    <2>1. /\ rc'.pc = "relation" /\ rc'.r = r
          /\ rc'.refs = [x \in listResources(r) |-> ResRef(x, SeenResources[x])]
          /\ AllCreated(r)
      BY <1>3 DEF RequestNotRequired, RIdle
    <2>2. \A x \in DOMAIN rc'.refs : rc'.refs[x].name = x
      BY <2>1
    <2> QED
      BY <2>1, <2>2 DEF PlacingOK, AllCreated, Item
  <1>4. ASSUME NEW r \in Request, RequestNoResources(r)
        PROVE  PlacingOK'
    BY <1>4 DEF RequestNoResources, RIdle, PlacingOK, Binding3
  <1>5. ASSUME RequestReadRelationship
        PROVE  PlacingOK'
    <2>1. rc'.pc = "machines" /\ rc'.refs = rc.refs /\ rc'.r = rc.r /\ rc.pc = "relation"
      BY <1>0, <1>5 DEF RequestReadRelationship, RequestTypeOK
    <2> QED
      BY <2>1 DEF PlacingOK, Binding3, Item
  <1>6. ASSUME RequestRelease
        PROVE  PlacingOK'
    <2>1. rc'.pc = "finalizer"
      BY <1>0, <1>6 DEF RequestRelease, RequestTypeOK
    <2> QED
      BY <2>1 DEF PlacingOK, Binding3
  <1> QED
    BY <1>0, <1>1, <1>2, <1>3, <1>4, <1>5, <1>6, SchedulerMoves, ListedPlacing, BindsPlacing

\* Every step keeps a machine that is being taken out free of resources, as far
\* as the Relationship says that was read (the check of reconcileShutdown).
LEMMA TakenOutStep ==
    ASSUME Safe, TakenOutEmpty, [Next]_vars
    PROVE  TakenOutEmpty'
  <1> USE DEF machineVars
  <1>0. MachineTypeOK
    BY DEF Safe, TypeOK
  <1>1. CASE mc' = mc
    BY <1>1 DEF TakenOutEmpty
  <1>2. CASE mc' = MIdle
    BY <1>2 DEF TakenOutEmpty, MIdle
  <1>3. ASSUME NEW m \in Machine, MachineBegin(m)
        PROVE  TakenOutEmpty'
    <2>1. CASE MachineTryLock(m) \/ MachineCreateUploadDaemon(m)
      BY <2>1 DEF MachineTryLock, MachineCreateUploadDaemon, TakenOutEmpty, MIdle
    <2>2. CASE MachineShutdown(m)
      BY <2>2 DEF MachineShutdown, TakenOutEmpty
    <2> QED
      BY <1>1, <1>3, <2>1, <2>2
      DEF MachineBegin, MachineAddFinalizer, MachineBeginShutdown, MachineBeginStarting,
          MachineRegister
  <1>4. ASSUME MachineContinue
        PROVE  TakenOutEmpty'
    <2>1. CASE MachineUnlock
      BY <1>0, <2>1 DEF MachineUnlock, TakenOutEmpty, MachineTypeOK
    <2>2. CASE MachineDeleteUploadDaemon
      BY <1>0, <2>2 DEF MachineDeleteUploadDaemon, TakenOutEmpty, MachineTypeOK
    <2>3. CASE MachineUnregister
      BY <1>0, <2>3 DEF MachineUnregister, TakenOutEmpty, MachineTypeOK
    <2> QED
      BY <1>2, <1>4, <2>1, <2>2, <2>3
      DEF MachineContinue, MachineReady, MachineSetUploadPort, MachineRemoveFinalizer,
          MachineConflict
  <1>5. \/ mc' = mc \/ mc' = MIdle
        \/ \E m \in Machine : MachineBegin(m)
        \/ MachineContinue
    BY DEF Next, vars, localVars, RequestStep, RequestOngoing, ResourceStep, ResourceOngoing,
           MachineStep, MachineOngoing, RelationshipStep, Watch, CreateRequest,
           DeleteRequest, DeleteMachine, DeleteNamespacedResource, CollectGarbage,
           Crash, Panic, Restart
  <1> QED
    BY <1>1, <1>2, <1>3, <1>4, <1>5

\* The writes of the other controllers keep the maps in agreement.
LEMMA OthersTally ==
    ASSUME Safe, TakenOutEmpty, MapsAgree, OthersWrite
    PROVE  MapsAgree'
  <1>1. RelationshipOK(rel) /\ RelationshipOK(SeenRel) /\ RelationshipOK(mc.base)
    BY SeenOK DEF Safe, TypeOK, ControlPlaneTypeOK, MachineTypeOK
  <1>2. ASSUME NEW seen, NEW R, RelationshipOK(R), UpdateRelationship(seen, R), MapsTally(R)
        PROVE  MapsAgree'
    <2>1. rel'.m2r = R.m2r /\ rel'.r2m = R.r2m /\ rel'.keys = R.keys
      BY <1>2 DEF UpdateRelationship, RelationshipOK
    <2> QED
      BY <1>2, <2>1 DEF MapsAgree, MapsTally
  <1>3. CASE rel' = rel
    BY <1>3 DEF MapsAgree, MapsTally
  <1>4. CASE WriteInitialized
    <2> DEFINE R == [SeenRel EXCEPT !.init = TRUE]
    <2>1. RelationshipOK(R) /\ UpdateRelationship(SeenRel, R) /\ rel = SeenRel
      BY <1>1, <1>4, InitializedOK DEF WriteInitialized, UpdateRelationship
    <2>2. R.m2r = SeenRel.m2r /\ R.keys = SeenRel.keys /\ R.r2m = SeenRel.r2m
      BY <1>1 DEF RelationshipOK
    <2> HIDE DEF R
    <2>3. MapsTally(R)
      BY <2>1, <2>2 DEF MapsAgree, MapsTally
    <2> QED BY <1>2, <2>1, <2>3
  <1>5. CASE WriteRegistered
    <2>1. PICK n \in Machine : UpdateRelationship(SeenRel, [SeenRel EXCEPT !.keys = @ \cup {n}])
      BY <1>5 DEF WriteRegistered
    <2> DEFINE R == [SeenRel EXCEPT !.keys = @ \cup {n}]
    <2>2. RelationshipOK(R) /\ UpdateRelationship(SeenRel, R) /\ rel = SeenRel
      BY <1>1, <2>1, RegisteredOK DEF UpdateRelationship
    <2>3. R.m2r = SeenRel.m2r /\ R.keys = SeenRel.keys \cup {n} /\ R.r2m = SeenRel.r2m
      BY <1>1 DEF RelationshipOK
    <2> HIDE DEF R
    <2>4. MapsTally(R)
      BY <2>2, <2>3 DEF MapsAgree, MapsTally
    <2> QED BY <1>2, <2>2, <2>4
  <1>6. CASE WriteUnregistered
    <2> DEFINE R == [mc.base EXCEPT !.keys = @ \ {mc.m}, !.m2r[mc.m] = {}]
    <2>1. RelationshipOK(R) /\ UpdateRelationship(mc.base, R) /\ rel = mc.base
      BY <1>1, <1>6, UnregisteredOK DEF WriteUnregistered, UpdateRelationship
    <2>2. /\ R.m2r = [mc.base.m2r EXCEPT ![mc.m] = {}] /\ R.keys = mc.base.keys \ {mc.m}
          /\ R.r2m = mc.base.r2m
      BY <1>1 DEF RelationshipOK
    <2>3. mc.base.m2r[mc.m] = {} /\ mc.m \in Machine
      BY <1>6 DEF WriteUnregistered, TakenOutEmpty
    <2> HIDE DEF R
    <2>4. \A m \in Machine : R.m2r[m] = rel.m2r[m]
      <3>1. mc.base.m2r = [m \in Machine |-> mc.base.m2r[m]]
        BY <1>1 DEF RelationshipOK
      <3> QED BY <2>1, <2>2, <2>3, <3>1
    <2>5. \A k \in DOMAIN rel.r2m : rel.r2m[k].machine \in Machine
      BY <1>1 DEF RelationshipOK
    <2>6. MapsTally(R)
      BY <2>1, <2>2, <2>3, <2>4, <2>5 DEF MapsAgree, MapsTally
    <2> QED BY <1>2, <2>1, <2>6
  <1>7. CASE WriteReleased
    <2>1. PICK k \in DOMAIN SeenRel.r2m : UpdateRelationship(SeenRel, Released(SeenRel, k))
      BY <1>7 DEF WriteReleased
    <2> DEFINE R == Released(SeenRel, k)
    <2>2. RelationshipOK(R) /\ UpdateRelationship(SeenRel, R) /\ rel = SeenRel
      BY <1>1, <2>1, ReleasedOK DEF UpdateRelationship
    <2>3. /\ R.keys = SeenRel.keys
          /\ R.r2m = [j \in DOMAIN SeenRel.r2m \ {k} |-> SeenRel.r2m[j]]
          /\ \A m \in Machine : R.m2r[m] = IF m = SeenRel.r2m[k].machine
                                           THEN {e \in SeenRel.m2r[m] : e.ref # k}
                                           ELSE SeenRel.m2r[m]
      BY <1>1 DEF RelationshipOK, Released
    <2> HIDE DEF R
    <2>4. \A m \in Machine : \A e \in R.m2r[m] : e \in rel.m2r[m] /\ e.ref # k
      <3> SUFFICES ASSUME NEW m \in Machine, NEW e \in R.m2r[m]
                   PROVE  e \in rel.m2r[m] /\ e.ref # k
        OBVIOUS
      <3>1. e \in rel.m2r[m]
        BY <2>2, <2>3
      <3>2. rel.r2m[e.ref] = [machine |-> m, binding |-> e.binding]
        BY <3>1 DEF MapsAgree, MapsTally
      <3>3. rel.r2m[e.ref].machine = m
        BY <3>2
      <3>4. CASE m = SeenRel.r2m[k].machine
        BY <2>3, <3>1, <3>4
      <3>5. CASE m # SeenRel.r2m[k].machine
        BY <2>2, <3>1, <3>3, <3>5
      <3> QED BY <3>4, <3>5
    <2>5. ASSUME NEW j \in DOMAIN R.r2m
          PROVE  [ref |-> j, binding |-> R.r2m[j].binding] \in R.m2r[R.r2m[j].machine]
      <3>1. j \in DOMAIN rel.r2m /\ j # k /\ R.r2m[j] = rel.r2m[j]
        BY <2>2, <2>3
      <3>2. [ref |-> j, binding |-> rel.r2m[j].binding] \in rel.m2r[rel.r2m[j].machine]
        BY <3>1 DEF MapsAgree, MapsTally
      <3>3. rel.r2m[j].machine \in Machine
        BY <1>1, <3>1 DEF RelationshipOK
      <3> QED BY <2>2, <2>3, <3>1, <3>2, <3>3
    <2>6. \A m \in Machine : \A e \in R.m2r[m] :
             /\ m \in R.keys /\ e.ref \in DOMAIN R.r2m
             /\ R.r2m[e.ref] = [machine |-> m, binding |-> e.binding]
      <3> SUFFICES ASSUME NEW m \in Machine, NEW e \in R.m2r[m]
                   PROVE  /\ m \in R.keys /\ e.ref \in DOMAIN R.r2m
                          /\ R.r2m[e.ref] = [machine |-> m, binding |-> e.binding]
        OBVIOUS
      <3>1. /\ m \in rel.keys /\ e.ref \in DOMAIN rel.r2m /\ e.ref # k
            /\ rel.r2m[e.ref] = [machine |-> m, binding |-> e.binding]
        BY <2>4 DEF MapsAgree, MapsTally
      <3> QED BY <2>2, <2>3, <3>1
    <2>7. MapsTally(R)
      BY <2>5, <2>6 DEF MapsTally
    <2> QED BY <1>2, <2>2, <2>7
  <1> QED
    BY <1>3, <1>4, <1>5, <1>6, <1>7 DEF OthersWrite

\* At its write the scheduler knows a Relationship in which nothing is bound to
\* its request, and so its working copy is that Relationship and what it placed.
LEMMA FreshAtCommit ==
    ASSUME Safe, KnownAreAccepted, HoldersLive, PlacingOK, WriteAccepted
    PROVE  Fresh(rc.base) /\ CopyIsPlaced
  <1>1. rc.pc = "bind" /\ rel = rc.base
    BY AcceptedKeeps DEF Safe
  <1>2. Self \notin rel.accepted
    BY <1>1 DEF HoldersLive
  <1>3. DOMAIN rel.r2m \subseteq Known
    BY DEF Known
  <1>4. \A k \in DOMAIN rel.r2m : k.owner # Self
    BY <1>1, <1>2, <1>3 DEF KnownAreAccepted, Binding3
  <1> QED
    BY <1>1, <1>4 DEF Fresh, PlacingOK

\* Every step keeps the two maps of the Relationship in agreement.
LEMMA MapsStep ==
    ASSUME Safe, KnownAreAccepted, HoldersLive, PlacingOK, TakenOutEmpty, MapsAgree, [Next]_vars
    PROVE  MapsAgree'
  <1>0. TypeOK /\ WorkingCopyOK
    BY DEF Safe
  <1>1. CASE OthersWrite
    BY <1>1, OthersTally
  <1>2. CASE WriteAccepted
    <2>1. /\ rel = rc.base /\ rel'.r2m = rc.work.r2m /\ rel'.m2r = rc.work.m2r
          /\ rel'.keys = rc.work.keys
      BY <1>0, <1>2, AcceptedKeeps
    <2>2. MapsTally(rc.work)
      BY <1>2, <2>1, FreshAtCommit DEF CopyIsPlaced, MapsAgree
    <2> QED
      BY <2>1, <2>2 DEF MapsAgree, MapsTally
  <1>3. CASE RequestRelease
    <2>1. rel'.r2m = rel.r2m /\ rel'.m2r = rel.m2r /\ rel'.keys = rel.keys
      BY <1>0, <1>3, WithdrawnKeeps DEF RequestRelease, WriteWithdrawn
    <2> QED
      BY <2>1 DEF MapsAgree, MapsTally
  <1>4. CASE rel' = rel
    BY <1>4, <1>1 DEF OthersWrite
  <1> QED
    BY <1>0, <1>1, <1>2, <1>3, <1>4, SchedulerMoves
    DEF RequestNotRequired, RequestNoResources, RequestReadRelationship,
        RequestListMachines, RequestBindGroup, storeVars

(***************************************************************************)
(* Resources.                                                              *)
(***************************************************************************)

\* The object p is the resource o with the same UID.
SameResource(o, p) == p.inc = o.inc /\ p.owner = o.owner

\* The finalizer of x is the one that the worker is about to remove.
Leaving(x) == tc.pc = "finalizer" /\ tc.x = x /\ resources[x] = tc.obj

\* What a step does to the object of resource x, as far as its machine goes: the
\* resource has none afterwards, as its finalizer was not there or is removed, or
\* had it before, or is bound as it is seen.
LEMMA ResourcesMove ==
    ASSUME TypeOK, [Next]_vars, NEW x \in Resource
    PROVE  LET o == resources[x]
               p == resources'[x] IN
           \/ p = o
           \/ ~IsRequired(p) /\ (IsRequired(o) => ~o.fin \/ Leaving(x)) /\ rel' = rel
           \/ IsRequired(o) /\ IsRequired(p) /\ SameResource(o, p) /\ (o.fin => p.fin)
           \/ /\ IsRequired(p) /\ SameResource(o, p) /\ p.fin
              /\ ResRef(x, p) \in DOMAIN SeenRel.r2m /\ rel' = rel
  <1> DEFINE o == resources[x]
             p == resources'[x]
             Goal == \/ p = o
                     \/ ~IsRequired(p) /\ (IsRequired(o) => ~o.fin \/ Leaving(x)) /\ rel' = rel
                     \/ /\ IsRequired(o) /\ IsRequired(p)
                        /\ SameResource(o, p) /\ (o.fin => p.fin)
                     \/ /\ IsRequired(p) /\ SameResource(o, p) /\ p.fin
                        /\ ResRef(x, p) \in DOMAIN SeenRel.r2m /\ rel' = rel
  <1>0. resources \in [Resource -> ResourceObject]
    BY DEF TypeOK, ControlPlaneTypeOK
  <1>1. ASSUME NEW y \in Resource, DeleteResource(y)
        PROVE  Goal
    <2>1. CASE resources[y].fin
      <3>1. resources'[y] = [resources[y] EXCEPT !.del = TRUE] /\ rel' = rel
        BY <1>0, <1>1, <2>1 DEF DeleteResource, DeletedResource
      <3>2. \A n \in Resource \ {y} : resources'[n] = resources[n]
        BY <1>0, <1>1 DEF DeleteResource
      <3>3. /\ resources'[y].inc = resources[y].inc /\ resources'[y].owner = resources[y].owner
            /\ resources'[y].state = resources[y].state /\ resources'[y].fin = resources[y].fin
        BY <1>0, <3>1 DEF ResourceObject
      <3> QED BY <3>1, <3>2, <3>3 DEF SameResource, IsRequired
    <2>2. CASE ~resources[y].fin
      <3>1. resources'[y].state = "absent" /\ rel' = rel
        BY <1>0, <1>1, <2>2 DEF DeleteResource, DeletedResource, AbsentResource
      <3>2. \A n \in Resource \ {y} : resources'[n] = resources[n]
        BY <1>0, <1>1 DEF DeleteResource
      <3> QED BY <2>2, <3>1, <3>2 DEF IsRequired
    <2> QED BY <2>1, <2>2
  <1>2. ASSUME NEW r \in Request, RequestBegin(r)
        PROVE  Goal
    <2>1. ASSUME NEW y \in Resource, RequestCreateResource(r, y)
          PROVE  Goal
      <3>1. resources'[y].state = "" /\ resources[y].state = "absent" /\ rel' = rel
        BY <1>0, <2>1 DEF RequestCreateResource, AbsentResource
      <3>2. \A n \in Resource \ {y} : resources'[n] = resources[n]
        BY <1>0, <2>1 DEF RequestCreateResource
      <3> QED BY <3>1, <3>2 DEF IsRequired
    <2>2. ASSUME NEW y \in Resource, RequestDeleteResource(r, y)
          PROVE  Goal
      BY <1>1, <2>2 DEF RequestDeleteResource
    <2> QED
      BY <1>2, <2>1, <2>2
      DEF RequestBegin, RequestAddFinalizer, RequestBeginPending, RequestReady,
          RequestNotRequired, RequestNoResources, UpdateRequest, storeVars
  <1>3. ASSUME RequestContinue
        PROVE  resources' = resources
    BY <1>3 DEF RequestContinue, RequestWait, RequestReadRelationship, RequestListMachines,
                RequestNoExplicitMachine, RequestBindGroup, RequestCommit, RequestRelease,
                RequestRemoveFinalizer, RequestConflict, UpdateRequest, UpdateRelationship,
                storeVars
  <1>4. ASSUME NEW y \in Resource, ResourceBegin(y)
        PROVE  Goal
    <2>1. CASE ResourceAddFinalizer(y)
      <3>1. resources'[y] = [resources[y] EXCEPT !.fin = TRUE] /\ rel' = rel
        BY <1>0, <2>1 DEF ResourceAddFinalizer, UpdateResource
      <3>2. \A n \in Resource \ {y} : resources'[n] = resources[n]
        BY <1>0, <2>1 DEF ResourceAddFinalizer, UpdateResource
      <3>3. /\ resources'[y].inc = resources[y].inc /\ resources'[y].owner = resources[y].owner
            /\ resources'[y].state = resources[y].state /\ resources'[y].fin = TRUE
        BY <1>0, <3>1 DEF ResourceObject
      <3> QED BY <3>1, <3>2, <3>3 DEF SameResource, IsRequired
    <2>2. CASE ResourceBeginPending(y)
      <3>1. resources'[y] = [resources[y] EXCEPT !.state = "pending"]
        BY <1>0, <2>2 DEF ResourceBeginPending, UpdateResource
      <3>2. \A n \in Resource \ {y} : resources'[n] = resources[n]
        BY <1>0, <2>2 DEF ResourceBeginPending, UpdateResource
      <3>3. resources'[y].state = "pending"
        BY <1>0, <3>1 DEF ResourceObject
      <3>4. resources[y].state = "" /\ rel' = rel
        BY <2>2 DEF ResourceBeginPending, UpdateResource
      <3> QED BY <3>2, <3>3, <3>4 DEF IsRequired
    <2>3. CASE ResourcePending(y)
      <3>1. /\ resources'[y] = [resources[y] EXCEPT !.state = "uninitialized"]
            /\ resources[y] = SeenResources[y] /\ resources[y].fin /\ rel' = rel
            /\ ResRef(y, resources[y]) \in DOMAIN SeenRel.r2m
        BY <1>0, <2>3 DEF ResourcePending, UpdateResource
      <3>2. \A n \in Resource \ {y} : resources'[n] = resources[n]
        BY <1>0, <2>3 DEF ResourcePending, UpdateResource
      <3>3. /\ resources'[y].inc = resources[y].inc /\ resources'[y].owner = resources[y].owner
            /\ resources'[y].fin = resources[y].fin /\ resources'[y].state = "uninitialized"
        <4>1. resources[y] \in ResourceObject
          BY <1>0
        <4>2. resources'[y] = [resources[y] EXCEPT !.state = "uninitialized"]
          BY <3>1
        <4> QED BY <4>1, <4>2 DEF ResourceObject
      <3> QED BY <3>1, <3>2, <3>3 DEF SameResource, IsRequired
    <2> QED
      BY <1>4, <2>1, <2>2, <2>3
      DEF ResourceBegin, ResourceRelease, ResourceSkipRelease, UpdateRelationship, storeVars
  <1>5. ASSUME ResourceContinue
        PROVE  Goal
    <2>0. ResourceTypeOK
      BY DEF TypeOK
    <2>1. CASE ResourceRemoveFinalizer
      <3>1. /\ resources'[tc.x].state = "absent" /\ tc.x \in Resource
            /\ rel' = rel /\ Leaving(tc.x)
        BY <1>0, <2>0, <2>1
        DEF ResourceRemoveFinalizer, UpdateResource, AbsentResource, ResourceTypeOK, Leaving
      <3>2. \A n \in Resource \ {tc.x} : resources'[n] = resources[n]
        BY <1>0, <2>1 DEF ResourceRemoveFinalizer, UpdateResource
      <3> QED BY <3>1, <3>2 DEF IsRequired
    <2> QED
      BY <1>5, <2>1 DEF ResourceContinue, ResourceConflict, storeVars
  <1>6. ASSUME NEW m \in Machine, MachineBegin(m)
        PROVE  resources' = resources
    BY <1>6 DEF MachineBegin, MachineAddFinalizer, MachineBeginShutdown, storeVars,
                MachineBeginStarting, MachineTryLock, MachineCreateUploadDaemon,
                MachineRegister, MachineShutdown, UpdateMachine, UpdateRelationship
  <1>7. ASSUME MachineContinue
        PROVE  resources' = resources
    BY <1>7 DEF MachineContinue, MachineReady, MachineSetUploadPort, MachineUnlock,
                MachineDeleteUploadDaemon, MachineUnregister, MachineRemoveFinalizer,
                MachineConflict, UpdateMachine, UpdateRelationship, storeVars
  <1>8. \/ resources' = resources
        \/ \E y \in Resource : DeleteResource(y) \/ ResourceBegin(y)
        \/ \E r \in Request : RequestBegin(r)
        \/ ResourceContinue
    BY <1>3, <1>6, <1>7
    DEF Next, vars, storeVars, RequestStep, RequestOngoing, ResourceStep, ResourceOngoing,
        MachineStep, MachineOngoing, RelationshipStep, RelationshipReconcile, Watch,
        WatchEvent, CreateRequest, DeleteRequest, DeleteMachine, UpdateRelationship,
        DeleteNamespacedResource, CollectGarbage, Crash, Panic, Restart
  <1> QED
    BY <1>1, <1>2, <1>4, <1>5, <1>8

\* The worker of the resource controller stays as it is or ends its call, or
\* takes a resource that it sees to be deleted: one whose binding it gives back
\* or one that it sees not to be bound.
LEMMA ResourceWorkerMoves ==
    ASSUME TypeOK, [Next]_vars
    PROVE  \/ tc' \in {tc, TIdle}
           \/ \E x \in Resource :
                 /\ tc' = [pc |-> "finalizer", x |-> x, obj |-> SeenResources[x]]
                 /\ SeenResources[x].del
                 /\ UNCHANGED <<resources, requests, cache, rc>>
                 /\ \/ ResRef(x, SeenResources[x]) \notin DOMAIN rel'.r2m
                    \/ rel' = rel /\ ResRef(x, SeenResources[x]) \notin DOMAIN SeenRel.r2m
  <1>1. ASSUME NEW x \in Resource, ResourceRelease(x)
        PROVE  ResRef(x, SeenResources[x]) \notin DOMAIN rel'.r2m
    <2> DEFINE k == ResRef(x, SeenResources[x])
    <2>1. RelationshipOK(SeenRel) /\ k \in DOMAIN SeenRel.r2m
      BY <1>1, SeenOK DEF TypeOK, ResourceRelease
    <2>2. RelationshipOK(Released(SeenRel, k))
      BY <2>1, ReleasedOK
    <2>3. rel'.r2m = Released(SeenRel, k).r2m
      BY <1>1, <2>2, Stored DEF ResourceRelease
    <2>4. Released(SeenRel, k).r2m = [j \in DOMAIN SeenRel.r2m \ {k} |-> SeenRel.r2m[j]]
      BY <2>1 DEF Released, RelationshipOK
    <2> QED
      BY <2>3, <2>4
  <1>2. ASSUME NEW x \in Resource, ResourceBegin(x), UNCHANGED <<rc, machineVars, crashes>>
        PROVE  \/ tc' = tc
               \/ /\ tc' = [pc |-> "finalizer", x |-> x, obj |-> SeenResources[x]]
                  /\ SeenResources[x].del
                  /\ UNCHANGED <<resources, requests, cache, rc>>
                  /\ \/ ResRef(x, SeenResources[x]) \notin DOMAIN rel'.r2m
                     \/ rel' = rel /\ ResRef(x, SeenResources[x]) \notin DOMAIN SeenRel.r2m
    <2>1. CASE ResourceRelease(x)
      BY <1>1, <1>2, <2>1 DEF ResourceRelease, UpdateRelationship
    <2>2. CASE ResourceSkipRelease(x)
      BY <1>2, <2>2 DEF ResourceSkipRelease, storeVars
    <2> QED
      BY <1>2, <2>1, <2>2
      DEF ResourceBegin, ResourceAddFinalizer, ResourceBeginPending, ResourcePending
  <1> QED
    BY <1>2
    DEF Next, vars, localVars, RequestStep, RequestOngoing, ResourceStep, ResourceOngoing,
        MachineStep, MachineOngoing, RelationshipStep, Watch, CreateRequest,
        DeleteRequest, DeleteMachine, DeleteNamespacedResource, CollectGarbage,
        ResourceContinue, ResourceRemoveFinalizer, ResourceConflict, Crash, Panic, Restart


(***************************************************************************)
(* Every binding belongs to an accepted request, or to one that is gone.   *)
(***************************************************************************)

\* A step makes no reference known but those that the scheduler writes.
LEMMA KnownMoves ==
    ASSUME Safe, KnownAreAccepted, HoldersLive, PlacingOK, [Next]_vars
    PROVE  /\ \A k \in Known' : k \in Known \/ (WriteAccepted /\ k \in PlacedRefs)
           /\ \A k \in DOMAIN rel'.r2m :
                 k \in DOMAIN rel.r2m \/ (WriteAccepted /\ k \in PlacedRefs)
  <1>0. TypeOK
    BY DEF Safe
  <1>1. ASSUME NEW k \in DOMAIN rel'.r2m
        PROVE  k \in DOMAIN rel.r2m \/ (WriteAccepted /\ k \in PlacedRefs)
    <2>1. CASE OthersWrite
      BY <1>0, <1>1, <2>1, OthersKeep
    <2>2. CASE rel' = rel
      BY <1>1, <2>2
    <2>3. CASE WriteAccepted
      <3>1. rel = rc.base /\ rel'.r2m = rc.work.r2m
        BY <2>3, AcceptedKeeps DEF Safe
      <3>2. DOMAIN rc.work.r2m = DOMAIN rc.base.r2m \cup PlacedRefs
        BY <2>3, FreshAtCommit DEF CopyIsPlaced
      <3> QED BY <1>1, <2>3, <3>1, <3>2
    <2>4. CASE RequestRelease
      BY <1>0, <1>1, <2>4, WithdrawnKeeps DEF RequestRelease, WriteWithdrawn
    <2>5. ASSUME NEW r \in Request, RequestNotRequired(r) \/ RequestNoResources(r)
          PROVE  rel' = rel
      BY <2>5 DEF RequestNotRequired, RequestNoResources, storeVars
    <2>6. RequestReadRelationship \/ RequestListMachines \/ RequestBindGroup => rel' = rel
      BY DEF RequestReadRelationship, RequestListMachines, RequestBindGroup, storeVars
    <2> QED
      BY <1>0, <2>1, <2>2, <2>3, <2>4, <2>5, <2>6, SchedulerMoves
  <1>2. ASSUME NEW x \in Resource, IsRequired(resources'[x])
        PROVE  ResRef(x, resources'[x]) \in Known
    <2>1. IsRequired(resources[x]) => ResRef(x, resources[x]) \in Known
      BY DEF Known
    <2>2. DOMAIN SeenRel.r2m \subseteq Known
      BY DEF Known
    <2> QED
      BY <1>0, <1>2, <2>1, <2>2, ResourcesMove DEF SameResource
  <1>3. ASSUME NEW k \in DOMAIN SeenRel'.r2m
        PROVE  k \in Known \/ (WriteAccepted /\ k \in PlacedRefs)
    BY <1>0, <1>1, <1>3, SeenMoves DEF Known
  <1>4. ASSUME NEW x \in Resource, IsRequired(SeenResources'[x])
        PROVE  ResRef(x, SeenResources'[x]) \in Known
    <2>1. IsRequired(SeenResources[x]) => ResRef(x, SeenResources[x]) \in Known
      BY DEF Known
    <2> QED BY <1>0, <1>2, <1>4, <2>1, SeenMoves
  <1>5. ASSUME tc'.pc = "finalizer", IsRequired(tc'.obj)
        PROVE  ResRef(tc'.x, tc'.obj) \in Known
    <2>1. CASE tc' = tc
      BY <1>5, <2>1 DEF Known
    <2>2. CASE tc' = TIdle
      BY <1>5, <2>2 DEF TIdle
    <2>3. ASSUME NEW x \in Resource,
                 tc' = [pc |-> "finalizer", x |-> x, obj |-> SeenResources[x]]
          PROVE  ResRef(tc'.x, tc'.obj) \in Known
      BY <1>5, <2>3 DEF Known
    <2> QED BY <1>0, <2>1, <2>2, <2>3, ResourceWorkerMoves
  <1>6. \A k \in DOMAIN rel'.r2m : k \in Known \/ (WriteAccepted /\ k \in PlacedRefs)
    BY <1>1 DEF Known
  <1>7. \A k \in Known' : k \in Known \/ (WriteAccepted /\ k \in PlacedRefs)
    <2> DEFINE P(k) == k \in Known \/ (WriteAccepted /\ k \in PlacedRefs)
    <2>1. \A k \in DOMAIN rel'.r2m \cup DOMAIN SeenRel'.r2m : P(k)
      BY <1>3, <1>6
    <2>2. \A x \in Resource : IsRequired(resources'[x]) => P(ResRef(x, resources'[x]))
      BY <1>2
    <2>3. \A x \in Resource : IsRequired(SeenResources'[x]) => P(ResRef(x, SeenResources'[x]))
      BY <1>4
    <2>4. tc'.pc = "finalizer" /\ IsRequired(tc'.obj) => P(ResRef(tc'.x, tc'.obj))
      BY <1>5
    <2> HIDE DEF P
    <2>5. \A k \in Known' : P(k)
      BY <2>1, <2>2, <2>3, <2>4 DEF Known, IsRequired
    <2> QED BY <2>5 DEF P
  <1> QED BY <1>1, <1>7

\* Every step keeps bindings with requests that are accepted or known to go.
LEMMA KnownStep ==
    ASSUME Safe, CacheBehind, KnownAreAccepted, HoldersLive, PlacingOK, [Next]_vars
    PROVE  KnownAreAccepted'
  <1>0. TypeOK /\ (rc.pc = "finalizer" => Gone(Self)) /\ RIdle.pc = "idle"
    BY DEF Safe, HoldersLive, RIdle
  <1> SUFFICES ASSUME NEW k \in Known'
               PROVE  /\ k \in ResourceRef
                      /\ k.owner \in rel'.accepted \/ Gone(k.owner)'
                      /\ rc'.pc \in Binding3 /\ k.owner = Self' => Self' \in rel'.accepted
    BY DEF KnownAreAccepted
  <1>1. k \in Known \/ (WriteAccepted /\ k \in PlacedRefs)
    BY KnownMoves
  <1>2. ASSUME k \in Known
        PROVE  /\ k \in ResourceRef /\ k.owner \in RequestRef
               /\ k.owner \in rel.accepted \/ Gone(k.owner)'
               /\ k.owner \in rel.accepted \/ Gone(k.owner)
               /\ rc.pc \in Binding3 /\ k.owner = Self => Self \in rel.accepted
    <2>1. /\ k \in ResourceRef
          /\ k.owner \in rel.accepted \/ Gone(k.owner)
          /\ rc.pc \in Binding3 /\ k.owner = Self => Self \in rel.accepted
      BY <1>2 DEF KnownAreAccepted
    <2>2. k.owner \in RequestRef
      BY <2>1 DEF ResourceRef
    <2>3. PICK q \in RequestRef : q = k.owner
      BY <2>2
    <2>4. Gone(q) => Gone(q)'
      BY <1>0, GoneStays
    <2> QED BY <2>1, <2>2, <2>3, <2>4
  <1>3. CASE rc' \in {rc, RIdle} /\ OthersWrite
    <2>1. rel'.accepted = rel.accepted
      BY <1>0, <1>3, OthersKeep
    <2>2. ~WriteAccepted \/ rel'.accepted = rc.work.accepted \cup {Self}
      BY AcceptedKeeps DEF Safe
    <2>3. CASE k \in Known
      BY <1>0, <1>2, <1>3, <2>1, <2>3 DEF Binding3, Self
    <2>4. CASE WriteAccepted /\ k \in PlacedRefs
      <3>1. rc.pc \in Binding3
        BY <2>4 DEF WriteAccepted, AllPlaced, Binding3
      <3>2. k \in ResourceRef /\ k.owner = Self
        BY <1>0, <2>4, <3>1, RefsAreDistinct DEF PlacedRefs, Safe
      <3> QED BY <1>0, <1>3, <2>1, <2>2, <2>4, <3>2 DEF Binding3, Self
    <2> QED BY <1>1, <2>3, <2>4
  <1>4. ASSUME NEW r \in Request, RequestNotRequired(r)
        PROVE  /\ k \in ResourceRef
               /\ k.owner \in rel'.accepted \/ Gone(k.owner)'
               /\ rc'.pc \in Binding3 /\ k.owner = Self' => Self' \in rel'.accepted
    <2>1. /\ rel' = rel /\ k \in Known
          /\ rc'.r = r /\ rc'.obj = SeenRequests[r]
          /\ ~SeenRequests[r].del /\ SeenRequests[r].state = "pending"
      BY <1>1, <1>4 DEF RequestNotRequired, PendingWithOwnResources, RIdle, storeVars,
                        WriteAccepted, AllPlaced
    <2>2. SeenRequests[r] \in RequestObject
      BY <1>0, SeenOK DEF TypeOK
    <2>5. SeenRequests[r].gen \in Nat
      BY <2>2 DEF RequestObject
    <2>3. Self' = [name |-> r, gen |-> SeenRequests[r].gen]
      BY <2>1 DEF Self
    <2>4. ~Gone([name |-> r, gen |-> SeenRequests[r].gen])
      BY <2>1, <2>5 DEF Gone, Ended
    <2> QED BY <1>2, <2>1, <2>3, <2>4
  <1>5. ASSUME NEW r \in Request, RequestNoResources(r)
        PROVE  /\ k \in ResourceRef
               /\ k.owner \in rel'.accepted \/ Gone(k.owner)'
               /\ rc'.pc \in Binding3 /\ k.owner = Self' => Self' \in rel'.accepted
    <2>1. rel' = rel /\ rc'.pc = "release" /\ k \in Known
      BY <1>1, <1>5 DEF RequestNoResources, Deleting, RIdle, storeVars, WriteAccepted, AllPlaced
    <2> QED BY <1>2, <2>1 DEF Binding3
  <1>6. CASE RequestReadRelationship \/ RequestListMachines \/ RequestBindGroup
    <2>1. /\ UNCHANGED storeVars
          /\ \/ rc' = RIdle
             \/ rc'.r = rc.r /\ rc'.obj = rc.obj /\ rc.pc \in Binding3
      BY <1>0, <1>6, SchedulerKeeps
    <2>2. rel' = rel
      BY <2>1 DEF storeVars
    <2>3. CASE k \in Known
      BY <1>0, <1>2, <2>1, <2>2, <2>3 DEF Binding3, Self
    <2>4. CASE WriteAccepted /\ k \in PlacedRefs
      <3>1. rel'.accepted = rc.work.accepted \cup {Self} /\ rc.pc = "bind"
        BY <2>4, AcceptedKeeps DEF Safe
      <3>2. k \in ResourceRef /\ k.owner = Self
        BY <1>0, <2>4, <3>1, RefsAreDistinct DEF PlacedRefs, Safe, Binding3
      <3> QED BY <1>0, <2>1, <3>1, <3>2 DEF Self, Binding3
    <2> QED BY <1>1, <2>3, <2>4
  <1>7. CASE WriteAccepted /\ rc' = RIdle
    <2>1. rel'.accepted = rel.accepted \cup {Self} /\ rc.pc = "bind"
      BY <1>7, AcceptedKeeps DEF Safe, PlacingOK
    <2>2. k \in PlacedRefs => k \in ResourceRef /\ k.owner = Self
      BY <1>0, <2>1, RefsAreDistinct DEF PlacedRefs, Safe, Binding3
    <2>3. rc'.pc \notin Binding3
      BY <1>0, <1>7 DEF Binding3
    <2> QED BY <1>1, <1>2, <2>1, <2>2, <2>3
  <1>8. CASE RequestRelease
    <2>1. rel'.accepted = rel.accepted \ {Self}
      BY <1>0, <1>8, WithdrawnKeeps DEF RequestRelease, WriteWithdrawn
    <2>2. rc.pc = "release" /\ rc' = [rc EXCEPT !.pc = "finalizer"] /\ k \in Known
      BY <1>1, <1>8 DEF RequestRelease, WriteAccepted, AllPlaced
    <2>3. PICK q \in RequestRef : q = Self
      BY <1>0, <2>2, SelfIsReference DEF TypeOK
    <2>4. Gone(q)
      BY <2>2, <2>3 DEF HoldersLive
    <2>5. Gone(q)'
      BY <1>0, <2>4, GoneStays
    <2>6. rc'.pc = "finalizer"
      BY <1>0, <2>2 DEF TypeOK, RequestTypeOK
    <2> QED BY <1>2, <2>1, <2>2, <2>3, <2>5, <2>6 DEF Binding3
  <1> QED
    BY <1>0, <1>3, <1>4, <1>5, <1>6, <1>7, <1>8, SchedulerMoves

\* What is known and not bound does not come back: the scheduler binds resources
\* of requests that it has not accepted before.
LEMMA KnownStayFree ==
    ASSUME Safe, KnownAreAccepted, HoldersLive, PlacingOK, [Next]_vars,
           NEW k \in Known, k \notin DOMAIN rel.r2m
    PROVE  k \notin DOMAIN rel'.r2m
  <1>1. SUFFICES ASSUME WriteAccepted, k \in PlacedRefs
                 PROVE  FALSE
    BY KnownMoves
  <1>2. rc.pc = "bind" /\ rel = rc.base
    BY <1>1, AcceptedKeeps DEF Safe
  <1>3. k.owner = Self
    BY <1>1, <1>2, RefsAreDistinct DEF PlacedRefs, Safe, Binding3
  <1> QED
    BY <1>2, <1>3 DEF KnownAreAccepted, HoldersLive, Binding3

\* Every step keeps a resource that is past its binding from being bound.
LEMMA NotBoundStep ==
    ASSUME Safe, KnownAreAccepted, HoldersLive, PlacingOK, NotBoundAgain, [Next]_vars
    PROVE  NotBoundAgain'
  <1> DEFINE Free(k) == k \in Known /\ (k \notin DOMAIN SeenRel.r2m => k \notin DOMAIN rel.r2m)
  <1>0. TypeOK
    BY DEF Safe
  <1>1. ASSUME NEW k, Free(k), k \notin DOMAIN SeenRel'.r2m
        PROVE  k \notin DOMAIN rel'.r2m
    BY <1>0, <1>1, SeenMoves, KnownStayFree
  <1>2. ASSUME NEW x \in Resource, IsRequired(SeenResources[x])
        PROVE  Free(ResRef(x, SeenResources[x]))
    BY <1>2 DEF NotBoundAgain, Known
  <1>3. ASSUME NEW x \in Resource, IsRequired(resources[x])
        PROVE  Free(ResRef(x, resources[x]))
    BY <1>3 DEF NotBoundAgain, Known
  <1>4. ASSUME NEW x \in Resource, IsRequired(resources'[x])
        PROVE  Free(ResRef(x, resources'[x])) /\ resources'[x].fin
    <2>1. DOMAIN SeenRel.r2m \subseteq Known
      BY DEF Known
    <2>2. IsRequired(resources[x]) => resources[x].fin
      BY DEF NotBoundAgain
    <2> QED
      BY <1>0, <1>3, <1>4, <2>1, <2>2, ResourcesMove DEF SameResource
  <1>5. ASSUME tc'.pc = "finalizer", IsRequired(tc'.obj)
        PROVE  ResRef(tc'.x, tc'.obj) \notin DOMAIN rel'.r2m
    <2>1. CASE tc' = tc
      <3>1. PICK k : k = ResRef(tc.x, tc.obj)
        OBVIOUS
      <3>2. k \in Known /\ k \notin DOMAIN rel.r2m
        BY <1>5, <2>1, <3>1 DEF Known, NotBoundAgain
      <3> QED BY <2>1, <3>1, <3>2, KnownStayFree
    <2>2. CASE tc' = TIdle
      BY <1>5, <2>2 DEF TIdle
    <2>3. ASSUME NEW x \in Resource,
                 tc' = [pc |-> "finalizer", x |-> x, obj |-> SeenResources[x]],
                 \/ ResRef(x, SeenResources[x]) \notin DOMAIN rel'.r2m
                 \/ rel' = rel /\ ResRef(x, SeenResources[x]) \notin DOMAIN SeenRel.r2m
          PROVE  ResRef(tc'.x, tc'.obj) \notin DOMAIN rel'.r2m
      BY <1>2, <1>5, <2>3
    <2> QED BY <1>0, <2>1, <2>2, <2>3, ResourceWorkerMoves
  <1> HIDE DEF Free
  <1>6. ASSUME NEW x \in Resource, NEW o \in {resources'[x], SeenResources'[x]}, IsRequired(o),
               ResRef(x, o) \notin DOMAIN SeenRel'.r2m
        PROVE  ResRef(x, o) \notin DOMAIN rel'.r2m
    <2>1. o \in {resources'[x], SeenResources[x]}
      BY <1>0, <1>6, SeenMoves
    <2>2. Free(ResRef(x, o))
      BY <1>2, <1>4, <1>6, <2>1
    <2> QED BY <1>1, <1>6, <2>2
  <1> QED
    BY <1>4, <1>5, <1>6 DEF NotBoundAgain

(***************************************************************************)
(* All together.                                                           *)
(***************************************************************************)

\* At the start nothing is bound, accepted or locked.
LEMMA InitLedger ==
    ASSUME Init
    PROVE  LedgerInv
  <1>1. Safe
    BY InitOK DEF Safe
  <1>2. /\ rel.r2m = <<>> /\ rel.accepted = {} /\ rel.locks = [m \in Machine |-> None]
        /\ rel.m2r = [m \in Machine |-> {}]
        /\ cache.rel = rel
    BY DEF Init, ControlPlaneInit, EmptyRelationship
  <1>3. rc.pc = "idle" /\ tc.pc = "idle" /\ mc.pc = "idle"
    BY DEF Init, RequestInit, ResourceInit, MachineInit, RIdle, TIdle, MIdle
  <1>4. SeenRel = rel /\ DOMAIN rel.r2m = {}
    BY <1>2 DEF SeenRel
  <1>5. ASSUME NEW x \in Resource
        PROVE  resources[x].state = "absent" /\ SeenResources[x].state = "absent"
    BY DEF Init, ControlPlaneInit, AbsentResource, SeenResources
  <1>6. ASSUME NEW r \in Request
        PROVE  requests[r].state = "absent" /\ SeenRequests[r].state = "absent"
               /\ cache.requests[r] = requests[r]
    BY DEF Init, ControlPlaneInit, AbsentRequest, SeenRequests
  <1>7. Known = {}
    BY <1>3, <1>4, <1>5 DEF Known, IsRequired
  <1>8. CacheBehind
    BY <1>6 DEF CacheBehind, NotBefore
  <1>9. KnownAreAccepted /\ HoldersLive /\ PlacingOK
    BY <1>2, <1>3, <1>7 DEF KnownAreAccepted, HoldersLive, PlacingOK, Binding3
  <1>10. TakenOutEmpty /\ MapsAgree
    BY <1>2, <1>3, <1>4 DEF TakenOutEmpty, MapsAgree, MapsTally
  <1>11. NotBoundAgain
    BY <1>3, <1>4, <1>5 DEF NotBoundAgain, IsRequired
  <1> QED
    BY <1>1, <1>8, <1>9, <1>10, <1>11 DEF LedgerInv

\* The invariant is inductive.
LEMMA LedgerStep ==
    ASSUME LedgerInv, [Next]_vars
    PROVE  LedgerInv'
  <1>1. Safe'
    BY StepOK DEF LedgerInv, Safe
  <1>2. CacheBehind' /\ HoldersLive' /\ PlacingOK'
    BY CacheStep, HoldersStep, PlacingStep DEF LedgerInv, Safe
  <1>3. KnownAreAccepted' /\ NotBoundAgain'
    BY KnownStep, NotBoundStep DEF LedgerInv
  <1>4. TakenOutEmpty' /\ MapsAgree'
    BY TakenOutStep, MapsStep DEF LedgerInv
  <1> QED
    BY <1>1, <1>2, <1>3, <1>4 DEF LedgerInv

\* What the caches, the workers and the Relationship say of each other is so in
\* every state.
THEOREM LedgerHolds == Spec => []LedgerInv
  <1>1. Init => LedgerInv
    BY InitLedger
  <1>2. LedgerInv /\ [Next]_vars => LedgerInv'
    BY LedgerStep
  <1> QED
    BY <1>1, <1>2, PTL DEF Spec

\* MachineToResources and ResourceToMachine always tell the same story.
THEOREM MapsAlwaysAgree == Spec => []MapsAgree
  <1>1. LedgerInv => MapsAgree
    BY DEF LedgerInv
  <1> QED
    BY <1>1, LedgerHolds, PTL

\* A lock or an acceptance never outlives its request.
THEOREM NoLockIsOrphaned == Spec => []NoOrphanLock
  <1>1. LedgerInv => NoOrphanLock
    BY DEF LedgerInv, HoldersLive, NoOrphanLock, Holds
  <1> QED
    BY <1>1, LedgerHolds, PTL

\* A resource that has reached its machine goes only when its binding has been
\* given back: it carries its finalizer, and the worker that removes the
\* finalizer has released the binding or found none.
THEOREM RequiredAreReleased == Spec => RequiredGoesReleased
  <1>1. ASSUME LedgerInv, [Next]_vars, NEW x \in Resource, IsRequired(resources[x]),
               resources'[x].state = "absent"
        PROVE  ResRef(x, resources[x]) \notin DOMAIN rel'.r2m
    <2>1. resources[x].fin /\ ~IsRequired(resources'[x])
      BY <1>1 DEF LedgerInv, NotBoundAgain, IsRequired
    <2>2. resources'[x] # resources[x]
      BY <1>1, <2>1
    <2>3. Leaving(x) /\ rel' = rel
      BY <1>1, <2>1, <2>2, ResourcesMove DEF LedgerInv, Safe
    <2> QED
      BY <1>1, <2>3 DEF Leaving, LedgerInv, NotBoundAgain
  <1>2. LedgerInv /\ [Next]_vars =>
            [\A x \in Resource :
                IsRequired(resources[x]) /\ ~Exists(resources'[x]) =>
                    ResRef(x, resources[x]) \notin DOMAIN rel'.r2m]_<<resources, rel>>
    BY <1>1
  <1> QED
    BY <1>2, LedgerHolds, PTL DEF Spec, RequiredGoesReleased

(***************************************************************************)
(* The controllers implement the Ledger.                                   *)
(***************************************************************************)

ServesAll == LedgerInv /\ CPUsExclusive /\ DevicesExclusive /\ LockExclusive

\* What the Ledger has of a binding.
GrantOf(b) ==
    [machine |-> b.machine, cpus |-> b.binding.cpus,
     devices |-> {b.binding.disks[n] : n \in DOMAIN b.binding.disks}]

\* The grants are the bindings.
LEMMA GrantsAreBindings ==
    /\ Grants = [k \in DOMAIN rel.r2m |-> GrantOf(rel.r2m[k])]
    /\ Grants' = [k \in DOMAIN rel'.r2m |-> GrantOf(rel'.r2m[k])]
  BY DEF Grants, GrantOf

\* The CPUs of a binding are ones that its machine has to give, and two bindings
\* have neither a CPU nor a device of a machine in common.
LEMMA BindingsApart ==
    ASSUME NEW R, MapsTally(R), SharesNoCPU(R), SharesNoDevice(R),
           NEW k \in DOMAIN R.r2m, R.r2m[k].machine \in Machine
    PROVE  /\ GrantOf(R.r2m[k]).cpus \subseteq AvailableCPUs(R.r2m[k].machine)
           /\ \A j \in DOMAIN R.r2m \ {k} : ~L!Conflict(GrantOf(R.r2m[k]), GrantOf(R.r2m[j]))
  <1> DEFINE m == R.r2m[k].machine
             e == [ref |-> k, binding |-> R.r2m[k].binding]
  <1>1. e \in R.m2r[m]
    BY DEF MapsTally
  <1>2. e.binding.cpus \subseteq AvailableCPUs(m)
    BY <1>1 DEF SharesNoCPU
  <1>3. ASSUME NEW j \in DOMAIN R.r2m \ {k}
        PROVE  ~L!Conflict(GrantOf(R.r2m[k]), GrantOf(R.r2m[j]))
    <2> DEFINE f == [ref |-> j, binding |-> R.r2m[j].binding]
    <2>1. f \in R.m2r[R.r2m[j].machine] /\ e # f
      BY DEF MapsTally
    <2>2. ASSUME R.r2m[j].machine = m
          PROVE  /\ e.binding.cpus \cap f.binding.cpus = {}
                 /\ \A n \in DOMAIN e.binding.disks, p \in DOMAIN f.binding.disks :
                       e.binding.disks[n] # f.binding.disks[p]
      BY <1>1, <2>1, <2>2 DEF SharesNoCPU, SharesNoDevice
    <2> QED
      BY <2>2 DEF L!Conflict, GrantOf
  <1> QED
    BY <1>2, <1>3 DEF GrantOf

\* The write that accepts a request grants it everything it asks for.
LEMMA AcceptedGrants ==
    ASSUME ServesAll, ServesAll', WriteAccepted
    PROVE  L!Grant
  <1> DEFINE new == DOMAIN Grants' \ DOMAIN Grants
             AtOf(k) == rel'.r2m[k].machine
  <1>0. Safe /\ TypeOK /\ WorkingCopyOK /\ PlacingOK /\ RelationshipOK(rel')
    BY DEF ServesAll, LedgerInv, Safe, TypeOK, ControlPlaneTypeOK
  <1>1. /\ rc.pc = "bind" /\ rel = rc.base /\ rel'.r2m = rc.work.r2m
        /\ \A m \in Machine : rel'.locks[m] = IF m \in rc.toLock THEN Self ELSE rel.locks[m]
    BY <1>0, AcceptedKeeps
  <1>2. Fresh(rc.base) /\ CopyIsPlaced
    BY FreshAtCommit DEF ServesAll, LedgerInv
  <1>3. /\ rc.r \in Request
        /\ \A i \in DOMAIN Items[rc.r] :
              rc.refs[Item(i)].owner = Self /\ rc.refs[Item(i)].name = Item(i)
    BY <1>0, <1>1, RefsAreDistinct DEF Binding3
  <1>4. PlacedRefs = {rc.refs[Item(i)] : i \in DOMAIN Items[rc.r]}
    BY DEF PlacedRefs, Remaining, WriteAccepted, AllPlaced
  <1>5. /\ DOMAIN Grants = DOMAIN rel.r2m /\ DOMAIN Grants' = DOMAIN rel'.r2m
        /\ \A k \in DOMAIN rel.r2m : Grants[k] = GrantOf(rel.r2m[k])
        /\ \A k \in DOMAIN rel'.r2m : Grants'[k] = GrantOf(rel'.r2m[k])
    BY GrantsAreBindings
  <1>6. \A k \in PlacedRefs : k.owner = Self
    BY <1>3, <1>4
  <1>7. new = PlacedRefs
    BY <1>1, <1>2, <1>5, <1>6 DEF Fresh, CopyIsPlaced
  <1>8. \A k \in DOMAIN Grants : k \in DOMAIN Grants' /\ Grants'[k] = Grants[k]
    BY <1>1, <1>2, <1>5 DEF CopyIsPlaced
  <1>9. \A k \in new : {j.name : j \in new} = MembersOf(k.owner)
    <2>1. {j.name : j \in new} = {Item(i) : i \in DOMAIN Items[rc.r]}
      BY <1>3, <1>4, <1>7
    <2>2. \A k \in new : k.owner.name = rc.r
      BY <1>6, <1>7 DEF Self
    <2> QED BY <2>1, <2>2 DEF MembersOf, ItemNames, Item
  <1>10. \A k \in DOMAIN Grants' : AtOf(k) \in Machine /\ Grants'[k].machine = AtOf(k)
    BY <1>0, <1>5 DEF RelationshipOK, GrantOf
  <1>11. \A k \in new : rel.locks[AtOf(k)] = None
    BY <1>1, <1>2, <1>7 DEF CopyIsPlaced
  <1>12. ASSUME NEW k \in new
         PROVE  /\ Grants'[k].cpus \subseteq AvailableCPUs(AtOf(k))
                /\ \A j \in DOMAIN Grants' \ {k} : ~L!Conflict(Grants'[k], Grants'[j])
    <2>1. PICK R : R = rel'
      OBVIOUS
    <2>2. MapsTally(R) /\ SharesNoCPU(R) /\ SharesNoDevice(R)
      BY <2>1 DEF ServesAll, LedgerInv, MapsAgree, CPUsExclusive, DevicesExclusive
    <2>3. k \in DOMAIN R.r2m /\ R.r2m[k].machine \in Machine
      BY <1>5, <1>10, <2>1
    <2>4. /\ GrantOf(R.r2m[k]).cpus \subseteq AvailableCPUs(R.r2m[k].machine)
          /\ \A j \in DOMAIN R.r2m \ {k} : ~L!Conflict(GrantOf(R.r2m[k]), GrantOf(R.r2m[j]))
      BY <2>2, <2>3, BindingsApart
    <2> QED BY <1>5, <2>1, <2>4
  <1>13. ASSUME NEW m \in Machine
         PROVE  \/ rel'.locks[m] = rel.locks[m]
                \/ /\ rel.locks[m] = None
                   /\ \E k \in new : rel'.locks[m] = k.owner /\ Grants'[k].machine = m
                   /\ \A k \in DOMAIN Grants' : Grants'[k].machine = m => k.owner = rel'.locks[m]
    <2>1. CASE m \notin rc.toLock
      BY <1>1, <2>1
    <2>2. CASE m \in rc.toLock
      <3>1. rel.locks[m] = None /\ rel'.locks[m] = Self
        BY <1>0, <1>1, <2>2 DEF WorkingCopyOK
      <3>2. \E k \in new : rel'.locks[m] = k.owner /\ Grants'[k].machine = m
        BY <1>1, <1>2, <1>6, <1>7, <1>10, <2>2, <3>1 DEF CopyIsPlaced
      <3>3. Self # None
        BY <1>0, <1>1, SelfIsReference, ControlPlaneAssumption DEF TypeOK
      <3>4. \A e \in rel'.m2r[m] : e.ref.owner = Self
        BY <3>1, <3>3 DEF ServesAll, LockExclusive, RespectsLocks, OwnerOf
      <3>5. \A k \in DOMAIN rel'.r2m :
               [ref |-> k, binding |-> rel'.r2m[k].binding] \in rel'.m2r[AtOf(k)]
        BY DEF ServesAll, LedgerInv, MapsAgree, MapsTally
      <3>6. ASSUME NEW k \in DOMAIN Grants', Grants'[k].machine = m
            PROVE  k.owner = Self
        <4>1. k \in DOMAIN rel'.r2m /\ AtOf(k) = m
          BY <1>5, <1>10, <3>6
        <4>2. [ref |-> k, binding |-> rel'.r2m[k].binding] \in rel'.m2r[m]
          BY <3>5, <4>1
        <4>3. [ref |-> k, binding |-> rel'.r2m[k].binding].ref.owner = Self
          BY <3>4, <4>2
        <4> QED BY <4>3
      <3> QED BY <3>1, <3>2, <3>6
    <2> QED BY <2>1, <2>2
  <1> HIDE DEF new
  <1>14. \A k \in new :
            /\ {j.name : j \in new} = MembersOf(k.owner)
            /\ Grants'[k].cpus \subseteq [m \in Machine |-> AvailableCPUs(m)][Grants'[k].machine]
            /\ rel.locks[Grants'[k].machine] = None
            /\ \A j \in DOMAIN Grants' \ {k} :
                  ~L!Conflict(Grants'[k], Grants'[j]) /\ (j \in new => j.owner = k.owner)
    <2>1. \A k \in new : k \in DOMAIN Grants' /\ k.owner = Self
      BY <1>6, <1>7 DEF new
    <2> QED BY <1>9, <1>10, <1>11, <1>12, <2>1
  <1> QED
    BY <1>8, <1>13, <1>14 DEF L!Grant, new

\* A request that goes gives its locks back, or had none.
LEMMA WithdrawnUnlocks ==
    ASSUME ServesAll, ServesAll', WriteWithdrawn
    PROVE  L!Unlock \/ UNCHANGED L!vars
  <1>0. TypeOK /\ RelationshipOK(rel) /\ RelationshipOK(rel')
    BY DEF ServesAll, LedgerInv, Safe, TypeOK, ControlPlaneTypeOK
  <1>1. /\ rel'.r2m = rel.r2m
        /\ \A m \in Machine : rel'.locks[m] = IF rel.locks[m] = Self THEN None ELSE rel.locks[m]
    BY <1>0, WithdrawnKeeps
  <1>2. Grants' = Grants
    BY <1>1, GrantsAreBindings
  <1>3. /\ rel.locks = [m \in Machine |-> rel.locks[m]]
        /\ rel'.locks = [m \in Machine |-> rel'.locks[m]]
    BY <1>0 DEF RelationshipOK
  <1>4. Self # None
    <2>1. Self \in RequestRef
      BY <1>0, SelfIsReference DEF TypeOK, WriteWithdrawn
    <2> QED BY <2>1, ControlPlaneAssumption
  <1>5. CASE \E m \in Machine : rel.locks[m] = Self
    <2>1. PICK m \in Machine : rel.locks[m] = Self
      BY <1>5
    <2>2. rel'.locks = [n \in Machine |-> IF rel.locks[n] = rel.locks[m] THEN None ELSE rel.locks[n]]
      BY <1>1, <1>3, <2>1
    <2> QED BY <1>2, <1>4, <2>1, <2>2 DEF L!Unlock
  <1>6. CASE \A m \in Machine : rel.locks[m] # Self
    <2>1. rel'.locks = rel.locks
      BY <1>1, <1>3, <1>6
    <2> QED BY <1>2, <2>1 DEF L!vars
  <1> QED BY <1>5, <1>6

\* A write of the other controllers gives one grant back, or changes none.
LEMMA OthersRelease ==
    ASSUME ServesAll, OthersWrite
    PROVE  L!Release \/ UNCHANGED L!vars
  <1>0. TypeOK
    BY DEF ServesAll, LedgerInv, Safe
  <1>1. rel'.locks = rel.locks
    BY <1>0, OthersKeep
  <1>2. CASE rel'.r2m = rel.r2m
    <2>1. Grants' = Grants
      BY <1>2, GrantsAreBindings
    <2> QED BY <1>1, <2>1 DEF L!vars
  <1>3. ASSUME NEW k \in DOMAIN rel.r2m, rel'.r2m = [j \in DOMAIN rel.r2m \ {k} |-> rel.r2m[j]]
        PROVE  L!Release
    <2>1. k \in DOMAIN Grants
      BY GrantsAreBindings
    <2>2. Grants' = [j \in DOMAIN Grants \ {k} |-> Grants[j]]
      BY <1>3, GrantsAreBindings
    <2> QED BY <1>1, <2>1, <2>2 DEF L!Release
  <1> QED BY <1>0, <1>2, <1>3, OthersKeep

\* The scheduling controllers implement the abstract ledger: whatever the caches
\* show and wherever the process stops, a request is granted all of its resources
\* in one step, on CPUs, devices and machines that nobody else has.
THEOREM LedgerIsImplemented == Spec => ImplementsLedger
  <1>1. Init => ServesAll
    BY InitLedger, InitExclusive DEF ServesAll
  <1>2. ServesAll /\ [Next]_vars => ServesAll'
    BY LedgerStep, CPUStep, DeviceStep, LockStep DEF ServesAll, LedgerInv
  <1>3. Init => L!Init
    <2>1. SUFFICES ASSUME Init PROVE L!Init
      OBVIOUS
    <2>2. rel.r2m = <<>> /\ rel.locks = [m \in Machine |-> None]
      BY <2>1 DEF Init, ControlPlaneInit, EmptyRelationship
    <2>3. DOMAIN rel.r2m = {}
      BY <2>2
    <2>4. Grants = [k \in {} |-> None]
      BY <2>3, GrantsAreBindings
    <2> QED BY <2>2, <2>4 DEF L!Init
  <1>4. ServesAll /\ ServesAll' /\ [Next]_vars => [L!Next]_L!vars
    <2>1. SUFFICES ASSUME ServesAll, ServesAll', [Next]_vars
                   PROVE  L!Next \/ UNCHANGED L!vars
      OBVIOUS
    <2>2. TypeOK
      BY <2>1 DEF ServesAll, LedgerInv, Safe
    <2>3. CASE OthersWrite
      BY <2>1, <2>3, OthersRelease DEF L!Next
    <2>4. CASE WriteAccepted
      BY <2>1, <2>4, AcceptedGrants DEF L!Next
    <2>5. CASE WriteWithdrawn
      BY <2>1, <2>5, WithdrawnUnlocks DEF L!Next
    <2> QED
      BY <2>1, <2>2, <2>3, <2>4, <2>5, Writers DEF OthersWrite
  <1> QED
    BY <1>1, <1>2, <1>3, <1>4, PTL DEF Spec, ImplementsLedger, L!Spec

----------------------------------------------------------------------------
(* Part 4: service.                                                         *)

(***************************************************************************)
(* Machines.                                                               *)
(***************************************************************************)

Out(o) == o.state \in {"shutdown", "absent"}

\* p is the object o of a machine later on: it keeps its finalizer until it goes,
\* does not come back from its shutdown, and has no successor.
MachineNotBefore(o, p) ==
    /\ o.fin => p.fin \/ ~Exists(p)
    /\ Out(o) => Out(p)
    /\ ~Exists(o) => ~Exists(p)

\* A machine gets its finalizer before anything else, and loses it as it goes.
MachineMade(o) ==
    /\ o.state \in {"starting", "ready", "shutdown"} => o.fin
    /\ ~Exists(o) => ~o.fin

Stopping == {"unlock", "unload", "unregister", "finalizer"}

\* What the controllers see of a machine is an earlier state of it, and they know
\* that it is being shut down before its finalizer goes.
MachinesBehind ==
    /\ \A m \in Machine :
          /\ MachineMade(machines[m]) /\ MachineMade(cache.machines[m])
          /\ MachineNotBefore(cache.machines[m], machines[m])
          /\ ~Exists(machines[m]) /\ SeenMachines[m].fin => Out(SeenMachines[m])
          /\ mc.pc \in Stopping /\ m = mc.m => Out(SeenMachines[m])
    /\ mc.pc = "ready" => mc.obj.state = "starting"
    /\ mc.pc = "upload" => mc.obj.state = "ready"

\* Only a machine with a finalizer has containers on its host, and the worker
\* removes the one and then the other before the finalizer.
HostFollows ==
    /\ \A m \in Machine : ~machines[m].fin => docker[m] = {}
    /\ mc.pc = "unload" => "chaos-daemon" \notin docker[mc.m]
    /\ mc.pc \in {"unregister", "finalizer"} => docker[mc.m] = {}

\* Machine m is out of service and out of the Relationship.
Retired(m) == Out(machines[m]) /\ m \notin rel.keys

\* Copies of the Relationship are not newer than it is.
CopiesBehind ==
    /\ cache.rel.version <= rel.version
    /\ rc.pc \in {"machines", "bind"} => rc.base.version <= rel.version

\* A machine that is in the Relationship is there.  One that is deleted is in the
\* Relationship until it is shut down and the controllers know it.
KeysThere ==
    /\ \A m \in Machine :
          /\ m \in rel.keys => machines[m].fin
          /\ machines[m].del /\ ~Out(machines[m]) => m \in rel.keys
          /\ Retired(m) => Out(SeenMachines[m])
    /\ mc.pc = "finalizer" => Retired(mc.m)

\* The scheduler may go on placing resources on a machine that is retired, but
\* has then read an older Relationship.
PlacesThere ==
    rc.pc = "bind" =>
        /\ rc.base.keys \subseteq rc.work.keys
        /\ \A m \in rc.work.keys \ rc.base.keys : \E i \in DOMAIN rc.order : rc.order[i] = m
        /\ \A i \in DOMAIN rc.order :
              /\ machines[rc.order[i]].fin \/ ~Exists(machines[rc.order[i]])
              /\ Retired(rc.order[i]) => rc.base.version < rel.version

(***************************************************************************)
(* Resources and their requests.                                           *)
(***************************************************************************)

\* Request q is there and not deleted.
Live(q) == Lives(q) /\ ~requests[q.name].del

\* What the controllers see of a resource is an earlier state of the same object,
\* created by a request that they know of: none is created while an older one is
\* seen.
ResourcesBehind ==
    \A x \in Resource :
        /\ LET o == SeenResources[x]
               p == resources[x] IN
           Exists(o) =>
              /\ p.inc = o.inc
              /\ Exists(p) => p.owner = o.owner
              /\ o.del => Ended(p)
              /\ IsRequired(o) /\ Exists(p) => IsRequired(p)
        /\ \A o \in {resources[x], SeenResources[x]} :
              /\ o.del => Exists(o)
              /\ Exists(o) =>
                    o.owner \in RequestRef /\ o.owner.gen <= SeenRequests[o.owner.name].gen

\* No reference is ahead of the objects.
RefsBehind ==
    /\ \A k \in Known : k.inc <= resources[k.name].inc
    /\ rc.pc \in Binding3 => \A x \in DOMAIN rc.refs : rc.refs[x].inc <= resources[x].inc

\* The resources of a request that lives are not deleted.
LiveKeep ==
    /\ \A x \in Resource :
          /\ LET o == SeenResources[x] IN Exists(o) /\ Live(o.owner) => ~Ended(resources[x])
          /\ LET o == resources[x] IN Exists(o) /\ Live(o.owner) => ~o.del
    /\ tc.pc = "finalizer" => tc.obj.del

\* A resource that is not deleted has the binding that the controllers see it to
\* have; one that has reached its machine keeps its binding.
BindingStays ==
    \A x \in Resource :
        LET o == resources[x]
            k == ResRef(x, o) IN
        /\ ~Ended(o) /\ k \in DOMAIN SeenRel.r2m => k \in DOMAIN rel.r2m
        /\ ~Ended(o) /\ IsRequired(o) => k \in DOMAIN rel.r2m

\* A request that is ready has its resources, each past waiting for its machine.
ReadyHasAll ==
    \A r \in Request : requests[r].state = "ready" /\ ~requests[r].del =>
        \A x \in ItemNames(r) :
            resources[x].owner = Ref(r, requests[r]) /\ IsRequired(resources[x])

(***************************************************************************)
(* How machines and their worker move.                                     *)
(***************************************************************************)

\* Users may delete machine m.
MayDelete(m) == m \in rel.keys \/ "delete new machine" \in Users

\* The object stays and neither loses its finalizer nor begins its shutdown; it
\* is marked as deleted by a user only.
MachineKept(m, o, p) ==
    /\ Exists(o) /\ Exists(p) /\ (o.fin => p.fin) /\ MachineMade(p)
    /\ Out(o) <=> Out(p)
    /\ p.del => o.del \/ MayDelete(m)

\* BeginShutdown of a machine that is deleted.
MachineShut(o, p) ==
    o.del /\ ~Out(o) /\ o.fin /\ Exists(p) /\ p.fin /\ Out(p) /\ MachineMade(p)

\* The object goes: its worker removes the finalizer, or there was none.
MachineGone(m, o, p) ==
    /\ p = AbsentMachine
    /\ \/ mc.pc = "finalizer" /\ mc.m = m
       \/ ~o.fin /\ Exists(o) /\ MayDelete(m)

\* What a step does to the object of machine m.
LEMMA MachinesMove ==
    ASSUME TypeOK, MachinesBehind, [Next]_vars, NEW m \in Machine
    PROVE  LET o == machines[m]
               p == machines'[m] IN
           \/ p = o
           \/ /\ MachineKept(m, o, p) \/ MachineShut(o, p) \/ MachineGone(m, o, p)
              /\ rel' = rel
              /\ docker' = docker
  <1> DEFINE o == machines[m]
             p == machines'[m]
             Goal == \/ p = o
                     \/ /\ MachineKept(m, o, p) \/ MachineShut(o, p) \/ MachineGone(m, o, p)
                        /\ rel' = rel
                        /\ docker' = docker
  <1>0. /\ machines \in [Machine -> MachineObject]
        /\ MachineTypeOK
        /\ \A n \in Machine : MachineMade(machines[n])
    BY DEF TypeOK, ControlPlaneTypeOK, MachinesBehind
  <1>1. ASSUME NEW n \in Machine, MachineBegin(n)
        PROVE  Goal
    <2>1. CASE MachineAddFinalizer(n)
      <3>1. /\ machines'[n] = [machines[n] EXCEPT !.fin = TRUE]
            /\ ~machines[n].del /\ ~machines[n].fin /\ Exists(machines[n])
            /\ rel' = rel /\ docker' = docker
        BY <1>0, <2>1 DEF MachineAddFinalizer, UpdateMachine, Reconciling, machineVars
      <3>2. \A k \in Machine \ {n} : machines'[k] = machines[k]
        BY <1>0, <2>1 DEF MachineAddFinalizer, UpdateMachine
      <3>3. /\ machines'[n].fin = TRUE /\ machines'[n].del = machines[n].del
            /\ machines'[n].state = machines[n].state
        <4>1. machines[n] \in MachineObject
          BY <1>0
        <4>2. machines'[n] = [machines[n] EXCEPT !.fin = TRUE]
          BY <3>1
        <4> QED BY <4>1, <4>2 DEF MachineObject
      <3> QED BY <3>1, <3>2, <3>3 DEF MachineKept, MachineMade, Out
    <2>2. CASE MachineBeginShutdown(n)
      <3>1. /\ machines'[n] = [machines[n] EXCEPT !.state = "shutdown"]
            /\ machines[n].del /\ machines[n].fin /\ Exists(machines[n])
            /\ machines[n].state # "shutdown"
            /\ rel' = rel /\ docker' = docker
        BY <1>0, <2>2 DEF MachineBeginShutdown, UpdateMachine, Reconciling, machineVars
      <3>2. \A k \in Machine \ {n} : machines'[k] = machines[k]
        BY <1>0, <2>2 DEF MachineBeginShutdown, UpdateMachine
      <3>3. machines'[n].fin = machines[n].fin /\ machines'[n].state = "shutdown"
        BY <1>0, <3>1 DEF MachineObject
      <3> QED BY <3>1, <3>2, <3>3 DEF MachineShut, MachineMade, Out
    <2>3. CASE MachineBeginStarting(n)
      <3>1. /\ machines'[n] = [machines[n] EXCEPT !.state = "starting"]
            /\ machines[n].fin /\ ~machines[n].del /\ rel' = rel /\ docker' = docker
        BY <1>0, <2>3 DEF MachineBeginStarting, UpdateMachine, machineVars
      <3>4. machines[n].state \notin {"shutdown", "absent"}
        BY <2>3 DEF MachineBeginStarting, UpdateMachine
      <3>2. \A k \in Machine \ {n} : machines'[k] = machines[k]
        BY <1>0, <2>3 DEF MachineBeginStarting, UpdateMachine
      <3>3. /\ machines'[n].fin = machines[n].fin /\ machines'[n].state = "starting"
            /\ machines'[n].del = machines[n].del
        BY <1>0, <3>1 DEF MachineObject
      <3> QED BY <3>1, <3>2, <3>3, <3>4 DEF MachineKept, MachineMade, Out
    <2> QED
      BY <1>1, <2>1, <2>2, <2>3
      DEF MachineBegin, MachineTryLock, MachineCreateUploadDaemon, MachineRegister,
          MachineShutdown, UpdateRelationship, storeVars
  <1>2. ASSUME MachineContinue
        PROVE  Goal
    <2>0. mc.pc # "idle" => mc.m \in Machine
      BY <1>0 DEF MachineTypeOK
    <2>1. CASE MachineReady
      <3>1. /\ machines'[mc.m] = [machines[mc.m] EXCEPT !.state = "ready"]
            /\ machines[mc.m].state = "starting" /\ mc.m \in Machine
            /\ rel' = rel /\ docker' = docker
        BY <1>0, <2>0, <2>1 DEF MachineReady, UpdateMachine, MachinesBehind
      <3>2. \A k \in Machine \ {mc.m} : machines'[k] = machines[k]
        BY <1>0, <2>1 DEF MachineReady, UpdateMachine
      <3>3. /\ machines'[mc.m].fin = machines[mc.m].fin /\ machines'[mc.m].state = "ready"
            /\ machines'[mc.m].del = machines[mc.m].del
        BY <1>0, <3>1 DEF MachineObject
      <3> QED BY <1>0, <3>1, <3>2, <3>3 DEF MachineKept, MachineMade, Out
    <2>2. CASE MachineSetUploadPort
      <3>1. /\ machines'[mc.m] = [machines[mc.m] EXCEPT !.upload = TRUE]
            /\ machines[mc.m].state = "ready" /\ mc.m \in Machine
            /\ rel' = rel /\ docker' = docker
        BY <1>0, <2>0, <2>2 DEF MachineSetUploadPort, UpdateMachine, MachinesBehind
      <3>2. \A k \in Machine \ {mc.m} : machines'[k] = machines[k]
        BY <1>0, <2>2 DEF MachineSetUploadPort, UpdateMachine
      <3>3. /\ machines'[mc.m].fin = machines[mc.m].fin
            /\ machines'[mc.m].state = machines[mc.m].state
            /\ machines'[mc.m].del = machines[mc.m].del
        BY <1>0, <3>1 DEF MachineObject
      <3> QED BY <1>0, <3>1, <3>2, <3>3 DEF MachineKept, MachineMade, Out
    <2>3. CASE MachineRemoveFinalizer
      <3>1. /\ machines'[mc.m] = AbsentMachine /\ mc.pc = "finalizer"
            /\ rel' = rel /\ docker' = docker
        BY <1>0, <2>0, <2>3 DEF MachineRemoveFinalizer, UpdateMachine
      <3>2. \A k \in Machine \ {mc.m} : machines'[k] = machines[k]
        BY <1>0, <2>3 DEF MachineRemoveFinalizer, UpdateMachine
      <3> QED BY <3>1, <3>2 DEF MachineGone
    <2> QED
      BY <1>2, <2>1, <2>2, <2>3
      DEF MachineContinue, MachineUnlock, MachineDeleteUploadDaemon, MachineUnregister,
          MachineConflict, UpdateRelationship, storeVars
  <1>3. ASSUME NEW n \in Machine, DeleteMachine(n)
        PROVE  Goal
    <2>1. CASE machines[n].fin
      <3>1. /\ machines'[n] = [machines[n] EXCEPT !.del = TRUE] /\ Exists(machines[n])
            /\ MayDelete(n) /\ rel' = rel /\ docker' = docker
        BY <1>0, <1>3, <2>1 DEF DeleteMachine, MayDelete, localVars, machineVars
      <3>2. \A k \in Machine \ {n} : machines'[k] = machines[k]
        BY <1>0, <1>3 DEF DeleteMachine
      <3>3. machines'[n].fin = machines[n].fin /\ machines'[n].state = machines[n].state
        <4>1. machines[n] \in MachineObject
          BY <1>0
        <4>2. machines'[n] = [machines[n] EXCEPT !.del = TRUE]
          BY <3>1
        <4> QED BY <4>1, <4>2 DEF MachineObject
      <3> QED BY <1>0, <2>1, <3>1, <3>2, <3>3 DEF MachineKept, MachineMade, Out
    <2>2. CASE ~machines[n].fin
      <3>1. /\ machines'[n] = AbsentMachine /\ Exists(machines[n])
            /\ MayDelete(n) /\ rel' = rel /\ docker' = docker
        BY <1>0, <1>3, <2>2 DEF DeleteMachine, MayDelete, localVars, machineVars
      <3>2. \A k \in Machine \ {n} : machines'[k] = machines[k]
        BY <1>0, <1>3 DEF DeleteMachine
      <3> QED BY <2>2, <3>1, <3>2 DEF MachineGone
    <2> QED BY <2>1, <2>2
  <1>4. \/ machines' = machines
        \/ \E n \in Machine : MachineBegin(n) \/ DeleteMachine(n)
        \/ MachineContinue
    <2>1. ASSUME NEW r \in Request, RequestBegin(r)
          PROVE  machines' = machines
      BY <2>1 DEF RequestBegin, RequestAddFinalizer, RequestBeginPending,
                  RequestCreateResource, RequestReady, RequestNotRequired, storeVars,
                  RequestDeleteResource, RequestNoResources, UpdateRequest, DeleteResource
    <2>2. ASSUME RequestContinue
          PROVE  machines' = machines
      BY <2>2 DEF RequestContinue, RequestWait, RequestReadRelationship, RequestListMachines,
                  RequestNoExplicitMachine, RequestBindGroup, RequestCommit, RequestRelease,
                  RequestRemoveFinalizer, RequestConflict, UpdateRequest, UpdateRelationship,
                  storeVars
    <2>3. ASSUME NEW x \in Resource, ResourceBegin(x)
          PROVE  machines' = machines
      BY <2>3 DEF ResourceBegin, ResourceAddFinalizer, ResourceBeginPending, ResourcePending,
                  ResourceRelease, ResourceSkipRelease, UpdateResource, UpdateRelationship,
                  storeVars
    <2>4. ASSUME ResourceContinue
          PROVE  machines' = machines
      BY <2>4 DEF ResourceContinue, ResourceRemoveFinalizer, ResourceConflict,
                  UpdateResource, storeVars
    <2> QED
      BY <2>1, <2>2, <2>3, <2>4
      DEF Next, vars, storeVars, RequestStep, RequestOngoing, ResourceStep, ResourceOngoing,
          MachineStep, MachineOngoing, RelationshipStep, RelationshipReconcile, Watch,
          WatchEvent, CreateRequest, DeleteRequest, UpdateRelationship, DeleteResource,
          DeleteNamespacedResource, CollectGarbage, Crash, Panic, Restart
  <1> QED
    BY <1>1, <1>2, <1>3, <1>4

\* A machine only moves on.
LEMMA MachinesAdvance ==
    ASSUME TypeOK, MachinesBehind, [Next]_vars, NEW m \in Machine
    PROVE  MachineNotBefore(machines[m], machines'[m]) /\ MachineMade(machines'[m])
  <1>1. MachineMade(machines[m])
    BY DEF MachinesBehind
  <1>2. \/ machines'[m] = machines[m]
        \/ MachineKept(m, machines[m], machines'[m])
        \/ MachineShut(machines[m], machines'[m])
        \/ MachineGone(m, machines[m], machines'[m])
    BY MachinesMove
  <1>3. CASE machines'[m] = machines[m]
    BY <1>1, <1>3 DEF MachineNotBefore
  <1>4. CASE MachineKept(m, machines[m], machines'[m])
    BY <1>4 DEF MachineKept, MachineNotBefore
  <1>5. CASE MachineShut(machines[m], machines'[m])
    BY <1>5 DEF MachineShut, MachineNotBefore, Out
  <1>6. CASE MachineGone(m, machines[m], machines'[m])
    <2>1. machines'[m] = AbsentMachine
      BY <1>6 DEF MachineGone
    <2>2. machines'[m].state = "absent" /\ machines'[m].fin = FALSE
      BY <2>1 DEF AbsentMachine
    <2> QED BY <2>2 DEF MachineNotBefore, MachineMade, Out
  <1> QED BY <1>2, <1>3, <1>4, <1>5, <1>6

\* The order is transitive.
LEMMA MachineOrder ==
    ASSUME NEW o, NEW p, NEW q, MachineNotBefore(o, p), MachineNotBefore(p, q)
    PROVE  MachineNotBefore(o, q)
  BY DEF MachineNotBefore

\* What the controllers see of a machine is made like the machine, is not ahead
\* of it, and only moves on, too.
LEMMA SeenMachinesAdvance ==
    ASSUME TypeOK, MachinesBehind, [Next]_vars, NEW m \in Machine
    PROVE  /\ MachineMade(SeenMachines[m])
           /\ MachineNotBefore(SeenMachines[m], machines[m])
           /\ MachineNotBefore(SeenMachines[m], SeenMachines'[m])
           /\ MachineNotBefore(cache'.machines[m], machines'[m])
           /\ MachineMade(cache'.machines[m])
  <1>1. /\ MachineMade(machines[m]) /\ MachineMade(cache.machines[m])
        /\ MachineNotBefore(cache.machines[m], machines[m])
    BY DEF MachinesBehind
  <1>2. MachineNotBefore(machines[m], machines'[m]) /\ MachineMade(machines'[m])
    BY MachinesAdvance
  <1>3. \A o : MachineNotBefore(o, o)
    BY DEF MachineNotBefore
  <1>4. MachineMade(SeenMachines[m]) /\ MachineNotBefore(SeenMachines[m], machines[m])
    BY <1>1, <1>3 DEF SeenMachines
  <1>5. \/ cache'.machines = cache.machines
        \/ cache'.machines = machines /\ machines' = machines
    BY CacheMoves
  <1>6. MachineNotBefore(cache'.machines[m], machines'[m]) /\ MachineMade(cache'.machines[m])
    <2>1. PICK o : o = cache.machines[m]
      OBVIOUS
    <2>2. PICK p, q : p = machines[m] /\ q = machines'[m]
      OBVIOUS
    <2>3. MachineNotBefore(o, q)
      BY <1>1, <1>2, <2>1, <2>2, MachineOrder
    <2> QED BY <1>1, <1>3, <1>5, <2>1, <2>2, <2>3
  <1>7. MachineNotBefore(SeenMachines[m], SeenMachines'[m])
    <2>1. PICK o, p, q : o = SeenMachines[m] /\ p = machines[m] /\ q = machines'[m]
      OBVIOUS
    <2>2. MachineNotBefore(o, q)
      BY <1>2, <1>4, <2>1, MachineOrder
    <2> QED BY <1>3, <2>1, <2>2, SeenMoves
  <1> QED BY <1>4, <1>6, <1>7

\* The worker of the machine controller: it stays or ends its call, takes a
\* machine to start a container or to shut it down, or goes on shutting it down.
LEMMA MachineWorkerMoves ==
    ASSUME TypeOK, [Next]_vars
    PROVE  \/ mc' \in {mc, MIdle} /\ docker' = docker
           \/ \E m \in Machine : \/ MachineTryLock(m) \/ MachineCreateUploadDaemon(m)
                                 \/ MachineShutdown(m)
           \/ MachineUnlock \/ MachineDeleteUploadDaemon \/ MachineUnregister
  <1>1. ASSUME NEW m \in Machine, MachineBegin(m)
        PROVE  \/ mc' = mc /\ docker' = docker
               \/ MachineTryLock(m) \/ MachineCreateUploadDaemon(m) \/ MachineShutdown(m)
    <2>1. CASE MachineAddFinalizer(m) \/ MachineBeginShutdown(m) \/ MachineBeginStarting(m)
      BY <2>1 DEF MachineAddFinalizer, MachineBeginShutdown, MachineBeginStarting, machineVars
    <2>2. CASE MachineRegister(m)
      BY <2>2 DEF MachineRegister, machineVars
    <2> QED BY <1>1, <2>1, <2>2 DEF MachineBegin
  <1>2. ASSUME MachineContinue
        PROVE  \/ mc' = MIdle /\ docker' = docker
               \/ MachineUnlock \/ MachineDeleteUploadDaemon \/ MachineUnregister
    BY <1>2 DEF MachineContinue, MachineReady, MachineSetUploadPort, MachineRemoveFinalizer,
                MachineConflict
  <1>3. \/ mc' \in {mc, MIdle} /\ docker' = docker
        \/ \E m \in Machine : MachineBegin(m)
        \/ MachineContinue
    BY DEF Next, vars, machineVars, localVars, RequestStep, RequestOngoing, ResourceStep,
           ResourceOngoing, MachineStep, MachineOngoing, RelationshipStep, Watch,
           CreateRequest, DeleteRequest, DeleteMachine, DeleteNamespacedResource,
           CollectGarbage, Crash, Panic, Restart
  <1> QED BY <1>1, <1>2, <1>3

\* A machine that is seen with its finalizer and not out of service has it.
LEMMA SeenInService ==
    ASSUME MachinesBehind, NEW m \in Machine, SeenMachines[m].fin, ~Out(SeenMachines[m])
    PROVE  machines[m].fin
  <1>1. ~(~Exists(machines[m]))
    BY DEF MachinesBehind
  <1>2. MachineNotBefore(cache.machines[m], machines[m])
    BY DEF MachinesBehind
  <1> QED
    BY <1>1, <1>2 DEF SeenMachines, MachineNotBefore

\* Every step keeps what is seen of the machines behind them.
LEMMA MachinesBehindStep ==
    ASSUME TypeOK, MachinesBehind, [Next]_vars
    PROVE  MachinesBehind'
  <1>1. ASSUME NEW m \in Machine, ~Exists(machines'[m]), SeenMachines'[m].fin
        PROVE  Out(SeenMachines'[m])
    <2>1. MachineMade(machines'[m])
      BY MachinesAdvance
    <2>2. SeenMachines' = SeenMachines
      BY <1>1, <2>1, SeenMoves DEF MachineMade
    <2>3. CASE ~Exists(machines[m])
      BY <1>1, <2>2, <2>3 DEF MachinesBehind
    <2>4. CASE Exists(machines[m])
      <3>1. \/ mc.pc = "finalizer" /\ mc.m = m
            \/ ~machines[m].fin
        BY <1>1, <2>4, MachinesMove DEF MachineKept, MachineShut, MachineGone
      <3>2. MachineNotBefore(SeenMachines[m], machines[m])
        BY SeenMachinesAdvance
      <3>3. machines[m].fin
        BY <1>1, <2>2, <2>4, <3>2 DEF MachineNotBefore
      <3> QED BY <2>2, <3>1, <3>3 DEF MachinesBehind, Stopping
    <2> QED BY <2>3, <2>4
  <1>2. ASSUME NEW m \in Machine, Out(SeenMachines[m])
        PROVE  Out(SeenMachines'[m])
    BY <1>2, SeenMachinesAdvance DEF MachineNotBefore
  <1>3. /\ mc'.pc \in Stopping => mc'.m \in Machine /\ Out(SeenMachines'[mc'.m])
        /\ mc'.pc = "ready" => mc'.obj.state = "starting"
        /\ mc'.pc = "upload" => mc'.obj.state = "ready"
    <2>0. MachineTypeOK
      BY DEF TypeOK
    <2>1. /\ mc.pc \in Stopping => mc.m \in Machine /\ Out(SeenMachines[mc.m])
          /\ mc.pc = "ready" => mc.obj.state = "starting"
          /\ mc.pc = "upload" => mc.obj.state = "ready"
      BY <2>0 DEF MachinesBehind, Stopping, MachineTypeOK
    <2>2. CASE mc' = mc
      BY <1>2, <2>1, <2>2
    <2>3. CASE mc' = MIdle
      BY <2>3 DEF MIdle, Stopping
    <2>4. ASSUME NEW m \in Machine, MachineTryLock(m)
          PROVE  mc'.pc = "ready" /\ mc'.obj.state = "starting"
      BY <2>4 DEF MachineTryLock, MIdle
    <2>5. ASSUME NEW m \in Machine, MachineCreateUploadDaemon(m)
          PROVE  mc'.pc = "upload" /\ mc'.obj.state = "ready"
      BY <2>5 DEF MachineCreateUploadDaemon, MIdle
    <2>6. ASSUME NEW m \in Machine, MachineShutdown(m)
          PROVE  mc'.pc = "unlock" /\ mc'.m = m /\ Out(SeenMachines[m])
      BY <2>6 DEF MachineShutdown, Out
    <2>7. CASE MachineUnlock \/ MachineDeleteUploadDaemon \/ MachineUnregister
      <3>1. mc'.m = mc.m /\ mc.pc \in Stopping /\ mc'.pc \in Stopping
        BY <2>0, <2>7 DEF MachineUnlock, MachineDeleteUploadDaemon, MachineUnregister,
                          Stopping, MachineTypeOK
      <3> QED BY <1>2, <2>1, <3>1 DEF Stopping
    <2> QED
      BY <1>2, <2>2, <2>3, <2>4, <2>5, <2>6, <2>7, MachineWorkerMoves DEF Stopping
  <1>4. ASSUME NEW m \in Machine
        PROVE  /\ MachineMade(machines'[m]) /\ MachineMade(cache'.machines[m])
               /\ MachineNotBefore(cache'.machines[m], machines'[m])
    BY MachinesAdvance, SeenMachinesAdvance
  <1> QED
    BY <1>1, <1>3, <1>4 DEF MachinesBehind

\* Every step keeps the containers on a host with the finalizer of its machine.
LEMMA HostStep ==
    ASSUME TypeOK, MachinesBehind, HostFollows, [Next]_vars
    PROVE  HostFollows'
  <1>0. MachineTypeOK
    BY DEF TypeOK
  <1>1. \A m \in Machine : docker[m] \subseteq {"chaos-daemon", "upload-daemon"}
    BY <1>0 DEF MachineTypeOK
  <1>2. /\ mc'.pc = "unload" => "chaos-daemon" \notin docker'[mc'.m]
        /\ mc'.pc \in {"unregister", "finalizer"} => docker'[mc'.m] = {}
    <2>1. CASE mc' \in {mc, MIdle} /\ docker' = docker
      BY <2>1 DEF HostFollows, MIdle
    <2>2. ASSUME NEW m \in Machine,
                 MachineTryLock(m) \/ MachineCreateUploadDaemon(m) \/ MachineShutdown(m)
          PROVE  mc'.pc \in {"ready", "upload", "unlock"}
      <3>1. MachineTryLock(m) => mc'.pc = "ready"
        BY DEF MachineTryLock, MIdle
      <3>2. MachineCreateUploadDaemon(m) => mc'.pc = "upload"
        BY DEF MachineCreateUploadDaemon, MIdle
      <3>3. MachineShutdown(m) => mc'.pc = "unlock"
        BY DEF MachineShutdown
      <3> QED BY <2>2, <3>1, <3>2, <3>3
    <2>3. CASE MachineUnlock
      <3>1. mc'.pc = "unload" /\ mc'.m = mc.m /\ mc.m \in Machine
        BY <1>0, <2>3 DEF MachineUnlock, MachineTypeOK
      <3>2. docker'[mc.m] = docker[mc.m] \ {"chaos-daemon"}
        BY <1>0, <2>3, <3>1 DEF MachineUnlock, MachineTypeOK
      <3> QED BY <3>1, <3>2
    <2>4. CASE MachineDeleteUploadDaemon
      <3>1. mc'.pc = "unregister" /\ mc'.m = mc.m /\ mc.m \in Machine /\ mc.pc = "unload"
        BY <1>0, <2>4 DEF MachineDeleteUploadDaemon, MachineTypeOK
      <3>2. docker'[mc.m] = docker[mc.m] \ {"upload-daemon"}
        BY <1>0, <2>4, <3>1 DEF MachineDeleteUploadDaemon, MachineTypeOK
      <3> QED BY <1>1, <3>1, <3>2 DEF HostFollows
    <2>5. CASE MachineUnregister
      <3>1. mc'.pc = "finalizer" /\ mc'.m = mc.m /\ mc.pc = "unregister" /\ docker' = docker
        BY <1>0, <2>5 DEF MachineUnregister, MachineTypeOK
      <3> QED BY <3>1 DEF HostFollows
    <2> QED
      BY <2>1, <2>2, <2>3, <2>4, <2>5, MachineWorkerMoves
  <1>3. ASSUME NEW m \in Machine, ~machines'[m].fin
        PROVE  docker'[m] = {}
    <2>1. CASE docker' = docker
      <3>1. ~machines[m].fin \/ (mc.pc = "finalizer" /\ mc.m = m)
        BY <1>3, MachinesMove DEF MachineKept, MachineShut, MachineGone
      <3> QED BY <2>1, <3>1 DEF HostFollows
    <2>2. ASSUME NEW n \in Machine, MachineTryLock(n) \/ MachineCreateUploadDaemon(n)
          PROVE  docker'[m] = {}
      <3>1. /\ machines' = machines /\ SeenMachines[n].fin /\ ~Out(SeenMachines[n])
            /\ \A k \in Machine \ {n} : docker'[k] = docker[k]
        BY <1>0, <2>2
        DEF MachineTryLock, MachineCreateUploadDaemon, storeVars, Out, MachineTypeOK
      <3>2. machines[n].fin
        BY <3>1, SeenInService
      <3> QED BY <1>3, <3>1, <3>2 DEF HostFollows
    <2>3. CASE MachineUnlock \/ MachineDeleteUploadDaemon
      <3>1. machines' = machines /\ docker'[m] \subseteq docker[m]
        BY <1>0, <2>3 DEF MachineUnlock, MachineDeleteUploadDaemon, storeVars, MachineTypeOK
      <3> QED BY <1>3, <3>1 DEF HostFollows
    <2>4. \A n \in Machine : MachineShutdown(n) => docker' = docker
      BY DEF MachineShutdown
    <2>5. MachineUnregister => docker' = docker
      BY DEF MachineUnregister
    <2> QED
      BY <2>1, <2>2, <2>3, <2>4, <2>5, MachineWorkerMoves
  <1> QED
    BY <1>2, <1>3 DEF HostFollows

\* A machine starts with no finalizer and no container, or with both.
LEMMA InitMachines ==
    ASSUME Init
    PROVE  MachinesBehind /\ HostFollows
  <1>1. mc.pc = "idle"
    BY DEF Init, MachineInit, MIdle
  <1>2. cache.machines = machines
    BY DEF Init, ControlPlaneInit
  <1>3. SeenMachines = machines
    BY <1>2 DEF SeenMachines
  <1>4. ASSUME NEW m \in Machine
        PROVE  /\ machines[m].state # "absent"
               /\ machines[m].state \in {"starting", "ready", "shutdown"} => machines[m].fin
               /\ ~machines[m].fin => docker[m] = {}
    BY DEF Init, ControlPlaneInit, MachineInit, AbsentMachine
  <1> QED
    BY <1>1, <1>2, <1>3, <1>4
    DEF MachinesBehind, HostFollows, MachineMade, MachineNotBefore, Stopping

\* A host is given back to other Naglfar systems with its machine object: no
\* container stays behind, wherever the process stops and however old what the
\* controllers see is.
THEOREM HostsAreReleased == Spec => []HostReleased
  <1> DEFINE Inv == Safe /\ MachinesBehind /\ HostFollows
  <1>1. Init => Inv
    BY InitOK, InitMachines DEF Safe
  <1>2. Inv /\ [Next]_vars => Inv'
    BY StepOK, MachinesBehindStep, HostStep DEF Safe
  <1>3. Inv => HostReleased
    BY DEF HostReleased, HostFollows, MachinesBehind, MachineMade
  <1> QED
    BY <1>1, <1>2, <1>3, PTL DEF Spec

(***************************************************************************)
(* Machines and the Relationship.                                          *)
(***************************************************************************)

\* A write that changes the Relationship gives it a new version, and a step
\* changes the machines in it only to enter one that is seen in service, to take
\* out the one that is shut down, or to accept a request.
LEMMA KeysMove ==
    ASSUME Safe, [Next]_vars
    PROVE  /\ rel' = rel \/ rel'.version > rel.version
           /\ \/ rel'.keys = rel.keys
              \/ /\ mc.pc = "idle" /\ machines' = machines
                 /\ \E m \in Machine :
                       /\ SeenMachines[m].fin /\ SeenMachines[m].state = "ready"
                       /\ rel'.keys = rel.keys \cup {m}
              \/ /\ mc.pc = "unregister" /\ mc.m \in Machine /\ machines' = machines
                 /\ rel'.keys = rel.keys \ {mc.m}
              \/ WriteAccepted /\ machines' = machines /\ rel'.keys = rc.work.keys
  <1>0. /\ RelationshipOK(SeenRel) /\ RelationshipOK(rel) /\ RelationshipOK(mc.base)
        /\ TypeOK /\ SchedulerOK /\ RelationshipOK(rc.base)
    BY SeenOK
    DEF Safe, TypeOK, ControlPlaneTypeOK, MachineTypeOK, RequestTypeOK, SchedulerOK
  <1>1. ASSUME NEW seen, NEW R, RelationshipOK(seen), RelationshipOK(R),
               UpdateRelationship(seen, R)
        PROVE  /\ rel = seen /\ machines' = machines
               /\ rel'.keys = R.keys
               /\ rel' = rel \/ rel'.version > rel.version
    <2>1. seen.version \in Nat
      BY <1>1 DEF RelationshipOK
    <2>2. CASE R = seen
      BY <1>1, <2>2 DEF UpdateRelationship
    <2>3. CASE R # seen
      <3>1. /\ rel = seen /\ machines' = machines
            /\ rel' = [R EXCEPT !.version = seen.version + 1]
        BY <1>1, <2>3 DEF UpdateRelationship
      <3>2. rel'.version = seen.version + 1 /\ rel'.keys = R.keys
        BY <1>1, <3>1 DEF RelationshipOK
      <3> QED BY <2>1, <3>1, <3>2
    <2> QED BY <2>2, <2>3
  <1>2. CASE WriteInitialized
    <2>1. [SeenRel EXCEPT !.init = TRUE].keys = SeenRel.keys
      BY <1>0 DEF RelationshipOK
    <2> QED BY <1>0, <1>1, <1>2, <2>1, InitializedOK DEF WriteInitialized
  <1>3. CASE WriteRegistered
    <2>1. PICK m \in Machine :
             /\ SeenMachines[m].fin /\ SeenMachines[m].state = "ready"
             /\ UpdateRelationship(SeenRel, [SeenRel EXCEPT !.keys = @ \cup {m}])
      BY <1>3 DEF WriteRegistered
    <2>2. RelationshipOK([SeenRel EXCEPT !.keys = @ \cup {m}])
      BY <1>0, RegisteredOK
    <2>3. [SeenRel EXCEPT !.keys = @ \cup {m}].keys = SeenRel.keys \cup {m}
      BY <1>0 DEF RelationshipOK
    <2>4. /\ rel = SeenRel /\ machines' = machines
          /\ rel'.keys = [SeenRel EXCEPT !.keys = @ \cup {m}].keys
          /\ rel' = rel \/ rel'.version > rel.version
      BY <1>0, <1>1, <2>1, <2>2
    <2>5. mc.pc = "idle"
      BY <1>3 DEF WriteRegistered
    <2> QED BY <2>1, <2>3, <2>4, <2>5
  <1>4. CASE WriteUnregistered
    <2>1. mc.m \in Machine /\ mc.pc = "unregister"
          /\ UpdateRelationship(mc.base, [mc.base EXCEPT !.keys = @ \ {mc.m}, !.m2r[mc.m] = {}])
      BY <1>4 DEF WriteUnregistered
    <2>2. RelationshipOK([mc.base EXCEPT !.keys = @ \ {mc.m}, !.m2r[mc.m] = {}])
      BY <1>0, <2>1, UnregisteredOK
    <2>3. [mc.base EXCEPT !.keys = @ \ {mc.m}, !.m2r[mc.m] = {}].keys = mc.base.keys \ {mc.m}
      BY <1>0 DEF RelationshipOK
    <2> QED BY <1>0, <1>1, <2>1, <2>2, <2>3
  <1>5. CASE WriteReleased
    <2>1. PICK k \in DOMAIN SeenRel.r2m : UpdateRelationship(SeenRel, Released(SeenRel, k))
      BY <1>5 DEF WriteReleased
    <2>2. RelationshipOK(Released(SeenRel, k))
      BY <1>0, ReleasedOK
    <2>3. Released(SeenRel, k).keys = SeenRel.keys
      BY <1>0 DEF RelationshipOK, Released
    <2> QED BY <1>0, <1>1, <2>1, <2>2, <2>3
  <1>6. CASE WriteAccepted
    <2>1. RelationshipOK(Accepted(rc.work))
      BY <1>0, <1>6, AcceptedFields DEF WriteAccepted
    <2>2. Accepted(rc.work).keys = rc.work.keys
      BY <1>0 DEF RelationshipOK, Accepted, SchedulerOK, RequestTypeOK
    <2> QED BY <1>0, <1>1, <1>6, <2>1, <2>2 DEF WriteAccepted
  <1>7. CASE WriteWithdrawn
    <2>1. RelationshipOK(Withdrawn(SeenRel))
      BY <1>0, WithdrawnFields
    <2>2. Withdrawn(SeenRel).keys = SeenRel.keys
      BY <1>0 DEF RelationshipOK, Withdrawn
    <2> QED BY <1>0, <1>1, <1>7, <2>1, <2>2 DEF WriteWithdrawn
  <1> QED
    BY <1>0, <1>2, <1>3, <1>4, <1>5, <1>6, <1>7, Writers

\* Every step keeps the copies of the Relationship behind it.
LEMMA CopiesStep ==
    ASSUME Safe, CopiesBehind, [Next]_vars
    PROVE  CopiesBehind'
  <1>0. /\ TypeOK /\ rel.version \in Nat /\ rel'.version \in Nat
        /\ cache.rel.version \in Nat /\ rc.base.version \in Nat
    BY RelationshipStaysOK
    DEF Safe, TypeOK, ControlPlaneTypeOK, RequestTypeOK, RelationshipOK
  <1>1. rel.version <= rel'.version
    BY <1>0, KeysMove
  <1>2. cache'.rel.version <= rel'.version
    <2>1. cache'.rel = cache.rel \/ (cache'.rel = rel /\ rel' = rel)
      BY <1>0, CacheMoves
    <2> QED BY <1>0, <1>1, <2>1 DEF CopiesBehind
  <1>3. ASSUME rc'.pc \in {"machines", "bind"}
        PROVE  \/ rc'.base = rc.base /\ rc.pc \in {"machines", "bind"}
               \/ rc'.base = SeenRel
    <2>1. CASE rc' \in {rc, RIdle}
      BY <1>3, <2>1 DEF RIdle
    <2>2. ASSUME NEW r \in Request, RequestNotRequired(r) \/ RequestNoResources(r)
          PROVE  rc'.pc \in {"relation", "release"}
      BY <2>2 DEF RequestNotRequired, RequestNoResources, RIdle
    <2>3. CASE RequestReadRelationship \/ RequestListMachines \/ RequestBindGroup
      BY <1>0, <1>3, <2>1, <2>3, SchedulerKeeps
    <2>4. RequestRelease => rc'.pc = "finalizer"
      BY <1>0 DEF RequestRelease, TypeOK, RequestTypeOK
    <2> QED
      BY <1>0, <1>3, <2>1, <2>2, <2>3, <2>4, SchedulerMoves
  <1>4. SeenRel.version <= rel.version /\ SeenRel.version \in Nat
    BY <1>0 DEF CopiesBehind, SeenRel
  <1> QED
    BY <1>0, <1>1, <1>2, <1>3, <1>4 DEF CopiesBehind

\* A machine is retired by the write that takes it out of the Relationship, when
\* the controllers have seen it shut down.
LEMMA RetiresLate ==
    ASSUME Safe, MachinesBehind, KeysThere, PlacesThere, [Next]_vars,
           \A n \in Machine : MayDelete(n) => n \in rel.keys,
           NEW m \in Machine, Retired(m)', ~Retired(m)
    PROVE  rel'.version > rel.version /\ Out(SeenMachines[m])
  <1>0. TypeOK
    BY DEF Safe
  <1>1. ASSUME m \in rel.keys
        PROVE  rel'.version > rel.version /\ Out(SeenMachines[m])
    <2>1. m \notin rel'.keys
      BY DEF Retired
    <2>2. mc.pc = "unregister" /\ mc.m = m /\ rel' # rel
      <3>1. CASE WriteAccepted /\ rel'.keys = rc.work.keys
        <4>1. rc.pc = "bind" /\ rel = rc.base
          BY <3>1, AcceptedKeeps DEF Safe
        <4>2. rc.base.keys \subseteq rc.work.keys
          BY <4>1 DEF PlacesThere
        <4> QED BY <1>1, <2>1, <3>1, <4>1, <4>2
      <3> QED BY <1>1, <2>1, <3>1, KeysMove
    <2>3. Out(SeenMachines[m])
      BY <2>2 DEF MachinesBehind, Stopping
    <2> QED BY <2>2, <2>3, KeysMove
  <1>2. ASSUME m \notin rel.keys
        PROVE  FALSE
    <2>1. ~Out(machines[m]) /\ Out(machines'[m])
      BY <1>2 DEF Retired
    <2>2. machines'[m] # machines[m]
      BY <2>1
    <2>3. CASE MachineKept(m, machines[m], machines'[m])
      BY <2>1, <2>3 DEF MachineKept
    <2>4. CASE MachineShut(machines[m], machines'[m])
      BY <1>2, <2>4 DEF MachineShut, KeysThere
    <2>5. CASE MachineGone(m, machines[m], machines'[m])
      BY <1>2, <2>1, <2>5 DEF MachineGone, KeysThere, Retired
    <2> QED BY <1>0, <2>2, <2>3, <2>4, <2>5, MachinesMove
  <1> QED BY <1>1, <1>2

\* Placing a group enters its machine, from the list, in the working copy.
LEMMA PlacedKeys ==
    ASSUME Safe, RequestBindGroup
    PROVE  \/ rc' = RIdle
           \/ /\ rc'.pc = "bind" /\ rc.pc = "bind" /\ rc'.order = rc.order /\ rc'.base = rc.base
              /\ \E i \in DOMAIN rc.order : rc'.work.keys = rc.work.keys \cup {rc.order[i]}
  <1>0. RequestTypeOK /\ RelationshipOK(rc.work) /\ rc.pc = "bind"
    BY DEF Safe, TypeOK, RequestTypeOK, RequestBindGroup
  <1>1. PICK g \in NextGroups : PlaceGroup(g[1], g[2]) \/ NoPlace(g[1], g[2])
    BY DEF RequestBindGroup
  <1>2. CASE NoPlace(g[1], g[2])
    BY <1>2 DEF NoPlace
  <1>3. CASE PlaceGroup(g[1], g[2])
    <2>1. PICK i \in DOMAIN rc.order :
             \E b : rc' = [rc EXCEPT !.work = Bound(rc.work, rc.order[i], g[2], b),
                                     !.named = @ \ {g[1]}, !.single = @ \ g[2],
                                     !.toLock = IF IsExclusive(g[1]) THEN @ \cup {rc.order[i]} ELSE @]
      BY <1>3 DEF PlaceGroup
    <2>2. PICK b : rc' = [rc EXCEPT !.work = Bound(rc.work, rc.order[i], g[2], b),
                                    !.named = @ \ {g[1]}, !.single = @ \ g[2],
                                    !.toLock = IF IsExclusive(g[1]) THEN @ \cup {rc.order[i]} ELSE @]
      BY <2>1
    <2>3. /\ rc'.pc = rc.pc /\ rc'.order = rc.order /\ rc'.base = rc.base
          /\ rc'.work = Bound(rc.work, rc.order[i], g[2], b)
      BY <1>0, <2>2 DEF RequestTypeOK
    <2>4. Bound(rc.work, rc.order[i], g[2], b).keys = rc.work.keys \cup {rc.order[i]}
      BY <1>0 DEF Bound, RelationshipOK
    <2> QED BY <1>0, <2>3, <2>4
  <1> QED BY <1>1, <1>2, <1>3


\* A machine that the scheduler accepts a request on is in service.
LEMMA AcceptedInService ==
    ASSUME Safe, PlacesThere, WriteAccepted, NEW m \in Machine,
           m \in rc.work.keys, m \notin rel.keys
    PROVE  ~Retired(m) /\ machines[m].fin
  <1>1. rc.pc = "bind" /\ rel = rc.base
    BY AcceptedKeeps DEF Safe
  <1>2. PICK i \in DOMAIN rc.order : rc.order[i] = m
    BY <1>1 DEF PlacesThere
  <1>3. machines[m].fin \/ ~Exists(machines[m])
    BY <1>1, <1>2 DEF PlacesThere
  <1>4. rel.version \in Nat
    BY DEF Safe, TypeOK, ControlPlaneTypeOK, RelationshipOK
  <1>5. ~Retired(m)
    BY <1>1, <1>2, <1>4 DEF PlacesThere
  <1> QED BY <1>3, <1>5 DEF Retired, Out

\* Every step keeps the machines of the Relationship there.
LEMMA KeysStep ==
    ASSUME Safe, MachinesBehind, KeysThere, PlacesThere, [Next]_vars,
           \A n \in Machine : MayDelete(n) => n \in rel.keys
    PROVE  KeysThere'
  <1>0. TypeOK
    BY DEF Safe
  <1>1. ASSUME NEW m \in Machine, m \in rel'.keys
        PROVE  machines'[m].fin
    <2>1. CASE m \in rel.keys
      <3>1. machines[m].fin /\ ~Retired(m)
        BY <2>1 DEF KeysThere, Retired
      <3>2. ~MachineGone(m, machines[m], machines'[m])
        BY <3>1 DEF MachineGone, KeysThere
      <3> QED BY <1>0, <3>1, <3>2, MachinesMove DEF MachineKept, MachineShut
    <2>2. CASE m \notin rel.keys
      <3>1. CASE SeenMachines[m].fin /\ SeenMachines[m].state = "ready" /\ machines' = machines
        BY <3>1, SeenInService DEF Out
      <3>2. CASE WriteAccepted /\ machines' = machines /\ rel'.keys = rc.work.keys
        BY <1>1, <2>2, <3>2, AcceptedInService
      <3> QED BY <1>1, <2>2, <3>1, <3>2, KeysMove
    <2> QED BY <2>1, <2>2
  <1>2. ASSUME NEW m \in Machine, machines'[m].del, ~Out(machines'[m])
        PROVE  m \in rel'.keys
    <2>1. ~Out(machines[m])
      BY <1>0, <1>2, MachinesAdvance DEF MachineNotBefore
    <2>2. m \in rel.keys
      <3>1. CASE machines'[m] = machines[m]
        BY <1>2, <2>1, <3>1 DEF KeysThere
      <3>2. CASE MachineKept(m, machines[m], machines'[m])
        BY <1>2, <2>1, <3>2 DEF MachineKept, KeysThere
      <3>3. CASE MachineShut(machines[m], machines'[m])
        BY <1>2, <3>3 DEF MachineShut
      <3>4. CASE MachineGone(m, machines[m], machines'[m])
        <4>1. machines'[m].state = "absent"
          BY <3>4 DEF MachineGone, AbsentMachine
        <4> QED BY <1>2, <4>1 DEF Out
      <3> QED BY <1>0, <3>1, <3>2, <3>3, <3>4, MachinesMove
    <2>3. ~Retired(m) /\ ~(Retired(m)' /\ Out(SeenMachines[m]))
      <3>1. MachineNotBefore(SeenMachines[m], machines[m])
        BY <1>0, SeenMachinesAdvance
      <3> QED BY <2>1, <3>1 DEF Retired, MachineNotBefore
    <2>4. ASSUME m \notin rel'.keys
          PROVE  FALSE
      <3>1. CASE WriteAccepted /\ rel'.keys = rc.work.keys
        <4>1. rc.pc = "bind" /\ rel = rc.base
          BY <3>1, AcceptedKeeps DEF Safe
        <4> QED BY <2>2, <2>4, <3>1, <4>1 DEF PlacesThere
      <3>2. CASE mc.pc = "unregister" /\ mc.m = m
        <4>1. Out(SeenMachines[m]) /\ MachineNotBefore(SeenMachines[m], machines[m])
          BY <1>0, <3>2, SeenMachinesAdvance DEF MachinesBehind, Stopping
        <4> QED BY <2>1, <4>1 DEF MachineNotBefore
      <3> QED BY <2>2, <2>4, <3>1, <3>2, KeysMove
    <2> QED BY <2>4
  <1>3. ASSUME NEW m \in Machine, Retired(m)'
        PROVE  Out(SeenMachines'[m])
    <2>1. Out(SeenMachines[m])
      BY <1>3, RetiresLate DEF KeysThere
    <2> QED BY <1>0, <2>1, SeenMachinesAdvance DEF MachineNotBefore
  <1>4. ASSUME mc'.pc = "finalizer"
        PROVE  Retired(mc.m)' /\ mc'.m = mc.m
    <2>0. MachineTypeOK
      BY <1>0 DEF TypeOK
    <2>1. CASE mc' = mc
      <3>1. mc.m \in Machine /\ mc.pc = "finalizer"
        BY <1>4, <2>0, <2>1 DEF MachineTypeOK
      <3>2. PICK m \in Machine : m = mc.m
        BY <3>1
      <3>3. Retired(m)
        BY <3>1, <3>2 DEF KeysThere
      <3>4. Out(machines'[m])
        BY <1>0, <3>3, MachinesAdvance DEF MachineNotBefore, Retired
      <3>5. m \notin rel'.keys
        <4>1. CASE WriteAccepted /\ rel'.keys = rc.work.keys
          BY <3>3, <4>1, AcceptedInService DEF Retired
        <4> QED BY <3>1, <3>3, <4>1, KeysMove DEF Retired
      <3> QED BY <2>1, <3>2, <3>4, <3>5 DEF Retired
    <2>2. CASE MachineUnregister
      <3>1. /\ mc.m \in Machine /\ mc.pc = "unregister" /\ mc'.m = mc.m
            /\ machines' = machines
            /\ UpdateRelationship(mc.base, [mc.base EXCEPT !.keys = @ \ {mc.m}, !.m2r[mc.m] = {}])
        BY <2>0, <2>2 DEF MachineUnregister, MachineTypeOK, UpdateRelationship
      <3>2. RelationshipOK([mc.base EXCEPT !.keys = @ \ {mc.m}, !.m2r[mc.m] = {}])
        BY <2>0, <3>1, UnregisteredOK DEF MachineTypeOK
      <3>3. [mc.base EXCEPT !.keys = @ \ {mc.m}, !.m2r[mc.m] = {}].keys = mc.base.keys \ {mc.m}
        BY <2>0 DEF MachineTypeOK, RelationshipOK
      <3>4. rel'.keys = [mc.base EXCEPT !.keys = @ \ {mc.m}, !.m2r[mc.m] = {}].keys
        BY <3>1, <3>2 DEF UpdateRelationship, RelationshipOK
      <3>5. Out(machines[mc.m])
        BY <1>0, <3>1, SeenMachinesAdvance DEF MachinesBehind, Stopping, MachineNotBefore
      <3> QED BY <3>1, <3>3, <3>4, <3>5 DEF Retired
    <2>3. ASSUME NEW m \in Machine
          PROVE  /\ MachineTryLock(m) => mc'.pc = "ready"
                 /\ MachineCreateUploadDaemon(m) => mc'.pc = "upload"
                 /\ MachineShutdown(m) => mc'.pc = "unlock"
      <3>1. MachineTryLock(m) => mc'.pc = "ready"
        BY DEF MachineTryLock, MIdle
      <3>2. MachineCreateUploadDaemon(m) => mc'.pc = "upload"
        BY DEF MachineCreateUploadDaemon, MIdle
      <3>3. MachineShutdown(m) => mc'.pc = "unlock"
        BY DEF MachineShutdown
      <3> QED BY <3>1, <3>2, <3>3
    <2>4. /\ MachineUnlock => mc'.pc = "unload"
          /\ MachineDeleteUploadDaemon => mc'.pc = "unregister"
          /\ MIdle.pc = "idle"
      BY <2>0 DEF MachineUnlock, MachineDeleteUploadDaemon, MachineTypeOK, MIdle
    <2> QED
      BY <1>0, <1>4, <2>1, <2>2, <2>3, <2>4, MachineWorkerMoves
  <1>5. mc'.pc = "finalizer" => Retired(mc.m)'
    BY <1>4
  <1>6. mc'.pc = "finalizer" => Out(machines'[mc'.m]) /\ mc'.m \notin rel'.keys
    BY <1>4 DEF Retired
  <1> QED
    BY <1>1, <1>2, <1>3, <1>6 DEF KeysThere, Retired

\* Every step keeps the scheduler to machines that are there, or that it finds
\* to be retired when it writes.
LEMMA PlacesStep ==
    ASSUME Safe, MachinesBehind, CopiesBehind, KeysThere, PlacesThere, [Next]_vars,
           \A n \in Machine : MayDelete(n) => n \in rel.keys
    PROVE  PlacesThere'
  <1>0. TypeOK /\ RequestTypeOK /\ WorkingCopyOK /\ rel.version \in Nat /\ rel'.version \in Nat
    BY RelationshipStaysOK DEF Safe, TypeOK, ControlPlaneTypeOK, RelationshipOK
  <1>1. rel.version <= rel'.version
    BY <1>0, KeysMove
  <1>2. ASSUME rc.pc = "bind", rc'.pc = "bind", rc'.order = rc.order, rc'.base = rc.base,
               rc.base.keys \subseteq rc'.work.keys,
               \A m \in rc'.work.keys \ rc.base.keys : \E i \in DOMAIN rc.order : rc.order[i] = m
        PROVE  PlacesThere'
    <2>0. rc.base.version \in Nat /\ rc.base.version <= rel.version
      BY <1>0, <1>2 DEF CopiesBehind, RequestTypeOK, RelationshipOK
    <2>1. ASSUME NEW i \in DOMAIN rc.order
          PROVE  /\ machines'[rc.order[i]].fin \/ ~Exists(machines'[rc.order[i]])
                 /\ Out(machines'[rc.order[i]]) /\ rc.order[i] \notin rel'.keys
                       => rc.base.version < rel'.version
      <3>1. PICK m \in Machine : m = rc.order[i]
        BY <1>0 DEF RequestTypeOK
      <3>2. machines[m].fin \/ ~Exists(machines[m])
        BY <1>2, <3>1 DEF PlacesThere
      <3>3. machines'[m].fin \/ ~Exists(machines'[m])
        BY <1>0, <3>2, MachinesAdvance DEF MachineNotBefore
      <3>4. ASSUME Retired(m)'
            PROVE  rc.base.version < rel'.version
        <4>1. CASE Retired(m)
          <5>1. rc.base.version < rel.version
            BY <1>2, <3>1, <4>1 DEF PlacesThere
          <5> QED BY <1>0, <1>1, <2>0, <5>1
        <4>2. CASE ~Retired(m)
          <5>1. rel'.version > rel.version
            BY <3>4, <4>2, RetiresLate
          <5> QED BY <1>0, <2>0, <5>1
        <4> QED BY <4>1, <4>2
      <3> QED BY <3>1, <3>3, <3>4 DEF Retired
    <2> QED BY <1>2, <2>1 DEF PlacesThere, Retired
  <1>3. CASE rc' = rc
    <2>1. rc.pc = "bind" => PlacesThere'
      BY <1>2, <1>3 DEF PlacesThere
    <2>2. rc.pc # "bind" => PlacesThere'
      BY <1>3 DEF PlacesThere
    <2> QED BY <2>1, <2>2
  <1>4. CASE rc'.pc # "bind"
    BY <1>4 DEF PlacesThere
  <1>5. CASE RequestListMachines
    <2>1. PICK s \in sortMachines(rc.r, selectNonLockMachines(rc.base), rc.base) :
             rc' = [rc EXCEPT !.pc = "bind", !.order = s,
                              !.named = Logical(rc.r),
                              !.single = GroupItems(rc.r, None)]
      BY <1>5 DEF RequestListMachines
    <2>2. /\ rc'.order = s /\ rc'.base = rc.base /\ rc'.work = rc.work
          /\ rc.pc = "machines" /\ machines' = machines /\ rel' = rel
      BY <1>0, <1>5, <2>1 DEF RequestTypeOK, RequestListMachines, storeVars
    <2>3. rc.work = rc.base
      BY <1>0, <2>2 DEF WorkingCopyOK
    <2>4. ASSUME NEW i \in DOMAIN s
          PROVE  /\ machines[s[i]].fin \/ ~Exists(machines[s[i]])
                 /\ ~(Out(machines[s[i]]) /\ s[i] \notin rel.keys)
      <3>1. s[i] \in getMachines
        BY <2>4 DEF sortMachines, selectNonLockMachines
      <3>2. PICK m \in Machine : m = s[i] /\ SeenMachines[m].state = "ready"
        BY <3>1 DEF getMachines
      <3>3. ~Out(SeenMachines[m])
        BY <3>2 DEF Out
      <3>4. MachineMade(SeenMachines[m])
        BY DEF MachinesBehind, SeenMachines
      <3>5. MachineNotBefore(SeenMachines[m], machines[m])
        BY <1>0, SeenMachinesAdvance
      <3>6. SeenMachines[m].fin
        BY <3>2, <3>4 DEF MachineMade
      <3>7. machines[m].fin \/ ~Exists(machines[m])
        BY <3>5, <3>6 DEF MachineNotBefore
      <3>8. ~Retired(m)
        BY <3>3 DEF KeysThere
      <3> QED BY <3>2, <3>7, <3>8 DEF Retired
    <2> QED BY <2>2, <2>3, <2>4 DEF PlacesThere, Retired
  <1>6. CASE RequestBindGroup
    <2>1. CASE rc' = RIdle
      BY <2>1, <1>4 DEF RIdle
    <2>2. CASE rc'.pc = "bind" /\ rc.pc = "bind" /\ rc'.order = rc.order /\ rc'.base = rc.base
               /\ \E i \in DOMAIN rc.order : rc'.work.keys = rc.work.keys \cup {rc.order[i]}
      <3>1. /\ rc.base.keys \subseteq rc.work.keys
            /\ \A m \in rc.work.keys \ rc.base.keys : \E i \in DOMAIN rc.order : rc.order[i] = m
        BY <2>2 DEF PlacesThere
      <3>2. rc.base.keys \subseteq rc'.work.keys
        BY <2>2, <3>1
      <3>3. \A m \in rc'.work.keys \ rc.base.keys : \E i \in DOMAIN rc.order : rc.order[i] = m
        BY <2>2, <3>1
      <3> QED BY <1>2, <2>2, <3>2, <3>3
    <2> QED BY <1>6, <2>1, <2>2, PlacedKeys
  <1>7. RIdle.pc = "idle"
    BY DEF RIdle
  <1>8. RequestReadRelationship => rc'.pc = "machines"
    BY <1>0 DEF RequestReadRelationship, RequestTypeOK
  <1>9. RequestRelease => rc'.pc = "finalizer"
    BY <1>0 DEF RequestRelease, RequestTypeOK
  <1>10. ASSUME NEW r \in Request, RequestNotRequired(r) \/ RequestNoResources(r)
         PROVE  rc'.pc # "bind"
    <2>1. RequestNotRequired(r) => rc'.pc = "relation"
      BY DEF RequestNotRequired, RIdle
    <2>2. RequestNoResources(r) => rc'.pc = "release"
      BY DEF RequestNoResources, RIdle
    <2> QED BY <1>10, <2>1, <2>2
  <1> QED
    BY <1>0, <1>3, <1>4, <1>5, <1>6, <1>7, <1>8, <1>9, <1>10, SchedulerMoves

\* The machines that are there at first.
LEMMA InitKeys ==
    ASSUME Init
    PROVE  CopiesBehind /\ KeysThere /\ PlacesThere
  <1>1. rc.pc = "idle" /\ mc.pc = "idle"
    BY DEF Init, RequestInit, MachineInit, RIdle, MIdle
  <1>2. rel.version = 0 /\ cache.rel = rel
    BY DEF Init, ControlPlaneInit, EmptyRelationship
  <1>3. ASSUME NEW m \in Machine
        PROVE  /\ m \in rel.keys => machines[m].fin
               /\ ~machines[m].del /\ ~Out(machines[m])
    <2>1. CASE Booted
      BY <2>1 DEF Init, ControlPlaneInit, Out
    <2>2. CASE ~Booted
      BY <2>2 DEF Init, ControlPlaneInit, Out, EmptyRelationship, AbsentMachine
    <2> QED BY <2>1, <2>2
  <1> QED
    BY <1>1, <1>2, <1>3 DEF CopiesBehind, KeysThere, PlacesThere, Retired

\* Every step keeps the machines of the Relationship, and the ones that the
\* scheduler goes through, there.
LEMMA ServiceStep ==
    ASSUME LedgerInv, MachinesBehind, CopiesBehind, KeysThere, PlacesThere, [Next]_vars,
           \A n \in Machine : MayDelete(n) => n \in rel.keys
    PROVE  LedgerInv' /\ MachinesBehind' /\ CopiesBehind' /\ KeysThere' /\ PlacesThere'
  <1>1. Safe /\ TypeOK
    BY DEF LedgerInv, Safe
  <1>2. LedgerInv'
    BY LedgerStep
  <1>3. MachinesBehind' /\ CopiesBehind'
    BY <1>1, MachinesBehindStep, CopiesStep
  <1>4. KeysThere' /\ PlacesThere'
    BY <1>1, KeysStep, PlacesStep
  <1> QED BY <1>2, <1>3, <1>4

\* BoundMachineExists holds where users delete a machine only once it is in the
\* Relationship (BoundMachineExists; Reconcile of the MachineReconciler and
\* tryRequest).  A machine that is shut down waits for its resources, and the
\* refused write keeps the scheduler from placing others on it.
THEOREM BoundMachinesExist ==
    "delete new machine" \notin Users => (Spec => []BoundMachineExists)
  <1> SUFFICES ASSUME "delete new machine" \notin Users
               PROVE  Spec => []BoundMachineExists
    OBVIOUS
  <1> DEFINE Inv == LedgerInv /\ MachinesBehind /\ CopiesBehind /\ KeysThere /\ PlacesThere
  <1>0. \A n \in Machine : MayDelete(n) => n \in rel.keys
    BY DEF MayDelete
  <1>1. Init => Inv
    BY InitLedger, InitMachines, InitKeys
  <1>2. ASSUME Inv, [Next]_vars
        PROVE  Inv'
    BY <1>0, <1>2, ServiceStep
  <1>3. ASSUME Inv
        PROVE  BoundMachineExists
    <2>1. ASSUME NEW k \in DOMAIN rel.r2m
          PROVE  Exists(machines[rel.r2m[k].machine])
      <3>1. PICK m \in Machine : m = rel.r2m[k].machine
        BY <1>3 DEF LedgerInv, Safe, TypeOK, ControlPlaneTypeOK, RelationshipOK
      <3>2. m \in rel.keys
        BY <1>3, <3>1 DEF LedgerInv, MapsAgree, MapsTally
      <3>3. machines[m].fin /\ MachineMade(machines[m])
        BY <1>3, <3>2 DEF KeysThere, MachinesBehind
      <3> QED BY <3>1, <3>3 DEF MachineMade
    <2> QED BY <2>1 DEF BoundMachineExists
  <1> QED
    BY <1>1, <1>2, <1>3, PTL DEF Spec

(***************************************************************************)
(* How resources move.                                                     *)
(***************************************************************************)

\* The object stays; it gets its machine as the Relationship that is seen says.
ResourceKept(x, o, p) ==
    /\ Exists(o) /\ Exists(p) /\ SameResource(o, p) /\ p.del = o.del
    /\ IsRequired(o) => IsRequired(p)
    /\ IsRequired(p) /\ ~IsRequired(o) => ResRef(x, o) \in DOMAIN SeenRel.r2m

\* The object is marked as deleted, or goes.
ResourceEnded(o, p) ==
    /\ p.inc = o.inc /\ Ended(p) /\ (p.del => Exists(p))
    /\ Exists(p) => Exists(o) /\ SameResource(o, p) /\ (IsRequired(o) => IsRequired(p))

\* Users delete resources, as the deletion of a namespace does.
DeletesResources == "delete resource" \in Users

\* Why the object of x is deleted: its finalizer is removed, its owner is gone or
\* is seen to be deleted, or users delete it.
MayEnd(x) ==
    \/ Leaving(x)
    \/ ~Lives(resources[x].owner)
    \/ \E r \in Request : Deleting(r) /\ x \in listOwnedResources(r)
    \/ DeletesResources

\* A request that is seen to wait creates its resource x, seeing none there.
ResourceMade(x, o, p) ==
    /\ ~Exists(o) /\ p.inc = o.inc + 1 /\ Exists(p) /\ ~p.del /\ ~IsRequired(p)
    /\ ~Exists(SeenResources[x])
    /\ \E r \in Request : p.owner = [name |-> r, gen |-> SeenRequests[r].gen]

\* What a step does to the object of resource x.
LEMMA ObjectsMove ==
    ASSUME TypeOK, [Next]_vars, NEW x \in Resource
    PROVE  LET o == resources[x]
               p == resources'[x] IN
           \/ p = o
           \/ /\ \/ ResourceKept(x, o, p)
                 \/ ResourceEnded(o, p) /\ MayEnd(x)
                 \/ ResourceMade(x, o, p)
              /\ UNCHANGED <<rel, requests, cache>>
  <1> DEFINE o == resources[x]
             p == resources'[x]
             Goal == \/ p = o
                     \/ /\ \/ ResourceKept(x, o, p)
                           \/ ResourceEnded(o, p) /\ MayEnd(x)
                           \/ ResourceMade(x, o, p)
                        /\ UNCHANGED <<rel, requests, cache>>
  <1>0. resources \in [Resource -> ResourceObject]
    BY DEF TypeOK, ControlPlaneTypeOK
  <1>1. ASSUME NEW y \in Resource, DeleteResource(y), MayEnd(y), resources[y].state # "absent"
        PROVE  Goal
    <2>0. \A n \in Resource \ {y} : resources'[n] = resources[n]
      BY <1>0, <1>1 DEF DeleteResource
    <2>1. CASE resources[y].fin
      <3>1. resources'[y] = [resources[y] EXCEPT !.del = TRUE]
        BY <1>0, <1>1, <2>1 DEF DeleteResource, DeletedResource
      <3>2. /\ resources'[y].inc = resources[y].inc /\ resources'[y].owner = resources[y].owner
            /\ resources'[y].state = resources[y].state /\ resources'[y].del = TRUE
        BY <1>0, <3>1 DEF ResourceObject
      <3> QED BY <1>1, <2>0, <3>2 DEF ResourceEnded, Ended, SameResource, IsRequired, DeleteResource
    <2>2. CASE ~resources[y].fin
      <3>1. resources'[y] = AbsentResource(resources[y].inc)
        BY <1>0, <1>1, <2>2 DEF DeleteResource, DeletedResource
      <3>2. /\ resources'[y].inc = resources[y].inc /\ resources'[y].state = "absent"
            /\ resources'[y].del = FALSE
        BY <3>1 DEF AbsentResource
      <3> QED BY <1>1, <2>0, <3>2 DEF ResourceEnded, Ended, DeleteResource
    <2> QED BY <2>1, <2>2
  <1>2. ASSUME NEW r \in Request, RequestBegin(r)
        PROVE  Goal
    <2>1. ASSUME NEW y \in Resource, RequestCreateResource(r, y)
          PROVE  Goal
      <3>1. /\ resources'[y] = [AbsentResource(resources[y].inc + 1) EXCEPT
                                  !.state = "", !.owner = Ref(r, SeenRequests[r])]
            /\ resources[y].state = "absent" /\ UNCHANGED <<rel, requests, cache>>
        BY <1>0, <2>1 DEF RequestCreateResource
      <3>2. /\ resources'[y].inc = resources[y].inc + 1 /\ resources'[y].state = ""
            /\ resources'[y].del = FALSE /\ resources'[y].owner = Ref(r, SeenRequests[r])
        BY <3>1 DEF AbsentResource
      <3>3. \A n \in Resource \ {y} : resources'[n] = resources[n]
        BY <1>0, <2>1 DEF RequestCreateResource
      <3>4. y \in ItemNames(r) \ listResources(r)
        BY <2>1 DEF RequestCreateResource
      <3>5. Ns[y] = Ns[r]
        BY <3>4, NamespaceAssumption DEF ItemNames
      <3>6. SeenResources[y].state = "absent"
        BY <3>4, <3>5 DEF listResources
      <3>7. resources'[y].state # "absent" /\ ~IsRequired(resources'[y])
        BY <3>2 DEF IsRequired
      <3>8. resources'[y].owner = [name |-> r, gen |-> SeenRequests[r].gen]
        BY <3>2
      <3>9. resources'[y].inc = resources[y].inc + 1 /\ ~resources'[y].del
        BY <3>2
      <3> QED BY <3>1, <3>3, <3>6, <3>7, <3>8, <3>9 DEF ResourceMade
    <2>2. ASSUME NEW y \in Resource, RequestDeleteResource(r, y)
          PROVE  Goal
      BY <1>1, <2>2 DEF RequestDeleteResource, MayEnd
    <2> QED
      BY <1>2, <2>1, <2>2
      DEF RequestBegin, RequestAddFinalizer, RequestBeginPending, RequestReady,
          RequestNotRequired, RequestNoResources, UpdateRequest, storeVars
  <1>3. ASSUME RequestContinue
        PROVE  resources' = resources
    BY <1>3 DEF RequestContinue, RequestWait, RequestReadRelationship, RequestListMachines,
                RequestNoExplicitMachine, RequestBindGroup, RequestCommit, RequestRelease,
                RequestRemoveFinalizer, RequestConflict, UpdateRequest, UpdateRelationship,
                storeVars
  <1>4. ASSUME NEW y \in Resource, ResourceBegin(y)
        PROVE  Goal
    <2>1. CASE ResourceAddFinalizer(y)
      <3>1. /\ resources'[y] = [resources[y] EXCEPT !.fin = TRUE]
            /\ resources[y].state # "absent" /\ UNCHANGED <<rel, requests, cache>>
        BY <1>0, <2>1 DEF ResourceAddFinalizer, UpdateResource
      <3>2. \A n \in Resource \ {y} : resources'[n] = resources[n]
        BY <1>0, <2>1 DEF ResourceAddFinalizer, UpdateResource
      <3>3. /\ resources'[y].inc = resources[y].inc /\ resources'[y].owner = resources[y].owner
            /\ resources'[y].state = resources[y].state /\ resources'[y].del = resources[y].del
        BY <1>0, <3>1 DEF ResourceObject
      <3> QED BY <3>1, <3>2, <3>3 DEF ResourceKept, SameResource, IsRequired
    <2>2. CASE ResourceBeginPending(y)
      <3>1. /\ resources'[y] = [resources[y] EXCEPT !.state = "pending"]
            /\ UNCHANGED <<rel, requests, cache>>
        BY <1>0, <2>2 DEF ResourceBeginPending, UpdateResource
      <3>2. \A n \in Resource \ {y} : resources'[n] = resources[n]
        BY <1>0, <2>2 DEF ResourceBeginPending, UpdateResource
      <3>3. /\ resources'[y].inc = resources[y].inc /\ resources'[y].owner = resources[y].owner
            /\ resources'[y].state = "pending" /\ resources'[y].del = resources[y].del
        BY <1>0, <3>1 DEF ResourceObject
      <3>4. resources[y].state # "absent" /\ ~IsRequired(resources[y])
        BY <2>2 DEF ResourceBeginPending, UpdateResource, IsRequired
      <3>5. ~IsRequired(resources'[y])
        BY <3>3 DEF IsRequired
      <3> QED BY <3>1, <3>2, <3>3, <3>4, <3>5 DEF ResourceKept, SameResource
    <2>3. CASE ResourcePending(y)
      <3>1. /\ resources'[y] = [resources[y] EXCEPT !.state = "uninitialized"]
            /\ UNCHANGED <<rel, requests, cache>> /\ resources[y].state = "pending"
            /\ ResRef(y, resources[y]) \in DOMAIN SeenRel.r2m
        BY <1>0, <2>3 DEF ResourcePending, UpdateResource
      <3>2. \A n \in Resource \ {y} : resources'[n] = resources[n]
        BY <1>0, <2>3 DEF ResourcePending, UpdateResource
      <3>3. /\ resources'[y].inc = resources[y].inc /\ resources'[y].owner = resources[y].owner
            /\ resources'[y].state = "uninitialized" /\ resources'[y].del = resources[y].del
        BY <1>0, <3>1 DEF ResourceObject
      <3> QED BY <3>1, <3>2, <3>3 DEF ResourceKept, SameResource, IsRequired
    <2> QED
      BY <1>4, <2>1, <2>2, <2>3
      DEF ResourceBegin, ResourceRelease, ResourceSkipRelease, UpdateRelationship, storeVars
  <1>5. ASSUME ResourceContinue
        PROVE  Goal
    <2>0. ResourceTypeOK
      BY DEF TypeOK
    <2>1. CASE ResourceRemoveFinalizer
      <3>1. /\ resources'[tc.x] = AbsentResource(tc.obj.inc) /\ tc.x \in Resource
            /\ UNCHANGED <<rel, requests, cache>> /\ Leaving(tc.x)
        BY <1>0, <2>0, <2>1
        DEF ResourceRemoveFinalizer, UpdateResource, ResourceTypeOK, Leaving
      <3>2. \A n \in Resource \ {tc.x} : resources'[n] = resources[n]
        BY <1>0, <2>1 DEF ResourceRemoveFinalizer, UpdateResource
      <3>3. /\ resources'[tc.x].inc = resources[tc.x].inc /\ resources'[tc.x].state = "absent"
            /\ resources'[tc.x].del = FALSE
        BY <3>1 DEF AbsentResource, Leaving
      <3> QED BY <3>1, <3>2, <3>3 DEF ResourceEnded, Ended, MayEnd
    <2> QED
      BY <1>5, <2>1 DEF ResourceContinue, ResourceConflict, storeVars
  <1>6. ASSUME NEW m \in Machine, MachineBegin(m)
        PROVE  resources' = resources
    BY <1>6 DEF MachineBegin, MachineAddFinalizer, MachineBeginShutdown, storeVars,
                MachineBeginStarting, MachineTryLock, MachineCreateUploadDaemon,
                MachineRegister, MachineShutdown, UpdateMachine, UpdateRelationship
  <1>7. ASSUME MachineContinue
        PROVE  resources' = resources
    BY <1>7 DEF MachineContinue, MachineReady, MachineSetUploadPort, MachineUnlock,
                MachineDeleteUploadDaemon, MachineUnregister, MachineRemoveFinalizer,
                MachineConflict, UpdateMachine, UpdateRelationship, storeVars
  <1>8. ASSUME NEW y \in Resource, CollectGarbage(y)
        PROVE  Goal
    BY <1>1, <1>8 DEF CollectGarbage, MayEnd, Lives
  <1>9. ASSUME NEW y \in Resource, DeleteNamespacedResource(y)
        PROVE  Goal
    <2>1. MayEnd(y) /\ resources[y].state # "absent" /\ DeleteResource(y)
      BY <1>9 DEF DeleteNamespacedResource, MayEnd, DeletesResources
    <2> QED BY <1>1, <2>1
  <1>10. \/ resources' = resources
         \/ \E y \in Resource : \/ CollectGarbage(y) \/ DeleteNamespacedResource(y)
                                \/ ResourceBegin(y)
         \/ \E r \in Request : RequestBegin(r)
         \/ ResourceContinue
    BY <1>3, <1>6, <1>7
    DEF Next, vars, storeVars, RequestStep, RequestOngoing, ResourceStep, ResourceOngoing,
        MachineStep, MachineOngoing, RelationshipStep, RelationshipReconcile, Watch,
        WatchEvent, CreateRequest, DeleteRequest, DeleteMachine, UpdateRelationship,
        Crash, Panic, Restart
  <1> QED
    BY <1>1, <1>2, <1>4, <1>5, <1>8, <1>9, <1>10

(***************************************************************************)
(* Resources and their requests.                                           *)
(***************************************************************************)

\* What is seen of a request is not ahead of it.
LEMMA RequestsSeen ==
    ASSUME TypeOK, CacheBehind, NEW r \in Request
    PROVE  /\ SeenRequests[r].gen \in Nat /\ requests[r].gen \in Nat
           /\ NotBefore(SeenRequests[r], requests[r])
  <1>1. /\ cache.requests[r] \in RequestObject /\ requests[r] \in RequestObject
        /\ NotBefore(cache.requests[r], requests[r])
    BY DEF TypeOK, ControlPlaneTypeOK, CacheBehind
  <1>2. NotBefore(requests[r], requests[r])
    BY <1>1, NotBeforeOrder
  <1> QED BY <1>1, <1>2 DEF SeenRequests, RequestObject

\* A request that the controllers have heard of does not come to life.
LEMMA LiveBefore ==
    ASSUME TypeOK, CacheBehind, [Next]_vars, NEW q \in RequestRef,
           q.gen <= SeenRequests[q.name].gen, Live(q)'
    PROVE  Live(q)
  <1>1. q.name \in Request /\ q.gen \in Nat
    BY DEF RequestRef
  <1>2. q.gen <= requests[q.name].gen /\ requests[q.name].gen \in Nat
    BY <1>1, RequestsSeen DEF NotBefore
  <1>3. /\ requests'[q.name].state # "absent" /\ requests'[q.name].gen = q.gen
        /\ ~requests'[q.name].del
    BY DEF Live, Lives
  <1>4. ~Created(requests[q.name], requests'[q.name])
    BY <1>1, <1>2, <1>3 DEF Created
  <1> QED
    BY <1>1, <1>3, <1>4, RequestsMove DEF Live, Lives, Advanced, Dropped, Finalized

\* The owner of a resource that a request is seen to delete does not live.
LEMMA OwnerEnds ==
    ASSUME TypeOK, CacheBehind, ResourcesBehind, NEW x \in Resource, Exists(resources[x]),
           NEW r \in Request, Deleting(r), x \in listOwnedResources(r)
    PROVE  ~Live(resources[x].owner)
  <1>1. /\ Exists(SeenResources[x]) /\ SeenResources[x].owner.name = r
        /\ SeenRequests[r].del
    BY DEF listOwnedResources, listResources, Deleting
  <1>2. PICK q \in RequestRef : q = resources[x].owner /\ q.gen <= SeenRequests[q.name].gen
    BY DEF ResourcesBehind
  <1>3. q.name = r /\ q.gen \in Nat
    BY <1>1, <1>2 DEF ResourcesBehind, RequestRef
  <1>4. /\ SeenRequests[r].gen \in Nat /\ requests[r].gen \in Nat
        /\ NotBefore(SeenRequests[r], requests[r])
    BY RequestsSeen
  <1>5. ~Live(q)
    BY <1>1, <1>2, <1>3, <1>4 DEF NotBefore, Ended, Live, Lives
  <1> QED BY <1>2, <1>5

\* A resource of a request that lives stays, unless users delete it.
LEMMA LiveResourceStays ==
    ASSUME TypeOK, CacheBehind, ResourcesBehind, LiveKeep, ~DeletesResources, [Next]_vars,
           NEW x \in Resource, Exists(resources[x]), Live(resources[x].owner)
    PROVE  LET o == resources[x]
               p == resources'[x] IN
           p = o \/ ResourceKept(x, o, p)
  <1>1. ~ResourceMade(x, resources[x], resources'[x])
    BY DEF ResourceMade
  <1>2. ~Leaving(x)
    BY DEF Leaving, LiveKeep
  <1>3. ~MayEnd(x)
    BY <1>2, OwnerEnds DEF MayEnd, Live
  <1> QED BY <1>1, <1>3, ObjectsMove

\* Every step keeps what is seen of the resources behind them.
LEMMA ResourcesBehindStep ==
    ASSUME TypeOK, CacheBehind, HoldersLive, ResourcesBehind, [Next]_vars
    PROVE  ResourcesBehind'
  <1>0. rc.pc = "finalizer" => Gone(Self)
    BY DEF HoldersLive
  <1>1. ASSUME NEW q \in RequestRef, q.gen <= SeenRequests[q.name].gen
        PROVE  q.gen <= SeenRequests'[q.name].gen
    <2>1. q.name \in Request /\ q.gen \in Nat
      BY DEF RequestRef
    <2>2. /\ SeenRequests[q.name].gen \in Nat /\ SeenRequests'[q.name].gen \in Nat
          /\ NotBefore(SeenRequests[q.name], SeenRequests'[q.name])
      BY <1>0, <2>1, SeenOnlyAdvance DEF RequestObject
    <2> QED BY <1>1, <2>1, <2>2 DEF NotBefore
  <1> DEFINE Owned(o) == /\ o.del => Exists(o)
                         /\ Exists(o) => o.owner \in RequestRef
                                         /\ o.owner.gen <= SeenRequests[o.owner.name].gen
             OwnedNext(o) == /\ o.del => Exists(o)
                             /\ Exists(o) => o.owner \in RequestRef
                                             /\ o.owner.gen <= SeenRequests'[o.owner.name].gen
             Behind(o, p) == Exists(o) =>
                                /\ p.inc = o.inc
                                /\ Exists(p) => p.owner = o.owner
                                /\ o.del => Ended(p)
                                /\ IsRequired(o) /\ Exists(p) => IsRequired(p)
  <1>2. ASSUME NEW x \in Resource
        PROVE  Owned(resources[x]) /\ Owned(SeenResources[x])
               /\ Behind(SeenResources[x], resources[x])
    BY DEF ResourcesBehind
  <1>3. ASSUME NEW o, Owned(o)
        PROVE  OwnedNext(o)
    BY <1>1, <1>3
  <1>4. ASSUME NEW x \in Resource
        PROVE  OwnedNext(resources'[x]) /\ Behind(SeenResources[x], resources'[x])
    <2>0. OwnedNext(resources[x]) /\ Behind(SeenResources[x], resources[x])
      BY <1>2, <1>3
    <2>1. CASE resources'[x] = resources[x]
      BY <2>0, <2>1
    <2>2. CASE ResourceKept(x, resources[x], resources'[x])
      <3>1. OwnedNext(resources'[x])
        BY <2>0, <2>2 DEF ResourceKept, SameResource
      <3>2. Behind(SeenResources[x], resources'[x])
        BY <2>0, <2>2 DEF ResourceKept, SameResource, Ended
      <3> QED BY <3>1, <3>2
    <2>3. CASE ResourceEnded(resources[x], resources'[x])
      <3>1. OwnedNext(resources'[x])
        BY <2>0, <2>3 DEF ResourceEnded, SameResource
      <3>2. Behind(SeenResources[x], resources'[x])
        BY <2>0, <2>3 DEF ResourceEnded, SameResource
      <3> QED BY <3>1, <3>2
    <2>4. CASE ResourceMade(x, resources[x], resources'[x]) /\ UNCHANGED <<rel, requests, cache>>
      <3>1. SeenRequests' = SeenRequests
        BY <2>4 DEF SeenRequests
      <3>2. PICK r \in Request : resources'[x].owner = [name |-> r, gen |-> SeenRequests[r].gen]
        BY <2>4 DEF ResourceMade
      <3>3. SeenRequests[r].gen \in Nat
        BY RequestsSeen
      <3>4. OwnedNext(resources'[x])
        BY <2>4, <3>1, <3>2, <3>3 DEF ResourceMade, RequestRef
      <3> QED BY <2>4, <3>4 DEF ResourceMade
    <2> QED BY <2>1, <2>2, <2>3, <2>4, ObjectsMove
  <1>5. ASSUME NEW x \in Resource
        PROVE  Behind(SeenResources'[x], resources'[x]) /\ OwnedNext(SeenResources'[x])
    <2>1. CASE SeenResources' = resources'
      BY <1>4, <2>1 DEF Ended
    <2>2. CASE SeenResources' = SeenResources
      BY <1>2, <1>3, <1>4, <2>2
    <2> QED BY <2>1, <2>2, SeenMoves
  <1> QED
    BY <1>4, <1>5 DEF ResourcesBehind

\* The objects of a name are counted.
LEMMA IncsAdvance ==
    ASSUME TypeOK, [Next]_vars, NEW x \in Resource
    PROVE  /\ resources[x].inc \in Nat /\ resources'[x].inc \in Nat
           /\ resources[x].inc <= resources'[x].inc
  <1>1. resources[x].inc \in Nat
    BY DEF TypeOK, ControlPlaneTypeOK, ResourceObject
  <1>2. resources'[x].inc \in {resources[x].inc, resources[x].inc + 1}
    BY ObjectsMove DEF ResourceKept, ResourceEnded, ResourceMade, SameResource
  <1> QED BY <1>1, <1>2

\* Every step keeps the references behind the objects.
LEMMA RefsStep ==
    ASSUME Safe, KnownAreAccepted, HoldersLive, PlacingOK, ResourcesBehind, RefsBehind,
           [Next]_vars
    PROVE  RefsBehind'
  <1>0. TypeOK /\ RequestTypeOK /\ WorkingCopyOK /\ RIdle.pc = "idle"
    BY DEF Safe, TypeOK, RIdle
  <1>1. ASSUME NEW k \in ResourceRef, k.inc <= resources[k.name].inc
        PROVE  k.inc <= resources'[k.name].inc
    <2>1. k.name \in Resource /\ k.inc \in Nat
      BY DEF ResourceRef
    <2> QED BY <1>0, <1>1, <2>1, IncsAdvance
  <1>2. ASSUME NEW k \in Known'
        PROVE  k.inc <= resources'[k.name].inc
    <2>1. CASE k \in Known
      BY <1>1, <2>1 DEF RefsBehind, KnownAreAccepted
    <2>2. CASE WriteAccepted /\ k \in PlacedRefs
      <3>1. rc.pc \in Binding3 /\ rc.r \in Request
        BY <1>0, <2>2 DEF WriteAccepted, AllPlaced, Binding3, RequestTypeOK
      <3>2. PICK i \in DOMAIN Items[rc.r] : k = rc.refs[Item(i)]
        BY <2>2 DEF PlacedRefs
      <3>3. Item(i) \in DOMAIN rc.refs
        BY <1>0, <3>1 DEF WorkingCopyOK, ItemNames, Item, Binding3
      <3>4. k.name = Item(i) /\ k.inc <= resources[Item(i)].inc /\ k \in ResourceRef
        BY <1>0, <3>1, <3>2, <3>3 DEF PlacingOK, RefsBehind, RequestTypeOK
      <3> QED BY <1>1, <3>4
    <2> QED BY <2>1, <2>2, KnownMoves
  <1>3. ASSUME rc.pc \in Binding3, rc'.refs = rc.refs, NEW x \in DOMAIN rc'.refs
        PROVE  rc'.refs[x].inc <= resources'[x].inc
    <2>1. /\ rc.refs[x] \in ResourceRef /\ rc.refs[x].name = x
          /\ rc.refs[x].inc <= resources[x].inc
      BY <1>0, <1>3 DEF RefsBehind, PlacingOK, RequestTypeOK
    <2>2. PICK k \in ResourceRef : k = rc.refs[x]
      BY <2>1
    <2> QED BY <1>1, <1>3, <2>1, <2>2
  <1>4. ASSUME NEW r \in Request, RequestNotRequired(r), NEW x \in DOMAIN rc'.refs
        PROVE  rc'.refs[x].inc <= resources'[x].inc
    <2>1. /\ rc'.refs = [y \in listResources(r) |-> ResRef(y, SeenResources[y])]
          /\ resources' = resources
      BY <1>4 DEF RequestNotRequired, RIdle, storeVars
    <2>2. x \in Resource /\ Exists(SeenResources[x]) /\ rc'.refs[x].inc = SeenResources[x].inc
      BY <1>4, <2>1 DEF listResources
    <2>3. resources[x].inc = SeenResources[x].inc /\ resources[x].inc \in Nat
      BY <1>0, <2>2, IncsAdvance DEF ResourcesBehind
    <2> QED BY <2>1, <2>2, <2>3
  <1>5. ASSUME rc'.pc \in Binding3, NEW x \in DOMAIN rc'.refs
        PROVE  rc'.refs[x].inc <= resources'[x].inc
    <2>1. CASE rc' = rc
      BY <1>3, <1>5, <2>1
    <2>2. rc' # RIdle
      BY <1>0, <1>5 DEF Binding3
    <2>3. ASSUME NEW r \in Request, RequestNoResources(r)
          PROVE  FALSE
      BY <1>5, <2>3 DEF RequestNoResources, RIdle, Binding3
    <2>4. ~RequestRelease
      BY <1>0, <1>5 DEF RequestRelease, RequestTypeOK, Binding3
    <2>5. CASE RequestReadRelationship \/ RequestListMachines \/ RequestBindGroup
      <3>1. rc'.refs = rc.refs /\ rc.pc \in Binding3
        BY <1>0, <2>2, <2>5, SchedulerKeeps
      <3> QED BY <1>3, <1>5, <3>1
    <2> QED BY <1>0, <1>4, <1>5, <2>1, <2>2, <2>3, <2>4, <2>5, SchedulerMoves
  <1> QED
    BY <1>2, <1>5 DEF RefsBehind

\* Every step keeps the resources of requests that live.
LEMMA LiveKeepStep ==
    ASSUME TypeOK, CacheBehind, ResourcesBehind, LiveKeep, ~DeletesResources, [Next]_vars
    PROVE  LiveKeep'
  <1>1. ASSUME NEW x \in Resource, Exists(resources[x]), Live(resources[x].owner)
        PROVE  ~resources'[x].del /\ Exists(resources'[x])
    <2>1. ~resources[x].del
      BY <1>1 DEF LiveKeep
    <2> QED BY <1>1, <2>1, LiveResourceStays DEF ResourceKept
  <1>2. ASSUME NEW x \in Resource, NEW q, Exists(resources'[x]), q = resources'[x].owner,
               Live(q)'
        PROVE  ~resources'[x].del
    <2>1. CASE ResourceMade(x, resources[x], resources'[x])
      BY <2>1 DEF ResourceMade
    <2>2. CASE Exists(resources[x]) /\ SameResource(resources[x], resources'[x])
      <3>1. q \in RequestRef /\ q.gen <= SeenRequests[q.name].gen /\ q = resources[x].owner
        BY <1>2, <2>2 DEF ResourcesBehind, SameResource
      <3>2. Live(q)
        BY <1>2, <3>1, LiveBefore
      <3> QED BY <1>1, <2>2, <3>1, <3>2
    <2> QED
      BY <1>2, <2>1, <2>2, ObjectsMove DEF ResourceKept, ResourceEnded, SameResource
  <1>3. ASSUME NEW x \in Resource, NEW q, Exists(SeenResources'[x]), q = SeenResources'[x].owner,
               Live(q)'
        PROVE  ~Ended(resources'[x])
    <2>1. CASE SeenResources' = resources'
      BY <1>2, <1>3, <2>1 DEF Ended
    <2>2. CASE SeenResources' = SeenResources
      <3>1. q \in RequestRef /\ q.gen <= SeenRequests[q.name].gen
        BY <1>3, <2>2 DEF ResourcesBehind
      <3>2. Live(q)
        BY <1>3, <3>1, LiveBefore
      <3>3. ~Ended(resources[x])
        BY <1>3, <2>2, <3>2 DEF LiveKeep
      <3>4. Exists(resources[x]) /\ resources[x].owner = q
        BY <1>3, <2>2, <3>3 DEF ResourcesBehind, Ended
      <3> QED BY <1>1, <3>2, <3>4 DEF Ended
    <2> QED BY <2>1, <2>2, SeenMoves
  <1>4. ASSUME tc'.pc = "finalizer"
        PROVE  tc'.obj.del
    <2>1. CASE tc' = tc
      BY <1>4, <2>1 DEF LiveKeep
    <2>2. tc' # TIdle
      BY <1>4 DEF TIdle
    <2>3. ASSUME NEW x \in Resource, SeenResources[x].del,
                 tc' = [pc |-> "finalizer", x |-> x, obj |-> SeenResources[x]]
          PROVE  tc'.obj.del
      BY <2>3
    <2> QED BY <2>1, <2>2, <2>3, ResourceWorkerMoves
  <1> DEFINE L2(x) == LET o == SeenResources[x] IN
                      Exists(o) /\ Live(o.owner) => ~Ended(resources[x])
             L1(x) == LET o == resources[x] IN Exists(o) /\ Live(o.owner) => ~o.del
  <1>5. \A x \in Resource : L1(x)' /\ L2(x)'
    BY <1>2, <1>3 DEF Live, Lives
  <1>6. (tc.pc = "finalizer" => tc.obj.del)'
    BY <1>4
  <1> QED
    BY <1>5, <1>6 DEF LiveKeep

\* A binding is given back only for a resource that is seen to be deleted.
LEMMA BindingsKept ==
    ASSUME Safe, KnownAreAccepted, HoldersLive, PlacingOK, [Next]_vars,
           NEW k \in DOMAIN rel.r2m, k \notin SeenDeleted
    PROVE  k \in DOMAIN rel'.r2m
  <1>0. TypeOK
    BY DEF Safe
  <1>1. CASE OthersWrite
    BY <1>0, <1>1, OthersKeep
  <1>2. CASE WriteAccepted
    <2>1. rel = rc.base /\ rel'.r2m = rc.work.r2m
      BY <1>2, AcceptedKeeps DEF Safe
    <2>2. DOMAIN rc.work.r2m = DOMAIN rc.base.r2m \cup PlacedRefs
      BY <1>2, FreshAtCommit DEF CopyIsPlaced
    <2> QED BY <2>1, <2>2
  <1>3. CASE RequestRelease
    BY <1>0, <1>3, WithdrawnKeeps DEF RequestRelease, WriteWithdrawn
  <1>4. ASSUME NEW r \in Request, RequestNotRequired(r) \/ RequestNoResources(r)
        PROVE  rel' = rel
    BY <1>4 DEF RequestNotRequired, RequestNoResources, storeVars
  <1>5. RequestReadRelationship \/ RequestListMachines \/ RequestBindGroup => rel' = rel
    BY DEF RequestReadRelationship, RequestListMachines, RequestBindGroup, storeVars
  <1> QED
    BY <1>0, <1>1, <1>2, <1>3, <1>4, <1>5, SchedulerMoves

\* Every step keeps the bindings of resources that are not deleted.
LEMMA BindingStep ==
    ASSUME Safe, KnownAreAccepted, HoldersLive, PlacingOK, ResourcesBehind, RefsBehind,
           BindingStays, [Next]_vars
    PROVE  BindingStays'
  <1>0. TypeOK
    BY DEF Safe
  <1> DEFINE k(x) == ResRef(x, resources[x])
             kk(x) == ResRef(x, resources'[x])
  <1>1. ASSUME NEW x \in Resource, ~Ended(resources[x]), k(x) \in DOMAIN rel.r2m
        PROVE  k(x) \in DOMAIN rel'.r2m
    <2>1. k(x) \notin SeenDeleted
      BY <1>1 DEF SeenDeleted, ResourcesBehind
    <2> QED BY <1>1, <2>1, BindingsKept
  <1>2. ASSUME NEW x \in Resource, ~Ended(resources'[x])
        PROVE  \/ /\ resources'[x] = resources[x] /\ ~Ended(resources[x])
               \/ /\ ResourceKept(x, resources[x], resources'[x])
                  /\ ~Ended(resources[x]) /\ kk(x) = k(x) /\ rel' = rel
               \/ ResourceMade(x, resources[x], resources'[x]) /\ rel' = rel
    BY <1>0, <1>2, ObjectsMove DEF ResourceKept, ResourceEnded, SameResource, Ended
  <1>3. ASSUME NEW x \in Resource, ResourceMade(x, resources[x], resources'[x])
        PROVE  kk(x) \notin DOMAIN rel.r2m \cup DOMAIN SeenRel.r2m
    <2>1. kk(x).name = x /\ kk(x).inc = resources[x].inc + 1 /\ resources[x].inc \in Nat
      BY <1>0, <1>3, IncsAdvance DEF ResourceMade
    <2>2. kk(x) \notin Known
      BY <2>1 DEF RefsBehind
    <2> QED BY <2>2 DEF Known
  <1>4. DOMAIN SeenRel'.r2m \in {DOMAIN SeenRel.r2m, DOMAIN rel'.r2m}
    BY <1>0, SeenMoves
  <1>5. ASSUME NEW x \in Resource, ~Ended(resources'[x]), kk(x) \in DOMAIN SeenRel'.r2m
        PROVE  kk(x) \in DOMAIN rel'.r2m
    <2>0. ~Ended(resources[x]) /\ k(x) \in DOMAIN SeenRel.r2m => k(x) \in DOMAIN rel.r2m
      BY DEF BindingStays
    <2>1. CASE kk(x) = k(x) /\ ~Ended(resources[x])
      BY <1>1, <1>4, <1>5, <2>0, <2>1
    <2>2. CASE ResourceMade(x, resources[x], resources'[x]) /\ rel' = rel
      BY <1>3, <1>4, <1>5, <2>2
    <2> QED BY <1>2, <1>5, <2>1, <2>2
  <1>6. ASSUME NEW x \in Resource, ~Ended(resources'[x]), IsRequired(resources'[x])
        PROVE  kk(x) \in DOMAIN rel'.r2m
    <2>0. /\ ~Ended(resources[x]) /\ k(x) \in DOMAIN SeenRel.r2m => k(x) \in DOMAIN rel.r2m
          /\ ~Ended(resources[x]) /\ IsRequired(resources[x]) => k(x) \in DOMAIN rel.r2m
      BY DEF BindingStays
    <2>1. CASE resources'[x] = resources[x] /\ ~Ended(resources[x])
      BY <1>1, <1>6, <2>0, <2>1
    <2>2. CASE /\ ResourceKept(x, resources[x], resources'[x])
               /\ ~Ended(resources[x]) /\ kk(x) = k(x) /\ rel' = rel
      BY <1>6, <2>0, <2>2 DEF ResourceKept
    <2>3. ~ResourceMade(x, resources[x], resources'[x])
      BY <1>6 DEF ResourceMade
    <2> QED BY <1>2, <1>6, <2>1, <2>2, <2>3
  <1> QED
    BY <1>5, <1>6 DEF BindingStays

\* A request is ready because the scheduler has found all of its resources, or
\* was so before.
LEMMA ReadyMoves ==
    ASSUME TypeOK, [Next]_vars, NEW r \in Request,
           requests'[r].state = "ready", ~requests'[r].del
    PROVE  \/ /\ requests[r].state = "ready" /\ ~requests[r].del
              /\ requests'[r].gen = requests[r].gen
           \/ RequestReady(r)
  <1> DEFINE Goal == \/ /\ requests[r].state = "ready" /\ ~requests[r].del
                        /\ requests'[r].gen = requests[r].gen
                     \/ RequestReady(r)
  <1>0. requests \in [Request -> RequestObject]
    BY DEF TypeOK, ControlPlaneTypeOK
  <1>1. CASE requests'[r] = requests[r]
    BY <1>1
  <1>2. ASSUME NEW q \in Request, RequestAddFinalizer(q)
        PROVE  Goal
    <2>1. /\ requests'[q] = [requests[q] EXCEPT !.fin = TRUE]
          /\ \A n \in Request \ {q} : requests'[n] = requests[n]
      BY <1>0, <1>2 DEF RequestAddFinalizer, UpdateRequest
    <2>0. requests[q] \in RequestObject
      BY <1>0
    <2>2. /\ requests'[q].state = requests[q].state /\ requests'[q].del = requests[q].del
          /\ requests'[q].gen = requests[q].gen
      BY <2>0, <2>1 DEF RequestObject
    <2>3. CASE q = r
      BY <2>2, <2>3
    <2>4. CASE q # r
      BY <1>1, <2>1, <2>4
    <2> QED BY <2>3, <2>4
  <1>3. ASSUME NEW q \in Request, RequestBeginPending(q)
        PROVE  Goal
    <2>1. /\ requests'[q] = [requests[q] EXCEPT !.state = "pending"]
          /\ \A n \in Request \ {q} : requests'[n] = requests[n]
      BY <1>0, <1>3 DEF RequestBeginPending, UpdateRequest
    <2>2. requests'[q].state = "pending"
      BY <1>0, <2>1 DEF RequestObject
    <2> QED BY <1>1, <2>1, <2>2
  <1>4. ASSUME NEW q \in Request, RequestReady(q)
        PROVE  Goal
    <2>1. \A n \in Request \ {q} : requests'[n] = requests[n]
      BY <1>0, <1>4 DEF RequestReady, UpdateRequest
    <2>2. CASE q = r
      BY <1>4, <2>2
    <2>3. CASE q # r
      BY <1>1, <2>1, <2>3
    <2> QED BY <2>2, <2>3
  <1>5. ASSUME RequestRemoveFinalizer
        PROVE  Goal
    <2>1. /\ \A n \in Request \ {rc.r} : requests'[n] = requests[n]
          /\ rc.r \in Request => requests'[rc.r] = AbsentRequest(rc.obj.gen)
      BY <1>0, <1>5 DEF RequestRemoveFinalizer, UpdateRequest
    <2>2. AbsentRequest(rc.obj.gen).state = "absent"
      BY DEF AbsentRequest
    <2> QED BY <1>1, <2>1, <2>2
  <1>6. ASSUME NEW q \in Request, CreateRequest(q)
        PROVE  Goal
    <2>1. \A n \in Request \ {q} : requests'[n] = requests[n]
      BY <1>0, <1>6 DEF CreateRequest
    <2>2. requests'[q].state = ""
      BY <1>0, <1>6 DEF CreateRequest, AbsentRequest
    <2>3. requests'[q].state # "ready"
      BY <2>2
    <2> QED BY <1>1, <2>1, <2>3
  <1>7. ASSUME NEW q \in Request, DeleteRequest(q)
        PROVE  Goal
    <2>1. \A n \in Request \ {q} : requests'[n] = requests[n]
      BY <1>0, <1>7 DEF DeleteRequest
    <2>2. CASE requests[q].fin
      <3>1. requests'[q] = [requests[q] EXCEPT !.del = TRUE]
        BY <1>0, <1>7, <2>2 DEF DeleteRequest
      <3>2. requests'[q].del = TRUE
        BY <1>0, <3>1 DEF RequestObject
      <3> QED BY <1>1, <2>1, <3>2
    <2>3. CASE ~requests[q].fin
      <3>1. requests'[q] = AbsentRequest(requests[q].gen)
        BY <1>0, <1>7, <2>3 DEF DeleteRequest
      <3>2. requests'[q].state = "absent"
        BY <3>1 DEF AbsentRequest
      <3> QED BY <1>1, <2>1, <3>2
    <2> QED BY <2>2, <2>3
  <1>8. ASSUME NEW q \in Request, RequestBegin(q)
        PROVE  Goal
    BY <1>1, <1>2, <1>3, <1>4, <1>8
    DEF RequestBegin, RequestCreateResource, RequestNotRequired, storeVars,
        RequestDeleteResource, RequestNoResources, DeleteResource
  <1>9. ASSUME RequestContinue
        PROVE  Goal
    BY <1>1, <1>5, <1>9
    DEF RequestContinue, RequestWait, RequestReadRelationship, RequestListMachines,
        RequestNoExplicitMachine, RequestBindGroup, RequestCommit, RequestRelease,
        RequestConflict, UpdateRelationship, storeVars
  <1>10. ASSUME NEW x \in Resource, ResourceBegin(x)
         PROVE  requests' = requests
    BY <1>10 DEF ResourceBegin, ResourceAddFinalizer, ResourceBeginPending, storeVars,
                ResourcePending, ResourceRelease, ResourceSkipRelease, UpdateResource,
                UpdateRelationship
  <1>11. ASSUME ResourceContinue
         PROVE  requests' = requests
    BY <1>11 DEF ResourceContinue, ResourceRemoveFinalizer, ResourceConflict,
                UpdateResource, storeVars
  <1>12. ASSUME NEW m \in Machine, MachineBegin(m)
         PROVE  requests' = requests
    BY <1>12 DEF MachineBegin, MachineAddFinalizer, MachineBeginShutdown, storeVars,
                MachineBeginStarting, MachineTryLock, MachineCreateUploadDaemon,
                MachineRegister, MachineShutdown, UpdateMachine, UpdateRelationship
  <1>13. ASSUME MachineContinue
         PROVE  requests' = requests
    BY <1>13 DEF MachineContinue, MachineReady, MachineSetUploadPort, MachineUnlock,
                MachineDeleteUploadDaemon, MachineUnregister, MachineRemoveFinalizer,
                MachineConflict, UpdateMachine, UpdateRelationship, storeVars
  <1>14. \/ requests' = requests
         \/ \E q \in Request : RequestBegin(q) \/ CreateRequest(q) \/ DeleteRequest(q)
         \/ RequestContinue
    BY <1>10, <1>11, <1>12, <1>13
    DEF Next, vars, storeVars, RequestStep, RequestOngoing, ResourceStep, ResourceOngoing,
        MachineStep, MachineOngoing, RelationshipStep, RelationshipReconcile, Watch,
        WatchEvent, DeleteMachine, UpdateRelationship, DeleteNamespacedResource,
        CollectGarbage, DeleteResource, Crash, Panic, Restart
  <1> QED
    BY <1>1, <1>6, <1>7, <1>8, <1>9, <1>14

\* Every step keeps the resources of the requests that are ready.
LEMMA ReadyStep ==
    ASSUME TypeOK, CacheBehind, ResourcesBehind, LiveKeep, ReadyHasAll, ~DeletesResources,
           [Next]_vars
    PROVE  ReadyHasAll'
  <1> SUFFICES ASSUME NEW r \in Request, requests'[r].state = "ready", ~requests'[r].del,
                      NEW x \in ItemNames(r)
               PROVE  resources'[x].owner = Ref(r, requests'[r]) /\ IsRequired(resources'[x])
    BY DEF ReadyHasAll, ItemNames
  <1>0. x \in Resource
    BY ItemIsResource DEF ItemNames
  <1>1. CASE /\ requests[r].state = "ready" /\ ~requests[r].del
             /\ requests'[r].gen = requests[r].gen
    <2>1. resources[x].owner = Ref(r, requests[r]) /\ IsRequired(resources[x])
      BY <1>1 DEF ReadyHasAll
    <2>2. Exists(resources[x])
      BY <2>1 DEF IsRequired
    <2>3. Live(resources[x].owner)
      BY <1>1, <2>1 DEF Live, Lives
    <2> QED
      BY <1>0, <1>1, <2>1, <2>2, <2>3, LiveResourceStays DEF ResourceKept, SameResource
  <1>2. CASE RequestReady(r)
    <2>1. /\ SeenRequests[r] = requests[r] /\ resources' = resources
          /\ requests'[r] = [requests[r] EXCEPT !.state = "ready"]
          /\ ~requests[r].del /\ requests[r].state = "pending"
      BY <1>2 DEF RequestReady, UpdateRequest, PendingWithOwnResources, TypeOK, ControlPlaneTypeOK
    <2>2. requests'[r].gen = requests[r].gen
      BY <2>1 DEF TypeOK, ControlPlaneTypeOK, RequestObject
    <2>3. /\ Exists(SeenResources[x]) /\ IsRequired(SeenResources[x])
          /\ SeenResources[x].owner = Ref(r, requests[r])
      BY <1>2, <2>1
      DEF RequestReady, AllCreated, AllRequired, PendingWithOwnResources, listResources
    <2>4. Live(SeenResources[x].owner)
      BY <2>1, <2>3 DEF Live, Lives
    <2>5. ~Ended(resources[x])
      BY <1>0, <2>3, <2>4 DEF LiveKeep
    <2>6. resources[x].owner = SeenResources[x].owner /\ IsRequired(resources[x])
      BY <1>0, <2>3, <2>5 DEF ResourcesBehind, Ended
    <2> QED BY <2>1, <2>2, <2>3, <2>6
  <1> QED BY <1>1, <1>2, ReadyMoves

\* Nothing is there at first.
LEMMA InitResources ==
    ASSUME Init
    PROVE  ResourcesBehind /\ RefsBehind /\ LiveKeep /\ BindingStays /\ ReadyHasAll
  <1>1. /\ resources = [x \in Resource |-> AbsentResource(0)] /\ SeenResources = resources
        /\ requests = [r \in Request |-> AbsentRequest(0)]
        /\ rel.r2m = <<>> /\ SeenRel = rel
    BY DEF Init, ControlPlaneInit, SeenResources, SeenRel, EmptyRelationship
  <1>2. rc.pc = "idle" /\ tc.pc = "idle"
    BY DEF Init, RequestInit, ResourceInit, RIdle, TIdle
  <1>3. /\ \A x \in Resource : resources[x].state = "absent" /\ ~resources[x].del
        /\ \A r \in Request : requests[r].state = "absent"
    BY <1>1 DEF AbsentResource, AbsentRequest
  <1>4. DOMAIN rel.r2m = {}
    BY <1>1
  <1>5. Known = {}
    BY <1>1, <1>2, <1>3, <1>4 DEF Known, IsRequired
  <1>6. ResourcesBehind
    BY <1>1, <1>3 DEF ResourcesBehind
  <1>7. LiveKeep
    BY <1>1, <1>2, <1>3 DEF LiveKeep
  <1>8. BindingStays
    BY <1>3 DEF BindingStays, Ended
  <1>9. RefsBehind
    BY <1>2, <1>5 DEF RefsBehind, Binding3
  <1>10. ReadyHasAll
    BY <1>3 DEF ReadyHasAll
  <1> QED BY <1>6, <1>7, <1>8, <1>9, <1>10

\* Every step keeps the resources with their requests.
LEMMA ResourceStepOK ==
    ASSUME LedgerInv, ResourcesBehind, RefsBehind, LiveKeep, BindingStays, ReadyHasAll,
           ~DeletesResources, [Next]_vars
    PROVE  /\ LedgerInv' /\ ResourcesBehind' /\ RefsBehind'
           /\ LiveKeep' /\ BindingStays' /\ ReadyHasAll'
  <1>1. /\ Safe /\ TypeOK /\ CacheBehind /\ HoldersLive
        /\ KnownAreAccepted /\ PlacingOK
    BY DEF LedgerInv, Safe
  <1>2. LedgerInv'
    BY LedgerStep
  <1>3. ResourcesBehind' /\ RefsBehind'
    BY <1>1, ResourcesBehindStep, RefsStep
  <1>4. LiveKeep' /\ ReadyHasAll'
    BY <1>1, LiveKeepStep, ReadyStep
  <1>5. BindingStays'
    BY <1>1, BindingStep
  <1> QED BY <1>2, <1>3, <1>4, <1>5

\* So a request that is ready has its resources, bound.
LEMMA ReadyIsBound ==
    ASSUME LiveKeep, BindingStays, ReadyHasAll
    PROVE  \A r \in Request : requests[r].state = "ready" /\ ~requests[r].del =>
               \A x \in ItemNames(r) :
                   /\ resources[x].owner = Ref(r, requests[r])
                   /\ IsRequired(resources[x])
                   /\ ResRef(x, resources[x]) \in DOMAIN rel.r2m
  <1> SUFFICES ASSUME NEW r \in Request, requests[r].state = "ready", ~requests[r].del,
                      NEW x \in ItemNames(r)
               PROVE  /\ resources[x].owner = Ref(r, requests[r])
                      /\ IsRequired(resources[x])
                      /\ ResRef(x, resources[x]) \in DOMAIN rel.r2m
    OBVIOUS
  <1>0. x \in Resource
    BY ItemIsResource DEF ItemNames
  <1>1. resources[x].owner = Ref(r, requests[r]) /\ IsRequired(resources[x])
    BY DEF ReadyHasAll
  <1>2. /\ Exists(resources[x])
        /\ Live(resources[x].owner)
    <2>1. Exists(resources[x])
      BY <1>1 DEF IsRequired
    <2>2. Live(resources[x].owner)
      BY <1>1 DEF Live, Lives
    <2> QED BY <2>1, <2>2
  <1>3. ~Ended(resources[x])
    BY <1>0, <1>2 DEF LiveKeep, Ended
  <1> QED BY <1>0, <1>1, <1>3 DEF BindingStays

\* Where resources are deleted by the controllers and the garbage collector only,
\* a request that is ready has all of its resources, each bound to a machine and
\* past waiting for it, however old the objects are that the scheduler has looked
\* at when it made the request ready (ReadyImpliesBound; reconcilePending).
THEOREM ReadyRequestsAreBound ==
    "delete resource" \notin Users => (Spec => []ReadyImpliesBound)
  <1> SUFFICES ASSUME "delete resource" \notin Users
               PROVE  Spec => []ReadyImpliesBound
    OBVIOUS
  <1> DEFINE Inv == /\ LedgerInv /\ ResourcesBehind /\ RefsBehind
                    /\ LiveKeep /\ BindingStays /\ ReadyHasAll
  <1>0. ~DeletesResources
    BY DEF DeletesResources
  <1>1. Init => Inv
    BY InitLedger, InitResources
  <1>2. ASSUME Inv, [Next]_vars
        PROVE  Inv'
    BY <1>0, <1>2, ResourceStepOK
  <1>3. ASSUME Inv
        PROVE  ReadyImpliesBound
    BY <1>3, ReadyIsBound DEF ReadyImpliesBound
  <1> QED
    BY <1>1, <1>2, <1>3, PTL DEF Spec
=============================================================================
