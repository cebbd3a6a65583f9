---------------------------- MODULE ControlPlane ----------------------------
(***************************************************************************)
(* The objects of the API server that the scheduling controllers share,    *)
(* and the informer caches they read them through.                         *)
(*                                                                         *)
(* Every controller reads from the manager's cache and writes to the API   *)
(* server, which refuses a write based on an old version of the object.    *)
(* Lagging is the set of kinds whose cache may be behind the server; the   *)
(* other kinds are read as they are.  The Relationship carries its         *)
(* version; a write that changes nothing keeps it, as on the server.  The  *)
(* other objects never return to an earlier content (gen and inc stand for *)
(* the UID), so comparing contents compares versions.                      *)
(***************************************************************************)
EXTENDS Capacity, Sequences

CONSTANTS
    Request,        \* names of TestResourceRequests
    Items,          \* Items[r]: the sequence of resource names of request r
    MachineRequest, \* MachineRequest[r]: logical name |-> [machine, exclusive]
    Ns,             \* namespace of every request and every resource
    None,           \* no machine, no request, no logical name
    Lagging,        \* kinds whose cache may lag
    Booted,         \* start with all machines in service, or from nothing
    MaxGen,         \* bound: creations of one request name
    MaxInc          \* bound: creations of one resource name

Kind == {"machines", "requests", "resources", "rel"}

\* References carry the UID of the object: gen and inc count the objects that
\* have had the name.  The owner of a resource is fixed by its UID.
RequestRef == [name : Request, gen : Nat]

ResourceRef == [name : Resource, inc : Nat, owner : RequestRef]

ASSUME ControlPlaneAssumption ==
    /\ None \notin Machine /\ None \notin RequestRef
    /\ Items \in [Request -> Seq(Resource)]
    /\ Lagging \subseteq Kind
    /\ Booted \in BOOLEAN
    /\ MaxGen \in Nat /\ MaxInc \in Nat

\* A request creates its resources in its own namespace.
ASSUME NamespaceAssumption ==
    \A r \in Request : \A i \in DOMAIN Items[r] : Ns[Items[r][i]] = Ns[r]

VARIABLES machines, requests, resources, rel, cache

storeVars == <<machines, requests, resources, rel, cache>>

----------------------------------------------------------------------------
(* The objects.                                                             *)

Ref(r, o) == [name |-> r, gen |-> o.gen]

ResRef(x, o) == [name |-> x, inc |-> o.inc, owner |-> o.owner]

\* An object name nobody uses has state "absent".
AbsentMachine == [state |-> "absent", fin |-> FALSE, del |-> FALSE, upload |-> FALSE]

AbsentRequest(gen) == [state |-> "absent", fin |-> FALSE, del |-> FALSE, gen |-> gen]

AbsentResource(inc) ==
    [state |-> "absent", fin |-> FALSE, del |-> FALSE, inc |-> inc, owner |-> None]

MachineObject ==
    [state : {"absent", "", "starting", "ready", "shutdown"},
     fin : BOOLEAN, del : BOOLEAN, upload : BOOLEAN]

RequestObject ==
    [state : {"absent", "", "pending", "ready"},
     fin : BOOLEAN, del : BOOLEAN, gen : Nat]

ResourceObject ==
    [state : {"absent", "", "pending", "uninitialized"},
     fin : BOOLEAN, del : BOOLEAN, inc : Nat, owner : RequestRef \cup {None}]

Exists(o) == o.state # "absent"

\* TestResource.IsRequired: the resource has its machine.
IsRequired(o) == o.state \notin {"absent", "", "pending"}

----------------------------------------------------------------------------
(* The status of the one Relationship object.  m2r is MachineToResources    *)
(* with the lists as sets, keys the machines that have a list in it, r2m    *)
(* ResourceToMachine; init says that the maps are not nil.                  *)

EmptyRelationship ==
    [version |-> 0, init |-> FALSE, keys |-> {}, m2r |-> [m \in Machine |-> {}], r2m |-> <<>>,
     accepted |-> {}, locks |-> [m \in Machine |-> None]]

Device == UNION {AvailableDevices(m) : m \in Machine}

Binding ==
    [cpus : SUBSET Nat, memory : Nat,
     disks : UNION {[DOMAIN ItemSpec[x].disks -> Device] : x \in Resource}]

RelationshipOK(R) ==
    /\ R \in [version : Nat, init : BOOLEAN, keys : SUBSET Machine,
              m2r : [Machine -> {R.m2r[m] : m \in Machine}], r2m : {R.r2m},
              accepted : SUBSET RequestRef,
              locks : [Machine -> RequestRef \cup {None}]]
    /\ \A m \in Machine : \A e \in R.m2r[m] :
          e \in [ref : ResourceRef, binding : Binding]
    /\ \A k \in DOMAIN R.r2m :
          k \in ResourceRef /\ R.r2m[k] \in [machine : Machine, binding : Binding]

\* The reference of the request that holds a resource's entry.
OwnerOf(entry) == entry.ref.owner

----------------------------------------------------------------------------
(* What a Relationship must never say.                                      *)

\* On every machine each CPU is in one entry at most, none of them reserved.
SharesNoCPU(R) ==
    \A m \in Machine : \A e \in R.m2r[m] :
        /\ e.binding.cpus \subseteq AvailableCPUs(m)
        /\ \A f \in R.m2r[m] : e # f => e.binding.cpus \cap f.binding.cpus = {}

\* On every machine each device is in one entry at most.
SharesNoDevice(R) ==
    \A m \in Machine : \A e, f \in R.m2r[m] :
        e # f => \A n \in DOMAIN e.binding.disks, p \in DOMAIN f.binding.disks :
                    e.binding.disks[n] # f.binding.disks[p]

\* A locked machine has entries of the request that locked it only.
RespectsLocks(R) ==
    \A m \in Machine : R.locks[m] # None =>
        \A e \in R.m2r[m] : OwnerOf(e) = R.locks[m]

\* The two maps tell the same story.
MapsTally(R) ==
    /\ \A m \in Machine : \A e \in R.m2r[m] :
          /\ m \in R.keys
          /\ e.ref \in DOMAIN R.r2m
          /\ R.r2m[e.ref] = [machine |-> m, binding |-> e.binding]
    /\ \A k \in DOMAIN R.r2m :
          [ref |-> k, binding |-> R.r2m[k].binding] \in R.m2r[R.r2m[k].machine]

----------------------------------------------------------------------------
(* What a controller sees.                                                  *)

SeenMachines  == IF "machines"  \in Lagging THEN cache.machines  ELSE machines
SeenRequests  == IF "requests"  \in Lagging THEN cache.requests  ELSE requests
SeenResources == IF "resources" \in Lagging THEN cache.resources ELSE resources
SeenRel       == IF "rel"       \in Lagging THEN cache.rel       ELSE rel

\* A cache of a kind that does not lag is not read and is kept constant.
Snapshot(kind, current, old) == IF kind \in Lagging THEN current ELSE old

\* The informers list everything again, as after a start of the process.
RelistedCache ==
    [machines  |-> Snapshot("machines", machines, cache.machines),
     requests  |-> Snapshot("requests", requests, cache.requests),
     resources |-> Snapshot("resources", resources, cache.resources),
     rel       |-> Snapshot("rel", rel, cache.rel)]

\* The watch of one kind delivers: its cache catches up with the server.
WatchEvent(kind) ==
    /\ kind \in Lagging
    /\ cache[kind] # RelistedCache[kind]
    /\ cache' = [cache EXCEPT ![kind] = RelistedCache[kind]]
    /\ UNCHANGED <<machines, requests, resources, rel>>

----------------------------------------------------------------------------
(* Deleting an object that carries a finalizer only marks it; without one   *)
(* it is gone at once.                                                      *)

DeletedResource(o) ==
    IF o.fin THEN [o EXCEPT !.del = TRUE] ELSE AbsentResource(o.inc)

DeleteResource(x) ==
    /\ resources' = [resources EXCEPT ![x] = DeletedResource(@)]
    /\ UNCHANGED <<machines, requests, rel, cache>>

\* Status().Update of the Relationship read as seen, with R as new content.
UpdateRelationship(seen, R) ==
    /\ rel = seen
    /\ rel' = IF R = seen THEN rel ELSE [R EXCEPT !.version = seen.version + 1]
    /\ UNCHANGED <<machines, requests, resources, cache>>

\* RelationshipReconciler.Reconcile: the nil maps are made.
RelationshipReconcile ==
    /\ ~SeenRel.init
    /\ UpdateRelationship(SeenRel, [SeenRel EXCEPT !.init = TRUE])

ControlPlaneTypeOK ==
    /\ machines \in [Machine -> MachineObject]
    /\ requests \in [Request -> RequestObject]
    /\ resources \in [Resource -> ResourceObject]
    /\ RelationshipOK(rel)
    /\ cache \in [machines : [Machine -> MachineObject],
                  requests : [Request -> RequestObject],
                  resources : [Resource -> ResourceObject],
                  rel : {cache.rel}]
    /\ RelationshipOK(cache.rel)

\* Either the machines have just been created and the Relationship is as
\* installed, or every machine has been brought into service.
ControlPlaneInit ==
    /\ machines = [m \in Machine |->
                     IF Booted THEN [state |-> "ready", fin |-> TRUE, del |-> FALSE, upload |-> TRUE]
                               ELSE [AbsentMachine EXCEPT !.state = ""]]
    /\ requests = [r \in Request |-> AbsentRequest(0)]
    /\ resources = [x \in Resource |-> AbsentResource(0)]
    /\ rel = IF Booted THEN [EmptyRelationship EXCEPT !.init = TRUE, !.keys = Machine]
                       ELSE EmptyRelationship
    /\ cache = [machines |-> machines, requests |-> requests,
                resources |-> resources, rel |-> rel]
=============================================================================
