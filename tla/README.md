# Naglfar in TLA+

Naglfar is a Kubernetes operator that runs database tests on a pool of physical
machines. Users create objects (machines, resource requests, cluster
topologies, workloads); one manager process runs a controller for each kind of
object, and the controllers work together only through the objects: each one
reads them from the manager's cache, acts on a machine through docker, and
writes its conclusions back to the API server. This directory holds a model of
all of its controllers and of the parts around them that keep state, what TLC
checks of it and what TLAPS proves of it.

## The system

| Component | State it keeps | Operations | Talks to |
|---|---|---|---|
| Machine controller (`controllers/machine_controller.go`) | `Machine` status; two daemon containers on the host, one of which is the lock that keeps other Naglfar systems away | lock the host, start the upload daemon, enter the machine in the Relationship; on deletion take it out and unlock the host | Relationship, docker |
| Relationship (`relationship_controller.go`, `api/v1/relationship_types.go`) | the one ledger: `MachineToResources`, `ResourceToMachine`, `AcceptedRequests`, `MachineLocks` | make the nil maps; all other writes come from the other controllers | written by four controllers |
| Request controller, the scheduler (`testresourcerequest_controller.go`) | `TestResourceRequest` status; a working copy of the Relationship during a call | create the resources of a request, place all of them in one write, lock machines, become ready, withdraw on deletion | resources, machines, Relationship |
| Capacity (`api/v1/machine_types.go`) | none | what a machine has left, which CPUs and disks an item gets | the scheduler |
| Resource controller (`testresource_controller.go`) | `TestResource` status; a container and a cleaner container on the host | wait for the binding; create, start and watch the container; clean; give the binding back | Relationship, docker, workloads |
| Workload controller (`testworkload_controller.go`) | `TestWorkload` status; claims (`ClaimRef`) on resources | claim nodes, give them an image, wait, report, release | resources |
| Cluster topology controller and its webhook | `TestClusterTopology` status, a deployed TiDB/DM/Flink cluster | install, update, scale, prune, uninstall | resources, tiup over ssh |
| DM, Flink, HAProxy deployment (`pkg/tiup/dm`, `pkg/flink`, `pkg/haproxy`) | clusters on the nodes, a file on the HAProxy's machine | deploy, start, destroy; write and delete the file | ssh, the upload daemon |
| Process chaos controller (`procchaos_controller.go`) | `ProcChaos` status with the time and node of each task's last kill | begin tasks, kill when a period is over, sleep until the next one | chaos daemon, its own events and timers |
| Docker helpers (`pkg/docker-util`) | containers on a host, by name | run a container or find it; run one to its end and remove it | docker |
| Sizes, durations, times (`pkg/util`) | none | print a size with four digits and read it back, subtract; times in whole seconds | scheduler, process chaos |
| Client library (`client`) | none; a copy of the workload during a call | report a result, with retries; create and delete process chaos | API server |
| Command line, daemons, start-up | none; the upload daemon keeps files | serve uploads | files |

What is hard to get right, and hard to test:

- **one ledger, four writers.** The Relationship is read, edited in memory for
  a while and written back whole. Only the API server's version check stands
  between two placements, or a placement and a release.
- **old reads.** Everything is read from caches that may be behind, each kind
  by its own watch. A decision may combine a new resource with an old
  Relationship.
- **several writes per decision.** A deletion writes the Relationship, then the
  object; a machine is taken off the host, then off the ledger. A refused write
  or a crash falls between.
- **names used again.** Ownership is looked up by name in one place and by UID
  in another.
- **shared nodes.** Several workloads name the same node and take turns by a
  claim; results stay in the node's status.
- **commands and their record.** A topology is changed by commands over ssh,
  then the change is recorded in a status write, which may be refused or never
  come; the next pass then works from a record that the cluster has left behind.
- **several systems, one host.** The containers on a host are found by name, and
  another Naglfar system uses the same names between any two of our calls.
- **time.** Periods are measured from times kept in whole seconds; what wakes the
  worker is a timer, an error or the event of its own write.
- **rounding.** What is left of a machine is found by subtractions that are each
  rounded to four digits.
- **progress.** Deletion needs two or three controllers and the garbage
  collector; each waits for the others' writes.

`PROJECT.json` lists these as hazards at the lines where they bite.

## Modules

    Capacity ── ControlPlane ─┬─ RequestController ──┐
                              ├─ ResourceController ─┼─ Naglfar ── MCNaglfar
                              └─ MachineController ──┘     │ refines Ledger
                                                     NaglfarProofs

    ContainerLife ── WorkloadController ── Workloads ─┬─ MCWorkloads
                                                      └─ WorkloadProofs

    TopologyWebhook ── TiUPCluster ── TopologyController ── ClusterTopology
                                                                ├─ MCTopology
                                                                └─ ClusterProofs

    PlainTopology ─┬─ MCPlainTopology       HostDaemons ─┬─ MCHostDaemons
                   └─ PlainProofs                        └─ HostProofs
    Report ─┬─ MCReport                     ProcChaos ─┬─ MCProcChaos
            └─ ReportProofs                            └─ ChaosProofs
    Sizes ─┬─ MCSizes
           └─ SizeProofs

**Capacity** has operators only: `Machine.Available` and `Rest`, `pickCpuSet`,
`resourceOverflow`. Sizes are whole GiB below 1000, where the code's size
strings are exact. CPU lists are sets; the code keeps them sorted and without
duplicates. `DiskChoices` keeps what the code does with disks: the loop removes
the wrong key, so that a device stays on offer to the next disk of the same item.

**ControlPlane** is the API server and the caches: the objects (`machines`,
`requests`, `resources`), the Relationship (`rel`) and `cache`. `Lagging` says
which kinds are read from the cache; the cache catches up in `WatchEvent`. A
write (`UpdateRelationship`, `UpdateMachine`, ...) is possible only if the object
is still the one that was read. An object without a finalizer goes as soon as it
is deleted. References carry `gen` and `inc`, which stand for UIDs.

**RequestController** is `TestResourceRequestReconciler.Reconcile`. `rc` is its
worker between two accesses to shared state: it reads the Relationship
(`RequestReadRelationship`), then lists and sorts machines
(`RequestListMachines`), then places group after group in the working copy
(`RequestBindGroup`), then writes (`RequestCommit`) or has its write refused
(`RequestConflict`). The shuffle of machines and the order of Go maps are
nondeterministic choices. Deletion is `RequestDeleteResource`,
`RequestNoResources`, `RequestRelease`, `RequestRemoveFinalizer`.

**ResourceController** is the part of `TestResourceReconciler` that schedules:
finalizer, waiting for the binding, release. `ResourceRelease` joins the passes
of `finalize` that clean the machine with the write of the Relationship that
follows them, since a refused write starts over; the cleaning itself is in
ContainerLife.

**MachineController** is `MachineReconciler`: `docker[m]` holds this system's
containers on the host of `m`. The two containers are removed before the write
of the Relationship, as in `reconcileShutdown`.

**Naglfar** composes the four controllers with users (who create and delete
requests and machines, and delete resources with their namespace), the garbage
collector and a process that crashes or panics: a restart forgets the workers'
state and lists all objects anew.

**Ledger** is the abstract specification: grants of a request come all at once,
on CPUs and devices nobody has; machines are locked by who is alone on them;
grants go one by one; locks are given back. It knows nothing of controllers.
`Naglfar!ImplementsLedger` is the refinement, with `rel.r2m` as grants.

**ContainerLife** is the rest of `TestResourceReconciler`: a node (a TestResource
with its machine) gets a container in the passes of
`reconcileStateUninitialized`, is ready, finishes, is destroyed and cleaned.
Between its read and its last call the worker does one step, because only it
touches the containers of a node; the wait for the cleaner blocks the worker and
is a state of its own, and so is the end of a deleted node, between its two writes:
`NodeRelease` gives the binding back (`rel`), `NodeGone` removes the finalizer, and
each may be refused on its own. The node and the Relationship are read from two
caches (`cache`, `seenRel`); a deleted node is finalized while the second one shows
its binding (`HasHost`) and goes without cleaning when it does not (`NodeSkip`). The
history variable `stray` notes the nodes that got a cleaner after their binding went.

**WorkloadController** is `TestWorkloadReconciler`: its three loops over the
items, each of which reads one node and writes it. **Workloads** adds users,
hosts, crashes and panics. Here nodes are always read from a cache that may lag,
which also stands for a change between a read and the write that follows.

**TopologyWebhook** is what `ValidateUpdate` accepts: the new specification of a
TiDB cluster against `Status.PreTiDBCluster`, the one deployed last. A
specification is a record of version, server configuration, patch policy, the
hosts of the TiDB and TiKV instances, and two fields for what may not change.
PD is treated as TiDB is (both leave at once when scaled in), so it has no field.

**TiUPCluster** is the cluster as tiup keeps it (`cl`): the meta file, the
instances on the nodes, the stores that are going and the tombstones. The
commands of package `cluster` change it as the code expects of tiup: a deployed
name is reported as a duplicate, a node that is not in the meta file cannot be
scaled in, an instance that is there cannot be scaled out, prune takes the
tombstones. `ReloadCluster` keeps that the code moves a meta file of its own over
tiup's.

**TopologyController** is `TestClusterTopologyReconciler` for TiDB clusters. `view`
is the cached topology, `kw` the worker: `kw.seen` is what it has read, `kw.obj`
its changed copy, `kw.pc` the next command. Commands are steps of their own, in
the order of `InstallCluster` and `updateTiDBCluster`; the status write at the end
(`WriteOutcome`) is refused if anybody has written the topology since
(`WriteRefused`). **ClusterTopology** adds users, the request, nodes that start
and end, and calls that are cut off between two steps. The history variable
`hasty` tells whether a user has changed a topology before its last change was
recorded and scaling had ended, or has moved an instance to another host.

**PlainTopology** is the same reconciler for what TopologyController leaves out:
DM and Flink clusters, the HAProxy in front of a TiDB cluster, and the nodes one by
one (`InitNode`: each is listed from a lagging cache, looked at, and given an image
with a write of its own). Several topologies share the nodes of one request with a
workload, which waits for the topologies it refers to and takes their addresses
(`CheckTopologies`, `ClaimNode`). `files` is what the upload daemon keeps on each
machine; it answers success when it has lost a file (`WriteConfigLost`, where the file
is the old one, the new one, the new one with an end of the old one, or none; a file of
two parts counts as old or new) and when it has kept one that was to be deleted
(`BeginDeleteLost`, noted in `kept`). The errors that the code drops are dropped
(`AfterError`, `InitProxy`). The request is deleted node by node, as the garbage
collector does it.

**HostDaemons** is the machine controller again, call by call, with several systems
(`System`) that have an object for one host. `host` holds the three named
containers; the label of the lock is its `uid`. `RunInspect`, `RunCreate` and
`RunStart` are the loop of `docker-util.Run`, `JustExec` and `ExecRemove` that of
`JustExec`. The Relationship is left out: MachineController has it.

**ProcChaos** is `ProcChaosReconciler` with one object, its work queue (`queued`), the
delaying queue (`timer`), the watch and the clock. A time is kept as its age, which
grows with each tick wherever the time is stored, so that runs need no absolute
clock; a recorded time starts with the age `phase`, the ticks since the last whole
second. A write that changes nothing makes no event.

**Sizes** is `BytesSize` (print with four digits, read back, subtract) and one
machine whose resources are bound and released in any order.

**Report** is `SetTestWorkloadResult`: the programs of several items write into one
status, which the workload controller writes, too; requests and answers get lost.

Operators named `X_Y` under "Seeded fault" are plausible mistakes in `X`. No
specification uses them; `PROJECT.json` lists which property each one breaks.

## What the runs check

Runs of the scheduling core use `MCNaglfar`, `MCWork...` use `MCWorkloads`, `MCTopo`
`MCTopology`, `MCPlain` `MCPlainTopology`, `MCHost` `MCHostDaemons`, `MCChaos`
`MCProcChaos`, `MCSize` `MCSizes`, `MCReport` `MCReport`.
Deadlock is checked in ProcChaos and Sizes. The other systems may come to rest:
every request ready, or everybody gone.

| Run | Instance | Shows |
|---|---|---|
| `MCPair` | a request for an item on an exclusive machine and one that may go anywhere, with a disk each, another request for an exclusive machine; both items fit on one of two machines; one crash, requests deleted | no CPU, device or GiB is in two hands; the working copy stays a possible next Relationship; locks are exclusive and not stolen; the controllers implement the ledger: all of a request at once, on CPUs and devices that are free, bindings that never change, locks by who is alone |
| `MCLag` | one request and one machine, nothing initialised at first, so that the process may panic and start again; the Relationship and the resources are read from lagging caches; request, resource and machine deleted at any time and the request's name used again, fairness | decisions on old objects never break the maps, orphan a lock, lose a machine in use or leave a container; a ready request is bound; a resource that has had its machine goes only with its binding given back; deleted requests and machines go; the second user of the name gets the machine that the first had locked |
| `MCWorkShared` | a workload on two nodes, another on the second of them, deleted when they have ended | claims are respected, and released when their workload goes |
| `MCWorkAgain` | a workload deleted at any time and created again, its node not bound at first and deleted at any time, lagging copies of the node and of the Relationship, panics, and a crash or a container removed by somebody else | success means that a container of this workload ended well on its node; a node that is up has its container, and nothing is left on the host when a binding is given back, nor later but for a cleaner that an old copy of the Relationship brings back |
| `MCWorkLive` | one workload name used twice on one node, fairness | a deleted workload goes; a workload ends, unless the release of its former self was lost |
| `MCTopo` | a topology on three nodes, created, changed by careful and hasty users, deleted and created again, a lagging cache, one call cut off or one node that ends, the request deleted, fairness | for careful users: what the status calls deployed is deployed and nothing else is on the nodes, a store that is going is waited for, no wanted instance is taken away, accepted changes arrive; for all users: no cluster outlives its topology, deletions end, which includes that the webhook accepts the update that ends them |
| `MCPlain` | a DM cluster on two nodes, a TiDB cluster on one of them with its HAProxy on the other, which a workload wants, too; a lagging list of nodes, two faults (calls cut off, nodes that end, files lost or kept by the daemon), the request deleted node by node | a topology is called ready only when it is installed, leaves no cluster behind and no file but one that the daemon kept, and its HAProxy starts with its own file |
| `MCHost` | two systems with an object each for one host, deleted and created again, two faults (crashes, a failing container), fairness | a machine is ready in the system whose lock is on the host and in no other; a machine that waits becomes ready when the other one has gone |
| `MCChaos` | a task without a period between two with periods of one and one and a half seconds; a lagging cache, time that passes in the middle of calls or (chosen at the start) a worker quicker than the clock, three faults (edits, deletions, nodes that fail, crashes), fairness | the recorded kills of a task are a period apart, and a task without a period is recorded once; with the quick worker, without failures a task is applied when its period is over, and after failures all of them go on |
| `MCSize` | a machine of 200 KiB, up to six resources of four sizes, below, above and far above the last digit, a reserve that is lowered | no rest on the way is negative; what is given away in excess is at most half of the last digit for each resource |
| `MCReport` | two items that report twice each, one write of the controller, two losses | a result reported without an error stays in the status |

One listed run ends in a violation, a disagreement between the code and a comment
in it (`findings` in `PROJECT.json`):

- `MCNamespace` (`SomebodyServed`): a request that finds a resource of another request
  in its namespace returns instead of leaving it out. When the second of two requests
  lists the resources before its cache shows the first one's, each makes a resource,
  sees the other's later, and both wait for ever although there is room for both. With
  a cache that does not lag the first is served and only the second waits, as long as
  the first one's resources exist.

More disagreements were met on the way. Each has a configuration of its own, which
is not part of the regular runs; TLC finds the named property violated in seconds:

- `MCLeak.cfg` (`NoLeak`): a resource deleted with its namespace before it carries
  its finalizer, while the scheduler holds a reference to it, is bound after it is
  gone; nobody releases the binding.
- `MCWorkClaim.cfg` (`ClaimRespected`): a workload that is deleted while it waits for
  a node destroys the container of the workload that holds it and clears its claim.
- `MCWorkStray.cfg` (`HostEmpty`): a deleted node has given its binding back, but the
  removal of its finalizer is refused, or its old copy is read once more; the cached
  Relationship still shows the binding (`testresource_controller.go:118`) and a new
  cleaner is created on the machine, which the next pass, that no longer sees the
  binding, leaves there. When it has been started, it wipes the directories of a
  binding that may be somebody else's by then.
- `MCChaosOnce.cfg` (`OnlyOnce`): a task without a period is applied twice when the
  status write after the kill is refused or never made ("Empty period means applying
  task only once", `procchaos_types.go:39`).
- `MCChaosShort.cfg` (`InPeriod`): with a period below a second, a second kill within
  one second writes the status that is there; no event follows and the task stops.
- `MCHostUpload.cfg` (`PortIsServed`): a system that never got the host removes the
  upload daemon of the one that has it (`machine_controller.go:383` does not look at
  the label), which does not start it again.
- `MCPlainFlink.cfg` (`ReadyIsInstalled`): the error of a node that cannot be used is
  dropped (`testclustertopology_controller.go:896`) and the Flink cluster is called
  ready.
- `MCPlainKept.cfg` (`GoneLeavesNoFile`): the upload daemon cannot delete the file of an
  HAProxy, logs that and answers success (`cmd/daemon/deploy.go:29-36`);
  `DeleteConfigFromMachine` does not look at the answer either
  (`haproxy/deploy.go:68-80`), and the topology goes and leaves its file.
- `MCPlainProxy.cfg` (`DependenciesUp`): a topology is ready before its HAProxy is up,
  because `requeue` is declared twice (`testclustertopology_controller.go:787`); a
  workload is started with an address that has no host.
- `MCSizeEdit.cfg` (`RestReadable`): a reserve raised on a machine in use, which the
  webhook accepts, makes its rest negative, which cannot be read back: the process
  panics whenever it places a request.
- `MCReportRetry.cfg` (`ResultsSaved`): all attempts of a report write the object that
  was read first, so that none succeeds after the first one is refused.

Others the model shows without a configuration (they are in `hazards`): one
device for two disks of one resource; a machine deleted between becoming ready
and being entered in the Relationship, which leaves a dangling binding (users of
kind `"delete new machine"`); a resource deleted after its request was accepted,
which is created again and never bound (`Forgotten`, which `AloneIsServed` excepts); a
workload created before its node is
bound, at which the process panics until the node is bound; a workload that is
deleted while the resource controller writes its node, so that the release is
refused, the error dropped and the claim left for ever.

Of topologies, `SettledIsDeployed`, `GoingIsTracked` and `Applied` except hasty
users because they do not hold for them: a change made before `PreTiDBCluster` is
first set is never deployed; one made during an update is compared with the record
from before it; an instance moved to another host, which the webhook accepts, is
neither a scale-in nor a scale-out and is not deployed; a new configuration during
a scale-in makes tiup forget the store that is going. `Applied` excepts calls that
were cut off: a TiDB scale-in that is repeated fails for ever. `DeletionEnds`
excepts a control node that was never given an image.

Of the others, `HostHandedOver` excepts a host on which reading the facts has failed:
the container stays, and every later attempt takes over its failure. `TasksGoOn`
excepts an object that was looked at before there was a request: nobody looks at it
again. `ProxyConfigured` excepts a file that the daemon lost though it answered
success, and a later topology of the same name, which finds the node as the first one
has left it. `GoneLeavesNothing` excepts a file that the daemon kept when it was last
told to delete it, and speaks of files only while the request is there: when its nodes
go first, the file of the HAProxy stays on the machine. `HostClean` excepts a cleaner
that was created after the binding was given back (`MCWorkStray.cfg`); it does not
except a container, and none comes back in this way.

### Bounds

`MaxGen`, `MaxInc` bound how often a name is used (two requests of a name, a former
and a present one; two resources, each the second's or taken away from the second),
`MaxCrash` the crashes (one: it can fall between any two steps; `MCLag` has the
restarts that follow a panic instead), `MaxLoss` the containers removed by others,
`MaxFault` crashes and such losses together. One or two machines, two requests of one or two items, two nodes and two workloads are
enough for every pair of actors that meet: the ledger is contended by two, a second group
is placed after a first one, on its machine or another or nowhere, a workload waits on
its second node while it holds the first. Caches hold one old copy per kind that may be arbitrarily old.
`MCPair` reads the current objects, and a read is old by the time of the write it leads
to; in `MCLag` the Relationship lags, the one object that all controllers decide on,
and the resources, which decide what a deleted request still has to wait for. The proofs
of exclusion hold for every choice of lagging kinds, and for groups of any size, of which
`MCPair` has two of one item.
`MCWorkShared` has no crash, because a crash after a release repeats it on a node
that may belong to another by then, which is the disagreement of `MCWorkClaim.cfg`.
In `MCTopo`, `MaxGen = 3` is a creation with two changes, a change and a deletion
with a second creation, and so on; `MaxFault = 1` is one cut-off call or one ended
node. Eight specifications have every kind of change, a mixed one, a moved
instance and changes that are refused; three nodes are a control node, one that is
scaled in and one that is new.
`BoundMachineExists` is checked with machines deleted after they are entered.
In `MCPlain` the nodes are shared in all the ways that matter: by two clusters, by a
cluster and an HAProxy, by an HAProxy and a workload; `MaxFault = 2` lets a lost file
or an ended node meet a cut-off call. `MCHost` has two systems and two objects for each
(`MaxGen`), so that a lock may be one's own former lock. In ProcChaos a second is two
ticks, the fewest that tell a time from the whole second it is kept as; `MaxWrite` bounds
the time between a kill and its record, `MaxBackoff` the delay after an error, and ages
stop at `MaxAge`, when everything is due. In `MCSize` the sizes are bytes below a MiB,
where the last of four digits is a tenth of a KiB, and 50 bytes are free while 100
cost a tenth; the digits repeat with each unit. Three attempts against one write and
two losses exhaust `Retry` or do not.

### Fairness

The work queue is first in, first out and every object not at rest is put back, by an
event, an error or `RequeueAfter`; the one worker may be busy with others in between,
hence strong fairness of an object's turn: the step that takes it and, since the worker
runs in its own goroutine and does nothing else until the call is over, the steps that
finish the call. Watches deliver, the garbage collector runs (weak), and a process
that panics is started again. Containers and cleaners end (weak): a test that never ends is not the controllers' business, and a cleaner
that never ends does stop them (a hazard). After a cleaning, the write of the node
and, of a deleted node, those of the Relationship and of the node are strongly fair: a
write is refused only when somebody else has written, or from an old copy, which does
not go on for ever, since the watches of nodes and of the Relationship deliver. In ClusterTopology weak fairness of the one
worker is enough, since there is one topology; the request becomes ready, nodes
start, and PD moves the regions of a store that is scaled in. In HostDaemons a call
that failed is repeated (the work queue's backoff) and the container that reads the
facts ends. In ProcChaos the worker, the watch and the timer go on, time passes and the
scheduler serves the request. Users and crashes owe nothing.

## What is proved

All theorems hold for every value of the constants that satisfies the assumptions
of the modules: sizes, counts and bounds are natural numbers, lists are finite,
items are names of resources, the items of a request are in the request's own
namespace, and the value for "none" is no member of the sets it is used with. In
particular the numbers of machines, requests, nodes, workloads, systems and
specifications, of faults and of uses of a name are arbitrary, and every kind of
object may be read from a cache that is behind. Each property was checked by TLC on
the runs' instances first. No theorem but those marked needs a hypothesis. Every safety
and step property of the passing runs is stated by a theorem.

| Theorem | States | Hypothesis, and why |
|---|---|---|
| `NaglfarProofs!OverflowIsFree` | what `resourceOverflow` returns lies within what the machine has and nobody holds | |
| `TypeCorrect` | `TypeOK`, `WorkingCopyOK` | |
| `CPUsAreExclusive`, `DevicesAreExclusive`, `LocksAreExclusive` | `CPUsExclusive`, `DevicesExclusive`, `LockExclusive` | |
| `LocksAreNotStolen` | `LockNotStolen` (a step property) | |
| `MemoryIsEnough` | `MemoryWithinMachine` | no machine reserves more memory than it has: of such a one less than nothing is left before anything is bound |
| `MapsAlwaysAgree`, `NoLockIsOrphaned` | `MapsAgree`, `NoOrphanLock` | |
| `RequiredAreReleased` | `RequiredGoesReleased` (a step property) | |
| `LedgerIsImplemented` | `ImplementsLedger`: the controllers refine Ledger | |
| `HostsAreReleased` | `HostReleased` | |
| `BoundMachinesExist` | `BoundMachineExists` | no user deletes a machine before it is in the Relationship: such a machine goes at once, and the scheduler may have listed it |
| `ReadyRequestsAreBound` | `ReadyImpliesBound` | no user deletes resources: with such users the property has exceptions, which TLC checks in `MCLag` |
| `HostProofs!ReadyAlwaysHoldsLock`, `OneSystemAtATime` | `ReadyHoldsLock`; no two systems have a host ready at once | |
| `WorkloadProofs!UpNodesHaveContainers`, `HostsAreClean` | `UpHasContainer`, `HostClean` | none; `HostClean` itself excepts a cleaner brought back by an old copy of the Relationship (`MCWorkStray.cfg`) |
| `SucceededAreReal` | `SucceededIsReal` | workloads share no node, or the next hypothesis |
| `NoClaimIsDead`, `ClaimsAreRespected` | `NoDeadClaim`, `ClaimRespected` (a step property) | workloads are deleted after they have ended, and share no node or the process does not stop: otherwise a release is lost or repeated (`MCWorkClaim.cfg`) |
| `PlainProofs!GoneTopologiesLeaveNothing` | `GoneLeavesNothing` | none; the property itself excepts a file that the daemon kept (`MCPlainKept.cfg`) |
| `ReadyTopologiesAreInstalled` | `ReadyIsInstalled` | no Flink cluster: there the code drops the error (`MCPlainFlink.cfg`) |
| `ProxiesAreConfigured` | `ProxyConfigured` | no two HAProxies on one machine: their files have one name |
| `ClusterProofs!GoneTopologiesAreUninstalled` | `GoneIsUninstalled` | |
| `SettledTopologiesAreDeployed`, `GoingStoresAreTracked`, `WantedInstancesStay` | `SettledIsDeployed`, `GoingIsTracked`, `WantedStays` (a step property) | none; the properties themselves except hasty users |
| `ReportProofs!ReportsAreKept`, `OnlyOwnResults` | `ReportedIsKept`; a step writes the result of the reporting item only | |
| `ChaosProofs!ChaosTypes` | `TypeOK` of ProcChaos | |
| `RecordsLieApart` | `RecordsApart` (a step property) | |
| `TasksAreInPeriod` | `InPeriod` | no period is below the second that recorded times are cut to: otherwise the task may stop (`MCChaosShort.cfg`) |
| `SizeProofs!RestIsReadable`, `OvercommitIsBounded` | `RestReadable`, `OvercommitBounded` | no reserve is raised (`MCSizeEdit.cfg`), and none exceeds the size that the machine reports: in both cases the rest is negative |

The arguments, with the invariant that each needs:

**Exclusion** (NaglfarProofs). None of the three properties is inductive, because
`RequestCommit` writes a Relationship computed over many steps. The invariant that
carries them is `WorkingCopyOK`: while groups are placed, the working copy is what the
Relationship read at the start could become. It shares nothing that was not shared
there, it leaves locked machines alone, and machines to be locked carry this
request's entries only. `SchedulerStep` proves it preserved, with `PlacedBinding`,
`BoundSharesNoCPU` and `BoundSharesNoDevice` for a group whose items each see the
ones before. `Writers` shows that a step leaves the Relationship alone or is one of
six writes. The commit is accepted only when the stored Relationship still is the
one that was read, so what holds of the copy holds of the ledger; the five other
writers only take entries away, or add none (`OthersOnlyTake`).

**Memory** (NaglfarProofs). `MemoryWithinMachine` sums over the entries of a machine.
The sum is written with a function that adds up every part of the entries (`AddsUp`);
that there is one, and that `MemoryOf` is that function's value (`MemoryIsSum`), follows by going
through the numbers from the least one (`Smallest`, `AllNumbers`: induction without a
theorem that takes an operator). A group is placed when there is as much left
(`PlacedHasRoom`, from `OverflowIsFree`); the working copy has room while it is the copy
of a Relationship that had it (`WorkHasRoom`), and the other writers only take entries
away (`LessHasRoom`).

**The ledger** (NaglfarProofs, part 3). `LedgerInv` follows references through the caches. The
caches are behind the API server (`NotBefore`: a later object of a name, or the same
one with at least its mark of deletion); a version number determines the
Relationship, so an accepted write was computed from the current one; a reference
that is bound or was bound (`Known`) is of a request that still has its finalizer;
both maps of every copy are inverse (`MapsTally`). The refinement maps `rel.r2m` to
the grants; each of the six writes is one ledger action or a stutter, and every other
step leaves the mapped state alone.

**Machines and ready requests** (part 4). For machines: a machine keeps its
finalizer while it is in the Relationship (`KeysThere`), and a scheduler that still
places on a machine that has left it read an older Relationship (`PlacesThere`), so its
write is refused. For requests: what the scheduler sees of a resource is an earlier
state of the same object (`ResourcesBehind`), resources of a living request are not
deleted (`LiveKeep`), and so a binding seen once stays (`BindingStays`, `ReadyHasAll`).

**Hosts** (HostProofs). The lock is looked at in one docker call and relied on in later
ones. `HostInv` says what a worker knows in between: its copy is the object but for a
deletion (`CopyHeld`), past `tryLock` its own lock runs on the host (`LockKept`), and
what it removes by name is its own (`OwnUnlocked`).

**Nodes and workloads** (WorkloadProofs). The cache is at most one effective write
behind (`LagOK`), so what a controller does on the host with an old copy fits the node
as it is (`Fits`, `Up`). The cache of the Relationship may be any distance behind, but a
binding that is given back stays so (`BindingsInv`): it goes from a node whose deletion
every copy shows by then and whose container is gone, so no copy lets the worker create a
container on that host again, and a cleaner that it creates is noted as stray. For claims, `ReleaseInv` follows a deleted workload through its
loop: the nodes before its index are given up, the ones after it still are its own.

**Topologies without updates** (PlainProofs). `PlainInv` says what the worker may still
rely on when it writes what it did some steps before: the finalizer (`AtWork`), what it
did (`WorkDone`) unless the request is going (`NodesGo`), and that clusters and files are
where a plan says and belong to a topology with its finalizer, or are a file that the
daemon kept (`Footprint`, `Finalized`). `ProxyInv` adds that an HAProxy whose image is given has its file.

**TiDB clusters** (ClusterProofs). `LifeInv` is about finalizers, caches and requests and
holds for all users. `CalmInv` relates four things while nobody disturbs the
controller: the object, the cluster it has led to, the older version that the cache
may show, and the one that the worker is at. Where the object says *updating*, the
cluster is between the old and the new specification (`Between`), with as much done as
the worker's place says (`Progress`). A cache that lags may start the whole update
again after it was noted (`Stale`); `DoneStays` shows that every command then changes
nothing, or is refused by tiup, because the webhook lets pass one kind of change at a
time and nobody moves an instance (`Pair`): the lists are nested, so the sizes that the
code compares decide (`NestedSizes`, `PairFacts`).

**Reports** (ReportProofs). A copy of the status with the current version is the status
(`CopyOK`), so a write that is accepted takes along the results of all other items.

**Process chaos** (ChaosProofs). A status is decided on some version of the object and
written some ticks later. `Decided` says what the worker knows while its copy is of the
current version: it changes the state of one task, which has none yet or is due, and
everything else in the copy is the object. Any other copy is refused, so records lie
apart. For `InPeriod` the invariant is `TimeInv`: the cache shows no younger record than
there is (`Behind`), no task is overdue (`InTime`), and when nothing is queued, in work
or on the way the one timer ends before the next task is due (`Resting`). A look that
finds nothing due sets the timer to the least of the remaining times (`MinDuration`), a
write makes an event. A period below a second breaks `InTime`, since the write then
may change nothing and make no event.

**Sizes** (SizeProofs). Four facts about printing a size and reading it back (`Cut`),
each proved for the four ranges of digits: the limits of the ranges are not rounded over
(`WithinLimits`), more is not printed as less (`MoreIsMore`), what was printed does not
grow when it is printed again (`AgainIsLess`), and a part of the machine grows by half of
the machine's last digit at most (`GrowsByHalf`). `AllFit` is the invariant: each binding
can be subtracted from what those before it leave. It is not obvious that it survives
`Release`, as everything behind the released binding is rounded anew; with
`MoreFits` it does, because what is left never becomes less by leaving one out. What
`FoldLeft` computes is again shown with a function on parts of the list (`Takes`,
`OneMoreTaken`).

Model-checked only: everything about liveness and fairness, which is out of the prover's
reach: `DeletionCompletes`, `MachineLeaves`, `AloneIsServed`, `WorkloadGoes`,
`WorkloadEnds`, `Applied`, `DeletionEnds`, `HostHandedOver`, `TasksGoOn`; and
`ReadyImpliesBound` for users who delete resources.

## What is abstracted or left out

- A call to docker that fails ends the call of Reconcile; what it leaves behind is
  what a crash at that point leaves behind. In
  MachineController there is one system; HostDaemons has several.
- Requests name only logical machines they declare (`checkItems` of the webhook).
- In Workloads a workload object is read as it is; the cache of workloads does not
  lag. Containers never restart by themselves (no restart policy is set). There a workload
  waits for no cluster topology; in PlainTopology it does.
- A node is not deleted before it has its machine in Workloads; Naglfar has that.
- The error of the status write that makes a request ready is dropped in the code
  without a requeue; the model gives the request another turn, as the events of
  its resources do.
- A command of tiup has all of its effect or none, and needs every node of the
  cluster and of the specification; only that there is no cluster to destroy the
  control node can tell alone (`CanUninstall` of PlainTopology); patched binaries are followed up to the first
  change. Nodes of a topology are `free`, `starting`, `up`, `down` or `gone`, which
  stands for the states of ContainerLife that `initTiDBResources` tells apart. A
  topology takes no claim on its nodes; workloads on the same nodes are in
  PlainTopology and not in ClusterTopology.
- In PlainTopology the topologies themselves are read as they are (their lag is in
  TopologyController), an end of a container keeps its address, and the writes of the
  workload's node are those of its claim.
- In HostDaemons the API servers show the current object of their system; only the
  host is shared. In ProcChaos a node is usable or not, whatever the reason (not
  ready, not bound, no machine, chaos daemon not reached).
- Sizes are never negative before a subtraction. In Sizes they are bytes, which are
  exact, and KiB, which are rounded; a rest that passes from one rounding unit to the
  next smaller one, as from TiB to GiB, is not covered.

### Not modelled

- The workflow controller: its `Reconcile` is empty in the source.
- Required fields, the upgrade policy and defaults in the webhooks: conditions on one
  field of one object, with no state and no order.
- The command line (`kubectl-naglfar`), start-up (`main.go`), reading logs, pulling
  images, `Exec`: input and output without state of their own.
- Events, logging, the text of configuration files and environment variables.
- Generated code (`chaos.pb.go`, `zz_generated.deepcopy.go`), a third of the source.

## Plan

1. *(done)* The scheduling core, its ledger and the proofs of exclusion.
2. *(done)* Containers and workloads.
3. *(done)* TiDB cluster topologies with their webhook and tiup; DM and Flink clusters,
   HAProxy and a workload that waits for them on shared nodes.
4. *(done)* The process chaos controller with its timers, hosts shared by several
   systems with the docker calls of `Run`, rounded sizes, the client's report.
5. *(done)* Proofs of all safety and step properties that the runs check, and of the
   refinement of `Ledger`.
6. `ReadyImpliesBound` for users who delete resources, where a name may have a second
   resource while the scheduler still sees the first.
