------------------------------ MODULE Capacity ------------------------------
(***************************************************************************)
(* What a machine has to give and what a binding takes from it             *)
(* (api/v1/machine_types.go and resourceOverflow of the request            *)
(* controller).  Sizes are whole GiB below 1000 GiB, the range in which    *)
(* BytesSize arithmetic is exact.  CPU lists are sets: the code keeps them *)
(* sorted and free of duplicates.                                          *)
(***************************************************************************)
EXTENDS Integers, FiniteSets, FiniteSetsExt

CONSTANTS
    Machine,    \* machine names
    Resource,   \* names of TestResources (request items)
    Hardware,   \* Hardware[m]: threads, reserveCores, memory, reserveMemory, disks
    ItemSpec    \* ItemSpec[x]: cores, memory, disks, machine (a logical name or None)

\* disks is a function: of exclusive device |-> [kind, size] for a machine,
\* of logical disk name |-> [kind, size] for an item.
ASSUME HardwareAssumption ==
    \A m \in Machine : /\ Hardware[m].threads \in Nat
                       /\ Hardware[m].reserveCores \in Nat
                       /\ Hardware[m].memory \in Nat
                       /\ Hardware[m].reserveMemory \in Nat

ASSUME ItemSpecAssumption ==
    \A x \in Resource : /\ ItemSpec[x].cores \in Nat
                        /\ ItemSpec[x].memory \in Nat

----------------------------------------------------------------------------
makeCPUSet(threads) == 0 .. threads - 1

\* Machine.Available: everything the machine has, less the reserve.
AvailableCPUs(m) ==
    makeCPUSet(Hardware[m].threads) \ makeCPUSet(Hardware[m].reserveCores)

AvailableMemory(m) == Hardware[m].memory - Hardware[m].reserveMemory

AvailableDevices(m) == DOMAIN Hardware[m].disks

----------------------------------------------------------------------------
(* An entry of MachineToResources is [ref, binding] with binding =          *)
(* [cpus, memory, disks], disks mapping logical disk names to devices.      *)

CPUsOf(A) == UNION {e.binding.cpus : e \in A}

MemoryOf(A) == MapThenSumSet(LAMBDA e : e.binding.memory, A)

\* The disks that the entries in A hold, as pairs of an entry and a name.
DiskClaims(A) ==
    UNION {{<<e, n>> : n \in DOMAIN e.binding.disks} : e \in A}

DeviceOf(claim) == claim[1].binding.disks[claim[2]]

\* Machine.Rest gives nil when it meets a device it no longer has: one that
\* is not there, or one that two claims hold.
RestIsNil(m, A) ==
    \E c \in DiskClaims(A) :
        \/ DeviceOf(c) \notin AvailableDevices(m)
        \/ \E d \in DiskClaims(A) \ {c} : DeviceOf(d) = DeviceOf(c)

\* Seeded fault: CPUs of the allocated resources are not taken off.
RestCPUs_IgnoresAllocated(m, A) == AvailableCPUs(m)

RestCPUs(m, A) == AvailableCPUs(m) \ CPUsOf(A)

\* Seeded fault: memory of the allocated resources is not taken off.
RestMemory_IgnoresAllocated(m, A) == AvailableMemory(m)

RestMemory(m, A) == AvailableMemory(m) - MemoryOf(A)

\* Seeded fault: devices of the allocated resources stay in the rest.
RestDevices_IgnoresAllocated(m, A) == AvailableDevices(m)

RestDevices(m, A) ==
    AvailableDevices(m) \ {DeviceOf(c) : c \in DiskClaims(A)}

----------------------------------------------------------------------------
\* The lowest n idle CPUs, or none when there are fewer than n.
pickCpuSet(idle, n) ==
    IF Cardinality(idle) < n
    THEN {}
    ELSE {c \in idle : Cardinality({d \in idle : d < c}) < n}

\* Each logical disk independently gets any device of its kind that is large
\* enough: the loop deletes rest.Disks[name] and not rest.Disks[device], so a
\* device stays on offer for the next disk of the same item.
DiskChoices(m, A, x) ==
    {d \in [DOMAIN ItemSpec[x].disks -> RestDevices(m, A)] :
        \A n \in DOMAIN ItemSpec[x].disks :
            /\ ItemSpec[x].disks[n].kind = Hardware[m].disks[d[n]].kind
            /\ ItemSpec[x].disks[n].size <= Hardware[m].disks[d[n]].size}

\* The bindings resourceOverflow may return for item x on machine m with A
\* allocated; empty when it reports an overflow.
resourceOverflow(m, A, x) ==
    LET picked == pickCpuSet(RestCPUs(m, A), ItemSpec[x].cores) IN
    {[cpus |-> picked, memory |-> ItemSpec[x].memory, disks |-> d] :
        d \in {c \in DiskChoices(m, A, x) :
                 /\ ~RestIsNil(m, A)
                 /\ RestMemory(m, A) >= ItemSpec[x].memory
                 /\ Cardinality(picked) >= ItemSpec[x].cores}}
=============================================================================
