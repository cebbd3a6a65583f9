------------------------------ MODULE MCNaglfar -----------------------------
(***************************************************************************)
(* Small instances of Naglfar.                                             *)
(***************************************************************************)
EXTENDS Naglfar, TLC

NoDisks == <<>>

Hw(threads, reserve, memory, disks) ==
    [threads |-> threads, reserveCores |-> reserve, memory |-> memory,
     reserveMemory |-> 1, disks |-> disks]

ItemOf(cores, memory, disks, logical) ==
    [cores |-> cores, memory |-> memory, disks |-> disks, machine |-> logical]

Nvme(size) == [kind |-> "nvme", size |-> size]

----------------------------------------------------------------------------
(* Two requests of one item each, in their own namespaces.                  *)

Request2 == {"r1", "r2"}
Resource2 == {"a", "b"}
Items2 == [r1 |-> <<"a">>, r2 |-> <<"b">>]
Ns2 == [r1 |-> "n1", r2 |-> "n2", a |-> "n1", b |-> "n2"]
NoMachineRequest2 == [r1 |-> <<>>, r2 |-> <<>>]

\* Both fit on the one machine: CPU 0 is reserved, 1 and 2 are free.
Machine1 == {"m1"}
HardwareShared == [m1 |-> Hw(3, 1, 5, [nvme0 |-> Nvme(4), nvme1 |-> Nvme(8)])]
SpecShared == [a |-> ItemOf(1, 2, [d |-> Nvme(4)], None), b |-> ItemOf(1, 2, [d |-> Nvme(2)], None)]

----------------------------------------------------------------------------
(* A request for an item on an exclusive machine and an item that may go    *)
(* anywhere, with a disk each: both fit on m1, and m2 has room for one.     *)
(* Another request wants an exclusive machine: where it has taken m1, the   *)
(* first group of the other one finds a machine and the second one none.    *)

Machine2 == {"m1", "m2"}
Resource3 == {"a", "b", "c"}
ItemsPair == [r1 |-> <<"a", "b">>, r2 |-> <<"c">>]
NsPair == [r1 |-> "n1", r2 |-> "n2", a |-> "n1", b |-> "n1", c |-> "n2"]
ExclusivePair == [r1 |-> [l |-> [machine |-> None, exclusive |-> TRUE]],
                  r2 |-> [l |-> [machine |-> None, exclusive |-> TRUE]]]
TwoDisks == [nvme0 |-> Nvme(4), nvme1 |-> Nvme(4)]
HardwarePair == [m1 |-> Hw(3, 1, 5, TwoDisks), m2 |-> Hw(3, 1, 4, TwoDisks)]
SpecPair == [a |-> ItemOf(1, 2, [d |-> Nvme(4)], "l"), b |-> ItemOf(1, 2, [d |-> Nvme(4)], None),
             c |-> ItemOf(1, 1, NoDisks, "l")]

----------------------------------------------------------------------------
(* Both requests in one namespace, with room for both.                      *)

NsOne == [r1 |-> "n1", r2 |-> "n1", a |-> "n1", b |-> "n1"]

----------------------------------------------------------------------------
(* One request for one item.                                                *)

Request1 == {"r1"}
Resource1 == {"a"}
Items1 == [r1 |-> <<"a">>]
Ns1 == [r1 |-> "n1", a |-> "n1"]
ExclusiveNamed1 == [r1 |-> [l |-> [machine |-> "m1", exclusive |-> TRUE]]]
Hardware1 == [m1 |-> Hw(2, 1, 3, NoDisks)]
Spec1 == [a |-> ItemOf(1, 2, NoDisks, "l")]
=============================================================================
