------------------------------- MODULE Ledger -------------------------------
(***************************************************************************)
(* What the scheduler promises its users: resources are granted to a       *)
(* request all at once, a CPU or a device is in one hand at a time, an     *)
(* exclusive machine serves one request, and grants are given back one by  *)
(* one.  Nothing here knows of controllers, caches or machines that come   *)
(* and go.                                                                 *)
(***************************************************************************)
EXTENDS Integers, FiniteSets

CONSTANTS
    Machine,
    CPUs,       \* CPUs[m]: the CPUs of machine m that can be granted
    Members(_), \* Members(q): the resource names request q asks for
    None

VARIABLES
    grants,     \* resource reference |-> [machine, cpus, devices]
    locks       \* machine |-> the request that has it for itself, or None

vars == <<grants, locks>>

Init == /\ grants = [k \in {} |-> None]
        /\ locks = [m \in Machine |-> None]

Conflict(g, h) ==
    g.machine = h.machine /\ (g.cpus \cap h.cpus # {} \/ g.devices \cap h.devices # {})

\* Request q gets everything it asks for, on CPUs and devices nobody has,
\* and locks some of the machines on which it is alone.
Grant ==
    LET new == DOMAIN grants' \ DOMAIN grants IN
    /\ \A k \in DOMAIN grants : k \in DOMAIN grants' /\ grants'[k] = grants[k]
    /\ \A k \in new :
          /\ {j.name : j \in new} = Members(k.owner)
          /\ grants'[k].cpus \subseteq CPUs[grants'[k].machine]
          /\ locks[grants'[k].machine] = None
          /\ \A j \in DOMAIN grants' \ {k} :
                /\ ~Conflict(grants'[k], grants'[j])
                /\ j \in new => j.owner = k.owner
    /\ \A m \in Machine :
          \/ locks'[m] = locks[m]
          \/ /\ locks[m] = None
             /\ \E k \in new : locks'[m] = k.owner /\ grants'[k].machine = m
             /\ \A k \in DOMAIN grants' : grants'[k].machine = m => k.owner = locks'[m]

\* One resource is given back.
Release ==
    /\ \E k \in DOMAIN grants : grants' = [j \in DOMAIN grants \ {k} |-> grants[j]]
    /\ locks' = locks

\* A request gives its machines back; what it still holds on them stays its
\* own, and keeps the next request from locking them.
Unlock ==
    /\ grants' = grants
    /\ \E m \in Machine :
          /\ locks[m] # None
          /\ locks' = [n \in Machine |-> IF locks[n] = locks[m] THEN None ELSE locks[n]]

Next == Grant \/ Release \/ Unlock

Spec == Init /\ [][Next]_vars
=============================================================================
