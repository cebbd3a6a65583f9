------------------------- MODULE ResourceController -------------------------
(***************************************************************************)
(* TestResourceReconciler, as far as it deals with scheduling: a resource  *)
(* waits for its binding, and when it is deleted it cleans its machine,    *)
(* gives the binding back and lets its object go.  The container life of a *)
(* resource that has its machine is not part of this module.               *)
(***************************************************************************)
EXTENDS ControlPlane

VARIABLE tc     \* the worker: about to remove the finalizer of obj, or idle

TIdle == [pc |-> "idle", x |-> None, obj |-> AbsentResource(0)]

ResourceTypeOK ==
    /\ tc \in [pc : {"idle", "finalizer"}, x : Resource \cup {None}, obj : ResourceObject]
    /\ tc.pc # "idle" => tc.x \in Resource

ResourceInit == tc = TIdle

UpdateResource(x, seen, o) ==
    /\ resources[x] = seen
    /\ resources' = [resources EXCEPT ![x] = o]
    /\ UNCHANGED <<machines, requests, rel, cache>>

ResourceAddFinalizer(x) ==
    LET o == SeenResources[x] IN
    /\ tc.pc = "idle" /\ Exists(o) /\ ~o.del /\ ~o.fin
    /\ UpdateResource(x, o, [o EXCEPT !.fin = TRUE])
    /\ UNCHANGED tc

ResourceBeginPending(x) ==
    LET o == SeenResources[x] IN
    /\ tc.pc = "idle" /\ o.fin /\ ~o.del /\ o.state = ""
    /\ UpdateResource(x, o, [o EXCEPT !.state = "pending"])
    /\ UNCHANGED tc

\* Seeded fault: the resource starts without looking for its binding.
ResourcePending_Unbound(x) ==
    LET o == SeenResources[x] IN
    /\ tc.pc = "idle" /\ o.fin /\ ~o.del /\ o.state = "pending"
    /\ UpdateResource(x, o, [o EXCEPT !.state = "uninitialized"])
    /\ UNCHANGED tc

\* reconcileStatePending: the binding is there and its machine is found.
ResourcePending(x) ==
    LET o == SeenResources[x]
        k == ResRef(x, o) IN
    /\ tc.pc = "idle" /\ o.fin /\ ~o.del /\ o.state = "pending"
    /\ k \in DOMAIN SeenRel.r2m
    /\ Exists(SeenMachines[SeenRel.r2m[k].machine])
    /\ UpdateResource(x, o, [o EXCEPT !.state = "uninitialized"])
    /\ UNCHANGED tc

----------------------------------------------------------------------------
(* Deletion.                                                                *)

\* Seeded fault: only ResourceToMachine forgets the binding.
Released_OneMap(R, k) ==
    [R EXCEPT !.r2m = [j \in DOMAIN R.r2m \ {k} |-> R.r2m[j]]]

\* The Relationship without the binding of resource k.
Released(R, k) ==
    [R EXCEPT !.m2r = [m \in Machine |->
                         IF m = R.r2m[k].machine
                         THEN {e \in R.m2r[m] : e.ref # k}
                         ELSE R.m2r[m]],
              !.r2m = [j \in DOMAIN R.r2m \ {k} |-> R.r2m[j]]]

\* A bound resource: finalize cleans the machine (whose object must be
\* found) and the binding is given back.  The passes of finalize that ask to
\* be called again change nothing here; a refused write starts over, so
\* the Relationship that counts is the one read just before the write.
ResourceRelease(x) ==
    LET o == SeenResources[x]
        k == ResRef(x, o) IN
    /\ tc.pc = "idle" /\ o.del /\ o.fin
    /\ k \in DOMAIN SeenRel.r2m
    /\ Exists(SeenMachines[SeenRel.r2m[k].machine])
    /\ UpdateRelationship(SeenRel, Released(SeenRel, k))
    /\ tc' = [pc |-> "finalizer", x |-> x, obj |-> o]

\* Seeded fault: the finalizer goes whether the resource is bound or not.
ResourceSkipRelease_Always(x) ==
    LET o == SeenResources[x] IN
    /\ tc.pc = "idle" /\ o.del /\ o.fin
    /\ tc' = [pc |-> "finalizer", x |-> x, obj |-> o]
    /\ UNCHANGED storeVars

\* A resource that is not bound in the Relationship read.
ResourceSkipRelease(x) ==
    LET o == SeenResources[x] IN
    /\ tc.pc = "idle" /\ o.del /\ o.fin
    /\ ResRef(x, o) \notin DOMAIN SeenRel.r2m
    /\ tc' = [pc |-> "finalizer", x |-> x, obj |-> o]
    /\ UNCHANGED storeVars

ResourceRemoveFinalizer ==
    /\ tc.pc = "finalizer"
    /\ UpdateResource(tc.x, tc.obj, AbsentResource(tc.obj.inc))
    /\ tc' = TIdle

ResourceConflict ==
    /\ tc.pc = "finalizer" /\ resources[tc.x] # tc.obj
    /\ tc' = TIdle
    /\ UNCHANGED storeVars

ResourceBegin(x) ==
    \/ ResourceAddFinalizer(x)
    \/ ResourceBeginPending(x)
    \/ ResourcePending(x)
    \/ ResourceRelease(x)
    \/ ResourceSkipRelease(x)

ResourceContinue == ResourceRemoveFinalizer \/ ResourceConflict
=============================================================================
