---------------------------- MODULE ContainerLife ---------------------------
(***************************************************************************)
(* A TestResource after it has its machine: TestResourceReconciler makes,  *)
(* starts and watches the one container a workload or a cluster puts on    *)
(* it, and wipes the machine with a cleaner container before the next use  *)
(* and before the resource goes.                                           *)
(*                                                                         *)
(* A node is a TestResource.  The worker reads it from a cache that may be *)
(* behind; a status write based on an old version is refused.  Which nodes *)
(* are bound to a machine stands in one other object, the Relationship,    *)
(* read from a cache of its own; a node's binding is made by the scheduler *)
(* and given back, once, by this controller.                               *)
(*                                                                         *)
(* Everything the worker does between its read and its last call is one    *)
(* step, since only the worker touches the containers of a node: a         *)
(* container that ends meanwhile might as well end just after.  The        *)
(* exceptions are the wait for the cleaner, which blocks the worker for    *)
(* all nodes, and the end of a deleted node, which is two writes.          *)
(***************************************************************************)
EXTENDS Integers, Sequences, FiniteSets

CONSTANTS
    Node,       \* names of TestResources
    Image,      \* images of containers
    None,       \* no image, no claim
    Bound,      \* the nodes have their machine from the start
    MaxLoss     \* bound: containers removed by someone else

ASSUME ContainerLifeAssumption ==
    /\ None \notin Image
    /\ Bound \in BOOLEAN
    /\ MaxLoss \in Nat

VARIABLES
    nodes,      \* the objects at the API server
    cache,      \* the objects as the manager's cache shows them
    ctr,        \* ctr[n]: the container named after n on its machine
    cleaner,    \* cleaner[n]: the cleaner container of n
    tw,         \* the worker: idle, waiting for the cleaner of tw.n, or about
                \* to remove the finalizer of tw.n
    losses,
    rel,        \* rel[n]: whether n has a binding, in the Relationship
    seenRel,    \* the Relationship as the manager's cache shows it
    stray       \* history: nodes that got a cleaner after their binding went

relVars == <<rel, seenRel, stray>>

nodeVars == <<nodes, cache, ctr, cleaner, tw, losses, relVars>>

NoContainer == [st |-> "none", image |-> None, by |-> None]

\* A state or a phase that nobody has written yet.
Unset == ""

NewNode(state) ==
    [ver |-> 0, state |-> state, phase |-> Unset, image |-> None, claim |-> None, del |-> FALSE]

Gone(o) == [NewNode("absent") EXCEPT !.ver = o.ver + 1]

Bindings == [Node -> {"unbound", "bound", "released"}]

Unbound == [n \in Node |-> "unbound"]

TIdle == [pc |-> "idle", n |-> None, obj |-> NewNode("absent"), rel |-> Unbound]

Exists(o) == o.state # "absent"

IsRequired(o) == o.state \notin {"absent", Unset, "pending"}

CouldUninstall(o) == o.state \in {"uninitialized", "ready", "finish"}

NodeObject(Claim) ==
    [ver : Nat,
     state : {"absent", Unset, "pending", "uninitialized", "ready", "finish", "destroy"},
     phase : {Unset, "pending", "running", "succeeded", "failed"},
     image : Image \cup {None}, claim : Claim, del : BOOLEAN]

NodeTypeOK(Claim) ==
    /\ nodes \in [Node -> NodeObject(Claim)]
    /\ cache \in [Node -> NodeObject(Claim)]
    /\ ctr \in [Node -> [st : {"none", "created", "connected", "running", "succeeded", "failed"},
                         image : Image \cup {None}, by : Claim]]
    /\ cleaner \in [Node -> {"none", "created", "started", "exited"}]
    /\ tw \in [pc : {"idle", "wait", "finalizer"}, n : Node \cup {None}, obj : NodeObject(Claim),
               rel : Bindings]
    /\ losses \in 0 .. MaxLoss

BindingTypeOK == rel \in Bindings /\ seenRel \in Bindings /\ stray \subseteq Node

NodeInit ==
    /\ nodes = [n \in Node |-> NewNode(IF Bound THEN "uninitialized" ELSE Unset)]
    /\ cache = nodes
    /\ ctr = [n \in Node |-> NoContainer]
    /\ cleaner = [n \in Node |-> "none"]
    /\ tw = TIdle
    /\ losses = 0
    /\ rel = [n \in Node |-> IF Bound THEN "bound" ELSE "unbound"]
    /\ seenRel = rel
    /\ stray = {}

----------------------------------------------------------------------------
(* The API server and its cache.                                            *)

\* A status write of node n, read as seen.
UpdateNode(n, seen, o) ==
    /\ nodes[n] = seen
    /\ nodes' = [nodes EXCEPT ![n] = [o EXCEPT !.ver = seen.ver + 1]]

WatchNode(n) ==
    /\ cache[n] # nodes[n]
    /\ cache' = [cache EXCEPT ![n] = nodes[n]]
    /\ UNCHANGED <<nodes, ctr, cleaner, tw, losses, relVars>>

\* The request controller deletes a node that has its machine.
DeleteNode(n) ==
    /\ IsRequired(nodes[n]) /\ ~nodes[n].del
    /\ nodes' = [nodes EXCEPT ![n].del = TRUE, ![n].ver = @ + 1]
    /\ UNCHANGED <<cache, ctr, cleaner, tw, losses, relVars>>

\* The scheduler gives a node its machine.
BindNode(n) ==
    /\ Exists(nodes[n]) /\ rel[n] = "unbound"
    /\ rel' = [rel EXCEPT ![n] = "bound"]
    /\ UNCHANGED <<nodes, cache, ctr, cleaner, tw, losses, seenRel, stray>>

WatchRelationship ==
    /\ seenRel # rel
    /\ seenRel' = rel
    /\ UNCHANGED <<nodes, cache, ctr, cleaner, tw, losses, rel, stray>>

----------------------------------------------------------------------------
(* The host.                                                                *)

\* The process in the container of n ends.
ContainerExit(n) ==
    /\ ctr[n].st = "running"
    /\ \E st \in {"succeeded", "failed"} : ctr' = [ctr EXCEPT ![n].st = st]
    /\ UNCHANGED <<nodes, cache, cleaner, tw, losses, relVars>>

CleanerExit(n) ==
    /\ cleaner[n] = "started"
    /\ cleaner' = [cleaner EXCEPT ![n] = "exited"]
    /\ UNCHANGED <<nodes, cache, ctr, tw, losses, relVars>>

\* Somebody removes the container of n from the host.
ContainerLost(n) ==
    /\ losses < MaxLoss /\ losses' = losses + 1
    /\ ctr[n].st # "none"
    /\ ctr' = [ctr EXCEPT ![n] = NoContainer]
    /\ UNCHANGED <<nodes, cache, cleaner, tw, relVars>>

----------------------------------------------------------------------------
(* Reconcile up to the state uninitialized.                                 *)

Reconciling(n, state) ==
    /\ tw.pc = "idle"
    /\ ~cache[n].del /\ cache[n].state = state

\* getHostMachine and requestResource find the machine of the node.
HasHost(n) == seenRel[n] = "bound"

NodeBeginPending(n) ==
    /\ Reconciling(n, Unset)
    /\ UpdateNode(n, cache[n], [cache[n] EXCEPT !.state = "pending"])
    /\ UNCHANGED <<cache, ctr, cleaner, tw, losses, relVars>>

\* reconcileStatePending, once the scheduler has bound the node.
NodePending(n) ==
    /\ Reconciling(n, "pending") /\ HasHost(n)
    /\ UpdateNode(n, cache[n], [cache[n] EXCEPT !.state = "uninitialized"])
    /\ UNCHANGED <<cache, ctr, cleaner, tw, losses, relVars>>

----------------------------------------------------------------------------
(* reconcileStateUninitialized, one pass per step.                          *)

NodeFirstPhase(n) ==
    /\ Reconciling(n, "uninitialized") /\ cache[n].phase = Unset
    /\ UpdateNode(n, cache[n], [cache[n] EXCEPT !.phase = "pending"])
    /\ UNCHANGED <<cache, ctr, cleaner, tw, losses, relVars>>

\* The node has an image to run.
Uninitialized(n) ==
    /\ Reconciling(n, "uninitialized") /\ HasHost(n)
    /\ cache[n].phase # Unset /\ cache[n].image # None

NodeCreateContainer(n) ==
    /\ Uninitialized(n) /\ ctr[n].st = "none"
    /\ ctr' = [ctr EXCEPT ![n] = [st |-> "created", image |-> cache[n].image,
                                  by |-> cache[n].claim]]
    /\ UNCHANGED <<nodes, cache, cleaner, tw, losses, relVars>>

NodeConnect(n) ==
    /\ Uninitialized(n) /\ ctr[n].st = "created"
    /\ ctr' = [ctr EXCEPT ![n].st = "connected"]
    /\ UNCHANGED <<nodes, cache, cleaner, tw, losses, relVars>>

NodeStart(n) ==
    /\ Uninitialized(n) /\ ctr[n].st = "connected"
    /\ ctr' = [ctr EXCEPT ![n].st = "running"]
    /\ UNCHANGED <<nodes, cache, cleaner, tw, losses, relVars>>

NodeRunning(n) ==
    /\ Uninitialized(n) /\ ctr[n].st = "running" /\ cache[n].phase # "running"
    /\ UpdateNode(n, cache[n], [cache[n] EXCEPT !.phase = "running"])
    /\ UNCHANGED <<cache, ctr, cleaner, tw, losses, relVars>>

\* Seeded fault: the node is ready as soon as its container is there.
NodeReady_Early(n) ==
    /\ Uninitialized(n) /\ ctr[n].st # "none"
    /\ UpdateNode(n, cache[n], [cache[n] EXCEPT !.state = "ready"])
    /\ UNCHANGED <<cache, ctr, cleaner, tw, losses, relVars>>

NodeReady(n) ==
    /\ Uninitialized(n) /\ ctr[n].st = "running" /\ cache[n].phase = "running"
    /\ UpdateNode(n, cache[n], [cache[n] EXCEPT !.state = "ready"])
    /\ UNCHANGED <<cache, ctr, cleaner, tw, losses, relVars>>

\* Here or in state ready the container is seen to have ended.
NodeFinish(n) ==
    /\ Uninitialized(n) \/ (Reconciling(n, "ready") /\ HasHost(n))
    /\ ctr[n].st \in {"succeeded", "failed"}
    /\ UpdateNode(n, cache[n], [cache[n] EXCEPT !.state = "finish", !.phase = ctr[n].st])
    /\ UNCHANGED <<cache, ctr, cleaner, tw, losses, relVars>>

\* reconcileStateReady: the container is not found.
NodeRestart(n) ==
    /\ Reconciling(n, "ready") /\ HasHost(n) /\ ctr[n].st = "none"
    /\ UpdateNode(n, cache[n], [cache[n] EXCEPT !.state = "uninitialized"])
    /\ UNCHANGED <<cache, ctr, cleaner, tw, losses, relVars>>

----------------------------------------------------------------------------
(* reconcileStateDestroy and the deletion of a node: passes of finalize,    *)
(* each of which removes the container first.  A deleted node is finalized  *)
(* while the cache shows its binding, and is done for once it does not.     *)

Finalizing(n) ==
    /\ tw.pc = "idle" /\ HasHost(n)
    /\ cache[n].del \/ cache[n].state = "destroy"

\* Seeded fault: the container is left running.
removeContainer_Keeps(n) == UNCHANGED ctr

removeContainer(n) == ctr' = [ctr EXCEPT ![n] = NoContainer]

CleanerCreate(n) ==
    /\ Finalizing(n) /\ cleaner[n] = "none"
    /\ removeContainer(n)
    /\ cleaner' = [cleaner EXCEPT ![n] = "created"]
    /\ stray' = stray \cup {m \in {n} : rel[m] = "released"}
    /\ UNCHANGED <<nodes, cache, tw, losses, rel, seenRel>>

CleanerStart(n) ==
    /\ Finalizing(n) /\ cleaner[n] = "created"
    /\ removeContainer(n)
    /\ cleaner' = [cleaner EXCEPT ![n] = "started"]
    /\ UNCHANGED <<nodes, cache, tw, losses, relVars>>

CleanerWait(n) ==
    /\ Finalizing(n) /\ cleaner[n] \in {"started", "exited"}
    /\ removeContainer(n)
    /\ tw' = [pc |-> "wait", n |-> n, obj |-> cache[n], rel |-> seenRel]
    /\ UNCHANGED <<nodes, cache, cleaner, losses, relVars>>

\* ContainerWait returns; the exit code is only reported.
CleanerDone(n) ==
    /\ tw.pc = "wait" /\ tw.n = n /\ cleaner[n] = "exited"
    /\ cleaner' = [cleaner EXCEPT ![n] = "none"]
    /\ UNCHANGED <<cache, ctr, losses, seenRel, stray>>

\* Seeded fault: the container specification is kept.
Reset_KeepsImage(o) == [o EXCEPT !.state = "uninitialized"]

\* The status reconcileStateDestroy writes: no container specification, and
\* the phase as it was.
Reset(o) == [o EXCEPT !.state = "uninitialized", !.image = None]

NodeReset(n) ==
    /\ CleanerDone(n) /\ ~tw.obj.del
    /\ UpdateNode(n, tw.obj, Reset(tw.obj))
    /\ tw' = TIdle /\ UNCHANGED rel

\* The deleted node gives its binding back: the first of two writes.
NodeRelease(n) ==
    /\ CleanerDone(n) /\ tw.obj.del
    /\ rel = tw.rel
    /\ rel' = [rel EXCEPT ![n] = "released"]
    /\ tw' = [TIdle EXCEPT !.pc = "finalizer", !.n = n, !.obj = tw.obj]
    /\ UNCHANGED nodes

\* The write of the node, or of the Relationship when it is deleted, is
\* refused after the cleaner has been removed.
NodeCleanConflict(n) ==
    /\ CleanerDone(n)
    /\ tw.obj.del \/ nodes[n] # tw.obj
    /\ tw' = TIdle /\ UNCHANGED <<nodes, rel>>

\* A deleted node without a binding is not finalized.
NodeSkip(n) ==
    /\ tw.pc = "idle" /\ ~HasHost(n)
    /\ Exists(cache[n]) /\ cache[n].del
    /\ tw' = [TIdle EXCEPT !.pc = "finalizer", !.n = n, !.obj = cache[n]]
    /\ UNCHANGED <<nodes, cache, ctr, cleaner, losses, relVars>>

\* The second write: the finalizer is removed, and the node goes.
NodeGone(n) ==
    /\ tw.pc = "finalizer" /\ tw.n = n
    /\ nodes[n] = tw.obj
    /\ nodes' = [nodes EXCEPT ![n] = Gone(@)]
    /\ tw' = TIdle
    /\ UNCHANGED <<cache, ctr, cleaner, losses, relVars>>

NodeGoneConflict(n) ==
    /\ tw.pc = "finalizer" /\ tw.n = n
    /\ nodes[n] # tw.obj
    /\ tw' = TIdle
    /\ UNCHANGED <<nodes, cache, ctr, cleaner, losses, relVars>>

NodeBegin(n) ==
    \/ NodeBeginPending(n) \/ NodePending(n)
    \/ NodeFirstPhase(n)
    \/ NodeCreateContainer(n) \/ NodeConnect(n) \/ NodeStart(n)
    \/ NodeRunning(n) \/ NodeReady(n) \/ NodeFinish(n) \/ NodeRestart(n)
    \/ CleanerCreate(n) \/ CleanerStart(n) \/ CleanerWait(n)
    \/ NodeSkip(n)

NodeEnd(n) ==
    \/ NodeReset(n) \/ NodeRelease(n) \/ NodeCleanConflict(n)
    \/ NodeGone(n) \/ NodeGoneConflict(n)
=============================================================================
