--------------------------- MODULE WorkloadProofs ---------------------------
(***************************************************************************)
(* Workloads on nodes, for every number of nodes, workloads and items.     *)
(*                                                                         *)
(* The two controllers read the nodes from one cache, and every write but  *)
(* the mark of deletion is refused unless it is based on the current       *)
(* version.  So the cache is at most one such write behind (LagOK), and    *)
(* what a controller does on the host with an old copy still fits the node *)
(* as it is (Fits, Up).                                                    *)
(* The machine of a node is given back by a write of its own, from a copy  *)
(* of another object: BindingsInv says what is known by then.              *)
(***************************************************************************)
EXTENDS Workloads, TLAPS

Claim == WorkloadRef \cup {None}

\* The node is going, or will be wiped before it is used again.
Leaving(o) == o.del \/ o.state \in {"absent", "destroy"}

\* What the cache shows, c, and how the object may be by then, o.
LagOK(c, o) ==
    /\ ~Exists(c) => ~Exists(o)
    /\ c.del => o.del \/ ~Exists(o)
    /\ c.state = "destroy" => Leaving(o) \/ (o.state = "uninitialized" /\ o.image = None)
    /\ c.state = "uninitialized" /\ c.image # None =>
          \/ Leaving(o)
          \/ /\ o.state \in {"uninitialized", "ready", "finish"}
             /\ o.image = c.image /\ o.claim = c.claim
    /\ c.state = "finish" => o = c \/ (Leaving(o) /\ o.state \in {"absent", "finish", "destroy"})

\* A later version is a higher one, and versions of one number are the same.
NotLater(c, o) == c.ver <= o.ver /\ (c.ver = o.ver => c = o)

Behind(n) == NotLater(cache[n], nodes[n]) /\ LagOK(cache[n], nodes[n])

\* The copy that the worker took along is not later than the cache; while it
\* waits for the cleaner the container is gone.
Waiting ==
    /\ tw.pc # "idle" => tw.n \in Node /\ NotLater(tw.obj, cache[tw.n])
    /\ tw.pc = "wait" => /\ tw.obj.del \/ tw.obj.state = "destroy"
                         /\ ctr[tw.n].st = "none"
    /\ tw.pc = "finalizer" => tw.obj.del

\* A container k that is there has been made for the node as it is, o.
Fits(o, k) ==
    k.st # "none" /\ ~Leaving(o) =>
        /\ o.state \in {"uninitialized", "ready", "finish"} /\ o.image # None
        /\ k.image = o.image /\ k.by = o.claim

\* The property UpHasContainer for one node, and how a node ends.
Up(o, k) ==
    /\ o.state \in {"ready", "finish"} /\ ~o.del =>
          \/ /\ k.st \in {"running", "succeeded", "failed"}
             /\ k.image = o.image /\ k.by = o.claim
             /\ o.state = "finish" => k.st = o.phase
          \/ losses > 0
    /\ o.state = "finish" => o.phase \in {"succeeded", "failed"}

NodeInv(n) == Behind(n) /\ Fits(nodes[n], ctr[n]) /\ Up(nodes[n], ctr[n])

NodeTypes == NodeTypeOK(Claim)

NodesInv == NodeTypes /\ Waiting /\ \A n \in Node : NodeInv(n)

----------------------------------------------------------------------------
Items(w) == DOMAIN Jobs[w]

Live(w) == Exists(workloads[w]) /\ ~workloads[w].del

\* The nodes of a workload are its own.
NodesNotShared ==
    \A v, w \in Workload : v # w =>
        \A i \in Items(v), j \in Items(w) : Jobs[v][i].node # Jobs[w][j].node

\* An object that is there has a UID; one that waits for its deletion has the
\* finalizer.
Whole(o) == /\ Exists(o) => o.gen >= 1
            /\ o.del => o.fin
            /\ o.fin => Exists(o)

\* A worker that has a copy of a workload at hand knows it but for a deletion.
WorkloadHeld ==
    ww.pc # "idle" =>
        /\ workloads[ww.w] \in {ww.obj, [ww.obj EXCEPT !.del = TRUE]} /\ ww.obj.fin
        /\ ww.pc = "install" => ww.obj.state = "pending" /\ ~ww.obj.del
        /\ ww.pc = "inspect" => ww.obj.state = "running" /\ ~ww.obj.del
        /\ ww.pc = "uninstall" => ww.obj.del

WorkersInv ==
    WorkloadTypeOK /\ WorkloadHeld /\ \A w \in Workload : Whole(workloads[w])

BaseInv == NodesInv /\ BindingTypeOK /\ WorkersInv

\* The node is gone or marked for deletion.
Going(o) == o.del \/ ~Exists(o)

\* Nothing of the node is on its machine, but perhaps a stray cleaner.
Vacant(n) == ctr[n].st = "none" /\ (cleaner[n] = "none" \/ n \in stray)

\* A binding is seen not before it is made, and given back once, by a node that is
\* going and known to be; no node goes before.
BindingInv(n) ==
    /\ seenRel[n] = rel[n] \/ seenRel[n] = "unbound" \/ rel[n] = "released"
    /\ IsRequired(nodes[n]) \/ nodes[n].del => seenRel[n] # "unbound"
    /\ rel[n] = "released" => Going(nodes[n]) /\ Going(cache[n]) /\ Vacant(n)
    /\ ~Exists(nodes[n]) => rel[n] = "released"

\* What the worker is about to give back or to remove is going.
Leaver ==
    /\ tw.pc = "wait" /\ tw.obj.del => Going(cache[tw.n])
    /\ tw.pc = "finalizer" => rel[tw.n] = "released"

BindingsInv == Leaver /\ \A n \in Node : BindingInv(n)

\* Nobody claims a node but for an item of his on it, and no claim is from a
\* workload that is still to come.
ClaimOf(n, o) ==
    o.claim # None =>
        /\ o.claim.gen <= workloads[o.claim.name].gen
        /\ \E i \in Items(o.claim.name) : Jobs[o.claim.name][i].node = n

\* How a node is ready and how it has finished is how its container did.
PhaseOf(n, o) ==
    /\ o.state = "ready" => o.phase = "running"
    /\ o.state = "finish" => /\ o.phase \in {"succeeded", "failed"}
                             /\ <<n, o.claim, o.phase>> \in ended

\* The node is gone, or it runs or has run the container of claim r.
Owned(r, o) ==
    \/ ~Exists(o)
    \/ /\ o.claim = r
       /\ \/ o.state \in {"uninitialized", "ready"} /\ o.phase = "running"
          \/ o.state = "finish"

\* Every end of a container is on record, and so is every result.
Counted(n) ==
    /\ ctr[n].st \in {"succeeded", "failed"} => <<n, ctr[n].by, ctr[n].st>> \in ended
    /\ PhaseOf(n, nodes[n]) /\ PhaseOf(n, cache[n])
    /\ ClaimOf(n, nodes[n]) /\ ClaimOf(n, cache[n])

RefOf(w) == Ref(w, workloads[w])

\* A node that the cache shows to be the workload's still is.
Kept(w) ==
    \A i \in Items(w) :
        Owned(RefOf(w), cache[Jobs[w][i].node]) => Owned(RefOf(w), nodes[Jobs[w][i].node])

AllOwned(w) == \A i \in Items(w) : Owned(RefOf(w), cache[Jobs[w][i].node])

\* A result that is noted is that of a container of the workload.
Noted(w, phases) ==
    \A i \in Items(w) : phases[i] \in {"succeeded", "failed"} =>
        <<Jobs[w][i].node, RefOf(w), phases[i]>> \in ended

WorkloadInv(w) ==
    /\ Live(w) => Kept(w)
    /\ Live(w) /\ workloads[w].state \in {"running", "succeeded", "failed"} => AllOwned(w)
    /\ Noted(w, workloads[w].phases)
    /\ workloads[w].state = "succeeded" =>
          \A i \in Items(w) : workloads[w].phases[i] = "succeeded"

\* What the worker has counted, and what it has noted, is so.
LoopInv ==
    /\ ww.pc = "install" => ww.count <= ww.i - 1
    /\ ww.pc = "install" /\ Live(ww.w) /\ ww.count = ww.i - 1 =>
          \A j \in 1 .. ww.i - 1 : Owned(RefOf(ww.w), cache[Jobs[ww.w][j].node])
    /\ ww.pc = "inspect" /\ Live(ww.w) => Noted(ww.w, ww.phases)

WorkInv ==
    /\ BaseInv
    /\ \A n \in Node : Counted(n)
    /\ \A w \in Workload : WorkloadInv(w)
    /\ LoopInv

----------------------------------------------------------------------------
(* Claims, where a workload is deleted only when it has finished.           *)

\* Nobody gets a node that a deleted workload has released before that workload is
\* gone: nobody else wants it, or the worker does not stop on its way.
NobodyBetween == NodesNotShared \/ MaxCrash = 0

\* A result that is noted is still to be seen.
Settled(w, phases) ==
    \A i \in Items(w) : phases[i] \in {"succeeded", "failed"} =>
        /\ Owned(RefOf(w), cache[Jobs[w][i].node])
        /\ cache[Jobs[w][i].node].state \in {"absent", "finish"}

\* A claim is of a workload that is there, unless the node is going.
ClaimHeld(n) ==
    /\ nodes[n].claim # None /\ ~nodes[n].del =>
          /\ Exists(workloads[nodes[n].claim.name])
          /\ workloads[nodes[n].claim.name].gen = nodes[n].claim.gen
    /\ ~Exists(nodes[n]) => nodes[n].claim = None

AtUninstall(w) == ww.pc = "uninstall" /\ ww.w = w

\* A node of a deleted workload is free and stays so until the workload is gone, or
\* the workload holds it and can release it now, unless it is going.
Releasable(w, n) ==
    \/ /\ nodes[n].claim = None
       /\ ~Exists(nodes[n]) \/ NodesNotShared \/ AtUninstall(w)
    \/ /\ nodes[n].claim = RefOf(w)
       /\ nodes[n].del \/ (nodes[n].state = "finish" /\ nodes[n] = cache[n])

Disposed(w) ==
    /\ Live(w) => Settled(w, workloads[w].phases)
    /\ Finished(w) => workloads[w].fin
    /\ Finished(w) =>
          \A i \in Items(w) : workloads[w].phases[i] \in {"succeeded", "failed"}
    /\ workloads[w].del =>
          Finished(w) /\ \A i \in Items(w) : Releasable(w, Jobs[w][i].node)

GivenUp(w, o) == o.claim = None \/ (o.claim = RefOf(w) /\ o.del)

LoopRelease ==
    /\ ww.pc = "inspect" => Settled(ww.w, ww.phases)
    /\ ww.pc = "uninstall" => \A j \in 1 .. ww.i - 1 : GivenUp(ww.w, nodes[Jobs[ww.w][j].node])

ReleaseInv ==
    /\ \A n \in Node : ClaimHeld(n)
    /\ \A w \in Workload : Disposed(w)
    /\ LoopRelease
    /\ crashes \in Nat

----------------------------------------------------------------------------
(* Nodes and their containers.                                              *)

\* Lemma: what nobody has written is no state or phase that somebody writes.
LEMMA UnsetIsNone ==
    Unset \notin {"absent", "none", "pending", "uninitialized", "ready", "finish", "destroy",
                  "running", "succeeded", "failed"}
  BY DEF Unset

\* Nothing happens to node m.
Still(m) ==
    nodes'[m] = nodes[m] /\ cache'[m] = cache[m] /\ ctr'[m] = ctr[m] /\ cleaner'[m] = cleaner[m]

\* Lemma: the invariant is kept by a step that concerns one node, when it is kept
\* there.
LEMMA OneNode ==
    ASSUME NodesInv, NEW n \in Node, \A m \in Node \ {n} : Still(m),
           losses' >= losses, NodeTypes', Waiting', NodeInv(n)'
    PROVE NodesInv'
  <1>1. ASSUME NEW m \in Node, m # n PROVE NodeInv(m)'
    <2>1. Still(m) /\ NodeInv(m)
      BY <1>1 DEF NodesInv
    <2>2. Behind(m)' /\ Fits(nodes'[m], ctr'[m])
      BY <2>1 DEF NodeInv, Still, Behind
    <2>3. losses \in Nat /\ losses' \in Nat
      BY ContainerLifeAssumption DEF NodesInv, NodeTypes, NodeTypeOK
    <2>4. Up(nodes[m], ctr[m])'
      BY <2>1, <2>3 DEF NodeInv, Still, Up
    <2> QED
      BY <2>2, <2>4 DEF NodeInv
  <1> QED
    BY <1>1 DEF NodesInv

\* Lemma: a copy of its own version is the object.
LEMMA CopyIsCurrent ==
    ASSUME NodesInv, tw.pc # "idle", nodes[tw.n] = tw.obj
    PROVE cache[tw.n] = nodes[tw.n]
  <1>1. tw.n \in Node /\ tw.obj \in NodeObject(Claim)
    BY DEF NodesInv, NodeTypes, NodeTypeOK, Waiting
  <1>2. cache[tw.n] \in NodeObject(Claim) /\ nodes[tw.n] \in NodeObject(Claim)
    BY <1>1 DEF NodesInv, NodeTypes, NodeTypeOK
  <1>3. cache[tw.n].ver \in Nat /\ nodes[tw.n].ver \in Nat
    BY <1>2 DEF NodeObject
  <1>4. NotLater(tw.obj, cache[tw.n]) /\ NotLater(cache[tw.n], nodes[tw.n])
    BY <1>1 DEF NodesInv, Waiting, NodeInv, Behind
  <1> QED
    BY <1>3, <1>4 DEF NotLater

\* Lemma: what a status write changes is kept apart from the version.
LEMMA NewVersion ==
    ASSUME NEW o \in NodeObject(Claim), NEW v \in Nat, NEW q, q = [o EXCEPT !.ver = v]
    PROVE /\ q \in NodeObject(Claim) /\ q.ver = v
          /\ q.state = o.state /\ q.phase = o.phase /\ q.image = o.image
          /\ q.claim = o.claim /\ q.del = o.del
  BY DEF NodeObject

\* Lemma: the invariant is kept by a status write that is based on the current
\* version, when the new object follows the old one and the container fits.
LEMMA NodeWritten ==
    ASSUME NodesInv, NEW n \in Node, NEW o \in NodeObject(Claim),
           UpdateNode(n, cache[n], o), UNCHANGED <<cache, ctr, cleaner, tw, losses>>,
           Exists(nodes[n]), Exists(o), o.del = nodes[n].del,
           nodes[n].state # "destroy",
           nodes[n].state = "uninitialized" /\ nodes[n].image # None =>
              \/ o.state = "destroy"
              \/ /\ o.state \in {"uninitialized", "ready", "finish"}
                 /\ o.image = nodes[n].image /\ o.claim = nodes[n].claim,
           nodes[n].state = "finish" => o.state = "destroy",
           Fits(o, ctr[n]), Up(o, ctr[n])
    PROVE NodesInv'
  <1>1. nodes[n] = cache[n] /\ nodes[n] \in NodeObject(Claim) /\ nodes[n].ver \in Nat
    BY DEF UpdateNode, NodesInv, NodeTypes, NodeTypeOK, NodeObject
  <1>2. PICK q : q = [o EXCEPT !.ver = nodes[n].ver + 1]
    OBVIOUS
  <1>3. /\ q \in NodeObject(Claim) /\ q.ver = nodes[n].ver + 1
        /\ q.state = o.state /\ q.phase = o.phase /\ q.image = o.image
        /\ q.claim = o.claim /\ q.del = o.del
    <2>1. PICK v \in Nat : v = nodes[n].ver + 1
      BY <1>1
    <2> QED
      BY <1>2, <2>1, NewVersion
  <1>4. nodes' = [nodes EXCEPT ![n] = q]
    BY <1>1, <1>2 DEF UpdateNode
  <1>5. nodes'[n] = q /\ \A m \in Node \ {n} : nodes'[m] = nodes[m]
    BY <1>4 DEF NodesInv, NodeTypes, NodeTypeOK
  <1>6. NodeTypes'
    BY <1>3, <1>4 DEF NodesInv, NodeTypes, NodeTypeOK
  <1>7. Waiting'
    BY DEF NodesInv, Waiting
  <1>8. Behind(n)'
    <2>1. NotLater(cache[n], q)
      BY <1>1, <1>3 DEF NotLater
    <2>2. LagOK(cache[n], q)
      BY <1>1, <1>3 DEF LagOK, Leaving, Exists
    <2> QED
      BY <1>5, <2>1, <2>2 DEF Behind
  <1>9. Fits(q, ctr[n])
    BY <1>3 DEF Fits, Leaving
  <1>10. Up(nodes[n], ctr[n])'
    BY <1>3, <1>5 DEF Up
  <1>11. NodeInv(n)' /\ \A m \in Node \ {n} : Still(m)
    BY <1>5, <1>8, <1>9, <1>10 DEF NodeInv, Still
  <1>12. losses' >= losses
    BY ContainerLifeAssumption DEF NodesInv, NodeTypes, NodeTypeOK
  <1> QED
    BY <1>6, <1>7, <1>11, <1>12, OneNode

\* Lemma: the status writes of Reconcile, of a node that is not wiped.
LEMMA NodeStatusKeeps ==
    ASSUME NodesInv, NEW n \in Node,
           \/ NodeBeginPending(n) \/ NodePending(n) \/ NodeFirstPhase(n)
           \/ NodeRunning(n) \/ NodeReady(n) \/ NodeFinish(n) \/ NodeRestart(n)
    PROVE NodesInv'
  <1> DEFINE c == cache[n]
             k == ctr[n]
  <1>1. c \in NodeObject(Claim) /\ k.st \in {"none", "created", "connected", "running", "succeeded", "failed"}
    BY DEF NodesInv, NodeTypes, NodeTypeOK
  <1>2. UNCHANGED <<cache, ctr, cleaner, tw, losses>> /\ Exists(nodes[n]) /\ ~c.del
    <2>1. UNCHANGED <<cache, ctr, cleaner, tw, losses>> /\ ~c.del /\ nodes[n] = c
      BY DEF NodeBeginPending, NodePending, NodeFirstPhase, NodeRunning, NodeReady, NodeFinish,
             NodeRestart, Uninitialized, Reconciling, UpdateNode
    <2>2. c.state \in {Unset, "pending", "uninitialized", "ready"}
      BY DEF NodeBeginPending, NodePending, NodeFirstPhase, NodeRunning, NodeReady, NodeFinish,
             NodeRestart, Uninitialized, Reconciling
    <2> QED
      BY <2>1, <2>2, UnsetIsNone DEF Exists
  <1>3. nodes[n] = c /\ Fits(c, k) /\ Up(c, k)
    BY DEF NodeBeginPending, NodePending, NodeFirstPhase, NodeRunning, NodeReady, NodeFinish,
           NodeRestart, UpdateNode, NodesInv, NodeInv
  <1>4. CASE NodeBeginPending(n)
    <2> DEFINE o == [c EXCEPT !.state = "pending"]
    <2>1. c.state = Unset
      BY <1>4 DEF NodeBeginPending, Reconciling
    <2>2. /\ o \in NodeObject(Claim) /\ o.del = c.del /\ o.state = "pending"
          /\ Fits(o, k) /\ Up(o, k)
      BY <1>1, <1>2, <1>3, <2>1, UnsetIsNone DEF NodeObject, Fits, Up, Leaving
    <2> HIDE DEF o
    <2> QED
      BY <1>2, <1>3, <1>4, <2>1, <2>2, UnsetIsNone, NodeWritten DEF NodeBeginPending, Exists, o
  <1>5. CASE NodePending(n)
    <2> DEFINE o == [c EXCEPT !.state = "uninitialized"]
    <2>1. c.state = "pending"
      BY <1>5 DEF NodePending, Reconciling
    <2>2. /\ o \in NodeObject(Claim) /\ o.del = c.del /\ o.state = "uninitialized"
          /\ Fits(o, k) /\ Up(o, k)
      BY <1>1, <1>2, <1>3, <2>1 DEF NodeObject, Fits, Up, Leaving
    <2> HIDE DEF o
    <2> QED
      BY <1>2, <1>3, <1>5, <2>1, <2>2, NodeWritten DEF NodePending, Exists, o
  <1>6. CASE NodeFirstPhase(n) \/ NodeRunning(n)
    <2>1. PICK st \in {"pending", "running"} : UpdateNode(n, cache[n], [c EXCEPT !.phase = st])
      BY <1>6 DEF NodeFirstPhase, NodeRunning
    <2> DEFINE o == [c EXCEPT !.phase = st]
    <2>2. c.state = "uninitialized"
      BY <1>6 DEF NodeFirstPhase, NodeRunning, Uninitialized, Reconciling
    <2>3. /\ o \in NodeObject(Claim) /\ o.del = c.del /\ o.state = "uninitialized"
          /\ o.image = c.image /\ o.claim = c.claim
          /\ Fits(o, k) /\ Up(o, k)
      BY <1>1, <1>2, <1>3, <2>2 DEF NodeObject, Fits, Up, Leaving
    <2> HIDE DEF o
    <2> QED
      BY <1>2, <1>3, <2>1, <2>2, <2>3, NodeWritten DEF Exists, o
  <1>7. CASE NodeReady(n)
    <2> DEFINE o == [c EXCEPT !.state = "ready"]
    <2>1. c.state = "uninitialized" /\ c.image # None /\ k.st = "running"
      BY <1>7 DEF NodeReady, Uninitialized, Reconciling
    <2>2. k.image = c.image /\ k.by = c.claim
      BY <1>2, <1>3, <2>1 DEF Fits, Leaving
    <2>3. /\ o \in NodeObject(Claim) /\ o.del = c.del /\ o.state = "ready"
          /\ o.image = c.image /\ o.claim = c.claim
      BY <1>1 DEF NodeObject
    <2> HIDE DEF o
    <2>4. Fits(o, k) /\ Up(o, k)
      BY <2>1, <2>2, <2>3 DEF Fits, Up, Leaving
    <2> QED
      BY <1>2, <1>3, <1>7, <2>1, <2>3, <2>4, NodeWritten DEF NodeReady, Exists, o
  <1>8. CASE NodeFinish(n)
    <2> DEFINE o == [c EXCEPT !.state = "finish", !.phase = ctr[n].st]
    <2>1. /\ (c.state = "uninitialized" /\ c.image # None) \/ c.state = "ready"
          /\ k.st \in {"succeeded", "failed"}
      BY <1>8 DEF NodeFinish, Uninitialized, Reconciling
    <2>2. c.image # None /\ k.image = c.image /\ k.by = c.claim
      BY <1>2, <1>3, <2>1 DEF Fits, Leaving
    <2>3. /\ o \in NodeObject(Claim) /\ o.del = c.del /\ o.state = "finish" /\ o.phase = k.st
          /\ o.image = c.image /\ o.claim = c.claim
      BY <1>1, <2>1 DEF NodeObject
    <2> HIDE DEF o
    <2>4. Fits(o, k) /\ Up(o, k)
      BY <2>1, <2>2, <2>3 DEF Fits, Up, Leaving
    <2> QED
      BY <1>2, <1>3, <1>8, <2>1, <2>3, <2>4, NodeWritten DEF NodeFinish, Exists, o
  <1>9. CASE NodeRestart(n)
    <2> DEFINE o == [c EXCEPT !.state = "uninitialized"]
    <2>1. c.state = "ready" /\ k.st = "none"
      BY <1>9 DEF NodeRestart, Reconciling
    <2>2. /\ o \in NodeObject(Claim) /\ o.del = c.del /\ o.state = "uninitialized"
          /\ Fits(o, k) /\ Up(o, k)
      BY <1>1, <2>1 DEF NodeObject, Fits, Up
    <2> HIDE DEF o
    <2> QED
      BY <1>2, <1>3, <1>9, <2>1, <2>2, NodeWritten DEF NodeRestart, Exists, o
  <1> QED
    BY <1>4, <1>5, <1>6, <1>7, <1>8, <1>9

\* Lemma: the invariant is kept by a step that leaves the objects alone and does
\* something to the container and the cleaner of one node, when they still fit.
LEMMA HostStep ==
    ASSUME NodesInv, NEW n \in Node, UNCHANGED <<nodes, cache>>, NodeTypes', Waiting',
           \A m \in Node \ {n} : ctr'[m] = ctr[m] /\ cleaner'[m] = cleaner[m],
           losses' >= losses,
           Fits(nodes[n], ctr'[n]), Up(nodes[n], ctr[n])'
    PROVE NodesInv'
  <1>1. NodeInv(n)' /\ \A m \in Node \ {n} : Still(m)
    BY DEF NodesInv, NodeInv, Behind, Still
  <1> QED
    BY <1>1, OneNode

\* Lemma: Reconcile makes the container, connects and starts it.  It does so with
\* what the cache shows, which still fits the node, or the node is leaving.
LEMMA NodeRunKeeps ==
    ASSUME NodesInv, NEW n \in Node, NodeCreateContainer(n) \/ NodeConnect(n) \/ NodeStart(n)
    PROVE NodesInv'
  <1> DEFINE c == cache[n]
             k == ctr[n]
             o == nodes[n]
  <1>1. /\ UNCHANGED <<nodes, cache, cleaner, tw, losses>> /\ tw.pc = "idle"
        /\ c.state = "uninitialized" /\ c.image # None /\ ~c.del
    BY DEF NodeCreateContainer, NodeConnect, NodeStart, Uninitialized, Reconciling
  <1>2. c \in NodeObject(Claim) /\ k.st \notin {"running", "succeeded", "failed"}
        /\ LagOK(c, o) /\ Fits(o, k) /\ Up(o, k)
    BY DEF NodeCreateContainer, NodeConnect, NodeStart, NodesInv, NodeTypes, NodeTypeOK, NodeInv,
           Behind
  <1>3. PICK q : /\ ctr' = [ctr EXCEPT ![n] = q]
                 /\ q \in [st : {"created", "connected", "running"}, image : Image \cup {None},
                           by : Claim]
                 /\ \/ q.image = c.image /\ q.by = c.claim
                    \/ k.st # "none" /\ q.image = k.image /\ q.by = k.by
    <2>1. CASE NodeCreateContainer(n)
      <3>1. PICK new : new = [st |-> "created", image |-> c.image, by |-> c.claim]
        OBVIOUS
      <3>2. c.image \in Image \cup {None} /\ c.claim \in Claim
        BY <1>2 DEF NodeObject
      <3>3. /\ new.image = c.image /\ new.by = c.claim
            /\ new \in [st : {"created", "connected", "running"}, image : Image \cup {None},
                        by : Claim]
        BY <3>1, <3>2
      <3>4. ctr' = [ctr EXCEPT ![n] = new]
        BY <2>1, <3>1 DEF NodeCreateContainer
      <3> QED
        BY <3>3, <3>4
    <2>2. CASE NodeConnect(n) \/ NodeStart(n)
      <3>1. PICK st \in {"connected", "running"} : ctr' = [ctr EXCEPT ![n].st = st]
        BY <2>2 DEF NodeConnect, NodeStart
      <3>2. k \in [st : {"none", "created", "connected", "running", "succeeded", "failed"},
                   image : Image \cup {None}, by : Claim] /\ k.st # "none"
        BY <2>2 DEF NodeConnect, NodeStart, NodesInv, NodeTypes, NodeTypeOK
      <3>3. ctr' = [ctr EXCEPT ![n] = [k EXCEPT !.st = st]]
        BY <3>1 DEF NodesInv, NodeTypes, NodeTypeOK
      <3>4. PICK new : new = [k EXCEPT !.st = st]
        OBVIOUS
      <3>5. /\ new.image = k.image /\ new.by = k.by
            /\ new \in [st : {"created", "connected", "running"}, image : Image \cup {None},
                        by : Claim]
        BY <3>2, <3>4
      <3> QED
        BY <3>2, <3>3, <3>4, <3>5
    <2> QED
      BY <2>1, <2>2
  <1>4. ctr'[n] = q /\ \A m \in Node \ {n} : ctr'[m] = ctr[m]
    BY <1>3 DEF NodesInv, NodeTypes, NodeTypeOK
  <1>5. NodeTypes'
    BY <1>1, <1>3 DEF NodesInv, NodeTypes, NodeTypeOK
  <1>6. Waiting'
    BY <1>1 DEF Waiting
  <1>7. Fits(o, q)
    BY <1>1, <1>2, <1>3 DEF LagOK, Fits
  <1>8. Up(nodes[n], ctr[n])'
    BY <1>1, <1>2 DEF Up
  <1>9. losses' >= losses
    BY <1>1, ContainerLifeAssumption DEF NodesInv, NodeTypes, NodeTypeOK
  <1> QED
    BY <1>1, <1>4, <1>5, <1>6, <1>7, <1>8, <1>9, HostStep

\* Lemma: the container of a node ends, or somebody removes it.
LEMMA ContainerEndKeeps ==
    ASSUME NodesInv, NEW n \in Node, ContainerExit(n) \/ ContainerLost(n)
    PROVE NodesInv'
  <1> DEFINE k == ctr[n]
             o == nodes[n]
  <1>1. UNCHANGED <<nodes, cache, cleaner, tw>> /\ losses \in Nat
    BY ContainerLifeAssumption
    DEF ContainerExit, ContainerLost, NodesInv, NodeTypes, NodeTypeOK
  <1>2. /\ k \in [st : {"none", "created", "connected", "running", "succeeded", "failed"},
                  image : Image \cup {None}, by : Claim]
        /\ Fits(o, k) /\ Up(o, k)
    BY DEF NodesInv, NodeTypes, NodeTypeOK, NodeInv
  <1>3. CASE ContainerExit(n)
    <2>1. PICK st \in {"succeeded", "failed"} : ctr' = [ctr EXCEPT ![n].st = st]
      BY <1>3 DEF ContainerExit
    <2>2. PICK q : q = [k EXCEPT !.st = st]
      OBVIOUS
    <2>3. /\ ctr' = [ctr EXCEPT ![n] = q] /\ k.st = "running" /\ losses' = losses
          /\ q.st = st /\ q.image = k.image /\ q.by = k.by
          /\ q \in [st : {"none", "created", "connected", "running", "succeeded", "failed"},
                    image : Image \cup {None}, by : Claim]
      BY <1>2, <1>3, <2>1, <2>2 DEF ContainerExit, NodesInv, NodeTypes, NodeTypeOK
    <2>4. ctr'[n] = q /\ \A m \in Node \ {n} : ctr'[m] = ctr[m]
      BY <2>3 DEF NodesInv, NodeTypes, NodeTypeOK
    <2>5. NodeTypes' /\ Waiting'
      BY <1>1, <2>3, <2>4 DEF NodesInv, NodeTypes, NodeTypeOK, Waiting
    <2>6. Fits(o, q)
      BY <1>2, <2>3 DEF Fits
    <2>7. Up(nodes[n], ctr[n])'
      BY <1>1, <1>2, <2>3, <2>4 DEF Up
    <2> QED
      BY <1>1, <2>3, <2>4, <2>5, <2>6, <2>7, HostStep
  <1>4. CASE ContainerLost(n)
    <2>1. ctr' = [ctr EXCEPT ![n] = NoContainer] /\ losses' = losses + 1 /\ losses < MaxLoss
      BY <1>4 DEF ContainerLost
    <2>2. /\ NoContainer.st = "none"
          /\ NoContainer \in
               [st : {"none", "created", "connected", "running", "succeeded", "failed"},
                image : Image \cup {None}, by : Claim]
      BY DEF NoContainer, Claim
    <2>3. ctr'[n] = NoContainer /\ \A m \in Node \ {n} : ctr'[m] = ctr[m]
      BY <2>1 DEF NodesInv, NodeTypes, NodeTypeOK
    <2>4. NodeTypes' /\ Waiting'
      BY <1>1, <2>1, <2>2, <2>3, ContainerLifeAssumption
      DEF NodesInv, NodeTypes, NodeTypeOK, Waiting
    <2>5. Fits(o, NoContainer)
      BY <2>2 DEF Fits
    <2>6. Up(nodes[n], ctr[n])'
      BY <1>1, <1>2, <2>1 DEF Up
    <2>7. losses' >= losses
      BY <1>1, <2>1
    <2> QED
      BY <1>1, <2>3, <2>4, <2>5, <2>6, <2>7, HostStep
  <1> QED
    BY <1>3, <1>4

\* Lemma: a cleaner ends.
LEMMA CleanerExitKeeps ==
    ASSUME NodesInv, NEW n \in Node, CleanerExit(n)
    PROVE NodesInv'
  <1>1. /\ UNCHANGED <<nodes, cache, ctr, tw, losses>> /\ cleaner[n] # "none"
        /\ cleaner' = [cleaner EXCEPT ![n] = "exited"]
    BY DEF CleanerExit
  <1>2. NodeTypes' /\ Waiting' /\ \A m \in Node \ {n} : cleaner'[m] = cleaner[m]
    BY <1>1 DEF NodesInv, NodeTypes, NodeTypeOK, Waiting
  <1>3. Fits(nodes[n], ctr[n]) /\ Up(nodes[n], ctr[n])'
    BY <1>1 DEF NodesInv, NodeInv, Up
  <1>4. losses' >= losses
    BY <1>1, ContainerLifeAssumption DEF NodesInv, NodeTypes, NodeTypeOK
  <1> QED
    BY <1>1, <1>2, <1>3, <1>4, HostStep

\* Lemma: a pass of finalize removes the container.  The cache says that the node
\* is to be wiped, so that it is not up, however far the cache is behind.
LEMMA FinalizeKeeps ==
    ASSUME NodesInv, BindingTypeOK, NEW n \in Node,
           CleanerCreate(n) \/ CleanerStart(n) \/ CleanerWait(n)
    PROVE NodesInv'
  <1> DEFINE c == cache[n]
             o == nodes[n]
  <1>1. /\ UNCHANGED <<nodes, cache, losses>> /\ tw.pc = "idle"
        /\ c.del \/ c.state = "destroy"
        /\ ctr' = [ctr EXCEPT ![n] = NoContainer]
    BY DEF CleanerCreate, CleanerStart, CleanerWait, Finalizing, removeContainer
  <1>2. /\ NoContainer.st = "none"
        /\ NoContainer \in
             [st : {"none", "created", "connected", "running", "succeeded", "failed"},
              image : Image \cup {None}, by : Claim]
    BY DEF NoContainer, Claim
  <1>3. ctr'[n] = NoContainer /\ \A m \in Node \ {n} : ctr'[m] = ctr[m]
    BY <1>1 DEF NodesInv, NodeTypes, NodeTypeOK
  <1>4. /\ cleaner' \in [Node -> {"none", "created", "started", "exited"}]
        /\ \A m \in Node \ {n} : cleaner'[m] = cleaner[m]
    BY DEF CleanerCreate, CleanerStart, CleanerWait, NodesInv, NodeTypes, NodeTypeOK
  <1>5. c \in NodeObject(Claim) /\ LagOK(c, o) /\ Up(o, ctr[n])
    BY DEF NodesInv, NodeTypes, NodeTypeOK, NodeInv, Behind
  <1>6. /\ tw' \in [pc : {"idle", "wait", "finalizer"}, n : Node \cup {None},
                   obj : NodeObject(Claim), rel : Bindings]
        /\ Waiting'
    <2>1. CASE UNCHANGED tw
      BY <1>1, <2>1 DEF NodesInv, NodeTypes, NodeTypeOK, Waiting
    <2>2. CASE tw' = [pc |-> "wait", n |-> n, obj |-> c, rel |-> seenRel]
      <3>1. NotLater(c, c)
        BY <1>5 DEF NotLater, NodeObject
      <3>2. tw'.n = n /\ tw'.obj = c
        BY <2>2
      <3> QED
        BY <1>1, <1>2, <1>3, <1>5, <2>2, <3>1, <3>2 DEF Waiting, BindingTypeOK
    <2> QED
      BY <2>1, <2>2 DEF CleanerCreate, CleanerStart, CleanerWait
  <1>7. NodeTypes'
    BY <1>1, <1>2, <1>4, <1>6 DEF NodesInv, NodeTypes, NodeTypeOK
  <1>8. Fits(o, NoContainer)
    BY <1>2 DEF Fits
  <1>9. Up(nodes[n], ctr[n])'
    BY <1>1, <1>5 DEF LagOK, Leaving, Exists, Up
  <1>10. losses' >= losses
    BY <1>1, ContainerLifeAssumption DEF NodesInv, NodeTypes, NodeTypeOK
  <1> QED
    BY <1>1, <1>3, <1>4, <1>6, <1>7, <1>8, <1>9, <1>10, HostStep

\* Lemma: the worker comes back from its wait, or removes the finalizer.  When a
\* write of the node is accepted the cache is at the version that was read, and
\* nothing runs on a node that is reset.
LEMMA NodeEndKeeps ==
    ASSUME NodesInv, NEW n \in Node, NodeEnd(n) \/ NodeSkip(n)
    PROVE NodesInv'
  <1> DEFINE t == tw.obj
             o == nodes[n]
  <1>1. /\ UNCHANGED <<cache, ctr, losses>>
        /\ cleaner' = cleaner \/ cleaner' = [cleaner EXCEPT ![n] = "none"]
    BY DEF NodeEnd, NodeReset, NodeRelease, NodeCleanConflict, NodeSkip, NodeGone,
           NodeGoneConflict, CleanerDone
  <1>2. /\ cleaner' \in [Node -> {"none", "created", "started", "exited"}]
        /\ \A m \in Node \ {n} : cleaner'[m] = cleaner[m]
    BY <1>1 DEF NodesInv, NodeTypes, NodeTypeOK
  <1>3. t \in NodeObject(Claim) /\ cache[n] \in NodeObject(Claim)
    BY DEF NodesInv, NodeTypes, NodeTypeOK
  <1>4. /\ TIdle \in [pc : {"idle", "wait", "finalizer"}, n : Node \cup {None},
                      obj : NodeObject(Claim), rel : Bindings]
        /\ TIdle.pc = "idle"
    BY DEF TIdle, NewNode, NodeObject, Claim, Unbound, Bindings
  <1>5. losses' >= losses
    BY <1>1, ContainerLifeAssumption DEF NodesInv, NodeTypes, NodeTypeOK
  <1>6. CASE NodeCleanConflict(n) \/ NodeGoneConflict(n)
    <2>1. UNCHANGED nodes /\ tw' = TIdle
      BY <1>6 DEF NodeCleanConflict, NodeGoneConflict
    <2>2. NodeTypes' /\ Waiting'
      BY <1>1, <1>2, <1>4, <2>1 DEF NodesInv, NodeTypes, NodeTypeOK, Waiting
    <2>3. Fits(o, ctr[n]) /\ Up(nodes[n], ctr[n])'
      BY <1>1, <2>1 DEF NodesInv, NodeInv, Up
    <2> QED
      BY <1>1, <1>2, <1>5, <2>1, <2>2, <2>3, HostStep
  <1>7. CASE NodeRelease(n) \/ NodeSkip(n)
    <2>1. PICK c \in NodeObject(Claim) :
             /\ tw' = [TIdle EXCEPT !.pc = "finalizer", !.n = n, !.obj = c]
             /\ c.del /\ NotLater(c, cache[n])
      <3>1. CASE NodeRelease(n)
        <4>1. NotLater(t, cache[n])
          BY <3>1 DEF NodeRelease, CleanerDone, NodesInv, Waiting
        <4> QED
          BY <1>3, <3>1, <4>1 DEF NodeRelease
      <3>2. CASE NodeSkip(n)
        <4>1. NotLater(cache[n], cache[n])
          BY <1>3 DEF NotLater, NodeObject
        <4> QED
          BY <1>3, <3>2, <4>1 DEF NodeSkip
      <3> QED
        BY <1>7, <3>1, <3>2
    <2>2. UNCHANGED nodes
      BY <1>7 DEF NodeRelease, NodeSkip
    <2>3. /\ tw' \in [pc : {"idle", "wait", "finalizer"}, n : Node \cup {None},
                      obj : NodeObject(Claim), rel : Bindings]
          /\ tw'.pc = "finalizer" /\ tw'.n = n /\ tw'.obj = c
      BY <1>4, <2>1
    <2>4. NodeTypes' /\ Waiting'
      BY <1>1, <1>2, <2>1, <2>2, <2>3 DEF NodesInv, NodeTypes, NodeTypeOK, Waiting
    <2>5. Fits(o, ctr[n]) /\ Up(nodes[n], ctr[n])'
      BY <1>1, <2>2 DEF NodesInv, NodeInv, Up
    <2> QED
      BY <1>1, <1>2, <1>5, <2>2, <2>4, <2>5, HostStep
  <1>8. ASSUME NEW q \in NodeObject(Claim), tw.pc # "idle", tw.n = n, tw' = TIdle,
               o = t, nodes' = [nodes EXCEPT ![n] = q], q.ver = o.ver + 1,
               \/ t.del /\ q.state = "absent"
               \/ /\ tw.pc = "wait" /\ ~t.del
                  /\ q.state = "uninitialized" /\ q.image = None
        PROVE NodesInv'
    <2>1. cache[n] = o /\ o.ver \in Nat
      BY <1>3, <1>8, CopyIsCurrent DEF NodeObject
    <2>2. nodes'[n] = q /\ \A m \in Node \ {n} : nodes'[m] = nodes[m]
      BY <1>8 DEF NodesInv, NodeTypes, NodeTypeOK
    <2>3. NodeTypes' /\ Waiting'
      BY <1>1, <1>2, <1>4, <1>8 DEF NodesInv, NodeTypes, NodeTypeOK, Waiting
    <2>4. NotLater(o, q)
      BY <1>8, <2>1 DEF NotLater
    <2>5. LagOK(o, q)
      <3>1. tw.pc = "wait" => t.del \/ t.state = "destroy"
        BY DEF NodesInv, Waiting
      <3>2. t.del \in BOOLEAN
        BY <1>3 DEF NodeObject
      <3> QED
        BY <1>8, <3>1, <3>2 DEF LagOK, Leaving, Exists
    <2>6. Behind(n)'
      BY <1>1, <2>1, <2>2, <2>4, <2>5 DEF Behind
    <2>7. Fits(q, ctr[n])
      BY <1>8 DEF Fits, Leaving, NodesInv, Waiting
    <2>8. Up(nodes[n], ctr[n])'
      BY <1>8, <2>2 DEF Up
    <2> QED
      BY <1>1, <1>2, <1>5, <2>2, <2>3, <2>6, <2>7, <2>8, OneNode DEF NodeInv, Still
  <1>9. CASE NodeReset(n)
    <2>1. /\ o = t /\ ~t.del /\ nodes' = [nodes EXCEPT ![n] = [Reset(t) EXCEPT !.ver = t.ver + 1]]
          /\ tw.pc = "wait" /\ tw.n = n /\ tw' = TIdle
      BY <1>9 DEF NodeReset, CleanerDone, UpdateNode
    <2>2. PICK q : q = [Reset(t) EXCEPT !.ver = t.ver + 1]
      OBVIOUS
    <2>3. t.ver + 1 \in Nat
      BY <1>3 DEF NodeObject
    <2>4. q \in NodeObject(Claim) /\ q.ver = t.ver + 1 /\ q.state = "uninitialized" /\ q.image = None
      BY <1>3, <2>2, <2>3 DEF NodeObject, Reset
    <2> QED
      BY <1>8, <2>1, <2>2, <2>4
  <1>10. CASE NodeGone(n)
    <2>1. /\ o = t /\ t.del /\ nodes' = [nodes EXCEPT ![n] = Gone(t)]
          /\ tw.pc = "finalizer" /\ tw.n = n /\ tw' = TIdle
      BY <1>10 DEF NodeGone, NodesInv, Waiting
    <2>2. PICK q : q = Gone(t)
      OBVIOUS
    <2>3. t.ver + 1 \in Nat
      BY <1>3 DEF NodeObject
    <2>4. q \in NodeObject(Claim) /\ q.ver = t.ver + 1 /\ q.state = "absent"
      BY <2>2, <2>3 DEF NodeObject, Gone, NewNode, Claim
    <2> QED
      BY <1>8, <2>1, <2>2, <2>4
  <1> QED
    BY <1>6, <1>7, <1>9, <1>10 DEF NodeEnd

\* Lemma: the cache catches up.
LEMMA WatchKeeps ==
    ASSUME NodesInv, NEW n \in Node, WatchNode(n)
    PROVE NodesInv'
  <1>1. UNCHANGED <<nodes, ctr, cleaner, tw, losses>> /\ cache' = [cache EXCEPT ![n] = nodes[n]]
    BY DEF WatchNode
  <1>2. nodes[n] \in NodeObject(Claim) /\ cache[n] \in NodeObject(Claim)
    BY DEF NodesInv, NodeTypes, NodeTypeOK
  <1>3. cache'[n] = nodes[n] /\ \A m \in Node \ {n} : cache'[m] = cache[m]
    BY <1>1 DEF NodesInv, NodeTypes, NodeTypeOK
  <1>4. NodeTypes'
    BY <1>1, <1>2 DEF NodesInv, NodeTypes, NodeTypeOK
  <1>5. Waiting'
    <2>1. CASE tw.pc # "idle" /\ tw.n = n
      <3>1. NotLater(tw.obj, cache[n]) /\ NotLater(cache[n], nodes[n])
        BY <2>1 DEF NodesInv, Waiting, NodeInv, Behind
      <3>2. tw.obj.ver \in Nat /\ cache[n].ver \in Nat /\ nodes[n].ver \in Nat
        BY <1>2 DEF NodesInv, NodeTypes, NodeTypeOK, NodeObject
      <3>3. NotLater(tw.obj, nodes[n])
        BY <3>1, <3>2 DEF NotLater
      <3> QED
        BY <1>1, <1>3, <2>1, <3>3 DEF NodesInv, Waiting
    <2>2. CASE ~(tw.pc # "idle" /\ tw.n = n)
      BY <1>1, <1>3, <2>2 DEF NodesInv, Waiting
    <2> QED
      BY <2>1, <2>2
  <1>6. Behind(n)'
    BY <1>1, <1>2, <1>3 DEF Behind, NotLater, LagOK, Leaving, NodeObject
  <1>7. NodeInv(n)' /\ \A m \in Node \ {n} : Still(m)
    BY <1>1, <1>3, <1>6 DEF NodesInv, NodeInv, Up, Still
  <1>8. losses' >= losses
    BY <1>1, ContainerLifeAssumption DEF NodesInv, NodeTypes, NodeTypeOK
  <1> QED
    BY <1>4, <1>5, <1>7, <1>8, OneNode

\* Lemma: the process starts again with a new cache.
LEMMA RestartKeeps ==
    ASSUME NodesInv, cache' = nodes, tw' = TIdle, UNCHANGED <<nodes, ctr, cleaner, losses>>
    PROVE NodesInv'
  <1>1. TIdle \in [pc : {"idle", "wait", "finalizer"}, n : Node \cup {None},
                   obj : NodeObject(Claim), rel : Bindings]
        /\ TIdle.pc = "idle"
    BY DEF TIdle, NewNode, NodeObject, Claim, Unbound, Bindings
  <1>2. NodeTypes' /\ Waiting'
    BY <1>1 DEF NodesInv, NodeTypes, NodeTypeOK, Waiting
  <1>3. ASSUME NEW n \in Node PROVE NodeInv(n)'
    <2>1. nodes[n] \in NodeObject(Claim)
      BY DEF NodesInv, NodeTypes, NodeTypeOK
    <2>2. Behind(n)'
      BY <2>1 DEF Behind, NotLater, LagOK, Leaving, NodeObject
    <2> QED
      BY <2>2 DEF NodesInv, NodeInv, Up
  <1> QED
    BY <1>2, <1>3 DEF NodesInv

\* Lemma: a request is deleted: its node is marked, on whatever version.
LEMMA DeleteNodeKeeps ==
    ASSUME NodesInv, NEW n \in Node, DeleteNode(n)
    PROVE NodesInv'
  <1> DEFINE o == nodes[n]
  <1>1. o \in NodeObject(Claim) /\ cache[n] \in NodeObject(Claim) /\ Behind(n)
    BY DEF NodesInv, NodeTypes, NodeTypeOK, NodeInv
  <1>2. PICK d : d = [o EXCEPT !.del = TRUE]
    OBVIOUS
  <1>3. d \in NodeObject(Claim) /\ d.ver = o.ver /\ d.del /\ d.state = o.state /\ d.phase = o.phase
    BY <1>1, <1>2 DEF NodeObject
  <1>4. PICK q : q = [d EXCEPT !.ver = o.ver + 1]
    OBVIOUS
  <1>5. /\ q \in NodeObject(Claim) /\ q.ver = o.ver + 1 /\ q.del /\ q.state = o.state
        /\ q.phase = o.phase /\ o.ver \in Nat /\ cache[n].ver \in Nat
    <2>1. o.ver \in Nat /\ cache[n].ver \in Nat
      BY <1>1 DEF NodeObject
    <2> QED
      BY <1>3, <1>4, <2>1 DEF NodeObject
  <1>6. UNCHANGED <<cache, ctr, cleaner, tw, losses>> /\ nodes' = [nodes EXCEPT ![n] = q]
    <2>1. nodes' = [nodes EXCEPT ![n].del = TRUE, ![n].ver = @ + 1]
      BY DEF DeleteNode
    <2> QED
      BY <1>2, <1>3, <1>4, <2>1 DEF DeleteNode, NodesInv, NodeTypes, NodeTypeOK
  <1>7. nodes'[n] = q /\ \A m \in Node \ {n} : nodes'[m] = nodes[m]
    BY <1>6 DEF NodesInv, NodeTypes, NodeTypeOK
  <1>8. NodeTypes' /\ Waiting'
    BY <1>5, <1>6 DEF NodesInv, NodeTypes, NodeTypeOK, Waiting
  <1>9. NotLater(cache[n], q)
    BY <1>1, <1>5 DEF Behind, NotLater
  <1>10. LagOK(cache[n], q)
    BY <1>1, <1>5 DEF Behind, LagOK, Leaving, Exists
  <1>11. Behind(n)' /\ Fits(q, ctr[n]) /\ Up(nodes[n], ctr[n])'
    <2>1. Behind(n)' /\ Fits(q, ctr[n])
      BY <1>5, <1>6, <1>7, <1>9, <1>10 DEF Behind, Fits, Leaving
    <2>2. Up(nodes[n], ctr[n])'
      BY <1>5, <1>6, <1>7 DEF Up, Exists, NodesInv, NodeInv
    <2> QED
      BY <2>1, <2>2
  <1>12. losses' >= losses
    BY <1>6, ContainerLifeAssumption DEF NodesInv, NodeTypes, NodeTypeOK
  <1> QED
    BY <1>6, <1>7, <1>8, <1>11, <1>12, OneNode DEF NodeInv, Still

----------------------------------------------------------------------------
(* Workloads and the worker of their controller.                            *)

\* Lemma: a sequence over a set holds members of the set.
LEMMA SequenceTypes ==
    ASSUME NEW S, NEW s \in Seq(S)
    PROVE Len(s) \in Nat /\ DOMAIN s = 1 .. Len(s) /\ \A i \in 1 .. Len(s) : s[i] \in S
  OBVIOUS

\* Lemma: an item has a node and an image.
LEMMA JobTypes ==
    ASSUME NEW w \in Workload
    PROVE /\ Len(Jobs[w]) \in Nat /\ DOMAIN Jobs[w] = 1 .. Len(Jobs[w])
          /\ \A i \in 1 .. Len(Jobs[w]) : Jobs[w][i].node \in Node /\ Jobs[w][i].image \in Image
  <1> DEFINE Item == [node : Node, image : Image]
  <1>1. Jobs[w] \in Seq(Item)
    BY WorkloadAssumption
  <1> HIDE DEF Item
  <1>2. /\ Len(Jobs[w]) \in Nat /\ DOMAIN Jobs[w] = 1 .. Len(Jobs[w])
        /\ \A i \in 1 .. Len(Jobs[w]) : Jobs[w][i] \in Item
    BY <1>1, SequenceTypes
  <1> QED
    BY <1>2 DEF Item

\* Lemma: an idle worker is at no place in a loop, and one in a loop is not idle.
LEMMA WorkerPlace ==
    ASSUME WorkloadTypeOK
    PROVE /\ WIdle.pc = "idle"
          /\ ww.pc = "idle" <=> ww = WIdle
          /\ ww.pc # "idle" => ww.w \in Workload /\ ww \in WorkerAt(ww.w)
  BY DEF WorkloadTypeOK, WorkerAt, WIdle

\* Lemma: the types and the copy are kept when a workload is written and the
\* worker is idle then, or at another one.
LEMMA WorkloadWritten ==
    ASSUME WorkersInv, NEW w \in Workload, NEW o \in WorkloadObject(w), Whole(o),
           workloads' = [workloads EXCEPT ![w] = o],
           ww' = WIdle \/ (ww' = ww /\ ww.w # w)
    PROVE WorkersInv'
  <1>1. workloads'[w] = o /\ \A v \in Workload \ {w} : workloads'[v] = workloads[v]
    BY DEF WorkersInv, WorkloadTypeOK
  <1>2. WorkloadTypeOK'
    BY <1>1 DEF WorkersInv, WorkloadTypeOK
  <1>3. \A v \in Workload : Whole(workloads'[v])
    BY <1>1 DEF WorkersInv
  <1>4. WorkloadHeld'
    <2>1. CASE ww' = WIdle
      BY <2>1 DEF WorkloadHeld, WIdle
    <2>2. CASE ww' = ww /\ ww.w # w
      BY <1>1, <2>2, WorkerPlace DEF WorkersInv, WorkloadHeld
    <2> QED
      BY <2>1, <2>2
  <1> QED
    BY <1>2, <1>3, <1>4 DEF WorkersInv

\* Lemma: the types and the copy are kept when the call ends.
LEMMA WorkloadReturn ==
    ASSUME WorkersInv, ww' = WIdle, UNCHANGED workloads
    PROVE WorkersInv'
  BY DEF WorkersInv, WorkloadTypeOK, WorkloadHeld, WIdle

\* Lemma: the types and the copy are kept by the next item.
LEMMA WorkloadGoesOn ==
    ASSUME WorkersInv, UNCHANGED workloads, ww.pc # "idle", ww.i <= Len(Jobs[ww.w]),
           NEW c \in Nat, NEW ps, ps \in [DOMAIN Jobs[ww.w] -> Phase],
           ww' = [ww EXCEPT !.i = ww.i + 1, !.count = c, !.phases = ps]
    PROVE /\ WorkersInv'
          /\ ww'.pc = ww.pc /\ ww'.w = ww.w /\ ww'.obj = ww.obj /\ ww'.i = ww.i + 1
          /\ ww'.count = c /\ ww'.phases = ps
  <1>1. ww.w \in Workload /\ ww \in WorkerAt(ww.w)
    BY WorkerPlace DEF WorkersInv
  <1>2. ww.i + 1 \in 1 .. Len(Jobs[ww.w]) + 1
    BY <1>1, JobTypes DEF WorkerAt
  <1>3. /\ ww' \in WorkerAt(ww.w)
        /\ ww'.pc = ww.pc /\ ww'.w = ww.w /\ ww'.obj = ww.obj /\ ww'.i = ww.i + 1
        /\ ww'.count = c /\ ww'.phases = ps
    BY <1>1, <1>2 DEF WorkerAt
  <1>4. WorkloadTypeOK'
    BY <1>1, <1>3 DEF WorkersInv, WorkloadTypeOK
  <1>5. WorkloadHeld'
    BY <1>3 DEF WorkersInv, WorkloadHeld
  <1> QED
    BY <1>3, <1>4, <1>5 DEF WorkersInv

\* Lemma: so do the steps before the loops.
LEMMA WorkloadBeginTypes ==
    ASSUME WorkersInv, NEW w \in Workload, WorkloadBegin(w)
    PROVE WorkersInv'
  <1> DEFINE o == workloads[w]
  <1>1. o \in WorkloadObject(w) /\ Whole(o) /\ ww = WIdle
    BY WorkerPlace
    DEF WorkersInv, WorkloadTypeOK, WorkloadBegin, WorkloadAddFinalizer, WorkloadBeginPending,
        WorkloadLoop
  <1>2. CASE WorkloadAddFinalizer(w)
    <2>1. [o EXCEPT !.fin = TRUE] \in WorkloadObject(w) /\ Whole([o EXCEPT !.fin = TRUE])
      BY <1>1, <1>2 DEF WorkloadObject, Whole, Exists, WorkloadAddFinalizer
    <2> QED
      BY <1>1, <1>2, <2>1, WorkloadWritten DEF WorkloadAddFinalizer, UpdateWorkload
  <1>3. CASE WorkloadBeginPending(w)
    <2>1. /\ [o EXCEPT !.state = "pending"] \in WorkloadObject(w)
          /\ Whole([o EXCEPT !.state = "pending"])
      BY <1>1, <1>3, UnsetIsNone DEF WorkloadObject, Whole, Exists, WorkloadBeginPending
    <2> QED
      BY <1>1, <1>3, <2>1, WorkloadWritten DEF WorkloadBeginPending, UpdateWorkload
  <1>4. CASE WorkloadLoop(w)
    <2>1. PICK loop \in {"install", "inspect", "uninstall"} :
             /\ ww' = [pc |-> loop, w |-> w, obj |-> o, i |-> 1, count |-> 0, phases |-> o.phases]
             /\ loop = "install" => o.state = "pending" /\ ~o.del
             /\ loop = "inspect" => o.state = "running" /\ ~o.del
             /\ loop = "uninstall" => o.del
      BY <1>4 DEF WorkloadLoop
    <2>2. o.phases \in [DOMAIN Jobs[w] -> Phase] /\ 1 \in 1 .. Len(Jobs[w]) + 1
      BY <1>1, JobTypes DEF WorkloadObject
    <2>3. ww' \in WorkerAt(w) /\ ww'.w = w /\ ww'.obj = o /\ ww'.pc = loop
      BY <1>1, <2>1, <2>2 DEF WorkerAt
    <2>4. UNCHANGED workloads /\ o.fin
      BY <1>4 DEF WorkloadLoop
    <2>5. WorkloadTypeOK' /\ WorkloadHeld'
      BY <2>1, <2>3, <2>4 DEF WorkersInv, WorkloadTypeOK, WorkloadHeld
    <2> QED
      BY <2>4, <2>5 DEF WorkersInv
  <1> QED
    BY <1>2, <1>3, <1>4 DEF WorkloadBegin

\* Lemma: so does the user who creates a workload.
LEMMA CreateWorkloadTypes ==
    ASSUME WorkersInv, NEW w \in Workload, CreateWorkload(w)
    PROVE WorkersInv'
  <1>1. workloads[w] \in WorkloadObject(w) /\ Whole(workloads[w]) /\ ~Exists(workloads[w])
    BY DEF WorkersInv, WorkloadTypeOK, CreateWorkload
  <1>2. PICK g : g = workloads[w].gen + 1
    OBVIOUS
  <1>3. g \in 1 .. MaxGen
    <2>1. workloads[w].gen \in 0 .. MaxGen
      BY <1>1 DEF WorkloadObject
    <2> QED
      BY <1>2, <2>1, WorkloadAssumption DEF CreateWorkload
  <1>4. PICK q : q = AbsentWorkload(w, g)
    OBVIOUS
  <1>5. NoPhases(w) \in [DOMAIN Jobs[w] -> Phase]
    BY DEF NoPhases, Phase
  <1>6. q \in WorkloadObject(w) /\ q.gen = g /\ q.fin = FALSE /\ q.del = FALSE
    BY <1>3, <1>4, <1>5, WorkloadAssumption DEF AbsentWorkload, WorkloadObject
  <1>7. /\ [q EXCEPT !.state = Unset] \in WorkloadObject(w)
        /\ Whole([q EXCEPT !.state = Unset])
    BY <1>3, <1>6 DEF WorkloadObject, Whole
  <1>8. /\ workloads' = [workloads EXCEPT ![w] = [q EXCEPT !.state = Unset]]
        /\ ww' = ww
    BY <1>2, <1>4 DEF CreateWorkload
  <1>9. ww = WIdle \/ ww.w # w
    <2>1. SUFFICES ASSUME ww.pc # "idle", ww.w = w PROVE FALSE
      BY WorkerPlace DEF WorkersInv
    <2>2. workloads[w].fin
      <3>1. ww.obj.fin /\ ww.obj \in WorkloadObject(w)
        BY <2>1, WorkerPlace DEF WorkersInv, WorkloadHeld, WorkerAt
      <3> QED
        BY <2>1, <3>1 DEF WorkersInv, WorkloadHeld, WorkloadObject
    <2> QED
      BY <1>1, <2>2 DEF Whole
  <1> QED
    BY <1>7, <1>8, <1>9, WorkloadWritten

\* Lemma: so does the user who deletes one, whatever the worker is at.
LEMMA DeleteWorkloadTypes ==
    ASSUME WorkersInv, NEW w \in Workload, DeleteWorkload(w)
    PROVE WorkersInv'
  <1> DEFINE o == workloads[w]
  <1>1. o \in WorkloadObject(w) /\ Whole(o) /\ Exists(o) /\ ww' = ww
    BY DEF WorkersInv, WorkloadTypeOK, DeleteWorkload
  <1>2. CASE o.fin
    <2>1. PICK q : q = [o EXCEPT !.del = TRUE]
      OBVIOUS
    <2>2. workloads' = [workloads EXCEPT ![w] = q]
      BY <1>2, <2>1 DEF DeleteWorkload
    <2>3. q \in WorkloadObject(w) /\ Whole(q)
      BY <1>1, <1>2, <2>1 DEF WorkloadObject, Whole, Exists
    <2>4. workloads'[w] = q /\ \A v \in Workload \ {w} : workloads'[v] = workloads[v]
      BY <2>2 DEF WorkersInv, WorkloadTypeOK
    <2>5. WorkloadTypeOK' /\ \A v \in Workload : Whole(workloads'[v])
      BY <1>1, <2>2, <2>3, <2>4 DEF WorkersInv, WorkloadTypeOK
    <2>6. WorkloadHeld'
      <3>1. CASE ww.pc # "idle" /\ ww.w = w
        <4>1. ww.obj \in WorkloadObject(w) /\ o \in {ww.obj, [ww.obj EXCEPT !.del = TRUE]}
          BY <3>1, WorkerPlace DEF WorkersInv, WorkloadHeld, WorkerAt
        <4>2. q = [ww.obj EXCEPT !.del = TRUE]
          BY <2>1, <4>1 DEF WorkloadObject
        <4> QED
          BY <1>1, <2>4, <3>1, <4>2 DEF WorkersInv, WorkloadHeld
      <3>2. CASE ww.pc = "idle"
        BY <1>1, <3>2 DEF WorkloadHeld
      <3>3. CASE ww.pc # "idle" /\ ww.w # w
        BY <1>1, <2>4, <3>3, WorkerPlace DEF WorkersInv, WorkloadHeld
      <3> QED
        BY <3>1, <3>2, <3>3
    <2> QED
      BY <2>5, <2>6 DEF WorkersInv
  <1>3. CASE ~o.fin
    <2>1. PICK q : q = AbsentWorkload(w, o.gen)
      OBVIOUS
    <2>2. workloads' = [workloads EXCEPT ![w] = q]
      BY <1>3, <2>1 DEF DeleteWorkload
    <2>3. NoPhases(w) \in [DOMAIN Jobs[w] -> Phase]
      BY DEF NoPhases, Phase
    <2>4. q \in WorkloadObject(w) /\ Whole(q)
      BY <1>1, <2>1, <2>3 DEF AbsentWorkload, WorkloadObject, Whole, Exists
    <2>5. ww = WIdle \/ ww.w # w
      <3>1. SUFFICES ASSUME ww.pc # "idle", ww.w = w PROVE FALSE
        BY WorkerPlace DEF WorkersInv
      <3>2. ww.obj.fin /\ ww.obj \in WorkloadObject(w)
        BY <3>1, WorkerPlace DEF WorkersInv, WorkloadHeld, WorkerAt
      <3>3. o.fin
        BY <3>1, <3>2 DEF WorkersInv, WorkloadHeld, WorkloadObject
      <3> QED
        BY <1>3, <3>3
    <2> QED
      BY <1>1, <2>2, <2>4, <2>5, WorkloadWritten
  <1> QED
    BY <1>2, <1>3

\* Lemma: what does not concern the nodes keeps what is said of them.
LEMMA NodesStay ==
    ASSUME NodesInv, UNCHANGED nodeVars
    PROVE NodesInv'
  BY DEF NodesInv, nodeVars, NodeTypes, NodeTypeOK, Waiting, NodeInv, Behind, Up

\* Lemma: so do the steps of the loops.
LEMMA WorkloadContinueTypes ==
    ASSUME NodesInv, WorkersInv, WorkloadContinue
    PROVE WorkersInv'
  <1>1. ww.pc # "idle" /\ ww.w \in Workload /\ ww \in WorkerAt(ww.w)
    BY WorkerPlace
    DEF WorkersInv, WorkloadContinue, InstallBlocked, InstallClaim, InstallClaimConflict,
        InstallStarting, InstallUp, InstallEnd, InspectNotFound, InspectItem, InspectEnd,
        UninstallItem, UninstallEnd, AtItem, AfterItems
  <1>2. CASE InstallBlocked \/ InstallClaimConflict \/ InspectNotFound
    BY <1>2, WorkloadReturn DEF InstallBlocked, InstallClaimConflict, InspectNotFound, Return
  <1>3. CASE InstallClaim \/ InstallStarting \/ InstallUp \/ UninstallItem
    <2>1. PICK d \in {0, 1} : ww' = [ww EXCEPT !.i = ww.i + 1, !.count = ww.count + d]
      BY <1>3 DEF InstallClaim, InstallStarting, InstallUp, UninstallItem, Proceed
    <2>2. UNCHANGED workloads /\ ww.i <= Len(Jobs[ww.w])
      BY <1>3 DEF InstallClaim, InstallStarting, InstallUp, UninstallItem, AtItem
    <2>3. ww.count + d \in Nat /\ ww.phases \in [DOMAIN Jobs[ww.w] -> Phase]
      BY <1>1 DEF WorkerAt
    <2>4. ww' = [ww EXCEPT !.i = ww.i + 1, !.count = ww.count + d, !.phases = ww.phases]
      BY <1>1, <2>1 DEF WorkerAt
    <2>5. PICK c \in Nat : c = ww.count + d
      BY <2>3
    <2>6. PICK ps : ps = ww.phases
      OBVIOUS
    <2> QED
      BY <1>1, <2>2, <2>3, <2>4, <2>5, <2>6, WorkloadGoesOn
  <1>4. CASE InspectItem
    <2>1. PICK ps : ps = [ww.phases EXCEPT ![ww.i] = WorkloadNode.phase]
      OBVIOUS
    <2>2. ww.i \in 1 .. Len(Jobs[ww.w])
      BY <1>1, <1>4, JobTypes DEF InspectItem, AtItem, WorkerAt
    <2>3. cache[Job.node] \in NodeObject(Claim)
      BY <1>1, <2>2, JobTypes DEF Job, NodesInv, NodeTypes, NodeTypeOK
    <2>4. WorkloadNode.phase \in Phase
      BY <2>3 DEF WorkloadNode, NodeObject, Phase
    <2>5. ps \in [DOMAIN Jobs[ww.w] -> Phase] /\ ww.count \in Nat
      BY <1>1, <2>1, <2>4 DEF WorkerAt
    <2>6. ww' = [ww EXCEPT !.i = ww.i + 1, !.count = ww.count, !.phases = ps]
      BY <1>1, <1>4, <2>1 DEF InspectItem, WorkerAt
    <2>7. PICK c \in Nat : c = ww.count
      BY <2>5
    <2>8. UNCHANGED workloads /\ ww.i <= Len(Jobs[ww.w])
      BY <1>4 DEF InspectItem, AtItem
    <2> QED
      BY <1>1, <2>5, <2>6, <2>7, <2>8, WorkloadGoesOn
  <1>5. CASE InstallEnd \/ InspectEnd \/ UninstallEnd
    <2>1. CASE UNCHANGED workloads
      BY <1>5, <2>1, WorkloadReturn DEF InstallEnd, InspectEnd, UninstallEnd, Return
    <2>2. CASE ~UNCHANGED workloads
      <3>1. workloads[ww.w] = ww.obj /\ ww' = WIdle
        BY <1>5, <2>2 DEF InstallEnd, InspectEnd, UninstallEnd, Return
      <3>2. ww.obj \in WorkloadObject(ww.w) /\ Whole(ww.obj) /\ ww.obj.fin
        BY <1>1, <3>1 DEF WorkersInv, WorkerAt, WorkloadHeld
      <3>3. CASE InstallEnd
        <4>1. PICK q : q = [ww.obj EXCEPT !.state = "running"]
          OBVIOUS
        <4>2. workloads' = [workloads EXCEPT ![ww.w] = q]
          BY <2>2, <3>3, <4>1 DEF InstallEnd
        <4>3. q \in WorkloadObject(ww.w) /\ Whole(q)
          BY <3>2, <4>1 DEF WorkloadObject, Whole, Exists
        <4>4. PICK v \in Workload : v = ww.w
          BY <1>1
        <4> QED
          BY <3>1, <4>2, <4>3, <4>4, WorkloadWritten
      <3>4. CASE InspectEnd
        <4>1. PICK q : q = [ww.obj EXCEPT !.phases = ww.phases, !.state = Verdict(ww.phases)]
          OBVIOUS
        <4>2. workloads' = [workloads EXCEPT ![ww.w] = q]
          BY <2>2, <3>4, <4>1 DEF InspectEnd
        <4>3. /\ Verdict(ww.phases) \in {"succeeded", "failed", "running"}
              /\ ww.phases \in [DOMAIN Jobs[ww.w] -> Phase]
          BY <1>1 DEF Verdict, WorkerAt
        <4>4. q \in WorkloadObject(ww.w) /\ Whole(q)
          BY <3>2, <4>1, <4>3 DEF WorkloadObject, Whole, Exists
        <4>5. PICK v \in Workload : v = ww.w
          BY <1>1
        <4> QED
          BY <3>1, <4>2, <4>4, <4>5, WorkloadWritten
      <3>5. CASE UninstallEnd
        <4>1. PICK q : q = AbsentWorkload(ww.w, ww.obj.gen)
          OBVIOUS
        <4>2. workloads' = [workloads EXCEPT ![ww.w] = q]
          BY <2>2, <3>5, <4>1 DEF UninstallEnd
        <4>3. NoPhases(ww.w) \in [DOMAIN Jobs[ww.w] -> Phase]
          BY DEF NoPhases, Phase
        <4>4. q \in WorkloadObject(ww.w) /\ Whole(q)
          BY <3>2, <4>1, <4>3 DEF AbsentWorkload, WorkloadObject, Whole, Exists
        <4>5. PICK v \in Workload : v = ww.w
          BY <1>1
        <4> QED
          BY <3>1, <4>2, <4>4, <4>5, WorkloadWritten
      <3> QED
        BY <1>5, <3>3, <3>4, <3>5
    <2> QED
      BY <2>1, <2>2
  <1> QED
    BY <1>2, <1>3, <1>4, <1>5 DEF WorkloadContinue

\* Lemma: the claim of a node that is free, and its release, keep what is said of
\* the nodes; the other steps of a workload do not concern them.
LEMMA WorkloadKeepsNodes ==
    ASSUME NodesInv, WorkersInv, WorkloadContinue
    PROVE NodesInv'
  <1> DEFINE n == Job.node
             c == cache[n]
  <1>1. CASE UNCHANGED nodeVars
    BY <1>1, NodesStay
  <1>2. CASE ~UNCHANGED nodeVars
    <2>1. InstallClaim \/ UninstallItem
      BY <1>2
      DEF WorkloadContinue, InstallBlocked, InstallClaimConflict,
        InstallStarting, InstallUp, InstallEnd, InspectNotFound, InspectItem, InspectEnd,
        UninstallEnd
    <2>2. /\ ww.pc # "idle" /\ ww.w \in Workload /\ ww \in WorkerAt(ww.w) /\ ww.obj.fin
          /\ workloads[ww.w] \in {ww.obj, [ww.obj EXCEPT !.del = TRUE]}
          /\ Whole(workloads[ww.w])
      BY <2>1, WorkerPlace DEF WorkersInv, WorkloadHeld, InstallClaim, UninstallItem, AtItem
    <2>3. ww.i \in 1 .. Len(Jobs[ww.w])
      BY <2>1, <2>2, JobTypes DEF InstallClaim, UninstallItem, AtItem, WorkerAt
    <2>4. n \in Node /\ Job.image \in Image
      BY <2>2, <2>3, JobTypes DEF Job
    <2>5. Self \in WorkloadRef
      <3>1. ww.obj \in WorkloadObject(ww.w)
        BY <2>2 DEF WorkerAt
      <3>2. ww.obj.gen \in 1 .. MaxGen
        BY <2>2, <3>1 DEF WorkloadObject, Whole
      <3> QED
        BY <2>2, <3>2 DEF Self, Ref, WorkloadRef
    <2>6. /\ nodes[n] = c /\ c \in NodeObject(Claim) /\ Fits(c, ctr[n]) /\ Up(c, ctr[n])
          /\ UNCHANGED <<cache, ctr, cleaner, tw, losses>>
      <3>1. nodes[n] = c /\ UNCHANGED <<cache, ctr, cleaner, tw, losses>>
        BY <1>2, <2>1 DEF InstallClaim, UninstallItem, WorkloadNode, UpdateNode, nodeVars
      <3> QED
        BY <2>4, <3>1 DEF NodesInv, NodeTypes, NodeTypeOK, NodeInv
    <2>7. CASE InstallClaim
      <3>1. PICK q : q = [c EXCEPT !.claim = Self, !.image = Job.image]
        OBVIOUS
      <3>2. UpdateNode(n, c, q) /\ c.state = "uninitialized" /\ c.image = None
        BY <2>7, <3>1 DEF InstallClaim, WorkloadNode
      <3>3. q \in NodeObject(Claim) /\ q.state = "uninitialized" /\ q.del = c.del
        BY <2>4, <2>5, <2>6, <3>1, <3>2 DEF NodeObject, Claim
      <3>4. Fits(q, ctr[n]) /\ Up(q, ctr[n])
        BY <2>6, <3>2, <3>3 DEF Fits, Up, Leaving
      <3>5. PICK m \in Node : m = n
        BY <2>4
      <3> QED
        BY <2>6, <3>2, <3>3, <3>4, <3>5, NodeWritten DEF Exists
    <2>8. CASE UninstallItem
      <3>1. PICK q : q = Released(c)
        OBVIOUS
      <3>2. UpdateNode(n, c, q) /\ c.state \in {"uninitialized", "ready", "finish"}
        BY <1>2, <2>6, <2>8, <3>1
        DEF UninstallItem, WorkloadNode, CouldUninstall, nodeVars
      <3>3. q \in NodeObject(Claim) /\ q.state = "destroy" /\ q.del = c.del
        BY <2>6, <3>1 DEF NodeObject, Claim, Released
      <3>4. Fits(q, ctr[n]) /\ Up(q, ctr[n])
        BY <3>3 DEF Fits, Up, Leaving
      <3>5. PICK m \in Node : m = n
        BY <2>4
      <3> QED
        BY <2>6, <3>2, <3>3, <3>4, <3>5, NodeWritten DEF Exists
    <2> QED
      BY <2>1, <2>7, <2>8
  <1> QED
    BY <1>1, <1>2

----------------------------------------------------------------------------
(* The node theorems.                                                       *)

\* Lemma: initially no container is there and no workload.
LEMMA BaseInitially == Init => BaseInv
  <1> SUFFICES ASSUME Init PROVE BaseInv
    OBVIOUS
  <1>1. PICK st \in {"uninitialized", Unset} : nodes = [n \in Node |-> NewNode(st)]
    BY DEF Init, NodeInit
  <1>2. PICK q : q = NewNode(st)
    OBVIOUS
  <1>3. /\ q \in NodeObject(Claim) /\ q.ver = 0 /\ q.image = None /\ q.del = FALSE
        /\ q.state \in {"uninitialized", Unset}
    BY <1>2 DEF NewNode, NodeObject, Claim
  <1>4. TIdle \in [pc : {"idle", "wait", "finalizer"}, n : Node \cup {None},
                   obj : NodeObject(Claim), rel : Bindings]
        /\ TIdle.pc = "idle"
    BY DEF TIdle, NewNode, NodeObject, Claim, Unbound, Bindings
  <1>5. /\ NoContainer.st = "none"
        /\ NoContainer \in
             [st : {"none", "created", "connected", "running", "succeeded", "failed"},
              image : Image \cup {None}, by : Claim]
    BY DEF NoContainer, Claim
  <1>6. /\ nodes \in [Node -> NodeObject(Claim)] /\ cache = nodes /\ tw = TIdle /\ losses = 0
        /\ \A n \in Node : nodes[n] = q /\ ctr[n] = NoContainer /\ cleaner[n] = "none"
    BY <1>1, <1>2, <1>3 DEF Init, NodeInit
  <1>7. NodeTypes /\ Waiting
    BY <1>4, <1>5, <1>6, ContainerLifeAssumption DEF Init, NodeInit, NodeTypes, NodeTypeOK, Waiting
  <1>8. ASSUME NEW n \in Node PROVE NodeInv(n)
    <2>1. NotLater(q, q) /\ LagOK(q, q)
      BY <1>3, UnsetIsNone DEF NotLater, LagOK, Exists
    <2>2. Fits(q, NoContainer) /\ Up(q, NoContainer)
      BY <1>3, <1>5, UnsetIsNone DEF Fits, Up
    <2> QED
      BY <1>5, <1>6, <2>1, <2>2 DEF NodeInv, Behind
  <1>9. ASSUME NEW w \in Workload
        PROVE AbsentWorkload(w, 0) \in WorkloadObject(w) /\ Whole(AbsentWorkload(w, 0))
    <2>1. NoPhases(w) \in [DOMAIN Jobs[w] -> Phase]
      BY DEF NoPhases, Phase
    <2> QED
      BY <2>1, WorkloadAssumption DEF AbsentWorkload, WorkloadObject, Whole, Exists
  <1>10. WorkersInv
    BY <1>9 DEF Init, WorkloadInit, WorkersInv, WorkloadTypeOK, WorkloadHeld, WIdle
  <1>11. BindingTypeOK
    BY DEF Init, NodeInit, BindingTypeOK, Bindings
  <1> QED
    BY <1>7, <1>8, <1>10, <1>11 DEF BaseInv, NodesInv

\* Lemma: what leaves the workloads alone keeps what is said of them.
LEMMA WorkersStay ==
    ASSUME WorkersInv, UNCHANGED workloadVars
    PROVE WorkersInv'
  BY DEF WorkersInv, workloadVars, WorkloadTypeOK, WorkloadHeld

\* Lemma: a step of the resource controller keeps what is said of the nodes.
LEMMA NodeBeginKeeps ==
    ASSUME NodesInv, BindingTypeOK, NEW n \in Node, NodeBegin(n)
    PROVE NodesInv'
  BY NodeStatusKeeps, NodeRunKeeps, FinalizeKeeps, NodeEndKeeps DEF NodeBegin

\* What a step of the system is to the nodes.
NodeChange(n) ==
    \/ NodeBegin(n) \/ NodeEnd(n) \/ DeleteNode(n) \/ BindNode(n) \/ WatchNode(n)
    \/ ContainerExit(n) \/ ContainerLost(n) \/ CleanerExit(n)

Anew ==
    /\ tw' = TIdle /\ cache' = nodes /\ seenRel' = rel
    /\ UNCHANGED <<nodes, ctr, cleaner, losses, rel, stray>>

\* Lemma: every step is one of these, or does not concern the nodes.
LEMMA NodeChanges ==
    ASSUME [Next]_vars
    PROVE \/ \E n \in Node : NodeChange(n)
          \/ InstallClaim \/ UninstallItem \/ WatchRelationship \/ Anew \/ UNCHANGED nodeVars
  <1>1. CASE UNCHANGED vars
    BY <1>1 DEF vars
  <1>2. CASE \E n \in Node : \/ NodeStep(n) \/ NodeOngoing(n) \/ Watch(n)
                             \/ Exit(n) \/ Lose(n) \/ EndCleaning(n) \/ DeleteRequest(n) \/ Bind(n)
    BY <1>2 DEF NodeStep, NodeOngoing, Watch, Exit, Lose, EndCleaning, DeleteRequest, Bind, NodeChange
  <1>3. CASE \E w \in Workload : WorkloadStep(w) \/ CreateWorkload(w) \/ DeleteWorkload(w)
    BY <1>3
    DEF WorkloadStep, WorkloadBegin, WorkloadAddFinalizer, WorkloadBeginPending, WorkloadLoop,
        CreateWorkload, DeleteWorkload
  <1>4. CASE WorkloadOngoing
    BY <1>4
    DEF WorkloadOngoing, WorkloadContinue, InstallBlocked, InstallClaimConflict, InstallStarting,
        InstallUp, InstallEnd, InspectNotFound, InspectItem, InspectEnd, UninstallEnd
  <1>5. CASE WatchBindings \/ Crash \/ Panic
    BY <1>5 DEF WatchBindings, Crash, Panic, Restart, Anew
  <1> QED
    BY <1>1, <1>2, <1>3, <1>4, <1>5 DEF Next

\* Lemma: what a step of one node does to the bindings.
LEMMA BindingChange ==
    ASSUME NEW n \in Node, NodeChange(n)
    PROVE /\ rel' = rel \/ \E b \in {"bound", "released"} : rel' = [rel EXCEPT ![n] = b]
          /\ seenRel' = seenRel
          /\ stray' = stray \/ stray' = stray \cup {m \in {n} : rel[m] = "released"}
  <1>1. CASE BindNode(n) \/ CleanerCreate(n)
    BY <1>1 DEF BindNode, CleanerCreate
  <1>2. CASE NodeEnd(n)
    BY <1>2 DEF NodeEnd, NodeReset, NodeRelease, NodeCleanConflict, NodeGone, NodeGoneConflict,
                CleanerDone, relVars
  <1>3. CASE NodeChange(n) /\ ~BindNode(n) /\ ~CleanerCreate(n) /\ ~NodeEnd(n)
    BY <1>3
    DEF NodeChange, NodeBegin, NodeBeginPending, NodePending, NodeFirstPhase, NodeCreateContainer,
        NodeConnect, NodeStart, NodeRunning, NodeReady, NodeFinish, NodeRestart, CleanerStart,
        CleanerWait, NodeSkip, DeleteNode, WatchNode, ContainerExit, ContainerLost, CleanerExit,
        relVars
  <1> QED
    BY <1>1, <1>2, <1>3

\* Lemma: the bindings keep their type.
LEMMA BindingTypesKept ==
    ASSUME BindingTypeOK, [Next]_vars
    PROVE BindingTypeOK'
  <1>1. ASSUME NEW n \in Node, NodeChange(n) PROVE BindingTypeOK'
    BY <1>1, BindingChange DEF BindingTypeOK, Bindings
  <1>2. CASE InstallClaim \/ UninstallItem \/ WatchRelationship \/ Anew \/ UNCHANGED nodeVars
    BY <1>2 DEF InstallClaim, UninstallItem, WatchRelationship, Anew, nodeVars, relVars, BindingTypeOK
  <1> QED
    BY <1>1, <1>2, NodeChanges

\* Lemma: every step keeps what is said of the nodes and of the workers.
LEMMA BaseKept == BaseInv /\ [Next]_vars => BaseInv'
  <1> SUFFICES ASSUME BaseInv, [Next]_vars PROVE BaseInv'
    OBVIOUS
  <1> USE DEF BaseInv
  <1>0. BindingTypeOK'
    BY BindingTypesKept
  <1>1. CASE UNCHANGED vars
    BY <1>0, <1>1, NodesStay, WorkersStay DEF vars
  <1>2. ASSUME NEW n \in Node, NodeStep(n) \/ NodeOngoing(n) \/ Watch(n)
        PROVE BaseInv'
    BY <1>0, <1>2, NodeBeginKeeps, NodeEndKeeps, WatchKeeps, WorkersStay
    DEF NodeStep, NodeOngoing, Watch
  <1>3. ASSUME NEW n \in Node, Exit(n) \/ Lose(n) \/ EndCleaning(n) \/ DeleteRequest(n)
        PROVE BaseInv'
    BY <1>0, <1>3, ContainerEndKeeps, CleanerExitKeeps, DeleteNodeKeeps, WorkersStay
    DEF Exit, Lose, EndCleaning, DeleteRequest
  <1>4. ASSUME NEW w \in Workload, WorkloadStep(w) \/ CreateWorkload(w) \/ DeleteWorkload(w)
        PROVE BaseInv'
    <2>1. UNCHANGED nodeVars
      BY <1>4
      DEF WorkloadStep, WorkloadBegin, WorkloadAddFinalizer, WorkloadBeginPending, WorkloadLoop,
          CreateWorkload, DeleteWorkload
    <2> QED
      BY <1>0, <1>4, <2>1, NodesStay, WorkloadBeginTypes, CreateWorkloadTypes, DeleteWorkloadTypes
      DEF WorkloadStep
  <1>5. CASE WorkloadOngoing
    BY <1>0, <1>5, WorkloadContinueTypes, WorkloadKeepsNodes DEF WorkloadOngoing
  <1>6. CASE Crash \/ Panic
    BY <1>0, <1>6, RestartKeeps, WorkloadReturn DEF Crash, Panic, Restart
  <1>7. CASE WatchBindings \/ \E n \in Node : Bind(n)
    <2>1. NodesInv'
      BY <1>7 DEF WatchBindings, WatchRelationship, Bind, BindNode, NodesInv, NodeTypes, NodeTypeOK,
                  Waiting, NodeInv, Behind, Up
    <2> QED
      BY <1>0, <1>7, <2>1, WorkersStay DEF WatchBindings, Bind
  <1> QED
    BY <1>1, <1>2, <1>3, <1>4, <1>5, <1>6, <1>7 DEF Next

\* Lemma: the invariant of the nodes and the workers holds throughout.
LEMMA BaseHolds == Spec => []BaseInv
  BY BaseInitially, BaseKept, PTL DEF Spec

\* Theorem: a node that is up has a started container of its image and its claim
\* on the machine, and a node that has finished says how that container ended
\* (reconcileStateUninitialized and reconcileStateReady of
\* testresource_controller.go), with any lag of the cache, any number of
\* workloads and any crashes.
THEOREM UpNodesHaveContainers == Spec => []UpHasContainer
  <1>1. BaseInv => UpHasContainer
    BY DEF BaseInv, NodesInv, NodeInv, Up, UpHasContainer
  <1> QED
    BY <1>1, BaseHolds, PTL

----------------------------------------------------------------------------
(* Bindings.                                                                *)

\* Lemma: what is said of the bindings is kept by a step that concerns one node.
LEMMA OneBinding ==
    ASSUME BindingsInv, NEW n \in Node, Leaver', BindingInv(n)',
           \A m \in Node \ {n} : Still(m) /\ rel'[m] = rel[m],
           seenRel' = seenRel, stray \subseteq stray'
    PROVE BindingsInv'
  <1>1. ASSUME NEW m \in Node, m # n PROVE BindingInv(m)'
    <2>1. Still(m) /\ rel'[m] = rel[m] /\ BindingInv(m)
      BY <1>1 DEF BindingsInv
    <2> QED
      BY <2>1 DEF BindingInv, Still, Vacant
  <1> QED
    BY <1>1 DEF BindingsInv

\* Lemma: a write of the node keeps it, unless it undoes a deletion or makes the
\* machine required of a node that has none.
LEMMA BindingWritten ==
    ASSUME NodesInv, BindingsInv, NEW n \in Node, NEW q, nodes' = [nodes EXCEPT ![n] = q],
           Exists(nodes[n]), Exists(q), nodes[n].del => q.del,
           IsRequired(q) \/ q.del => seenRel[n] # "unbound",
           UNCHANGED <<cache, ctr, relVars>>,
           tw' \in {tw, TIdle},
           cleaner' = cleaner \/ cleaner' = [cleaner EXCEPT ![n] = "none"]
    PROVE BindingsInv'
  <1>1. nodes'[n] = q /\ \A m \in Node \ {n} : Still(m) /\ rel'[m] = rel[m]
    BY DEF NodesInv, NodeTypes, NodeTypeOK, Still, relVars
  <1>2. cleaner'[n] \in {cleaner[n], "none"}
    BY DEF NodesInv, NodeTypes, NodeTypeOK
  <1>3. Leaver'
    BY DEF BindingsInv, Leaver, TIdle, relVars
  <1>4. BindingInv(n)'
    BY <1>1, <1>2 DEF BindingsInv, BindingInv, Going, Vacant, relVars
  <1> QED
    BY <1>1, <1>3, <1>4, OneBinding DEF relVars

\* Lemma: such are the writes of Reconcile.
LEMMA StatusBindings ==
    ASSUME NodesInv, BindingsInv, NEW n \in Node,
           \/ NodeBeginPending(n) \/ NodePending(n) \/ NodeFirstPhase(n)
           \/ NodeRunning(n) \/ NodeReady(n) \/ NodeFinish(n) \/ NodeRestart(n)
    PROVE BindingsInv'
  <1> DEFINE c == cache[n]
  <1>1. c \in NodeObject(Claim) /\ BindingInv(n)
    BY DEF NodesInv, NodeTypes, NodeTypeOK, BindingsInv
  <1>2. /\ UNCHANGED <<cache, ctr, cleaner, tw, relVars>> /\ ~c.del /\ nodes[n] = c
        /\ c.state \in {Unset, "pending", "uninitialized", "ready"}
    BY DEF NodeBeginPending, NodePending, NodeFirstPhase, NodeRunning, NodeReady, NodeFinish,
           NodeRestart, Uninitialized, Reconciling, UpdateNode
  <1>3. Exists(c)
    BY <1>2, UnsetIsNone DEF Exists
  <1>4. PICK o : /\ UpdateNode(n, c, o)
                 /\ o \in NodeObject(Claim) /\ o.del = c.del /\ Exists(o)
                 /\ IsRequired(o) => IsRequired(c) \/ seenRel[n] # "unbound"
    <2>1. CASE NodeBeginPending(n)
      <3>1. PICK o : o = [c EXCEPT !.state = "pending"]
        OBVIOUS
      <3>2. o \in NodeObject(Claim) /\ o.del = c.del /\ o.state = "pending"
        BY <1>1, <3>1 DEF NodeObject
      <3> QED
        BY <2>1, <3>1, <3>2 DEF NodeBeginPending, Exists, IsRequired
    <2>2. CASE NodePending(n)
      <3>1. PICK o : o = [c EXCEPT !.state = "uninitialized"]
        OBVIOUS
      <3>2. o \in NodeObject(Claim) /\ o.del = c.del /\ o.state = "uninitialized"
        BY <1>1, <3>1 DEF NodeObject
      <3> QED
        BY <2>2, <3>1, <3>2 DEF NodePending, HasHost, Exists
    <2>3. CASE NodeFirstPhase(n) \/ NodeRunning(n)
      <3>1. PICK st \in {"pending", "running"} : UpdateNode(n, c, [c EXCEPT !.phase = st])
        BY <2>3 DEF NodeFirstPhase, NodeRunning
      <3>2. PICK o : o = [c EXCEPT !.phase = st]
        OBVIOUS
      <3>3. o \in NodeObject(Claim) /\ o.del = c.del /\ o.state = c.state
        BY <1>1, <3>2 DEF NodeObject
      <3> QED
        BY <1>3, <3>1, <3>2, <3>3 DEF Exists, IsRequired
    <2>4. CASE NodeReady(n) \/ NodeRestart(n)
      <3>1. PICK st \in {"ready", "uninitialized"} : UpdateNode(n, c, [c EXCEPT !.state = st])
        BY <2>4 DEF NodeReady, NodeRestart
      <3>2. PICK o : o = [c EXCEPT !.state = st]
        OBVIOUS
      <3>3. o \in NodeObject(Claim) /\ o.del = c.del /\ o.state = st
        BY <1>1, <3>2 DEF NodeObject
      <3>4. seenRel[n] # "unbound"
        BY <2>4 DEF NodeReady, NodeRestart, Uninitialized, HasHost
      <3> QED
        BY <3>1, <3>2, <3>3, <3>4 DEF Exists
    <2>5. CASE NodeFinish(n)
      <3>1. PICK st \in {"succeeded", "failed"} :
              UpdateNode(n, c, [c EXCEPT !.state = "finish", !.phase = st])
        BY <2>5 DEF NodeFinish
      <3>2. PICK o : o = [c EXCEPT !.state = "finish", !.phase = st]
        OBVIOUS
      <3>3. o \in NodeObject(Claim) /\ o.del = c.del /\ o.state = "finish"
        BY <1>1, <3>2 DEF NodeObject
      <3>4. seenRel[n] # "unbound"
        BY <2>5 DEF NodeFinish, Uninitialized, HasHost
      <3> QED
        BY <3>1, <3>2, <3>3, <3>4 DEF Exists
    <2> QED
      BY <2>1, <2>2, <2>3, <2>4, <2>5
  <1>5. PICK v \in Nat : v = c.ver + 1
    BY <1>1 DEF NodeObject
  <1>6. PICK q : q = [o EXCEPT !.ver = v]
    OBVIOUS
  <1>7. q.state = o.state /\ q.del = o.del
    BY <1>4, <1>6, NewVersion
  <1>8. nodes' = [nodes EXCEPT ![n] = q]
    BY <1>4, <1>5, <1>6 DEF UpdateNode
  <1>9. IsRequired(q) \/ q.del => seenRel[n] # "unbound"
    BY <1>1, <1>2, <1>4, <1>7 DEF IsRequired, BindingInv
  <1> QED
    BY <1>2, <1>3, <1>4, <1>7, <1>8, <1>9, BindingWritten DEF Exists

\* Lemma: the claim and the release of a node are such writes, too.
LEMMA ClaimBindings ==
    ASSUME NodesInv, WorkersInv, BindingsInv, InstallClaim \/ UninstallItem
    PROVE BindingsInv'
  <1> DEFINE n == Job.node
             c == cache[n]
  <1>1. CASE UNCHANGED nodeVars
    BY <1>1 DEF nodeVars, relVars, BindingsInv, Leaver, BindingInv, Vacant
  <1>2. CASE ~UNCHANGED nodeVars
    <2>1. ww.i \in 1 .. Len(Jobs[ww.w]) /\ ww.w \in Workload
      BY WorkerPlace, JobTypes DEF WorkersInv, InstallClaim, UninstallItem, AtItem, WorkerAt
    <2>2. n \in Node
      BY <2>1, JobTypes DEF Job
    <2>3. c \in NodeObject(Claim) /\ BindingInv(n)
      BY <2>2 DEF NodesInv, NodeTypes, NodeTypeOK, BindingsInv
    <2>4. /\ nodes[n] = c /\ UNCHANGED <<cache, ctr, cleaner, tw, relVars>>
          /\ c.state \in {"uninitialized", "ready", "finish"}
      BY <1>2
      DEF InstallClaim, UninstallItem, WorkloadNode, UpdateNode, CouldUninstall, nodeVars
    <2>5. PICK o : /\ UpdateNode(n, c, o)
                   /\ \/ o = [c EXCEPT !.claim = Self, !.image = Job.image]
                      \/ o = Released(c)
      BY <1>2 DEF InstallClaim, UninstallItem, WorkloadNode, nodeVars
    <2>6. o.del = c.del /\ o.state \in {c.state, "destroy"}
      BY <2>3, <2>5 DEF Released, NodeObject
    <2>7. PICK q : q = [o EXCEPT !.ver = c.ver + 1]
      OBVIOUS
    <2>8. q.del = c.del /\ q.state \in {c.state, "destroy"}
      BY <2>3, <2>5, <2>6, <2>7 DEF Released, NodeObject
    <2>9. nodes' = [nodes EXCEPT ![n] = q]
      BY <2>5, <2>7 DEF UpdateNode
    <2>10. seenRel[n] # "unbound"
      BY <2>3, <2>4, UnsetIsNone DEF BindingInv, IsRequired
    <2>11. PICK m \in Node : m = n
      BY <2>2
    <2> QED
      BY <2>4, <2>8, <2>9, <2>10, <2>11, BindingWritten DEF Exists
  <1> QED
    BY <1>1, <1>2

\* Lemma: a step on the host of one node, or in the worker, keeps it when it leaves
\* nothing behind after the binding.
LEMMA HostBindings ==
    ASSUME NodesInv, BindingsInv, NEW n \in Node, UNCHANGED <<nodes, cache, rel, seenRel>>,
           stray \subseteq stray', Leaver',
           \A m \in Node \ {n} : ctr'[m] = ctr[m] /\ cleaner'[m] = cleaner[m],
           rel[n] = "released" => Vacant(n)'
    PROVE BindingsInv'
  <1>1. BindingInv(n)'
    BY DEF BindingsInv, BindingInv
  <1>2. \A m \in Node \ {n} : Still(m) /\ rel'[m] = rel[m]
    BY DEF Still
  <1> QED
    BY <1>1, <1>2, OneBinding

\* Lemma: such are the steps of Reconcile on the host, of the containers and of the
\* cleaners: Reconcile does not start a container for a node that it knows to go, and
\* what it has started is gone before.
LEMMA ContainerBindings ==
    ASSUME NodesInv, BindingsInv, NEW n \in Node,
           \/ NodeCreateContainer(n) \/ NodeConnect(n) \/ NodeStart(n)
           \/ ContainerExit(n) \/ ContainerLost(n) \/ CleanerExit(n)
    PROVE BindingsInv'
  <1>1. UNCHANGED <<nodes, cache, tw, relVars>>
    BY DEF NodeCreateContainer, NodeConnect, NodeStart, ContainerExit, ContainerLost, CleanerExit
  <1>2. Leaver'
    BY <1>1 DEF BindingsInv, Leaver, relVars
  <1>3. \A m \in Node \ {n} : ctr'[m] = ctr[m] /\ cleaner'[m] = cleaner[m]
    BY DEF NodeCreateContainer, NodeConnect, NodeStart, ContainerExit, ContainerLost, CleanerExit,
           NodesInv, NodeTypes, NodeTypeOK
  <1>4. rel[n] = "released" => Going(cache[n]) /\ Vacant(n)
    BY DEF BindingsInv, BindingInv
  <1>5. rel[n] = "released" => Vacant(n)'
    <2>1. CASE NodeCreateContainer(n) \/ NodeConnect(n) \/ NodeStart(n)
      <3>1. ~Going(cache[n])
        BY <2>1 DEF NodeCreateContainer, NodeConnect, NodeStart, Uninitialized, Reconciling, Going,
                    Exists
      <3> QED
        BY <1>4, <3>1
    <2>2. CASE ContainerExit(n) \/ ContainerLost(n)
      BY <1>4, <2>2 DEF ContainerExit, ContainerLost, Vacant
    <2>3. CASE CleanerExit(n)
      BY <1>4, <2>3 DEF CleanerExit, Vacant, relVars
    <2> QED
      BY <2>1, <2>2, <2>3
  <1> QED
    BY <1>1, <1>2, <1>3, <1>5, HostBindings DEF relVars

\* Lemma: a pass of finalize keeps it: a cleaner that is created when the binding is
\* gone is a stray.
LEMMA FinalizeBindings ==
    ASSUME NodesInv, BindingsInv, NEW n \in Node,
           CleanerCreate(n) \/ CleanerStart(n) \/ CleanerWait(n)
    PROVE BindingsInv'
  <1>1. /\ UNCHANGED <<nodes, cache, rel, seenRel>> /\ stray \subseteq stray' /\ tw.pc = "idle"
        /\ ctr' = [ctr EXCEPT ![n] = NoContainer] /\ seenRel[n] = "bound"
    BY DEF CleanerCreate, CleanerStart, CleanerWait, Finalizing, HasHost, removeContainer, relVars
  <1>2. ctr'[n].st = "none" /\ \A m \in Node \ {n} : ctr'[m] = ctr[m]
    BY <1>1 DEF NodesInv, NodeTypes, NodeTypeOK, NoContainer
  <1>3. \A m \in Node \ {n} : cleaner'[m] = cleaner[m]
    BY DEF CleanerCreate, CleanerStart, CleanerWait, NodesInv, NodeTypes, NodeTypeOK
  <1>4. BindingInv(n)
    BY DEF BindingsInv
  <1>5. Leaver'
    <2>1. CASE tw' = tw
      BY <1>1, <2>1 DEF Leaver
    <2>2. CASE CleanerWait(n)
      <3>1. tw'.pc = "wait" /\ tw'.n = n /\ tw'.obj = cache[n]
        BY <2>2 DEF CleanerWait
      <3> QED
        BY <1>1, <3>1 DEF Leaver, Going
    <2> QED
      BY <2>1, <2>2 DEF CleanerCreate, CleanerStart
  <1>6. rel[n] = "released" => Vacant(n)'
    <2>1. CASE CleanerCreate(n)
      BY <1>2, <2>1 DEF CleanerCreate, Vacant
    <2>2. CASE CleanerStart(n) \/ CleanerWait(n)
      BY <1>2, <1>4, <2>2 DEF CleanerStart, CleanerWait, BindingInv, Vacant, relVars
    <2> QED
      BY <2>1, <2>2
  <1> QED
    BY <1>1, <1>2, <1>3, <1>5, <1>6, HostBindings

\* Lemma: the end of a wait keeps it, and so do the two writes with which a node goes.
\* The first is based on what was known when the container was removed; a node that
\* is not finalized has given its binding back before.
LEMMA EndBindings ==
    ASSUME NodesInv, BindingTypeOK, BindingsInv, NEW n \in Node, NodeEnd(n) \/ NodeSkip(n)
    PROVE BindingsInv'
  <1> DEFINE t == tw.obj
  <1>1. /\ t \in NodeObject(Claim) /\ cache[n] \in NodeObject(Claim) /\ nodes[n] \in NodeObject(Claim)
        /\ BindingInv(n) /\ Behind(n)
    BY DEF NodesInv, NodeTypes, NodeTypeOK, BindingsInv, NodeInv
  <1>2. TIdle.pc = "idle"
    BY DEF TIdle
  <1>3. CASE NodeReset(n)
    <2>1. /\ nodes[n] = t /\ ~t.del /\ t.state = "destroy" /\ tw' = TIdle
          /\ nodes' = [nodes EXCEPT ![n] = [Reset(t) EXCEPT !.ver = t.ver + 1]]
          /\ cleaner' = [cleaner EXCEPT ![n] = "none"] /\ UNCHANGED <<cache, ctr, relVars>>
      BY <1>3 DEF NodeReset, CleanerDone, UpdateNode, relVars, NodesInv, Waiting
    <2>2. PICK q : q = [Reset(t) EXCEPT !.ver = t.ver + 1]
      OBVIOUS
    <2>3. q.state = "uninitialized" /\ q.del = t.del
      BY <1>1, <2>2 DEF Reset, NodeObject
    <2>4. seenRel[n] # "unbound"
      BY <1>1, <2>1, UnsetIsNone DEF BindingInv, IsRequired
    <2> QED
      BY <2>1, <2>2, <2>3, <2>4, BindingWritten DEF Exists
  <1>4. CASE NodeCleanConflict(n) \/ NodeGoneConflict(n)
    <2>1. /\ UNCHANGED <<nodes, cache, ctr, rel, seenRel, stray>> /\ tw' = TIdle
          /\ cleaner' = cleaner \/ cleaner' = [cleaner EXCEPT ![n] = "none"]
      BY <1>4 DEF NodeCleanConflict, NodeGoneConflict, CleanerDone, relVars
    <2>2. Leaver'
      BY <1>2, <2>1 DEF Leaver
    <2>3. /\ \A m \in Node \ {n} : cleaner'[m] = cleaner[m]
          /\ cleaner'[n] \in {cleaner[n], "none"}
      BY <2>1 DEF NodesInv, NodeTypes, NodeTypeOK
    <2>4. rel[n] = "released" => Vacant(n)'
      BY <1>1, <2>1, <2>3 DEF BindingInv, Vacant
    <2> QED
      BY <2>1, <2>2, <2>3, <2>4, HostBindings
  <1>5. CASE NodeSkip(n)
    <2>1. /\ UNCHANGED <<nodes, cache, ctr, cleaner, rel, seenRel, stray>>
          /\ tw' = [TIdle EXCEPT !.pc = "finalizer", !.n = n, !.obj = cache[n]]
          /\ cache[n].del /\ seenRel[n] # "bound"
      BY <1>5 DEF NodeSkip, HasHost, relVars
    <2>2. tw'.pc = "finalizer" /\ tw'.n = n
      BY <2>1 DEF TIdle
    <2>3. nodes[n].del \/ ~Exists(nodes[n])
      BY <1>1, <2>1 DEF Behind, LagOK
    <2>4. rel[n] = "released"
      BY <1>1, <2>1, <2>3 DEF BindingInv, BindingTypeOK, Bindings
    <2>5. Leaver'
      BY <2>1, <2>2, <2>4 DEF Leaver
    <2>6. rel[n] = "released" => Vacant(n)'
      BY <1>1, <2>1 DEF BindingInv, Vacant
    <2> QED
      BY <2>1, <2>5, <2>6, HostBindings
  <1>6. CASE NodeRelease(n)
    <2>1. /\ UNCHANGED <<nodes, cache, ctr, seenRel, stray>> /\ tw.pc = "wait" /\ tw.n = n /\ t.del
          /\ tw' = [TIdle EXCEPT !.pc = "finalizer", !.n = n, !.obj = t]
          /\ cleaner' = [cleaner EXCEPT ![n] = "none"]
          /\ rel' = [rel EXCEPT ![n] = "released"]
      BY <1>6 DEF NodeRelease, CleanerDone
    <2>2. tw'.pc = "finalizer" /\ tw'.n = n
      BY <2>1 DEF TIdle
    <2>3. /\ cleaner'[n] = "none" /\ ctr[n].st = "none"
          /\ \A m \in Node \ {n} : cleaner'[m] = cleaner[m]
      BY <2>1 DEF NodesInv, NodeTypes, NodeTypeOK, Waiting
    <2>4. Going(cache[n]) /\ Going(nodes[n])
      BY <1>1, <2>1 DEF BindingsInv, Leaver, Behind, LagOK, Going
    <2>5. rel'[n] = "released" /\ \A m \in Node \ {n} : rel'[m] = rel[m]
      BY <2>1 DEF BindingTypeOK, Bindings
    <2>6. Leaver'
      BY <2>1, <2>2, <2>5 DEF Leaver
    <2>7. BindingInv(n)'
      BY <1>1, <2>1, <2>3, <2>4, <2>5 DEF BindingInv, Vacant
    <2> QED
      BY <2>1, <2>3, <2>5, <2>6, <2>7, OneBinding DEF Still
  <1>7. CASE NodeGone(n)
    <2>1. /\ UNCHANGED <<cache, ctr, cleaner, rel, seenRel, stray>> /\ tw.pc = "finalizer"
          /\ tw.n = n /\ nodes[n] = t /\ tw' = TIdle /\ nodes' = [nodes EXCEPT ![n] = Gone(t)]
      BY <1>7 DEF NodeGone, relVars
    <2>2. PICK q : q = Gone(t)
      OBVIOUS
    <2>3. q.state = "absent" /\ q.del = FALSE
      BY <2>2 DEF Gone, NewNode
    <2>4. nodes'[n] = q /\ \A m \in Node \ {n} : nodes'[m] = nodes[m]
      BY <2>1, <2>2 DEF NodesInv, NodeTypes, NodeTypeOK
    <2>5. rel[n] = "released"
      BY <2>1 DEF BindingsInv, Leaver
    <2>6. Leaver'
      BY <1>2, <2>1 DEF Leaver
    <2>7. BindingInv(n)'
      BY <1>1, <2>1, <2>3, <2>4, <2>5 DEF BindingInv, Vacant, Going, Exists, IsRequired
    <2> QED
      BY <2>1, <2>4, <2>6, <2>7, OneBinding DEF Still
  <1> QED
    BY <1>3, <1>4, <1>5, <1>6, <1>7 DEF NodeEnd

\* Lemma: the deletion of a node, its binding and its watch keep it.
LEMMA OutsideBindings ==
    ASSUME NodesInv, BindingTypeOK, BindingsInv, NEW n \in Node,
           DeleteNode(n) \/ BindNode(n) \/ WatchNode(n)
    PROVE BindingsInv'
  <1>1. /\ cache[n] \in NodeObject(Claim) /\ nodes[n] \in NodeObject(Claim)
        /\ BindingInv(n) /\ Behind(n)
    BY DEF NodesInv, NodeTypes, NodeTypeOK, BindingsInv, NodeInv
  <1>2. CASE DeleteNode(n)
    <2>1. /\ nodes' = [nodes EXCEPT ![n].del = TRUE, ![n].ver = @ + 1] /\ IsRequired(nodes[n])
          /\ UNCHANGED <<cache, ctr, cleaner, tw, relVars>>
      BY <1>2 DEF DeleteNode
    <2>2. PICK v : v = nodes[n].ver + 1
      OBVIOUS
    <2>3. PICK q : q = [nodes[n] EXCEPT !.del = TRUE, !.ver = v]
      OBVIOUS
    <2>4. q.state = nodes[n].state /\ q.del
      BY <1>1, <2>3 DEF NodeObject
    <2>5. nodes' = [nodes EXCEPT ![n] = q]
      BY <1>1, <2>1, <2>2, <2>3 DEF NodeObject
    <2>6. seenRel[n] # "unbound" /\ Exists(nodes[n])
      BY <1>1, <2>1 DEF BindingInv, IsRequired, Exists
    <2> QED
      BY <2>1, <2>4, <2>5, <2>6, BindingWritten DEF Exists
  <1>3. CASE BindNode(n)
    <2>1. /\ UNCHANGED <<nodes, cache, ctr, cleaner, tw, seenRel, stray>>
          /\ Exists(nodes[n]) /\ rel[n] = "unbound" /\ rel' = [rel EXCEPT ![n] = "bound"]
      BY <1>3 DEF BindNode
    <2>2. rel'[n] = "bound" /\ \A m \in Node \ {n} : rel'[m] = rel[m]
      BY <2>1 DEF BindingTypeOK, Bindings
    <2>3. Leaver'
      BY <2>1, <2>2 DEF NodesInv, Waiting, BindingsInv, Leaver
    <2>4. BindingInv(n)'
      BY <1>1, <2>1, <2>2 DEF BindingInv
    <2> QED
      BY <2>1, <2>2, <2>3, <2>4, OneBinding DEF Still
  <1>4. CASE WatchNode(n)
    <2>1. UNCHANGED <<nodes, ctr, cleaner, tw, relVars>> /\ cache' = [cache EXCEPT ![n] = nodes[n]]
      BY <1>4 DEF WatchNode
    <2>2. cache'[n] = nodes[n] /\ \A m \in Node \ {n} : cache'[m] = cache[m]
      BY <2>1 DEF NodesInv, NodeTypes, NodeTypeOK
    <2>3. Leaver'
      BY <1>1, <2>1, <2>2
      DEF NodesInv, Waiting, BindingsInv, Leaver, Behind, LagOK, Going, relVars
    <2>4. BindingInv(n)'
      BY <1>1, <2>1, <2>2 DEF BindingInv, Vacant, relVars
    <2> QED
      BY <2>1, <2>2, <2>3, <2>4, OneBinding DEF Still, relVars
  <1> QED
    BY <1>2, <1>3, <1>4

\* Lemma: initially no binding has been given back.
LEMMA BindingsInitially == Init => BindingsInv
  <1> SUFFICES ASSUME Init PROVE BindingsInv
    OBVIOUS
  <1>1. Leaver
    BY DEF Init, NodeInit, Leaver, TIdle
  <1>2. ASSUME NEW n \in Node PROVE BindingInv(n)
    <2>1. CASE Bound
      BY <2>1 DEF Init, NodeInit, NewNode, BindingInv, Exists
    <2>2. CASE ~Bound
      BY <2>2, UnsetIsNone DEF Init, NodeInit, NewNode, BindingInv, Exists, IsRequired
    <2> QED
      BY <2>1, <2>2
  <1> QED
    BY <1>1, <1>2 DEF BindingsInv

\* Lemma: every step keeps what is said of the bindings.
LEMMA BindingsKept == BaseInv /\ BindingsInv /\ [Next]_vars => BindingsInv'
  <1> SUFFICES ASSUME BaseInv, BindingsInv, [Next]_vars PROVE BindingsInv'
    OBVIOUS
  <1>1. NodesInv /\ BindingTypeOK /\ WorkersInv
    BY DEF BaseInv
  <1>2. ASSUME NEW n \in Node, NodeChange(n) PROVE BindingsInv'
    BY <1>1, <1>2, StatusBindings, ContainerBindings, FinalizeBindings, EndBindings, OutsideBindings
    DEF NodeChange, NodeBegin
  <1>3. CASE InstallClaim \/ UninstallItem
    BY <1>1, <1>3, ClaimBindings
  <1>4. CASE WatchRelationship
    <2>1. seenRel' = rel /\ UNCHANGED <<nodes, cache, ctr, cleaner, tw, rel, stray>>
      BY <1>4 DEF WatchRelationship
    <2>2. ASSUME NEW n \in Node PROVE BindingInv(n)'
      BY <2>1 DEF BindingsInv, BindingInv, Vacant
    <2> QED
      BY <2>1, <2>2 DEF BindingsInv, Leaver
  <1>5. CASE Anew
    <2>1. /\ seenRel' = rel /\ cache' = nodes /\ tw' = TIdle
          /\ UNCHANGED <<nodes, ctr, cleaner, rel, stray>>
      BY <1>5 DEF Anew
    <2>2. ASSUME NEW n \in Node PROVE BindingInv(n)'
      BY <2>1 DEF BindingsInv, BindingInv, Vacant
    <2> QED
      BY <2>1, <2>2 DEF BindingsInv, Leaver, TIdle
  <1>6. CASE UNCHANGED nodeVars
    BY <1>6 DEF nodeVars, relVars, BindingsInv, Leaver, BindingInv, Vacant
  <1> QED
    BY <1>2, <1>3, <1>4, <1>5, <1>6, NodeChanges

\* Theorem: a node that has given its binding back, and one that is gone, has left
\* neither its container nor a cleaner, but for a cleaner that an old copy of the
\* Relationship had created after that (finalize of testresource_controller.go and
\* the two writes that follow it), with any lag of the two caches, any number of
\* refused writes and any crashes.
THEOREM HostsAreClean == Spec => []HostClean
  <1>1. BindingsInv => HostClean
    BY DEF BindingsInv, BindingInv, Vacant, HostClean
  <1> QED
    BY <1>1, BaseHolds, BindingsInitially, BindingsKept, PTL DEF Spec

----------------------------------------------------------------------------
(* Results.                                                                 *)

\* q follows node m as it is: it says nothing wrong of a container, it is claimed
\* for an item, and no workload that is there loses it.
Follows(m, q) ==
    /\ PhaseOf(m, q) /\ ClaimOf(m, q)
    /\ \A v \in Workload : \A i \in Items(v) :
          Live(v) /\ Jobs[v][i].node = m /\ Owned(RefOf(v), nodes[m]) => Owned(RefOf(v), q)

Recorded(m) == ctr[m].st \in {"succeeded", "failed"} => <<m, ctr[m].by, ctr[m].st>> \in ended

\* Lemma: a step of nodes, each of which follows itself, keeps what is said of the
\* nodes and the workloads.
LEMMA NodesFollow ==
    ASSUME WorkInv, BaseInv', LoopInv', UNCHANGED workloads, ended \subseteq ended',
           \A m \in Node : /\ Follows(m, nodes'[m]) /\ Recorded(m)'
                           /\ cache'[m] \in {cache[m], nodes[m]}
    PROVE WorkInv'
  <1>1. ASSUME NEW m \in Node PROVE Counted(m)'
    <2>1. Counted(m) /\ Follows(m, nodes'[m]) /\ Recorded(m)' /\ cache'[m] \in {cache[m], nodes[m]}
      BY DEF WorkInv
    <2>2. PhaseOf(m, nodes'[m]) /\ PhaseOf(m, cache'[m])
      BY <2>1 DEF Counted, Follows
    <2>3. PhaseOf(m, nodes[m])' /\ PhaseOf(m, cache[m])'
      BY <2>2 DEF PhaseOf
    <2>4. ClaimOf(m, nodes'[m]) /\ ClaimOf(m, cache'[m])
      BY <2>1 DEF Counted, Follows
    <2>5. ClaimOf(m, nodes[m])' /\ ClaimOf(m, cache[m])'
      BY <2>4 DEF ClaimOf, Items
    <2> QED
      BY <2>1, <2>3, <2>5 DEF Counted, Recorded
  <1>2. ASSUME NEW w \in Workload PROVE WorkloadInv(w)'
    <2>1. WorkloadInv(w) /\ RefOf(w)' = RefOf(w) /\ (Live(w)' <=> Live(w))
      BY DEF WorkInv, RefOf, Live
    <2>2. ASSUME NEW i \in Items(w), Live(w), Owned(RefOf(w), cache[Jobs[w][i].node])
          PROVE /\ Owned(RefOf(w), cache'[Jobs[w][i].node])
                /\ Owned(RefOf(w), nodes'[Jobs[w][i].node])
      <3>1. PICK m \in Node : m = Jobs[w][i].node
        BY JobTypes DEF Items
      <3>2. Owned(RefOf(w), nodes[m])
        BY <2>1, <2>2, <3>1 DEF WorkloadInv, Kept
      <3>3. Owned(RefOf(w), nodes'[m])
        BY <2>2, <3>1, <3>2 DEF Follows
      <3> QED
        BY <2>2, <3>1, <3>2, <3>3
    <2>3. ASSUME NEW i \in Items(w), Live(w), Owned(RefOf(w), cache'[Jobs[w][i].node])
          PROVE Owned(RefOf(w), nodes'[Jobs[w][i].node])
      <3>1. PICK m \in Node : m = Jobs[w][i].node
        BY JobTypes DEF Items
      <3>2. CASE cache'[m] = cache[m]
        BY <2>2, <2>3, <3>1, <3>2
      <3>3. CASE cache'[m] = nodes[m]
        BY <2>3, <3>1, <3>3 DEF Follows
      <3> QED
        BY <3>1, <3>2, <3>3
    <2>4. (Live(w) => Kept(w))'
      BY <2>1, <2>3 DEF Kept, Items
    <2>5. (Live(w) /\ workloads[w].state \in {"running", "succeeded", "failed"} => AllOwned(w))'
      BY <2>1, <2>2 DEF WorkloadInv, AllOwned, Items
    <2>6. Noted(w, workloads[w].phases)'
      BY <2>1 DEF WorkloadInv, Noted, Items
    <2> QED
      BY <2>1, <2>4, <2>5, <2>6 DEF WorkloadInv, Items
  <1> QED
    BY <1>1, <1>2 DEF WorkInv

\* Lemma: a node that is left alone follows itself.
LEMMA StillFollows ==
    ASSUME WorkInv, NEW m \in Node
    PROVE Follows(m, nodes[m]) /\ Recorded(m)
  BY DEF WorkInv, Counted, Follows, Recorded

\* Lemma: what the worker knows of the nodes is so after a step of the nodes.
LEMMA LoopFollows ==
    ASSUME WorkInv, UNCHANGED workloads, ended \subseteq ended', ww' \in {ww, WIdle},
           \A m \in Node : /\ Follows(m, nodes'[m])
                           /\ cache'[m] \in {cache[m], nodes[m]}
    PROVE LoopInv'
  <1>1. CASE ww' = WIdle
    BY <1>1 DEF LoopInv, WIdle
  <1>2. CASE ww' = ww /\ ww.pc # "idle"
    <2>1. PICK w \in Workload : w = ww.w /\ ww \in WorkerAt(w)
      BY <1>2, WorkerPlace DEF WorkInv, BaseInv, WorkersInv
    <2>2. WorkloadInv(w) /\ RefOf(w)' = RefOf(w) /\ (Live(w)' <=> Live(w))
      BY DEF WorkInv, RefOf, Live
    <2>3. ASSUME NEW j \in Items(w), Live(w), Owned(RefOf(w), cache[Jobs[w][j].node])
          PROVE Owned(RefOf(w), cache'[Jobs[w][j].node])
      <3>1. PICK m \in Node : m = Jobs[w][j].node
        BY JobTypes DEF Items
      <3>2. Owned(RefOf(w), nodes[m])
        BY <2>2, <2>3, <3>1 DEF WorkloadInv, Kept
      <3> QED
        BY <2>3, <3>1, <3>2
    <2>4. \A j \in 1 .. ww.i - 1 : j \in Items(w)
      BY <2>1, JobTypes DEF WorkerAt, Items
    <2>5. ww.pc = "install" => (ww.count <= ww.i - 1)
      BY DEF WorkInv, LoopInv
    <2>6. ww.pc = "install" /\ Live(w) /\ ww.count = ww.i - 1 =>
            \A j \in 1 .. ww.i - 1 : Owned(RefOf(w), cache'[Jobs[w][j].node])
      BY <2>1, <2>3, <2>4 DEF WorkInv, LoopInv
    <2>7. ww.pc = "inspect" /\ Live(w) => Noted(w, ww.phases)
      BY <2>1 DEF WorkInv, LoopInv
    <2>8. ww.pc = "inspect" /\ Live(w) => Noted(w, ww.phases)'
      BY <1>2, <2>2, <2>7 DEF Noted, Items
    <2> QED
      BY <1>2, <2>1, <2>2, <2>5, <2>6, <2>8 DEF LoopInv
  <1>3. CASE ww' = ww /\ ww.pc = "idle"
    BY <1>3 DEF LoopInv
  <1> QED
    BY <1>1, <1>2, <1>3

\* Lemma: a node that is written with something that follows it.
LEMMA NodeFollows ==
    ASSUME WorkInv, BaseInv', UNCHANGED <<workloads, cache, ctr, ended>>, LoopInv',
           NEW n \in Node, NEW q, Follows(n, q), nodes' = [nodes EXCEPT ![n] = q]
    PROVE WorkInv'
  <1>1. nodes'[n] = q /\ \A m \in Node \ {n} : nodes'[m] = nodes[m]
    BY DEF WorkInv, BaseInv, NodesInv, NodeTypes, NodeTypeOK
  <1>2. ASSUME NEW m \in Node PROVE Follows(m, nodes'[m])
    BY <1>1, StillFollows
  <1>3. ASSUME NEW m \in Node PROVE Recorded(m)'
    BY StillFollows DEF Recorded
  <1> QED
    BY <1>2, <1>3, NodesFollow

\* Lemma: so is a node that is written while the worker of the workloads does
\* nothing.
LEMMA NodeFollowsAlone ==
    ASSUME WorkInv, BaseInv', UNCHANGED <<workloads, ww, cache, ctr, ended>>,
           NEW n \in Node, NEW q, Follows(n, q), nodes' = [nodes EXCEPT ![n] = q]
    PROVE WorkInv'
  <1>1. nodes'[n] = q /\ \A m \in Node \ {n} : nodes'[m] = nodes[m]
    BY DEF WorkInv, BaseInv, NodesInv, NodeTypes, NodeTypeOK
  <1>2. ASSUME NEW m \in Node PROVE Follows(m, nodes'[m])
    BY <1>1, StillFollows
  <1>3. LoopInv'
    BY <1>2, LoopFollows
  <1> QED
    BY <1>3, NodeFollows

\* Lemma: what happens on the hosts keeps what is said of results, when a container
\* that has ended is on record.
LEMMA HostFollows ==
    ASSUME WorkInv, BaseInv', UNCHANGED <<workloads, nodes>>, ww' \in {ww, WIdle},
           ended \subseteq ended',
           \A m \in Node : Recorded(m)' /\ cache'[m] \in {cache[m], nodes[m]}
    PROVE WorkInv'
  <1>1. \A m \in Node : Follows(m, nodes'[m])
    BY StillFollows
  <1>2. LoopInv'
    BY <1>1, LoopFollows
  <1> QED
    BY <1>1, <1>2, NodesFollow

\* Lemma: a status keeps its node with its workload if it goes from running to
\* running or to an end.
LEMMA StatusFollows ==
    ASSUME WorkInv, NEW n \in Node, NEW q, PhaseOf(n, q),
           \/ ~Exists(q) /\ q.claim = None
           \/ /\ Exists(nodes[n]) /\ q.claim = nodes[n].claim
              /\ nodes[n].state = "finish" => q.state = "finish"
              /\ nodes[n].state \in {"uninitialized", "ready"} /\ nodes[n].phase = "running" =>
                    \/ q.state \in {"uninitialized", "ready"} /\ q.phase = "running"
                    \/ q.state = "finish"
    PROVE Follows(n, q)
  <1>1. ClaimOf(n, q)
    <2>1. ClaimOf(n, nodes[n])
      BY DEF WorkInv, Counted
    <2> QED
      BY <2>1 DEF ClaimOf
  <1> QED
    BY <1>1 DEF Follows, Owned

\* Lemma: the status writes of Reconcile keep what is said of results: a node
\* finishes as its container ended, which is on record.
LEMMA NodeStatusResults ==
    ASSUME WorkInv, BaseInv', NEW n \in Node, UNCHANGED <<workloads, ww, ended>>,
           \/ NodeBeginPending(n) \/ NodePending(n) \/ NodeFirstPhase(n)
           \/ NodeRunning(n) \/ NodeReady(n) \/ NodeFinish(n) \/ NodeRestart(n)
    PROVE WorkInv'
  <1> DEFINE c == cache[n]
             k == ctr[n]
  <1>1. c \in NodeObject(Claim) /\ nodes[n] = c /\ Fits(c, k) /\ UNCHANGED <<cache, ctr>>
        /\ ~c.del /\ PhaseOf(n, c) /\ Recorded(n) /\ Exists(c)
    <2>1. c.state \in {Unset, "pending", "uninitialized", "ready"}
      BY DEF NodeBeginPending, NodePending, NodeFirstPhase, NodeRunning, NodeReady, NodeFinish,
             NodeRestart, Uninitialized, Reconciling
    <2> QED
      BY <2>1, UnsetIsNone
      DEF WorkInv, BaseInv, NodesInv, NodeTypes, NodeTypeOK, NodeInv, Counted, Recorded, Exists,
          NodeBeginPending, NodePending, NodeFirstPhase, NodeRunning, NodeReady, NodeFinish,
          NodeRestart, Uninitialized, Reconciling, UpdateNode
  <1>2. ASSUME NEW o \in NodeObject(Claim), UpdateNode(n, c, o), o.claim = c.claim,
               PhaseOf(n, o), c.state = "finish" => o.state = "finish",
               c.state \in {"uninitialized", "ready"} /\ c.phase = "running" =>
                  \/ o.state \in {"uninitialized", "ready"} /\ o.phase = "running"
                  \/ o.state = "finish"
        PROVE WorkInv'
    <2>1. PICK v \in Nat : v = c.ver + 1
      BY <1>1 DEF NodeObject
    <2>2. PICK q : q = [o EXCEPT !.ver = v]
      OBVIOUS
    <2>3. q.state = o.state /\ q.phase = o.phase /\ q.claim = o.claim
      BY <2>2, NewVersion
    <2>4. nodes' = [nodes EXCEPT ![n] = q]
      BY <1>2, <2>1, <2>2 DEF UpdateNode
    <2>5. PhaseOf(n, q)
      BY <1>2, <2>3 DEF PhaseOf
    <2>6. Follows(n, q)
      BY <1>1, <1>2, <2>3, <2>5, StatusFollows
    <2> QED
      BY <1>1, <2>4, <2>6, NodeFollowsAlone
  <1>3. CASE NodeBeginPending(n) \/ NodePending(n)
    <2>1. PICK st \in {"pending", "uninitialized"} : UpdateNode(n, c, [c EXCEPT !.state = st])
      BY <1>3 DEF NodeBeginPending, NodePending
    <2>2. c.state \in {Unset, "pending"}
      BY <1>3 DEF NodeBeginPending, NodePending, Reconciling
    <2>3. PICK o : o = [c EXCEPT !.state = st]
      OBVIOUS
    <2>4. o \in NodeObject(Claim) /\ o.claim = c.claim /\ o.state = st
      BY <1>1, <2>3 DEF NodeObject
    <2>5. PhaseOf(n, o)
      BY <2>4 DEF PhaseOf
    <2> QED
      BY <1>2, <2>1, <2>2, <2>3, <2>4, <2>5, UnsetIsNone
  <1>4. CASE NodeFirstPhase(n) \/ NodeRunning(n)
    <2>1. PICK st \in {"pending", "running"} : UpdateNode(n, c, [c EXCEPT !.phase = st])
                                               /\ (st = "running" \/ c.phase = Unset)
      BY <1>4 DEF NodeFirstPhase, NodeRunning
    <2>2. c.state = "uninitialized"
      BY <1>4 DEF NodeFirstPhase, NodeRunning, Uninitialized, Reconciling
    <2>3. PICK o : o = [c EXCEPT !.phase = st]
      OBVIOUS
    <2>4. o \in NodeObject(Claim) /\ o.claim = c.claim /\ o.state = "uninitialized" /\ o.phase = st
      BY <1>1, <2>2, <2>3 DEF NodeObject
    <2>5. PhaseOf(n, o)
      BY <2>4 DEF PhaseOf
    <2> QED
      BY <1>2, <2>1, <2>2, <2>3, <2>4, <2>5, UnsetIsNone
  <1>5. CASE NodeReady(n)
    <2>1. UpdateNode(n, c, [c EXCEPT !.state = "ready"]) /\ c.state = "uninitialized"
          /\ c.phase = "running"
      BY <1>5 DEF NodeReady, Uninitialized, Reconciling
    <2>2. PICK o : o = [c EXCEPT !.state = "ready"]
      OBVIOUS
    <2>3. o \in NodeObject(Claim) /\ o.claim = c.claim /\ o.state = "ready" /\ o.phase = "running"
      BY <1>1, <2>1, <2>2 DEF NodeObject
    <2>4. PhaseOf(n, o)
      BY <2>3 DEF PhaseOf
    <2> QED
      BY <1>2, <2>1, <2>2, <2>3, <2>4
  <1>6. CASE NodeFinish(n)
    <2>1. /\ UpdateNode(n, c, [c EXCEPT !.state = "finish", !.phase = k.st])
          /\ k.st \in {"succeeded", "failed"} /\ c.state \in {"uninitialized", "ready"}
      BY <1>6 DEF NodeFinish, Uninitialized, Reconciling
    <2>2. k.by = c.claim
      BY <1>1, <2>1 DEF Fits, Leaving
    <2>3. PICK o : o = [c EXCEPT !.state = "finish", !.phase = k.st]
      OBVIOUS
    <2>4. o \in NodeObject(Claim) /\ o.claim = c.claim /\ o.state = "finish" /\ o.phase = k.st
      BY <1>1, <2>1, <2>3 DEF NodeObject
    <2>5. PhaseOf(n, o)
      BY <1>1, <2>1, <2>2, <2>4 DEF PhaseOf, Recorded
    <2> QED
      BY <1>2, <2>1, <2>3, <2>4, <2>5
  <1>7. CASE NodeRestart(n)
    <2>1. UpdateNode(n, c, [c EXCEPT !.state = "uninitialized"]) /\ c.state = "ready"
      BY <1>7 DEF NodeRestart, Reconciling
    <2>2. PICK o : o = [c EXCEPT !.state = "uninitialized"]
      OBVIOUS
    <2>3. /\ o \in NodeObject(Claim) /\ o.claim = c.claim /\ o.state = "uninitialized"
          /\ o.phase = c.phase
      BY <1>1, <2>2 DEF NodeObject
    <2>4. PhaseOf(n, o)
      BY <2>3 DEF PhaseOf
    <2> QED
      BY <1>1, <1>2, <2>1, <2>2, <2>3, <2>4 DEF PhaseOf
  <1> QED
    BY <1>3, <1>4, <1>5, <1>6, <1>7

\* Lemma: so does what the resource controller does on the host.
LEMMA NodeHostResults ==
    ASSUME WorkInv, BaseInv', NEW n \in Node, UNCHANGED <<workloads, ww, ended>>,
           \/ NodeCreateContainer(n) \/ NodeConnect(n) \/ NodeStart(n)
           \/ CleanerCreate(n) \/ CleanerStart(n) \/ CleanerWait(n)
    PROVE WorkInv'
  <1>1. UNCHANGED <<nodes, cache>>
    BY DEF NodeCreateContainer, NodeConnect, NodeStart, CleanerCreate, CleanerStart, CleanerWait
  <1>2. ctr \in [Node -> [st : {"none", "created", "connected", "running", "succeeded", "failed"},
                          image : Image \cup {None}, by : Claim]]
    BY DEF WorkInv, BaseInv, NodesInv, NodeTypes, NodeTypeOK
  <1>3. ctr'[n].st \notin {"succeeded", "failed"} /\ \A m \in Node \ {n} : ctr'[m] = ctr[m]
    <2>1. CASE NodeCreateContainer(n) \/ NodeConnect(n) \/ NodeStart(n)
      BY <1>2, <2>1 DEF NodeCreateContainer, NodeConnect, NodeStart
    <2>2. CASE CleanerCreate(n) \/ CleanerStart(n) \/ CleanerWait(n)
      BY <1>2, <2>2
      DEF CleanerCreate, CleanerStart, CleanerWait, removeContainer, NoContainer
    <2> QED
      BY <2>1, <2>2
  <1>4. ASSUME NEW m \in Node PROVE Recorded(m)'
    BY <1>3, StillFollows DEF Recorded
  <1> QED
    BY <1>1, <1>4, HostFollows

\* Lemma: so does the end of its wait: what is wiped is nobody's, and what is gone
\* is no longer looked at.
LEMMA NodeEndResults ==
    ASSUME WorkInv, BaseInv', NEW n \in Node, NodeEnd(n) \/ NodeSkip(n),
           UNCHANGED <<workloads, ww, ended>>
    PROVE WorkInv'
  <1> DEFINE t == tw.obj
  <1>1. /\ UNCHANGED <<cache, ctr>> /\ t \in NodeObject(Claim)
        /\ tw.pc = "wait" => t.del \/ t.state = "destroy"
    BY DEF NodeEnd, NodeReset, NodeRelease, NodeCleanConflict, NodeSkip, NodeGone,
           NodeGoneConflict, CleanerDone, WorkInv, BaseInv, NodesInv, NodeTypes, NodeTypeOK, Waiting
  <1>2. t.ver + 1 \in Nat
    BY <1>1 DEF NodeObject
  <1>3. CASE NodeReset(n)
    <2>1. /\ nodes[n] = t /\ t.state = "destroy"
          /\ nodes' = [nodes EXCEPT ![n] = [Reset(t) EXCEPT !.ver = t.ver + 1]]
      BY <1>1, <1>3 DEF NodeReset, CleanerDone, UpdateNode
    <2>2. PICK q : q = [Reset(t) EXCEPT !.ver = t.ver + 1]
      OBVIOUS
    <2>3. q.state = "uninitialized" /\ q.claim = t.claim
      BY <1>1, <1>2, <2>2 DEF NodeObject, Reset
    <2>4. PhaseOf(n, q)
      BY <2>3 DEF PhaseOf
    <2>5. Follows(n, q)
      BY <2>1, <2>3, <2>4, StatusFollows DEF Exists
    <2> QED
      BY <1>1, <2>1, <2>2, <2>5, NodeFollowsAlone
  <1>4. CASE NodeGone(n)
    <2>1. nodes' = [nodes EXCEPT ![n] = Gone(t)]
      BY <1>4 DEF NodeGone
    <2>2. PICK q : q = Gone(t)
      OBVIOUS
    <2>3. q.state = "absent" /\ q.claim = None
      BY <1>2, <2>2 DEF Gone, NewNode
    <2>4. PhaseOf(n, q)
      BY <2>3 DEF PhaseOf
    <2>5. Follows(n, q)
      BY <2>3, <2>4, StatusFollows DEF Exists
    <2> QED
      BY <1>1, <2>1, <2>2, <2>5, NodeFollowsAlone
  <1>5. CASE NodeRelease(n) \/ NodeCleanConflict(n) \/ NodeSkip(n) \/ NodeGoneConflict(n)
    <2>1. UNCHANGED nodes
      BY <1>5 DEF NodeRelease, NodeCleanConflict, NodeSkip, NodeGoneConflict
    <2>2. ASSUME NEW m \in Node PROVE Recorded(m)'
      BY <1>1, StillFollows DEF Recorded
    <2> QED
      BY <1>1, <2>1, <2>2, HostFollows
  <1> QED
    BY <1>3, <1>4, <1>5 DEF NodeEnd

\* Lemma: so do the hosts, the watches, the deletion of a node and a new start of
\* the process.
LEMMA OthersResults ==
    ASSUME WorkInv, BaseInv', NEW n \in Node,
           \/ Exit(n) \/ Lose(n) \/ EndCleaning(n) \/ DeleteRequest(n) \/ Watch(n) \/ Bind(n)
           \/ Restart
    PROVE WorkInv'
  <1> DEFINE Container == [st : {"none", "created", "connected", "running", "succeeded", "failed"},
                           image : Image \cup {None}, by : Claim]
  <1>1. /\ ctr \in [Node -> Container] /\ nodes \in [Node -> NodeObject(Claim)]
        /\ cache \in [Node -> NodeObject(Claim)]
    BY DEF WorkInv, BaseInv, NodesInv, NodeTypes, NodeTypeOK
  <1>2. CASE Exit(n)
    <2>1. PICK st \in {"succeeded", "failed"} : ctr' = [ctr EXCEPT ![n].st = st]
      BY <1>2 DEF Exit, ContainerExit
    <2>2. /\ UNCHANGED <<workloads, ww, nodes, cache>>
          /\ ended' = ended \cup {<<n, ctr[n].by, ctr'[n].st>>}
      BY <1>2 DEF Exit, ContainerExit, workloadVars
    <2>3. ctr'[n].by = ctr[n].by /\ \A m \in Node \ {n} : ctr'[m] = ctr[m]
      BY <1>1, <2>1
    <2>4. ASSUME NEW m \in Node PROVE Recorded(m)'
      BY <2>2, <2>3, StillFollows DEF Recorded
    <2> QED
      BY <2>2, <2>4, HostFollows
  <1>3. CASE Lose(n) \/ EndCleaning(n) \/ Watch(n) \/ Bind(n)
    <2>1. UNCHANGED <<workloads, ww, nodes, ended>> /\ \A m \in Node : cache'[m] \in {cache[m], nodes[m]}
      BY <1>1, <1>3
      DEF Lose, EndCleaning, Watch, Bind, ContainerLost, CleanerExit, WatchNode, BindNode,
          workloadVars, envVars
    <2>2. \A m \in Node : ctr'[m] \in {ctr[m], NoContainer}
      BY <1>1, <1>3
      DEF Lose, EndCleaning, Watch, Bind, ContainerLost, CleanerExit, WatchNode, BindNode
    <2>3. ASSUME NEW m \in Node PROVE Recorded(m)'
      BY <2>1, <2>2, StillFollows DEF Recorded, NoContainer
    <2> QED
      BY <2>1, <2>3, HostFollows
  <1>4. CASE Restart
    <2>1. /\ UNCHANGED <<workloads, nodes, ctr, ended>> /\ ww' = WIdle /\ cache' = nodes
      BY <1>4 DEF Restart
    <2>2. ASSUME NEW m \in Node PROVE Recorded(m)'
      BY <2>1, StillFollows DEF Recorded
    <2> QED
      BY <2>1, <2>2, HostFollows
  <1>5. CASE DeleteRequest(n)
    <2>1. /\ UNCHANGED <<workloads, ww, cache, ctr, ended>>
          /\ nodes' = [nodes EXCEPT ![n].del = TRUE, ![n].ver = @ + 1] /\ IsRequired(nodes[n])
      BY <1>5 DEF DeleteRequest, DeleteNode, workloadVars, envVars
    <2>2. PICK v : v = nodes[n].ver + 1
      OBVIOUS
    <2>3. PICK q : q = [nodes[n] EXCEPT !.del = TRUE, !.ver = v]
      OBVIOUS
    <2>4. q.state = nodes[n].state /\ q.claim = nodes[n].claim /\ q.phase = nodes[n].phase
      BY <1>1, <2>3 DEF NodeObject
    <2>5. nodes' = [nodes EXCEPT ![n] = q]
      BY <1>1, <2>1, <2>2, <2>3 DEF NodeObject
    <2>6. PhaseOf(n, q)
      BY <2>4 DEF WorkInv, Counted, PhaseOf
    <2>7. Follows(n, q)
      BY <2>1, <2>4, <2>6, StatusFollows DEF IsRequired, Exists
    <2> QED
      BY <2>1, <2>5, <2>7, NodeFollowsAlone
  <1> QED
    BY <1>2, <1>3, <1>4, <1>5

\* Lemma: a step of one workload, whose number does not fall, keeps what is said of
\* the nodes and of the others.
LEMMA WorkloadMoves ==
    ASSUME WorkInv, BaseInv', UNCHANGED <<nodes, cache, ctr, ended>>, NEW w \in Workload,
           \A v \in Workload \ {w} : workloads'[v] = workloads[v],
           workloads'[w].gen >= workloads[w].gen, WorkloadInv(w)', LoopInv'
    PROVE WorkInv'
  <1>1. \A v \in Workload : workloads[v].gen \in Nat /\ workloads'[v].gen \in Nat
    <2>1. \A v \in Workload : workloads[v] \in WorkloadObject(v) /\ workloads'[v] \in WorkloadObject(v)
      BY DEF WorkInv, BaseInv, WorkersInv, WorkloadTypeOK
    <2> QED
      BY <2>1 DEF WorkloadObject
  <1>2. ASSUME NEW o \in NodeObject(Claim), NEW n \in Node, ClaimOf(n, o)
        PROVE o.claim # None =>
                /\ o.claim.gen <= workloads'[o.claim.name].gen
                /\ \E i \in Items(o.claim.name) : Jobs[o.claim.name][i].node = n
    <2>1. SUFFICES ASSUME o.claim # None PROVE o.claim.gen <= workloads'[o.claim.name].gen
      BY <1>2 DEF ClaimOf
    <2>2. o.claim \in WorkloadRef
      BY <2>1 DEF NodeObject, Claim
    <2>3. o.claim.name \in Workload /\ o.claim.gen \in Nat
      BY <2>2 DEF WorkloadRef
    <2>4. workloads[o.claim.name].gen <= workloads'[o.claim.name].gen
      BY <1>1, <2>3
    <2> QED
      BY <1>1, <1>2, <2>1, <2>3, <2>4 DEF ClaimOf
  <1>3. ASSUME NEW n \in Node PROVE Counted(n)'
    <2>1. Counted(n) /\ nodes[n] \in NodeObject(Claim) /\ cache[n] \in NodeObject(Claim)
      BY DEF WorkInv, BaseInv, NodesInv, NodeTypes, NodeTypeOK
    <2>2. PhaseOf(n, nodes[n])' /\ PhaseOf(n, cache[n])'
      BY <2>1 DEF Counted, PhaseOf
    <2>3. ClaimOf(n, nodes[n])' /\ ClaimOf(n, cache[n])'
      BY <1>2, <2>1 DEF Counted, ClaimOf
    <2> QED
      BY <2>1, <2>2, <2>3 DEF Counted
  <1>4. ASSUME NEW v \in Workload, v # w PROVE WorkloadInv(v)'
    <2>1. WorkloadInv(v) /\ workloads'[v] = workloads[v]
      BY <1>4 DEF WorkInv
    <2> QED
      BY <2>1 DEF WorkloadInv, Live, RefOf, Kept, AllOwned, Noted
  <1> QED
    BY <1>3, <1>4 DEF WorkInv

\* Lemma: what the worker knows is not touched by what happens to other workloads.
LEMMA LoopElsewhere ==
    ASSUME WorkInv, UNCHANGED <<nodes, cache, ctr, ended>>, NEW w \in Workload,
           \A v \in Workload \ {w} : workloads'[v] = workloads[v],
           ww' = WIdle \/ (ww' = ww /\ (ww.pc = "idle" \/ ww.w # w))
    PROVE LoopInv'
  <1>1. CASE ww' = WIdle
    BY <1>1 DEF LoopInv, WIdle
  <1>2. CASE ww' = ww /\ ww.pc = "idle"
    BY <1>2 DEF LoopInv
  <1>3. CASE ww' = ww /\ ww.pc # "idle" /\ ww.w # w
    <2>1. PICK v \in Workload : v = ww.w
      BY <1>3, WorkerPlace DEF WorkInv, BaseInv, WorkersInv
    <2>2. workloads'[v] = workloads[v]
      BY <1>3, <2>1
    <2>3. (Live(v)' <=> Live(v)) /\ RefOf(v)' = RefOf(v)
      BY <2>2 DEF Live, RefOf
    <2>4. Noted(v, ww.phases)' <=> Noted(v, ww.phases)
      BY <1>3, <2>3 DEF Noted, Items
    <2> QED
      BY <1>3, <2>1, <2>3, <2>4 DEF WorkInv, LoopInv
  <1> QED
    BY <1>1, <1>2, <1>3

\* Lemma: the steps before the loops.
LEMMA WorkloadBeginResults ==
    ASSUME WorkInv, BaseInv', NEW w \in Workload, WorkloadBegin(w), UNCHANGED ended
    PROVE WorkInv'
  <1> DEFINE o == workloads[w]
  <1>1. o \in WorkloadObject(w) /\ WorkloadInv(w) /\ ww.pc = "idle" /\ UNCHANGED <<nodes, cache, ctr>>
    BY DEF WorkInv, BaseInv, WorkersInv, WorkloadTypeOK, WorkloadBegin, WorkloadAddFinalizer,
           WorkloadBeginPending, WorkloadLoop, nodeVars
  <1>2. CASE WorkloadAddFinalizer(w) \/ WorkloadBeginPending(w)
    <2>1. PICK q : /\ workloads' = [workloads EXCEPT ![w] = q] /\ Exists(o)
                   /\ q \in WorkloadObject(w) /\ q.gen = o.gen /\ q.phases = o.phases /\ q.del = o.del
                   /\ q.state \in {o.state, "pending"}
      <3>1. CASE WorkloadAddFinalizer(w)
        <4>1. PICK q : q = [o EXCEPT !.fin = TRUE]
          OBVIOUS
        <4>2. /\ q \in WorkloadObject(w) /\ q.gen = o.gen /\ q.phases = o.phases /\ q.del = o.del
              /\ q.state = o.state
          BY <1>1, <4>1 DEF WorkloadObject
        <4> QED
          BY <3>1, <4>1, <4>2 DEF WorkloadAddFinalizer, UpdateWorkload
      <3>2. CASE WorkloadBeginPending(w)
        <4>1. PICK q : q = [o EXCEPT !.state = "pending"]
          OBVIOUS
        <4>2. /\ q \in WorkloadObject(w) /\ q.gen = o.gen /\ q.phases = o.phases /\ q.del = o.del
              /\ q.state = "pending"
          BY <1>1, <4>1 DEF WorkloadObject
        <4> QED
          BY <3>2, <4>1, <4>2, UnsetIsNone DEF WorkloadBeginPending, UpdateWorkload, Exists
      <3> QED
        BY <1>2, <3>1, <3>2
    <2>2. workloads'[w] = q /\ \A v \in Workload \ {w} : workloads'[v] = workloads[v]
      BY <2>1 DEF WorkInv, BaseInv, WorkersInv, WorkloadTypeOK
    <2>3. Exists(q) /\ (Live(w)' => Live(w)) /\ RefOf(w)' = RefOf(w)
      BY <2>1, <2>2 DEF Live, RefOf, Ref, Exists
    <2>4. WorkloadInv(w)'
      BY <1>1, <2>1, <2>2, <2>3 DEF WorkloadInv, Kept, AllOwned, Noted, Items
    <2>5. ww' = ww
      BY <1>2 DEF WorkloadAddFinalizer, WorkloadBeginPending
    <2>6. LoopInv'
      BY <1>1, <2>2, <2>5, LoopElsewhere
    <2>7. workloads'[w].gen >= workloads[w].gen
      BY <1>1, <2>1, <2>2 DEF WorkloadObject
    <2> QED
      BY <1>1, <2>2, <2>4, <2>6, <2>7, WorkloadMoves
  <1>3. CASE WorkloadLoop(w)
    <2>1. /\ UNCHANGED workloads /\ ww'.w = w /\ ww'.i = 1 /\ ww'.count = 0 /\ ww'.phases = o.phases
      BY <1>3 DEF WorkloadLoop
    <2>2. Noted(w, ww'.phases)
      BY <1>1, <2>1 DEF WorkloadInv
    <2>3. Noted(w, ww.phases)'
      BY <1>1, <2>1, <2>2 DEF Noted, RefOf, Items
    <2>4. LoopInv'
      BY <2>1, <2>3 DEF LoopInv
    <2>5. WorkloadInv(w)' /\ workloads'[w].gen >= workloads[w].gen
      BY <1>1, <2>1 DEF WorkloadInv, Kept, AllOwned, Noted, Items, Live, RefOf, WorkloadObject
    <2> QED
      BY <1>1, <2>1, <2>4, <2>5, WorkloadMoves
  <1> QED
    BY <1>2, <1>3 DEF WorkloadBegin

\* Lemma: a new workload finds no node that is claimed in its name: the claims of
\* its predecessors have lower numbers.
LEMMA CreateWorkloadResults ==
    ASSUME WorkInv, BaseInv', NEW w \in Workload, CreateWorkload(w)
    PROVE WorkInv'
  <1> DEFINE o == workloads[w]
  <1>1. o \in WorkloadObject(w) /\ ~Exists(o) /\ Whole(o) /\ o.gen \in Nat
    <2>1. o \in WorkloadObject(w) /\ ~Exists(o) /\ Whole(o)
      BY DEF WorkInv, BaseInv, WorkersInv, WorkloadTypeOK, CreateWorkload
    <2> QED
      BY <2>1 DEF WorkloadObject
  <1>2. UNCHANGED <<nodes, cache, ctr, ww, ended>>
    BY DEF CreateWorkload, nodeVars, envVars
  <1>3. PICK a : a = AbsentWorkload(w, o.gen + 1)
    OBVIOUS
  <1>4. PICK q : q = [a EXCEPT !.state = Unset]
    OBVIOUS
  <1>5. workloads' = [workloads EXCEPT ![w] = q]
    BY <1>3, <1>4 DEF CreateWorkload
  <1>6. /\ q.gen = o.gen + 1 /\ q.state = Unset /\ q.phases = NoPhases(w)
    BY <1>3, <1>4 DEF AbsentWorkload
  <1>7. workloads'[w] = q /\ \A v \in Workload \ {w} : workloads'[v] = workloads[v]
    BY <1>5 DEF WorkInv, BaseInv, WorkersInv, WorkloadTypeOK
  <1>8. RefOf(w)' = [name |-> w, gen |-> o.gen + 1]
    BY <1>6, <1>7 DEF RefOf, Ref
  <1>9. ASSUME NEW i \in Items(w), Owned(RefOf(w), cache[Jobs[w][i].node])'
        PROVE Owned(RefOf(w), nodes[Jobs[w][i].node])'
    <2>1. PICK n \in Node : n = Jobs[w][i].node
      BY JobTypes DEF Items
    <2>2. cache[n].claim # RefOf(w)'
      <3>1. SUFFICES ASSUME cache[n].claim = [name |-> w, gen |-> o.gen + 1] PROVE FALSE
        BY <1>8
      <3>2. cache[n].claim # None
        <4>1. q \in WorkloadObject(w) /\ MaxGen \in Nat
          BY <1>7, WorkloadAssumption DEF BaseInv, WorkersInv, WorkloadTypeOK
        <4>2. q.gen \in 0 .. MaxGen
          BY <4>1 DEF WorkloadObject
        <4>3. o.gen + 1 \in 1 .. MaxGen
          BY <1>1, <1>6, <4>1, <4>2
        <4>4. [name |-> w, gen |-> o.gen + 1] \in WorkloadRef
          BY <4>3 DEF WorkloadRef
        <4> QED
          BY <3>1, <4>4, WorkloadAssumption
      <3>3. cache[n].claim.name = w /\ cache[n].claim.gen = o.gen + 1
        BY <3>1
      <3>4. cache[n].claim.gen <= o.gen
        BY <3>2, <3>3 DEF WorkInv, Counted, ClaimOf
      <3> QED
        BY <1>1, <3>3, <3>4
    <2>3. ~Exists(cache[n])
      BY <1>2, <1>9, <2>1, <2>2 DEF Owned
    <2>4. ~Exists(nodes[n])
      BY <2>3 DEF WorkInv, BaseInv, NodesInv, NodeInv, Behind, LagOK
    <2> QED
      BY <1>2, <2>1, <2>4 DEF Owned
  <1>10. WorkloadInv(w)'
    <2>1. Kept(w)'
      BY <1>9 DEF Kept, Items
    <2>2. Noted(w, workloads[w].phases)'
      BY <1>6, <1>7 DEF Noted, NoPhases, Items
    <2> QED
      BY <1>6, <1>7, <2>1, <2>2, UnsetIsNone DEF WorkloadInv
  <1>11. ww.pc = "idle" \/ ww.w # w
    <2>1. SUFFICES ASSUME ww.pc # "idle", ww.w = w PROVE FALSE
      OBVIOUS
    <2>2. ww.obj.fin /\ ww.obj \in WorkloadObject(w) /\ o \in {ww.obj, [ww.obj EXCEPT !.del = TRUE]}
      BY <2>1, WorkerPlace DEF WorkInv, BaseInv, WorkersInv, WorkloadHeld, WorkerAt
    <2>3. o.fin
      BY <2>2 DEF WorkloadObject
    <2> QED
      BY <1>1, <2>3 DEF Whole
  <1>12. LoopInv'
    BY <1>2, <1>7, <1>11, LoopElsewhere
  <1>13. workloads'[w].gen >= workloads[w].gen
    BY <1>1, <1>6, <1>7
  <1> QED
    BY <1>2, <1>7, <1>10, <1>12, <1>13, WorkloadMoves

\* Lemma: a workload whose deletion is asked for is no longer said anything of but
\* what it has reported.
LEMMA DeleteWorkloadResults ==
    ASSUME WorkInv, BaseInv', NEW w \in Workload, DeleteWorkload(w)
    PROVE WorkInv'
  <1> DEFINE o == workloads[w]
  <1>1. o \in WorkloadObject(w) /\ WorkloadInv(w) /\ o.gen \in Nat
    <2>1. o \in WorkloadObject(w) /\ WorkloadInv(w)
      BY DEF WorkInv, BaseInv, WorkersInv, WorkloadTypeOK
    <2> QED
      BY <2>1 DEF WorkloadObject
  <1>2. UNCHANGED <<nodes, cache, ctr, ww, ended>>
    BY DEF DeleteWorkload, nodeVars, envVars
  <1>3. PICK q : /\ workloads' = [workloads EXCEPT ![w] = q] /\ q.gen = o.gen
                 /\ q.del \/ ~Exists(q)
                 /\ \/ q.state = o.state /\ q.phases = o.phases
                    \/ q.state = "absent" /\ q.phases = NoPhases(w)
    <2>1. CASE o.fin
      <3>1. PICK q : q = [o EXCEPT !.del = TRUE]
        OBVIOUS
      <3>2. q.gen = o.gen /\ q.del /\ q.state = o.state /\ q.phases = o.phases
        BY <1>1, <3>1 DEF WorkloadObject
      <3> QED
        BY <2>1, <3>1, <3>2 DEF DeleteWorkload
    <2>2. CASE ~o.fin
      <3>1. PICK q : q = AbsentWorkload(w, o.gen)
        OBVIOUS
      <3>2. q.gen = o.gen /\ ~Exists(q) /\ q.state = "absent" /\ q.phases = NoPhases(w)
        BY <3>1 DEF AbsentWorkload, Exists
      <3> QED
        BY <2>2, <3>1, <3>2 DEF DeleteWorkload
    <2> QED
      BY <2>1, <2>2
  <1>4. workloads'[w] = q /\ \A v \in Workload \ {w} : workloads'[v] = workloads[v]
    BY <1>3 DEF WorkInv, BaseInv, WorkersInv, WorkloadTypeOK
  <1>5. ~Live(w)' /\ RefOf(w)' = RefOf(w)
    BY <1>3, <1>4 DEF Live, RefOf, Ref
  <1>6. Noted(w, workloads[w].phases)'
    BY <1>1, <1>2, <1>3, <1>4, <1>5 DEF WorkloadInv, Noted, NoPhases, Items
  <1>7. WorkloadInv(w)'
    BY <1>1, <1>3, <1>4, <1>5, <1>6 DEF WorkloadInv, Items
  <1>8. LoopInv'
    <2>1. CASE ww.pc # "idle" /\ ww.w = w
      BY <1>2, <1>5, <2>1 DEF WorkInv, LoopInv
    <2>2. CASE ww.pc = "idle" \/ ww.w # w
      BY <1>2, <1>4, <2>2, LoopElsewhere
    <2> QED
      BY <2>1, <2>2
  <1>9. workloads'[w].gen >= workloads[w].gen
    BY <1>1, <1>3, <1>4
  <1> QED
    BY <1>2, <1>4, <1>7, <1>8, <1>9, WorkloadMoves

\* Lemma: the worker claims in the name of the workload it is at, and of one that
\* is still wanted it has the current version.
LEMMA WorkerKnows ==
    ASSUME BaseInv, ww.pc # "idle"
    PROVE /\ ww.w \in Workload /\ ww \in WorkerAt(ww.w) /\ ww.obj \in WorkloadObject(ww.w)
          /\ Self = RefOf(ww.w) /\ Self \in WorkloadRef /\ Self # None
          /\ ww.obj.gen = workloads[ww.w].gen
          /\ Live(ww.w) => workloads[ww.w] = ww.obj
          /\ ww.pc = "uninstall" => ~Live(ww.w)
          /\ Exists(workloads[ww.w])
  <1>1. /\ ww.w \in Workload /\ ww \in WorkerAt(ww.w) /\ ww.obj.fin
        /\ workloads[ww.w] \in {ww.obj, [ww.obj EXCEPT !.del = TRUE]}
        /\ Whole(workloads[ww.w]) /\ (ww.pc = "uninstall" => ww.obj.del)
    BY WorkerPlace DEF BaseInv, WorkersInv, WorkloadHeld
  <1>2. ww.obj \in WorkloadObject(ww.w)
    BY <1>1 DEF WorkerAt
  <1>3. /\ workloads[ww.w].gen = ww.obj.gen /\ workloads[ww.w].fin
        /\ workloads[ww.w] = ww.obj \/ workloads[ww.w].del
        /\ ww.obj.del => workloads[ww.w].del
    BY <1>1, <1>2 DEF WorkloadObject
  <1>4. ww.obj.gen \in 1 .. MaxGen
    BY <1>1, <1>2, <1>3 DEF WorkloadObject, Whole
  <1>5. Self = RefOf(ww.w) /\ Self \in WorkloadRef
    BY <1>1, <1>3, <1>4 DEF Self, RefOf, Ref, WorkloadRef
  <1> QED
    BY <1>1, <1>2, <1>3, <1>5, WorkloadAssumption DEF Live, Whole

\* Lemma: a loop that goes on with the workloads and nodes as they are.
LEMMA LoopOnly ==
    ASSUME WorkInv, BaseInv', UNCHANGED <<nodes, cache, ctr, ended, workloads>>, LoopInv'
    PROVE WorkInv'
  <1>1. \A m \in Node : Follows(m, nodes'[m])
    BY StillFollows
  <1>2. ASSUME NEW m \in Node PROVE Recorded(m)'
    BY StillFollows DEF Recorded
  <1> QED
    BY <1>1, <1>2, NodesFollow

\* Lemma: the loop over the items of a workload that installs them.  An item is
\* counted when its node is up in the name of the workload.
LEMMA InstallResults ==
    ASSUME WorkInv, BaseInv', UNCHANGED ended,
           InstallBlocked \/ InstallClaimConflict \/ InstallStarting \/ InstallUp
    PROVE WorkInv'
  <1> DEFINE w == ww.w
  <1>1. /\ ww.pc = "install" /\ ww.i <= Len(Jobs[w])
        /\ UNCHANGED <<nodes, cache, ctr, workloads>>
    BY DEF InstallBlocked, InstallClaimConflict, InstallStarting, InstallUp, AtItem, nodeVars
  <1>2. w \in Workload /\ ww \in WorkerAt(w) /\ Self = RefOf(w)
    BY <1>1, WorkerKnows DEF WorkInv
  <1>3. CASE InstallBlocked \/ InstallClaimConflict
    BY <1>1, <1>3, LoopOnly DEF InstallBlocked, InstallClaimConflict, Return, LoopInv, WIdle
  <1>4. CASE InstallStarting \/ InstallUp
    <2>1. PICK d \in {0, 1} : /\ ww' = [ww EXCEPT !.i = ww.i + 1, !.count = ww.count + d]
                              /\ d = 1 => WorkloadNode.state \in {"ready", "finish"}
                                          /\ WorkloadNode.claim = Self
      BY <1>4 DEF InstallStarting, InstallUp, Proceed
    <2>2. /\ ww.i \in Nat /\ ww.i >= 1 /\ ww.count \in Nat
          /\ ww'.pc = "install" /\ ww'.w = w /\ ww'.i = ww.i + 1 /\ ww'.count = ww.count + d
      BY <1>1, <1>2, <2>1, JobTypes DEF WorkerAt
    <2>3. ww.count <= ww.i - 1
      BY <1>1 DEF WorkInv, LoopInv
    <2>4. (Live(w)' <=> Live(w)) /\ RefOf(w)' = RefOf(w)
      BY <1>1, <2>2 DEF Live, RefOf
    <2>5. ASSUME Live(w), ww.count + d = ww.i, NEW j \in 1 .. ww.i
          PROVE Owned(RefOf(w), cache[Jobs[w][j].node])
      <3>1. d = 1 /\ ww.count = ww.i - 1
        BY <2>2, <2>3, <2>5
      <3>2. CASE j = ww.i
        <4>1. WorkloadNode = cache[Jobs[w][j].node] /\ Jobs[w][j].node \in Node
          BY <1>1, <1>2, <2>2, <3>2, JobTypes DEF WorkloadNode, Job
        <4>2. PhaseOf(Jobs[w][j].node, WorkloadNode)
          BY <4>1 DEF WorkInv, Counted
        <4> QED
          BY <1>2, <2>1, <3>1, <4>1, <4>2 DEF Owned, PhaseOf
      <3>3. CASE j # ww.i
        <4>1. j \in 1 .. ww.i - 1
          BY <2>2, <3>3
        <4> QED
          BY <1>1, <2>5, <3>1, <4>1 DEF WorkInv, LoopInv
      <3> QED
        BY <3>2, <3>3
    <2>6. ww'.i - 1 = ww.i /\ (ww'.count <= ww'.i - 1)
      BY <2>2, <2>3
    <2>7. LoopInv'
      BY <1>1, <2>2, <2>4, <2>5, <2>6 DEF LoopInv
    <2> QED
      BY <1>1, <2>7, LoopOnly
  <1> QED
    BY <1>3, <1>4

\* Lemma: the loop over the items of a workload that runs.  Its nodes are its own,
\* so that a result which one of them shows is the workload's.
LEMMA InspectResults ==
    ASSUME WorkInv, BaseInv', UNCHANGED ended, InspectNotFound \/ InspectItem
    PROVE WorkInv'
  <1> DEFINE w == ww.w
  <1>1. /\ ww.pc = "inspect" /\ ww.i <= Len(Jobs[w])
        /\ UNCHANGED <<nodes, cache, ctr, workloads>>
    BY DEF InspectNotFound, InspectItem, AtItem, nodeVars
  <1>2. w \in Workload /\ ww \in WorkerAt(w) /\ (Live(w) => workloads[w] = ww.obj)
    BY <1>1, WorkerKnows DEF WorkInv
  <1>3. CASE InspectNotFound
    BY <1>1, <1>3, LoopOnly DEF InspectNotFound, Return, LoopInv, WIdle
  <1>4. CASE InspectItem
    <2>1. ww' = [ww EXCEPT !.i = ww.i + 1, !.phases[ww.i] = WorkloadNode.phase]
      BY <1>4 DEF InspectItem
    <2>2. PICK ps : ps = [ww.phases EXCEPT ![ww.i] = WorkloadNode.phase]
      OBVIOUS
    <2>3. ww'.pc = "inspect" /\ ww'.w = w /\ ww'.phases = ps
      BY <1>1, <1>2, <2>1, <2>2 DEF WorkerAt
    <2>4. ww.phases \in [Items(w) -> Phase] /\ ww.i \in Items(w)
      BY <1>1, <1>2, JobTypes DEF WorkerAt, Items
    <2>5. (Live(w)' <=> Live(w)) /\ RefOf(w)' = RefOf(w)
      BY <1>1, <2>3 DEF Live, RefOf
    <2>6. ASSUME Live(w), NEW i \in Items(w), ps[i] \in {"succeeded", "failed"}
          PROVE <<Jobs[w][i].node, RefOf(w), ps[i]>> \in ended
      <3>1. CASE i = ww.i
        <4>1. PICK n \in Node : n = Jobs[w][i].node
          BY <1>2, JobTypes DEF Items
        <4>2. WorkloadNode = cache[n] /\ ps[i] = cache[n].phase /\ Exists(cache[n])
          BY <1>4, <2>2, <2>4, <3>1, <4>1
          DEF WorkloadNode, Job, InspectItem, CouldUninstall, Exists
        <4>3. workloads[w].state = "running"
          BY <1>1, <1>2, <2>6 DEF WorkInv, BaseInv, WorkersInv, WorkloadHeld
        <4>4. Owned(RefOf(w), cache[n])
          BY <1>2, <2>6, <4>1, <4>3 DEF WorkInv, WorkloadInv, AllOwned
        <4>5. cache[n].claim = RefOf(w) /\ cache[n].state = "finish"
          BY <2>6, <4>2, <4>4 DEF Owned
        <4> QED
          BY <4>1, <4>2, <4>5 DEF WorkInv, Counted, PhaseOf
      <3>2. CASE i # ww.i
        <4>1. ps[i] = ww.phases[i]
          BY <2>2, <2>4, <3>2
        <4> QED
          BY <1>1, <2>6, <4>1 DEF WorkInv, LoopInv, Noted
      <3> QED
        BY <3>1, <3>2
    <2>7. Live(w) => Noted(w, ps)
      BY <2>6 DEF Noted
    <2>8. LoopInv'
      BY <1>1, <2>3, <2>5, <2>7 DEF LoopInv, Noted, Items
    <2> QED
      BY <1>1, <2>8, LoopOnly
  <1> QED
    BY <1>3, <1>4

\* Lemma: the ends of the loops.  A workload runs when all its nodes are its own,
\* and reports what it has noted.
LEMMA LoopEndResults ==
    ASSUME WorkInv, BaseInv', UNCHANGED ended, InstallEnd \/ InspectEnd \/ UninstallEnd
    PROVE WorkInv'
  <1>1. /\ ww.pc \in {"install", "inspect", "uninstall"} /\ ww.i > Len(Jobs[ww.w])
        /\ ww' = WIdle /\ UNCHANGED <<nodes, cache, ctr>>
    BY DEF InstallEnd, InspectEnd, UninstallEnd, AfterItems, Return, nodeVars
  <1>2. PICK w \in Workload : w = ww.w
    BY <1>1, WorkerKnows DEF WorkInv
  <1>3. ww \in WorkerAt(w) /\ ww.obj \in WorkloadObject(w) /\ WorkloadInv(w)
    BY <1>1, <1>2, WorkerKnows DEF WorkInv
  <1>4. LoopInv'
    BY <1>1 DEF LoopInv, WIdle
  <1>5. CASE UNCHANGED workloads
    BY <1>1, <1>4, <1>5, LoopOnly
  <1>6. CASE ~UNCHANGED workloads
    <2>1. workloads[w] = ww.obj /\ ww.obj.gen \in Nat
      BY <1>2, <1>3, <1>5, <1>6 DEF InstallEnd, InspectEnd, UninstallEnd, WorkloadObject
    <2>2. ASSUME NEW q, workloads' = [workloads EXCEPT ![w] = q], q.gen = ww.obj.gen,
                 Noted(w, q.phases),
                 q.state = "succeeded" => \A i \in Items(w) : q.phases[i] = "succeeded",
                 ~Exists(q) \/ (Exists(ww.obj) /\ q.del = ww.obj.del /\ (Live(w) => AllOwned(w)))
          PROVE WorkInv'
      <3>1. workloads'[w] = q /\ \A v \in Workload \ {w} : workloads'[v] = workloads[v]
        BY <2>2 DEF WorkInv, BaseInv, WorkersInv, WorkloadTypeOK
      <3>2. RefOf(w)' = RefOf(w) /\ (Live(w)' => Live(w) /\ AllOwned(w))
        BY <2>1, <2>2, <3>1 DEF RefOf, Ref, Live
      <3>3. Noted(w, workloads[w].phases)'
        BY <2>2, <3>1, <3>2 DEF Noted, Items
      <3>4. WorkloadInv(w)'
        BY <1>1, <1>3, <2>2, <3>1, <3>2, <3>3 DEF WorkloadInv, Kept, AllOwned, Items
      <3>5. workloads'[w].gen >= workloads[w].gen
        BY <2>1, <2>2, <3>1
      <3> QED
        BY <1>1, <1>4, <3>1, <3>4, <3>5, WorkloadMoves
    <2>3. CASE InstallEnd
      <3>1. ww.pc = "install" /\ ww.count = Len(Jobs[w])
        BY <1>2, <1>6, <2>3 DEF InstallEnd, Installed, AfterItems
      <3>2. ww.i = Len(Jobs[w]) + 1
        BY <1>1, <1>2, <1>3, JobTypes DEF WorkerAt
      <3>3. ww.count = ww.i - 1 /\ Items(w) = 1 .. ww.i - 1
        BY <3>1, <3>2, JobTypes DEF Items
      <3>4. Live(w) => AllOwned(w)
        BY <1>2, <3>1, <3>3 DEF WorkInv, LoopInv, AllOwned
      <3>5. ww.obj.state = "pending"
        BY <3>1 DEF WorkInv, BaseInv, WorkersInv, WorkloadHeld
      <3>6. PICK q : q = [ww.obj EXCEPT !.state = "running"]
        OBVIOUS
      <3>7. q.gen = ww.obj.gen /\ q.phases = ww.obj.phases /\ q.state = "running" /\ q.del = ww.obj.del
        BY <1>3, <3>6 DEF WorkloadObject
      <3>8. workloads' = [workloads EXCEPT ![w] = q]
        BY <1>2, <1>6, <2>3, <3>6 DEF InstallEnd
      <3> QED
        BY <1>3, <2>1, <2>2, <3>4, <3>5, <3>7, <3>8 DEF WorkloadInv, Exists
    <2>4. CASE InspectEnd
      <3>1. ww.pc = "inspect"
        BY <2>4 DEF InspectEnd, AfterItems
      <3>2. ww.obj.state = "running" /\ ~ww.obj.del
        BY <3>1 DEF WorkInv, BaseInv, WorkersInv, WorkloadHeld
      <3>3. Live(w)
        BY <2>1, <3>2 DEF Live, Exists
      <3>4. Noted(w, ww.phases) /\ AllOwned(w)
        BY <1>2, <1>3, <2>1, <3>1, <3>2, <3>3 DEF WorkInv, LoopInv, WorkloadInv
      <3>5. PICK q : q = [ww.obj EXCEPT !.phases = ww.phases, !.state = Verdict(ww.phases)]
        OBVIOUS
      <3>6. q.gen = ww.obj.gen /\ q.phases = ww.phases /\ q.state = Verdict(ww.phases)
            /\ q.del = ww.obj.del
        BY <1>3, <3>5 DEF WorkloadObject
      <3>7. workloads' = [workloads EXCEPT ![w] = q]
        BY <1>2, <1>6, <2>4, <3>5 DEF InspectEnd
      <3>8. DOMAIN ww.phases = Items(w)
        BY <1>3 DEF WorkerAt, Items
      <3>9. q.state = "succeeded" => \A i \in Items(w) : q.phases[i] = "succeeded"
        BY <3>6, <3>8 DEF Verdict
      <3> QED
        BY <2>2, <3>2, <3>4, <3>6, <3>7, <3>9 DEF Exists
    <2>5. CASE UninstallEnd
      <3>1. PICK q : q = AbsentWorkload(w, ww.obj.gen)
        OBVIOUS
      <3>2. q.gen = ww.obj.gen /\ q.state = "absent" /\ q.phases = NoPhases(w)
        BY <3>1 DEF AbsentWorkload
      <3>3. workloads' = [workloads EXCEPT ![w] = q]
        BY <1>2, <1>6, <2>5, <3>1 DEF UninstallEnd
      <3>4. Noted(w, q.phases)
        BY <3>2 DEF Noted, NoPhases, Items
      <3> QED
        BY <2>2, <3>2, <3>3, <3>4 DEF Exists
    <2> QED
      BY <2>3, <2>4, <2>5
  <1> QED
    BY <1>5, <1>6

\* Lemma: a node is claimed only when it is free or the workload's already.
LEMMA InstallClaimResults ==
    ASSUME WorkInv, BaseInv', UNCHANGED ended, InstallClaim
    PROVE WorkInv'
  <1>1. /\ ww.pc = "install" /\ ww.i <= Len(Jobs[ww.w])
        /\ UNCHANGED <<cache, ctr, workloads>>
        /\ ww' = [ww EXCEPT !.i = ww.i + 1, !.count = ww.count + 0]
    BY DEF InstallClaim, AtItem, Proceed
  <1>2. PICK w \in Workload : w = ww.w
    BY <1>1, WorkerKnows DEF WorkInv
  <1>3. /\ ww \in WorkerAt(w) /\ Self = RefOf(w) /\ Self \in WorkloadRef /\ Self # None
        /\ ww.obj.gen = workloads[w].gen /\ workloads[w] \in WorkloadObject(w)
    BY <1>1, <1>2, WorkerKnows DEF WorkInv, BaseInv, WorkersInv, WorkloadTypeOK
  <1>4. ww.i \in Items(w) /\ ww.count \in Nat
    BY <1>1, <1>2, <1>3, JobTypes DEF WorkerAt, Items
  <1>5. PICK n \in Node : n = Jobs[w][ww.i].node
    BY <1>4, JobTypes DEF Items
  <1>6. LoopInv'
    <2>1. ww'.pc = "install" /\ ww'.i = ww.i + 1 /\ ww'.count = ww.count /\ ww.i \in Nat
      BY <1>1, <1>2, <1>3, <1>4, JobTypes DEF WorkerAt, Items
    <2>2. ww.count <= ww.i - 1
      BY <1>1 DEF WorkInv, LoopInv
    <2>3. ww'.count <= ww'.i - 1 /\ ww'.count # ww'.i - 1
      BY <1>4, <2>1, <2>2
    <2> QED
      BY <2>1, <2>3 DEF LoopInv
  <1> DEFINE c == cache[n]
  <1>7. c \in NodeObject(Claim) /\ Job = Jobs[w][ww.i] /\ WorkloadNode = c
    BY <1>2, <1>5 DEF WorkInv, BaseInv, NodesInv, NodeTypes, NodeTypeOK, Job, WorkloadNode
  <1>8. PICK o : o = [c EXCEPT !.claim = Self, !.image = Job.image]
    OBVIOUS
  <1>9. /\ nodes[n] = c /\ UpdateNode(n, c, o) /\ c.state = "uninitialized"
        /\ c.claim \in {None, Self}
    BY <1>5, <1>7, <1>8 DEF InstallClaim, UpdateNode, OccupiedByOther
  <1>10. PICK v \in Nat : v = c.ver + 1
    BY <1>7 DEF NodeObject
  <1>11. PICK q : q = [o EXCEPT !.ver = v]
    OBVIOUS
  <1>12. q.state = "uninitialized" /\ q.phase = c.phase /\ q.claim = Self
    BY <1>7, <1>8, <1>9, <1>11 DEF NodeObject
  <1>13. nodes' = [nodes EXCEPT ![n] = q]
    BY <1>9, <1>10, <1>11 DEF UpdateNode
  <1>14. Follows(n, q)
    <2>1. PhaseOf(n, q)
      BY <1>12 DEF PhaseOf
    <2>2. q.claim.name = w /\ q.claim.gen = workloads[w].gen /\ workloads[w].gen \in Nat
      BY <1>3, <1>12 DEF RefOf, Ref, WorkloadObject
    <2>3. ClaimOf(n, q)
      BY <1>4, <1>5, <2>2 DEF ClaimOf
    <2>4. ASSUME NEW u \in Workload, Live(u), Owned(RefOf(u), c) PROVE Owned(RefOf(u), q)
      <3>1. RefOf(u) # None
        <4>1. workloads[u] \in WorkloadObject(u) /\ Whole(workloads[u]) /\ Exists(workloads[u])
          BY <2>4 DEF WorkInv, BaseInv, WorkersInv, WorkloadTypeOK, Live
        <4>2. workloads[u].gen \in 1 .. MaxGen
          BY <4>1 DEF WorkloadObject, Whole
        <4>3. RefOf(u) \in WorkloadRef
          BY <4>2 DEF RefOf, Ref, WorkloadRef
        <4> QED
          BY <4>3, WorkloadAssumption
      <3> QED
        BY <1>9, <1>12, <2>4, <3>1 DEF Owned, Exists
    <2> QED
      BY <1>9, <2>1, <2>3, <2>4 DEF Follows
  <1> QED
    BY <1>1, <1>6, <1>13, <1>14, NodeFollows

\* The node that a deleted workload is about to release is nobody else's.
Undisturbed ==
    AtItem("uninstall") =>
        \A u \in Workload : \A i \in Items(u) :
            Live(u) /\ Jobs[u][i].node = Job.node /\ Exists(nodes[Job.node]) =>
                nodes[Job.node].claim # RefOf(u)

\* Lemma: a deleted workload releases its nodes, which nobody else has.
LEMMA UninstallResults ==
    ASSUME Undisturbed, WorkInv, BaseInv', UNCHANGED ended, UninstallItem
    PROVE WorkInv'
  <1>1. /\ ww.pc = "uninstall" /\ ww.i <= Len(Jobs[ww.w])
        /\ UNCHANGED <<cache, ctr, workloads>>
        /\ ww' = [ww EXCEPT !.i = ww.i + 1, !.count = ww.count + 0]
    BY DEF UninstallItem, AtItem, Proceed
  <1>2. PICK w \in Workload : w = ww.w
    BY <1>1, WorkerKnows DEF WorkInv
  <1>3. ww \in WorkerAt(w) /\ ~Live(w)
    BY <1>1, <1>2, WorkerKnows DEF WorkInv
  <1>4. ww.i \in Items(w)
    BY <1>1, <1>2, <1>3, JobTypes DEF WorkerAt, Items
  <1>5. PICK n \in Node : n = Jobs[w][ww.i].node
    BY <1>4, JobTypes DEF Items
  <1>6. LoopInv'
    BY <1>1, <1>3 DEF LoopInv, WorkerAt
  <1> DEFINE c == cache[n]
  <1>7. c \in NodeObject(Claim) /\ Job = Jobs[w][ww.i] /\ WorkloadNode = c
    BY <1>2, <1>5 DEF WorkInv, BaseInv, NodesInv, NodeTypes, NodeTypeOK, Job, WorkloadNode
  <1>8. CASE UNCHANGED nodes
    BY <1>1, <1>6, <1>8, LoopOnly
  <1>9. CASE ~UNCHANGED nodes
    <2>1. PICK o : o = Released(c)
      OBVIOUS
    <2>2. nodes[n] = c /\ UpdateNode(n, c, o) /\ CouldUninstall(c)
      BY <1>5, <1>7, <1>9, <2>1 DEF UninstallItem
    <2>3. PICK v \in Nat : v = c.ver + 1
      BY <1>7 DEF NodeObject
    <2>4. PICK q : q = [o EXCEPT !.ver = v]
      OBVIOUS
    <2>5. q.state = "destroy" /\ q.claim = None
      BY <1>7, <2>1, <2>4 DEF NodeObject, Released
    <2>6. nodes' = [nodes EXCEPT ![n] = q]
      BY <2>2, <2>3, <2>4 DEF UpdateNode
    <2>7. ASSUME NEW u \in Workload, NEW i \in Items(u), Live(u), Jobs[u][i].node = n
          PROVE ~Owned(RefOf(u), nodes[n])
      <3>1. AtItem("uninstall") /\ Exists(nodes[n]) /\ n = Job.node
        BY <1>5, <1>7, <2>2 DEF UninstallItem, CouldUninstall, Exists
      <3> QED
        BY <2>7, <3>1 DEF Undisturbed, Owned
    <2>8. Follows(n, q)
      BY <2>5, <2>7 DEF Follows, PhaseOf, ClaimOf
    <2> QED
      BY <1>1, <1>6, <2>6, <2>8, NodeFollows
  <1> QED
    BY <1>8, <1>9

----------------------------------------------------------------------------
\* Lemma: initially nothing has ended and nothing is claimed.
LEMMA WorkInitially == Init => WorkInv
  <1> SUFFICES ASSUME Init PROVE WorkInv
    OBVIOUS
  <1>1. BaseInv
    BY BaseInitially
  <1>2. PICK st \in {"uninitialized", Unset} : nodes = [n \in Node |-> NewNode(st)]
    BY DEF Init, NodeInit
  <1>3. PICK q : q = NewNode(st)
    OBVIOUS
  <1>4. q.state \in {"uninitialized", Unset} /\ q.claim = None
    BY <1>3 DEF NewNode
  <1>5. /\ cache = nodes
        /\ \A n \in Node : nodes[n] = q /\ cache[n] = q /\ ctr[n].st = "none"
    BY <1>2, <1>3 DEF Init, NodeInit, NoContainer
  <1>6. ASSUME NEW n \in Node PROVE Counted(n)
    BY <1>4, <1>5, UnsetIsNone DEF Counted, PhaseOf, ClaimOf
  <1>7. ASSUME NEW w \in Workload PROVE WorkloadInv(w)
    <2>1. workloads[w].state = "absent" /\ workloads[w].phases = NoPhases(w)
      BY DEF Init, WorkloadInit, AbsentWorkload
    <2> QED
      BY <2>1 DEF WorkloadInv, Live, Exists, Noted, NoPhases, Items
  <1>8. LoopInv
    BY DEF Init, WorkloadInit, LoopInv, WIdle
  <1> QED
    BY <1>1, <1>6, <1>7, <1>8 DEF WorkInv

\* Lemma: every step keeps what is said of results.
LEMMA WorkKept == WorkInv /\ Undisturbed /\ [Next]_vars => WorkInv'
  <1> SUFFICES ASSUME WorkInv, Undisturbed, [Next]_vars PROVE WorkInv'
    OBVIOUS
  <1>1. BaseInv'
    BY BaseKept DEF WorkInv
  <1>2. CASE UNCHANGED vars
    <2>1. UNCHANGED <<nodes, cache, ctr, workloads, ww, ended>>
      BY <1>2 DEF vars, nodeVars, workloadVars, envVars
    <2>2. ASSUME NEW m \in Node PROVE Recorded(m)'
      BY <2>1, StillFollows DEF Recorded
    <2> QED
      BY <1>1, <2>1, <2>2, HostFollows
  <1>3. ASSUME NEW n \in Node, NodeStep(n) \/ NodeOngoing(n) \/ Watch(n)
        PROVE WorkInv'
    <2>1. UNCHANGED <<workloads, ww, ended>>
      BY <1>3 DEF NodeStep, NodeOngoing, Watch, workloadVars, envVars
    <2> QED
      BY <1>1, <1>3, <2>1, NodeStatusResults, NodeHostResults, NodeEndResults, OthersResults
      DEF NodeStep, NodeBegin, NodeOngoing
  <1>4. ASSUME NEW n \in Node, Exit(n) \/ Lose(n) \/ EndCleaning(n) \/ DeleteRequest(n) \/ Bind(n)
        PROVE WorkInv'
    BY <1>1, <1>4, OthersResults
  <1>5. ASSUME NEW w \in Workload, WorkloadStep(w) \/ CreateWorkload(w) \/ DeleteWorkload(w)
        PROVE WorkInv'
    BY <1>1, <1>5, WorkloadBeginResults, CreateWorkloadResults, DeleteWorkloadResults
    DEF WorkloadStep, envVars
  <1>6. CASE WorkloadOngoing
    BY <1>1, <1>6, InstallResults, InspectResults, LoopEndResults, InstallClaimResults,
       UninstallResults
    DEF WorkloadOngoing, WorkloadContinue, envVars
  <1>7. CASE Crash \/ Panic
    <2>1. Restart
      BY <1>7 DEF Crash, Panic
    <2>2. CASE \E n \in Node : TRUE
      BY <1>1, <2>1, <2>2, OthersResults
    <2>3. CASE ~ \E n \in Node : TRUE
      BY <1>1, <2>1, <2>3, HostFollows DEF Restart
    <2> QED
      BY <2>2, <2>3
  <1>8. CASE WatchBindings
    <2>1. UNCHANGED <<workloads, ww, nodes, cache, ctr, ended>>
      BY <1>8 DEF WatchBindings, WatchRelationship, workloadVars, envVars
    <2>2. ASSUME NEW m \in Node PROVE Recorded(m)'
      BY <2>1, StillFollows DEF Recorded
    <2> QED
      BY <1>1, <2>1, <2>2, HostFollows
  <1> QED
    BY <1>2, <1>3, <1>4, <1>5, <1>6, <1>7, <1>8 DEF Next

\* Lemma: the invariant of results holds throughout.
LEMMA WorkHolds ==
    ASSUME NodesNotShared
    PROVE Spec => []WorkInv
  <1>1. WorkInv => Undisturbed
    <2> SUFFICES ASSUME WorkInv, AtItem("uninstall"), NEW u \in Workload, NEW i \in Items(u),
                        Live(u), Jobs[u][i].node = Job.node
                 PROVE FALSE
      BY DEF Undisturbed
    <2>1. ww.w \in Workload /\ ww \in WorkerAt(ww.w) /\ ~Live(ww.w)
      BY WorkerKnows DEF WorkInv, AtItem
    <2>2. ww.i \in Items(ww.w)
      BY <2>1, JobTypes DEF AtItem, WorkerAt, Items
    <2> QED
      BY <2>1, <2>2 DEF NodesNotShared, Job
  <1> QED
    BY <1>1, WorkInitially, WorkKept, PTL DEF Spec

----------------------------------------------------------------------------
(* Claims.                                                                  *)

\* q is what the resource controller or a deletion may make of node o.
Stays(o, q) ==
    /\ q.claim = o.claim \/ ~Exists(q)
    /\ Exists(q) => Exists(o) /\ (o.del => q.del)
    /\ ~Exists(q) => q.claim = None
    /\ o.state = "finish" => q = o \/ q.del \/ ~Exists(q)

\* Lemma: a step of nodes keeps what is said of claims, unless the worker is stopped
\* on its way and its nodes are shared.
LEMMA NodesStayClaimed ==
    ASSUME WorkInv, WorkInv', ReleaseInv, UNCHANGED workloads,
           ww' = ww \/ (ww' = WIdle /\ (ww.pc # "uninstall" \/ NodesNotShared)),
           \A m \in Node : /\ nodes'[m] = nodes[m] \/ Stays(nodes[m], nodes'[m])
                           /\ cache'[m] \in {cache[m], nodes[m]}
    PROVE (crashes \in Nat)' => ReleaseInv'
  <1>1. ASSUME NEW n \in Node PROVE ClaimHeld(n)'
    <2>1. ClaimHeld(n) /\ (nodes'[n] = nodes[n] \/ Stays(nodes[n], nodes'[n]))
      BY DEF ReleaseInv
    <2> QED
      BY <2>1 DEF ClaimHeld, Stays
  <1>2. ASSUME NEW w \in Workload, NEW ps, Live(w), Settled(w, ps) PROVE Settled(w, ps)'
    <2>1. RefOf(w)' = RefOf(w)
      BY DEF RefOf
    <2>2. ASSUME NEW i \in Items(w), ps[i] \in {"succeeded", "failed"}
          PROVE /\ Owned(RefOf(w), cache'[Jobs[w][i].node])
                /\ cache'[Jobs[w][i].node].state \in {"absent", "finish"}
      <3>1. PICK n \in Node : n = Jobs[w][i].node
        BY JobTypes DEF Items
      <3>2. Owned(RefOf(w), cache[n]) /\ cache[n].state \in {"absent", "finish"}
        BY <1>2, <2>2, <3>1 DEF Settled
      <3>3. Owned(RefOf(w), nodes[n])
        BY <1>2, <3>1, <3>2 DEF WorkInv, WorkloadInv, Kept
      <3>4. LagOK(cache[n], nodes[n])
        BY DEF WorkInv, BaseInv, NodesInv, NodeInv, Behind
      <3>5. nodes[n].state \in {"absent", "finish"}
        BY <3>2, <3>3, <3>4 DEF LagOK, Owned, Exists
      <3> QED
        BY <3>1, <3>2, <3>3, <3>5
    <2> QED
      BY <2>1, <2>2 DEF Settled, Items
  <1>3. ASSUME NEW w \in Workload PROVE Disposed(w)'
    <2>1. Disposed(w) /\ RefOf(w)' = RefOf(w)
      BY DEF ReleaseInv, RefOf
    <2>2. (Live(w) => Settled(w, workloads[w].phases))'
      BY <1>2, <2>1 DEF Disposed, Live, Settled
    <2>3. ASSUME workloads[w].del, NEW i \in Items(w)
          PROVE Releasable(w, Jobs[w][i].node)'
      <3>1. PICK n \in Node : n = Jobs[w][i].node
        BY JobTypes DEF Items
      <3>2. Releasable(w, n) /\ ClaimHeld(n)
        BY <2>1, <2>3, <3>1 DEF Disposed, ReleaseInv
      <3>3. /\ AtUninstall(w) => NodesNotShared' \/ AtUninstall(w)'
            /\ NodesNotShared => NodesNotShared'
            /\ cache'[n] \in {cache[n], nodes[n]}
        BY DEF AtUninstall, NodesNotShared, Items
      <3>4. Releasable(w, n)'
        <4>1. CASE nodes'[n] = nodes[n]
          BY <2>1, <3>2, <3>3, <4>1 DEF Releasable
        <4>2. CASE Stays(nodes[n], nodes'[n])
          BY <2>1, <3>2, <3>3, <4>2 DEF Releasable, Stays, ClaimHeld
        <4> QED
          BY <4>1, <4>2
      <3> QED
        BY <3>1, <3>4
    <2>4. (workloads[w].del => Finished(w) /\ \A i \in Items(w) : Releasable(w, Jobs[w][i].node))'
      BY <2>1, <2>3 DEF Disposed, Finished, Items
    <2>5. (Finished(w) => workloads[w].fin)' /\ (Finished(w) =>
             \A i \in Items(w) : workloads[w].phases[i] \in {"succeeded", "failed"})'
      BY <2>1 DEF Disposed, Finished, Items
    <2> QED
      BY <2>2, <2>4, <2>5 DEF Disposed
  <1>4. LoopRelease'
    <2>1. CASE ww' = WIdle
      BY <2>1 DEF LoopRelease, WIdle
    <2>2. CASE ww' = ww /\ ww.pc \notin {"inspect", "uninstall"}
      BY <2>2 DEF LoopRelease
    <2>3. CASE ww' = ww /\ ww.pc = "inspect"
      <3>1. PICK w \in Workload : w = ww.w
        BY <2>3, WorkerKnows DEF WorkInv
      <3>2. Live(w)
        <4>1. Exists(workloads[w]) /\ ww.obj.state = "running" /\ ww.obj \in WorkloadObject(w)
              /\ workloads[w] \in {ww.obj, [ww.obj EXCEPT !.del = TRUE]}
          BY <2>3, <3>1, WorkerKnows DEF WorkInv, BaseInv, WorkersInv, WorkloadHeld
        <4>2. workloads[w].state = "running"
          BY <4>1 DEF WorkloadObject
        <4> QED
          BY <4>1, <4>2 DEF ReleaseInv, Disposed, Finished, Live
      <3>3. Settled(w, ww.phases)
        BY <2>3, <3>1 DEF ReleaseInv, LoopRelease
      <3>4. PICK ps : ps = ww.phases
        OBVIOUS
      <3>5. Settled(w, ps)'
        BY <1>2, <3>2, <3>3, <3>4
      <3> QED
        BY <2>3, <3>1, <3>4, <3>5 DEF LoopRelease
    <2>4. CASE ww' = ww /\ ww.pc = "uninstall"
      <3>1. PICK w \in Workload : w = ww.w /\ ww \in WorkerAt(w)
        BY <2>4, WorkerKnows DEF WorkInv
      <3>2. ASSUME NEW j \in 1 .. ww.i - 1
            PROVE GivenUp(w, nodes[Jobs[w][j].node])'
        <4>1. j \in 1 .. Len(Jobs[w])
          BY <3>1, JobTypes DEF WorkerAt
        <4>2. PICK n \in Node : n = Jobs[w][j].node
          BY <4>1, JobTypes
        <4>3. GivenUp(w, nodes[n]) /\ RefOf(w)' = RefOf(w)
          BY <2>4, <3>1, <4>2 DEF ReleaseInv, LoopRelease, RefOf
        <4>4. GivenUp(w, nodes[n])'
          BY <4>3 DEF GivenUp, Stays
        <4> QED
          BY <4>2, <4>4
      <3> QED
        BY <2>4, <3>1, <3>2 DEF LoopRelease
    <2> QED
      BY <2>1, <2>2, <2>3, <2>4
  <1> QED
    BY <1>1, <1>3, <1>4 DEF ReleaseInv

\* Lemma: the resource controller and a deletion leave a node with its claim, or
\* the node is gone.
LEMMA NodeStepStays ==
    ASSUME NodesInv, NEW n \in Node, NodeBegin(n) \/ NodeEnd(n) \/ DeleteNode(n)
    PROVE /\ UNCHANGED cache
          /\ \A m \in Node : nodes'[m] = nodes[m] \/ Stays(nodes[m], nodes'[m])
  <1>1. nodes \in [Node -> NodeObject(Claim)] /\ cache \in [Node -> NodeObject(Claim)]
    BY DEF NodesInv, NodeTypes, NodeTypeOK
  <1>2. ASSUME NEW q, nodes' = [nodes EXCEPT ![n] = q], Stays(nodes[n], q)
        PROVE \A m \in Node : nodes'[m] = nodes[m] \/ Stays(nodes[m], nodes'[m])
    BY <1>1, <1>2
  <1>3. ASSUME NEW o \in NodeObject(Claim), UpdateNode(n, cache[n], o), o.claim = cache[n].claim,
               o.del = cache[n].del, Exists(cache[n]), Exists(o), cache[n].state # "finish"
        PROVE \A m \in Node : nodes'[m] = nodes[m] \/ Stays(nodes[m], nodes'[m])
    <2>1. PICK v \in Nat : v = cache[n].ver + 1
      BY <1>1 DEF NodeObject
    <2>2. PICK q : q = [o EXCEPT !.ver = v]
      OBVIOUS
    <2>3. q.state = o.state /\ q.del = o.del /\ q.claim = o.claim
      BY <2>2, NewVersion
    <2>4. nodes' = [nodes EXCEPT ![n] = q] /\ nodes[n] = cache[n]
      BY <1>3, <2>1, <2>2 DEF UpdateNode
    <2>5. Stays(nodes[n], q)
      BY <1>3, <2>3, <2>4 DEF Stays, Exists
    <2> QED
      BY <1>2, <2>4, <2>5
  <1>4. CASE \/ NodeBeginPending(n) \/ NodePending(n) \/ NodeReady(n) \/ NodeRestart(n)
             \/ NodeFirstPhase(n) \/ NodeRunning(n) \/ NodeFinish(n)
    <2>1. /\ UNCHANGED cache
          /\ cache[n].state \in {Unset, "pending", "uninitialized", "ready"}
      BY <1>4
      DEF NodeBeginPending, NodePending, NodeFirstPhase, NodeRunning, NodeReady, NodeFinish,
          NodeRestart, Uninitialized, Reconciling
    <2>2. Exists(cache[n]) /\ cache[n].state # "finish"
      BY <2>1, UnsetIsNone DEF Exists
    <2>3. PICK o : /\ UpdateNode(n, cache[n], o) /\ o \in NodeObject(Claim)
                   /\ o.claim = cache[n].claim /\ o.del = cache[n].del /\ Exists(o)
      <3>1. CASE NodeBeginPending(n) \/ NodePending(n) \/ NodeReady(n) \/ NodeRestart(n)
        <4>1. PICK st \in {"pending", "uninitialized", "ready"} :
                UpdateNode(n, cache[n], [cache[n] EXCEPT !.state = st])
          BY <3>1 DEF NodeBeginPending, NodePending, NodeReady, NodeRestart
        <4>2. PICK o : o = [cache[n] EXCEPT !.state = st]
          OBVIOUS
        <4> QED
          BY <1>1, <4>1, <4>2 DEF NodeObject, Exists
      <3>2. CASE NodeFirstPhase(n) \/ NodeRunning(n)
        <4>1. PICK st \in {"pending", "running"} :
                UpdateNode(n, cache[n], [cache[n] EXCEPT !.phase = st])
          BY <3>2 DEF NodeFirstPhase, NodeRunning
        <4>2. PICK o : o = [cache[n] EXCEPT !.phase = st]
          OBVIOUS
        <4> QED
          BY <1>1, <2>2, <4>1, <4>2, UnsetIsNone DEF NodeObject, Exists
      <3>3. CASE NodeFinish(n)
        <4>1. PICK st \in {"succeeded", "failed"} :
                UpdateNode(n, cache[n], [cache[n] EXCEPT !.state = "finish", !.phase = st])
          BY <3>3 DEF NodeFinish
        <4>2. PICK o : o = [cache[n] EXCEPT !.state = "finish", !.phase = st]
          OBVIOUS
        <4>3. /\ o \in NodeObject(Claim) /\ o.state = "finish"
              /\ o.claim = cache[n].claim /\ o.del = cache[n].del
          BY <1>1, <4>2 DEF NodeObject
        <4> QED
          BY <4>1, <4>2, <4>3 DEF Exists
      <3> QED
        BY <1>4, <3>1, <3>2, <3>3
    <2> QED
      BY <1>3, <2>1, <2>2, <2>3
  <1>5. CASE \/ NodeCreateContainer(n) \/ NodeConnect(n) \/ NodeStart(n)
             \/ CleanerCreate(n) \/ CleanerStart(n) \/ CleanerWait(n) \/ NodeSkip(n)
             \/ NodeRelease(n) \/ NodeCleanConflict(n) \/ NodeGoneConflict(n)
    BY <1>5
    DEF NodeCreateContainer, NodeConnect, NodeStart, CleanerCreate, CleanerStart, CleanerWait,
        NodeSkip, NodeRelease, NodeCleanConflict, NodeGoneConflict, CleanerDone
  <1>6. CASE NodeReset(n) \/ NodeGone(n)
    <2> DEFINE t == tw.obj
    <2>1. /\ UNCHANGED cache /\ nodes[n] = t /\ t \in NodeObject(Claim)
          /\ NodeReset(n) => t.del \/ t.state = "destroy"
      BY <1>6
      DEF NodeReset, NodeGone, CleanerDone, UpdateNode, NodesInv, NodeTypes, NodeTypeOK, Waiting
    <2>2. PICK v \in Nat : v = t.ver + 1
      BY <2>1 DEF NodeObject
    <2>3. CASE NodeReset(n)
      <3>1. PICK q : q = [Reset(t) EXCEPT !.ver = v]
        OBVIOUS
      <3>2. ~t.del /\ nodes' = [nodes EXCEPT ![n] = q]
        BY <2>2, <2>3, <3>1 DEF NodeReset, UpdateNode
      <3>3. q.state = "uninitialized" /\ q.claim = t.claim
        BY <2>1, <3>1 DEF Reset, NodeObject
      <3>4. Stays(t, q)
        BY <2>1, <2>3, <3>2, <3>3 DEF Stays, Exists
      <3> QED
        BY <1>2, <2>1, <3>2, <3>4
    <2>4. CASE NodeGone(n)
      <3>1. PICK q : q = Gone(t)
        OBVIOUS
      <3>2. nodes' = [nodes EXCEPT ![n] = q]
        BY <2>1, <2>4, <3>1 DEF NodeGone
      <3>3. q.state = "absent" /\ q.claim = None
        BY <2>2, <3>1 DEF Gone, NewNode
      <3>4. Stays(t, q)
        BY <3>3 DEF Stays, Exists
      <3> QED
        BY <1>2, <2>1, <3>2, <3>4
    <2> QED
      BY <1>6, <2>3, <2>4
  <1>7. CASE DeleteNode(n)
    <2>1. /\ UNCHANGED cache /\ IsRequired(nodes[n])
          /\ nodes' = [nodes EXCEPT ![n].del = TRUE, ![n].ver = @ + 1]
      BY <1>7 DEF DeleteNode
    <2>2. PICK v : v = nodes[n].ver + 1
      OBVIOUS
    <2>3. PICK q : q = [nodes[n] EXCEPT !.del = TRUE, !.ver = v]
      OBVIOUS
    <2>4. q.state = nodes[n].state /\ q.claim = nodes[n].claim /\ q.del
      BY <1>1, <2>3 DEF NodeObject
    <2>5. nodes' = [nodes EXCEPT ![n] = q]
      BY <1>1, <2>1, <2>2, <2>3 DEF NodeObject
    <2>6. Stays(nodes[n], q)
      BY <2>1, <2>4 DEF Stays, IsRequired, Exists
    <2> QED
      BY <1>2, <2>1, <2>5, <2>6
  <1> QED
    BY <1>4, <1>5, <1>6, <1>7 DEF NodeBegin, NodeEnd

\* Lemma: what happens on the hosts and to the cache leaves every claim alone; only a
\* crash stops the worker on its way through an uninstallation.
LEMMA HostsStay ==
    ASSUME BaseInv, NobodyBetween, crashes \in Nat,
           \/ \E n \in Node : Exit(n) \/ Lose(n) \/ EndCleaning(n) \/ Watch(n) \/ Bind(n)
           \/ Crash \/ Panic \/ WatchBindings
           \/ UNCHANGED vars
    PROVE /\ UNCHANGED <<workloads, nodes>>
          /\ ww' = ww \/ (ww' = WIdle /\ (ww.pc # "uninstall" \/ NodesNotShared))
          /\ \A m \in Node : cache'[m] \in {cache[m], nodes[m]}
  <1>1. CASE \E n \in Node : Exit(n) \/ Lose(n) \/ EndCleaning(n) \/ Watch(n) \/ Bind(n)
    <2>1. PICK n \in Node : Exit(n) \/ Lose(n) \/ EndCleaning(n) \/ Watch(n) \/ Bind(n)
      BY <1>1
    <2>2. UNCHANGED <<workloads, nodes, ww>>
      BY <2>1
      DEF Exit, Lose, EndCleaning, Watch, Bind, ContainerExit, ContainerLost, CleanerExit, WatchNode,
          BindNode, workloadVars
    <2>3. cache \in [Node -> NodeObject(Claim)]
      BY DEF BaseInv, NodesInv, NodeTypes, NodeTypeOK
    <2>4. \A m \in Node : cache'[m] \in {cache[m], nodes[m]}
      BY <2>1, <2>3
      DEF Exit, Lose, EndCleaning, Watch, Bind, ContainerExit, ContainerLost, CleanerExit, WatchNode,
          BindNode
    <2> QED
      BY <2>2, <2>4
  <1>2. CASE Crash
    <2>1. MaxCrash # 0
      BY <1>2 DEF Crash
    <2> QED
      BY <1>2, <2>1 DEF Crash, Restart, NobodyBetween
  <1>3. CASE Panic
    BY <1>3 DEF Panic, Restart, SeesBug, AtItem
  <1>4. CASE UNCHANGED vars
    BY <1>4 DEF vars, nodeVars, workloadVars
  <1>5. CASE WatchBindings
    BY <1>5 DEF WatchBindings, WatchRelationship, workloadVars
  <1> QED
    BY <1>1, <1>2, <1>3, <1>4, <1>5

\* Lemma: the reference to a workload that is there names it.
LEMMA RefTypes ==
    ASSUME BaseInv, NEW v \in Workload, Exists(workloads[v])
    PROVE RefOf(v) \in WorkloadRef /\ RefOf(v) # None /\ RefOf(v).name = v
  <1>1. workloads[v] \in WorkloadObject(v) /\ Whole(workloads[v])
    BY DEF BaseInv, WorkersInv, WorkloadTypeOK
  <1>2. workloads[v].gen \in 1 .. MaxGen
    BY <1>1 DEF WorkloadObject, Whole
  <1>3. RefOf(v) \in WorkloadRef /\ RefOf(v).name = v
    BY <1>2 DEF RefOf, Ref, WorkloadRef
  <1> QED
    BY <1>3, WorkloadAssumption

\* Lemma: a workload whose deletion is asked for is there.
LEMMA DeletedExists ==
    ASSUME BaseInv, NEW v \in Workload, workloads[v].del
    PROVE Exists(workloads[v])
  BY DEF BaseInv, WorkersInv, Whole

\* Lemma: the worker installs and inspects workloads that nobody has deleted.
LEMMA WorkerWanted ==
    ASSUME WorkInv, ReleaseInv, ww.pc \in {"install", "inspect", "uninstall"}
    PROVE /\ ww.w \in Workload
          /\ ww.pc # "uninstall" => Live(ww.w) /\ ~Finished(ww.w) /\ ww.obj = workloads[ww.w]
          /\ ww.pc = "uninstall" => workloads[ww.w] = ww.obj /\ workloads[ww.w].del
  <1>1. /\ ww.w \in Workload /\ ww.obj \in WorkloadObject(ww.w)
        /\ workloads[ww.w] \in {ww.obj, [ww.obj EXCEPT !.del = TRUE]}
        /\ Exists(workloads[ww.w])
        /\ ww.pc = "install" => ww.obj.state = "pending" /\ ~ww.obj.del
        /\ ww.pc = "inspect" => ww.obj.state = "running" /\ ~ww.obj.del
        /\ ww.pc = "uninstall" => ww.obj.del
    BY WorkerKnows DEF WorkInv, BaseInv, WorkersInv, WorkloadHeld
  <1>2. workloads[ww.w].state = ww.obj.state /\ (workloads[ww.w] = ww.obj \/ workloads[ww.w].del)
    BY <1>1 DEF WorkloadObject
  <1>3. workloads[ww.w].del => Finished(ww.w)
    BY <1>1 DEF ReleaseInv, Disposed
  <1>4. ww.pc # "uninstall" => ~Finished(ww.w)
    BY <1>1, <1>2 DEF Finished
  <1>5. ww.obj.del => workloads[ww.w] = ww.obj
    BY <1>1 DEF WorkloadObject
  <1> QED
    BY <1>1, <1>2, <1>3, <1>4, <1>5 DEF Live

\* Lemma: a node that a deleted workload is about to release is nobody else's.
LEMMA ReleaseUndisturbed ==
    ASSUME WorkInv, ReleaseInv
    PROVE Undisturbed
  <1> SUFFICES ASSUME AtItem("uninstall"), NEW u \in Workload, NEW i \in Items(u),
                      Live(u), Jobs[u][i].node = Job.node,
                      nodes[Job.node].claim = RefOf(u)
               PROVE FALSE
    BY DEF Undisturbed
  <1>1. ww.w \in Workload /\ workloads[ww.w].del
    BY WorkerWanted DEF AtItem
  <1>2. ww.i \in Items(ww.w)
    BY WorkerKnows, JobTypes DEF WorkInv, AtItem, WorkerAt, Items
  <1>3. Releasable(ww.w, Job.node)
    BY <1>1, <1>2 DEF ReleaseInv, Disposed, Job
  <1>4. RefOf(u) # None /\ RefOf(u).name = u /\ RefOf(ww.w).name = ww.w
    BY <1>1, RefTypes, DeletedExists DEF WorkInv, Live
  <1> QED
    BY <1>1, <1>3, <1>4 DEF Releasable, Live

\* Lemma: a step of one workload keeps what is said of claims, when its own claims
\* are still held and the worker leaves no uninstallation of another one.
LEMMA WorkloadMovesClaims ==
    ASSUME WorkInv, ReleaseInv, UNCHANGED <<nodes, cache, crashes>>, NEW w \in Workload,
           \A v \in Workload \ {w} :
              workloads'[v] = workloads[v] /\ (AtUninstall(v) => AtUninstall(v)'),
           \A n \in Node : nodes[n].claim # None /\ ~nodes[n].del /\ nodes[n].claim.name = w =>
              Exists(workloads'[w]) /\ workloads'[w].gen = nodes[n].claim.gen,
           Disposed(w)', LoopRelease'
    PROVE ReleaseInv'
  <1>1. ASSUME NEW n \in Node PROVE ClaimHeld(n)'
    <2>1. nodes[n].claim \in WorkloadRef \cup {None} /\ ClaimHeld(n)
      BY DEF WorkInv, BaseInv, NodesInv, NodeTypes, NodeTypeOK, NodeObject, Claim, ReleaseInv
    <2>2. nodes[n].claim # None => nodes[n].claim.name \in Workload
      BY <2>1 DEF WorkloadRef
    <2> QED
      BY <2>1, <2>2 DEF ClaimHeld
  <1>2. ASSUME NEW v \in Workload, v # w PROVE Disposed(v)'
    <2>1. Disposed(v) /\ workloads'[v] = workloads[v] /\ (AtUninstall(v) => AtUninstall(v)')
      BY <1>2 DEF ReleaseInv
    <2>2. RefOf(v)' = RefOf(v) /\ (Live(v)' <=> Live(v)) /\ (Finished(v)' <=> Finished(v))
      BY <2>1 DEF RefOf, Live, Finished
    <2>3. (Live(v) => Settled(v, workloads[v].phases))'
      BY <2>1, <2>2 DEF Disposed, Settled, Items
    <2>4. NodesNotShared => NodesNotShared'
      BY DEF NodesNotShared, Items
    <2>5. ASSUME NEW i \in Items(v), Releasable(v, Jobs[v][i].node)
          PROVE Releasable(v, Jobs[v][i].node)'
      BY <2>1, <2>2, <2>4, <2>5 DEF Releasable
    <2>6. (workloads[v].del => Finished(v) /\ \A i \in Items(v) : Releasable(v, Jobs[v][i].node))'
      BY <2>1, <2>2, <2>5 DEF Disposed, Items
    <2>7. (Finished(v) => workloads[v].fin)' /\ (Finished(v) =>
             \A i \in Items(v) : workloads[v].phases[i] \in {"succeeded", "failed"})'
      BY <2>1, <2>2 DEF Disposed, Items
    <2> QED
      BY <2>3, <2>6, <2>7 DEF Disposed
  <1> QED
    BY <1>1, <1>2 DEF ReleaseInv

\* Lemma: the claims of a workload that stays what it is are held.
LEMMA OwnClaimsHeld ==
    ASSUME ReleaseInv, NEW w \in Workload, Exists(workloads'[w]), workloads'[w].gen = workloads[w].gen
    PROVE \A n \in Node : nodes[n].claim # None /\ ~nodes[n].del /\ nodes[n].claim.name = w =>
              Exists(workloads'[w]) /\ workloads'[w].gen = nodes[n].claim.gen
  BY DEF ReleaseInv, ClaimHeld

\* Lemma: what the worker has seen of its own workload is not touched by others.
LEMMA LoopReleaseElsewhere ==
    ASSUME WorkInv, ReleaseInv, UNCHANGED <<nodes, cache, ww>>, NEW w \in Workload,
           \A v \in Workload \ {w} : workloads'[v] = workloads[v],
           ww.pc = "idle" \/ ww.w # w
    PROVE LoopRelease'
  <1>1. CASE ww.pc = "idle"
    BY <1>1 DEF LoopRelease
  <1>2. CASE ww.pc # "idle" /\ ww.w # w
    <2>1. PICK v \in Workload : v = ww.w
      BY <1>2, WorkerKnows DEF WorkInv
    <2>2. RefOf(v)' = RefOf(v)
      BY <1>2, <2>1 DEF RefOf
    <2>3. (ww.pc = "inspect" => Settled(v, ww.phases))'
      BY <2>1, <2>2 DEF ReleaseInv, LoopRelease, Settled, Items
    <2>4. (ww.pc = "uninstall" => \A j \in 1 .. ww.i - 1 : GivenUp(v, nodes[Jobs[v][j].node]))'
      BY <2>1, <2>2 DEF ReleaseInv, LoopRelease, GivenUp
    <2> QED
      BY <2>1, <2>3, <2>4 DEF LoopRelease
  <1> QED
    BY <1>1, <1>2

\* Lemma: what is said of one workload alone is kept when it is not touched.
LEMMA DisposedStill ==
    ASSUME ReleaseInv, UNCHANGED <<nodes, cache, workloads>>, NEW w \in Workload,
           AtUninstall(w) => AtUninstall(w)'
    PROVE Disposed(w)'
  <1>1. Disposed(w) /\ RefOf(w)' = RefOf(w) /\ (Live(w)' <=> Live(w)) /\ (Finished(w)' <=> Finished(w))
    BY DEF ReleaseInv, RefOf, Live, Finished
  <1>2. NodesNotShared => NodesNotShared'
    BY DEF NodesNotShared, Items
  <1>3. ASSUME NEW i \in Items(w), Releasable(w, Jobs[w][i].node)
        PROVE Releasable(w, Jobs[w][i].node)'
    BY <1>1, <1>2, <1>3 DEF Releasable
  <1>4. (Live(w) => Settled(w, workloads[w].phases))'
    BY <1>1 DEF Disposed, Settled, Items
  <1>5. (workloads[w].del => Finished(w) /\ \A i \in Items(w) : Releasable(w, Jobs[w][i].node))'
    BY <1>1, <1>3 DEF Disposed, Items
  <1>6. (Finished(w) => workloads[w].fin)' /\ (Finished(w) =>
           \A i \in Items(w) : workloads[w].phases[i] \in {"succeeded", "failed"})'
    BY <1>1 DEF Disposed, Items
  <1> QED
    BY <1>4, <1>5, <1>6 DEF Disposed

\* Lemma: a worker that goes on within a loop, or into one, keeps what is said of
\* claims.
LEMMA LoopClaims ==
    ASSUME WorkInv, ReleaseInv, UNCHANGED <<nodes, cache, workloads, crashes>>,
           NEW w \in Workload, \A v \in Workload : AtUninstall(v) => AtUninstall(v)', LoopRelease'
    PROVE ReleaseInv'
  <1>1. Disposed(w)'
    BY DisposedStill
  <1>2. \A n \in Node : nodes[n].claim # None /\ ~nodes[n].del /\ nodes[n].claim.name = w =>
              Exists(workloads'[w]) /\ workloads'[w].gen = nodes[n].claim.gen
    BY DEF ReleaseInv, ClaimHeld
  <1> QED
    BY <1>1, <1>2, WorkloadMovesClaims

\* Lemma: a written workload of the same number that is not deleted.
LEMMA WorkloadWrittenClaims ==
    ASSUME WorkInv, ReleaseInv, UNCHANGED <<nodes, cache, crashes>>, NEW w \in Workload, NEW q,
           workloads' = [workloads EXCEPT ![w] = q],
           Exists(q), ~q.del, q.gen = workloads[w].gen, Settled(w, q.phases),
           q.state \in {"succeeded", "failed"} =>
              q.fin /\ \A i \in Items(w) : q.phases[i] \in {"succeeded", "failed"},
           ww.pc # "uninstall", ww' = WIdle \/ (ww' = ww /\ ww.pc = "idle")
    PROVE ReleaseInv'
  <1>1. workloads'[w] = q /\ \A v \in Workload \ {w} : workloads'[v] = workloads[v]
    BY DEF WorkInv, BaseInv, WorkersInv, WorkloadTypeOK
  <1>2. RefOf(w)' = RefOf(w)
    BY <1>1 DEF RefOf, Ref
  <1>3. Settled(w, workloads[w].phases)'
    BY <1>1, <1>2 DEF Settled, Items
  <1>4. Disposed(w)'
    BY <1>1, <1>3 DEF Disposed, Finished, Items
  <1>5. LoopRelease'
    BY DEF LoopRelease, WIdle
  <1>6. \A n \in Node : nodes[n].claim # None /\ ~nodes[n].del /\ nodes[n].claim.name = w =>
              Exists(workloads'[w]) /\ workloads'[w].gen = nodes[n].claim.gen
    BY <1>1, OwnClaimsHeld
  <1>7. \A v \in Workload : ~AtUninstall(v)
    BY DEF AtUninstall
  <1> QED
    BY <1>1, <1>4, <1>5, <1>6, <1>7, WorkloadMovesClaims

\* Lemma: the steps before the loops.
LEMMA WorkloadBeginClaims ==
    ASSUME WorkInv, ReleaseInv, NEW w \in Workload, WorkloadBegin(w), UNCHANGED crashes
    PROVE ReleaseInv'
  <1> DEFINE o == workloads[w]
  <1>1. o \in WorkloadObject(w) /\ Disposed(w) /\ ww.pc = "idle" /\ UNCHANGED <<nodes, cache>>
    BY DEF WorkInv, BaseInv, WorkersInv, WorkloadTypeOK, WorkloadBegin, WorkloadAddFinalizer,
           WorkloadBeginPending, WorkloadLoop, nodeVars, ReleaseInv
  <1>2. CASE WorkloadAddFinalizer(w)
    <2>1. Exists(o) /\ ~o.del /\ ~o.fin /\ ww' = ww
      BY <1>2 DEF WorkloadAddFinalizer
    <2>2. Settled(w, o.phases) /\ o.state \notin {"succeeded", "failed"}
      BY <1>1, <2>1 DEF Disposed, Live, Finished
    <2>3. PICK q : q = [o EXCEPT !.fin = TRUE]
      OBVIOUS
    <2>4. q.gen = o.gen /\ q.phases = o.phases /\ q.del = o.del /\ q.state = o.state
      BY <1>1, <2>3 DEF WorkloadObject
    <2>5. workloads' = [workloads EXCEPT ![w] = q]
      BY <1>2, <2>3 DEF WorkloadAddFinalizer, UpdateWorkload
    <2> QED
      BY <1>1, <2>1, <2>2, <2>4, <2>5, WorkloadWrittenClaims DEF Exists
  <1>3. CASE WorkloadBeginPending(w)
    <2>1. o.state = Unset /\ ~o.del /\ ww' = ww
      BY <1>3 DEF WorkloadBeginPending
    <2>2. Settled(w, o.phases)
      BY <1>1, <2>1, UnsetIsNone DEF Disposed, Live, Exists
    <2>3. PICK q : q = [o EXCEPT !.state = "pending"]
      OBVIOUS
    <2>4. q.gen = o.gen /\ q.phases = o.phases /\ q.del = o.del /\ q.state = "pending"
      BY <1>1, <2>3 DEF WorkloadObject
    <2>5. workloads' = [workloads EXCEPT ![w] = q]
      BY <1>3, <2>3 DEF WorkloadBeginPending, UpdateWorkload
    <2> QED
      BY <1>1, <2>1, <2>2, <2>4, <2>5, WorkloadWrittenClaims DEF Exists
  <1>4. CASE WorkloadLoop(w)
    <2>1. /\ UNCHANGED workloads /\ ww'.w = w /\ ww'.i = 1 /\ ww'.phases = o.phases
          /\ ww'.pc = "inspect" => o.state = "running" /\ ~o.del
      BY <1>4 DEF WorkloadLoop
    <2>2. ww'.pc = "inspect" => Settled(w, o.phases)
      BY <1>1, <2>1 DEF Disposed, Live, Exists
    <2>3. ww'.pc = "inspect" => Settled(w, ww.phases)'
      BY <1>1, <2>1, <2>2 DEF Settled, RefOf, Items
    <2>4. LoopRelease'
      BY <2>1, <2>3 DEF LoopRelease
    <2>5. \A v \in Workload : AtUninstall(v) => AtUninstall(v)'
      BY <1>1 DEF AtUninstall
    <2> QED
      BY <1>1, <2>1, <2>4, <2>5, LoopClaims
  <1> QED
    BY <1>2, <1>3, <1>4 DEF WorkloadBegin

\* Lemma: a new workload has no claim.
LEMMA CreateWorkloadClaims ==
    ASSUME WorkInv, ReleaseInv, NEW w \in Workload, CreateWorkload(w)
    PROVE ReleaseInv'
  <1> DEFINE o == workloads[w]
  <1>1. o \in WorkloadObject(w) /\ ~Exists(o) /\ Whole(o) /\ UNCHANGED <<nodes, cache, ww, crashes>>
    BY DEF WorkInv, BaseInv, WorkersInv, WorkloadTypeOK, CreateWorkload, nodeVars, envVars
  <1>2. PICK a : a = AbsentWorkload(w, o.gen + 1)
    OBVIOUS
  <1>3. PICK q : q = [a EXCEPT !.state = Unset]
    OBVIOUS
  <1>4. q.state = Unset /\ q.phases = NoPhases(w) /\ q.del = FALSE
    BY <1>2, <1>3 DEF AbsentWorkload
  <1>5. workloads' = [workloads EXCEPT ![w] = q]
    BY <1>2, <1>3 DEF CreateWorkload
  <1>6. workloads'[w] = q /\ \A v \in Workload \ {w} : workloads'[v] = workloads[v]
    BY <1>5 DEF WorkInv, BaseInv, WorkersInv, WorkloadTypeOK
  <1>7. Disposed(w)'
    BY <1>4, <1>6, UnsetIsNone DEF Disposed, Finished, Settled, NoPhases, Items
  <1>8. \A n \in Node : nodes[n].claim # None /\ ~nodes[n].del => nodes[n].claim.name # w
    BY <1>1 DEF ReleaseInv, ClaimHeld
  <1>9. ww.pc = "idle" \/ ww.w # w
    BY <1>1, WorkerKnows DEF WorkInv
  <1>10. LoopRelease'
    BY <1>1, <1>6, <1>9, LoopReleaseElsewhere
  <1>11. \A v \in Workload : AtUninstall(v) => AtUninstall(v)'
    BY <1>1 DEF AtUninstall
  <1> QED
    BY <1>1, <1>6, <1>7, <1>8, <1>10, <1>11, WorkloadMovesClaims

\* Lemma: a workload that is deleted has finished, so that its nodes have too and
\* the cache shows it.
LEMMA DeleteWorkloadClaims ==
    ASSUME ~DeletesAny, WorkInv, ReleaseInv, NEW w \in Workload, DeleteWorkload(w)
    PROVE ReleaseInv'
  <1> DEFINE o == workloads[w]
  <1>1. /\ o \in WorkloadObject(w) /\ Exists(o) /\ ~o.del /\ Finished(w) /\ Disposed(w)
        /\ WorkloadInv(w) /\ UNCHANGED <<nodes, cache, ww, crashes>>
    BY DEF WorkInv, BaseInv, WorkersInv, WorkloadTypeOK, DeleteWorkload, MayDelete, nodeVars,
           envVars, ReleaseInv
  <1>2. o.fin /\ Live(w)
    BY <1>1 DEF Disposed, Live
  <1>3. PICK q : q = [o EXCEPT !.del = TRUE]
    OBVIOUS
  <1>4. workloads' = [workloads EXCEPT ![w] = q]
    BY <1>2, <1>3 DEF DeleteWorkload
  <1>5. workloads'[w] = q /\ \A v \in Workload \ {w} : workloads'[v] = workloads[v]
    BY <1>4 DEF WorkInv, BaseInv, WorkersInv, WorkloadTypeOK
  <1>6. q.gen = o.gen /\ q.del /\ q.state = o.state /\ q.phases = o.phases /\ q.fin
    BY <1>1, <1>2, <1>3 DEF WorkloadObject
  <1>7. RefOf(w)' = RefOf(w) /\ Finished(w)' /\ ~Live(w)' /\ Exists(q)
    BY <1>1, <1>5, <1>6 DEF RefOf, Ref, Finished, Live, Exists
  <1>8. ASSUME NEW i \in Items(w) PROVE Releasable(w, Jobs[w][i].node)'
    <2>1. PICK n \in Node : n = Jobs[w][i].node
      BY JobTypes DEF Items
    <2>2. Owned(RefOf(w), cache[n]) /\ cache[n].state \in {"absent", "finish"}
      BY <1>1, <1>2, <2>1 DEF Disposed, Settled
    <2>3. Owned(RefOf(w), nodes[n]) /\ LagOK(cache[n], nodes[n]) /\ ClaimHeld(n)
      BY <1>1, <1>2, <2>1, <2>2
      DEF WorkloadInv, Kept, WorkInv, BaseInv, NodesInv, NodeInv, Behind, ReleaseInv
    <2>4. \/ ~Exists(nodes[n]) /\ nodes[n].claim = None
          \/ /\ nodes[n].claim = RefOf(w)
             /\ nodes[n].del \/ (nodes[n].state = "finish" /\ nodes[n] = cache[n])
      BY <2>2, <2>3 DEF Owned, LagOK, Leaving, Exists, ClaimHeld
    <2>5. Releasable(w, n)'
      BY <1>1, <1>7, <2>4 DEF Releasable
    <2> QED
      BY <2>1, <2>5
  <1>9. Disposed(w)'
    BY <1>1, <1>5, <1>6, <1>7, <1>8 DEF Disposed, Items
  <1>10. ww.pc = "idle" \/ ww.w # w
    <2>1. SUFFICES ASSUME ww.pc # "idle", ww.w = w PROVE FALSE
      OBVIOUS
    <2>2. ww.pc \in {"install", "inspect", "uninstall"}
      BY <2>1, WorkerKnows DEF WorkInv, WorkerAt
    <2> QED
      BY <1>1, <2>1, <2>2, WorkerWanted
  <1>11. LoopRelease'
    BY <1>1, <1>5, <1>10, LoopReleaseElsewhere
  <1>12. \A n \in Node : nodes[n].claim # None /\ ~nodes[n].del /\ nodes[n].claim.name = w =>
              Exists(workloads'[w]) /\ workloads'[w].gen = nodes[n].claim.gen
    BY <1>5, <1>6, <1>7, OwnClaimsHeld
  <1>13. \A v \in Workload : AtUninstall(v) => AtUninstall(v)'
    BY <1>1 DEF AtUninstall
  <1> QED
    BY <1>1, <1>5, <1>9, <1>11, <1>12, <1>13, WorkloadMovesClaims

\* Lemma: the loops that install and inspect, but for a claim, and their ends.
LEMMA LoopsKeepClaims ==
    ASSUME WorkInv, ReleaseInv, UNCHANGED crashes,
           \/ InstallBlocked \/ InstallClaimConflict \/ InstallStarting \/ InstallUp
           \/ InspectNotFound \/ InspectItem \/ InstallEnd \/ InspectEnd
    PROVE ReleaseInv'
  <1>1. ww.pc \in {"install", "inspect"} /\ UNCHANGED <<nodes, cache>>
    BY DEF InstallBlocked, InstallClaimConflict, InstallStarting, InstallUp, InspectNotFound,
           InspectItem, InstallEnd, InspectEnd, AtItem, AfterItems, nodeVars
  <1>2. PICK w \in Workload : w = ww.w
    BY <1>1, WorkerWanted
  <1>3. /\ Live(w) /\ ~Finished(w) /\ workloads[w] = ww.obj /\ Disposed(w) /\ WorkloadInv(w)
        /\ ww \in WorkerAt(w) /\ ww.obj \in WorkloadObject(w) /\ ww.obj.fin
    BY <1>1, <1>2, WorkerWanted, WorkerKnows
    DEF WorkInv, ReleaseInv, BaseInv, WorkersInv, WorkloadHeld
  <1>4. \A v \in Workload : ~AtUninstall(v)
    BY <1>1 DEF AtUninstall
  <1>5. CASE UNCHANGED workloads /\ ww' = WIdle
    BY <1>1, <1>2, <1>4, <1>5, LoopClaims DEF LoopRelease, WIdle
  <1>6. CASE InstallBlocked \/ InstallClaimConflict \/ InspectNotFound
    BY <1>5, <1>6 DEF InstallBlocked, InstallClaimConflict, InspectNotFound, Return
  <1>7. CASE InstallStarting \/ InstallUp
    <2>1. PICK d \in {0, 1} : ww' = [ww EXCEPT !.i = @ + 1, !.count = @ + d]
      BY <1>7 DEF InstallStarting, InstallUp, Proceed
    <2>2. UNCHANGED workloads /\ ww'.pc = "install"
      BY <1>3, <1>7, <2>1 DEF InstallStarting, InstallUp, AtItem, WorkerAt
    <2> QED
      BY <1>1, <1>2, <1>4, <2>2, LoopClaims DEF LoopRelease
  <1>8. CASE InspectItem
    <2>1. /\ ww' = [ww EXCEPT !.i = ww.i + 1, !.phases[ww.i] = WorkloadNode.phase]
          /\ UNCHANGED workloads /\ ww.pc = "inspect" /\ ww.i <= Len(Jobs[w])
      BY <1>2, <1>8 DEF InspectItem, AtItem
    <2>2. PICK ps : ps = [ww.phases EXCEPT ![ww.i] = WorkloadNode.phase]
      OBVIOUS
    <2>3. ww'.pc = "inspect" /\ ww'.w = w /\ ww'.phases = ps
      BY <1>2, <1>3, <2>1, <2>2 DEF WorkerAt
    <2>4. ww.phases \in [Items(w) -> Phase] /\ ww.i \in Items(w)
      BY <1>2, <1>3, <2>1, JobTypes DEF WorkerAt, Items
    <2>5. ASSUME NEW i \in Items(w), ps[i] \in {"succeeded", "failed"}
          PROVE /\ Owned(RefOf(w), cache[Jobs[w][i].node])
                /\ cache[Jobs[w][i].node].state \in {"absent", "finish"}
      <3>1. CASE i = ww.i
        <4>1. PICK n \in Node : n = Jobs[w][i].node
          BY JobTypes DEF Items
        <4>2. ps[i] = cache[n].phase /\ Exists(cache[n])
          BY <1>2, <1>8, <2>2, <2>4, <3>1, <4>1
          DEF WorkloadNode, Job, InspectItem, CouldUninstall, Exists
        <4>3. workloads[w].state = "running"
          BY <1>3, <2>1 DEF WorkInv, BaseInv, WorkersInv, WorkloadHeld
        <4>4. Owned(RefOf(w), cache[n])
          BY <1>3, <4>1, <4>3 DEF WorkloadInv, AllOwned
        <4> QED
          BY <2>5, <4>1, <4>2, <4>4 DEF Owned
      <3>2. CASE i # ww.i
        <4>1. ps[i] = ww.phases[i]
          BY <2>2, <2>4, <3>2
        <4> QED
          BY <1>2, <2>1, <2>5, <4>1 DEF ReleaseInv, LoopRelease, Settled
      <3> QED
        BY <3>1, <3>2
    <2>6. RefOf(w)' = RefOf(w)
      BY <2>1 DEF RefOf
    <2>7. Settled(w, ps)'
      BY <1>1, <2>5, <2>6 DEF Settled, Items
    <2>8. LoopRelease'
      BY <2>3, <2>7 DEF LoopRelease
    <2> QED
      BY <1>1, <1>4, <2>1, <2>8, LoopClaims
  <1>9. CASE InstallEnd
    <2>1. PICK q : q = [ww.obj EXCEPT !.state = "running"]
      OBVIOUS
    <2>2. /\ q.gen = ww.obj.gen /\ q.phases = ww.obj.phases /\ q.state = "running"
          /\ q.del = ww.obj.del
      BY <1>3, <2>1 DEF WorkloadObject
    <2>3. ww' = WIdle /\ (UNCHANGED workloads \/ workloads' = [workloads EXCEPT ![w] = q])
      BY <1>2, <1>9, <2>1 DEF InstallEnd, Return
    <2>4. Settled(w, q.phases) /\ Exists(q) /\ ~q.del /\ q.gen = workloads[w].gen
      BY <1>3, <2>2 DEF Disposed, Live, Exists
    <2> QED
      BY <1>1, <1>5, <2>2, <2>3, <2>4, WorkloadWrittenClaims
  <1>10. CASE InspectEnd
    <2>1. PICK q : q = [ww.obj EXCEPT !.phases = ww.phases, !.state = Verdict(ww.phases)]
      OBVIOUS
    <2>2. /\ q.gen = ww.obj.gen /\ q.phases = ww.phases /\ q.state = Verdict(ww.phases)
          /\ q.del = ww.obj.del /\ q.fin
      BY <1>3, <2>1 DEF WorkloadObject
    <2>3. /\ ww' = WIdle /\ (UNCHANGED workloads \/ workloads' = [workloads EXCEPT ![w] = q])
          /\ ww.pc = "inspect"
      BY <1>2, <1>10, <2>1 DEF InspectEnd, Return, AfterItems
    <2>4. Settled(w, q.phases) /\ ~q.del /\ q.gen = workloads[w].gen
      BY <1>2, <1>3, <2>2, <2>3 DEF ReleaseInv, LoopRelease, Live
    <2>5. DOMAIN ww.phases = Items(w)
      BY <1>3 DEF WorkerAt, Items
    <2>6. /\ q.state \in {"succeeded", "failed", "running"}
          /\ q.state \in {"succeeded", "failed"} =>
                \A i \in Items(w) : q.phases[i] \in {"succeeded", "failed"}
      BY <2>2, <2>5 DEF Verdict
    <2>7. Exists(q)
      BY <2>6 DEF Exists
    <2> QED
      BY <1>1, <1>5, <2>2, <2>3, <2>4, <2>6, <2>7, WorkloadWrittenClaims
  <1> QED
    BY <1>6, <1>7, <1>8, <1>9, <1>10

\* Lemma: a workload goes when none of its nodes is claimed for it any more.
LEMMA UninstallEndClaims ==
    ASSUME WorkInv, ReleaseInv, UNCHANGED crashes, UninstallEnd
    PROVE ReleaseInv'
  <1>1. ww.pc = "uninstall" /\ ww.i > Len(Jobs[ww.w]) /\ UNCHANGED <<nodes, cache>> /\ ww' = WIdle
    BY DEF UninstallEnd, AfterItems, nodeVars, Return
  <1>2. PICK w \in Workload : w = ww.w
    BY <1>1, WorkerWanted
  <1>3. /\ workloads[w] = ww.obj /\ ww \in WorkerAt(w) /\ ww.obj \in WorkloadObject(w)
    BY <1>1, <1>2, WorkerWanted, WorkerKnows DEF WorkInv
  <1>4. ww.i = Len(Jobs[w]) + 1 /\ Items(w) = 1 .. ww.i - 1
    BY <1>1, <1>2, <1>3, JobTypes DEF WorkerAt, Items
  <1>5. PICK q : q = AbsentWorkload(w, ww.obj.gen)
    OBVIOUS
  <1>6. workloads' = [workloads EXCEPT ![w] = q]
    BY <1>2, <1>3, <1>5 DEF UninstallEnd
  <1>7. q.state = "absent" /\ q.del = FALSE
    BY <1>5 DEF AbsentWorkload
  <1>8. workloads'[w] = q /\ \A v \in Workload \ {w} : workloads'[v] = workloads[v]
    BY <1>6 DEF WorkInv, BaseInv, WorkersInv, WorkloadTypeOK
  <1>9. Disposed(w)'
    BY <1>7, <1>8 DEF Disposed, Live, Exists, Finished
  <1>10. LoopRelease'
    BY <1>1 DEF LoopRelease, WIdle
  <1>11. ASSUME NEW n \in Node, nodes[n].claim # None, ~nodes[n].del, nodes[n].claim.name = w
         PROVE FALSE
    <2>1. PICK i \in Items(w) : Jobs[w][i].node = n
      BY <1>11 DEF WorkInv, Counted, ClaimOf
    <2>2. GivenUp(w, nodes[n])
      BY <1>1, <1>2, <1>4, <2>1 DEF ReleaseInv, LoopRelease
    <2> QED
      BY <1>11, <2>2 DEF GivenUp
  <1>12. \A v \in Workload \ {w} : ~AtUninstall(v)
    BY <1>2 DEF AtUninstall
  <1> QED
    BY <1>1, <1>8, <1>9, <1>10, <1>11, <1>12, WorkloadMovesClaims

\* Lemma: a node that is claimed was free, and nobody who is deleted waits to
\* release it.
LEMMA InstallClaimClaims ==
    ASSUME WorkInv, ReleaseInv, UNCHANGED crashes, InstallClaim
    PROVE ReleaseInv'
  <1>1. /\ ww.pc = "install" /\ ww.i <= Len(Jobs[ww.w]) /\ UNCHANGED <<cache, workloads>>
        /\ ww' = [ww EXCEPT !.i = @ + 1, !.count = @ + 0]
    BY DEF InstallClaim, AtItem, Proceed
  <1>2. PICK w \in Workload : w = ww.w
    BY <1>1, WorkerWanted
  <1>3. Live(w) /\ ww \in WorkerAt(w) /\ Self = RefOf(w) /\ Self # None
    BY <1>1, <1>2, WorkerWanted, WorkerKnows DEF WorkInv
  <1>4. ww.i \in Items(w) /\ ww'.pc = "install"
    BY <1>1, <1>2, <1>3, JobTypes DEF WorkerAt, Items
  <1>5. PICK n \in Node : n = Jobs[w][ww.i].node
    BY <1>4, JobTypes DEF Items
  <1> DEFINE c == cache[n]
  <1>6. c \in NodeObject(Claim) /\ Job = Jobs[w][ww.i] /\ WorkloadNode = c
    BY <1>2, <1>5 DEF WorkInv, BaseInv, NodesInv, NodeTypes, NodeTypeOK, Job, WorkloadNode
  <1>7. PICK o : o = [c EXCEPT !.claim = Self, !.image = Job.image]
    OBVIOUS
  <1>8. /\ nodes[n] = c /\ UpdateNode(n, c, o) /\ c.state = "uninitialized"
        /\ c.claim \in {None, Self}
    BY <1>5, <1>6, <1>7 DEF InstallClaim, UpdateNode, OccupiedByOther
  <1>9. PICK v \in Nat : v = c.ver + 1
    BY <1>6 DEF NodeObject
  <1>10. PICK q : q = [o EXCEPT !.ver = v]
    OBVIOUS
  <1>11. q.state = "uninitialized" /\ q.claim = Self
    BY <1>6, <1>7, <1>8, <1>10 DEF NodeObject
  <1>12. nodes' = [nodes EXCEPT ![n] = q]
    BY <1>8, <1>9, <1>10 DEF UpdateNode
  <1>13. nodes'[n] = q /\ \A m \in Node \ {n} : nodes'[m] = nodes[m]
    BY <1>12 DEF WorkInv, BaseInv, NodesInv, NodeTypes, NodeTypeOK
  <1>14. ASSUME NEW m \in Node PROVE ClaimHeld(m)'
    <2>1. Exists(workloads[w]) /\ Self.name = w /\ Self.gen = workloads[w].gen
      BY <1>3 DEF Live, RefOf, Ref
    <2>2. ClaimHeld(m)
      BY DEF ReleaseInv
    <2> QED
      BY <1>1, <1>11, <1>13, <2>1, <2>2 DEF ClaimHeld, Exists
  <1>15. ASSUME NEW u \in Workload PROVE Disposed(u)'
    <2>1. Disposed(u) /\ RefOf(u)' = RefOf(u) /\ (Live(u)' <=> Live(u)) /\ (Finished(u)' <=> Finished(u))
      BY <1>1 DEF ReleaseInv, RefOf, Live, Finished
    <2>2. NodesNotShared => NodesNotShared'
      BY DEF NodesNotShared, Items
    <2>3. (Live(u) => Settled(u, workloads[u].phases))'
      BY <1>1, <2>1 DEF Disposed, Settled, Items
    <2>4. ASSUME workloads[u].del, NEW i \in Items(u) PROVE Releasable(u, Jobs[u][i].node)'
      <3>1. PICK m \in Node : m = Jobs[u][i].node
        BY JobTypes DEF Items
      <3>2. Releasable(u, m)
        BY <2>1, <2>4, <3>1 DEF Disposed
      <3>3. u # w /\ ~AtUninstall(u)
        BY <1>1, <1>3, <2>4 DEF Live, AtUninstall
      <3>4. m # n
        <4>1. SUFFICES ASSUME m = n PROVE FALSE
          OBVIOUS
        <4>2. ~NodesNotShared
          BY <1>4, <1>5, <3>1, <3>3, <4>1 DEF NodesNotShared
        <4>3. RefOf(u) # None /\ RefOf(u).name = u /\ RefOf(w).name = w
          BY <1>3, <2>4, RefTypes, DeletedExists DEF WorkInv, Live
        <4> QED
          BY <1>3, <1>8, <3>2, <3>3, <4>1, <4>2, <4>3 DEF Releasable, Exists
      <3>5. Releasable(u, m)'
        BY <1>1, <1>13, <2>1, <2>2, <3>2, <3>3, <3>4 DEF Releasable
      <3> QED
        BY <3>1, <3>5
    <2>5. (workloads[u].del => Finished(u) /\ \A i \in Items(u) : Releasable(u, Jobs[u][i].node))'
      BY <1>1, <2>1, <2>4 DEF Disposed, Items
    <2>6. (Finished(u) => workloads[u].fin)' /\ (Finished(u) =>
             \A i \in Items(u) : workloads[u].phases[i] \in {"succeeded", "failed"})'
      BY <1>1, <2>1 DEF Disposed, Items
    <2> QED
      BY <2>3, <2>5, <2>6 DEF Disposed
  <1>16. LoopRelease'
    BY <1>4 DEF LoopRelease
  <1> QED
    BY <1>14, <1>15, <1>16 DEF ReleaseInv

\* Lemma: an item that is uninstalled gives its node up: nothing keeps the write from
\* being accepted unless the node is going.
LEMMA UninstallItemClaims ==
    ASSUME WorkInv, ReleaseInv, UNCHANGED crashes, UninstallItem
    PROVE /\ ReleaseInv'
          /\ \A m \in Node : \/ nodes'[m] = nodes[m]
                             \/ nodes[m].claim \in {None, RefOf(ww.w)} /\ workloads[ww.w].del
  <1>1. /\ ww.pc = "uninstall" /\ ww.i <= Len(Jobs[ww.w]) /\ UNCHANGED <<cache, workloads>>
        /\ ww' = [ww EXCEPT !.i = @ + 1, !.count = @ + 0]
    BY DEF UninstallItem, AtItem, Proceed
  <1>2. PICK w \in Workload : w = ww.w
    BY <1>1, WorkerWanted
  <1>3. workloads[w].del /\ ww \in WorkerAt(w) /\ Disposed(w)
    BY <1>1, <1>2, WorkerWanted, WorkerKnows DEF WorkInv, ReleaseInv
  <1>4. /\ ww.i \in Items(w) /\ ww.i \in Nat
        /\ ww'.pc = "uninstall" /\ ww'.w = w /\ ww'.i = ww.i + 1
    BY <1>1, <1>2, <1>3, JobTypes DEF WorkerAt, Items
  <1>5. PICK n \in Node : n = Jobs[w][ww.i].node
    BY <1>4, JobTypes DEF Items
  <1> DEFINE c == cache[n]
  <1>6. c \in NodeObject(Claim) /\ Job = Jobs[w][ww.i] /\ WorkloadNode = c
    BY <1>2, <1>5 DEF WorkInv, BaseInv, NodesInv, NodeTypes, NodeTypeOK, Job, WorkloadNode
  <1>7. Releasable(w, n)
    BY <1>3, <1>4, <1>5 DEF Disposed
  <1>8. /\ \A m \in Node \ {n} : nodes'[m] = nodes[m]
        /\ \/ nodes'[n] = nodes[n] /\ ~(CouldUninstall(c) /\ nodes[n] = c)
           \/ /\ CouldUninstall(c) /\ nodes[n] = c
              /\ nodes'[n].state = "destroy" /\ nodes'[n].claim = None
    <2>1. CASE CouldUninstall(c) /\ nodes[n] = c
      <3>1. PICK o : o = Released(c)
        OBVIOUS
      <3>2. PICK v \in Nat : v = c.ver + 1
        BY <1>6 DEF NodeObject
      <3>3. PICK q : q = [o EXCEPT !.ver = v]
        OBVIOUS
      <3>4. q.state = "destroy" /\ q.claim = None
        BY <1>6, <3>1, <3>3 DEF NodeObject, Released
      <3>5. nodes' = [nodes EXCEPT ![n] = q]
        BY <1>5, <1>6, <2>1, <3>1, <3>2, <3>3 DEF UninstallItem, UpdateNode
      <3>6. nodes'[n] = q /\ \A m \in Node \ {n} : nodes'[m] = nodes[m]
        BY <3>5 DEF WorkInv, BaseInv, NodesInv, NodeTypes, NodeTypeOK
      <3> QED
        BY <2>1, <3>4, <3>6
    <2>2. CASE ~(CouldUninstall(c) /\ nodes[n] = c)
      BY <1>5, <1>6, <2>2 DEF UninstallItem
    <2> QED
      BY <2>1, <2>2
  <1>9. AtUninstall(w) /\ AtUninstall(w)' /\ \A u \in Workload \ {w} : ~AtUninstall(u)
    BY <1>1, <1>2, <1>4 DEF AtUninstall
  <1>10. nodes[n].claim \in {None, RefOf(w)} /\ RefOf(w)' = RefOf(w)
    BY <1>1, <1>7 DEF Releasable, RefOf
  <1>11. GivenUp(w, nodes'[n])
    BY <1>7, <1>8 DEF Releasable, GivenUp, CouldUninstall
  <1>12. ASSUME NEW m \in Node PROVE ClaimHeld(m)'
    <2>1. ClaimHeld(m)
      BY DEF ReleaseInv
    <2> QED
      BY <1>1, <1>8, <2>1 DEF ClaimHeld, Exists
  <1>13. ASSUME NEW u \in Workload PROVE Disposed(u)'
    <2>1. Disposed(u) /\ RefOf(u)' = RefOf(u) /\ (Live(u)' <=> Live(u)) /\ (Finished(u)' <=> Finished(u))
      BY <1>1 DEF ReleaseInv, RefOf, Live, Finished
    <2>2. NodesNotShared => NodesNotShared'
      BY DEF NodesNotShared, Items
    <2>3. (Live(u) => Settled(u, workloads[u].phases))'
      BY <1>1, <2>1 DEF Disposed, Settled, Items
    <2>4. ASSUME workloads[u].del, NEW i \in Items(u) PROVE Releasable(u, Jobs[u][i].node)'
      <3>1. PICK m \in Node : m = Jobs[u][i].node
        BY JobTypes DEF Items
      <3>2. Releasable(u, m)
        BY <2>1, <2>4, <3>1 DEF Disposed
      <3>3. Releasable(u, m)'
        <4>1. CASE nodes'[m] = nodes[m]
          BY <1>1, <1>9, <2>1, <2>2, <3>2, <4>1 DEF Releasable
        <4>2. CASE nodes'[m] # nodes[m] /\ u = w
          BY <1>8, <1>9, <4>2 DEF Releasable
        <4>3. CASE nodes'[m] # nodes[m] /\ u # w
          <5>1. m = n /\ Exists(nodes[n])
            BY <1>8, <4>3 DEF CouldUninstall, Exists
          <5>2. ~NodesNotShared
            BY <1>4, <1>5, <3>1, <4>3, <5>1 DEF NodesNotShared
          <5>3. RefOf(u) # None /\ RefOf(u).name = u /\ RefOf(w).name = w
            BY <1>3, <2>4, RefTypes, DeletedExists DEF WorkInv
          <5> QED
            BY <1>9, <1>10, <3>2, <4>3, <5>1, <5>2, <5>3 DEF Releasable
        <4> QED
          BY <4>1, <4>2, <4>3
      <3> QED
        BY <3>1, <3>3
    <2>5. (workloads[u].del => Finished(u) /\ \A i \in Items(u) : Releasable(u, Jobs[u][i].node))'
      BY <1>1, <2>1, <2>4 DEF Disposed, Items
    <2>6. (Finished(u) => workloads[u].fin)' /\ (Finished(u) =>
             \A i \in Items(u) : workloads[u].phases[i] \in {"succeeded", "failed"})'
      BY <1>1, <2>1 DEF Disposed, Items
    <2> QED
      BY <2>3, <2>5, <2>6 DEF Disposed
  <1>14. ASSUME NEW j \in 1 .. ww.i PROVE GivenUp(w, nodes[Jobs[w][j].node])'
    <2>1. PICK m \in Node : m = Jobs[w][j].node
      BY <1>1, <1>2, <1>4, JobTypes
    <2>2. CASE m = n
      BY <1>10, <1>11, <2>1, <2>2 DEF GivenUp
    <2>3. CASE m # n
      <3>1. j \in 1 .. ww.i - 1
        BY <1>4, <1>5, <2>1, <2>3
      <3>2. GivenUp(w, nodes[m])
        BY <1>1, <1>2, <2>1, <3>1 DEF ReleaseInv, LoopRelease
      <3> QED
        BY <1>8, <1>10, <2>1, <2>3, <3>2 DEF GivenUp
    <2> QED
      BY <2>2, <2>3
  <1>15. ww'.i - 1 = ww.i
    BY <1>4
  <1>16. LoopRelease'
    BY <1>4, <1>14, <1>15 DEF LoopRelease
  <1>17. ReleaseInv'
    BY <1>12, <1>13, <1>16 DEF ReleaseInv
  <1> QED
    BY <1>2, <1>3, <1>8, <1>10, <1>17

----------------------------------------------------------------------------
\* The hypotheses of the theorems on claims.
ClaimsHypothesis == ~DeletesAny /\ NobodyBetween

ClaimsInv == WorkInv /\ ReleaseInv

\* Lemma: initially nothing is claimed.
LEMMA ClaimsInitially == Init => ClaimsInv
  <1> SUFFICES ASSUME Init PROVE ReleaseInv
    BY WorkInitially DEF ClaimsInv
  <1>1. PICK st \in {"uninitialized", Unset} : nodes = [n \in Node |-> NewNode(st)]
    BY DEF Init, NodeInit
  <1>2. \A n \in Node : ClaimHeld(n)
    BY <1>1 DEF ClaimHeld, NewNode
  <1>3. ASSUME NEW w \in Workload PROVE Disposed(w)
    <2>1. workloads[w].state = "absent" /\ workloads[w].del = FALSE
      BY DEF Init, WorkloadInit, AbsentWorkload
    <2> QED
      BY <2>1 DEF Disposed, Live, Exists, Finished
  <1>4. LoopRelease /\ crashes \in Nat
    BY DEF Init, WorkloadInit, LoopRelease, WIdle
  <1> QED
    BY <1>2, <1>3, <1>4 DEF ReleaseInv

\* Lemma: every step keeps what is said of claims.
LEMMA ClaimsKept ==
    ASSUME ClaimsHypothesis
    PROVE ClaimsInv /\ [Next]_vars => ClaimsInv'
  <1> SUFFICES ASSUME WorkInv, ReleaseInv, [Next]_vars PROVE ReleaseInv'
    BY WorkKept, ReleaseUndisturbed DEF ClaimsInv
  <1>1. WorkInv' /\ NodesInv /\ BaseInv /\ NobodyBetween /\ ~DeletesAny /\ crashes \in Nat
    BY WorkKept, ReleaseUndisturbed DEF WorkInv, BaseInv, ClaimsHypothesis, ReleaseInv
  <1>2. CASE \/ \E n \in Node : Exit(n) \/ Lose(n) \/ EndCleaning(n) \/ Watch(n) \/ Bind(n)
             \/ Crash \/ Panic \/ WatchBindings
             \/ UNCHANGED vars
    <2>1. /\ UNCHANGED <<workloads, nodes>>
          /\ ww' = ww \/ (ww' = WIdle /\ (ww.pc # "uninstall" \/ NodesNotShared))
          /\ \A m \in Node : cache'[m] \in {cache[m], nodes[m]}
      BY <1>1, <1>2, HostsStay
    <2>2. crashes' \in Nat
      BY <1>1, <1>2
      DEF Exit, Lose, EndCleaning, Watch, Bind, Crash, Panic, WatchBindings, vars, envVars
    <2> QED
      BY <1>1, <2>1, <2>2, NodesStayClaimed
  <1>3. ASSUME NEW n \in Node, NodeStep(n) \/ NodeOngoing(n) \/ DeleteRequest(n)
        PROVE ReleaseInv'
    <2>1. UNCHANGED <<workloads, ww, crashes>> /\ (NodeBegin(n) \/ NodeEnd(n) \/ DeleteNode(n))
      BY <1>3 DEF NodeStep, NodeOngoing, DeleteRequest, workloadVars, envVars
    <2>2. UNCHANGED cache /\ \A m \in Node : nodes'[m] = nodes[m] \/ Stays(nodes[m], nodes'[m])
      BY <1>1, <2>1, NodeStepStays
    <2> QED
      BY <1>1, <2>1, <2>2, NodesStayClaimed
  <1>4. ASSUME NEW w \in Workload, WorkloadStep(w) \/ CreateWorkload(w) \/ DeleteWorkload(w)
        PROVE ReleaseInv'
    BY <1>1, <1>4, WorkloadBeginClaims, CreateWorkloadClaims, DeleteWorkloadClaims
    DEF WorkloadStep, envVars
  <1>5. CASE WorkloadOngoing
    BY <1>5, LoopsKeepClaims, InstallClaimClaims, UninstallItemClaims, UninstallEndClaims
    DEF WorkloadOngoing, WorkloadContinue, envVars
  <1> QED
    BY <1>2, <1>3, <1>4, <1>5 DEF Next

\* Lemma: the invariant of claims holds throughout.
LEMMA ClaimsHold ==
    ASSUME ClaimsHypothesis
    PROVE Spec => []ClaimsInv
  BY ClaimsInitially, ClaimsKept, PTL DEF Spec

\* Theorem: of workloads that share no node, and of workloads that do as long as the
\* claims below are safe, one that reports success has had a container of its own
\* end well on each of its nodes (reconcileRunning of testworkload_controller.go),
\* whatever an earlier workload of that name left in the status of the node and
\* however far the cache is behind.  Otherwise a node can be taken from a workload
\* while it runs: uninstallWorkload releases a node whoever holds it.
THEOREM SucceededAreReal == NodesNotShared \/ ClaimsHypothesis => (Spec => []SucceededIsReal)
  <1>1. WorkInv => SucceededIsReal
    BY DEF WorkInv, WorkloadInv, Noted, RefOf, Items, SucceededIsReal
  <1>2. ASSUME NodesNotShared PROVE Spec => []SucceededIsReal
    BY <1>1, <1>2, WorkHolds, PTL
  <1>3. ASSUME ClaimsHypothesis PROVE Spec => []SucceededIsReal
    <2>1. ClaimsInv => SucceededIsReal
      BY <1>1 DEF ClaimsInv
    <2> QED
      BY <1>3, <2>1, ClaimsHold, PTL
  <1> QED
    BY <1>2, <1>3

\* Theorem: where workloads are deleted only when they have finished, and either
\* share no node or the process does not crash, every claim on a node that stays is
\* of a workload that is there: uninstallWorkload of testworkload_controller.go does
\* release its nodes, although it drops the error of a refused write.  A workload
\* that is deleted while it runs can lose that write, and then leaves its claim.
THEOREM NoClaimIsDead == ClaimsHypothesis => (Spec => []NoDeadClaim)
  <1> SUFFICES ASSUME ClaimsHypothesis PROVE Spec => []NoDeadClaim
    OBVIOUS
  <1>1. ClaimsInv => NoDeadClaim
    <2> SUFFICES ASSUME WorkInv, ReleaseInv, NEW n \in Node, nodes[n].claim # None, ~nodes[n].del
                 PROVE \E w \in Workload : Holds(w, n)
      BY DEF ClaimsInv, NoDeadClaim
    <2>1. nodes[n].claim \in WorkloadRef
      BY DEF WorkInv, BaseInv, NodesInv, NodeTypes, NodeTypeOK, NodeObject, Claim
    <2>2. PICK w \in Workload : nodes[n].claim = [name |-> w, gen |-> nodes[n].claim.gen]
      BY <2>1 DEF WorkloadRef
    <2>3. Exists(workloads[w]) /\ workloads[w].gen = nodes[n].claim.gen
      BY <2>2 DEF ReleaseInv, ClaimHeld
    <2> QED
      BY <2>2, <2>3 DEF Holds, Ref
  <1> QED
    BY <1>1, ClaimsHold, PTL

\* Theorem: under the same hypotheses a claim is given up only by the workload that
\* holds it, as the comment on ClaimRef says, although uninstallWorkload does not
\* look at the claim before it releases a node.
THEOREM ClaimsAreRespected == ClaimsHypothesis => (Spec => ClaimRespected)
  <1> SUFFICES ASSUME ClaimsHypothesis PROVE Spec => ClaimRespected
    OBVIOUS
  <1>1. ASSUME ClaimsInv, [Next]_vars PROVE [\A n \in Node : GivenByHolder(n)]_nodes
    <2> SUFFICES ASSUME NEW m \in Node PROVE nodes' = nodes \/ GivenByHolder(m)
      OBVIOUS
    <2>1. WorkInv /\ ReleaseInv /\ NodesInv /\ BaseInv
      BY <1>1 DEF ClaimsInv, WorkInv, BaseInv
    <2>2. ASSUME NEW n \in Node, NodeStep(n) \/ NodeOngoing(n) \/ DeleteRequest(n)
          PROVE nodes' = nodes \/ GivenByHolder(m)
      <3>1. nodes'[m] = nodes[m] \/ Stays(nodes[m], nodes'[m])
        BY <2>1, <2>2, NodeStepStays DEF NodeStep, NodeOngoing, DeleteRequest
      <3> QED
        BY <3>1 DEF Stays, GivenByHolder
    <2>3. CASE UninstallItem /\ UNCHANGED envVars
      <3>1. nodes'[m] = nodes[m] \/ (nodes[m].claim \in {None, RefOf(ww.w)} /\ workloads[ww.w].del)
        BY <2>1, <2>3, UninstallItemClaims DEF envVars
      <3> QED
        BY <3>1 DEF RefOf, Ref, GivenByHolder
    <2>4. CASE InstallClaim
      <3>1. /\ ww.pc = "install" /\ ww.i <= Len(Jobs[ww.w]) /\ WorkloadNode.claim \in {None, Self}
            /\ nodes[Job.node] = WorkloadNode
            /\ nodes' = [nodes EXCEPT ![Job.node] =
                           [[WorkloadNode EXCEPT !.claim = Self, !.image = Job.image]
                              EXCEPT !.ver = WorkloadNode.ver + 1]]
        BY <2>4 DEF InstallClaim, UpdateNode, OccupiedByOther, AtItem
      <3>2. nodes \in [Node -> NodeObject(Claim)]
        BY <2>1 DEF NodesInv, NodeTypes, NodeTypeOK
      <3>3. CASE m = Job.node
        <4>1. nodes[m] \in NodeObject(Claim)
          BY <3>2
        <4>2. PICK v : v = WorkloadNode.ver + 1
          OBVIOUS
        <4>3. PICK q : q = [[WorkloadNode EXCEPT !.claim = Self, !.image = Job.image] EXCEPT !.ver = v]
          OBVIOUS
        <4>4. q.claim = Self
          BY <3>1, <3>3, <4>1, <4>3 DEF NodeObject
        <4>5. nodes'[m] = q
          BY <3>1, <3>2, <3>3, <4>2, <4>3
        <4> QED
          BY <3>1, <3>3, <4>4, <4>5 DEF GivenByHolder
      <3>4. CASE m # Job.node
        BY <3>1, <3>2, <3>4 DEF GivenByHolder
      <3> QED
        BY <3>3, <3>4
    <2>5. CASE WorkloadOngoing
      BY <2>3, <2>4, <2>5
      DEF WorkloadOngoing, WorkloadContinue, InstallBlocked, InstallClaimConflict,
          InstallStarting, InstallUp, InstallEnd, InspectNotFound, InspectItem, InspectEnd,
          UninstallEnd, nodeVars
    <2>6. ASSUME NEW n \in Node, Exit(n) \/ Lose(n) \/ EndCleaning(n) \/ Watch(n) \/ Bind(n)
          PROVE nodes' = nodes
      BY <2>6
      DEF Exit, Lose, EndCleaning, Watch, Bind, ContainerExit, ContainerLost, CleanerExit,
          WatchNode, BindNode
    <2>7. ASSUME NEW w \in Workload, WorkloadStep(w) \/ CreateWorkload(w) \/ DeleteWorkload(w)
          PROVE nodes' = nodes
      BY <2>7
      DEF WorkloadStep, WorkloadBegin, WorkloadAddFinalizer, WorkloadBeginPending, WorkloadLoop,
          CreateWorkload, DeleteWorkload, nodeVars
    <2>8. CASE Crash \/ Panic \/ WatchBindings \/ UNCHANGED vars
      BY <2>8 DEF Crash, Panic, Restart, WatchBindings, WatchRelationship, vars, nodeVars
    <2> QED
      BY <1>1, <2>2, <2>5, <2>6, <2>7, <2>8 DEF Next
  <1> QED
    BY <1>1, ClaimsHold, PTL DEF Spec, ClaimRespected
=============================================================================
