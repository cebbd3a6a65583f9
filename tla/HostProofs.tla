----------------------------- MODULE HostProofs -----------------------------
(***************************************************************************)
(* For every number of Naglfar systems that share a host: a machine is     *)
(* ready only in the system whose lock is on the host.                     *)
(*                                                                         *)
(* The lock is looked at in one call and relied on in later ones, so the   *)
(* invariant has to say what a worker knows in between.  A worker that has *)
(* an object at hand knows it but for the mark of deletion (CopyHeld); one *)
(* that has got past tryLock has its own lock on the host (LockKept); one  *)
(* that is about to remove a lock by name removes its own (OwnUnlocked).   *)
(***************************************************************************)
EXTENDS HostDaemons, TLAPS

RunPc == {"inspect", "create", "start", "remove", "ready", "port"}
EndPc == {"unlock", "unlockRemove", "unload", "unloadRemove", "finalizer"}

\* An object that is there has a UID, and one that the controller has given a
\* state, or that waits for its deletion, has the finalizer.
Numbered(s) ==
    /\ mach[s].state # "absent" => mach[s].gen >= 1
    /\ mach[s].state \in {"starting", "ready", "shutdown"} => mach[s].fin
    /\ mach[s].del => mach[s].fin /\ mach[s].state # "absent"

\* What a worker has read is the object as it is, but for a deletion since.
CopyHeld(s) ==
    /\ wk[s].pc # "idle" => wk[s].obj.gen = mach[s].gen /\ wk[s].obj.state = mach[s].state
    /\ wk[s].pc \in RunPc => mach[s].state \in {"starting", "ready"}
    /\ wk[s].pc \in EndPc => mach[s].state = "shutdown"

\* The container that a worker is at goes with its place in the call.
PlaceFits(s) ==
    /\ wk[s].pc \in {"remove", "ready"} => wk[s].c = Stat
    /\ wk[s].pc = "port" => wk[s].c = Upload
    /\ wk[s].pc \in RunPc /\ wk[s].c = Upload => mach[s].state = "ready"
    /\ wk[s].pc \in EndPc => wk[s].c = Lock

\* The lock of a worker that has got past tryLock is on the host.
LockKept(s) ==
    wk[s].pc # "idle" /\ wk[s].c = Stat =>
        host[Lock].uid = UidOf(s) /\ host[Lock].st = "running"

\* A worker removes the lock of its own object.
OwnUnlocked(s) == wk[s].pc = "unlockRemove" => host[Lock].uid = UidOf(s)

\* A machine that is ready is so in the system that has locked the host.
Holding(s) ==
    mach[s].state = "ready" =>
        host[Lock].uid = <<s, mach[s].gen>> /\ host[Lock].st = "running"

\* The container that locks the host does not end by itself.
LockRuns == host[Lock].st \in {"none", "created", "running"}

SystemInv(s) ==
    Numbered(s) /\ CopyHeld(s) /\ PlaceFits(s) /\ LockKept(s) /\ OwnUnlocked(s) /\ Holding(s)

HostInv == TypeOK /\ LockRuns /\ \A s \in System : SystemInv(s)

\* Nothing happens to the workers of other systems than u.
OthersWait(u) == wk' \in [System -> Worker] /\ \A t \in System \ {u} : wk'[t] = wk[t]

----------------------------------------------------------------------------
\* Lemma: the state of a new object is none of the states the controller
\* gives, nor that of an object that is gone.
LEMMA UnsetIsNone == Unset \notin {"absent", "starting", "ready", "shutdown"}
  BY DEF Unset

\* Lemma: the three containers have three names.
LEMMA NamesDiffer == Lock # Stat /\ Lock # Upload /\ Stat # Upload /\ Lock \in Name
  BY DEF Lock, Stat, Upload, Name

\* Lemma: a worker that goes to another place keeps its copy and its container.
LEMMA GotoEffect ==
    ASSUME TypeOK, NEW u \in System, NEW pc \in Pc, Goto(u, pc)
    PROVE /\ OthersWait(u)
          /\ wk'[u].pc = pc /\ wk'[u].c = wk[u].c /\ wk'[u].obj = wk[u].obj
  BY DEF TypeOK, Goto, OthersWait, Worker

\* Lemma: a worker whose call ends is idle.
LEMMA ReturnEffect ==
    ASSUME TypeOK, NEW u \in System, Return(u)
    PROVE OthersWait(u) /\ wk'[u].pc = "idle"
  <1>1. Idle \in Worker
    BY HostAssumption DEF Idle, Worker, Pc, Name, Absent, Machine
  <1> QED
    BY <1>1 DEF TypeOK, Return, OthersWait, Idle

\* Lemma: the invariant is kept by a step of one worker that leaves the objects
\* and the lock alone, when what the worker then relies on is so.
LEMMA WorkerMoves ==
    ASSUME HostInv, NEW u \in System, UNCHANGED mach,
           host' \in [Name -> Container], host'[Lock] = host[Lock],
           OthersWait(u), faults' \in 0 .. MaxFault,
           CopyHeld(u)', PlaceFits(u)', LockKept(u)', OwnUnlocked(u)'
    PROVE HostInv'
  <1>1. TypeOK' /\ LockRuns'
    BY DEF HostInv, TypeOK, LockRuns, OthersWait
  <1>2. ASSUME NEW t \in System PROVE SystemInv(t)'
    <2>1. Numbered(t)' /\ Holding(t)'
      BY DEF HostInv, SystemInv, Numbered, Holding
    <2>2. CASE t = u
      BY <2>1, <2>2 DEF SystemInv
    <2>3. CASE t # u
      <3>1. wk'[t] = wk[t]
        BY <2>3 DEF OthersWait
      <3>2. UidOf(t)' = UidOf(t)
        BY <3>1 DEF UidOf
      <3>3. CopyHeld(t)' /\ PlaceFits(t)'
        BY <3>1 DEF HostInv, SystemInv, CopyHeld, PlaceFits
      <3>4. LockKept(t)' /\ OwnUnlocked(t)'
        BY <3>1, <3>2 DEF HostInv, SystemInv, LockKept, OwnUnlocked
      <3> QED
        BY <2>1, <3>3, <3>4 DEF SystemInv
    <2> QED
      BY <2>2, <2>3
  <1> QED
    BY <1>1, <1>2 DEF HostInv

\* Lemma: so it is when the call of a worker just ends.
LEMMA CallEnds ==
    ASSUME HostInv, NEW u \in System, UNCHANGED mach,
           host' \in [Name -> Container], host'[Lock] = host[Lock],
           Return(u), faults' \in 0 .. MaxFault
    PROVE HostInv'
  <1>1. OthersWait(u) /\ wk'[u].pc = "idle"
    BY ReturnEffect DEF HostInv
  <1>2. CopyHeld(u)' /\ PlaceFits(u)' /\ LockKept(u)' /\ OwnUnlocked(u)'
    BY <1>1 DEF CopyHeld, PlaceFits, LockKept, OwnUnlocked, RunPc, EndPc
  <1> QED
    BY <1>1, <1>2, WorkerMoves

----------------------------------------------------------------------------
(* The steps of a worker that change neither an object nor a container.     *)

\* Lemma: the worker takes up the object, to run a container or to unlock.
LEMMA BeginKeeps ==
    ASSUME HostInv, NEW u \in System, BeginRun(u) \/ BeginUnlock(u)
    PROVE HostInv'
  <1> USE DEF HostInv
  <1>1. CASE BeginRun(u)
    <2>1. PICK c \in {Upload, Lock} :
             /\ c = IF mach[u].state = "ready" THEN Upload ELSE Lock
             /\ wk' = [wk EXCEPT ![u] = [pc |-> "inspect", obj |-> mach[u], c |-> c]]
      BY <1>1 DEF BeginRun
    <2>2. "inspect" \in Pc /\ c \in Name
      BY DEF Pc, Name, Lock, Upload, Stat
    <2>3. OthersWait(u) /\ wk'[u].pc = "inspect" /\ wk'[u].c = c /\ wk'[u].obj = mach[u]
      BY <2>1, <2>2 DEF TypeOK, OthersWait, Worker
    <2>4. CopyHeld(u)'
      BY <1>1, <2>3 DEF BeginRun, CopyHeld, RunPc, EndPc
    <2>5. PlaceFits(u)' /\ LockKept(u)' /\ OwnUnlocked(u)'
      BY <1>1, <2>1, <2>3, NamesDiffer DEF BeginRun, PlaceFits, LockKept, OwnUnlocked, RunPc, EndPc
    <2> QED
      BY <1>1, <2>3, <2>4, <2>5, WorkerMoves DEF BeginRun, TypeOK
  <1>2. CASE BeginUnlock(u)
    <2>1. "unlock" \in Pc /\ Lock \in Name
      BY DEF Pc, Name
    <2>2. OthersWait(u) /\ wk'[u].pc = "unlock" /\ wk'[u].c = Lock /\ wk'[u].obj = mach[u]
      <3>1. TypeOK /\ wk' = [wk EXCEPT ![u] = [pc |-> "unlock", obj |-> mach[u], c |-> Lock]]
        BY <1>2 DEF BeginUnlock
      <3> QED
        BY <2>1, <3>1 DEF TypeOK, OthersWait, Worker
    <2>3. CopyHeld(u)' /\ PlaceFits(u)' /\ LockKept(u)' /\ OwnUnlocked(u)'
      BY <1>2, <2>2, NamesDiffer
      DEF BeginUnlock, CopyHeld, PlaceFits, LockKept, OwnUnlocked, RunPc, EndPc
    <2> QED
      BY <1>2, <2>2, <2>3, WorkerMoves DEF BeginUnlock, TypeOK
  <1> QED
    BY <1>1, <1>2

\* Lemma: a worker that runs a container goes on to a place where it relies on
\* nothing new.
LEMMA RunGoesOn ==
    ASSUME HostInv, NEW u \in System, UNCHANGED <<mach, faults>>,
           host' \in [Name -> Container], host'[Lock] = host[Lock],
           NEW pc \in RunPc, Goto(u, pc), wk[u].pc \in RunPc,
           pc \in {"remove", "ready"} => wk[u].c = Stat,
           pc = "port" => wk[u].c = Upload
    PROVE HostInv'
  <1> USE DEF HostInv
  <1>1. pc \in Pc
    BY DEF RunPc, Pc
  <1>2. OthersWait(u) /\ wk'[u].pc = pc /\ wk'[u].c = wk[u].c /\ wk'[u].obj = wk[u].obj
    BY <1>1, GotoEffect
  <1>3. CopyHeld(u)' /\ PlaceFits(u)' /\ OwnUnlocked(u)'
    BY <1>2 DEF SystemInv, CopyHeld, PlaceFits, OwnUnlocked, RunPc, EndPc
  <1>4. UidOf(u)' = UidOf(u)
    BY <1>2 DEF UidOf
  <1>5. LockKept(u)'
    BY <1>2, <1>4 DEF SystemInv, LockKept, RunPc
  <1> QED
    BY <1>2, <1>3, <1>5, WorkerMoves DEF TypeOK

\* Lemma: Run looks at the container, and the daemon is found to be up.
LEMMA InspectKeeps ==
    ASSUME HostInv, NEW u \in System, RunInspect(u) \/ createUploadDaemon(u)
    PROVE HostInv'
  <1> USE DEF HostInv
  <1>1. wk[u].pc = "inspect" /\ UNCHANGED <<mach, host, faults>>
    BY DEF RunInspect, createUploadDaemon, Started, At
  <1>2. host' \in [Name -> Container] /\ wk[u].pc \in RunPc
    BY <1>1 DEF TypeOK, RunPc
  <1>3. PICK pc \in RunPc : /\ Goto(u, pc) /\ pc \notin {"remove", "ready"}
                            /\ pc = "port" => wk[u].c = Upload
    BY DEF RunInspect, createUploadDaemon, RunPc
  <1> QED
    BY <1>1, <1>2, <1>3, RunGoesOn

\* Lemma: the worker compares the label of the lock; past this it has the lock.
LEMMA tryLockKeeps ==
    ASSUME HostInv, NEW u \in System, tryLock(u)
    PROVE HostInv'
  <1> USE DEF HostInv
  <1>1. /\ wk[u].pc = "inspect" /\ wk[u].c = Lock /\ UNCHANGED <<mach, host, faults>>
        /\ host[Lock].st \notin {"none", "created"}
    BY DEF tryLock, Started, At, Here
  <1>2. CASE Return(u)
    BY <1>1, <1>2, CallEnds DEF TypeOK
  <1>3. CASE host[Lock].uid = UidOf(u) /\ wk' = [wk EXCEPT ![u].pc = "inspect", ![u].c = Stat]
    <2>1. "inspect" \in Pc /\ Stat \in Name
      BY DEF Pc, Name
    <2>2. /\ OthersWait(u)
          /\ wk'[u].pc = "inspect" /\ wk'[u].c = Stat /\ wk'[u].obj = wk[u].obj
      BY <1>3, <2>1 DEF TypeOK, OthersWait, Worker
    <2>3. CopyHeld(u)' /\ PlaceFits(u)' /\ OwnUnlocked(u)'
      BY <1>1, <2>2, NamesDiffer
      DEF SystemInv, CopyHeld, PlaceFits, OwnUnlocked, RunPc, EndPc
    <2>4. UidOf(u)' = UidOf(u)
      BY <2>2 DEF UidOf
    <2>5. LockKept(u)'
      BY <1>1, <1>3, <2>4 DEF LockRuns, LockKept
    <2> QED
      BY <1>1, <2>2, <2>3, <2>5, WorkerMoves DEF TypeOK
  <1> QED
    BY <1>1, <1>2, <1>3 DEF tryLock, Here

\* Lemma: the container that reads the facts of the host has ended, and is
\* removed.
LEMMA ExecKeeps ==
    ASSUME HostInv, NEW u \in System, JustExec(u) \/ ExecRemove(u)
    PROVE HostInv'
  <1> USE DEF HostInv
  <1>1. UNCHANGED <<mach, faults>> /\ wk[u].pc \in RunPc /\ wk[u].c = Stat
    BY DEF JustExec, ExecRemove, Started, At, RunPc, SystemInv, PlaceFits
  <1>2. NoContainer \in Container
    BY DEF Container
  <1>3. host' \in [Name -> Container] /\ host'[Lock] = host[Lock]
    BY <1>2, NamesDiffer DEF JustExec, ExecRemove, TypeOK
  <1>4. CASE Return(u)
    BY <1>1, <1>3, <1>4, CallEnds DEF TypeOK
  <1>5. CASE Goto(u, "remove") \/ Goto(u, "ready")
    <2>1. PICK pc \in {"remove", "ready"} : Goto(u, pc)
      BY <1>5
    <2>2. pc \in RunPc
      BY DEF RunPc
    <2> QED
      BY <1>1, <1>3, <2>1, <2>2, RunGoesOn
  <1> QED
    BY <1>4, <1>5 DEF JustExec, ExecRemove

\* Lemma: the process stops.
LEMMA CrashKeeps ==
    ASSUME HostInv, NEW u \in System, Crash(u)
    PROVE HostInv'
  <1>1. faults' \in 0 .. MaxFault
    BY HostAssumption DEF HostInv, TypeOK, Crash
  <1> QED
    BY <1>1, CallEnds DEF HostInv, TypeOK, Crash

----------------------------------------------------------------------------
(* reconcileShutdown.                                                       *)

\* Lemma: a worker that shuts its machine down goes on to a place where it
\* relies on nothing new but on the label it has compared.
LEMMA ShutdownGoesOn ==
    ASSUME HostInv, NEW u \in System, UNCHANGED <<mach, faults>>,
           host' \in [Name -> Container], host'[Lock] = host[Lock],
           NEW pc \in EndPc, Goto(u, pc), wk[u].pc \in EndPc,
           pc = "unlockRemove" => host[Lock].uid = UidOf(u)
    PROVE HostInv'
  <1> USE DEF HostInv
  <1>1. pc \in Pc
    BY DEF EndPc, Pc
  <1>2. OthersWait(u) /\ wk'[u].pc = pc /\ wk'[u].c = wk[u].c /\ wk'[u].obj = wk[u].obj
    BY <1>1, GotoEffect
  <1>3. CopyHeld(u)' /\ PlaceFits(u)'
    BY <1>2 DEF SystemInv, CopyHeld, PlaceFits, RunPc, EndPc
  <1>4. UidOf(u)' = UidOf(u)
    BY <1>2 DEF UidOf
  <1>5. LockKept(u)'
    BY <1>2, NamesDiffer DEF SystemInv, PlaceFits, LockKept
  <1>6. OwnUnlocked(u)'
    BY <1>2, <1>4 DEF OwnUnlocked
  <1> QED
    BY <1>2, <1>3, <1>5, <1>6, WorkerMoves DEF TypeOK

\* Lemma: the label is compared, and the daemon looked for and removed.
LEMMA UnloadKeeps ==
    ASSUME HostInv, NEW u \in System, Unlock(u) \/ deleteUploadDaemon(u) \/ UploadRemove(u)
    PROVE HostInv'
  <1> USE DEF HostInv
  <1>1. UNCHANGED <<mach, faults>> /\ wk[u].pc \in EndPc
    BY DEF Unlock, deleteUploadDaemon, UploadRemove, At, EndPc
  <1>2. NoContainer \in Container
    BY DEF Container
  <1>3. host' \in [Name -> Container] /\ host'[Lock] = host[Lock]
    BY <1>2, NamesDiffer DEF Unlock, deleteUploadDaemon, UploadRemove, TypeOK
  <1>4. CASE Return(u)
    BY <1>1, <1>3, <1>4, CallEnds DEF TypeOK
  <1>5. CASE ~Return(u)
    <2>1. PICK pc \in EndPc : Goto(u, pc) /\ (pc = "unlockRemove" => host[Lock].uid = UidOf(u))
      BY <1>5 DEF Unlock, deleteUploadDaemon, UploadRemove, EndPc
    <2> QED
      BY <1>1, <1>3, <2>1, ShutdownGoesOn
  <1> QED
    BY <1>4, <1>5

----------------------------------------------------------------------------
(* The steps that change the lock.                                          *)

\* Lemma: while a machine is ready, or its worker relies on the lock, the lock
\* is there and runs.
LEMMA ReliesOnLock ==
    ASSUME HostInv, NEW s \in System,
           \/ mach[s].state = "ready"
           \/ wk[s].pc # "idle" /\ wk[s].c = Stat
           \/ wk[s].pc = "unlockRemove"
    PROVE host[Lock].uid = <<s, mach[s].gen>>
  BY DEF HostInv, SystemInv, Holding, LockKept, OwnUnlocked, CopyHeld, UidOf

\* Lemma: Run creates the container, or starts it, unless somebody else has been
\* faster; a lock that runs is not touched.
LEMMA RunKeeps ==
    ASSUME HostInv, NEW u \in System, RunCreate(u) \/ RunStart(u)
    PROVE HostInv'
  <1> USE DEF HostInv
  <1>1. UNCHANGED <<mach, faults>> /\ wk[u].pc \in {"create", "start"} /\ wk[u].c \in Name
    BY DEF RunCreate, RunStart, At, TypeOK, Worker
  <1>2. CASE Return(u) /\ UNCHANGED host
    BY <1>1, <1>2, CallEnds DEF TypeOK
  <1>3. CASE ~(Return(u) /\ UNCHANGED host)
    <2>1. Goto(u, "inspect")
      BY <1>3 DEF RunCreate, RunStart
    <2>2. PICK q \in Container : host' = [host EXCEPT ![wk[u].c] = q]
      <3>1. CASE RunCreate(u)
        <4>1. UidOf(u) \in Uid
          BY <1>1 DEF UidOf, Uid, TypeOK, Worker, Machine, SystemInv, Numbered, CopyHeld, RunPc
        <4>2. [st |-> "created", uid |-> UidOf(u)] \in Container
          BY <4>1 DEF Container
        <4> QED
          BY <1>3, <3>1, <4>2 DEF RunCreate
      <3>2. CASE RunStart(u)
        <4> DEFINE st == IF host[wk[u].c].st = "created" THEN "running" ELSE host[wk[u].c].st
        <4>1. host[wk[u].c] \in Container /\ host[wk[u].c] # NoContainer
          BY <1>1, <1>3, <3>2 DEF RunStart, TypeOK, Here
        <4>2. [host[wk[u].c] EXCEPT !.st = st] \in Container
          BY <4>1 DEF Container
        <4>3. host' = [host EXCEPT ![wk[u].c] = [host[wk[u].c] EXCEPT !.st = st]]
          BY <1>1, <1>3, <3>2 DEF RunStart, TypeOK
        <4> QED
          BY <4>2, <4>3
      <3> QED
        BY <3>1, <3>2
    <2>3. host' \in [Name -> Container] /\ "inspect" \in RunPc /\ wk[u].pc \in RunPc
      BY <1>1, <2>2 DEF TypeOK, RunPc
    <2>4. CASE wk[u].c # Lock
      <3>1. host'[Lock] = host[Lock]
        BY <1>1, <2>2, <2>4, NamesDiffer DEF TypeOK
      <3> QED
        BY <1>1, <2>1, <2>3, <3>1, RunGoesOn
    <2>5. CASE wk[u].c = Lock
      <3> DEFINE Untouched ==
                   /\ host'[Lock].uid = host[Lock].uid
                   /\ host[Lock].st = "running" => host'[Lock].st = "running"
      <3>1. LockRuns' /\ (host[Lock].uid = None \/ Untouched)
        <4>1. CASE RunCreate(u)
          <5>1. host[Lock] = NoContainer
            BY <1>3, <2>5, <4>1 DEF RunCreate, Here
          <5>2. host' = [host EXCEPT ![Lock] = [st |-> "created", uid |-> UidOf(u)]]
            BY <1>3, <2>5, <4>1 DEF RunCreate
          <5>3. host'[Lock].st = "created"
            BY <5>2, NamesDiffer DEF TypeOK
          <5> QED
            BY <5>1, <5>3 DEF NoContainer, LockRuns
        <4>2. CASE RunStart(u)
          <5>1. host' = [host EXCEPT ![Lock].st = IF @ = "created" THEN "running" ELSE @]
            BY <1>3, <2>5, <4>2 DEF RunStart
          <5>2. host'[Lock] =
                  [host[Lock] EXCEPT !.st = IF @ = "created" THEN "running" ELSE @]
            BY <5>1, NamesDiffer DEF TypeOK
          <5>3. host[Lock] \in Container
            BY NamesDiffer DEF TypeOK
          <5> QED
            BY <5>2, <5>3 DEF Container, LockRuns, NoContainer
        <4> QED
          BY <4>1, <4>2
      <3>3. "inspect" \in Pc
        BY DEF Pc
      <3>4. /\ OthersWait(u)
            /\ wk'[u].pc = "inspect" /\ wk'[u].c = Lock /\ wk'[u].obj = wk[u].obj
        BY <2>1, <2>5, <3>3, GotoEffect
      <3>5. TypeOK'
        BY <1>1, <2>3, <3>4 DEF TypeOK, OthersWait
      <3>6. ASSUME NEW t \in System PROVE SystemInv(t)'
        <4>1. /\ t # u => wk'[t] = wk[t]
              /\ UidOf(t)' = UidOf(t)
          BY <3>4 DEF OthersWait, UidOf
        <4>2. CopyHeld(t)' /\ PlaceFits(t)' /\ Numbered(t)'
          <5>1. CASE t = u
            BY <1>1, <3>4, <5>1, NamesDiffer
            DEF SystemInv, CopyHeld, PlaceFits, Numbered, RunPc, EndPc
          <5>2. CASE t # u
            BY <1>1, <4>1, <5>2 DEF SystemInv, CopyHeld, PlaceFits, Numbered
          <5> QED
            BY <5>1, <5>2
        <4>3. host[Lock].uid # <<t, mach[t].gen>> \/ host[Lock].uid # None
          BY DEF None
        <4>4. Holding(t)'
          BY <1>1, <3>1, <4>3, ReliesOnLock DEF SystemInv, Holding
        <4>5. LockKept(t)'
          BY <3>1, <3>4, <4>1, <4>3, ReliesOnLock, NamesDiffer DEF SystemInv, LockKept
        <4>6. OwnUnlocked(t)'
          BY <3>1, <3>4, <4>1, <4>3, ReliesOnLock DEF SystemInv, OwnUnlocked
        <4> QED
          BY <4>2, <4>4, <4>5, <4>6 DEF SystemInv
      <3> QED
        BY <3>1, <3>5, <3>6
    <2> QED
      BY <2>4, <2>5
  <1> QED
    BY <1>2, <1>3

\* Lemma: the lock is removed by name.  It is the worker's own, so that nobody
\* else relies on it, and the worker's machine is not ready.
LEMMA UnlockRemoveKeeps ==
    ASSUME HostInv, NEW u \in System, UnlockRemove(u)
    PROVE HostInv'
  <1> USE DEF HostInv
  <1>1. UNCHANGED <<mach, faults>> /\ wk[u].pc = "unlockRemove"
    BY DEF UnlockRemove, At
  <1>2. NoContainer \in Container /\ host'[Lock] = NoContainer
    BY NamesDiffer DEF Container, UnlockRemove, TypeOK
  <1>3. host' \in [Name -> Container] /\ LockRuns'
    BY <1>2 DEF UnlockRemove, TypeOK, LockRuns, NoContainer
  <1>4. /\ OthersWait(u) /\ wk'[u].pc \in {"idle", "unload"}
        /\ wk'[u].pc = "unload" => wk'[u].c = wk[u].c /\ wk'[u].obj = wk[u].obj
    <2>1. "unload" \in Pc
      BY DEF Pc
    <2> QED
      BY <2>1, ReturnEffect, GotoEffect DEF UnlockRemove
  <1>5. TypeOK'
    BY <1>1, <1>3, <1>4 DEF TypeOK, OthersWait
  <1>6. host[Lock].uid = <<u, mach[u].gen>> /\ mach[u].state = "shutdown" /\ wk[u].c = Lock
    BY <1>1, ReliesOnLock DEF SystemInv, CopyHeld, PlaceFits, EndPc
  <1>7. ASSUME NEW t \in System PROVE SystemInv(t)'
    <2>1. CASE t = u
      <3>1. Numbered(t)' /\ Holding(t)'
        BY <1>1, <1>6, <2>1 DEF SystemInv, Numbered, Holding
      <3>2. CopyHeld(t)' /\ PlaceFits(t)'
        BY <1>1, <1>4, <1>6, <2>1 DEF SystemInv, CopyHeld, PlaceFits, RunPc, EndPc
      <3>3. LockKept(t)' /\ OwnUnlocked(t)'
        BY <1>4, <1>6, <2>1, NamesDiffer DEF LockKept, OwnUnlocked
      <3> QED
        BY <3>1, <3>2, <3>3 DEF SystemInv
    <2>2. CASE t # u
      <3>1. wk'[t] = wk[t] /\ host[Lock].uid # <<t, mach[t].gen>>
        BY <1>4, <1>6, <2>2 DEF OthersWait
      <3>2. Numbered(t)' /\ CopyHeld(t)' /\ PlaceFits(t)'
        BY <1>1, <3>1 DEF SystemInv, Numbered, CopyHeld, PlaceFits
      <3>3. Holding(t)' /\ LockKept(t)' /\ OwnUnlocked(t)'
        BY <1>1, <3>1, ReliesOnLock DEF Holding, LockKept, OwnUnlocked
      <3> QED
        BY <3>2, <3>3 DEF SystemInv
    <2> QED
      BY <2>1, <2>2
  <1> QED
    BY <1>3, <1>5, <1>7

----------------------------------------------------------------------------
(* The steps that change an object.                                         *)

\* Lemma: the invariant is kept by a step that changes the object of one system
\* only, when what is said of that system is so afterwards.
LEMMA ObjectChanges ==
    ASSUME HostInv, NEW u \in System, UNCHANGED <<host, faults>>, OthersWait(u),
           NEW o \in Machine, mach' = [mach EXCEPT ![u] = o], SystemInv(u)'
    PROVE HostInv'
  <1> USE DEF HostInv
  <1>1. TypeOK' /\ LockRuns'
    BY DEF TypeOK, LockRuns, OthersWait
  <1>2. ASSUME NEW t \in System, t # u PROVE SystemInv(t)'
    <2>1. mach'[t] = mach[t] /\ wk'[t] = wk[t]
      BY <1>2 DEF TypeOK, OthersWait
    <2>2. UidOf(t)' = UidOf(t)
      BY <2>1 DEF UidOf
    <2>3. Numbered(t)' /\ CopyHeld(t)' /\ PlaceFits(t)'
      BY <2>1 DEF SystemInv, Numbered, CopyHeld, PlaceFits
    <2>4. LockKept(t)' /\ OwnUnlocked(t)' /\ Holding(t)'
      BY <2>1, <2>2 DEF SystemInv, LockKept, OwnUnlocked, Holding
    <2> QED
      BY <2>3, <2>4 DEF SystemInv
  <1> QED
    BY <1>1, <1>2

\* Lemma: so it is when the worker is idle and the machine does not become ready.
LEMMA IdleChanges ==
    ASSUME HostInv, NEW u \in System, UNCHANGED <<host, faults>>, OthersWait(u),
           wk'[u].pc = "idle",
           NEW o \in Machine, mach' = [mach EXCEPT ![u] = o],
           Numbered(u)', o.state = "ready" => mach[u].state = "ready" /\ o.gen = mach[u].gen
    PROVE HostInv'
  <1> USE DEF HostInv
  <1>1. mach'[u] = o
    BY DEF TypeOK
  <1>2. CopyHeld(u)' /\ PlaceFits(u)' /\ LockKept(u)' /\ OwnUnlocked(u)'
    BY DEF CopyHeld, PlaceFits, LockKept, OwnUnlocked, RunPc, EndPc
  <1>3. Holding(u)'
    BY <1>1 DEF SystemInv, Holding
  <1> QED
    BY <1>2, <1>3, ObjectChanges DEF SystemInv

\* Lemma: the steps of Reconcile before the switch on the state.
LEMMA PrologueKeeps ==
    ASSUME HostInv, NEW u \in System,
           AddFinalizer(u) \/ BeginStarting(u) \/ BeginShutdown(u)
    PROVE HostInv'
  <1> USE DEF HostInv
  <1>1. UNCHANGED <<host, faults>> /\ OthersWait(u) /\ wk'[u].pc = "idle"
    BY DEF AddFinalizer, BeginStarting, BeginShutdown, At, TypeOK, OthersWait
  <1>2. mach[u] \in Machine /\ Numbered(u)
    BY DEF TypeOK, SystemInv
  <1>3. CASE AddFinalizer(u)
    <2> DEFINE o == [mach[u] EXCEPT !.fin = TRUE]
    <2>1. mach' = [mach EXCEPT ![u] = o] /\ mach'[u] = o
      BY <1>3 DEF AddFinalizer, TypeOK
    <2>2. /\ o \in Machine /\ o.fin
          /\ o.state = mach[u].state /\ o.gen = mach[u].gen /\ o.del = mach[u].del
      BY <1>2 DEF Machine
    <2> HIDE DEF o
    <2>3. Numbered(u)'
      BY <1>2, <2>1, <2>2 DEF Numbered
    <2> QED
      BY <1>1, <2>1, <2>2, <2>3, IdleChanges
  <1>4. CASE BeginStarting(u)
    <2> DEFINE o == [mach[u] EXCEPT !.state = "starting"]
    <2>1. mach' = [mach EXCEPT ![u] = o] /\ mach'[u] = o
      BY <1>4 DEF BeginStarting, TypeOK
    <2>2. mach[u].state # "absent" /\ mach[u].fin
      BY <1>4, UnsetIsNone DEF BeginStarting
    <2>3. o \in Machine /\ o.state # "ready" /\ Numbered(u)'
      BY <1>2, <2>1, <2>2 DEF Machine, Numbered
    <2> QED
      BY <1>1, <2>1, <2>3, IdleChanges
  <1>5. CASE BeginShutdown(u)
    <2> DEFINE o == [mach[u] EXCEPT !.state = "shutdown"]
    <2>1. mach' = [mach EXCEPT ![u] = o] /\ mach'[u] = o
      BY <1>5 DEF BeginShutdown, TypeOK
    <2>2. o \in Machine /\ o.state # "ready" /\ Numbered(u)'
      BY <1>2, <1>5, <2>1 DEF Machine, Numbered, BeginShutdown
    <2> QED
      BY <1>1, <2>1, <2>2, IdleChanges
  <1> QED
    BY <1>3, <1>4, <1>5

\* Lemma: the object goes with its finalizer.
LEMMA RemoveFinalizerKeeps ==
    ASSUME HostInv, NEW u \in System, RemoveFinalizer(u)
    PROVE HostInv'
  <1> USE DEF HostInv
  <1>1. UNCHANGED <<host, faults>> /\ OthersWait(u) /\ wk'[u].pc = "idle"
    BY ReturnEffect DEF RemoveFinalizer
  <1>2. mach' = [mach EXCEPT ![u] = Absent(mach[u].gen)] /\ mach'[u] = Absent(mach[u].gen)
    BY DEF RemoveFinalizer, TypeOK
  <1>3. mach[u] \in Machine
    BY DEF TypeOK
  <1>4. Absent(mach[u].gen) \in Machine /\ Absent(mach[u].gen).state # "ready" /\ Numbered(u)'
    BY <1>2, <1>3 DEF Absent, Machine, Numbered
  <1> QED
    BY <1>1, <1>2, <1>4, IdleChanges

\* Lemma: the status write that makes a machine ready is that of a worker that
\* has the lock; the other one is on a machine that is ready.
LEMMA WriteStatusKeeps ==
    ASSUME HostInv, NEW u \in System, WriteStatus(u)
    PROVE HostInv'
  <1> USE DEF HostInv
  <1>1. UNCHANGED <<host, faults>> /\ Return(u) /\ wk[u].pc \in {"ready", "port"}
    BY DEF WriteStatus, At
  <1>2. CASE UNCHANGED mach
    BY <1>1, <1>2, CallEnds DEF TypeOK
  <1>3. CASE ~UNCHANGED mach
    <2> DEFINE p == wk[u].pc = "port"
               o == [mach[u] EXCEPT !.state = "ready", !.upload = p]
    <2>1. mach[u] \in Machine
      BY DEF TypeOK
    <2>2. mach' = [mach EXCEPT ![u].state = "ready", ![u].upload = p]
      BY <1>3 DEF WriteStatus, At
    <2>3. p \in BOOLEAN
      OBVIOUS
    <2> HIDE DEF p
    <2>4. mach' = [mach EXCEPT ![u] = o] /\ mach'[u] = o
      BY <2>2 DEF TypeOK
    <2>5. o \in Machine /\ o.state = "ready" /\ o.gen = mach[u].gen
      BY <2>1, <2>3 DEF Machine
    <2>6. OthersWait(u) /\ wk'[u].pc = "idle"
      BY <1>1, ReturnEffect
    <2>7. CopyHeld(u)' /\ PlaceFits(u)' /\ LockKept(u)' /\ OwnUnlocked(u)'
      BY <2>6 DEF CopyHeld, PlaceFits, LockKept, OwnUnlocked, RunPc, EndPc
    <2>8. mach[u].state \in {"starting", "ready"} /\ mach[u].fin /\ mach[u].gen >= 1
      BY <1>1 DEF SystemInv, CopyHeld, Numbered, RunPc
    <2>9. Numbered(u)'
      BY <2>1, <2>4, <2>8 DEF Numbered, Machine
    <2>10. mach[u].state = "ready" \/ wk[u].c = Stat
      BY <1>1 DEF SystemInv, PlaceFits, RunPc
    <2>11. host[Lock].st = "running"
      BY <1>1, <2>10 DEF SystemInv, Holding, LockKept
    <2>12. host[Lock].uid = <<u, mach[u].gen>>
      BY <1>1, <2>10, ReliesOnLock
    <2>13. Holding(u)'
      BY <1>1, <2>4, <2>5, <2>11, <2>12 DEF Holding
    <2>14. SystemInv(u)'
      BY <2>7, <2>9, <2>13 DEF SystemInv
    <2> HIDE DEF o
    <2> QED
      BY <1>1, <2>4, <2>5, <2>6, <2>14, ObjectChanges
  <1> QED
    BY <1>2, <1>3

\* Lemma: a user creates the machine; its UID is a new one.
LEMMA CreateMachineKeeps ==
    ASSUME HostInv, NEW u \in System, CreateMachine(u)
    PROVE HostInv'
  <1> USE DEF HostInv
  <1> DEFINE o == [Absent(mach[u].gen + 1) EXCEPT !.state = Unset]
  <1>1. UNCHANGED <<host, faults>> /\ OthersWait(u) /\ UNCHANGED wk
    BY DEF CreateMachine, TypeOK, OthersWait
  <1>2. mach' = [mach EXCEPT ![u] = o] /\ mach'[u] = o
    BY DEF CreateMachine, TypeOK
  <1>3. mach[u] \in Machine /\ mach[u].gen < MaxGen
    BY DEF TypeOK, CreateMachine
  <1>4. o \in Machine /\ o.state = Unset /\ o.gen = mach[u].gen + 1 /\ ~o.del
    <2>1. mach[u].gen \in 0 .. MaxGen
      BY <1>3 DEF Machine
    <2>2. mach[u].gen + 1 \in 0 .. MaxGen
      BY <1>3, <2>1, HostAssumption
    <2>3. PICK g : g = mach[u].gen + 1
      OBVIOUS
    <2>4. PICK q : q = Absent(g)
      OBVIOUS
    <2>5. q \in Machine /\ q.gen = g /\ q.del = FALSE /\ o = [q EXCEPT !.state = Unset]
      BY <2>2, <2>3, <2>4 DEF Machine, Absent
    <2> HIDE DEF o
    <2> QED
      BY <2>3, <2>5 DEF Machine
  <1>5. Numbered(u)'
    BY <1>2, <1>3, <1>4, UnsetIsNone DEF Numbered, Machine
  <1>6. wk'[u].pc = "idle"
    <2>1. wk[u].pc \in {"idle"} \cup RunPc \cup EndPc
      BY DEF TypeOK, Worker, Pc, RunPc, EndPc
    <2> QED
      BY <1>1, <2>1 DEF CreateMachine, SystemInv, CopyHeld
  <1> HIDE DEF o
  <1> QED
    BY <1>1, <1>2, <1>4, <1>5, <1>6, UnsetIsNone, IdleChanges

\* Lemma: a user deletes the machine: one with the finalizer is only marked.
LEMMA DeleteMachineKeeps ==
    ASSUME HostInv, NEW u \in System, DeleteMachine(u)
    PROVE HostInv'
  <1> USE DEF HostInv
  <1>1. UNCHANGED <<host, faults>> /\ OthersWait(u) /\ UNCHANGED wk
    BY DEF DeleteMachine, TypeOK, OthersWait
  <1>2. mach[u] \in Machine /\ mach[u].state # "absent"
    BY DEF TypeOK, DeleteMachine
  <1>3. CASE mach[u].fin
    <2> DEFINE o == [mach[u] EXCEPT !.del = TRUE]
    <2>1. mach' = [mach EXCEPT ![u] = o] /\ mach'[u] = o
      BY <1>3 DEF DeleteMachine, TypeOK
    <2>2. o \in Machine /\ o.state = mach[u].state /\ o.gen = mach[u].gen
      BY <1>2 DEF Machine
    <2>3. Numbered(u)'
      BY <1>2, <1>3, <2>1 DEF SystemInv, Numbered, Machine
    <2>4. UidOf(u)' = UidOf(u)
      BY <1>1 DEF UidOf
    <2>5. CopyHeld(u)' /\ PlaceFits(u)'
      BY <1>1, <2>1, <2>2 DEF SystemInv, CopyHeld, PlaceFits
    <2>6. LockKept(u)' /\ OwnUnlocked(u)' /\ Holding(u)'
      BY <1>1, <2>1, <2>2, <2>4 DEF SystemInv, LockKept, OwnUnlocked, Holding
    <2> QED
      BY <1>1, <2>1, <2>2, <2>3, <2>5, <2>6, ObjectChanges DEF SystemInv
  <1>4. CASE ~mach[u].fin
    <2> DEFINE o == Absent(mach[u].gen)
    <2>1. mach' = [mach EXCEPT ![u] = o] /\ mach'[u] = o
      BY <1>4 DEF DeleteMachine, TypeOK
    <2>2. o \in Machine /\ o.state # "ready" /\ Numbered(u)'
      BY <1>2, <2>1 DEF Machine, Absent, Numbered
    <2>3. wk'[u].pc = "idle"
      <3>1. wk[u].pc \in {"idle"} \cup RunPc \cup EndPc
        BY DEF TypeOK, Worker, Pc, RunPc, EndPc
      <3> QED
        BY <1>1, <1>4, <3>1 DEF SystemInv, CopyHeld, Numbered
    <2> QED
      BY <1>1, <2>1, <2>2, <2>3, IdleChanges
  <1> QED
    BY <1>3, <1>4

\* Lemma: the container that reads the facts ends.
LEMMA StatKeeps ==
    ASSUME HostInv, StatEnds \/ StatFails
    PROVE HostInv'
  <1> USE DEF HostInv
  <1>1. UNCHANGED <<mach, wk>> /\ faults' \in 0 .. MaxFault
    BY HostAssumption DEF StatEnds, StatFails, TypeOK
  <1>2. Stat \in Name /\ host[Stat] \in Container /\ host[Stat].st = "running"
    BY DEF StatEnds, StatFails, TypeOK, Name
  <1>3. PICK st \in {"succeeded", "failed"} : host' = [host EXCEPT ![Stat].st = st]
    BY DEF StatEnds, StatFails
  <1>4. [host[Stat] EXCEPT !.st = st] \in Container
    BY <1>2 DEF Container, NoContainer
  <1>5. host' = [host EXCEPT ![Stat] = [host[Stat] EXCEPT !.st = st]]
    BY <1>2, <1>3 DEF TypeOK
  <1>6. host' \in [Name -> Container] /\ host'[Lock] = host[Lock]
    BY <1>4, <1>5, NamesDiffer DEF TypeOK
  <1>7. TypeOK' /\ LockRuns'
    BY <1>1, <1>6 DEF TypeOK, LockRuns
  <1>8. ASSUME NEW t \in System PROVE SystemInv(t)'
    <2>1. UidOf(t)' = UidOf(t)
      BY <1>1 DEF UidOf
    <2> QED
      BY <1>1, <1>6, <2>1
      DEF SystemInv, Numbered, CopyHeld, PlaceFits, LockKept, OwnUnlocked, Holding
  <1> QED
    BY <1>7, <1>8

----------------------------------------------------------------------------
\* Lemma: initially no system has an object and no container is there.
LEMMA HostInitially == Init => HostInv
  <1> SUFFICES ASSUME Init PROVE HostInv
    OBVIOUS
  <1>1. Absent(0) \in Machine /\ Absent(0).state = "absent" /\ ~Absent(0).del
    BY HostAssumption DEF Absent, Machine
  <1>2. Idle \in Worker /\ Idle.pc = "idle"
    BY <1>1 DEF Idle, Worker, Pc, Name
  <1>3. TypeOK /\ LockRuns
    BY <1>1, <1>2, HostAssumption, NamesDiffer DEF Init, TypeOK, Container, LockRuns, NoContainer
  <1>4. ASSUME NEW s \in System PROVE SystemInv(s)
    <2>1. mach[s] = Absent(0) /\ wk[s] = Idle
      BY DEF Init
    <2> QED
      BY <1>1, <1>2, <2>1 DEF SystemInv, Numbered, CopyHeld, PlaceFits, LockKept, OwnUnlocked,
                              Holding, RunPc, EndPc
  <1> QED
    BY <1>3, <1>4 DEF HostInv

\* Lemma: every step keeps the invariant.
LEMMA HostKept == HostInv /\ [Next]_vars => HostInv'
  <1> SUFFICES ASSUME HostInv, [Next]_vars PROVE HostInv'
    OBVIOUS
  <1>1. CASE UNCHANGED vars
    BY <1>1 DEF vars, HostInv, TypeOK, LockRuns, SystemInv, Numbered, CopyHeld, PlaceFits,
                LockKept, OwnUnlocked, Holding, UidOf
  <1>2. ASSUME NEW u \in System, Reconcile(u) PROVE HostInv'
    BY <1>2, PrologueKeeps, BeginKeeps, InspectKeeps, RunKeeps, tryLockKeeps, ExecKeeps,
       WriteStatusKeeps, UnloadKeeps, UnlockRemoveKeeps, RemoveFinalizerKeeps
    DEF Reconcile
  <1> QED
    BY <1>1, <1>2, CreateMachineKeeps, DeleteMachineKeeps, CrashKeeps, StatKeeps DEF Next

\* Theorem: a machine that is ready in a system has the lock of that system on
\* its host, running (tryLock and reconcileShutdown of machine_controller.go),
\* however many systems there are and whenever their workers stop.
THEOREM ReadyAlwaysHoldsLock == Spec => []ReadyHoldsLock
  <1>1. HostInv => ReadyHoldsLock
    BY DEF HostInv, SystemInv, Holding, ReadyHoldsLock
  <1> QED
    BY <1>1, HostInitially, HostKept, PTL DEF Spec

\* Theorem: no two systems have the host as a ready machine at the same time.
THEOREM OneSystemAtATime ==
    Spec => [](\A s, t \in System :
                 mach[s].state = "ready" /\ mach[t].state = "ready" => s = t)
  <1>1. ReadyHoldsLock =>
          \A s, t \in System : mach[s].state = "ready" /\ mach[t].state = "ready" => s = t
    BY DEF ReadyHoldsLock
  <1> QED
    BY <1>1, ReadyAlwaysHoldsLock, PTL
=============================================================================
