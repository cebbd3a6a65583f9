------------------------------ MODULE ProcChaos -----------------------------
(***************************************************************************)
(* ProcChaosReconciler with one ProcChaos object: its tasks kill processes *)
(* on nodes, once or in a period, and the status keeps for each task when  *)
(* it was last applied.  Nothing but the object's own events, timers and   *)
(* errors brings the worker back to it.                                    *)
(*                                                                         *)
(* Time passes in ticks, Second of them in a second.  A time is kept as    *)
(* its age, which grows with every tick wherever the time is stored, up to *)
(* MaxAge, where all that matters has long been due.                       *)
(***************************************************************************)
EXTENDS Integers, Sequences, FiniteSetsExt

CONSTANTS
    Node,       \* names of TestResources
    Tasks,      \* Spec.Tasks: a sequence of [once, period, nodes]
    Second,     \* ticks of a second
    MaxBackoff, \* bound: ticks before a call that failed is repeated
    MaxWrite,   \* bound: ticks between a kill and the write of the status
    MaxFault    \* bound: users' changes, failures of nodes, crashes

None == "none"

ASSUME ChaosAssumption ==
    /\ None \notin Node
    /\ Tasks \in Seq([once : BOOLEAN, period : Nat, nodes : (SUBSET Node) \ {{}}])
    /\ Second \in Nat \ {0}
    /\ MaxBackoff \in Nat /\ MaxWrite \in Nat /\ MaxFault \in Nat

VARIABLES
    store,      \* the object at the API server
    view,       \* the object as the manager's cache shows it
    fresh,      \* whether view is the current version
    queued,     \* the object is in the work queue
    timer,      \* ticks until the delaying queue puts it there, or NoTimer
    w,          \* the worker
    request,    \* the TestResourceRequest: "absent", "pending" or "ready"
    usable,     \* the nodes of the request that are ready, bound and reachable
    phase,      \* ticks since the last whole second
    faults,
    calm,       \* history: since the worker last went to sleep nothing failed
    unseen,     \* history: the worker last found no request
    applied,    \* history: how often each task without period was applied
    prompt      \* whether no tick passes while the worker can do something

objectVars == <<store, view, fresh>>
queueVars == <<queued, timer>>
envVars == <<request, usable, phase, faults>>
historyVars == <<calm, unseen, applied, prompt>>
vars == <<objectVars, queueVars, w, envVars, historyVars>>

Task == DOMAIN Tasks
Periodic == {i \in Task : ~Tasks[i].once}

MaxAge == Max({Tasks[i].period : i \in Task}) + Second + MaxWrite
NoTimer == -1

\* ProcChaosState: KilledTime, as its age, and KilledNode.
State == [age : 0 .. MaxAge, node : Node \cup {None}]

Chaos == [live : BOOLEAN, states : UNION {[1 .. n -> State] : n \in 0 .. Len(Tasks)}]

Absent == [live |-> FALSE, states |-> <<>>]

\* i is the task the call is at, obj the copy that it changes; current, whether
\* the copy it has read is still the current version; same, whether obj says
\* what was read.
Worker(pc, i, obj, current, same) ==
    [pc |-> pc, i |-> i, obj |-> obj, current |-> current, same |-> same]

Idle == Worker("idle", 0, Absent, FALSE, FALSE)

Init ==
    /\ store = Absent /\ view = Absent /\ fresh = TRUE
    /\ queued = FALSE /\ timer = NoTimer
    /\ w = Idle
    /\ request = "absent" /\ usable = Node /\ phase = 0 /\ faults = 0
    /\ calm = FALSE /\ unseen = FALSE
    /\ applied = [i \in Task |-> 0]
    /\ prompt \in BOOLEAN

----------------------------------------------------------------------------
\* The delaying queue keeps the earlier of two times for one object.
AddAfter(d) == timer' = IF timer = NoTimer THEN d ELSE Min({timer, d})

\* An error: the object comes back after a while.
Fail ==
    /\ w' = Idle
    /\ \E d \in 0 .. MaxBackoff : AddAfter(d)
    /\ calm' = FALSE

\* RFC 3339 drops the fraction of the second.
NewTime == phase

\* The worker takes the object from the queue and reads it.
Taken == w.pc = "idle" /\ queued /\ queued' = FALSE

Begun == Len(view.states)

Duration(i) == Tasks[i].period - view.states[i].age

Overdue == {i \in Periodic : Duration(i) <= 0}

\* The object is gone, or its request is not there: nothing is to be done, and
\* the worker waits for the next event of the object.
LookNotFound ==
    /\ Taken
    /\ ~view.live \/ request = "absent"
    /\ unseen' = view.live /\ calm' = FALSE
    /\ UNCHANGED <<objectVars, timer, w, envVars, applied, prompt>>

LookNotReady ==
    /\ Taken
    /\ view.live /\ request = "pending"
    /\ AddAfter(Second)
    /\ calm' = FALSE /\ unseen' = FALSE
    /\ UNCHANGED <<objectVars, w, envVars, applied, prompt>>

\* The next task gets its state: the period starts, or the task is applied.
LookBegin ==
    LET i == Begun + 1
        obj == [view EXCEPT !.states = Append(@, [age |-> NewTime, node |-> None])]
    IN
    /\ Taken
    /\ view.live /\ request = "ready" /\ Begun < Len(Tasks)
    /\ w' = Worker(IF Tasks[i].once THEN "kill" ELSE "write", i, obj, fresh, FALSE)
    /\ unseen' = FALSE
    /\ UNCHANGED <<objectVars, timer, envVars, calm, applied, prompt>>

\* The first task that is due is applied, and no other one in this call.
LookDue ==
    /\ Taken
    /\ view.live /\ request = "ready" /\ Begun = Len(Tasks)
    /\ Overdue # {}
    /\ w' = Worker("kill", Min(Overdue), view, fresh, FALSE)
    /\ unseen' = FALSE
    /\ UNCHANGED <<objectVars, timer, envVars, calm, applied, prompt>>

\* Seeded fault: the call comes back for the task that is due last.
MinDuration_Last == Max({Duration(i) : i \in Periodic})

MinDuration == Min({Duration(i) : i \in Periodic})

\* The worker comes back for the task that is due next.  Without a task that
\* has a period that is after 292 years.
LookSleep ==
    /\ Taken
    /\ view.live /\ request = "ready" /\ Begun = Len(Tasks)
    /\ Overdue = {}
    /\ IF Periodic = {} THEN UNCHANGED timer ELSE AddAfter(MinDuration)
    /\ calm' = TRUE /\ unseen' = FALSE
    /\ UNCHANGED <<objectVars, w, envVars, applied, prompt>>

\* killProc on one of the task's nodes, at random; whether a process matches
\* the pattern there makes no difference.
Kill(n) ==
    LET killed == [age |-> NewTime, node |-> n] IN
    /\ w.pc = "kill" /\ n \in Tasks[w.i].nodes /\ n \in usable
    /\ w' = [w EXCEPT !.pc = "write", !.obj.states[w.i] = killed,
                      !.same = w.obj.states[w.i] = killed]
    /\ applied' = [applied EXCEPT ![w.i] = IF Tasks[w.i].once THEN Min({2, @ + 1}) ELSE @]
    /\ UNCHANGED <<objectVars, queueVars, envVars, calm, unseen, prompt>>

\* Seeded fault: the error is not returned.
KillFails_Dropped(n) ==
    /\ w.pc = "kill" /\ n \in Tasks[w.i].nodes /\ n \notin usable
    /\ w' = Idle /\ calm' = FALSE
    /\ UNCHANGED <<objectVars, queueVars, envVars, unseen, applied, prompt>>

KillFails(n) ==
    /\ w.pc = "kill" /\ n \in Tasks[w.i].nodes /\ n \notin usable
    /\ Fail
    /\ UNCHANGED <<objectVars, queued, envVars, unseen, applied, prompt>>

\* Seeded fault: the last write wins.
UpdateStatus_LastWins ==
    /\ w.pc = "write" /\ store.live
    /\ store' = w.obj /\ fresh' = FALSE
    /\ w' = Idle
    /\ UNCHANGED <<view, queueVars, envVars, historyVars>>

\* Status().Update.  A write that changes nothing makes no new version, and no
\* event follows it.
UpdateStatus ==
    /\ w.pc = "write" /\ w.current
    /\ store' = w.obj
    /\ fresh' = (fresh /\ w.same)
    /\ w' = Idle
    /\ UNCHANGED <<view, queueVars, envVars, historyVars>>

UpdateRefused ==
    /\ w.pc = "write" /\ ~w.current
    /\ Fail
    /\ UNCHANGED <<objectVars, queued, envVars, unseen, applied, prompt>>

Reconcile ==
    \/ LookNotFound \/ LookNotReady \/ LookBegin \/ LookDue \/ LookSleep
    \/ \E n \in Node : Kill(n) \/ KillFails(n)
    \/ UpdateStatus \/ UpdateRefused

----------------------------------------------------------------------------
(* Queue and clock.                                                         *)

\* Several versions are delivered at once.
Watch ==
    /\ ~fresh
    /\ view' = store /\ fresh' = TRUE /\ queued' = TRUE
    /\ UNCHANGED <<store, timer, w, envVars, historyVars>>

Fire ==
    /\ timer = 0
    /\ timer' = NoTimer /\ queued' = TRUE
    /\ UNCHANGED <<objectVars, w, envVars, historyVars>>

Older(st) == [st EXCEPT !.age = Min({MaxAge, @ + 1})]

Aged(o) == [o EXCEPT !.states = [i \in DOMAIN o.states |-> Older(o.states[i])]]

Tick ==
    /\ prompt => w.pc = "idle" /\ ~queued /\ fresh /\ timer # 0
    /\ w.pc = "write" => w.obj.states[w.i].age < MaxWrite
    /\ phase' = (phase + 1) % Second
    /\ timer' = IF timer > 0 THEN timer - 1 ELSE timer
    /\ store' = Aged(store) /\ view' = Aged(view) /\ w' = [w EXCEPT !.obj = Aged(@)]
    /\ UNCHANGED <<fresh, queued, request, usable, faults, historyVars>>

----------------------------------------------------------------------------
(* Users, nodes and the process.                                            *)

Disturb == faults < MaxFault /\ faults' = faults + 1

\* A change of the object by somebody else makes every copy of it outdated.
Changed(o) ==
    /\ store' = o /\ fresh' = FALSE /\ w' = [w EXCEPT !.current = FALSE]
    /\ UNCHANGED <<view, queueVars>>

\* The webhook asks for tasks, and for periods that can be parsed.
ValidateCreate(tasks) == tasks # <<>>

CreateByUser ==
    /\ Disturb /\ ~store.live /\ ValidateCreate(Tasks)
    /\ Changed([Absent EXCEPT !.live = TRUE])
    /\ applied' = [i \in Task |-> 0]
    /\ UNCHANGED <<request, usable, phase, calm, unseen, prompt>>

\* ValidateUpdate: the tasks stay as they are; anything else may change.
EditByUser ==
    /\ Disturb /\ store.live
    /\ Changed(store)
    /\ UNCHANGED <<request, usable, phase, historyVars>>

DeleteByUser ==
    /\ Disturb /\ store.live
    /\ Changed(Absent)
    /\ UNCHANGED <<request, usable, phase, historyVars>>

RequestGrows ==
    /\ \/ request = "absent" /\ request' = "pending"
       \/ request = "pending" /\ request' = "ready"
    /\ UNCHANGED <<objectVars, queueVars, w, usable, phase, faults, historyVars>>

RequestGoes ==
    /\ Disturb /\ request = "ready" /\ request' = "absent"
    /\ UNCHANGED <<objectVars, queueVars, w, usable, phase, historyVars>>

NodeChanges(n) ==
    /\ Disturb
    /\ usable' = IF n \in usable THEN usable \ {n} ELSE usable \cup {n}
    /\ UNCHANGED <<objectVars, queueVars, w, request, phase, historyVars>>

\* The process stops and starts again: every object that it lists is queued.
Crash ==
    /\ Disturb
    /\ view' = store /\ fresh' = TRUE
    /\ queued' = store.live /\ timer' = NoTimer /\ w' = Idle
    /\ calm' = FALSE
    /\ UNCHANGED <<store, request, usable, phase, unseen, applied, prompt>>

Next ==
    \/ Reconcile \/ Watch \/ Fire \/ Tick
    \/ CreateByUser \/ EditByUser \/ DeleteByUser
    \/ RequestGrows \/ RequestGoes \/ Crash
    \/ \E n \in Node : NodeChanges(n)

Spec == Init /\ [][Next]_vars

(* The worker goes on, the queue and the watch deliver, time passes, and    *)
(* the scheduler serves the request.                                        *)
Fairness ==
    /\ WF_vars(Reconcile) /\ WF_vars(Watch) /\ WF_vars(Fire) /\ WF_vars(Tick)
    /\ WF_vars(RequestGrows)

FairSpec == Spec /\ Fairness

----------------------------------------------------------------------------
\* Every variable has its type, also the copies of the object that the cache
\* and the worker hold.
TypeOK ==
    /\ store \in Chaos /\ view \in Chaos /\ w.obj \in Chaos
    /\ fresh \in BOOLEAN /\ queued \in BOOLEAN
    /\ timer \in {NoTimer} \cup 0 .. Max({MaxAge, MaxBackoff})
    /\ w.pc \in {"idle", "kill", "write"}
    /\ w.pc # "idle" => w.i \in DOMAIN w.obj.states
    /\ request \in {"absent", "pending", "ready"}
    /\ usable \subseteq Node /\ phase \in 0 .. Second - 1

\* Two recorded applications of a task with a period are, but for the fraction
\* of a second that the record drops, a period apart, and one without a period
\* is recorded once: an application that was decided on an old status does not
\* get into the record, whatever woke the worker.
RecordsApart ==
    [][\A i \in DOMAIN store.states \cap DOMAIN store'.states :
        LET old == store.states[i]
            new == store'.states[i]
        IN store.live /\ store'.live /\ new.age < old.age =>
              i \in Periodic /\ old.age - new.age > Tasks[i].period - Second]_store

\* procchaos_types.go:26, "kill some processes once or in period": as long as
\* no call fails, every task with a period is applied when its time is up, by a
\* worker that is quicker than the clock.
InPeriod ==
    prompt /\ calm /\ store.live => \A i \in Periodic \cap DOMAIN store.states :
        store.states[i].age <= Max({Tasks[i].period, Second})

\* procchaos_types.go:39, "Empty period means applying task only once".
OnlyOnce == \A i \in Task : applied[i] <= 1

\* Whatever went wrong before: once the request is ready, its nodes are usable
\* and the object is left alone, every task is applied, and those with a period
\* again and again.  The exception is an object that was looked at before there
\* was a request: nobody looks at it again when the request comes.  A worker that
\* is slower than the periods need not get past the first task.
TasksGoOn ==
    prompt /\ <>[](store.live /\ request = "ready" /\ usable = Node /\ ~unseen) =>
        \A i \in Task :
            []<>(Len(store.states) >= i /\ (i \in Periodic => store.states[i].age < Second))
=============================================================================
