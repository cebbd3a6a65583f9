---------------------------- MODULE ChaosProofs ----------------------------
(***************************************************************************)
(* Proofs about ProcChaos for any tasks, nodes and bounds: the records of  *)
(* two applications of a task lie a period apart, and while no call fails  *)
(* every task is applied when its time is up.                              *)
(***************************************************************************)
EXTENDS ProcChaos, FiniteSetTheorems, TLAPS

(***************************************************************************)
(* Numbers.                                                                *)
(***************************************************************************)

\* Lemma: a set of natural numbers that is not empty has a least one.
LEMMA Smallest ==
    ASSUME NEW S \in SUBSET Nat, S # {}
    PROVE  Min(S) \in S /\ \A n \in S : Min(S) <= n
  <1>1. PICK m \in S : \A n \in S : <<n, m>> \notin OpToRel(<, Nat)
    BY WFMin, NatLessThanWellFounded, Zenon
  <1>2. ASSUME NEW n \in S PROVE m <= n
    <2>1. <<n, m>> \in Nat \X Nat /\ <<n, m>>[1] = n /\ <<n, m>>[2] = m
      OBVIOUS
    <2>2. n < m => <<n, m>> \in OpToRel(<, Nat)
      BY <2>1 DEF OpToRel
    <2>3. ~(n < m)
      BY <1>1, <2>2, Zenon
    <2> QED BY <2>3
  <1> QED BY <1>2 DEF Min

\* Lemma: what holds of 0, and with a number of the next one, holds of all.
LEMMA AllNumbers ==
    ASSUME NEW S, 0 \in S, \A n \in Nat : n \in S => n + 1 \in S
    PROVE  Nat \subseteq S
  <1> SUFFICES ASSUME Nat \ S # {} PROVE FALSE
    OBVIOUS
  <1>1. Min(Nat \ S) \in Nat \ S /\ \A n \in Nat \ S : Min(Nat \ S) <= n
    BY Smallest
  <1>2. Min(Nat \ S) - 1 \in Nat /\ Min(Nat \ S) - 1 \in S
    BY <1>1
  <1> QED BY <1>1, <1>2

\* Lemma: the two numbers that AddAfter and Aged take the smaller one of.
LEMMA Smaller ==
    ASSUME NEW a \in Int, NEW b \in Int
    PROVE  Min({a, b}) = IF a <= b THEN a ELSE b
  <1> DEFINE least == IF a <= b THEN a ELSE b
  <1>1. \A x \in {a, b} : (\A y \in {a, b} : x <= y) <=> x = least
    OBVIOUS
  <1> QED BY <1>1 DEF Min

\* Lemma: the larger one of two numbers.
LEMMA Larger ==
    ASSUME NEW a \in Int, NEW b \in Int
    PROVE  Max({a, b}) = IF a >= b THEN a ELSE b
  <1> DEFINE most == IF a >= b THEN a ELSE b
  <1>1. \A x \in {a, b} : (\A y \in {a, b} : x >= y) <=> x = most
    OBVIOUS
  <1> QED BY <1>1 DEF Max

\* Lemma: the largest number of a set.
LEMMA Largest ==
    ASSUME NEW S \in SUBSET Int, NEW m \in S, \A n \in S : n <= m
    PROVE  Max(S) = m
  <1>1. \A x \in S : (\A y \in S : x >= y) <=> x = m
    OBVIOUS
  <1> QED BY <1>1 DEF Max

\* Lemma: the tasks of the specification.
LEMMA TaskFacts ==
    /\ Len(Tasks) \in Nat /\ Task = 1 .. Len(Tasks)
    /\ \A i \in Task : Tasks[i].period \in Nat /\ Tasks[i].once \in BOOLEAN
    /\ Second \in Nat /\ Second > 0 /\ MaxWrite \in Nat /\ MaxBackoff \in Nat
  <1> DEFINE T == [once : BOOLEAN, period : Nat, nodes : (SUBSET Node) \ {{}}]
  <1>1. \A t \in T : t.period \in Nat /\ t.once \in BOOLEAN
    OBVIOUS
  <1>2. Tasks \in Seq(T)
    BY ChaosAssumption
  <1> HIDE DEF T
  <1>3. Len(Tasks) \in Nat /\ Task = 1 .. Len(Tasks) /\ \A i \in Task : Tasks[i] \in T
    BY <1>2 DEF Task
  <1>4. Second \in Nat /\ Second > 0 /\ MaxWrite \in Nat /\ MaxBackoff \in Nat
    BY ChaosAssumption
  <1> QED BY <1>1, <1>3, <1>4

\* Lemma: MaxAge is beyond every period, as far as a record can be old when it
\* is written.
LEMMA MaxAgeIsLate ==
    ASSUME Tasks # <<>>
    PROVE  /\ MaxAge \in Nat
           /\ \A i \in Task : /\ Tasks[i].period \in Nat
                              /\ Tasks[i].period + Second + MaxWrite <= MaxAge
  <1> DEFINE p == [i \in Task |-> Tasks[i].period]
             Longest(n, m) == \A i \in 1 .. n : p[m] >= p[i]
             Has == {n \in Nat : 0 < n /\ n <= Len(Tasks) => \E m \in 1 .. n : Longest(n, m)}
  <1>1. Len(Tasks) \in Nat /\ Len(Tasks) > 0 /\ Task = 1 .. Len(Tasks)
    <2>1. Tasks \in Seq(Range(Tasks))
      BY ChaosAssumption DEF Range
    <2> QED BY <2>1, TaskFacts
  <1>2. p \in [1 .. Len(Tasks) -> Nat]
    BY <1>1, TaskFacts
  <1> HIDE DEF p
  <1>3. 0 \in Has
    <2>1. ~(0 < 0)
      OBVIOUS
    <2> QED BY <2>1
  <1>4. ASSUME NEW n \in Nat, n \in Has PROVE n + 1 \in Has
    <2> SUFFICES ASSUME n + 1 <= Len(Tasks)
                 PROVE  \E m \in 1 .. n + 1 : Longest(n + 1, m)
      OBVIOUS
    <2>1. CASE n = 0
      <3>1. Longest(1, 1)
        BY <1>1, <1>2
      <3> QED BY <2>1, <3>1
    <2>2. CASE n > 0
      <3>1. PICK m \in 1 .. n : Longest(n, m)
        BY <1>4, <2>2
      <3>2. p[m] \in Nat /\ p[n + 1] \in Nat /\ m \in 1 .. n + 1 /\ n + 1 \in 1 .. n + 1
        BY <1>1, <1>2
      <3>3. \A i \in 1 .. n + 1 : p[i] \in Nat /\ (i = n + 1 \/ i \in 1 .. n)
        BY <1>1, <1>2
      <3>4. CASE p[m] >= p[n + 1]
        BY <3>1, <3>2, <3>3, <3>4
      <3>5. CASE ~(p[m] >= p[n + 1])
        <4>1. Longest(n + 1, n + 1)
          BY <3>1, <3>2, <3>3, <3>5
        <4> QED BY <3>2, <4>1
      <3> QED BY <3>4, <3>5
    <2> QED BY <2>1, <2>2
  <1>5. Len(Tasks) \in Has
    <2> HIDE DEF Has
    <2> QED BY <1>1, <1>3, <1>4, AllNumbers
  <1>6. PICK m \in 1 .. Len(Tasks) : Longest(Len(Tasks), m)
    BY <1>1, <1>5
  <1>7. Max({Tasks[i].period : i \in Task}) = p[m]
    <2>1. {Tasks[i].period : i \in Task} = {p[i] : i \in 1 .. Len(Tasks)}
      BY <1>1 DEF p
    <2>2. /\ {p[i] : i \in 1 .. Len(Tasks)} \in SUBSET Int
          /\ p[m] \in {p[i] : i \in 1 .. Len(Tasks)}
          /\ \A n \in {p[i] : i \in 1 .. Len(Tasks)} : n <= p[m]
      BY <1>2, <1>6
    <2> QED BY <2>1, <2>2, Largest
  <1>8. p[m] \in Nat /\ \A i \in Task : Tasks[i].period \in Nat /\ Tasks[i].period <= p[m]
    <2>1. \A i \in Task : Tasks[i].period = p[i]
      BY DEF p
    <2> QED BY <1>1, <1>2, <1>6, <2>1
  <1> HIDE DEF Longest, Has
  <1>9. MaxAge = p[m] + Second + MaxWrite
    BY <1>7 DEF MaxAge
  <1> QED BY <1>8, <1>9, TaskFacts

----------------------------------------------------------------------------
(* The object and its states.                                               *)

Working == [pc : {"idle", "kill", "write"}, i : Nat, obj : Chaos, current : BOOLEAN,
            same : BOOLEAN]

\* Lemma: what an object is.
LEMMA ChaosShape ==
    ASSUME NEW o \in Chaos
    PROVE  /\ o.live \in BOOLEAN /\ o = [live |-> o.live, states |-> o.states]
           /\ Len(o.states) \in 0 .. Len(Tasks) /\ o.states \in [1 .. Len(o.states) -> State]
           /\ DOMAIN o.states = 1 .. Len(o.states) /\ DOMAIN o.states \subseteq Task
           /\ o.states \in Seq(State)
  <1>1. o.live \in BOOLEAN /\ o = [live |-> o.live, states |-> o.states]
    BY DEF Chaos
  <1>2. PICK n \in 0 .. Len(Tasks) : o.states \in [1 .. n -> State]
    BY DEF Chaos
  <1>3. n \in Nat /\ Len(o.states) = n
    BY <1>2, TaskFacts
  <1> QED BY <1>1, <1>2, <1>3, TaskFacts

\* Lemma: and what makes one.
LEMMA ChaosMade ==
    ASSUME NEW live \in BOOLEAN, NEW n \in 0 .. Len(Tasks), NEW s \in [1 .. n -> State]
    PROVE  [live |-> live, states |-> s] \in Chaos
  BY DEF Chaos

\* Lemma: an object without states is one.
LEMMA EmptyIsChaos ==
    ASSUME NEW live \in BOOLEAN
    PROVE  [live |-> live, states |-> <<>>] \in Chaos /\ [Absent EXCEPT !.live = live] \in Chaos
  <1>1. 0 \in 0 .. Len(Tasks) /\ <<>> \in [1 .. 0 -> State]
    BY TaskFacts
  <1>2. [Absent EXCEPT !.live = live] = [live |-> live, states |-> <<>>]
    BY DEF Absent
  <1> QED BY <1>1, <1>2 DEF Chaos

\* Lemma: time makes the states of an object older and leaves the rest alone.
LEMMA AgedFacts ==
    ASSUME Tasks # <<>>, NEW o \in Chaos
    PROVE  /\ Aged(o) \in Chaos /\ Aged(o).live = o.live
           /\ DOMAIN Aged(o).states = DOMAIN o.states
           /\ \A i \in DOMAIN o.states :
                 /\ o.states[i].age \in 0 .. MaxAge /\ Aged(o).states[i].node = o.states[i].node
                 /\ Aged(o).states[i].age =
                       IF o.states[i].age < MaxAge THEN o.states[i].age + 1 ELSE MaxAge
  <1>1. MaxAge \in Nat
    BY MaxAgeIsLate
  <1>2. ASSUME NEW st \in State
        PROVE  /\ Older(st) \in State /\ Older(st).node = st.node /\ st.age \in 0 .. MaxAge
               /\ Older(st).age = IF st.age < MaxAge THEN st.age + 1 ELSE MaxAge
    <2>1. st.age \in 0 .. MaxAge
      BY DEF State
    <2>2. Min({MaxAge, st.age + 1}) = IF MaxAge <= st.age + 1 THEN MaxAge ELSE st.age + 1
      BY <1>1, <2>1, Smaller
    <2>3. Min({MaxAge, st.age + 1}) = IF st.age < MaxAge THEN st.age + 1 ELSE MaxAge
      BY <1>1, <2>1, <2>2
    <2> QED BY <1>1, <2>1, <2>3 DEF State, Older
  <1> DEFINE s == [i \in DOMAIN o.states |-> Older(o.states[i])]
  <1>3. Aged(o) = [live |-> o.live, states |-> s]
    <2>1. o \in [live : BOOLEAN, states : Seq(State)]
      BY ChaosShape
    <2> QED BY <2>1 DEF Aged
  <1>4. s \in [1 .. Len(o.states) -> State]
    BY <1>2, ChaosShape
  <1>5. Aged(o) \in Chaos
    <2> HIDE DEF s
    <2> QED BY <1>3, <1>4, ChaosShape, ChaosMade
  <1> QED BY <1>2, <1>3, <1>5, ChaosShape

\* Lemma: an object with one state more.
LEMMA BegunFacts ==
    ASSUME NEW o \in Chaos, Len(o.states) < Len(Tasks), NEW st \in State
    PROVE  LET p == [o EXCEPT !.states = Append(@, st)]
               n == Len(o.states) + 1
           IN  /\ p \in Chaos /\ p.live = o.live
               /\ n \in Task /\ n \notin DOMAIN o.states
               /\ DOMAIN p.states = DOMAIN o.states \cup {n} /\ p.states[n] = st
               /\ \A i \in DOMAIN o.states : p.states[i] = o.states[i]
  <1> DEFINE s == Append(o.states, st)
             n == Len(o.states) + 1
  <1>1. Len(o.states) \in Nat /\ n \in 0 .. Len(Tasks) /\ n \in Task
    BY ChaosShape, TaskFacts
  <1>2. s \in [1 .. n -> State] /\ s[n] = st /\ \A i \in 1 .. Len(o.states) : s[i] = o.states[i]
    <2>1. o.states \in Seq(State) /\ Len(s) = n
      BY ChaosShape
    <2>2. s \in Seq(State) /\ s[n] = st /\ \A i \in 1 .. Len(o.states) : s[i] = o.states[i]
      BY <1>1, <2>1
    <2> HIDE DEF s
    <2>3. s \in [1 .. n -> State]
      BY <2>1, <2>2
    <2> QED BY <2>2, <2>3
  <1>3. [o EXCEPT !.states = Append(@, st)] = [live |-> o.live, states |-> s]
    BY ChaosShape
  <1> HIDE DEF s
  <1>4. [live |-> o.live, states |-> s] \in Chaos
    BY <1>1, <1>2, ChaosShape, ChaosMade
  <1>5. DOMAIN s = 1 .. n /\ DOMAIN o.states = 1 .. Len(o.states)
    BY <1>2, ChaosShape
  <1>6. 1 .. n = (1 .. Len(o.states)) \cup {n} /\ n \notin 1 .. Len(o.states)
    BY <1>1
  <1> QED BY <1>1, <1>2, <1>3, <1>4, <1>5, <1>6

\* Lemma: an object with another state of one task.
LEMMA KilledFacts ==
    ASSUME NEW o \in Chaos, NEW i \in DOMAIN o.states, NEW st \in State
    PROVE  LET p == [o EXCEPT !.states[i] = st]
           IN  /\ p \in Chaos /\ p.live = o.live
               /\ DOMAIN p.states = DOMAIN o.states /\ p.states[i] = st
               /\ \A j \in DOMAIN o.states \ {i} : p.states[j] = o.states[j]
  <1> DEFINE s == [o.states EXCEPT ![i] = st]
  <1>1. [o EXCEPT !.states[i] = st] = [live |-> o.live, states |-> s]
    BY ChaosShape, SMTT(20)
  <1>2. /\ s \in [1 .. Len(o.states) -> State] /\ s[i] = st
        /\ \A j \in DOMAIN o.states \ {i} : s[j] = o.states[j]
    BY ChaosShape
  <1> HIDE DEF s
  <1>3. [live |-> o.live, states |-> s] \in Chaos
    BY <1>2, ChaosShape, ChaosMade
  <1> QED BY <1>1, <1>2, <1>3, ChaosShape

----------------------------------------------------------------------------
(* What the worker knows.                                                   *)

Types == TypeOK /\ w \in Working /\ calm \in BOOLEAN /\ prompt \in BOOLEAN

\* The cache shows the current version, where nothing is left to be delivered.
CacheOK == fresh => view = store

\* A worker whose copy is of the current version changes the state of one task,
\* which has none yet, or is due.
Decided ==
    w.pc # "idle" /\ w.current =>
        /\ fresh /\ store.live /\ w.i \in Task
        /\ DOMAIN w.obj.states = DOMAIN store.states \cup {w.i}
        /\ \A j \in DOMAIN store.states \ {w.i} : w.obj.states[j] = store.states[j]
        /\ w.i \in DOMAIN store.states =>
              LET period == Tasks[w.i].period
                  age == store.states[w.i].age
              IN  /\ w.i \in Periodic
                  /\ w.pc = "kill" => age >= period
                  /\ w.pc = "write" => age - w.obj.states[w.i].age > period - Second
        /\ w.pc = "kill" => \/ w.i \in DOMAIN store.states /\ w.obj = store
                            \/ w.i \notin DOMAIN store.states /\ w.obj.states[w.i].node = None
        /\ w.pc = "write" /\ w.same => w.obj = store

\* The record that is to be written is young.
Recorded ==
    w.pc = "write" =>
        w.obj.states[w.i].age < Second \/ (~prompt /\ w.obj.states[w.i].age <= MaxWrite)

ChaosInv == Types /\ CacheOK /\ Decided /\ Recorded

\* Lemma: the bound of the timer.
LEMMA TimerBound ==
    ASSUME Tasks # <<>>
    PROVE  /\ Max({MaxAge, MaxBackoff}) \in Nat
           /\ Max({MaxAge, MaxBackoff}) >= MaxAge /\ Max({MaxAge, MaxBackoff}) >= MaxBackoff
           /\ Second <= MaxAge /\ MaxAge \in Nat
  <1>1. MaxAge \in Nat /\ MaxBackoff \in Nat /\ Second \in Nat /\ MaxWrite \in Nat
    BY MaxAgeIsLate, TaskFacts
  <1>2. 1 \in Task
    BY TaskFacts, ChaosAssumption
  <1>3. Second <= MaxAge
    BY <1>1, <1>2, MaxAgeIsLate
  <1>4. Max({MaxAge, MaxBackoff}) = IF MaxAge >= MaxBackoff THEN MaxAge ELSE MaxBackoff
    BY <1>1, Larger
  <1> QED BY <1>1, <1>3, <1>4

\* Lemma: the delaying queue, when the object is to come back after d.
LEMMA AddAfterFacts ==
    ASSUME Tasks # <<>>, TypeOK, NEW d \in 0 .. Max({MaxAge, MaxBackoff}), AddAfter(d)
    PROVE  timer' \in 0 .. Max({MaxAge, MaxBackoff}) /\ timer' \in 0 .. d
  <1>1. Max({MaxAge, MaxBackoff}) \in Nat /\ d \in Nat /\ d <= Max({MaxAge, MaxBackoff})
    BY TimerBound
  <1>2. CASE timer = NoTimer
    BY <1>1, <1>2 DEF AddAfter
  <1>3. CASE timer # NoTimer
    <2>1. timer \in 0 .. Max({MaxAge, MaxBackoff})
      BY <1>3 DEF TypeOK
    <2>2. timer' = IF timer <= d THEN timer ELSE d
      BY <1>1, <1>3, <2>1, Smaller DEF AddAfter
    <2> QED BY <1>1, <2>1, <2>2
  <1> QED BY <1>2, <1>3

\* Lemma: a worker without anything to do.
LEMMA IdleFacts == Idle \in Working /\ Idle.pc = "idle"
  <1>1. Absent \in Chaos
    BY EmptyIsChaos DEF Absent
  <1> QED BY <1>1 DEF Idle, Worker, Working

\* Lemma: the first state.
LEMMA ChaosInit ==
    ASSUME Init
    PROVE  ChaosInv
  <1>1. Absent \in Chaos
    BY EmptyIsChaos DEF Absent
  <1>2. 0 \in 0 .. Second - 1
    BY TaskFacts
  <1>3. w \in Working /\ w.pc = "idle" /\ w.obj \in Chaos
    BY IdleFacts DEF Init, Working
  <1>4. Types
    BY <1>1, <1>2, <1>3 DEF Init, Types, TypeOK
  <1> QED BY <1>3, <1>4 DEF Init, ChaosInv, CacheOK, Decided, Recorded

\* Lemma: a step that leaves the object alone, and the worker, unless its call ends.
LEMMA ChaosStill ==
    ASSUME ChaosInv, UNCHANGED <<store, view, fresh, prompt>>, w' = w \/ w' = Idle,
           timer' \in {NoTimer} \cup 0 .. Max({MaxAge, MaxBackoff}),
           queued' \in BOOLEAN, calm' \in BOOLEAN,
           request' \in {"absent", "pending", "ready"},
           usable' \subseteq Node, phase' = phase
    PROVE  ChaosInv'
  <1>1. w' \in Working /\ (w' = w \/ w'.pc = "idle")
    BY IdleFacts DEF ChaosInv, Types
  <1>2. w'.obj \in Chaos /\ w'.pc \in {"idle", "kill", "write"}
    BY <1>1 DEF Working
  <1>3. Types'
    BY <1>1, <1>2 DEF ChaosInv, Types, TypeOK
  <1>4. CacheOK' /\ Decided' /\ Recorded'
    BY <1>1 DEF ChaosInv, CacheOK, Decided, Recorded
  <1> QED BY <1>3, <1>4 DEF ChaosInv

\* Lemma: the worker that finds nothing due comes back when the next task is due.
LEMMA SleepFacts ==
    ASSUME TypeOK, Tasks # <<>>, LookSleep
    PROVE  /\ DOMAIN view.states = Task /\ view.live
           /\ timer' \in {NoTimer} \cup 0 .. Max({MaxAge, MaxBackoff})
           /\ \A i \in Periodic : /\ timer' \in 0 .. Tasks[i].period - view.states[i].age
                                  /\ view.states[i].age < Tasks[i].period
  <1> DEFINE D == {Duration(i) : i \in Periodic}
  <1>1. view \in Chaos /\ DOMAIN view.states = Task /\ view.live
    BY ChaosShape, TaskFacts DEF TypeOK, LookSleep, Begun
  <1>2. \A i \in Periodic : /\ i \in Task /\ Tasks[i].period \in Nat /\ Tasks[i].period <= MaxAge
                            /\ view.states[i].age \in 0 .. MaxAge /\ MaxAge \in Nat
    <2>1. \A i \in DOMAIN view.states : view.states[i].age \in 0 .. MaxAge
      BY <1>1, AgedFacts
    <2>2. MaxAge \in Nat /\ \A i \in Task : Tasks[i].period \in Nat /\ Tasks[i].period <= MaxAge
      BY MaxAgeIsLate, TaskFacts
    <2> QED BY <1>1, <2>1, <2>2 DEF Periodic
  <1>3. \A i \in Periodic : ~(Duration(i) <= 0)
    BY DEF LookSleep, Overdue
  <1>4. \A i \in Periodic : /\ Duration(i) = Tasks[i].period - view.states[i].age
                            /\ Duration(i) \in Nat /\ Duration(i) <= MaxAge
                            /\ view.states[i].age < Tasks[i].period
    BY <1>2, <1>3 DEF Duration
  <1>5. CASE Periodic = {}
    BY <1>1, <1>5 DEF LookSleep, TypeOK
  <1>6. CASE Periodic # {}
    <2>1. MinDuration \in D /\ \A d \in D : MinDuration <= d
      <3>1. D \in SUBSET Nat /\ D # {}
        BY <1>4, <1>6
      <3>2. MinDuration = Min(D)
        BY DEF MinDuration
      <3> HIDE DEF D
      <3> QED BY <3>1, <3>2, Smallest
    <2>2. MinDuration \in Nat /\ MinDuration <= MaxAge
      BY <1>4, <2>1
    <2>3. MinDuration \in 0 .. Max({MaxAge, MaxBackoff})
      BY <2>2, TimerBound
    <2>4. timer' \in 0 .. Max({MaxAge, MaxBackoff}) /\ timer' \in 0 .. MinDuration
      BY <1>6, <2>3, AddAfterFacts DEF LookSleep
    <2>5. \A i \in Periodic : MinDuration <= Tasks[i].period - view.states[i].age
      BY <1>4, <2>1
    <2>6. \A i \in Periodic : timer' \in 0 .. Tasks[i].period - view.states[i].age
      BY <1>2, <2>2, <2>4, <2>5
    <2> QED BY <1>1, <1>4, <2>4, <2>6
  <1> QED BY <1>5, <1>6

\* Lemma: the calls that change nothing, timers and what happens around.
LEMMA ChaosQuiet ==
    ASSUME ChaosInv, Tasks # <<>>,
           \/ LookNotFound \/ LookNotReady \/ LookSleep \/ UpdateRefused
           \/ \E n \in Node : KillFails(n) \/ NodeChanges(n)
           \/ Fire \/ RequestGrows \/ RequestGoes
    PROVE  ChaosInv'
  <1> USE DEF objectVars, queueVars, envVars, historyVars
  <1> DEFINE Timers == {NoTimer} \cup 0 .. Max({MaxAge, MaxBackoff})
  <1>0. /\ TypeOK /\ timer \in Timers /\ queued \in BOOLEAN /\ calm \in BOOLEAN
        /\ request \in {"absent", "pending", "ready"} /\ usable \subseteq Node
    BY DEF ChaosInv, Types, TypeOK
  <1>1. CASE LookNotFound
    BY <1>0, <1>1, ChaosStill DEF LookNotFound, Taken
  <1>2. CASE LookNotReady
    <2>1. Second \in 0 .. Max({MaxAge, MaxBackoff})
      BY TimerBound, TaskFacts
    <2>2. timer' \in Timers
      BY <1>0, <1>2, <2>1, AddAfterFacts DEF LookNotReady
    <2> QED BY <1>0, <1>2, <2>2, ChaosStill DEF LookNotReady, Taken
  <1>3. CASE LookSleep
    <2>1. timer' \in Timers
      BY <1>0, <1>3, SleepFacts
    <2> QED BY <1>0, <1>3, <2>1, ChaosStill DEF LookSleep, Taken
  <1>4. CASE UpdateRefused \/ \E n \in Node : KillFails(n)
    <2>1. Fail /\ UNCHANGED <<store, view, fresh, queued, request, usable, phase, prompt>>
      BY <1>4 DEF UpdateRefused, KillFails
    <2>2. PICK d \in 0 .. MaxBackoff : AddAfter(d)
      BY <2>1 DEF Fail
    <2>3. d \in 0 .. Max({MaxAge, MaxBackoff})
      BY TimerBound, TaskFacts
    <2>4. timer' \in Timers
      BY <1>0, <2>2, <2>3, AddAfterFacts
    <2> QED BY <1>0, <2>1, <2>4, ChaosStill DEF Fail
  <1>5. CASE \E n \in Node : NodeChanges(n)
    BY <1>0, <1>5, ChaosStill DEF NodeChanges
  <1>6. CASE Fire
    BY <1>0, <1>6, ChaosStill DEF Fire
  <1>7. CASE RequestGrows \/ RequestGoes
    BY <1>0, <1>7, ChaosStill DEF RequestGrows, RequestGoes
  <1> QED BY <1>1, <1>2, <1>3, <1>4, <1>5, <1>6, <1>7

\* Lemma: the worker begins a task.
LEMMA ChaosBegin ==
    ASSUME ChaosInv, LookBegin
    PROVE  ChaosInv'
  <1> DEFINE st == [age |-> NewTime, node |-> None]
             obj == [view EXCEPT !.states = Append(@, st)]
             n == Len(view.states) + 1
  <1>0. Tasks # <<>>
    BY ChaosShape DEF LookBegin, Begun, ChaosInv, Types, TypeOK
  <1>1. st \in State /\ st.age < Second
    BY <1>0, TimerBound, TaskFacts DEF ChaosInv, Types, TypeOK, NewTime, State
  <1> HIDE DEF st
  <1>2. view \in Chaos /\ view.live /\ Len(view.states) < Len(Tasks)
    BY DEF ChaosInv, Types, TypeOK, LookBegin, Begun
  <1>3. /\ obj \in Chaos /\ n \in Task /\ n \notin DOMAIN view.states
        /\ DOMAIN obj.states = DOMAIN view.states \cup {n} /\ obj.states[n] = st
        /\ \A i \in DOMAIN view.states : obj.states[i] = view.states[i]
    BY <1>1, <1>2, BegunFacts
  <1>4. /\ w' = Worker(IF Tasks[n].once THEN "kill" ELSE "write", n, obj, fresh, FALSE)
        /\ UNCHANGED <<store, view, fresh, timer, request, usable, phase, calm, prompt>>
        /\ queued' = FALSE
    BY DEF LookBegin, Taken, Begun, st, objectVars, envVars
  <1> HIDE DEF obj
  <1>5. n \in Nat
    BY <1>3, TaskFacts
  <1>6. /\ w' \in Working /\ w'.obj = obj /\ w'.i = n /\ w'.current = fresh
        /\ w'.pc \in {"kill", "write"} /\ ~w'.same /\ st.node = None
    BY <1>3, <1>4, <1>5 DEF Worker, Working, ChaosInv, Types, TypeOK, st
  <1> HIDE DEF n
  <1>7. Types'
    BY <1>3, <1>4, <1>6 DEF ChaosInv, Types, TypeOK
  <1>8. CacheOK' /\ Recorded'
    BY <1>1, <1>3, <1>4, <1>6 DEF ChaosInv, CacheOK, Recorded
  <1>9. Decided'
    <2> SUFFICES ASSUME fresh PROVE Decided'
      BY <1>4, <1>6 DEF Decided
    <2>1. store = view /\ store' = view /\ fresh'
      BY <1>4 DEF ChaosInv, CacheOK
    <2> QED BY <1>2, <1>3, <1>6, <2>1 DEF Decided
  <1> QED BY <1>7, <1>8, <1>9 DEF ChaosInv

\* Lemma: the worker takes the first task that is due.
LEMMA ChaosDue ==
    ASSUME ChaosInv, Tasks # <<>>, LookDue
    PROVE  ChaosInv'
  <1> DEFINE n == Min(Overdue)
  <1>1. view \in Chaos /\ DOMAIN view.states = Task /\ view.live /\ Task = 1 .. Len(Tasks)
    BY ChaosShape, TaskFacts DEF ChaosInv, Types, TypeOK, LookDue, Begun
  <1>2. n \in Overdue
    <2>1. Overdue \in SUBSET Nat /\ Overdue # {}
      BY <1>1 DEF Overdue, Periodic, LookDue
    <2> QED BY <2>1, Smallest
  <1>3. n \in Periodic /\ n \in Task /\ view.states[n].age >= Tasks[n].period
    <2>1. n \in Periodic /\ n \in Task /\ Duration(n) <= 0
      BY <1>2 DEF Overdue, Periodic
    <2>2. view.states[n].age \in Int /\ Tasks[n].period \in Int
      BY <1>1, <2>1, AgedFacts, MaxAgeIsLate
    <2> QED BY <2>1, <2>2 DEF Duration
  <1>4. /\ w' = Worker("kill", n, view, fresh, FALSE)
        /\ UNCHANGED <<store, view, fresh, timer, request, usable, phase, calm, prompt>>
        /\ queued' = FALSE
    BY DEF LookDue, Taken, objectVars, envVars
  <1> HIDE DEF n
  <1>5. /\ w' \in Working /\ w'.obj = view /\ w'.i = n /\ w'.current = fresh
        /\ w'.pc = "kill"
    BY <1>1, <1>3, <1>4 DEF Worker, Working, ChaosInv, Types, TypeOK
  <1>6. Types'
    BY <1>1, <1>3, <1>4, <1>5 DEF ChaosInv, Types, TypeOK
  <1>7. CacheOK' /\ Recorded'
    BY <1>4, <1>5 DEF ChaosInv, CacheOK, Recorded
  <1>8. Decided'
    <2> SUFFICES ASSUME fresh PROVE Decided'
      BY <1>4, <1>5 DEF Decided
    <2>1. store = view /\ store' = view /\ fresh'
      BY <1>4 DEF ChaosInv, CacheOK
    <2>2. DOMAIN view.states = DOMAIN view.states \cup {n} /\ n \in DOMAIN view.states
      BY <1>1, <1>3
    <2> QED BY <1>1, <1>3, <1>5, <2>1, <2>2 DEF Decided
  <1> QED BY <1>6, <1>7, <1>8 DEF ChaosInv

\* Lemma: the worker applies the task, and the record is to be written.
LEMMA ChaosKill ==
    ASSUME ChaosInv, Tasks # <<>>, NEW n \in Node, Kill(n)
    PROVE  ChaosInv'
  <1> DEFINE st == [age |-> NewTime, node |-> n]
             obj == [w.obj EXCEPT !.states[w.i] = st]
  <1>0. w \in Working /\ w.pc = "kill" /\ w.i \in DOMAIN w.obj.states /\ w.obj \in Chaos
    BY DEF Kill, ChaosInv, Types, TypeOK
  <1>1. st \in State /\ st.age \in 0 .. Second - 1
    BY TimerBound, TaskFacts DEF ChaosInv, Types, TypeOK, NewTime, State
  <1> HIDE DEF st
  <1>2. /\ obj \in Chaos /\ DOMAIN obj.states = DOMAIN w.obj.states /\ obj.states[w.i] = st
        /\ \A j \in DOMAIN w.obj.states \ {w.i} : obj.states[j] = w.obj.states[j]
    BY <1>0, <1>1, KilledFacts
  <1>3. /\ w'.pc = "write" /\ w'.i = w.i /\ w'.obj = obj /\ w'.current = w.current
        /\ w' \in Working
        /\ w'.same = (w.obj.states[w.i] = st)
    <2>1. w' = [w EXCEPT !.pc = "write", !.obj = obj, !.same = (w.obj.states[w.i] = st)]
      BY DEF Kill, st
    <2> HIDE DEF obj
    <2> QED BY <1>0, <1>2, <2>1 DEF Working
  <1> HIDE DEF obj
  <1>4. UNCHANGED <<store, view, fresh, queued, timer, request, usable, phase, calm, prompt>>
    BY DEF Kill, objectVars, queueVars, envVars
  <1>5. Types'
    BY <1>0, <1>2, <1>3, <1>4 DEF ChaosInv, Types, TypeOK
  <1>6. CacheOK' /\ Recorded'
    BY <1>1, <1>2, <1>3, <1>4, TaskFacts DEF ChaosInv, CacheOK, Recorded
  <1>7. Decided'
    <2> SUFFICES ASSUME w.current PROVE Decided'
      BY <1>3 DEF Decided
    <2>1. /\ fresh /\ store.live /\ w.i \in Task
          /\ DOMAIN w.obj.states = DOMAIN store.states \cup {w.i}
          /\ \A j \in DOMAIN store.states \ {w.i} : w.obj.states[j] = store.states[j]
          /\ w.i \in DOMAIN store.states =>
                w.i \in Periodic /\ store.states[w.i].age >= Tasks[w.i].period
      BY <1>0 DEF ChaosInv, Decided
    <2>2. ASSUME w.i \in DOMAIN store.states
          PROVE  store.states[w.i].age - obj.states[w.i].age > Tasks[w.i].period - Second
      <3>1. store.states[w.i].age \in Int /\ Tasks[w.i].period \in Int /\ Second \in Int
        BY <2>1, <2>2, AgedFacts, TaskFacts DEF ChaosInv, Types, TypeOK
      <3> QED BY <1>1, <1>2, <2>1, <2>2, <3>1
    <2>3. ASSUME w'.same PROVE obj = store
      <3>1. w.obj.states[w.i] = st /\ st.node = n /\ n # None
        BY <1>3, <2>3, ChaosAssumption DEF st
      <3>2. w.obj = store
        BY <1>0, <3>1 DEF ChaosInv, Decided
      <3>3. [w.obj EXCEPT !.states[w.i] = w.obj.states[w.i]] = w.obj
        BY <1>0, ChaosShape
      <3> QED BY <3>1, <3>2, <3>3 DEF obj
    <2> QED BY <1>2, <1>3, <1>4, <2>1, <2>2, <2>3 DEF Decided
  <1> QED BY <1>5, <1>6, <1>7 DEF ChaosInv

\* Lemma: the status is written.
LEMMA ChaosUpdate ==
    ASSUME ChaosInv, UpdateStatus
    PROVE  ChaosInv'
  <1>1. /\ w' = Idle /\ store' = w.obj /\ fresh' = (fresh /\ w.same)
        /\ w.pc = "write" /\ w.current
        /\ UNCHANGED <<view, queued, timer, request, usable, phase, calm, prompt>>
    BY DEF UpdateStatus, queueVars, envVars, historyVars
  <1>2. w.obj \in Chaos /\ w'.pc = "idle" /\ w' \in Working /\ w'.obj \in Chaos
    BY <1>1, IdleFacts DEF ChaosInv, Types, TypeOK, Working
  <1>3. Types'
    BY <1>1, <1>2 DEF ChaosInv, Types, TypeOK, Working
  <1>4. CacheOK'
    <2> SUFFICES ASSUME fresh' PROVE view = w.obj
      BY <1>1 DEF CacheOK
    <2>1. fresh /\ w.same
      BY <1>1
    <2> QED BY <1>1, <2>1 DEF ChaosInv, CacheOK, Decided
  <1> QED BY <1>2, <1>3, <1>4 DEF ChaosInv, Decided, Recorded

\* Lemma: the cache catches up, as events arrive or the process starts.
LEMMA ChaosCatchesUp ==
    ASSUME ChaosInv, Watch \/ Crash
    PROVE  ChaosInv'
  <1>1. /\ view' = store /\ fresh' = TRUE /\ queued' \in BOOLEAN
        /\ timer' \in {NoTimer} \cup 0 .. Max({MaxAge, MaxBackoff})
        /\ calm' \in BOOLEAN /\ (w' = w \/ w' = Idle)
        /\ UNCHANGED <<store, request, usable, phase, prompt>>
    <2>1. store.live \in BOOLEAN
      BY ChaosShape DEF ChaosInv, Types, TypeOK
    <2> QED BY <2>1 DEF Watch, Crash, envVars, historyVars, ChaosInv, Types, TypeOK
  <1>2. w' \in Working /\ (w' = w \/ w'.pc = "idle")
    BY <1>1, IdleFacts DEF ChaosInv, Types
  <1>3. w'.obj \in Chaos /\ w'.pc \in {"idle", "kill", "write"}
    BY <1>2 DEF Working
  <1>4. w'.pc # "idle" => w'.i \in DOMAIN w'.obj.states
    BY <1>2 DEF ChaosInv, Types, TypeOK
  <1>5. Types'
    <2>1. /\ store \in Chaos /\ calm' \in BOOLEAN /\ prompt \in BOOLEAN
          /\ request \in {"absent", "pending", "ready"}
          /\ usable \subseteq Node /\ phase \in 0 .. Second - 1
      BY <1>1 DEF ChaosInv, Types, TypeOK
    <2> QED BY <1>1, <1>2, <1>3, <1>4, <2>1 DEF Types, TypeOK
  <1> QED BY <1>1, <1>2, <1>5 DEF ChaosInv, CacheOK, Decided, Recorded

\* Lemma: somebody else changes the object.
LEMMA ChaosChanged ==
    ASSUME ChaosInv, CreateByUser \/ EditByUser \/ DeleteByUser
    PROVE  ChaosInv'
  <1>1. PICK o \in {[Absent EXCEPT !.live = TRUE], store, Absent} : Changed(o)
    BY DEF CreateByUser, EditByUser, DeleteByUser
  <1>2. UNCHANGED <<request, usable, phase, calm, prompt>>
    BY DEF CreateByUser, EditByUser, DeleteByUser, historyVars
  <1>3. o \in Chaos
    <2>1. Absent \in Chaos /\ [Absent EXCEPT !.live = TRUE] \in Chaos
      BY EmptyIsChaos DEF Absent
    <2> QED BY <2>1 DEF ChaosInv, Types, TypeOK
  <1>4. /\ store' = o /\ fresh' = FALSE /\ UNCHANGED <<view, queued, timer>>
        /\ w' = [w EXCEPT !.current = FALSE]
    BY <1>1 DEF Changed, queueVars
  <1>5. /\ w' \in Working /\ ~w'.current /\ w'.pc = w.pc /\ w'.i = w.i /\ w'.obj = w.obj
    BY <1>4 DEF ChaosInv, Types, Working
  <1>6. Types'
    BY <1>2, <1>3, <1>4, <1>5 DEF ChaosInv, Types, TypeOK
  <1> QED BY <1>2, <1>4, <1>5, <1>6 DEF ChaosInv, CacheOK, Decided, Recorded

\* Lemma: what a tick does.
LEMMA TickFacts ==
    ASSUME ChaosInv, Tasks # <<>>, Tick
    PROVE  /\ store' = Aged(store) /\ view' = Aged(view) /\ store \in Chaos /\ view \in Chaos
           /\ w' \in Working /\ w'.obj = Aged(w.obj) /\ w.obj \in Chaos
           /\ w'.pc = w.pc /\ w'.i = w.i /\ w'.current = w.current /\ w'.same = w.same
           /\ w.pc = "write" => w.obj.states[w.i].age < MaxWrite
           /\ prompt => w.pc = "idle" /\ ~queued /\ fresh /\ timer # 0
           /\ timer' \in {NoTimer} \cup 0 .. Max({MaxAge, MaxBackoff})
           /\ timer' = IF timer > 0 THEN timer - 1 ELSE timer
           /\ UNCHANGED <<fresh, queued, request, usable, calm, unseen, applied, prompt>>
           /\ phase' \in 0 .. Second - 1
  <1>1. store \in Chaos /\ view \in Chaos /\ w \in Working /\ w.obj \in Chaos
    BY DEF ChaosInv, Types, TypeOK
  <1>2. w' = [w EXCEPT !.obj = Aged(w.obj)] /\ Aged(w.obj) \in Chaos
    BY <1>1, AgedFacts DEF Tick
  <1>3. /\ w' \in Working /\ w'.obj = Aged(w.obj)
        /\ w'.pc = w.pc /\ w'.i = w.i /\ w'.current = w.current /\ w'.same = w.same
    BY <1>1, <1>2 DEF Working
  <1>4. timer' \in {NoTimer} \cup 0 .. Max({MaxAge, MaxBackoff})
    <2>1. timer \in {NoTimer} \cup 0 .. Max({MaxAge, MaxBackoff})
      BY DEF ChaosInv, Types, TypeOK
    <2>2. timer' = IF timer > 0 THEN timer - 1 ELSE timer
      BY DEF Tick
    <2>3. Max({MaxAge, MaxBackoff}) \in Nat
      BY TimerBound
    <2> QED BY <2>1, <2>2, <2>3 DEF NoTimer
  <1>5. phase' \in 0 .. Second - 1
    BY TaskFacts DEF ChaosInv, Types, TypeOK, Tick
  <1> QED BY <1>1, <1>3, <1>4, <1>5 DEF Tick, historyVars

\* Lemma: time passes.
LEMMA ChaosTick ==
    ASSUME ChaosInv, Tasks # <<>>, Tick
    PROVE  ChaosInv'
  <1> DEFINE Ages(o) ==
          /\ Aged(o) \in Chaos /\ Aged(o).live = o.live
          /\ DOMAIN Aged(o).states = DOMAIN o.states
          /\ \A i \in DOMAIN o.states :
                /\ o.states[i].age \in 0 .. MaxAge /\ Aged(o).states[i].node = o.states[i].node
                /\ Aged(o).states[i].age =
                      IF o.states[i].age < MaxAge THEN o.states[i].age + 1 ELSE MaxAge
  <1>1. Ages(store) /\ Ages(view) /\ Ages(w.obj)
    BY TickFacts, AgedFacts
  <1>2. Types'
    BY <1>1, TickFacts DEF ChaosInv, Types, TypeOK
  <1>3. CacheOK'
    BY TickFacts DEF ChaosInv, CacheOK
  <1>4. /\ MaxAge \in Nat /\ Second \in Nat /\ Second > 0 /\ MaxWrite \in Nat
        /\ \A i \in Task : /\ Tasks[i].period \in Nat
                           /\ Tasks[i].period + Second + MaxWrite <= MaxAge
    BY TaskFacts, MaxAgeIsLate
  <1>5. ASSUME w.pc = "write"
        PROVE  /\ w.i \in DOMAIN w.obj.states /\ w.obj.states[w.i].age \in Nat
               /\ w'.obj.states[w.i].age <= MaxWrite
               /\ w'.obj.states[w.i].age = w.obj.states[w.i].age + 1
    <2>1. w.i \in DOMAIN w.obj.states /\ w.obj.states[w.i].age < MaxWrite /\ MaxWrite <= MaxAge
      <3>1. 1 \in Task
        BY TaskFacts, ChaosAssumption
      <3>2. MaxWrite <= MaxAge
        BY <1>4, <3>1
      <3>3. w.i \in DOMAIN w.obj.states
        BY <1>5 DEF ChaosInv, Types, TypeOK
      <3>4. w.obj.states[w.i].age < MaxWrite
        BY <1>5, TickFacts
      <3> QED BY <3>2, <3>3, <3>4
    <2> QED BY <1>1, <1>4, <2>1, TickFacts, SMTT(20)
  <1>6. Recorded'
    BY <1>5, TickFacts DEF Recorded
  <1>7. Decided'
    <2> SUFFICES ASSUME w.pc # "idle", w.current PROVE Decided'
      BY TickFacts DEF Decided
    <2>1. /\ fresh /\ store.live /\ w.i \in Task
          /\ DOMAIN w.obj.states = DOMAIN store.states \cup {w.i}
          /\ \A j \in DOMAIN store.states \ {w.i} : w.obj.states[j] = store.states[j]
          /\ w.pc = "kill" => \/ w.i \in DOMAIN store.states /\ w.obj = store
                              \/ w.i \notin DOMAIN store.states /\ w.obj.states[w.i].node = None
          /\ w.pc = "write" /\ w.same => w.obj = store
      BY DEF ChaosInv, Decided
    <2>2. \A j \in DOMAIN store.states \ {w.i} : Aged(w.obj).states[j] = Aged(store).states[j]
      BY <2>1, ChaosShape, TickFacts DEF Aged
    <2>3. ASSUME w.i \in DOMAIN store.states
          PROVE  /\ w.i \in Periodic
                 /\ w.pc = "kill" => Aged(store).states[w.i].age >= Tasks[w.i].period
                 /\ w.pc = "write" => Aged(store).states[w.i].age - Aged(w.obj).states[w.i].age
                                         > Tasks[w.i].period - Second
      <3> DEFINE a == store.states[w.i].age
                 b == w.obj.states[w.i].age
      <3>1. /\ w.i \in Periodic
            /\ w.pc = "kill" => a >= Tasks[w.i].period
            /\ w.pc = "write" => a - b > Tasks[w.i].period - Second
        BY <2>3 DEF ChaosInv, Decided
      <3>2. /\ a \in 0 .. MaxAge
            /\ Aged(store).states[w.i].age = IF a < MaxAge THEN a + 1 ELSE MaxAge
        BY <1>1, <2>3
      <3>3. w.pc = "write" => /\ b \in Nat /\ Aged(w.obj).states[w.i].age = b + 1
                              /\ b + 1 <= MaxWrite
        BY <1>5, TickFacts
      <3>4. Tasks[w.i].period \in Nat /\ Tasks[w.i].period + Second + MaxWrite <= MaxAge
        BY <1>4, <2>1
      <3> HIDE DEF a, b
      <3>5. CASE w.pc = "kill"
        BY <1>4, <3>1, <3>2, <3>4, <3>5
      <3>6. CASE w.pc = "write"
        <4> DEFINE P == Tasks[w.i].period
        <4> HIDE DEF P
        <4>1. CASE a < MaxAge
          <5>1. Aged(store).states[w.i].age = a + 1 /\ Aged(w.obj).states[w.i].age = b + 1
            BY <3>2, <3>3, <3>6, <4>1
          <5>2. a \in Int /\ b \in Int /\ a - b > P - Second /\ P \in Int /\ Second \in Int
            BY <1>4, <3>1, <3>2, <3>3, <3>4, <3>6 DEF P
          <5>3. (a + 1) - (b + 1) > P - Second
            BY <5>2
          <5> QED BY <3>1, <3>6, <5>1, <5>3 DEF P
        <4>2. CASE ~(a < MaxAge)
          <5>1. Aged(store).states[w.i].age = MaxAge /\ Aged(w.obj).states[w.i].age = b + 1
            BY <3>2, <3>3, <3>6, <4>2
          <5>2. /\ b \in Nat /\ b + 1 <= MaxWrite /\ P \in Nat /\ P + Second + MaxWrite <= MaxAge
                /\ Second > 0
            BY <1>4, <3>3, <3>4, <3>6 DEF P
          <5>3. MaxAge - (b + 1) > P - Second
            BY <1>4, <5>2
          <5> QED BY <3>1, <3>6, <5>1, <5>3 DEF P
        <4> QED BY <4>1, <4>2
      <3> QED BY <3>1, <3>5, <3>6
    <2>4. Aged(w.obj).states[w.i].node = w.obj.states[w.i].node
      BY <1>1, <2>1
    <2> QED
      <3>1. /\ w'.pc = w.pc /\ w'.i = w.i /\ w'.same = w.same /\ fresh' = fresh
            /\ store' = Aged(store) /\ w'.obj = Aged(w.obj)
        BY TickFacts
      <3>2. /\ fresh' /\ store'.live /\ w'.i \in Task
            /\ DOMAIN w'.obj.states = DOMAIN store'.states \cup {w'.i}
        BY <1>1, <2>1, <3>1
      <3>3. \A j \in DOMAIN store'.states \ {w'.i} : w'.obj.states[j] = store'.states[j]
        BY <1>1, <2>2, <3>1
      <3>4. w'.i \in DOMAIN store'.states =>
                /\ w'.i \in Periodic
                /\ w'.pc = "kill" => store'.states[w'.i].age >= Tasks[w'.i].period
                /\ w'.pc = "write" => store'.states[w'.i].age - w'.obj.states[w'.i].age
                                          > Tasks[w'.i].period - Second
        BY <1>1, <2>3, <3>1
      <3>5. w'.pc = "kill" => \/ w'.i \in DOMAIN store'.states /\ w'.obj = store'
                              \/ /\ w'.i \notin DOMAIN store'.states
                                 /\ w'.obj.states[w'.i].node = None
        BY <1>1, <2>1, <2>4, <3>1
      <3>6. w'.pc = "write" /\ w'.same => w'.obj = store'
        BY <2>1, <3>1
      <3> QED BY <3>2, <3>3, <3>4, <3>5, <3>6, Zenon DEF Decided
  <1> QED BY <1>2, <1>3, <1>6, <1>7 DEF ChaosInv

\* Lemma: every step keeps what is known.
LEMMA ChaosNext ==
    ASSUME ChaosInv, Tasks # <<>>, [Next]_vars
    PROVE  ChaosInv'
  <1>1. CASE UNCHANGED vars
    BY <1>1
    DEF vars, objectVars, queueVars, envVars, historyVars, ChaosInv, Types, TypeOK, CacheOK,
        Decided, Recorded
  <1>2. CASE Next
    BY <1>2, ChaosQuiet, ChaosBegin, ChaosDue, ChaosKill, ChaosUpdate, ChaosCatchesUp,
       ChaosChanged, ChaosTick
    DEF Next, Reconcile
  <1> QED BY <1>1, <1>2

\* Nothing but the request and the nodes.
NothingThere ==
    /\ store = Absent /\ view = Absent /\ w = Idle /\ timer = NoTimer
    /\ fresh \in BOOLEAN /\ queued \in BOOLEAN
    /\ request \in {"absent", "pending", "ready"} /\ usable \subseteq Node
    /\ phase \in 0 .. Second - 1

\* Lemma: without tasks there is never an object (ValidateCreate).
LEMMA NoTasks ==
    ASSUME Tasks = <<>>
    PROVE  Spec => []NothingThere
  <1>1. Init => NothingThere
    <2>1. 0 \in 0 .. Second - 1
      BY TaskFacts
    <2> QED BY <2>1 DEF Init, NothingThere
  <1>2. NothingThere /\ [Next]_vars => NothingThere'
    <2> SUFFICES ASSUME NothingThere, [Next]_vars PROVE NothingThere'
      OBVIOUS
    <2> USE DEF NothingThere, objectVars, queueVars, envVars, historyVars
    <2>1. w.pc = "idle" /\ ~store.live /\ ~view.live
      BY DEF Idle, Worker, Absent
    <2>2. CASE UNCHANGED vars
      BY <2>2 DEF vars
    <2>3. CASE Tick
      <3>1. Aged(Absent) = Absent
        <4>1. <<>> = [i \in DOMAIN <<>> |-> Older(<<>>[i])]
          OBVIOUS
        <4> QED BY <4>1 DEF Aged, Absent
      <3>2. w' = Idle
        BY <2>3, <3>1 DEF Tick, Idle, Worker
      <3>3. phase' \in 0 .. Second - 1
        BY <2>3, TaskFacts DEF Tick
      <3> QED BY <2>3, <3>1, <3>2, <3>3 DEF Tick, NoTimer
    <2>4. CASE Reconcile
      BY <2>1, <2>4
      DEF Reconcile, LookNotFound, LookNotReady, LookBegin, LookDue, LookSleep, Taken, Kill,
          KillFails, UpdateStatus, UpdateRefused
    <2>5. CASE Watch \/ Fire \/ Crash
      <3>1. Crash => queued' \in BOOLEAN
        BY DEF Crash, Absent
      <3> QED BY <2>5, <3>1 DEF Watch, Fire, Crash
    <2>6. CASE CreateByUser \/ EditByUser \/ DeleteByUser
      BY <2>1, <2>6 DEF CreateByUser, EditByUser, DeleteByUser, ValidateCreate
    <2>7. CASE RequestGrows \/ RequestGoes \/ \E n \in Node : NodeChanges(n)
      BY <2>7 DEF RequestGrows, RequestGoes, NodeChanges
    <2> QED BY <2>2, <2>3, <2>4, <2>5, <2>6, <2>7 DEF Next
  <1> QED BY <1>1, <1>2, PTL DEF Spec

\* ProcChaos keeps its types, and a worker whose copy is current changes the
\* state of one task only, which has none yet or is due (LookBegin, LookDue).
THEOREM ChaosHolds ==
    ASSUME Tasks # <<>>
    PROVE  Spec => []ChaosInv
  <1>1. Init => ChaosInv
    BY ChaosInit
  <1>2. ChaosInv /\ [Next]_vars => ChaosInv'
    BY ChaosNext
  <1> QED BY <1>1, <1>2, PTL DEF Spec

\* Every variable of ProcChaos has its type, also the copies of the object that
\* the cache and the worker hold (procchaos_controller.go, Reconcile).
THEOREM ChaosTypes == Spec => []TypeOK
  <1>1. CASE Tasks = <<>>
    <2>1. NothingThere => TypeOK
      <3>1. Absent \in Chaos
        BY EmptyIsChaos DEF Absent
      <3> QED BY <3>1 DEF NothingThere, TypeOK, Idle, Worker
    <2> QED BY <1>1, <2>1, NoTasks, PTL
  <1>2. CASE Tasks # <<>>
    <2>1. ChaosInv => TypeOK
      BY DEF ChaosInv, Types
    <2> QED BY <1>2, <2>1, ChaosHolds, PTL
  <1> QED BY <1>1, <1>2

----------------------------------------------------------------------------
(* The records of a task.                                                   *)

\* What RecordsApart says of one step.
Apart ==
    \A i \in DOMAIN store.states \cap DOMAIN store'.states :
        LET old == store.states[i]
            new == store'.states[i]
        IN store.live /\ store'.live /\ new.age < old.age =>
              i \in Periodic /\ old.age - new.age > Tasks[i].period - Second

\* Lemma: only the write of a status makes a record younger, and that of a task
\* that was due in the very version that it replaces.
LEMMA StepApart ==
    ASSUME ChaosInv, Tasks # <<>>, [Next]_vars
    PROVE  Apart
  <1>0. store \in Chaos /\ \A i \in DOMAIN store.states : store.states[i].age \in Nat
    <2>1. store \in Chaos
      BY DEF ChaosInv, Types, TypeOK
    <2>2. \A i \in DOMAIN store.states : store.states[i].age \in 0 .. MaxAge
      BY <2>1, AgedFacts
    <2> QED BY <2>1, <2>2, MaxAgeIsLate
  <1>1. CASE store' = store
    BY <1>0, <1>1 DEF Apart
  <1>2. CASE ~store.live \/ ~store'.live
    BY <1>2 DEF Apart
  <1>3. CASE UpdateStatus
    <2>1. store' = w.obj /\ w.pc = "write" /\ w.current
      BY <1>3 DEF UpdateStatus
    <2> SUFFICES ASSUME NEW i \in DOMAIN store.states, w.obj.states[i].age < store.states[i].age
                 PROVE  /\ i \in Periodic
                        /\ store.states[i].age - w.obj.states[i].age > Tasks[i].period - Second
      BY <2>1 DEF Apart
    <2>2. i = w.i
      BY <1>0, <2>1 DEF ChaosInv, Decided
    <2> QED BY <2>1, <2>2 DEF ChaosInv, Decided
  <1>4. CASE Tick
    <2>1. store' = Aged(store)
      BY <1>4 DEF Tick
    <2>2. /\ MaxAge \in Nat
          /\ \A i \in DOMAIN store.states :
                /\ store.states[i].age \in 0 .. MaxAge
                /\ Aged(store).states[i].age =
                      IF store.states[i].age < MaxAge THEN store.states[i].age + 1 ELSE MaxAge
      BY <1>0, AgedFacts, MaxAgeIsLate
    <2>3. \A i \in DOMAIN store.states : ~(Aged(store).states[i].age < store.states[i].age)
      BY <2>2
    <2> QED BY <2>1, <2>3 DEF Apart
  <1>5. CASE CreateByUser \/ DeleteByUser
    <2>1. ~store.live \/ ~store'.live
      BY <1>5 DEF CreateByUser, DeleteByUser, Changed, Absent
    <2> QED BY <1>2, <2>1
  <1>6. Next \/ store' = store
    BY DEF vars, objectVars
  <1>7. Next => store' = store \/ UpdateStatus \/ Tick \/ CreateByUser \/ DeleteByUser
    <2>1. Reconcile => store' = store \/ UpdateStatus
      BY DEF Reconcile, LookNotFound, LookNotReady, LookBegin, LookDue, LookSleep, Kill,
             KillFails, UpdateRefused, objectVars
    <2>2. Watch \/ Fire \/ EditByUser \/ RequestGrows \/ RequestGoes \/ Crash => store' = store
      BY DEF Watch, Fire, EditByUser, Changed, RequestGrows, RequestGoes, Crash, objectVars
    <2>3. \A n \in Node : NodeChanges(n) => store' = store
      BY DEF NodeChanges, objectVars
    <2> QED BY <2>1, <2>2, <2>3 DEF Next
  <1> QED BY <1>1, <1>3, <1>4, <1>5, <1>6, <1>7

\* Two records of the application of a task lie its period apart, but for the
\* fraction of a second that is dropped, and a task without a period has one
\* record (procchaos_controller.go: a status decided on an old version is refused).
THEOREM RecordsLieApart == Spec => RecordsApart
  <1>1. CASE Tasks = <<>>
    <2>1. NothingThere /\ [Next]_vars => [Apart]_store
      BY DEF NothingThere, Absent, Apart
    <2> QED BY <1>1, <2>1, NoTasks, PTL DEF Spec, RecordsApart, Apart
  <1>2. CASE Tasks # <<>>
    <2>1. ChaosInv /\ [Next]_vars => Apart
      BY <1>2, StepApart
    <2> QED BY <1>2, <2>1, ChaosHolds, PTL DEF Spec, RecordsApart, Apart
  <1> QED BY <1>1, <1>2

----------------------------------------------------------------------------
(* Tasks in their periods.                                                  *)

\* Every period is a second at least.
LongPeriods == \A i \in Periodic : Tasks[i].period >= Second

\* The cache never shows a record younger than the one that there is.
Behind ==
    \A i \in DOMAIN store.states \cap DOMAIN view.states :
        store.states[i].age <= view.states[i].age

InTime ==
    prompt /\ calm /\ store.live =>
        \A i \in Periodic \cap DOMAIN store.states : store.states[i].age <= Tasks[i].period

\* When there is nothing to be done the timer ends before the next task is due.
Resting ==
    prompt /\ calm /\ store.live /\ w.pc = "idle" /\ ~queued /\ fresh =>
        \A i \in Periodic \cap DOMAIN store.states :
            timer \in 0 .. Tasks[i].period - store.states[i].age

TimeInv == Behind /\ InTime /\ Resting

\* Lemma: the ages are numbers.
LEMMA AgesAreNumbers ==
    ASSUME ChaosInv, Tasks # <<>>
    PROVE  /\ store \in Chaos /\ view \in Chaos
           /\ \A i \in DOMAIN store.states : i \in Task /\ store.states[i].age \in Nat
           /\ \A i \in DOMAIN view.states : i \in Task /\ view.states[i].age \in Nat
           /\ \A i \in Task : Tasks[i].period \in Nat
           /\ \A i \in Periodic : i \in Task
           /\ Second \in Nat /\ Second > 0
  <1>1. store \in Chaos /\ view \in Chaos
    BY DEF ChaosInv, Types, TypeOK
  <1>2. MaxAge \in Nat
    BY MaxAgeIsLate
  <1>3. ASSUME NEW o \in Chaos
        PROVE  \A i \in DOMAIN o.states : i \in Task /\ o.states[i].age \in Nat
    <2>1. \A i \in DOMAIN o.states : o.states[i].age \in 0 .. MaxAge
      BY AgedFacts
    <2> QED BY <1>2, <2>1, ChaosShape
  <1> QED BY <1>1, <1>3, TaskFacts DEF Periodic

\* Lemma: a step that leaves the records alone.
LEMMA TimeStill ==
    ASSUME TimeInv, UNCHANGED <<store, view, prompt>>,
           \/ ~calm'
           \/ calm' = calm /\ (w'.pc # "idle" \/ queued' = TRUE)
           \/ UNCHANGED <<calm, w, queued, fresh, timer>>
    PROVE  TimeInv'
  BY DEF TimeInv, Behind, InTime, Resting

\* Lemma: the worker goes to sleep.
LEMMA TimeSleep ==
    ASSUME ChaosInv, TimeInv, Tasks # <<>>, LookSleep
    PROVE  TimeInv'
  <1>1. /\ DOMAIN view.states = Task
        /\ \A i \in Periodic : /\ timer' \in 0 .. Tasks[i].period - view.states[i].age
                               /\ view.states[i].age < Tasks[i].period
    BY SleepFacts DEF ChaosInv, Types
  <1>2. UNCHANGED <<store, view, fresh, prompt>>
    BY DEF LookSleep, objectVars
  <1>3. Behind'
    BY <1>2 DEF TimeInv, Behind
  <1>4. InTime'
    <2>1. ASSUME NEW i \in Periodic \cap DOMAIN store.states
          PROVE  store.states[i].age <= Tasks[i].period
      <3>1. store.states[i].age <= view.states[i].age /\ view.states[i].age < Tasks[i].period
        BY <1>1, <2>1, AgesAreNumbers DEF TimeInv, Behind
      <3>2. /\ store.states[i].age \in Nat /\ view.states[i].age \in Nat
            /\ Tasks[i].period \in Nat
        BY <1>1, <2>1, AgesAreNumbers
      <3> QED BY <3>1, <3>2
    <2> QED BY <1>2, <2>1 DEF InTime
  <1>5. Resting'
    <2>1. fresh => store = view
      BY DEF ChaosInv, CacheOK
    <2> QED BY <1>1, <1>2, <2>1 DEF Resting
  <1> QED BY <1>3, <1>4, <1>5 DEF TimeInv

\* Lemma: the write of a status.
LEMMA TimeUpdate ==
    ASSUME ChaosInv, TimeInv, Tasks # <<>>, LongPeriods, UpdateStatus
    PROVE  TimeInv'
  <1>1. /\ store' = w.obj /\ fresh' = (fresh /\ w.same) /\ w.pc = "write" /\ w.current
        /\ UNCHANGED <<view, calm, prompt>>
    BY DEF UpdateStatus, historyVars
  <1>2. /\ fresh /\ store.live /\ w.i \in Task /\ store = view
        /\ DOMAIN w.obj.states = DOMAIN store.states \cup {w.i}
        /\ \A j \in DOMAIN store.states \ {w.i} : w.obj.states[j] = store.states[j]
        /\ w.i \in DOMAIN store.states =>
              /\ w.i \in Periodic
              /\ store.states[w.i].age - w.obj.states[w.i].age > Tasks[w.i].period - Second
        /\ w.same => w.obj = store
    BY <1>1 DEF ChaosInv, Decided, CacheOK
  <1>3. w.obj.states[w.i].age \in Nat
    <2>1. w.obj \in Chaos /\ w.i \in DOMAIN w.obj.states
      BY <1>2 DEF ChaosInv, Types, TypeOK
    <2>2. w.obj.states[w.i].age \in 0 .. MaxAge
      BY <2>1, AgedFacts
    <2> QED BY <2>2, MaxAgeIsLate
  <1>4. w.i \in DOMAIN store.states => w.obj.states[w.i].age < store.states[w.i].age
    <2> SUFFICES ASSUME w.i \in DOMAIN store.states
                 PROVE  w.obj.states[w.i].age < store.states[w.i].age
      OBVIOUS
    <2>1. Tasks[w.i].period >= Second /\ Tasks[w.i].period \in Nat /\ Second \in Nat
      BY <1>2, AgesAreNumbers DEF LongPeriods
    <2>2. store.states[w.i].age \in Nat
      BY AgesAreNumbers
    <2> QED BY <1>2, <1>3, <2>1, <2>2
  <1>5. ~w.same
    BY <1>2, <1>3, <1>4
  <1>6. Behind'
    <2>1. ASSUME NEW i \in DOMAIN w.obj.states \cap DOMAIN view.states
          PROVE  w.obj.states[i].age <= view.states[i].age
      <3>1. store.states[i].age \in Nat /\ view.states[i].age = store.states[i].age
        BY <1>2, AgesAreNumbers
      <3> QED BY <1>2, <1>3, <1>4, <3>1
    <2> QED BY <1>1, <2>1 DEF Behind
  <1>7. InTime'
    <2> SUFFICES ASSUME prompt, calm, NEW i \in Periodic \cap DOMAIN w.obj.states
                 PROVE  w.obj.states[i].age <= Tasks[i].period
      BY <1>1 DEF InTime
    <2>1. CASE i = w.i
      <3>1. w.obj.states[i].age < Second
        BY <1>1, <2>1 DEF ChaosInv, Recorded
      <3>2. Second <= Tasks[i].period /\ Tasks[i].period \in Nat /\ Second \in Nat
        BY AgesAreNumbers DEF LongPeriods
      <3> QED BY <1>3, <2>1, <3>1, <3>2
    <2>2. CASE i # w.i
      BY <1>2, <2>2 DEF TimeInv, InTime
    <2> QED BY <2>1, <2>2
  <1>8. Resting'
    BY <1>1, <1>5 DEF Resting
  <1> QED BY <1>6, <1>7, <1>8 DEF TimeInv

\* Lemma: time passes, and a worker that is prompt has nothing to do.
LEMMA TimeTick ==
    ASSUME ChaosInv, TimeInv, Tasks # <<>>, Tick
    PROVE  TimeInv'
  <1> DEFINE Ages(o) ==
          /\ Aged(o).live = o.live /\ DOMAIN Aged(o).states = DOMAIN o.states
          /\ \A i \in DOMAIN o.states :
                Aged(o).states[i].age =
                    IF o.states[i].age < MaxAge THEN o.states[i].age + 1 ELSE MaxAge
  <1>1. /\ Ages(store) /\ Ages(view) /\ store' = Aged(store) /\ view' = Aged(view)
        /\ \A i \in DOMAIN store.states : store.states[i].age \in 0 .. MaxAge
        /\ \A i \in DOMAIN view.states : view.states[i].age \in 0 .. MaxAge
        /\ MaxAge \in Nat
    BY TickFacts, AgedFacts, MaxAgeIsLate
  <1> HIDE DEF Ages
  <1>2. Behind'
    <2>1. ASSUME NEW i \in DOMAIN store.states \cap DOMAIN view.states
          PROVE  Aged(store).states[i].age <= Aged(view).states[i].age
      <3>1. store.states[i].age <= view.states[i].age
        BY DEF TimeInv, Behind
      <3>2. store.states[i].age \in 0 .. MaxAge /\ view.states[i].age \in 0 .. MaxAge
        BY <1>1
      <3> QED BY <1>1, <3>1, <3>2 DEF Ages
    <2> QED BY <1>1, <2>1 DEF Behind, Ages
  <1>3. ASSUME prompt, calm, store.live, NEW i \in Periodic \cap DOMAIN store.states
        PROVE  /\ Aged(store).states[i].age <= Tasks[i].period
               /\ timer' \in 0 .. Tasks[i].period - Aged(store).states[i].age
    <2>1. w.pc = "idle" /\ ~queued /\ fresh /\ timer # 0
      BY <1>3, TickFacts
    <2>2. timer \in 0 .. Tasks[i].period - store.states[i].age
      BY <1>3, <2>1 DEF TimeInv, Resting
    <2>3. timer' = IF timer > 0 THEN timer - 1 ELSE timer
      BY TickFacts
    <2>4. /\ Tasks[i].period \in Nat /\ store.states[i].age \in 0 .. MaxAge
          /\ Aged(store).states[i].age =
                IF store.states[i].age < MaxAge THEN store.states[i].age + 1 ELSE MaxAge
      BY <1>1, AgesAreNumbers DEF Ages
    <2>5. timer \in Nat /\ timer > 0 /\ timer <= Tasks[i].period - store.states[i].age
      BY <2>1, <2>2, <2>4
    <2>6. Aged(store).states[i].age \in Nat /\ Aged(store).states[i].age <= store.states[i].age + 1
      BY <1>1, <2>4
    <2>7. timer' = timer - 1
      BY <2>3, <2>5
    <2> QED BY <2>4, <2>5, <2>6, <2>7
  <1>4. InTime' /\ Resting'
    BY <1>1, <1>3, TickFacts DEF InTime, Resting, Ages
  <1> QED BY <1>2, <1>4 DEF TimeInv

\* Lemma: a copy without records.
LEMMA TimeChanged ==
    ASSUME TimeInv, UNCHANGED <<view, prompt, calm>>, fresh' = FALSE,
           store' = store \/ store'.states = <<>>
    PROVE  TimeInv'
  <1>1. CASE store' = store
    BY <1>1 DEF TimeInv, Behind, InTime, Resting
  <1>2. CASE store'.states = <<>>
    <2>1. DOMAIN store'.states = {}
      BY <1>2
    <2> QED BY <2>1 DEF TimeInv, Behind, InTime, Resting
  <1> QED BY <1>1, <1>2

\* Lemma: the cache catches up.
LEMMA TimeCatchesUp ==
    ASSUME ChaosInv, TimeInv, Tasks # <<>>, UNCHANGED <<store, prompt>>, view' = store,
           ~calm' \/ (calm' = calm /\ queued' = TRUE)
    PROVE  TimeInv'
  <1>1. \A i \in DOMAIN store.states : store.states[i].age <= store.states[i].age
    BY AgesAreNumbers
  <1> QED BY <1>1 DEF TimeInv, Behind, InTime, Resting

\* Lemma: the times hold at first.
LEMMA TimeInit == Init => TimeInv
  <1>1. DOMAIN Absent.states = {} /\ ~Absent.live
    BY DEF Absent
  <1> QED BY <1>1 DEF Init, TimeInv, Behind, InTime, Resting

\* Lemma: every step keeps the times.
LEMMA TimeNext ==
    ASSUME ChaosInv, TimeInv, Tasks # <<>>, LongPeriods, [Next]_vars
    PROVE  TimeInv'
  <1>1. CASE LookNotFound \/ LookNotReady
    BY <1>1, TimeStill DEF LookNotFound, LookNotReady, objectVars
  <1>2. CASE LookBegin \/ LookDue
    <2>1. w'.pc # "idle" /\ UNCHANGED <<store, view, prompt, calm>>
      BY <1>2 DEF LookBegin, LookDue, Worker, objectVars
    <2> QED BY <2>1, TimeStill
  <1>3. CASE LookSleep
    BY <1>3, TimeSleep
  <1>4. ASSUME NEW n \in Node, Kill(n)
        PROVE  TimeInv'
    <2>1. w'.pc # "idle" /\ UNCHANGED <<store, view, prompt, calm>>
      <3>1. w \in Working /\ w.pc = "kill"
        BY <1>4 DEF Kill, ChaosInv, Types
      <3> QED BY <1>4, <3>1, KilledFacts DEF Kill, objectVars
    <2> QED BY <2>1, TimeStill
  <1>5. CASE UpdateRefused \/ \E n \in Node : KillFails(n)
    BY <1>5, TimeStill DEF UpdateRefused, KillFails, Fail, objectVars
  <1>6. CASE UpdateStatus
    BY <1>6, TimeUpdate
  <1>7. CASE Watch \/ Crash
    BY <1>7, TimeCatchesUp DEF Watch, Crash, historyVars
  <1>8. CASE Fire
    BY <1>8, TimeStill DEF Fire, objectVars, historyVars
  <1>9. CASE Tick
    BY <1>9, TimeTick
  <1>10. CASE CreateByUser \/ EditByUser \/ DeleteByUser
    <2>1. Absent.states = <<>> /\ [Absent EXCEPT !.live = TRUE].states = <<>>
      BY DEF Absent
    <2> QED BY <1>10, <2>1, TimeChanged
            DEF CreateByUser, EditByUser, DeleteByUser, Changed, historyVars
  <1>11. CASE RequestGrows \/ RequestGoes \/ \E n \in Node : NodeChanges(n)
    BY <1>11, TimeStill
       DEF RequestGrows, RequestGoes, NodeChanges, objectVars, queueVars, historyVars
  <1>12. CASE UNCHANGED vars
    BY <1>12, TimeStill DEF vars, objectVars, queueVars, historyVars
  <1> QED BY <1>1, <1>2, <1>3, <1>4, <1>5, <1>6, <1>7, <1>8, <1>9, <1>10, <1>11, <1>12
          DEF Next, Reconcile

\* Every task with a period is applied when its time is up, as long as no call
\* fails and the worker is quicker than the clock (procchaos_controller.go: the
\* worker sleeps until the next task is due).  The periods must not be shorter
\* than the second that the record of a time is cut to.
THEOREM TasksAreInPeriod ==
    ASSUME LongPeriods
    PROVE  Spec => []InPeriod
  <1>1. CASE Tasks = <<>>
    <2>1. NothingThere => InPeriod
      BY DEF NothingThere, Absent, InPeriod
    <2> QED BY <1>1, <2>1, NoTasks, PTL
  <1>2. CASE Tasks # <<>>
    <2>1. ChaosInv /\ TimeInv /\ [Next]_vars => TimeInv'
      BY <1>2, TimeNext
    <2>2. ChaosInv /\ TimeInv => InPeriod
      <3> SUFFICES ASSUME ChaosInv, TimeInv, prompt, calm, store.live,
                          NEW i \in Periodic \cap DOMAIN store.states
                   PROVE  store.states[i].age <= Max({Tasks[i].period, Second})
        BY DEF InPeriod
      <3>1. Tasks[i].period \in Nat /\ Second \in Nat /\ store.states[i].age \in Nat
        BY <1>2, AgesAreNumbers
      <3>2. Max({Tasks[i].period, Second}) \in Nat /\ Max({Tasks[i].period, Second}) >= Tasks[i].period
        BY <3>1, Larger
      <3>3. store.states[i].age <= Tasks[i].period
        BY DEF TimeInv, InTime
      <3> QED BY <3>1, <3>2, <3>3
    <2> QED BY <1>2, <2>1, <2>2, TimeInit, ChaosHolds, PTL DEF Spec
  <1> QED BY <1>1, <1>2

=============================================================================
