---------------------------- MODULE ReportProofs ----------------------------
(***************************************************************************)
(* Proofs about Report, for any set of items and texts and any number of   *)
(* reports, status writes and network failures.                            *)
(***************************************************************************)
EXTENDS Report, TLAPS

\* What the version check of the API server gives: a copy of the status is not
\* newer than the status, and a copy of the same version is the status itself.
CopyOK(c, s) == c.ver <= s.ver /\ (c.ver = s.ver => c = s)

\* Every copy of the status that somebody may write back, the ones of calls that
\* have returned included.
CopiesOK == CopyOK(ctl, store) /\ \A i \in Item : CopyOK(client[i].obj, store)

\* The inductive invariant: ReportedIsKept alone is not inductive, since it says
\* nothing of the copies that overwrite the results of the other items.
IInv == TypeOK /\ CopiesOK /\ ReportedIsKept

\* A status with a new version leaves every copy outdated.
LEMMA NewVersion ==
    ASSUME NEW c \in Status, NEW s \in Status, NEW t \in Status,
           CopyOK(c, s), t.ver = s.ver + 1
    PROVE  CopyOK(c, t)
BY DEF CopyOK, Status

\* What a client writes, when it is not refused (Written of
\* SetTestWorkloadResult): either a new version or the status as it is, with the
\* result of the item and with the results of the other items unchanged.
LEMMA WrittenIsNext ==
    ASSUME TypeOK, CopiesOK, NEW i \in Item, client[i].pc = "update", Current(i)
    PROVE  /\ Written(i) \in Status
           /\ Written(i).results[i] = client[i].text
           /\ \A j \in Item \ {i} : Written(i).results[j] = store.results[j]
           /\ Written(i) = store \/ Written(i).ver = store.ver + 1
<1> DEFINE o == client[i].obj
<1>1. o = store /\ o \in Status /\ client[i].text \in Text \cup {NoText}
  BY DEF TypeOK, CopiesOK, CopyOK, Current, Client
<1>2. CASE o.results[i] = client[i].text
  <2>1. Written(i) = [ver |-> o.ver, results |-> o.results, phase |-> o.phase]
    BY <1>1, <1>2 DEF Written, Status
  <2>2. Written(i) = store
    BY <1>1, <2>1 DEF Status
  <2> QED BY <1>1, <1>2, <2>2
<1>3. CASE o.results[i] # client[i].text
  <2>1. Written(i) = [ver |-> o.ver + 1, phase |-> o.phase,
                      results |-> [o.results EXCEPT ![i] = client[i].text]]
    <3>1. Written(i) = [o EXCEPT !.results[i] = client[i].text, !.ver = @ + 1]
      BY <1>3, Zenon DEF Written
    <3> QED BY <1>1, <3>1 DEF Status
  <2>2. o.results \in [Item -> Text \cup {NoText}] /\ o.ver \in Nat /\ o.phase \in 0 .. MaxWrite
    BY <1>1 DEF Status
  <2>3. [o.results EXCEPT ![i] = client[i].text] \in [Item -> Text \cup {NoText}]
    BY <1>1, <2>2
  <2>4. Written(i) \in Status
    BY <2>1, <2>2, <2>3 DEF Status
  <2> QED BY <1>1, <2>1, <2>2, <2>4
<1> QED BY <1>2, <1>3

\* A write of item i, whatever the call then returns, keeps the copies and the
\* results of the other items.
LEMMA WriteStep ==
    ASSUME IInv, NEW i \in Item, client[i].pc = "update", Current(i),
           store' = Written(i)
    PROVE  /\ store' \in Status
           /\ \A c \in Status : CopyOK(c, store) => CopyOK(c, store')
           /\ \A j \in Item \ {i} : store'.results[j] = store.results[j]
           /\ store'.results[i] = client[i].text
<1>1. TypeOK /\ CopiesOK /\ store \in Status
  BY DEF IInv, TypeOK
<1>2. /\ store' \in Status /\ store'.results[i] = client[i].text
      /\ \A j \in Item \ {i} : store'.results[j] = store.results[j]
      /\ store' = store \/ store'.ver = store.ver + 1
  BY <1>1, WrittenIsNext
<1> QED BY <1>1, <1>2, NewVersion

\* The client's record after an attempt that was not answered with success, and
\* what the call tells its caller (Retry).
LEMMA RetryStep ==
    ASSUME TypeOK, NEW i \in Item, client[i].pc = "update", Retry(i)
    PROVE  /\ client' \in [Item -> Client] /\ told' \in [Item -> Text \cup {NoText}]
           /\ \A j \in Item : client'[j].obj = client[j].obj
           /\ \A j \in Item \ {i} : client'[j] = client[j] /\ told'[j] = told[j]
           /\ client'[i].pc = "idle" => told'[i] = NoText
<1>1. client[i].tries \in 0 .. 2
  BY DEF TypeOK, Client, Attempts
<1>2. CASE client[i].tries < 2
  BY <1>1, <1>2 DEF TypeOK, Retry, Attempts, Client
<1>3. CASE ~(client[i].tries < 2)
  BY <1>3 DEF TypeOK, Retry, Return, Attempts, Client
<1> QED BY <1>2, <1>3

\* The first state: nothing is read, reported or written.
LEMMA InitOK == Init => IInv
BY ReportAssumption
DEF Init, IInv, TypeOK, CopiesOK, CopyOK, ReportedIsKept, NoResults, Status, Client, Attempts

\* Every step keeps the invariant: only Update, UpdateLost and CtlWrite change
\* the status, and each writes a copy of the current version.
LEMMA StepOK == IInv /\ [Next]_vars => IInv'
<1> SUFFICES ASSUME IInv, [Next]_vars PROVE IInv'
  OBVIOUS
<1> USE ReportAssumption
<1>0. TypeOK /\ CopiesOK /\ ReportedIsKept
  BY DEF IInv
<1>1. ASSUME NEW i \in Item, NEW text \in Text, Call(i, text) PROVE IInv'
  BY <1>0, <1>1 DEF Call, IInv, TypeOK, CopiesOK, CopyOK, ReportedIsKept, Client, Attempts
<1>2. ASSUME NEW i \in Item, Get(i) PROVE IInv'
  <2>1. TypeOK'
    <3> DEFINE called == [client[i] EXCEPT !.pc = "update", !.obj = store]
    <3>1. client' = [client EXCEPT ![i] = called] /\ client[i] \in Client /\ store \in Status
      BY <1>0, <1>2 DEF Get, TypeOK
    <3>2. called \in Client
      BY <3>1 DEF Client
    <3> HIDE DEF called
    <3> QED BY <1>0, <1>2, <3>1, <3>2 DEF Get, TypeOK
  <2>2. CopiesOK'
    BY <1>0, <1>2 DEF Get, TypeOK, CopiesOK, CopyOK, Client, Status
  <2>3. ReportedIsKept'
    BY <1>0, <1>2 DEF Get, TypeOK, ReportedIsKept, Client
  <2> QED BY <2>1, <2>2, <2>3 DEF IInv
<1>3. ASSUME NEW i \in Item, Update(i) PROVE IInv'
  <2>1. /\ store' \in Status
        /\ \A c \in Status : CopyOK(c, store) => CopyOK(c, store')
        /\ \A j \in Item \ {i} : store'.results[j] = store.results[j]
        /\ store'.results[i] = client[i].text
    BY <1>3, WriteStep DEF Update
  <2>2. TypeOK'
    BY <1>0, <1>3, <2>1 DEF Update, Return, TypeOK, Client
  <2>3. CopiesOK'
    BY <1>0, <1>3, <2>1 DEF Update, Return, TypeOK, CopiesOK, Client
  <2>4. ReportedIsKept'
    BY <1>0, <1>3, <2>1 DEF Update, Return, TypeOK, ReportedIsKept, Client
  <2> QED BY <2>2, <2>3, <2>4 DEF IInv
<1>4. ASSUME NEW i \in Item, UpdateRefused(i) PROVE IInv'
  <2>1. /\ client' \in [Item -> Client] /\ told' \in [Item -> Text \cup {NoText}]
        /\ \A j \in Item : client'[j].obj = client[j].obj
        /\ \A j \in Item \ {i} : client'[j] = client[j] /\ told'[j] = told[j]
        /\ client'[i].pc = "idle" => told'[i] = NoText
    BY <1>0, <1>4, RetryStep DEF UpdateRefused
  <2>2. TypeOK' /\ CopiesOK'
    BY <1>0, <1>4, <2>1 DEF UpdateRefused, TypeOK, CopiesOK, CopyOK
  <2>3. ReportedIsKept'
    BY <1>0, <1>4, <2>1 DEF UpdateRefused, ReportedIsKept
  <2> QED BY <2>2, <2>3 DEF IInv
<1>5. ASSUME NEW i \in Item, GetFails(i) PROVE IInv'
  <2>1. TypeOK'
    BY <1>0, <1>5 DEF GetFails, Fails, Return, TypeOK, Client
  <2>2. CopiesOK'
    BY <1>0, <1>5 DEF GetFails, Return, TypeOK, CopiesOK, CopyOK, Client
  <2>3. ReportedIsKept'
    BY <1>0, <1>5 DEF GetFails, Return, TypeOK, ReportedIsKept, Client
  <2> QED BY <2>1, <2>2, <2>3 DEF IInv
<1>6. ASSUME NEW i \in Item, UpdateLost(i) PROVE IInv'
  <2>1. /\ client' \in [Item -> Client] /\ told' \in [Item -> Text \cup {NoText}]
        /\ \A j \in Item : client'[j].obj = client[j].obj
        /\ \A j \in Item \ {i} : client'[j] = client[j] /\ told'[j] = told[j]
        /\ client'[i].pc = "idle" => told'[i] = NoText
    BY <1>0, <1>6, RetryStep DEF UpdateLost
  <2>2. /\ store' \in Status
        /\ \A c \in Status : CopyOK(c, store) => CopyOK(c, store')
        /\ \A j \in Item \ {i} : store'.results[j] = store.results[j]
    <3>1. CASE store' = store
      BY <1>0, <3>1 DEF TypeOK
    <3>2. CASE store' # store
      BY <1>6, <3>2, WriteStep DEF UpdateLost
    <3> QED BY <3>1, <3>2
  <2>3. TypeOK'
    BY <1>0, <1>6, <2>1, <2>2 DEF UpdateLost, Fails, TypeOK
  <2>4. CopiesOK'
    BY <1>0, <1>6, <2>1, <2>2 DEF UpdateLost, TypeOK, CopiesOK, Client
  <2>5. ReportedIsKept'
    BY <1>0, <1>6, <2>1, <2>2 DEF UpdateLost, ReportedIsKept
  <2> QED BY <2>3, <2>4, <2>5 DEF IInv
<1>7. ASSUME CtlRead PROVE IInv'
  <2>1. TypeOK' /\ ReportedIsKept'
    BY <1>0, <1>7 DEF CtlRead, TypeOK, ReportedIsKept
  <2>2. CopyOK(ctl, store)'
    BY <1>0, <1>7 DEF CtlRead, TypeOK, CopyOK, Status
  <2>3. CopiesOK'
    BY <1>0, <1>7, <2>2 DEF CtlRead, CopiesOK, CopyOK
  <2> QED BY <2>1, <2>3 DEF IInv
<1>8. ASSUME CtlWrite PROVE IInv'
  <2>1. /\ store' \in Status /\ store'.results = store.results
        /\ store'.ver = store.ver + 1
    <3>1. ctl = store /\ store \in Status
      BY <1>0, <1>8 DEF CtlWrite, TypeOK, CopiesOK, CopyOK
    <3>2. store' = [ver |-> store.ver + 1, results |-> store.results, phase |-> store.phase + 1]
      BY <1>8, <3>1 DEF CtlWrite, Status
    <3> QED BY <1>8, <3>1, <3>2 DEF CtlWrite, Status
  <2>2. TypeOK' /\ ReportedIsKept'
    BY <1>0, <1>8, <2>1 DEF CtlWrite, TypeOK, ReportedIsKept
  <2>3. \A c \in Status : CopyOK(c, store) => CopyOK(c, store')
    BY <1>0, <2>1, NewVersion DEF TypeOK
  <2>4. CopiesOK'
    BY <1>0, <1>8, <2>3 DEF CtlWrite, TypeOK, CopiesOK, Client
  <2> QED BY <2>2, <2>4 DEF IInv
<1>9. ASSUME UNCHANGED vars PROVE IInv'
  BY <1>0, <1>9 DEF vars, IInv, TypeOK, CopiesOK, CopyOK, ReportedIsKept
<1> QED
  BY <1>1, <1>2, <1>3, <1>4, <1>5, <1>6, <1>7, <1>8, <1>9
  DEF Next, SetTestWorkloadResult

\* A result whose report returned no error stays in the status of the workload,
\* whatever the other items and the workload controller write from their own
\* copies and whatever the network loses (SetTestWorkloadResult of client.go).
THEOREM ReportsAreKept == Spec => []ReportedIsKept
<1>1. IInv => ReportedIsKept
  BY DEF IInv
<1> QED BY <1>1, InitOK, StepOK, PTL DEF Spec

----------------------------------------------------------------------------
(* The status of the workload is changed by one writer at a time.           *)

\* What a step does to the status, item by item: a result changes only to the
\* text of the call of its own item that is under way, and no version goes back.
OwnResult ==
    /\ store'.ver >= store.ver
    /\ \A i \in Item : store'.results[i] # store.results[i] =>
           client[i].pc = "update" /\ store'.results[i] = client[i].text

\* No step writes the result of an item other than the one that reports, though
\* every write carries the whole map of results (client.go: Status().Update of
\* the object that was read before).
THEOREM OnlyOwnResults == Spec => [][OwnResult]_store
<1>1. IInv /\ [Next]_vars => [OwnResult]_store
  <2> SUFFICES ASSUME IInv, [Next]_vars, store' # store PROVE OwnResult
    BY DEF vars
  <2>0. TypeOK /\ CopiesOK
    BY DEF IInv
  <2>1. ASSUME NEW i \in Item, Update(i) \/ UpdateLost(i) PROVE OwnResult
    <3>1. client[i].pc = "update" /\ Current(i) /\ store' = Written(i)
      BY <2>1 DEF Update, UpdateLost
    <3>2. Written(i).ver = store.ver + 1
      BY <2>0, <3>1, WrittenIsNext
    <3> QED BY <2>0, <3>1, <3>2, WrittenIsNext DEF OwnResult, TypeOK, Status
  <2>2. ASSUME CtlWrite PROVE OwnResult
    BY <2>0, <2>2 DEF CtlWrite, OwnResult, TypeOK, CopiesOK, CopyOK, Status
  <2>3. (\E i \in Item : Update(i) \/ UpdateLost(i)) \/ CtlWrite
    BY DEF Next, vars, SetTestWorkloadResult, Call, Get, UpdateRefused, GetFails, CtlRead
  <2> QED BY <2>1, <2>2, <2>3
<1> QED BY <1>1, InitOK, StepOK, PTL DEF Spec
=============================================================================
