-------------------------------- MODULE Report ------------------------------
(***************************************************************************)
(* SetTestWorkloadResult of the client library.  Every item of a workload  *)
(* runs in a container of its own, and the programs in them report results *)
(* into one map of the workload's status, which the workload controller    *)
(* writes, too.  The object is read once; the write is tried up to three   *)
(* times.                                                                  *)
(***************************************************************************)
EXTENDS Naturals

CONSTANTS
    Item,       \* the items of the workload
    Text,       \* results
    NoText,     \* no result
    MaxReport,  \* bound: reports of one item
    MaxWrite,   \* bound: status writes of the workload controller
    MaxLost     \* bound: requests, or answers, that get lost

ASSUME ReportAssumption ==
    /\ NoText \notin Text /\ Text # {}
    /\ MaxReport \in Nat /\ MaxWrite \in Nat /\ MaxLost \in Nat

VARIABLES
    store,      \* the status at the API server: its version and its Results
    client,     \* client[i]: the program in the container of item i
    ctl,        \* the copy of the status that the workload controller holds
    told,       \* told[i]: history: the text of the last report of i if that
                \* returned no error, and NoText if it did
    lost,       \* how often the network has failed
    hit         \* history: the items whose report the network has disturbed

vars == <<store, client, ctl, told, lost, hit>>

Attempts == 3

Status == [ver : Nat, results : [Item -> Text \cup {NoText}], phase : 0 .. MaxWrite]

NoResults == [ver |-> 0, results |-> [i \in Item |-> NoText], phase |-> 0]

\* obj is the workload that the call has read, tries the attempts that failed.
Client == [pc : {"idle", "get", "update"}, text : Text \cup {NoText}, obj : Status,
           tries : 0 .. Attempts - 1, reports : 0 .. MaxReport]

\* Every variable has its type, also the copies of the status.
TypeOK ==
    /\ store \in Status /\ ctl \in Status
    /\ client \in [Item -> Client]
    /\ told \in [Item -> Text \cup {NoText}]
    /\ lost \in 0 .. MaxLost /\ hit \subseteq Item

Init ==
    /\ store = NoResults /\ ctl = NoResults
    /\ client = [i \in Item |-> [pc |-> "idle", text |-> NoText, obj |-> NoResults,
                                 tries |-> 0, reports |-> 0]]
    /\ told = [i \in Item |-> NoText]
    /\ lost = 0 /\ hit = {}

----------------------------------------------------------------------------
(* The client.                                                              *)

Call(i, text) ==
    /\ client[i].pc = "idle" /\ client[i].reports < MaxReport
    /\ client' = [client EXCEPT ![i].pc = "get", ![i].text = text, ![i].tries = 0,
                                ![i].reports = @ + 1]
    /\ hit' = hit \ {i}
    /\ UNCHANGED <<store, ctl, told, lost>>

Get(i) ==
    /\ client[i].pc = "get"
    /\ client' = [client EXCEPT ![i].pc = "update", ![i].obj = store]
    /\ UNCHANGED <<store, ctl, told, lost, hit>>

Return(i, text) ==
    /\ client' = [client EXCEPT ![i].pc = "idle"]
    /\ told' = [told EXCEPT ![i] = text]

\* Retry sleeps and tries again, unless this was the last attempt.
Retry(i) ==
    IF client[i].tries < Attempts - 1
    THEN client' = [client EXCEPT ![i].tries = @ + 1] /\ UNCHANGED told
    ELSE Return(i, NoText)

\* The status that the client writes: what it has read, and its own result.  A
\* write that changes nothing makes no new version.
Written(i) ==
    LET o == client[i].obj IN
    [o EXCEPT !.results[i] = client[i].text,
              !.ver = IF o.results[i] = client[i].text THEN @ ELSE @ + 1]

Current(i) == client[i].obj.ver = store.ver

\* Seeded fault: the last write wins.
Update_LastWins(i) ==
    /\ client[i].pc = "update"
    /\ store' = [Written(i) EXCEPT !.ver = store.ver + 1]
    /\ Return(i, client[i].text)
    /\ UNCHANGED <<ctl, lost, hit>>

Update(i) ==
    /\ client[i].pc = "update" /\ Current(i)
    /\ store' = Written(i)
    /\ Return(i, client[i].text)
    /\ UNCHANGED <<ctl, lost, hit>>

\* The object that the next attempt writes is the one that was refused.
UpdateRefused(i) ==
    /\ client[i].pc = "update" /\ ~Current(i)
    /\ Retry(i)
    /\ UNCHANGED <<store, ctl, lost, hit>>

Fails(i) == lost < MaxLost /\ lost' = lost + 1 /\ hit' = hit \cup {i}

\* No answer to the first Get ends the call; it is not tried again.
GetFails(i) ==
    /\ Fails(i) /\ client[i].pc = "get"
    /\ Return(i, NoText)
    /\ UNCHANGED <<store, ctl>>

\* A request, or the answer to one that was served, is lost.
UpdateLost(i) ==
    /\ Fails(i) /\ client[i].pc = "update"
    /\ store' \in {store} \cup (IF Current(i) THEN {Written(i)} ELSE {})
    /\ Retry(i)
    /\ UNCHANGED ctl

----------------------------------------------------------------------------
(* The workload controller, as far as it touches the status.                *)

CtlRead ==
    /\ ctl # store /\ ctl' = store
    /\ UNCHANGED <<store, client, told, lost, hit>>

\* A phase of an item has changed; an outdated copy is refused.
CtlWrite ==
    /\ ctl.ver = store.ver /\ store.phase < MaxWrite
    /\ store' = [ctl EXCEPT !.ver = @ + 1, !.phase = @ + 1]
    /\ UNCHANGED <<client, ctl, told, lost, hit>>

SetTestWorkloadResult(i) == Get(i) \/ Update(i) \/ UpdateRefused(i)

Next ==
    \/ \E i \in Item : \/ \E text \in Text : Call(i, text)
                       \/ SetTestWorkloadResult(i)
                       \/ GetFails(i) \/ UpdateLost(i)
    \/ CtlRead \/ CtlWrite

Spec == Init /\ [][Next]_vars

----------------------------------------------------------------------------
\* A result whose report returned no error is in the status, as it was reported
\* last: neither the report of another item, nor the controller with its own
\* copy of the status, nor an earlier attempt that was thought lost takes it
\* away.
ReportedIsKept ==
    \A i \in Item : client[i].pc = "idle" /\ told[i] # NoText => store.results[i] = told[i]

\* testworkload_types.go:100, "Save the results passed through": a report that
\* the network has not disturbed is saved, within its three attempts.
ResultsSaved ==
    \A i \in Item : client[i].pc = "idle" /\ client[i].reports > 0 /\ i \notin hit =>
        store.results[i] = client[i].text
=============================================================================
