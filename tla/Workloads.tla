------------------------------ MODULE Workloads -----------------------------
(***************************************************************************)
(* Workloads on nodes: the resource and the workload controller, the users *)
(* who create and delete workloads and requests, the containers that run   *)
(* and end, and the process that may stop and start again.                 *)
(***************************************************************************)
EXTENDS WorkloadController

CONSTANTS
    Users,      \* which of the optional user actions happen
    MaxCrash,   \* bound: crashes of the controller process
    MaxFault    \* bound: crashes and containers lost together

ASSUME WorkloadsAssumption ==
    /\ Users \subseteq {"delete finished", "delete any", "delete node"}
    /\ MaxCrash \in Nat /\ MaxFault \in Nat

VARIABLES
    crashes,
    ended       \* history: <<node, claim, phase>> of every container that ended

envVars == <<crashes, ended>>

vars == <<nodeVars, workloadVars, envVars>>

Init ==
    /\ NodeInit
    /\ WorkloadInit
    /\ crashes = 0
    /\ ended = {}

----------------------------------------------------------------------------
(* Users and hosts.                                                         *)

CreateWorkload(w) ==
    /\ ~Exists(workloads[w]) /\ workloads[w].gen < MaxGen
    /\ workloads' = [workloads EXCEPT ![w] =
                       [AbsentWorkload(w, @.gen + 1) EXCEPT !.state = Unset]]
    /\ UNCHANGED nodeVars /\ UNCHANGED <<ww, envVars>>

Finished(w) == workloads[w].state \in {"succeeded", "failed"}

DeletesAny == "delete any" \in Users

DeletesNodes == "delete node" \in Users

MayDelete(w) == DeletesAny \/ ("delete finished" \in Users /\ Finished(w))

DeleteWorkload(w) ==
    LET o == workloads[w] IN
    /\ MayDelete(w)
    /\ Exists(o) /\ ~o.del
    /\ workloads' = [workloads EXCEPT ![w] =
                       IF o.fin THEN [o EXCEPT !.del = TRUE] ELSE AbsentWorkload(w, o.gen)]
    /\ UNCHANGED nodeVars /\ UNCHANGED <<ww, envVars>>

DeleteRequest(n) ==
    /\ DeletesNodes
    /\ DeleteNode(n)
    /\ UNCHANGED workloadVars /\ UNCHANGED envVars

Exit(n) ==
    /\ ContainerExit(n)
    /\ ended' = ended \cup {<<n, ctr[n].by, ctr'[n].st>>}
    /\ UNCHANGED workloadVars /\ UNCHANGED crashes

MoreFaults == crashes + losses < MaxFault

Lose(n) == MoreFaults /\ ContainerLost(n) /\ UNCHANGED workloadVars /\ UNCHANGED envVars

EndCleaning(n) == CleanerExit(n) /\ UNCHANGED workloadVars /\ UNCHANGED envVars

----------------------------------------------------------------------------
(* The process.                                                             *)

Restart ==
    /\ tw' = TIdle /\ ww' = WIdle
    /\ cache' = nodes /\ seenRel' = rel
    /\ UNCHANGED <<nodes, ctr, cleaner, losses, rel, stray, workloads, ended>>

Crash ==
    /\ MoreFaults /\ crashes < MaxCrash
    /\ crashes' = crashes + 1
    /\ Restart

Panic == SeesBug /\ Restart /\ UNCHANGED crashes

NodeStep(n) == NodeBegin(n) /\ UNCHANGED workloadVars /\ UNCHANGED envVars

NodeOngoing(n) == NodeEnd(n) /\ UNCHANGED workloadVars /\ UNCHANGED envVars

WorkloadStep(w) == WorkloadBegin(w) /\ UNCHANGED envVars

WorkloadOngoing == WorkloadContinue /\ UNCHANGED envVars

Watch(n) == WatchNode(n) /\ UNCHANGED workloadVars /\ UNCHANGED envVars

Bind(n) == BindNode(n) /\ UNCHANGED workloadVars /\ UNCHANGED envVars

WatchBindings == WatchRelationship /\ UNCHANGED workloadVars /\ UNCHANGED envVars

Next ==
    \/ \E n \in Node : \/ NodeStep(n) \/ NodeOngoing(n) \/ Watch(n)
                       \/ Exit(n) \/ Lose(n) \/ EndCleaning(n) \/ DeleteRequest(n) \/ Bind(n)
    \/ \E w \in Workload : WorkloadStep(w) \/ CreateWorkload(w) \/ DeleteWorkload(w)
    \/ WorkloadOngoing \/ WatchBindings
    \/ Crash \/ Panic

Spec == Init /\ [][Next]_vars

(* The workers go on and take every object whose turn keeps coming, watches *)
(* deliver, and containers and cleaners end: a test that never ends is none *)
(* of the controllers' business.                                            *)
Fairness ==
    /\ \A n \in Node : /\ SF_vars(NodeStep(n))
                       /\ SF_vars(NodeReset(n) /\ UNCHANGED workloadVars /\ UNCHANGED envVars)
                       /\ SF_vars(NodeRelease(n) /\ UNCHANGED workloadVars /\ UNCHANGED envVars)
                       /\ SF_vars(NodeGone(n) /\ UNCHANGED workloadVars /\ UNCHANGED envVars)
                       /\ WF_vars(NodeOngoing(n))
                       /\ WF_vars(Watch(n))
                       /\ WF_vars(Exit(n)) /\ WF_vars(EndCleaning(n))
    /\ WF_vars(WatchBindings)
    /\ \A w \in Workload : SF_vars(WorkloadStep(w))
    /\ WF_vars(WorkloadOngoing)

FairSpec == Spec /\ Fairness

----------------------------------------------------------------------------
\* Every variable has its type, also the copies of objects that the cache and
\* the workers hold.
TypeOK ==
    /\ NodeTypeOK(WorkloadRef \cup {None})
    /\ BindingTypeOK
    /\ WorkloadTypeOK
    /\ crashes \in 0 .. MaxCrash

----------------------------------------------------------------------------
(* Safety.                                                                  *)

\* A workload that reports success has had a container of its own end well
\* on each of its nodes: no result of an earlier user of the node, read from
\* an old status or a phase nobody reset, is taken for its own.
SucceededIsReal ==
    \A w \in Workload : workloads[w].state = "succeeded" =>
        \A i \in DOMAIN Jobs[w] :
            <<Jobs[w][i].node, Ref(w, workloads[w]), "succeeded">> \in ended

\* A node that is ready or has finished has a container that was started, from
\* the image and for the claim the node has now, and that ended as the node
\* says; only somebody else can have removed it.
UpHasContainer ==
    \A n \in Node : nodes[n].state \in {"ready", "finish"} /\ ~nodes[n].del =>
        \/ /\ ctr[n].st \in {"running", "succeeded", "failed"}
           /\ ctr[n].image = nodes[n].image /\ ctr[n].by = nodes[n].claim
           /\ nodes[n].state = "finish" => ctr[n].st = nodes[n].phase
        \/ losses > 0

\* A node that is gone, or only has given its binding back so that its machine
\* may be given to others, has left nothing there, whatever was in progress when
\* it was deleted and however often the process was restarted.  The exception is
\* a cleaner that was created after the binding went, from an old copy of the
\* Relationship.
HostClean ==
    \A n \in Node : ~Exists(nodes[n]) \/ rel[n] = "released" =>
        ctr[n].st = "none" /\ (cleaner[n] = "none" \/ n \in stray)

\* The same without the exception: what the order of the two writes is meant to
\* ensure, the machine is clean before it is given back.
HostEmpty ==
    \A n \in Node : ~Exists(nodes[n]) => ctr[n].st = "none" /\ cleaner[n] = "none"

Holds(w, n) == nodes[n].claim = Ref(w, workloads[w]) /\ Exists(workloads[w])

\* The holder of a claim that goes, on a node that stays, is being deleted.
GivenByHolder(n) ==
    LET c == nodes[n].claim IN
    c # None /\ Exists(nodes'[n]) /\ nodes'[n].claim # c =>
        workloads[c.name].gen = c.gen /\ workloads[c.name].del

\* A claim is given up by the workload that holds it, as the comment on
\* ClaimRef says: whoever wants the node waits for the holder.
ClaimRespected == [][\A n \in Node : GivenByHolder(n)]_nodes

\* A workload that is gone has released the nodes that stay.
NoDeadClaim ==
    \A n \in Node : nodes[n].claim # None /\ ~nodes[n].del =>
        \E w \in Workload : Holds(w, n)

----------------------------------------------------------------------------
(* What must happen in the end.                                             *)

\* A deleted workload goes.
WorkloadGoes == \A w \in Workload : workloads[w].del ~> ~workloads[w].del

Active(w) == workloads[w].state \in {Unset, "pending", "running"} /\ ~workloads[w].del

\* A workload ends unless others are there to hold its nodes, a claim nobody
\* holds blocks one, or one of its nodes is deleted: the nodes of earlier
\* workloads come back in a state that the next one can use.
WorkloadEnds ==
    \A w \in Workload :
        Active(w) ~> \/ ~Active(w)
                     \/ \E v \in Workload \ {w} : Exists(workloads[v])
                     \/ \E n \in Node : nodes[n].del \/ ~Exists(nodes[n])
                     \/ ~NoDeadClaim
=============================================================================
