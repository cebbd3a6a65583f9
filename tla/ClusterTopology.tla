--------------------------- MODULE ClusterTopology --------------------------
(***************************************************************************)
(* A topology with its controller, its webhook, its nodes and its users.   *)
(***************************************************************************)
EXTENDS TopologyController

CONSTANTS
    First,      \* the specifications a topology is created with
    Users,      \* which of the optional user actions happen
    MaxFault    \* bound: calls of the worker cut off and nodes that end

ASSUME ClusterTopologyAssumption ==
    /\ First \subseteq Specs
    /\ Users \subseteq {"edit hastily", "delete", "delete request"}
    /\ MaxFault \in Nat /\ MaxGen \in Nat

VARIABLES
    faults,
    hasty       \* history: the specification was changed too early, or moved
                \* an instance

envVars == <<faults, hasty>>

vars == <<controllerVars, envVars>>

Init == ControllerInit /\ faults = 0 /\ hasty = FALSE

----------------------------------------------------------------------------
(* Users.                                                                   *)

EditsHastily == "edit hastily" \in Users
DeletesRequest == "delete request" \in Users

CreateTopology(s) ==
    /\ s \in First
    /\ topo.state = "absent" /\ topo.gen < MaxGen
    /\ topo' = NewTopology(Unset, s, topo.gen + 1)
    /\ UNCHANGED <<cl, view, request, nodes, kw, envVars>>

\* The last change has arrived at the cluster, as far as the status tells.
Settled == topo.state = "ready" /\ ~topo.del /\ topo.pre = topo.spec /\ ~topo.scaling

\* The lists of s grow or shrink, but no instance moves to another host.
InPlace(s) ==
    /\ topo.spec.db \subseteq s.db \/ s.db \subseteq topo.spec.db
    /\ topo.spec.kv \subseteq s.kv \/ s.kv \subseteq topo.spec.kv

EditTopology(s) ==
    /\ topo.state # "absent" /\ ~topo.del
    /\ topo.gen < MaxGen /\ s # topo.spec
    /\ (Settled /\ InPlace(s)) \/ EditsHastily
    /\ validateTiDBUpdate(topo, s)
    /\ topo' = [topo EXCEPT !.spec = s, !.gen = @ + 1]
    /\ hasty' = (hasty \/ ~(Settled /\ InPlace(s)))
    /\ UNCHANGED <<cl, view, request, nodes, kw, faults>>

DeleteByUser ==
    /\ "delete" \in Users
    /\ topo.state # "absent" /\ ~topo.del
    /\ topo' = IF topo.fin THEN [topo EXCEPT !.del = TRUE] ELSE Absent(topo.gen)
    /\ UNCHANGED <<cl, view, request, nodes, kw, envVars>>

----------------------------------------------------------------------------
(* Requests and nodes.                                                      *)

RequestReady ==
    /\ request = "pending" /\ request' = "ready"
    /\ UNCHANGED <<cl, topo, view, nodes, kw, envVars>>

\* The request goes, its nodes with it, and with them what is on them.
DeleteRequest ==
    /\ DeletesRequest
    /\ request = "ready" /\ request' = "absent"
    /\ nodes' = [h \in Node |-> "gone"]
    /\ cl' = NoCluster
    /\ UNCHANGED <<topo, view, kw, envVars>>

NodeStarts(h) ==
    /\ nodes[h] = "starting"
    /\ nodes' = [nodes EXCEPT ![h] = "up"]
    /\ UNCHANGED <<cl, topo, view, request, kw, envVars>>

\* The container of a node ends; the node is not used again.
NodeEnds(h) ==
    /\ faults < MaxFault /\ faults' = faults + 1
    /\ nodes[h] = "up"
    /\ nodes' = [nodes EXCEPT ![h] = "down"]
    /\ UNCHANGED <<cl, topo, view, request, kw, hasty>>

Moved(h) == StoreMoved(h) /\ UNCHANGED <<topo, view, request, nodes, kw, envVars>>

----------------------------------------------------------------------------
\* A call ends between two of its steps: the process stops, or the connection
\* to the control node or to the API server breaks.
CutOff ==
    /\ faults < MaxFault /\ faults' = faults + 1
    /\ kw.pc # "idle" /\ kw' = KIdle
    /\ UNCHANGED <<cl, topo, view, request, nodes, hasty>>

TopologyStep == (TopologyBegin \/ TopologyContinue) /\ UNCHANGED envVars

Watch == WatchTopology /\ UNCHANGED envVars

Next ==
    \/ TopologyStep \/ Watch
    \/ \E s \in Specs : CreateTopology(s) \/ EditTopology(s)
    \/ DeleteByUser \/ RequestReady \/ DeleteRequest
    \/ \E h \in Node : NodeStarts(h) \/ NodeEnds(h) \/ Moved(h)
    \/ CutOff

Spec == Init /\ [][Next]_vars

(* The worker goes on and comes back to a topology that is not settled, the *)
(* watch delivers, the scheduler serves the request, nodes start, and the   *)
(* regions of a store that is scaled in move.                               *)
Fairness ==
    /\ WF_vars(TopologyStep) /\ WF_vars(Watch) /\ WF_vars(RequestReady)
    /\ \A h \in Node : WF_vars(NodeStarts(h)) /\ WF_vars(Moved(h))

FairSpec == Spec /\ Fairness

----------------------------------------------------------------------------
\* Every variable has its type, also the copies of the topology that the cache
\* and the worker hold.
TypeOK ==
    /\ ControllerTypeOK
    /\ faults \in 0 .. MaxFault /\ hasty \in BOOLEAN

----------------------------------------------------------------------------
(* Safety.                                                                  *)

\* README.md:203, "naglfar will deploy the cluster automatically": whenever the
\* status says that the last specification has been deployed, the cluster is
\* the one it asks for, and no other instance is on the nodes; before the first
\* change its binaries have been exchanged as asked.
SettledIsDeployed ==
    ~hasty /\ request # "absent" =>
        /\ Settled => Matches(topo.spec)
        /\ topo.state = "ready" /\ ~topo.del /\ topo.pre = None =>
              Matches(topo.spec) /\ (cl.patched <=> topo.spec.patch # "none")

\* A store that is going is known to the status, so that somebody waits for it
\* and prunes it, or the update that has sent it away is still to be finished.
GoingIsTracked ==
    ~hasty /\ (cl.off # {} \/ cl.tomb # {}) => topo.scaling \/ topo.state = "updating" \/ topo.del

\* A topology that has gone has left no cluster behind.
GoneIsUninstalled == topo.state = "absent" => cl = NoCluster

\* An instance is only taken away, or sent away, when the specification no
\* longer asks for it or the topology is deleted.
WantedStays ==
    [][\A i \in Instances(cl) \ ({"kv"} \X cl.off) :
        i \in Instances(topo.spec) =>
            \/ i \in cl'.inst /\ i \notin {"kv"} \X cl'.off
            \/ topo.del \/ hasty \/ request' = "absent"]_cl

----------------------------------------------------------------------------
(* What must happen in the end.                                             *)

\* Something outside the controller is, or was, in the way.
Obstructed == faults > 0 \/ request = "absent" \/ hasty \/ topo.del

\* Every accepted specification is deployed, and scaling ends.
Applied ==
    topo.state # "absent" ~> (Settled /\ Matches(topo.spec)) \/ Obstructed \/ topo.state = "absent"

\* A deleted topology goes, unless tiup cannot be reached: a node is down, or
\* the control node has never been given an image.
DeletionEnds ==
    topo.del ~> ~topo.del \/ nodes[Control] = "free" \/ \E h \in Node : nodes[h] = "down"
=============================================================================
