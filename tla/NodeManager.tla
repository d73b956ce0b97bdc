----------------------------- MODULE NodeManager -----------------------------
(***************************************************************************)
(* The master's table of DataNodes: registration, heartbeats and their     *)
(* timeout, the choice of a node for an upload, the circuit breaker, and   *)
(* the quality-of-service mode that the load of the cluster drives.  Every *)
(* method of NodeManager is one critical section of its mutex and one      *)
(* action here; handleUpdatePolicy makes three calls and is three actions. *)
(*                                                                         *)
(* Of a DataNode this module keeps what heartbeats carry: its transfers    *)
(* and the bandwidth limits it was last told.  Which nodes have room for a *)
(* file, and the dice of getAliveNode, are left open: any node that passes *)
(* the other tests may be chosen.  qos.enabled is taken as set.            *)
(***************************************************************************)
EXTENDS Naturals, FiniteSets

CONSTANTS
    Nodes,
    Admins,         \* administrators at work at the same time
    Policies,       \* the bodies of POST /api/admin/policy
    Limits,         \* bandwidth limits, 0 for none
    ConfigEnter,    \* qos.strict_enter_active_transfers
    ConfigExit,     \* qos.strict_exit_active_transfers
    MaxTransfers,   \* bound on the transfers of one node
    MasterRestarts  \* whether the master may restart

\* An enter threshold of 0 stands for a body without thresholds.  The others
\* pass the validation of handleUpdatePolicy.
ASSUME NodeManagerAssumption ==
    /\ IsFiniteSet(Nodes)
    /\ MaxTransfers \in Nat
    /\ Limits \subseteq Nat /\ 0 \in Limits
    /\ Policies \subseteq [manual: {"off", "elastic", "strict"},
                           limit: Limits, enter: Nat, exit: Nat]
    /\ \A p \in Policies : p.exit <= p.enter
    /\ ConfigEnter \in Nat \ {0} /\ ConfigExit \in 0..ConfigEnter
    /\ MasterRestarts \in BOOLEAN

VARIABLES
    node,       \* the entry of nodes_: "unknown" if none, "alive" or "dead" by
                \* isAlive_, "late" if alive and silent for over 10 seconds
    disabled,   \* isManuallyDisabled_
    transfers,  \* activeTransfers_
    nodeLimit,  \* nodeBandwidthLimitBps_
    mode,       \* clusterQosMode_
    manual,     \* manualQosMode_ if manualQosOverride_, else "off"
    enter,      \* strictEnterActiveTransfers_
    exit,       \* strictExitActiveTransfers_
    limit,      \* globalBandwidthLimitBps_
    update,     \* calls each handleUpdatePolicy has still to make
    placed,     \* the node of an upload token that is not used yet
    load,       \* getActiveTransfers() of each DataNode
    link,       \* its connection, with the heartbeat or reply under way
    policy      \* adminPolicy_ of each DataNode

tableVars == <<node, disabled, transfers, nodeLimit>>
qosVars == <<mode, manual, enter, exit>>
adminVars == <<limit, update>>
dataNodeVars == <<load, link, policy>>
vars == <<tableVars, qosVars, adminVars, placed, dataNodeVars>>

Bandwidth == [cluster: Limits, own: Limits]
Unlimited == [cluster |-> 0, own |-> 0]

NoPolicy == [manual |-> "off", limit |-> 0, enter |-> 0, exit |-> 0]

\* One message at most is under way on a connection.
Idle == [kind |-> "idle"]
Closed == [kind |-> "closed"]
Heartbeat(l) == [kind |-> "heartbeat", load |-> l]
Reply(b) == [kind |-> "reply", policy |-> b]

Links == {Idle, Closed} \union {Heartbeat(l) : l \in 0..MaxTransfers}
                        \union {Reply(b) : b \in Bandwidth}

Modes == {"elastic", "strict"}

TypeOK ==
    /\ node \in [Nodes -> {"unknown", "alive", "late", "dead"}]
    /\ disabled \in [Nodes -> BOOLEAN]
    /\ transfers \in [Nodes -> 0..MaxTransfers]
    /\ nodeLimit \in [Nodes -> Limits]
    /\ mode \in Modes
    /\ manual \in Modes \union {"off"}
    /\ enter \in Nat \ {0}
    /\ exit \in 0..enter
    /\ limit \in Limits
    /\ update \in [Admins -> [step: {"none", "limit", "thresholds"},
                              policy: Policies \union {NoPolicy}]]
    /\ placed \in SUBSET Nodes
    /\ load \in [Nodes -> 0..MaxTransfers]
    /\ link \in [Nodes -> Links]
    /\ policy \in [Nodes -> Bandwidth]

NoUpdate == [step |-> "none", policy |-> NoPolicy]

\* The state of a master that has just started.
FreshMaster(tab, dis, tra, lim) ==
    /\ tab = [n \in Nodes |-> "unknown"]
    /\ dis = [n \in Nodes |-> FALSE]
    /\ tra = [n \in Nodes |-> 0]
    /\ lim = [n \in Nodes |-> 0]

Init ==
    /\ FreshMaster(node, disabled, transfers, nodeLimit)
    /\ mode = "elastic" /\ manual = "off"
    /\ enter = ConfigEnter /\ exit = ConfigExit
    /\ limit = 0
    /\ update = [a \in Admins |-> NoUpdate]
    /\ placed = {}
    /\ load = [n \in Nodes |-> 0]
    /\ link = [n \in Nodes |-> Closed]
    /\ policy = [n \in Nodes |-> Unlimited]

IsAlive(n) == node[n] \in {"alive", "late"}

-----------------------------------------------------------------------------
(* refreshClusterQosModeLocked.                                            *)

\* getTotalActiveTransfersLocked, as the number of the transfers that the
\* entries of live nodes stand for.
Active(tab, tra) ==
    {x \in Nodes \X (1..MaxTransfers) :
        tab[x[1]] \in {"alive", "late"} /\ x[2] <= tra[x[1]]}

Total(tab, tra) == Cardinality(Active(tab, tra))

\* Mutant of NextMode: the way back asks for less than the exit threshold.
NextModeBelow(m, man, en, ex, total) ==
    IF man # "off" THEN man
    ELSE IF m = "elastic" /\ total >= en THEN "strict"
    ELSE IF m = "strict" /\ total < ex THEN "elastic"
    ELSE m

NextMode(m, man, en, ex, total) ==
    IF man # "off" THEN man
    ELSE IF m = "elastic" /\ total >= en THEN "strict"
    ELSE IF m = "strict" /\ total <= ex THEN "elastic"
    ELSE m

\* The refresh at the end of a critical section sees what that section wrote.
RefreshMode ==
    mode' = NextMode(mode, manual', enter', exit', Total(node', transfers'))

-----------------------------------------------------------------------------
(* Registration, heartbeats, timeouts.                                     *)

\* Mutant of RegisterNode: the mode is not refreshed.
RegisterNodeQuietly(n) ==
    /\ link[n] = Closed
    /\ link' = [link EXCEPT ![n] = Idle]
    /\ node' = [node EXCEPT ![n] = "alive"]
    /\ UNCHANGED <<disabled, transfers, nodeLimit, qosVars, adminVars, placed,
                   load, policy>>

\* The DataNode connects and registers.  An entry it had is kept as it was.
RegisterNode(n) ==
    /\ link[n] = Closed
    /\ link' = [link EXCEPT ![n] = Idle]
    /\ node' = [node EXCEPT ![n] = "alive"]
    /\ UNCHANGED <<disabled, transfers, nodeLimit, manual, enter, exit,
                   adminVars, placed, load, policy>>
    /\ RefreshMode

\* MasterClient::sendHeartbeat
SendHeartbeat(n) ==
    /\ link[n] = Idle
    /\ link' = [link EXCEPT ![n] = Heartbeat(load[n])]
    /\ UNCHANGED <<tableVars, qosVars, adminVars, placed, load, policy>>

\* Mutant of Snapshot: the overload without a node.
SnapshotOfCluster(n) == [cluster |-> limit, own |-> 0]

\* getAdminPolicySnapshot(node_id)
Snapshot(n) == [cluster |-> limit, own |-> nodeLimit[n]]

\* DataNodeHandler::handleHeartbeat: updateHeartbeat overwrites what the
\* scheduler predicted, and the reply carries the limits of the moment.  An
\* unknown node gets a 404; but to be connected is to have registered.
UpdateHeartbeat(n) ==
    /\ link[n].kind = "heartbeat"
    /\ node[n] # "unknown"
    /\ node' = [node EXCEPT ![n] = "alive"]
    /\ transfers' = [transfers EXCEPT ![n] = link[n].load]
    /\ link' = [link EXCEPT ![n] = Reply(Snapshot(n))]
    /\ UNCHANGED <<disabled, nodeLimit, manual, enter, exit, adminVars, placed,
                   load, policy>>
    /\ RefreshMode

\* MasterClient::handleAdminPolicyResponse
ReceiveReply(n) ==
    /\ link[n].kind = "reply"
    /\ policy' = [policy EXCEPT ![n] = link[n].policy]
    /\ link' = [link EXCEPT ![n] = Idle]
    /\ UNCHANGED <<tableVars, qosVars, adminVars, placed, load>>

\* More than kTimeoutSeconds since the last heartbeat or registration.
FallSilent(n) ==
    /\ node[n] = "alive"
    /\ node' = [node EXCEPT ![n] = "late"]
    /\ UNCHANGED <<disabled, transfers, nodeLimit, qosVars, adminVars, placed,
                   dataNodeVars>>

\* Mutant of TimedOut: a node with transfers is never given up.
TimedOutIdle(n) == node[n] = "late" /\ transfers[n] = 0

TimedOut(n) == node[n] = "late"

CheckTimeoutNodes ==
    /\ \E n \in Nodes : TimedOut(n)
    /\ node' = [n \in Nodes |-> IF TimedOut(n) THEN "dead" ELSE node[n]]
    /\ UNCHANGED <<disabled, transfers, nodeLimit, manual, enter, exit,
                   adminVars, placed, dataNodeVars>>
    /\ RefreshMode

-----------------------------------------------------------------------------
(* The choice of a node for an upload (FileHandler::handleFileUpload) and  *)
(* the transfers themselves.  An upload token gives way to the next; bound *)
(* of the model: one unused token.                                         *)

\* getAliveNode: the mode is refreshed first, the transfer is counted after.
GetAliveNode(n) ==
    /\ IsAlive(n) /\ ~disabled[n]
    /\ transfers[n] < MaxTransfers
    /\ transfers' = [transfers EXCEPT ![n] = @ + 1]
    /\ mode' = NextMode(mode, manual, enter, exit, Total(node, transfers))
    /\ placed' = {n}
    /\ UNCHANGED <<node, disabled, nodeLimit, manual, enter, exit, adminVars,
                   dataNodeVars>>

\* A batch asks for the node of its previous file: no choice, no count.
UsePreferredNode(n) ==
    /\ IsAlive(n)
    /\ placed' = {n}
    /\ UNCHANGED <<tableVars, qosVars, adminVars, dataNodeVars>>

\* The token is used, or is given up.
UseToken(n) ==
    /\ n \in placed
    /\ placed' = {}
    /\ \/ UNCHANGED load
       \/ load[n] < MaxTransfers /\ load' = [load EXCEPT ![n] = @ + 1]
    /\ UNCHANGED <<tableVars, qosVars, adminVars, link, policy>>

StartDownload(n) ==
    /\ load[n] < MaxTransfers
    /\ load' = [load EXCEPT ![n] = @ + 1]
    /\ UNCHANGED <<tableVars, qosVars, adminVars, placed, link, policy>>

FinishTransfer(n) ==
    /\ load[n] > 0
    /\ load' = [load EXCEPT ![n] = @ - 1]
    /\ UNCHANGED <<tableVars, qosVars, adminVars, placed, link, policy>>

-----------------------------------------------------------------------------
(* AdminHandler.                                                           *)

\* handleNodeCircuitBreak
SetNodeManualDisabled(n) ==
    /\ node[n] # "unknown"
    /\ disabled' = [disabled EXCEPT ![n] = ~@]
    /\ UNCHANGED <<node, transfers, nodeLimit, qosVars, adminVars, placed,
                   dataNodeVars>>

\* handleNodeBandwidthLimit
SetNodeBandwidthLimit(n) ==
    /\ node[n] # "unknown"
    /\ \E l \in Limits \ {nodeLimit[n]} :
          nodeLimit' = [nodeLimit EXCEPT ![n] = l]
    /\ UNCHANGED <<node, disabled, transfers, qosVars, adminVars, placed,
                   dataNodeVars>>

\* handleUpdatePolicy calls setManualQosOverride ...
SetManualQosOverride(a, p) ==
    /\ update[a].step = "none"
    /\ manual' = p.manual
    /\ update' = [update EXCEPT ![a] = [step |-> "limit", policy |-> p]]
    /\ UNCHANGED <<tableVars, enter, exit, limit, placed, dataNodeVars>>
    /\ RefreshMode

\* ... then setGlobalBandwidthLimitBps ...
SetGlobalBandwidthLimit(a) ==
    /\ update[a].step = "limit"
    /\ limit' = update[a].policy.limit
    /\ update' = [update EXCEPT ![a] =
                     IF @.policy.enter = 0 THEN NoUpdate
                                           ELSE [@ EXCEPT !.step = "thresholds"]]
    /\ UNCHANGED <<tableVars, qosVars, placed, dataNodeVars>>

\* ... and, if the body has thresholds, setStrictModeThresholds.
SetStrictModeThresholds(a) ==
    /\ update[a].step = "thresholds"
    /\ enter' = update[a].policy.enter
    /\ exit' = update[a].policy.exit
    /\ update' = [update EXCEPT ![a] = NoUpdate]
    /\ UNCHANGED <<tableVars, manual, limit, placed, dataNodeVars>>
    /\ RefreshMode

-----------------------------------------------------------------------------
(* Failures.                                                               *)

LoseConnection(n) ==
    /\ link[n] # Closed
    /\ link' = [link EXCEPT ![n] = Closed]
    /\ UNCHANGED <<tableVars, qosVars, adminVars, placed, load, policy>>

\* The DataNode restarts with no transfers and the policy it starts with.
DataNodeRestart(n) ==
    /\ link' = [link EXCEPT ![n] = Closed]
    /\ load' = [load EXCEPT ![n] = 0]
    /\ policy' = [policy EXCEPT ![n] = Unlimited]
    /\ UNCHANGED <<tableVars, qosVars, adminVars, placed>>

\* The node table and all that an administrator set are in memory only.
MasterRestart ==
    /\ MasterRestarts
    /\ FreshMaster(node', disabled', transfers', nodeLimit')
    /\ mode' = "elastic" /\ manual' = "off"
    /\ enter' = ConfigEnter /\ exit' = ConfigExit
    /\ limit' = 0
    /\ update' = [a \in Admins |-> NoUpdate]
    /\ link' = [n \in Nodes |-> Closed]
    /\ UNCHANGED <<placed, load, policy>>

-----------------------------------------------------------------------------
NodeStep(n) ==
    \/ RegisterNode(n) \/ SendHeartbeat(n) \/ UpdateHeartbeat(n)
    \/ ReceiveReply(n) \/ FallSilent(n)

TransferStep(n) ==
    \/ GetAliveNode(n) \/ UsePreferredNode(n) \/ UseToken(n)
    \/ StartDownload(n) \/ FinishTransfer(n)

AdminStep(a) ==
    \/ \E p \in Policies : SetManualQosOverride(a, p)
    \/ SetGlobalBandwidthLimit(a)
    \/ SetStrictModeThresholds(a)

Next ==
    \/ \E n \in Nodes : NodeStep(n) \/ TransferStep(n)
    \/ CheckTimeoutNodes
    \/ \E n \in Nodes : SetNodeManualDisabled(n) \/ SetNodeBandwidthLimit(n)
    \/ \E a \in Admins : AdminStep(a)
    \/ \E n \in Nodes : LoseConnection(n) \/ DataNodeRestart(n)
    \/ MasterRestart

Spec == Init /\ [][Next]_vars

\* The timers fire: heartbeats every 3 seconds, the timeout check every 5,
\* time passes, and a connection that keeps coming back carries a heartbeat
\* and its reply now and then.  A DataNode need not come back.
Fairness ==
    /\ WF_vars(CheckTimeoutNodes)
    /\ \A n \in Nodes :
        /\ WF_vars(FallSilent(n))
        /\ SF_vars(SendHeartbeat(n))
        /\ SF_vars(UpdateHeartbeat(n))
        /\ SF_vars(ReceiveReply(n))

FairSpec == Spec /\ Fairness

-----------------------------------------------------------------------------
(* Safety.                                                                 *)

\* What each setting of the thresholds leaves between the two.
ThresholdsApart ==
    /\ ConfigExit < ConfigEnter
    /\ \A p \in Policies : p.enter # 0 => p.exit < p.enter

\* Without an override the mode follows the load through registrations,
\* heartbeats, timeouts, reservations and changes of the thresholds: elastic at
\* or below the exit threshold, strict above the enter threshold (one
\* reservation may be counted after the last refresh).
ModeFollowsLoad ==
    /\ manual # "off" => mode = manual
    /\ manual = "off" /\ Total(node, transfers) <= exit => mode = "elastic"
    /\ manual = "off" /\ Total(node, transfers) > enter => mode = "strict"

-----------------------------------------------------------------------------
(* Liveness.                                                               *)

\* A node that is gone for good does not stay a candidate for uploads, nor do
\* its last transfers stay in the load of the cluster.
GoneNodesDeclaredDead ==
    \A n \in Nodes :
        <>[](link[n] = Closed) => <>[](~IsAlive(n))

Quiet == manual = "off" /\ placed = {} /\ \A n \in Nodes : load[n] = 0

\* Strict mode ends when the cluster goes quiet, reservations for uploads that
\* never came and nodes that died in the middle of transfers included.
StrictModeEnds == <>[]Quiet => <>[](mode = "elastic")

\* Limits that stay as they are reach every DataNode that keeps connecting,
\* after restarts of the DataNode as well.
LimitsReachNodes ==
    \A n \in Nodes :
        <>[][FALSE]_<<limit, nodeLimit[n]>> /\ []<>(link[n] # Closed)
            => []<>(policy[n] = [cluster |-> limit, own |-> nodeLimit[n]])

=============================================================================
