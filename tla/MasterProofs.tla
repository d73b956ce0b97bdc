----------------------------- MODULE MasterProofs -----------------------------
(***************************************************************************)
(* Theorems about two parts of the master: the node table with its QoS     *)
(* mode (NodeManager), for any finite set of nodes, any number of          *)
(* administrators and any load; and the storage of a user (Storage), for   *)
(* any number of requests, files and folders.                              *)
(***************************************************************************)
EXTENDS NodeManager, Storage, FiniteSetTheorems, SequenceTheorems, TLAPS

-----------------------------------------------------------------------------
(***************************************************************************)
(* The node table.                                                         *)
(***************************************************************************)

\* The mode that a refresh returns is one of the two.
LEMMA NextModeType ==
    ASSUME NEW m \in Modes, NEW man \in Modes \union {"off"}, NEW en, NEW ex,
           NEW total
    PROVE  NextMode(m, man, en, ex, total) \in Modes
BY DEF NextMode, Modes

\* The total of the table is a number.
LEMMA TotalType ==
    ASSUME NEW tab, NEW tra
    PROVE  /\ IsFiniteSet(Active(tab, tra))
           /\ Total(tab, tra) \in Nat
<1>1. IsFiniteSet(Nodes \X (1..MaxTransfers))
  <2>1. IsFiniteSet(1..MaxTransfers)
    BY FS_Interval, NodeManagerAssumption
  <2> QED
    BY <2>1, FS_Product, NodeManagerAssumption
<1>2. Active(tab, tra) \subseteq Nodes \X (1..MaxTransfers)
  BY DEF Active
<1>3. IsFiniteSet(Active(tab, tra))
  BY <1>1, <1>2, FS_Subset
<1> QED
  BY <1>3, FS_CardinalityType DEF Total

-----------------------------------------------------------------------------
(* Types.                                                                  *)

\* A master that just started has a well-typed table.
LEMMA FreshMasterType ==
    ASSUME NEW tab, NEW dis, NEW tra, NEW lim, FreshMaster(tab, dis, tra, lim)
    PROVE  /\ tab \in [Nodes -> {"unknown", "alive", "late", "dead"}]
           /\ dis \in [Nodes -> BOOLEAN]
           /\ tra \in [Nodes -> 0..MaxTransfers]
           /\ lim \in [Nodes -> Limits]
BY NodeManagerAssumption DEF FreshMaster

\* Init establishes the types.
LEMMA TypeInit == Init => TypeOK
BY FreshMasterType, NodeManagerAssumption
DEF Init, TypeOK, Modes, NoUpdate, Links, Idle, Closed, Bandwidth, Unlimited

\* A refresh keeps the type of the mode.
LEMMA RefreshType ==
    ASSUME TypeOK, RefreshMode, manual' \in Modes \union {"off"}
    PROVE  mode' \in Modes
BY NextModeType DEF TypeOK, RefreshMode

\* What one node does keeps the types.
LEMMA NodeType ==
    ASSUME TypeOK, NEW n \in Nodes, NodeStep(n)
    PROVE  TypeOK'
<1> USE DEF TypeOK, tableVars, qosVars, adminVars, dataNodeVars
<1>1. CASE RegisterNode(n)
  BY <1>1, RefreshType DEF RegisterNode, Links
<1>2. CASE SendHeartbeat(n)
  BY <1>2 DEF SendHeartbeat, Links
<1>3. CASE UpdateHeartbeat(n)
  <2>1. link[n].load \in 0..MaxTransfers
    BY <1>3 DEF UpdateHeartbeat, Links, Idle, Closed, Heartbeat, Reply
  <2>2. Reply(Snapshot(n)) \in Links
    BY DEF Snapshot, Links, Bandwidth
  <2> QED
    BY <1>3, <2>1, <2>2, RefreshType DEF UpdateHeartbeat
<1>4. CASE ReceiveReply(n)
  <2>1. link[n].policy \in Bandwidth
    BY <1>4 DEF ReceiveReply, Links, Idle, Closed, Heartbeat, Reply
  <2> QED
    BY <1>4, <2>1 DEF ReceiveReply, Links
<1>5. CASE FallSilent(n)
  BY <1>5 DEF FallSilent
<1> QED
  BY <1>1, <1>2, <1>3, <1>4, <1>5 DEF NodeStep

\* Placing uploads and the transfers themselves keep the types.
LEMMA TransferType ==
    ASSUME TypeOK, NEW n \in Nodes, TransferStep(n)
    PROVE  TypeOK'
<1> USE NodeManagerAssumption DEF TypeOK, tableVars, qosVars, adminVars, dataNodeVars
<1>1. CASE GetAliveNode(n)
  <2>1. mode' \in Modes
    BY <1>1, NextModeType DEF GetAliveNode
  <2> QED
    BY <1>1, <2>1 DEF GetAliveNode
<1>2. CASE UsePreferredNode(n)
  BY <1>2 DEF UsePreferredNode
<1>3. CASE UseToken(n)
  BY <1>3 DEF UseToken
<1>4. CASE StartDownload(n)
  BY <1>4 DEF StartDownload
<1>5. CASE FinishTransfer(n)
  BY <1>5 DEF FinishTransfer
<1> QED
  BY <1>1, <1>2, <1>3, <1>4, <1>5 DEF TransferStep

\* A call that is still to be made belongs to a submitted policy, and the last
\* one to a policy that has thresholds.
PendingInv ==
    \A a \in Admins : update[a].step # "none" =>
        /\ update[a].policy \in Policies
        /\ update[a].step = "thresholds" => update[a].policy.enter # 0

TypeInv == TypeOK /\ PendingInv

\* The calls of a policy update keep the types; the validation of its body is
\* what keeps exit at or below enter.
LEMMA AdminType ==
    ASSUME TypeInv, NEW a \in Admins, AdminStep(a)
    PROVE  TypeInv'
<1> USE NodeManagerAssumption
    DEF TypeInv, TypeOK, tableVars, qosVars, adminVars, dataNodeVars
<1>1. ASSUME NEW p \in Policies, SetManualQosOverride(a, p)
      PROVE  TypeInv'
  <2>1. mode' \in Modes
    BY <1>1, RefreshType DEF SetManualQosOverride, Modes
  <2>2. update' \in [Admins -> [step: {"none", "limit", "thresholds"},
                                policy: Policies \union {NoPolicy}]]
    BY <1>1 DEF SetManualQosOverride
  <2>3. TypeOK'
    BY <1>1, <2>1, <2>2 DEF SetManualQosOverride, Modes
  <2> QED
    BY <1>1, <2>3 DEF SetManualQosOverride, PendingInv
<1>2. CASE SetGlobalBandwidthLimit(a)
  <2>1. update[a].policy \in Policies /\ update[a].policy.limit \in Limits
    BY <1>2 DEF SetGlobalBandwidthLimit, PendingInv
  <2>2. update' \in [Admins -> [step: {"none", "limit", "thresholds"},
                                policy: Policies \union {NoPolicy}]]
    BY <1>2 DEF SetGlobalBandwidthLimit, NoUpdate
  <2>3. TypeOK'
    BY <1>2, <2>1, <2>2 DEF SetGlobalBandwidthLimit
  <2>4. PendingInv'
    BY <1>2, <2>1 DEF SetGlobalBandwidthLimit, PendingInv, NoUpdate
  <2> QED
    BY <2>3, <2>4
<1>3. CASE SetStrictModeThresholds(a)
  <2>1. /\ update[a].policy.enter \in Nat \ {0}
        /\ update[a].policy.exit \in 0..update[a].policy.enter
    BY <1>3 DEF SetStrictModeThresholds, PendingInv
  <2>2. update' \in [Admins -> [step: {"none", "limit", "thresholds"},
                                policy: Policies \union {NoPolicy}]]
    BY <1>3 DEF SetStrictModeThresholds, NoUpdate
  <2>3. mode' \in Modes
    BY <1>3, RefreshType DEF SetStrictModeThresholds
  <2>4. TypeOK'
    BY <1>3, <2>1, <2>2, <2>3 DEF SetStrictModeThresholds
  <2>5. PendingInv'
    BY <1>3 DEF SetStrictModeThresholds, PendingInv, NoUpdate
  <2> QED
    BY <2>4, <2>5
<1> QED
  BY <1>1, <1>2, <1>3 DEF AdminStep

\* The restart of the master makes a well-typed table.
LEMMA RestartType ==
    ASSUME TypeInv, MasterRestart
    PROVE  TypeInv'
BY FreshMasterType, NodeManagerAssumption
DEF TypeInv, TypeOK, PendingInv, MasterRestart, Modes, NoUpdate, Links, Closed

\* Every step keeps the types.
LEMMA TypeStep == TypeInv /\ [Next]_vars => TypeInv'
<1> SUFFICES ASSUME TypeInv, [Next]_vars
             PROVE  TypeInv'
  OBVIOUS
<1> USE DEF TypeInv, tableVars, qosVars, adminVars, dataNodeVars
<1>1. ASSUME NEW n \in Nodes, NodeStep(n)
      PROVE  TypeInv'
  BY <1>1, NodeType
  DEF PendingInv, NodeStep, RegisterNode, SendHeartbeat, UpdateHeartbeat,
      ReceiveReply, FallSilent
<1>2. ASSUME NEW n \in Nodes, TransferStep(n)
      PROVE  TypeInv'
  BY <1>2, TransferType
  DEF PendingInv, TransferStep, GetAliveNode, UsePreferredNode, UseToken,
      StartDownload, FinishTransfer
<1>3. CASE CheckTimeoutNodes
  BY <1>3, RefreshType DEF CheckTimeoutNodes, TypeOK, PendingInv
<1>4. ASSUME NEW n \in Nodes, SetNodeManualDisabled(n) \/ SetNodeBandwidthLimit(n)
      PROVE  TypeInv'
  <2>1. disabled' \in [Nodes -> BOOLEAN] /\ nodeLimit' \in [Nodes -> Limits]
    <3>1. disabled \in [Nodes -> BOOLEAN] /\ nodeLimit \in [Nodes -> Limits]
      BY DEF TypeOK
    <3>2. CASE SetNodeManualDisabled(n)
      BY <3>1, <3>2 DEF SetNodeManualDisabled
    <3>3. CASE SetNodeBandwidthLimit(n)
      BY <3>1, <3>3 DEF SetNodeBandwidthLimit
    <3> QED
      BY <1>4, <3>2, <3>3
  <2>2. UNCHANGED <<node, transfers, qosVars, adminVars, placed, dataNodeVars>>
    BY <1>4 DEF SetNodeManualDisabled, SetNodeBandwidthLimit
  <2>3. TypeOK'
    BY <2>1, <2>2 DEF TypeOK
  <2>4. PendingInv'
    BY <2>2 DEF PendingInv
  <2> QED
    BY <2>3, <2>4
<1>5. ASSUME NEW a \in Admins, AdminStep(a)
      PROVE  TypeInv'
  BY <1>5, AdminType
<1>6. ASSUME NEW n \in Nodes, LoseConnection(n) \/ DataNodeRestart(n)
      PROVE  TypeInv'
  <2>1. Closed \in Links /\ Unlimited \in Bandwidth /\ 0 \in 0..MaxTransfers
    BY NodeManagerAssumption DEF Links, Bandwidth, Unlimited
  <2>2. CASE LoseConnection(n)
    BY <2>1, <2>2 DEF LoseConnection, TypeOK, PendingInv
  <2>3. CASE DataNodeRestart(n)
    BY <2>1, <2>3 DEF DataNodeRestart, TypeOK, PendingInv
  <2> QED
    BY <1>6, <2>2, <2>3
<1>7. CASE MasterRestart
  BY <1>7, RestartType
<1>8. CASE UNCHANGED vars
  BY <1>8 DEF vars, TypeOK, PendingInv
<1> QED
  BY <1>1, <1>2, <1>3, <1>4, <1>5, <1>6, <1>7, <1>8 DEF Next

\* Every variable keeps its type, and the exit threshold never passes the enter
\* threshold.
THEOREM TypeCorrect == Spec => []TypeOK
<1>1. Init => TypeInv
  BY TypeInit DEF TypeInv, PendingInv, Init, NoUpdate
<1>2. TypeInv => TypeOK
  BY DEF TypeInv
<1> QED
  BY <1>1, <1>2, TypeStep, PTL DEF Spec

-----------------------------------------------------------------------------
(* The mode follows the load.                                              *)

\* What a refresh makes of the mode when the thresholds are apart.
LEMMA Refreshed ==
    ASSUME NEW m \in Modes, NEW man \in Modes \union {"off"}, NEW en \in Nat,
           NEW ex \in Nat, ex < en, NEW total \in Nat
    PROVE  /\ man # "off" => NextMode(m, man, en, ex, total) = man
           /\ man = "off" /\ total <= ex
                => NextMode(m, man, en, ex, total) = "elastic"
           /\ man = "off" /\ total >= en
                => NextMode(m, man, en, ex, total) = "strict"
BY DEF NextMode, Modes

\* The thresholds stay apart, those of a policy update under way included.
ApartInv == exit < enter

ModeInv == TypeInv /\ ApartInv /\ ModeFollowsLoad

\* A critical section that ends with a refresh restores the invariant.
LEMMA RefreshFollows ==
    ASSUME TypeOK, TypeOK', ApartInv', RefreshMode
    PROVE  ModeFollowsLoad'
<1>1. mode' = NextMode(mode, manual', enter', exit', Total(node', transfers'))
  BY DEF RefreshMode
<1>2. Total(node', transfers') \in Nat
  BY TotalType
<1>3. /\ mode \in Modes /\ manual' \in Modes \union {"off"}
      /\ enter' \in Nat /\ exit' \in Nat /\ exit' < enter'
  BY DEF TypeOK, ApartInv
<1> QED
  BY <1>1, <1>2, <1>3, Refreshed DEF ModeFollowsLoad

\* A reservation adds one transfer to the total.
LEMMA ReservationCounts ==
    ASSUME TypeOK, NEW n \in Nodes, GetAliveNode(n)
    PROVE  Total(node', transfers') = Total(node, transfers) + 1
<1> DEFINE x == <<n, transfers[n] + 1>>
<1>1. node' = node /\ transfers[n] \in 0..MaxTransfers /\ transfers[n] < MaxTransfers
  BY DEF GetAliveNode, TypeOK
<1>2. transfers' = [transfers EXCEPT ![n] = transfers[n] + 1]
  BY DEF GetAliveNode
<1>3. x \notin Active(node, transfers)
  BY <1>1 DEF Active
<1>4. Active(node', transfers') = Active(node, transfers) \union {x}
  <2>1. x \in Nodes \X (1..MaxTransfers) /\ node[n] \in {"alive", "late"}
    BY <1>1, NodeManagerAssumption DEF GetAliveNode, IsAlive
  <2>2. ASSUME NEW k \in Nodes, NEW i \in 1..MaxTransfers
        PROVE  <<k, i>> \in Active(node', transfers')
                 <=> <<k, i>> \in Active(node, transfers) \/ <<k, i>> = x
    <3>1. transfers \in [Nodes -> 0..MaxTransfers]
      BY DEF TypeOK
    <3>2. CASE k = n
      <4>1. transfers'[n] = transfers[n] + 1
        BY <1>2, <3>1
      <4>2. i <= transfers[n] + 1 <=> i <= transfers[n] \/ i = transfers[n] + 1
        BY <1>1, NodeManagerAssumption
      <4> QED
        BY <3>2, <4>1, <4>2, <2>1, <1>1 DEF Active
    <3>3. CASE k # n
      BY <3>1, <3>3, <1>1, <1>2 DEF Active
    <3> QED
      BY <3>2, <3>3
  <2>3. \A y \in Nodes \X (1..MaxTransfers) :
           y \in Active(node', transfers')
             <=> y \in Active(node, transfers) \union {x}
    BY <2>2
  <2> QED
    BY <2>1, <2>3 DEF Active
<1> QED
  BY <1>3, <1>4, TotalType, FS_AddElement DEF Total

\* Choosing a node refreshes the mode and counts the transfer afterwards.
LEMMA ReservationFollows ==
    ASSUME ModeInv, TypeOK', NEW n \in Nodes, GetAliveNode(n)
    PROVE  ModeInv'
<1> DEFINE T == Total(node, transfers)
<1>1. T \in Nat /\ Total(node', transfers') = T + 1
  BY TotalType, ReservationCounts DEF ModeInv, TypeInv
<1>2. mode' = NextMode(mode, manual, enter, exit, T)
  BY DEF GetAliveNode
<1>3. UNCHANGED <<manual, enter, exit, update>>
  BY DEF GetAliveNode, adminVars
<1>4. /\ mode \in Modes /\ manual \in Modes \union {"off"}
      /\ enter \in Nat /\ exit \in Nat /\ exit < enter
  BY DEF ModeInv, TypeInv, TypeOK, ApartInv
<1> HIDE DEF T
<1>5. /\ manual # "off" => mode' = manual
      /\ manual = "off" /\ T <= exit => mode' = "elastic"
      /\ manual = "off" /\ T >= enter => mode' = "strict"
  BY <1>1, <1>2, <1>4, Refreshed
<1>6. (T + 1 <= exit => T <= exit) /\ (T + 1 > enter => T >= enter)
  BY <1>1, <1>4
<1>7. ModeFollowsLoad'
  BY <1>1, <1>3, <1>5, <1>6 DEF ModeFollowsLoad
<1> QED
  BY <1>3, <1>7 DEF ModeInv, TypeInv, PendingInv, ApartInv

\* A step that touches neither the mode nor what it depends on keeps the
\* invariant.
LEMMA ModeUntouched ==
    ASSUME ModeInv, TypeInv', UNCHANGED <<transfers, mode, manual, enter, exit>>,
           \A n \in Nodes : IsAlive(n)' <=> IsAlive(n)
    PROVE  ModeInv'
<1>1. Active(node', transfers') = Active(node, transfers)
  BY DEF Active, IsAlive
<1> QED
  BY <1>1 DEF ModeInv, ModeFollowsLoad, ApartInv, Total

\* Every step keeps the mode in line with the load.
LEMMA ModeStep ==
    ASSUME ThresholdsApart
    PROVE  ModeInv /\ [Next]_vars => ModeInv'
<1> SUFFICES ASSUME ModeInv, [Next]_vars
             PROVE  ModeInv'
  OBVIOUS
<1>1. TypeInv /\ TypeInv' /\ TypeOK /\ TypeOK' /\ ApartInv
  BY TypeStep DEF ModeInv, TypeInv
<1>2. ASSUME RefreshMode, UNCHANGED <<enter, exit>>
      PROVE  ModeInv'
  BY <1>1, <1>2, RefreshFollows DEF ModeInv, ApartInv
<1>3. ASSUME NEW n \in Nodes, NodeStep(n)
      PROVE  ModeInv'
  <2>1. CASE RegisterNode(n) \/ UpdateHeartbeat(n)
    BY <1>2, <2>1 DEF RegisterNode, UpdateHeartbeat
  <2>2. CASE SendHeartbeat(n) \/ ReceiveReply(n)
    BY <1>1, <2>2, ModeUntouched
    DEF SendHeartbeat, ReceiveReply, tableVars, qosVars, IsAlive
  <2>3. CASE FallSilent(n)
    <3>1. \A k \in Nodes : IsAlive(k)' <=> IsAlive(k)
      BY <1>1, <2>3 DEF FallSilent, IsAlive, TypeOK
    <3> QED
      BY <1>1, <2>3, <3>1, ModeUntouched DEF FallSilent, qosVars
  <2> QED
    BY <1>3, <2>1, <2>2, <2>3 DEF NodeStep
<1>4. ASSUME NEW n \in Nodes, TransferStep(n)
      PROVE  ModeInv'
  <2>1. CASE GetAliveNode(n)
    BY <1>1, <2>1, ReservationFollows
  <2>2. CASE UsePreferredNode(n) \/ UseToken(n) \/ StartDownload(n) \/ FinishTransfer(n)
    BY <1>1, <2>2, ModeUntouched
    DEF UsePreferredNode, UseToken, StartDownload, FinishTransfer, tableVars,
        qosVars, IsAlive
  <2> QED
    BY <1>4, <2>1, <2>2 DEF TransferStep
<1>5. CASE CheckTimeoutNodes
  BY <1>2, <1>5 DEF CheckTimeoutNodes
<1>6. ASSUME NEW n \in Nodes, SetNodeManualDisabled(n) \/ SetNodeBandwidthLimit(n)
      PROVE  ModeInv'
  BY <1>1, <1>6, ModeUntouched
  DEF SetNodeManualDisabled, SetNodeBandwidthLimit, qosVars, IsAlive
<1>7. ASSUME NEW a \in Admins, AdminStep(a)
      PROVE  ModeInv'
  <2>1. ASSUME NEW p \in Policies, SetManualQosOverride(a, p)
        PROVE  ModeInv'
    BY <1>2, <2>1 DEF SetManualQosOverride
  <2>2. CASE SetGlobalBandwidthLimit(a)
    BY <1>1, <2>2, ModeUntouched
    DEF SetGlobalBandwidthLimit, tableVars, qosVars, IsAlive
  <2>3. CASE SetStrictModeThresholds(a)
    <3>1. RefreshMode /\ ApartInv'
      BY <1>1, <2>3
      DEF SetStrictModeThresholds, TypeInv, PendingInv, ThresholdsApart, ApartInv
    <3> QED
      BY <1>1, <3>1, RefreshFollows DEF ModeInv
  <2> QED
    BY <1>7, <2>1, <2>2, <2>3 DEF AdminStep
<1>8. ASSUME NEW n \in Nodes, LoseConnection(n) \/ DataNodeRestart(n)
      PROVE  ModeInv'
  BY <1>1, <1>8, ModeUntouched
  DEF LoseConnection, DataNodeRestart, tableVars, qosVars, IsAlive
<1>9. CASE MasterRestart
  <2>1. /\ node' = [n \in Nodes |-> "unknown"]
        /\ mode' = "elastic" /\ manual' = "off"
        /\ enter' = ConfigEnter /\ exit' = ConfigExit
    BY <1>9 DEF MasterRestart, FreshMaster
  <2>2. Total(node', transfers') = 0
    BY <2>1, FS_EmptySet DEF Total, Active
  <2>3. enter' \in Nat \ {0}
    BY <2>1, NodeManagerAssumption
  <2> QED
    BY <1>1, <2>1, <2>2, <2>3
    DEF ModeInv, ModeFollowsLoad, ApartInv, ThresholdsApart
<1>10. CASE UNCHANGED vars
  BY <1>1, <1>10, ModeUntouched DEF vars, tableVars, qosVars, IsAlive
<1> QED
  BY <1>3, <1>4, <1>5, <1>6, <1>7, <1>8, <1>9, <1>10 DEF Next

\* As long as every setting keeps the thresholds apart, the mode follows the
\* load: elastic at or below exit, strict above enter.
THEOREM ModeFollows ==
    ASSUME ThresholdsApart
    PROVE  Spec => []ModeFollowsLoad
<1>1. Init => ModeInv
  <2> SUFFICES ASSUME Init
               PROVE  ModeInv
    OBVIOUS
  <2>1. TypeInv
    BY TypeInit DEF TypeInv, PendingInv, Init, NoUpdate
  <2>2. Total(node, transfers) = 0
    BY FS_EmptySet DEF Init, FreshMaster, Total, Active
  <2> QED
    BY <2>1, <2>2 DEF Init, ModeInv, ModeFollowsLoad, ApartInv, ThresholdsApart,
                      TypeInv, TypeOK
<1>2. ModeInv /\ [Next]_vars => ModeInv'
  BY ModeStep
<1>3. ModeInv => ModeFollowsLoad
  BY DEF ModeInv
<1> QED
  BY <1>1, <1>2, <1>3, PTL DEF Spec

-----------------------------------------------------------------------------
(***************************************************************************)
(* The storage of a user.                                                  *)
(***************************************************************************)

-----------------------------------------------------------------------------
(* What holds between the statements of the requests of a user.            *)

\* Where the requests of each kind are.
StepsOfRequests ==
    \A t \in Threads :
        /\ pc[t] = "idle" => job[t].op = "none"
        /\ pc[t] \in {"quota", "insert"} => job[t].op = "upload"
        /\ pc[t] \in {"base", "segment"} =>
              \/ job[t].op = "upload" /\ job[t].size \in Sizes
              \/ job[t].op = "create" /\ job[t].todo # << >>
        /\ pc[t] = "segment" => job[t].todo # << >>
        /\ pc[t] \in {"quota", "insert"} => job[t].size \in Sizes
        /\ pc[t] \in {"select", "files", "folders"} => job[t].op = "delete"

\* A request that makes something beside a deletion counts as crossed.
CrossedMarked == \A t \in Making : Deleting # {} => t \in crossed

\* What is in the recycle bin, or was.
BinMarked ==
    \A f \in DOMAIN files :
        files[f].deleted => f \in unchecked /\ <<"file", f>> \in loose

\* What an upload that got through the quota is about to add.
Admitted ==
    {t \in Threads : /\ pc[t] \in {"base", "segment", "insert"}
                     /\ job[t].op = "upload"
                     /\ job[t].checked}

SizesAdmitted == SumFunctionOnSet([t \in Threads |-> job[t].size], Admitted)

\* The file that is checked last finds room for itself; the others were let in
\* beside it.
RoomForAdmitted ==
    BytesOf(Live \ unchecked) + SizesAdmitted
        <= Quota + (Cardinality(Threads) - 1) * Largest

\* A request that no deletion crossed has read a folder that is still there.
FolderOfJob ==
    \A t \in Making \ crossed :
        /\ pc[t] \in {"segment", "insert"} /\ job[t].folder # Root => IsFolder(job[t].folder)
        /\ pc[t] = "segment" =>
              \/ job[t].folder = Root /\ job[t].path = << >>
              \/ \E row \in folders : row.id = job[t].folder /\ row.path = job[t].path

\* A row below another one.
IsChild(row, up) ==
    /\ row.parent = up.id
    /\ IsPrefix(up.path, row.path)
    /\ Len(up.path) = Len(row.path) - 1

RowsLinked ==
    \A row \in folders :
        \/ row.parent = Root /\ Len(row.path) = 1
        \/ \E up \in folders : IsChild(row, up)
        \/ <<"folder", row.id>> \in loose

\* The folder that a deletion is for, until it is gone.
AskedOfDeletion ==
    \A t \in Deleting :
        /\ job[t].asked <= lastId
        /\ \A row \in folders : row.id = job[t].asked => row.path = job[t].path

\* What a deletion has selected has no child left behind, and the files in it
\* are gone before the folders are.
SelectionClosed ==
    \A t \in Threads :
        /\ pc[t] \in {"files", "folders"} =>
              \A row \in folders :
                  row.parent \in job[t].ids /\ <<"folder", row.id>> \notin loose
                      => row.id \in job[t].ids
        /\ pc[t] = "folders" =>
              \A f \in Live : files[f].folder \in job[t].ids => <<"file", f>> \in loose

StorageInv ==
    /\ StorageTypeOK /\ StepsOfRequests /\ CrossedMarked /\ BinMarked
    /\ RoomForAdmitted /\ FilesFound
    /\ FolderOfJob /\ RowsLinked /\ AskedOfDeletion /\ SelectionClosed
-----------------------------------------------------------------------------
(* Sums over finite sets.                                                  *)

\* What the fold of a sum computes for the set r, from what g has for smaller ones.
Folded(w, g, r) ==
    IF r = {} THEN 0
    ELSE w[CHOOSE x \in r : TRUE] + g[r \ {CHOOSE x \in r : TRUE}]

\* g is the table of the sums of all subsets of S.
Table(w, S, g) == g = [r \in SUBSET S |-> Folded(w, g, r)]

TheTable(w, S) == CHOOSE g : Table(w, S, g)

\* Induction on finite sets: a counterexample would have a smallest one.
LEMMA SmallestSubset ==
  ASSUME NEW S, IsFiniteSet(S), NEW P \in SUBSET (SUBSET S), P # {}
  PROVE  \E r \in P : \A q \in SUBSET r : q # r => q \notin P
<1>1. IsWellFoundedOn(StrictSubsetOrdering(S), SUBSET S)
  BY FS_StrictSubsetOrderingWellFounded, FS_FiniteSubsetsOfFinite
<1>2. PICK r \in P : \A q \in P : <<q, r>> \notin StrictSubsetOrdering(S)
  <2> HIDE <1>1 DEF StrictSubsetOrdering
  <2> QED
    BY <1>1, WFMin
<1>3. ASSUME NEW q \in SUBSET r, q # r, q \in P PROVE FALSE
  BY <1>2, <1>3 DEF StrictSubsetOrdering
<1> QED
  BY <1>3

\* Two tables agree where both are defined.
LEMMA TablesAgree ==
  ASSUME NEW w, NEW S, IsFiniteSet(S), NEW T \in SUBSET S, NEW g, NEW h,
         Table(w, S, g), Table(w, T, h)
  PROVE  \A r \in SUBSET T : g[r] = h[r]
<1> DEFINE P == {r \in SUBSET T : g[r] # h[r]}
<1> SUFFICES ASSUME P # {} PROVE FALSE
  OBVIOUS
<1>1. PICK r \in P : \A q \in SUBSET r : q # r => q \notin P
  <2>1. P \in SUBSET (SUBSET S)
    OBVIOUS
  <2> HIDE DEF P
  <2> QED
    BY <2>1, SmallestSubset
<1>2. g[r] = Folded(w, g, r) /\ h[r] = Folded(w, h, r)
  BY <1>1 DEF Table
<1>3. CASE r = {}
  BY <1>1, <1>2, <1>3 DEF Folded
<1>4. CASE r # {}
  <2> DEFINE c == CHOOSE x \in r : TRUE
  <2>1. c \in r
    BY <1>4
  <2>2. g[r] = w[c] + g[r \ {c}] /\ h[r] = w[c] + h[r \ {c}]
    BY <1>2, <1>4 DEF Folded
  <2>3. g[r \ {c}] = h[r \ {c}]
    BY <1>1, <2>1
  <2> QED
    BY <1>1, <2>2, <2>3
<1> QED
  BY <1>3, <1>4

\* The fold of a sum is defined, though its definition is recursive.
LEMMA TableExists ==
  ASSUME NEW w, NEW S, IsFiniteSet(S)
  PROVE  Table(w, S, TheTable(w, S))
<1> DEFINE A(r) == TheTable(w, r)
           P == {r \in SUBSET S : ~Table(w, r, A(r))}
<1>1. ASSUME NEW s \in SUBSET S, \A q \in SUBSET s : q # s => Table(w, q, A(q))
      PROVE  Table(w, s, A(s))
  <2> DEFINE E(r) == IF r = {} THEN 0
                     ELSE w[CHOOSE x \in r : TRUE] +
                            A(r \ {CHOOSE x \in r : TRUE})[r \ {CHOOSE x \in r : TRUE}]
             g == [r \in SUBSET s |-> E(r)]
  <2>1. ASSUME NEW r \in SUBSET s, r # s PROVE A(r)[r] = E(r)
    <3> DEFINE c == CHOOSE x \in r : TRUE
    <3>1. Table(w, r, A(r)) /\ IsFiniteSet(r)
      BY <1>1, <2>1, FS_Subset
    <3>2. A(r)[r] = Folded(w, A(r), r)
      BY <3>1 DEF Table
    <3>3. CASE r = {}
      BY <3>2, <3>3 DEF Folded
    <3>4. CASE r # {}
      <4>1. c \in r
        BY <3>4
      <4>2. Table(w, r \ {c}, A(r \ {c}))
        BY <1>1, <2>1, <4>1
      <4>3. A(r)[r \ {c}] = A(r \ {c})[r \ {c}]
        <5>1. r \ {c} \in SUBSET r
          OBVIOUS
        <5> HIDE DEF A, c
        <5>2. \A q \in SUBSET (r \ {c}) : A(r)[q] = A(r \ {c})[q]
          BY <3>1, <4>2, <5>1, TablesAgree
        <5> QED
          BY <5>2
      <4>4. A(r)[r] = w[c] + A(r)[r \ {c}]
        BY <3>2, <3>4 DEF Folded
      <4>5. E(r) = w[c] + A(r \ {c})[r \ {c}]
        BY <3>4
      <4> QED
        BY <4>3, <4>4, <4>5
    <3> QED
      BY <3>3, <3>4
  <2>2. ASSUME NEW r \in SUBSET s PROVE g[r] = Folded(w, g, r)
    <3> DEFINE c == CHOOSE x \in r : TRUE
    <3>1. CASE r = {}
      BY <3>1 DEF Folded
    <3>2. CASE r # {}
      <4>1. c \in r
        BY <3>2
      <4>2. r \ {c} \in SUBSET s /\ r \ {c} # s
        BY <4>1
      <4>3. g[r \ {c}] = A(r \ {c})[r \ {c}]
        <5> HIDE DEF E, A, c
        <5> QED BY <2>1, <4>2
      <4>4. g[r] = w[c] + A(r \ {c})[r \ {c}]
        BY <3>2
      <4>5. Folded(w, g, r) = w[c] + g[r \ {c}]
        BY <3>2 DEF Folded
      <4> QED
        BY <4>3, <4>4, <4>5
    <3> QED
      BY <3>1, <3>2
  <2>3. Table(w, s, g)
    <3> HIDE DEF E
    <3>1. \A r \in SUBSET s : E(r) = Folded(w, g, r)
      BY <2>2
    <3>2. g = [r \in SUBSET s |-> Folded(w, g, r)]
      BY <3>1
    <3> QED
      BY <3>2 DEF Table
  <2>4. \E h : Table(w, s, h)
    <3> HIDE DEF g
    <3> QED BY <2>3
  <2> QED
    BY <2>4 DEF TheTable
<1>2. P = {}
  <2> SUFFICES ASSUME P # {} PROVE FALSE
    OBVIOUS
  <2>1. PICK r \in P : \A q \in SUBSET r : q # r => q \notin P
    <3>1. P \in SUBSET (SUBSET S)
      OBVIOUS
    <3> HIDE DEF P
    <3> QED
      BY <3>1, SmallestSubset
  <2>2. r \in SUBSET S /\ \A q \in SUBSET r : q # r => Table(w, q, A(q))
    BY <2>1
  <2> QED
    BY <1>1, <2>1, <2>2
<1> QED
  BY <1>2

\* A sum is the entry of its set in the table.
LEMMA SumIsFolded ==
  ASSUME NEW w, NEW S
  PROVE  SumFunctionOnSet(w, S) = TheTable(w, S)[S]
BY DEF SumFunctionOnSet, FoldFunctionOnSet, MapThenFoldSet, TheTable, Table, Folded

\* Any table gives the sums of all the subsets of its set.
LEMMA SumOfSubset ==
  ASSUME NEW w, NEW S, IsFiniteSet(S), NEW T \in SUBSET S
  PROVE  TheTable(w, S)[T] = SumFunctionOnSet(w, T)
<1>1. Table(w, S, TheTable(w, S))
  BY TableExists
<1>2. Table(w, T, TheTable(w, T))
  BY FS_Subset, TableExists
<1> QED
  BY <1>1, <1>2, TablesAgree, SumIsFolded

\* A sum is a term and the sum of the others, for the term that is chosen.
LEMMA SumUnfolds ==
  ASSUME NEW w, NEW S, IsFiniteSet(S)
  PROVE  /\ S = {} => SumFunctionOnSet(w, S) = 0
         /\ S # {} => LET c == CHOOSE x \in S : TRUE
                      IN SumFunctionOnSet(w, S) = w[c] + SumFunctionOnSet(w, S \ {c})
<1>1. TheTable(w, S)[S] = Folded(w, TheTable(w, S), S)
  <2> DEFINE g == TheTable(w, S)
  <2>1. Table(w, S, g)
    BY TableExists
  <2> HIDE DEF g
  <2>2. g[S] = Folded(w, g, S)
    BY <2>1 DEF Table
  <2> QED
    BY <2>2 DEF g
<1>2. CASE S = {}
  BY <1>1, <1>2, SumIsFolded DEF Folded
<1>3. CASE S # {}
  <2> DEFINE c == CHOOSE x \in S : TRUE
  <2>1. TheTable(w, S)[S \ {c}] = SumFunctionOnSet(w, S \ {c})
    BY SumOfSubset
  <2>2. SumFunctionOnSet(w, S) = w[c] + TheTable(w, S)[S \ {c}]
    BY <1>1, <1>3, SumIsFolded DEF Folded
  <2> QED
    BY <1>3, <2>1, <2>2
<1> QED
  BY <1>2, <1>3

\* A sum of natural numbers is one, and does not depend on the order.
LEMMA SumRemove ==
  ASSUME NEW S, IsFiniteSet(S), NEW w, \A x \in S : w[x] \in Nat
  PROVE  /\ SumFunctionOnSet(w, S) \in Nat
         /\ \A x \in S : SumFunctionOnSet(w, S) = w[x] + SumFunctionOnSet(w, S \ {x})
<1> DEFINE Sum(r) == SumFunctionOnSet(w, r)
           Good(r) == Sum(r) \in Nat /\ \A x \in r : Sum(r) = w[x] + Sum(r \ {x})
           P == {r \in SUBSET S : ~Good(r)}
<1>1. ASSUME NEW s \in SUBSET S, \A q \in SUBSET s : q # s => Good(q)
      PROVE  Good(s)
  <2>1. IsFiniteSet(s)
    BY FS_Subset
  <2>2. CASE s = {}
    <3>1. Sum(s) = 0
      BY <2>1, <2>2, SumUnfolds
    <3> HIDE DEF Sum
    <3> QED
      BY <2>2, <3>1
  <2>3. CASE s # {}
    <3>1. PICK c \in s : Sum(s) = w[c] + Sum(s \ {c})
      BY <2>1, <2>3, SumUnfolds
    <3>2. Good(s \ {c}) /\ w[c] \in Nat
      BY <1>1
    <3>3. Sum(s) \in Nat
      BY <3>1, <3>2
    <3>4. ASSUME NEW x \in s, x # c PROVE Sum(s) = w[x] + Sum(s \ {x})
      <4>1. Sum(s \ {c}) = w[x] + Sum((s \ {c}) \ {x})
        BY <3>2, <3>4
      <4>2. Good(s \ {x}) /\ w[x] \in Nat
        BY <1>1
      <4>3. Sum(s \ {x}) = w[c] + Sum((s \ {x}) \ {c})
        BY <3>4, <4>2
      <4>4. (s \ {x}) \ {c} = (s \ {c}) \ {x}
        OBVIOUS
      <4>5. Sum((s \ {c}) \ {x}) \in Nat
        BY <1>1
      <4>6. w[x] \in Nat /\ w[c] \in Nat
        BY <3>2, <4>2
      <4>7. Sum(s \ {x}) = w[c] + Sum((s \ {c}) \ {x})
        BY <4>3, <4>4
      <4> HIDE DEF Sum
      <4>8. \A i, j, k \in Nat : i + (j + k) = j + (i + k)
        OBVIOUS
      <4> QED
        BY <3>1, <4>1, <4>5, <4>6, <4>7, <4>8
    <3> QED
      BY <3>1, <3>3, <3>4
  <2> QED
    BY <2>2, <2>3
<1>2. P = {}
  <2> SUFFICES ASSUME P # {} PROVE FALSE
    OBVIOUS
  <2>1. PICK r \in P : \A q \in SUBSET r : q # r => q \notin P
    <3>1. P \in SUBSET (SUBSET S)
      OBVIOUS
    <3> HIDE DEF P
    <3> QED
      BY <3>1, SmallestSubset
  <2> HIDE DEF Good
  <2> QED
    BY <1>1, <2>1
<1> QED
  BY <1>2

\* A sum over less, of the same numbers, is no larger.
LEMMA SumLess ==
  ASSUME NEW S, IsFiniteSet(S), NEW T \in SUBSET S, NEW w, NEW v,
         \A x \in S : w[x] \in Nat, \A x \in T : v[x] = w[x]
  PROVE  /\ SumFunctionOnSet(w, S) \in Nat /\ SumFunctionOnSet(v, T) \in Nat
         /\ SumFunctionOnSet(v, T) <= SumFunctionOnSet(w, S)
         /\ T = S => SumFunctionOnSet(v, T) = SumFunctionOnSet(w, S)
<1> DEFINE Less(r) == \A q \in SUBSET r : q \subseteq T =>
                  /\ SumFunctionOnSet(v, q) <= SumFunctionOnSet(w, r)
                  /\ q = r => SumFunctionOnSet(v, q) = SumFunctionOnSet(w, r)
           P == {r \in SUBSET S : ~Less(r)}
<1>1. ASSUME NEW s \in SUBSET S, \A r \in SUBSET s : r # s => Less(r)
      PROVE  Less(s)
  <2> SUFFICES ASSUME NEW q \in SUBSET s, q \subseteq T
               PROVE  /\ SumFunctionOnSet(v, q) <= SumFunctionOnSet(w, s)
                      /\ q = s => SumFunctionOnSet(v, q) = SumFunctionOnSet(w, s)
    OBVIOUS
  <2>1. IsFiniteSet(s) /\ IsFiniteSet(q)
    BY FS_Subset
  <2>2. \A x \in q : v[x] \in Nat
    OBVIOUS
  <2>3. CASE s = {}
    <3>1. SumFunctionOnSet(v, q) = 0 /\ SumFunctionOnSet(w, s) = 0
      BY <2>1, <2>3, SumUnfolds
    <3> QED
      BY <3>1
  <2>4. CASE s # {}
    <3>1. PICK c \in s : TRUE
      BY <2>4
    <3>2. /\ SumFunctionOnSet(w, s) = w[c] + SumFunctionOnSet(w, s \ {c})
          /\ SumFunctionOnSet(w, s \ {c}) \in Nat /\ w[c] \in Nat
      <4>1. IsFiniteSet(s \ {c})
        BY <2>1, FS_Subset
      <4> QED
        BY <2>1, <4>1, SumRemove
    <3>3. Less(s \ {c})
      BY <1>1
    <3>4. CASE c \in q
      <4>1. /\ SumFunctionOnSet(v, q) = v[c] + SumFunctionOnSet(v, q \ {c})
            /\ SumFunctionOnSet(v, q \ {c}) \in Nat
        <5>1. IsFiniteSet(q \ {c})
          BY <2>1, FS_Subset
        <5> QED
          BY <2>1, <2>2, <3>4, <5>1, SumRemove
      <4>2. /\ SumFunctionOnSet(v, q \ {c}) <= SumFunctionOnSet(w, s \ {c})
            /\ q = s => SumFunctionOnSet(v, q \ {c}) = SumFunctionOnSet(w, s \ {c})
        BY <3>3
      <4>3. v[c] = w[c]
        BY <3>4
      <4> QED
        BY <3>2, <4>1, <4>2, <4>3
    <3>5. CASE c \notin q
      <4>1. SumFunctionOnSet(v, q) <= SumFunctionOnSet(w, s \ {c})
        BY <3>3, <3>5
      <4>2. SumFunctionOnSet(v, q) \in Nat
        BY <2>1, <2>2, SumRemove
      <4> QED
        BY <3>1, <3>2, <3>5, <4>1, <4>2
    <3> QED
      BY <3>4, <3>5
  <2> QED
    BY <2>3, <2>4
<1>2. P = {}
  <2> SUFFICES ASSUME P # {} PROVE FALSE
    OBVIOUS
  <2>1. PICK r \in P : \A q \in SUBSET r : q # r => q \notin P
    <3>1. P \in SUBSET (SUBSET S)
      OBVIOUS
    <3> HIDE DEF P
    <3> QED
      BY <3>1, SmallestSubset
  <2> HIDE DEF Less
  <2> QED
    BY <1>1, <2>1
<1>3. Less(S)
  <2> HIDE DEF Less
  <2> QED
    BY <1>2
<1>4. SumFunctionOnSet(w, S) \in Nat /\ SumFunctionOnSet(v, T) \in Nat
  <2>1. IsFiniteSet(T) /\ \A x \in T : v[x] \in Nat
    BY FS_Subset
  <2> QED
    BY <2>1, SumRemove
<1> QED
  BY <1>3, <1>4

\* A sum of numbers that have a bound.
LEMMA SumBounded ==
  ASSUME NEW S, IsFiniteSet(S), NEW w, NEW L \in Nat, \A x \in S : w[x] \in 0..L
  PROVE  SumFunctionOnSet(w, S) <= Cardinality(S) * L
<1> DEFINE Bounded(r) == SumFunctionOnSet(w, r) <= Cardinality(r) * L
           P == {r \in SUBSET S : ~Bounded(r)}
<1>1. ASSUME NEW s \in SUBSET S, \A r \in SUBSET s : r # s => Bounded(r)
      PROVE  Bounded(s)
  <2>1. IsFiniteSet(s)
    BY FS_Subset
  <2>2. CASE s = {}
    <3>1. SumFunctionOnSet(w, s) = 0 /\ Cardinality(s) = 0
      BY <2>1, <2>2, SumUnfolds, FS_EmptySet
    <3> QED
      BY <3>1
  <2>3. CASE s # {}
    <3>1. PICK c \in s : TRUE
      BY <2>3
    <3>2. /\ SumFunctionOnSet(w, s) = w[c] + SumFunctionOnSet(w, s \ {c})
          /\ SumFunctionOnSet(w, s \ {c}) \in Nat /\ w[c] \in 0..L
      <4>1. IsFiniteSet(s \ {c}) /\ \A x \in s : w[x] \in Nat
        BY <2>1, FS_Subset
      <4> QED
        BY <2>1, <4>1, SumRemove
    <3>3. Cardinality(s \ {c}) = Cardinality(s) - 1 /\ Cardinality(s) \in Nat
      BY <2>1, FS_RemoveElement, FS_CardinalityType
    <3>4. SumFunctionOnSet(w, s \ {c}) <= Cardinality(s \ {c}) * L
      BY <1>1, <3>1
    <3> DEFINE k == Cardinality(s)
    <3>5. ASSUME NEW i \in Int PROVE (i - 1) * L + L = i * L /\ (i - 1) * L \in Int
      OBVIOUS
    <3>6. (k - 1) * L + L = k * L /\ (k - 1) * L \in Int
      <4>1. k \in Int
        BY <3>3
      <4> HIDE DEF k
      <4> QED
        BY <3>5, <4>1
    <3> QED
      BY <3>2, <3>3, <3>4, <3>6
  <2> QED
    BY <2>2, <2>3
<1>2. P = {}
  <2> SUFFICES ASSUME P # {} PROVE FALSE
    OBVIOUS
  <2>1. PICK r \in P : \A q \in SUBSET r : q # r => q \notin P
    <3>1. P \in SUBSET (SUBSET S)
      OBVIOUS
    <3> HIDE DEF P
    <3> QED
      BY <3>1, SmallestSubset
  <2> HIDE DEF Bounded
  <2> QED
    BY <1>1, <2>1
<1> QED
  BY <1>2

-----------------------------------------------------------------------------
\* Requests keep the types of their records.
LEMMA StorageTypeInit == StorageInit => StorageTypeOK
BY StorageAssumption, EmptySeq DEF StorageInit, StorageTypeOK, NoJob, Jobs, Root

\* A request that has not begun.
LEMMA NoJobType == NoJob \in Jobs
BY EmptySeq, StorageAssumption DEF NoJob, Jobs, Root

\* What a step writes into the record of a request.
LEMMA JobTypes ==
    ASSUME NEW j \in Jobs, NEW d \in 0..MaxFolders
    PROVE  /\ \A s \in Seq(Names), size \in Sizes :
                  [j EXCEPT !.op = "upload", !.asked = d, !.todo = s, !.size = size] \in Jobs
           /\ \A s \in Seq(Names) :
                  /\ [j EXCEPT !.op = "create", !.asked = d, !.todo = s] \in Jobs
                  /\ [j EXCEPT !.op = "delete", !.asked = d, !.path = s] \in Jobs
                  /\ [j EXCEPT !.folder = d, !.path = s] \in Jobs
                  /\ [j EXCEPT !.folder = d, !.todo = s] \in Jobs
           /\ \A s, p \in Seq(Names) :
                  [j EXCEPT !.folder = d, !.path = p, !.todo = s] \in Jobs
BY DEF Jobs

\* A request that ends.
LEMMA DoneType ==
    ASSUME StorageTypeOK, NEW t \in Threads, Done(t)
    PROVE  /\ pc' = [pc EXCEPT ![t] = "idle"] /\ pc' \in [Threads -> {"idle", "quota", "base", "segment", "insert", "select", "files", "folders"}]
           /\ job' = [job EXCEPT ![t] = NoJob] /\ job' \in [Threads -> Jobs]
           /\ crossed' = crossed \ {t} /\ crossed' \subseteq Threads
BY NoJobType DEF StorageTypeOK, Done, Goto

\* ensureUserFolderByPath that returns 0, for an upload and for a new folder.
LEMMA ReturnsZeroType ==
    ASSUME StorageTypeOK, NEW t \in Threads, ReturnsZero(t)
    PROVE  /\ pc' \in [Threads -> {"idle", "quota", "base", "segment", "insert", "select", "files", "folders"}]
           /\ job' \in [Threads -> Jobs]
           /\ crossed' \subseteq Threads
<1>1. CASE Done(t)
  BY <1>1, DoneType
<1>2. CASE /\ job' = [job EXCEPT ![t].folder = Root, ![t].todo = << >>]
           /\ Goto(t, "insert")
           /\ UNCHANGED crossed
  <2>1. job[t] \in Jobs /\ Root \in 0..MaxFolders /\ << >> \in Seq(Names)
    BY EmptySeq, StorageAssumption DEF StorageTypeOK, Root
  <2>2. [job[t] EXCEPT !.folder = Root, !.todo = << >>] \in Jobs
    BY <2>1, JobTypes
  <2>3. job' = [job EXCEPT ![t] = [job[t] EXCEPT !.folder = Root, !.todo = << >>]]
    BY <1>2
  <2> QED
    BY <1>2, <2>2, <2>3 DEF StorageTypeOK, Goto
<1> QED
  BY <1>1, <1>2 DEF ReturnsZero

\* The steps of the three requests keep the types.
LEMMA StorageRequestType ==
    ASSUME StorageTypeOK, StepsOfRequests, NEW t \in Threads
    PROVE  /\ \A d \in 0..lastId, segments \in Seq(Names), size \in Sizes :
                  StartUpload(t, d, segments, size) => StorageTypeOK'
           /\ \A d \in 0..lastId, n \in Names : StartCreate(t, d, n) => StorageTypeOK'
           /\ \A d \in 0..lastId : StartDelete(t, d) => StorageTypeOK'
           /\ CheckQuota(t) => StorageTypeOK'
           /\ ReadBase(t) => StorageTypeOK'
           /\ EnsureSegment(t) => StorageTypeOK'
           /\ SegmentFails(t) => StorageTypeOK'
           /\ InsertFile(t) => StorageTypeOK'
           /\ SelectFolders(t) => StorageTypeOK'
           /\ DeleteFiles(t) => StorageTypeOK'
           /\ DeleteFolders(t) => StorageTypeOK'
           /\ GiveUp(t) => StorageTypeOK'
<1> USE StorageAssumption DEF tables
<1>0. job[t] \in Jobs /\ lastId \in Nat /\ started \in Nat
  BY DEF StorageTypeOK
<1>1. ASSUME NEW d \in 0..lastId, NEW newJob \in Jobs, NEW where \in {"quota", "base"}, Start(t, d, newJob, where)
      PROVE  StorageTypeOK'
  BY <1>0, <1>1 DEF StorageTypeOK, Start, Goto
<1>2. ASSUME NEW d \in 0..lastId, NEW segments \in Seq(Names), NEW size \in Sizes,
             StartUpload(t, d, segments, size)
      PROVE  StorageTypeOK'
  <2>1. [NoJob EXCEPT !.op = "upload", !.asked = d, !.todo = segments, !.size = size] \in Jobs
    <3>1. d \in 0..MaxFolders
      BY DEF StorageTypeOK
    <3> QED
      BY <3>1, NoJobType, JobTypes
  <2> QED
    BY <1>1, <1>2, <2>1 DEF StartUpload
<1>3. ASSUME NEW d \in 0..lastId, NEW n \in Names, StartCreate(t, d, n)
      PROVE  StorageTypeOK'
  <2>1. [NoJob EXCEPT !.op = "create", !.asked = d, !.todo = <<n>>] \in Jobs
    <3>1. <<n>> \in Seq(Names) /\ d \in 0..MaxFolders
      BY DEF StorageTypeOK
    <3> QED
      BY <3>1, NoJobType, JobTypes
  <2> QED
    BY <1>1, <1>3, <2>1 DEF StartCreate
<1>4. ASSUME NEW d \in 0..lastId, StartDelete(t, d)
      PROVE  StorageTypeOK'
  <2>1. Row(d) \in FolderRows
    BY <1>4 DEF StartDelete, IsFolder, Row, StorageTypeOK
  <2>2. [NoJob EXCEPT !.op = "delete", !.asked = d, !.path = Row(d).path] \in Jobs
    <3>1. Row(d).path \in Seq(Names) /\ d \in 0..MaxFolders
      BY <2>1 DEF StorageTypeOK, FolderRows
    <3> QED
      BY <3>1, NoJobType, JobTypes
  <2> QED
    BY SMTT(30), <1>0, <1>4, <2>2 DEF StorageTypeOK, StartDelete, Goto, Making
<1>5. ASSUME CheckQuota(t) PROVE StorageTypeOK'
  <2>1. CASE Done(t)
    BY <1>5, <2>1, DoneType DEF StorageTypeOK, CheckQuota
  <2>2. CASE Goto(t, "base") /\ UNCHANGED <<job, crossed>>
    BY <1>5, <2>2 DEF StorageTypeOK, CheckQuota, Goto
  <2>3. CASE Goto(t, "base") /\ job' = [job EXCEPT ![t].checked = FALSE] /\ UNCHANGED crossed
    <3>1. job' \in [Threads -> Jobs]
      BY <1>0, <2>3 DEF StorageTypeOK, Jobs
    <3> QED
      BY <1>5, <2>3, <3>1 DEF StorageTypeOK, CheckQuota, Goto
  <2> QED
    BY <1>5, <2>1, <2>2, <2>3 DEF CheckQuota
<1>6. ASSUME ReadBase(t) PROVE StorageTypeOK'
  <2>1. CASE ReturnsZero(t)
    BY <1>6, <2>1, ReturnsZeroType DEF StorageTypeOK, ReadBase
  <2>2. CASE /\ job[t].asked = Root \/ IsFolder(job[t].asked)
             /\ job' = [job EXCEPT ![t].folder = job[t].asked,
                          ![t].path = IF job[t].asked = Root THEN << >> ELSE Row(job[t].asked).path]
             /\ AfterSegments(t, job[t].todo)
             /\ UNCHANGED crossed
    <3>1. (IF job[t].asked = Root THEN << >> ELSE Row(job[t].asked).path) \in Seq(Names)
      BY <2>2, EmptySeq DEF IsFolder, Row, StorageTypeOK, FolderRows
    <3>2. job' \in [Threads -> Jobs]
      <4>1. job[t].asked \in 0..MaxFolders
        BY <1>0 DEF Jobs
      <4> QED
        BY <1>0, <2>2, <3>1, <4>1, JobTypes DEF StorageTypeOK
    <3> QED
      BY <1>6, <2>2, <3>2 DEF StorageTypeOK, ReadBase, AfterSegments, Goto
  <2> QED
    BY <1>6, <2>1, <2>2 DEF ReadBase
<1>7. ASSUME SegmentFails(t) PROVE StorageTypeOK'
  BY <1>7, ReturnsZeroType DEF StorageTypeOK, SegmentFails
<1>8. ASSUME InsertFile(t) PROVE StorageTypeOK'
  <2> DEFINE row == [size |-> job[t].size, folder |-> job[t].folder, deleted |-> FALSE]
  <2>1. row \in FileRows
    BY <1>0, <1>8 DEF FileRows, Jobs, InsertFile, StepsOfRequests
  <2>2. /\ files' \in Seq(FileRows) /\ Len(files') = Len(files) + 1
        /\ DOMAIN files = 1..Len(files) /\ DOMAIN files' = 1..(Len(files) + 1)
        /\ Len(files) \in Nat
    <3> HIDE DEF row
    <3>1. files \in Seq(FileRows)
      BY DEF StorageTypeOK
    <3>2. files' = Append(files, row)
      BY <1>8 DEF InsertFile, row
    <3> QED
      BY <2>1, <3>1, <3>2, AppendProperties, LenProperties
  <2>3. /\ Done(t) /\ Len(files) + 1 <= MaxFiles /\ UNCHANGED <<folders, lastId, started>>
        /\ unchecked' \subseteq unchecked \union {Len(files) + 1}
        /\ loose' \subseteq loose \union {<<"file", Len(files) + 1>>}
    BY <1>8 DEF InsertFile
  <2>4. unchecked' \subseteq DOMAIN files'
    BY <2>2, <2>3 DEF StorageTypeOK
  <2>5. loose' \subseteq ({"file"} \X DOMAIN files') \union ({"folder"} \X (1..lastId))
    BY <2>2, <2>3 DEF StorageTypeOK
  <2> QED
    BY <2>2, <2>3, <2>4, <2>5, DoneType DEF StorageTypeOK
<1>9. ASSUME SelectFolders(t) PROVE StorageTypeOK'
  <2>1. CASE Done(t)
    BY <1>9, <2>1, DoneType DEF StorageTypeOK, SelectFolders
  <2>2. CASE job' = [job EXCEPT ![t].ids = Selected(t)] /\ Goto(t, "files") /\ UNCHANGED crossed
    <3>1. Selected(t) \subseteq 1..MaxFolders
      BY DEF Selected, StorageTypeOK, FolderRows
    <3>2. job' \in [Threads -> Jobs]
      BY <1>0, <2>2, <3>1 DEF StorageTypeOK, Jobs
    <3> QED
      BY <1>9, <2>2, <3>2 DEF StorageTypeOK, SelectFolders, Goto
  <2> QED
    BY <1>9, <2>1, <2>2 DEF SelectFolders
<1>10. ASSUME DeleteFiles(t) PROVE StorageTypeOK'
  <2> DEFINE gone == UNION {FilesIn(d) : d \in job[t].ids}
             row(f) == IF f \in gone THEN [files[f] EXCEPT !.deleted = TRUE, !.folder = Root]
                                     ELSE files[f]
  <2>1. gone \subseteq DOMAIN files
    BY DEF FilesIn, Live
  <2>2. Len(files) \in Nat /\ DOMAIN files = 1..Len(files) /\ \A f \in DOMAIN files : files[f] \in FileRows
    <3>1. files \in Seq(FileRows)
      BY DEF StorageTypeOK
    <3> QED
      BY <3>1, LenProperties, ElementOfSeq
  <2>3. \A f \in 1..Len(files) : row(f) \in FileRows
    <3>1. Root \in 0..MaxFolders
      BY DEF Root
    <3> QED
      BY <2>2, <3>1 DEF FileRows
  <2>4. files' = [f \in 1..Len(files) |-> row(f)]
    BY <1>10, <2>2 DEF DeleteFiles
  <2>5. files' \in Seq(FileRows) /\ Len(files') = Len(files) /\ DOMAIN files' = DOMAIN files
    <3> HIDE DEF row
    <3>1. files' \in Seq(FileRows)
      BY <2>2, <2>3, <2>4, IsASeq
    <3> QED
      BY <2>2, <2>4, <3>1, LenProperties
  <2>6. /\ unchecked' = unchecked \union gone
        /\ loose' = loose \union ({"file"} \X gone)
        /\ Goto(t, "folders") /\ UNCHANGED <<folders, lastId, job, started, crossed>>
    BY <1>10 DEF DeleteFiles
  <2> HIDE DEF gone, row
  <2> QED
    BY <2>1, <2>5, <2>6 DEF StorageTypeOK, Goto
<1>11. ASSUME DeleteFolders(t) PROVE StorageTypeOK'
  BY <1>11, DoneType DEF StorageTypeOK, DeleteFolders
<1>12. ASSUME GiveUp(t) PROVE StorageTypeOK'
  BY <1>12, DoneType DEF StorageTypeOK, GiveUp
<1>13. ASSUME EnsureSegment(t) PROVE StorageTypeOK'
  <2> DEFINE path == Append(job[t].path, Head(job[t].todo))
             rest == Tail(job[t].todo)
  <2>1. /\ path \in Seq(Names) /\ rest \in Seq(Names)
        /\ Len(path) \in 1..MaxDepth
    <3>1. job[t].todo \in Seq(Names) /\ job[t].todo # << >> /\ job[t].path \in Seq(Names)
      BY <1>0, <1>13 DEF EnsureSegment, StepsOfRequests, Jobs
    <3>2. Head(job[t].todo) \in Names /\ rest \in Seq(Names)
      BY <3>1, HeadTailProperties
    <3>3. path \in Seq(Names) /\ Len(path) = Len(job[t].path) + 1 /\ Len(job[t].path) \in Nat
      BY <3>1, <3>2, AppendProperties, LenProperties
    <3>4. Len(path) <= MaxDepth
      BY <1>13 DEF EnsureSegment
    <3> QED
      BY <3>2, <3>3, <3>4
  <2> HIDE DEF path, rest
  <2>2. ASSUME NEW id \in 0..MaxFolders,
               \/ Done(t)
               \/ /\ job' = [job EXCEPT ![t].folder = id, ![t].path = path, ![t].todo = rest]
                  /\ AfterSegments(t, rest)
                  /\ UNCHANGED crossed
        PROVE  /\ pc' \in [Threads -> {"idle", "quota", "base", "segment", "insert", "select", "files", "folders"}]
               /\ job' \in [Threads -> Jobs]
               /\ crossed' \subseteq Threads
    <3>1. CASE Done(t)
      BY <3>1, DoneType
    <3>2. CASE ~Done(t)
      <4>1. [job[t] EXCEPT !.folder = id, !.path = path, !.todo = rest] \in Jobs
        BY <1>0, <2>1, JobTypes
      <4>2. job' = [job EXCEPT ![t] = [job[t] EXCEPT !.folder = id, !.path = path, !.todo = rest]]
        BY <2>2, <3>2
      <4> QED
        BY <2>2, <3>2, <4>1, <4>2 DEF StorageTypeOK, AfterSegments, Goto
    <3> QED
      BY <3>1, <3>2
  <2>3. CASE \E row \in SamePath(path) :
                /\ \/ Done(t)
                   \/ /\ job' = [job EXCEPT ![t].folder = row.id, ![t].path = path, ![t].todo = rest]
                      /\ AfterSegments(t, rest)
                      /\ UNCHANGED crossed
                /\ UNCHANGED <<folders, lastId, loose>>
    <3>1. UNCHANGED <<files, started, unchecked>>
      BY <1>13 DEF EnsureSegment
    <3>2. PICK row \in SamePath(path) :
                /\ \/ Done(t)
                   \/ /\ job' = [job EXCEPT ![t].folder = row.id, ![t].path = path, ![t].todo = rest]
                      /\ AfterSegments(t, rest)
                      /\ UNCHANGED crossed
                /\ UNCHANGED <<folders, lastId, loose>>
      BY <2>3
    <3>3. row.id \in 0..MaxFolders
      BY DEF StorageTypeOK, SamePath, FolderRows
    <3> QED
      BY <2>2, <3>1, <3>2, <3>3 DEF StorageTypeOK
  <2>4. CASE /\ SamePath(path) = {}
             /\ lastId < MaxFolders
             /\ lastId' = lastId + 1
             /\ folders' = folders \union
                   {[id |-> lastId + 1, parent |-> job[t].folder, path |-> path]}
             /\ loose' = IF t \in crossed THEN loose \union {<<"folder", lastId + 1>>}
                         ELSE loose
             /\ \/ Done(t)
                \/ /\ job' = [job EXCEPT ![t].folder = lastId + 1, ![t].path = path, ![t].todo = rest]
                   /\ AfterSegments(t, rest)
                   /\ UNCHANGED crossed
    <3> DEFINE new == [id |-> lastId + 1, parent |-> job[t].folder, path |-> path]
    <3>1. new \in FolderRows /\ new.id = lastId + 1 /\ new.path = path
      <4>1. job[t].folder \in 0..MaxFolders /\ lastId + 1 \in 1..MaxFolders
        BY SMTT(30), <1>0, <2>4 DEF Jobs
      <4> QED
        BY <2>1, <4>1 DEF FolderRows
    <3>2. folders' = folders \union {new} /\ lastId' = lastId + 1 /\ lastId + 1 \in 0..MaxFolders
      BY <1>0, <2>4
    <3>3. \A row \in folders : row.id <= lastId /\ row.path # path
      BY <2>4 DEF StorageTypeOK, SamePath
    <3> HIDE DEF new
    <3>4. /\ folders' \subseteq FolderRows
          /\ \A row \in folders' : row.id <= lastId' /\ Len(row.path) \in 1..MaxDepth
      BY <1>0, <2>1, <3>1, <3>2, <3>3 DEF StorageTypeOK, FolderRows
    <3>5. \A row, other \in folders' :
              row.path = other.path \/ row.id = other.id => row = other
      BY <1>0, <3>1, <3>2, <3>3 DEF StorageTypeOK, FolderRows
    <3>6. loose' \subseteq ({"file"} \X DOMAIN files) \union ({"folder"} \X (1..(lastId + 1)))
      BY <1>0, <2>4 DEF StorageTypeOK
    <3>7. UNCHANGED <<files, started, unchecked>>
      BY <1>13 DEF EnsureSegment
    <3> QED
      BY <2>2, <2>4, <3>2, <3>4, <3>5, <3>6, <3>7 DEF StorageTypeOK
  <2> QED
    BY <1>13, <2>3, <2>4 DEF EnsureSegment, path, rest
<1> QED
  BY <1>2, <1>3, <1>4, <1>5, <1>6, <1>7, <1>8, <1>9, <1>10, <1>11, <1>12, <1>13

-----------------------------------------------------------------------------
(* What a step leaves in the record of its request.                        *)

\* What stays in the record while a request goes on.
Kept(t) ==
    /\ job'[t].op = job[t].op /\ job'[t].asked = job[t].asked
    /\ job'[t].size = job[t].size /\ job'[t].checked = job[t].checked
    /\ UNCHANGED crossed

\* What a request that ends leaves.
LEMMA DoneOutcome ==
    ASSUME StorageTypeOK, NEW t \in Threads, Done(t)
    PROVE  /\ pc'[t] = "idle" /\ job'[t] = NoJob
           /\ crossed' = crossed \ {t}
BY DEF StorageTypeOK, Done, Goto

\* The request ends, or goes on, checked or let in without a check.
LEMMA CheckQuotaOutcome ==
    ASSUME StorageTypeOK, NEW t \in Threads, CheckQuota(t)
    PROVE  /\ pc[t] = "quota"
           /\ UNCHANGED <<tables, started, unchecked, loose>>
           /\ \/ Done(t)
              \/ /\ pc'[t] = "base"
                 /\ job'[t].op = job[t].op /\ job'[t].asked = job[t].asked
                 /\ job'[t].size = job[t].size /\ job'[t].ids = job[t].ids
                 /\ UNCHANGED crossed
                 /\ job'[t].checked =>
                        job[t].checked /\ BytesOf(Live) + job[t].size <= Quota
<1>0. job[t] \in Jobs /\ pc[t] = "quota" /\ UNCHANGED <<tables, started, unchecked, loose>>
  BY DEF StorageTypeOK, CheckQuota
<1>1. CASE /\ BytesOf(Live) + job[t].size <= Quota
           /\ Goto(t, "base")
           /\ UNCHANGED <<job, crossed>>
  BY <1>0, <1>1 DEF StorageTypeOK, Goto
<1>2. CASE Done(t)
  BY <1>0, <1>2
<1>3. CASE /\ Goto(t, "base")
           /\ job' = [job EXCEPT ![t].checked = FALSE]
           /\ UNCHANGED crossed
  <2>1. job'[t] = [job[t] EXCEPT !.checked = FALSE]
    BY <1>3 DEF StorageTypeOK
  <2> QED
    BY <1>0, <1>3, <2>1 DEF StorageTypeOK, Goto, Jobs
<1> QED
  BY <1>1, <1>2, <1>3 DEF CheckQuota

\* An upload goes on to the root, the others end.
LEMMA ReturnsZeroOutcome ==
    ASSUME StorageTypeOK, NEW t \in Threads, ReturnsZero(t)
    PROVE  \/ Done(t)
           \/ /\ pc'[t] = "insert" /\ job[t].op = "upload" /\ Kept(t)
              /\ job'[t].folder = Root
<1>1. CASE Done(t)
  BY <1>1
<1>2. CASE /\ job[t].op = "upload" /\ job[t].asked # Root
           /\ job' = [job EXCEPT ![t].folder = Root, ![t].todo = << >>]
           /\ Goto(t, "insert")
           /\ UNCHANGED crossed
  <2>1. job[t] \in Jobs
    BY DEF StorageTypeOK
  <2>2. job'[t] = [job[t] EXCEPT !.folder = Root, !.todo = << >>]
    BY <1>2 DEF StorageTypeOK
  <2> QED
    BY <1>2, <2>1, <2>2 DEF StorageTypeOK, Goto, Jobs, Kept
<1> QED
  BY <1>1, <1>2 DEF ReturnsZero

\* The folder that was asked for is the root or has a row.
LEMMA ReadBaseOutcome ==
    ASSUME StorageTypeOK, NEW t \in Threads, ReadBase(t)
    PROVE  /\ pc[t] = "base"
           /\ UNCHANGED <<tables, started, unchecked, loose>>
           /\ \/ ReturnsZero(t)
              \/ /\ pc'[t] = IF job[t].todo # << >> THEN "segment" ELSE "insert"
                 /\ Kept(t) /\ job'[t].todo = job[t].todo
                 /\ job'[t].folder = job[t].asked
                 /\ \/ job[t].asked = Root /\ job'[t].path = << >>
                    \/ \E row \in folders : row.id = job[t].asked /\ row.path = job'[t].path
<1>0. /\ job[t] \in Jobs /\ pc[t] = "base" /\ UNCHANGED <<tables, started, unchecked, loose>>
      /\ \A d : IsFolder(d) => Row(d) \in folders /\ Row(d).id = d
  BY DEF StorageTypeOK, ReadBase, IsFolder, Row
<1> DEFINE d == job[t].asked
           p == IF d = Root THEN << >> ELSE Row(d).path
<1>1. CASE ReturnsZero(t)
  BY <1>0, <1>1
<1>2. CASE /\ d = Root \/ IsFolder(d)
           /\ job' = [job EXCEPT ![t].folder = d, ![t].path = p]
           /\ AfterSegments(t, job[t].todo)
           /\ UNCHANGED crossed
  <2>1. job'[t] = [job[t] EXCEPT !.folder = d, !.path = p]
    BY <1>2 DEF StorageTypeOK
  <2>2. pc'[t] = IF job[t].todo # << >> THEN "segment" ELSE "insert"
    BY <1>2 DEF StorageTypeOK, Goto, AfterSegments
  <2>3. \/ d = Root /\ p = << >>
        \/ \E row \in folders : row.id = d /\ row.path = p
    BY <1>0, <1>2
  <2> HIDE DEF p
  <2>4. /\ job'[t].op = job[t].op /\ job'[t].asked = job[t].asked
        /\ job'[t].size = job[t].size /\ job'[t].checked = job[t].checked
        /\ job'[t].folder = d /\ job'[t].path = p /\ job'[t].todo = job[t].todo
    BY <1>0, <2>1 DEF Jobs
  <2> QED
    BY <1>0, <1>2, <2>2, <2>3, <2>4 DEF Kept
<1> QED
  BY <1>1, <1>2 DEF ReadBase

\* A segment is found, is made, or was made by another request meanwhile.
LEMMA EnsureSegmentOutcome ==
    ASSUME StorageTypeOK, StepsOfRequests, NEW t \in Threads, EnsureSegment(t)
    PROVE  /\ pc[t] = "segment" /\ UNCHANGED <<files, started, unchecked>>
           /\ \E id \in 1..MaxFolders, name \in Names :
                LET path == Append(job[t].path, name) IN
                /\ \E row \in folders' : row.id = id /\ row.path = path
                /\ \/ UNCHANGED <<folders, lastId, loose>>
                   \/ /\ id = lastId + 1 /\ lastId' = id
                      /\ folders' = folders \union
                            {[id |-> id, parent |-> job[t].folder, path |-> path]}
                      /\ loose' = IF t \in crossed THEN loose \union {<<"folder", id>>}
                                  ELSE loose
                /\ \/ Done(t)
                   \/ /\ job[t].op = "upload"
                      /\ pc'[t] = IF job'[t].todo # << >> THEN "segment" ELSE "insert"
                      /\ Kept(t)
                      /\ job'[t].folder = id /\ job'[t].path = path
<1> DEFINE name == Head(job[t].todo)
           path == Append(job[t].path, name)
           rest == Tail(job[t].todo)
           Goes(id) == /\ job' = [job EXCEPT ![t].folder = id, ![t].path = path, ![t].todo = rest]
                       /\ AfterSegments(t, rest)
                       /\ UNCHANGED crossed
           new == [id |-> lastId + 1, parent |-> job[t].folder, path |-> path]
<1>1. /\ job[t] \in Jobs /\ name \in Names
      /\ job[t].op \in {"upload", "create"}
      /\ pc[t] = "segment" /\ UNCHANGED <<files, started, unchecked>>
  <2>1. job[t] \in Jobs /\ pc[t] = "segment" /\ UNCHANGED <<files, started, unchecked>>
    BY DEF StorageTypeOK, EnsureSegment
  <2>2. job[t].todo \in Seq(Names) /\ job[t].todo # << >> /\ job[t].op \in {"upload", "create"}
    BY <2>1 DEF StepsOfRequests, Jobs
  <2> QED
    BY <2>1, <2>2, HeadTailProperties
<1>2. ASSUME NEW id, IF job[t].op = "create" THEN Done(t) ELSE Goes(id)
      PROVE  \/ Done(t)
             \/ /\ job[t].op = "upload"
                /\ pc'[t] = IF job'[t].todo # << >> THEN "segment" ELSE "insert"
                /\ Kept(t)
                /\ job'[t].folder = id /\ job'[t].path = path
  <2> HIDE DEF path, rest
  <2>1. CASE job[t].op = "create"
    BY <1>2, <2>1
  <2>2. CASE job[t].op # "create"
    <3>1. job'[t] = [job[t] EXCEPT !.folder = id, !.path = path, !.todo = rest]
      BY <1>2, <2>2 DEF StorageTypeOK
    <3>2. /\ job'[t].op = job[t].op /\ job'[t].asked = job[t].asked
          /\ job'[t].size = job[t].size /\ job'[t].checked = job[t].checked
          /\ job'[t].folder = id /\ job'[t].path = path /\ job'[t].todo = rest
      BY <1>1, <3>1 DEF Jobs
    <3>3. AfterSegments(t, rest) /\ UNCHANGED crossed
      BY <1>2, <2>2
    <3>4. pc'[t] = IF rest # << >> THEN "segment" ELSE "insert"
      BY <3>3 DEF StorageTypeOK, Goto, AfterSegments
    <3> QED
      BY <1>1, <2>2, <3>2, <3>3, <3>4 DEF Kept
  <2> QED
    BY <2>1, <2>2
<1>3. CASE \E row \in SamePath(path) :
              /\ IF job[t].op = "create" THEN Done(t) ELSE Goes(row.id)
              /\ UNCHANGED <<folders, lastId, loose>>
  <2>1. PICK row \in SamePath(path) :
              /\ IF job[t].op = "create" THEN Done(t) ELSE Goes(row.id)
              /\ UNCHANGED <<folders, lastId, loose>>
    BY <1>3
  <2>2. row \in folders /\ row.path = path /\ row.id \in 1..MaxFolders
    BY DEF SamePath, StorageTypeOK, FolderRows
  <2> HIDE DEF Goes, name
  <2> QED
    BY <1>1, <1>2, <2>1, <2>2
<1>4. CASE /\ SamePath(path) = {}
           /\ lastId < MaxFolders
           /\ lastId' = lastId + 1
           /\ folders' = folders \union {new}
           /\ loose' = IF t \in crossed THEN loose \union {<<"folder", lastId + 1>>}
                       ELSE loose
           /\ IF job[t].op = "create" THEN Done(t) ELSE Goes(lastId + 1)
  <2>1. lastId + 1 \in 1..MaxFolders
    BY <1>4, StorageAssumption DEF StorageTypeOK
  <2>2. new \in folders' /\ new.id = lastId + 1 /\ new.path = path
    BY <1>4
  <2> HIDE DEF Goes, name
  <2> QED
    BY <1>1, <1>2, <1>4, <2>1, <2>2
<1> QED
  BY <1>1, <1>3, <1>4 DEF EnsureSegment

\* What a file of the table is made of.
LEMMA FilesType ==
    ASSUME StorageTypeOK
    PROVE  /\ Len(files) \in Nat /\ DOMAIN files = 1..Len(files)
           /\ \A f \in DOMAIN files : files[f] \in FileRows
<1>1. files \in Seq(FileRows)
  BY DEF StorageTypeOK
<1> QED
  BY <1>1, LenProperties, ElementOfSeq

\* One live row more, at the end of the table.
LEMMA InsertFileOutcome ==
    ASSUME StorageTypeOK, StepsOfRequests, NEW t \in Threads, InsertFile(t)
    PROVE  \E f : /\ f \notin DOMAIN files /\ DOMAIN files' = DOMAIN files \union {f}
                  /\ files'[f] = [size |-> job[t].size, folder |-> job[t].folder,
                                  deleted |-> FALSE]
                  /\ \A g \in DOMAIN files : files'[g] = files[g]
                  /\ unchecked' = IF job[t].checked THEN unchecked ELSE unchecked \union {f}
                  /\ loose' = IF t \in crossed THEN loose \union {<<"file", f>>} ELSE loose
                  /\ pc[t] = "insert" /\ Done(t) /\ job[t].size \in Sizes
                  /\ UNCHANGED <<folders, lastId, started>>
<1> DEFINE f == Len(files) + 1
           row == [size |-> job[t].size, folder |-> job[t].folder, deleted |-> FALSE]
<1>1. row \in FileRows /\ pc[t] = "insert"
  BY DEF StorageTypeOK, StepsOfRequests, InsertFile, Jobs, FileRows
<1>2. files' = Append(files, row) /\ files \in Seq(FileRows)
  BY DEF InsertFile, StorageTypeOK
<1>3. /\ files' \in Seq(FileRows) /\ Len(files') = f
      /\ \A g \in 1..Len(files) : files'[g] = files[g]
      /\ files'[f] = row
  <2> HIDE DEF row
  <2> QED
    BY <1>1, <1>2, AppendProperties
<1>4. DOMAIN files' = 1..f /\ Len(files) \in Nat /\ DOMAIN files = 1..Len(files)
  BY <1>2, <1>3, LenProperties
<1>5. f \notin DOMAIN files /\ DOMAIN files' = DOMAIN files \union {f}
  BY <1>4
<1>6. /\ unchecked' = IF job[t].checked THEN unchecked ELSE unchecked \union {f}
      /\ loose' = IF t \in crossed THEN loose \union {<<"file", f>>} ELSE loose
      /\ Done(t) /\ UNCHANGED <<folders, lastId, started>>
  BY DEF InsertFile
<1>7. job[t].size \in Sizes
  BY <1>1 DEF StepsOfRequests
<1> HIDE DEF f
<1> QED
  BY <1>1, <1>3, <1>4, <1>5, <1>6, <1>7

\* The files in what was selected go to the recycle bin.
LEMMA DeleteFilesOutcome ==
    ASSUME StorageTypeOK, NEW t \in Threads, DeleteFiles(t)
    PROVE  \E gone \in SUBSET Live :
              /\ gone = {f \in Live : files[f].folder \in job[t].ids}
              /\ DOMAIN files' = DOMAIN files
              /\ \A f \in gone : files'[f].deleted
              /\ \A f \in DOMAIN files \ gone : files'[f] = files[f]
              /\ unchecked' = unchecked \union gone
              /\ loose' = loose \union ({"file"} \X gone)
              /\ pc[t] = "files" /\ pc'[t] = "folders"
              /\ UNCHANGED <<folders, lastId, job, started, crossed>>
<1> DEFINE gone == UNION {FilesIn(d) : d \in job[t].ids}
<1>1. gone \subseteq Live /\ gone \subseteq DOMAIN files
  BY DEF FilesIn, Live
<1>2. gone = {f \in Live : files[f].folder \in job[t].ids}
  BY DEF FilesIn
<1>3. /\ files' = [f \in DOMAIN files |->
            IF f \in gone
              THEN [files[f] EXCEPT !.deleted = TRUE, !.folder = Root]
              ELSE files[f]]
      /\ unchecked' = unchecked \union gone
      /\ loose' = loose \union ({"file"} \X gone)
      /\ pc[t] = "files" /\ pc'[t] = "folders"
      /\ UNCHANGED <<folders, lastId, job, started, crossed>>
  BY DEF DeleteFiles, StorageTypeOK, Goto
<1> HIDE DEF gone
<1>4. \A f \in gone : files'[f].deleted
  BY <1>1, <1>3, FilesType DEF FileRows
<1> QED
  BY <1>1, <1>2, <1>3, <1>4

\* The rows of the folders that were selected go.
LEMMA DeleteFoldersOutcome ==
    ASSUME StorageTypeOK, NEW t \in Threads, DeleteFolders(t)
    PROVE  /\ pc[t] = "folders" /\ Done(t)
           /\ folders' = {row \in folders : row.id \notin job[t].ids}
           /\ UNCHANGED <<lastId, files, started, unchecked, loose>>
BY DEF DeleteFolders

\* A statement on one file changes that file only.
LEMMA FileStepOutcome ==
    ASSUME StorageTypeOK, NEW f \in DOMAIN files, Recycle(f) \/ Restore(f)
    PROVE  /\ DOMAIN files' = DOMAIN files
           /\ \A g \in DOMAIN files : /\ g # f => files'[g] = files[g]
                                      /\ files'[g].folder = files[g].folder
                                      /\ files'[g].size = files[g].size
           /\ \/ /\ files'[f].deleted
                 /\ unchecked' = unchecked \union {f} /\ loose' = loose \union {<<"file", f>>}
              \/ /\ ~files'[f].deleted /\ files[f].deleted
                 /\ UNCHANGED <<unchecked, loose>>
           /\ UNCHANGED <<folders, lastId, pc, job, started, crossed>>
<1>1. files[f] \in FileRows
  BY FilesType
<1>2. ASSUME NEW b \in BOOLEAN, files' = [files EXCEPT ![f].deleted = b]
      PROVE  /\ DOMAIN files' = DOMAIN files
             /\ \A g \in DOMAIN files : g # f => files'[g] = files[g]
             /\ files'[f].folder = files[f].folder /\ files'[f].size = files[f].size
             /\ files'[f].deleted = b
  BY <1>1, <1>2 DEF FileRows
<1>3. CASE Recycle(f)
  <2>1. /\ files' = [files EXCEPT ![f].deleted = TRUE]
        /\ unchecked' = unchecked \union {f} /\ loose' = loose \union {<<"file", f>>}
        /\ UNCHANGED <<folders, lastId, pc, job, started, crossed>>
    BY <1>3 DEF Recycle
  <2>2. /\ DOMAIN files' = DOMAIN files
        /\ \A g \in DOMAIN files : g # f => files'[g] = files[g]
        /\ files'[f].folder = files[f].folder /\ files'[f].size = files[f].size
        /\ files'[f].deleted = TRUE
    BY <1>2, <2>1
  <2> QED
    BY <2>1, <2>2
<1>4. CASE Restore(f)
  <2>1. /\ files' = [files EXCEPT ![f].deleted = FALSE]
        /\ files[f].deleted
        /\ UNCHANGED <<folders, lastId, pc, job, started, crossed, unchecked, loose>>
    BY <1>4 DEF Restore, Live
  <2>2. /\ DOMAIN files' = DOMAIN files
        /\ \A g \in DOMAIN files : g # f => files'[g] = files[g]
        /\ files'[f].folder = files[f].folder /\ files'[f].size = files[f].size
        /\ files'[f].deleted = FALSE
    BY <1>2, <2>1
  <2> QED
    BY <2>1, <2>2
<1> QED
  BY <1>3, <1>4

\* Most steps of a request write nothing to the tables.
LEMMA QuietRequest ==
    ASSUME NEW t \in Threads, Request(t)
    PROVE  \/ UNCHANGED <<folders, lastId, files, unchecked, loose>>
           \/ EnsureSegment(t) \/ InsertFile(t) \/ DeleteFiles(t) \/ DeleteFolders(t)
BY DEF Request, StartUpload, StartCreate, Start, StartDelete, CheckQuota, ReadBase,
       SegmentFails, SelectFolders, GiveUp, tables

\* One-statement requests keep the types.
LEMMA StorageFileType ==
    ASSUME StorageTypeOK, NEW f \in DOMAIN files, Recycle(f) \/ Restore(f)
    PROVE  StorageTypeOK'
<1>1. Len(files) \in Nat /\ DOMAIN files = 1..Len(files) /\ files[f] \in FileRows
  <2>1. files \in Seq(FileRows)
    BY DEF StorageTypeOK
  <2> QED
    BY <2>1, LenProperties, ElementOfSeq
<1>2. ASSUME NEW b \in BOOLEAN, files' = [files EXCEPT ![f].deleted = b]
      PROVE  files' \in Seq(FileRows) /\ Len(files') = Len(files) /\ DOMAIN files' = DOMAIN files
  <2>1. [files[f] EXCEPT !.deleted = b] \in FileRows
    BY <1>1 DEF FileRows
  <2>2. files' = [files EXCEPT ![f] = [files[f] EXCEPT !.deleted = b]]
    BY <1>2
  <2>3. files \in Seq(FileRows)
    BY DEF StorageTypeOK
  <2> HIDE <1>2
  <2> QED
    BY <1>1, <2>1, <2>2, <2>3, ExceptSeq
<1>3. CASE Recycle(f)
  <2>1. /\ files' \in Seq(FileRows) /\ Len(files') = Len(files)
        /\ DOMAIN files' = DOMAIN files
    BY <1>2, <1>3 DEF Recycle
  <2>2. /\ unchecked' = unchecked \union {f} /\ loose' = loose \union {<<"file", f>>}
        /\ UNCHANGED <<folders, lastId, pc, job, started, crossed>>
    BY <1>3 DEF Recycle
  <2> QED
    BY <2>1, <2>2 DEF StorageTypeOK
<1>4. CASE Restore(f)
  BY <1>2, <1>4 DEF Restore, StorageTypeOK
<1> QED
  BY <1>3, <1>4

\* A step of one request leaves those of the others where they are.
LEMMA OthersWait ==
    ASSUME StorageTypeOK, NEW t \in Threads, Request(t), NEW x \in Threads, x # t
    PROVE  /\ pc'[x] = pc[x] /\ job'[x] = job[x]
           /\ x \in crossed => x \in crossed'
<1> USE DEF StorageTypeOK, Done, Goto
<1>1. CASE \E d \in 0..lastId : \E segments \in {<< >>} \union {<<n>> : n \in Names}, size \in Sizes :
               StartUpload(t, d, segments, size)
  BY <1>1 DEF StartUpload, Start
<1>2. CASE \E d \in 0..lastId, n \in Names : StartCreate(t, d, n)
  BY <1>2 DEF StartCreate, Start
<1>3. CASE \E d \in 0..lastId : StartDelete(t, d)
  BY <1>3 DEF StartDelete
<1>4. CASE CheckQuota(t)
  BY <1>4 DEF CheckQuota
<1>5. CASE ReadBase(t)
  BY <1>5 DEF ReadBase, ReturnsZero, AfterSegments
<1>6. CASE EnsureSegment(t)
  BY <1>6 DEF EnsureSegment, AfterSegments
<1>7. CASE SegmentFails(t)
  BY <1>7 DEF SegmentFails, ReturnsZero
<1>8. CASE InsertFile(t)
  BY <1>8 DEF InsertFile
<1>9. CASE SelectFolders(t)
  BY <1>9 DEF SelectFolders
<1>10. CASE DeleteFiles(t) \/ DeleteFolders(t)
  BY <1>10 DEF DeleteFiles, DeleteFolders
<1>11. CASE GiveUp(t)
  BY <1>11 DEF GiveUp
<1> QED
  BY <1>1, <1>2, <1>3, <1>4, <1>5, <1>6, <1>7, <1>8, <1>9, <1>10, <1>11 DEF Request

\* Requests stay on the way of their kind.
LEMMA StepsOfRequestsStep ==
    ASSUME StorageTypeOK, StepsOfRequests, NEW t \in Threads, Request(t)
    PROVE  StepsOfRequests'
<1> DEFINE Where(x) ==
        /\ pc[x] = "idle" => job[x].op = "none"
        /\ pc[x] \in {"quota", "insert"} => job[x].op = "upload"
        /\ pc[x] \in {"base", "segment"} =>
              \/ job[x].op = "upload" /\ job[x].size \in Sizes
              \/ job[x].op = "create" /\ job[x].todo # << >>
        /\ pc[x] = "segment" => job[x].todo # << >>
        /\ pc[x] \in {"quota", "insert"} => job[x].size \in Sizes
        /\ pc[x] \in {"select", "files", "folders"} => job[x].op = "delete"
<1>0. job[t] \in Jobs /\ Where(t)
  BY DEF StorageTypeOK, StepsOfRequests
<1>a. Done(t) => Where(t)'
  BY DoneOutcome DEF NoJob
<1>c. ReturnsZero(t) /\ pc[t] \in {"base", "segment"} => Where(t)'
  BY <1>0, <1>a, ReturnsZeroOutcome DEF Kept
<1>b. StepsOfRequests /\ Where(t)' => StepsOfRequests'
  BY OthersWait DEF StepsOfRequests
<1> SUFFICES Where(t)'
  BY <1>b
<1> USE DEF StorageTypeOK, Goto
<1>1. CASE \E d \in 0..lastId : \E segments \in {<< >>} \union {<<n>> : n \in Names}, size \in Sizes :
               StartUpload(t, d, segments, size)
  BY <1>0, <1>1 DEF StartUpload, Start, NoJob
<1>2. CASE \E d \in 0..lastId, n \in Names : StartCreate(t, d, n)
  BY <1>0, <1>2 DEF StartCreate, Start, NoJob
<1>3. CASE \E d \in 0..lastId : StartDelete(t, d)
  BY <1>0, <1>3 DEF StartDelete, NoJob
<1>4. CASE CheckQuota(t)
  BY <1>0, <1>4, <1>a, CheckQuotaOutcome
<1>5. CASE ReadBase(t)
  BY <1>0, <1>5, <1>c, ReadBaseOutcome DEF Kept
<1>6. CASE EnsureSegment(t)
  BY <1>0, <1>6, <1>a, EnsureSegmentOutcome DEF Kept
<1>7. CASE SegmentFails(t)
  BY <1>7, <1>c DEF SegmentFails
<1>8. CASE InsertFile(t) \/ DeleteFolders(t) \/ GiveUp(t)
  BY <1>8, <1>a DEF InsertFile, DeleteFolders, GiveUp
<1>9. CASE SelectFolders(t)
  BY <1>0, <1>9, <1>a DEF SelectFolders, Jobs
<1>10. CASE DeleteFiles(t)
  BY <1>0, <1>10 DEF DeleteFiles
<1> QED
  BY <1>1, <1>2, <1>3, <1>4, <1>5, <1>6, <1>7, <1>8, <1>9, <1>10 DEF Request

\* A request marks those it crosses when it starts.
LEMMA CrossedMarkedStep ==
    ASSUME StorageTypeOK, StepsOfRequests, CrossedMarked, NEW t \in Threads, Request(t)
    PROVE  CrossedMarked'
<1> SUFFICES ASSUME NEW x \in Making', NEW y \in Deleting' PROVE x \in crossed'
  BY DEF CrossedMarked
<1>0. x # y /\ job[t] \in Jobs /\ x \in Threads /\ y \in Threads
  BY DEF Making, Deleting, StorageTypeOK
<1>a. ASSUME NEW z \in Threads, z # t PROVE z \in Making' <=> z \in Making
  BY <1>a, OthersWait DEF Making
<1>b. ASSUME NEW z \in Threads, z # t PROVE z \in Deleting' <=> z \in Deleting
  BY <1>b, OthersWait DEF Deleting
<1>c. x \in Making /\ y \in Deleting /\ x # t => x \in crossed'
  BY <1>0, OthersWait DEF CrossedMarked
<1>d. ~Done(t) \/ (x # t /\ y # t)
  BY DoneType DEF Done, Making, Deleting, NoJob, StorageTypeOK
<1>1. CASE \E d \in 0..lastId : \E segments \in {<< >>} \union {<<n>> : n \in Names}, size \in Sizes :
               StartUpload(t, d, segments, size)
  <2>1. y # t
    BY <1>1 DEF StartUpload, Start, NoJob, Deleting, StorageTypeOK
  <2>2. Deleting # {} /\ (x # t => x \in crossed)
    BY <1>0, <1>a, <1>b, <2>1 DEF CrossedMarked
  <2> QED
    BY <1>1, <2>2 DEF StartUpload, Start
<1>2. CASE \E d \in 0..lastId, n \in Names : StartCreate(t, d, n)
  <2>1. y # t
    BY <1>2 DEF StartCreate, Start, NoJob, Deleting, StorageTypeOK
  <2>2. Deleting # {} /\ (x # t => x \in crossed)
    BY <1>0, <1>a, <1>b, <2>1 DEF CrossedMarked
  <2> QED
    BY <1>2, <2>2 DEF StartCreate, Start
<1>3. CASE \E d \in 0..lastId : StartDelete(t, d)
  <2>1. x # t
    BY <1>3 DEF StartDelete, NoJob, Making, StorageTypeOK
  <2> QED
    BY <1>0, <1>3, <1>a, <2>1 DEF StartDelete
<1>4. ASSUME \/ UNCHANGED <<job, crossed>>
             \/ /\ job'[t].op = job[t].op
                /\ UNCHANGED crossed
             \/ Done(t)
      PROVE  x \in crossed'
  <2>1. CASE Done(t)
    BY <2>1, <1>0, <1>a, <1>b, <1>c, <1>d
  <2>2. CASE ~Done(t)
    <3>1. x \in Making /\ y \in Deleting
      BY <1>0, <1>4, <1>a, <1>b, <2>2 DEF Making, Deleting
    <3> QED
      BY <1>4, <2>2, <3>1 DEF CrossedMarked
  <2> QED
    BY <2>1, <2>2
<1> USE DEF StorageTypeOK
<1>5. CASE CheckQuota(t)
  BY <1>4, <1>5, CheckQuotaOutcome
<1>6. CASE ReadBase(t)
  BY <1>4, <1>6, ReadBaseOutcome, ReturnsZeroOutcome DEF Kept
<1>7. CASE EnsureSegment(t)
  BY <1>4, <1>7, EnsureSegmentOutcome DEF Kept
<1>8. CASE SegmentFails(t)
  BY <1>4, <1>8, ReturnsZeroOutcome DEF SegmentFails, Kept
<1>9. CASE InsertFile(t) \/ DeleteFolders(t) \/ GiveUp(t) \/ DeleteFiles(t)
  BY <1>4, <1>9 DEF InsertFile, DeleteFolders, GiveUp, DeleteFiles
<1>10. CASE SelectFolders(t)
  BY <1>0, <1>4, <1>10 DEF SelectFolders, Jobs
<1> QED
  BY <1>1, <1>2, <1>3, <1>5, <1>6, <1>7, <1>8, <1>9, <1>10 DEF Request

\* A file that goes to the recycle bin is marked.
LEMMA BinMarkedStep ==
    ASSUME StorageTypeOK, StepsOfRequests, BinMarked
    PROVE  /\ \A t \in Threads : Request(t) => BinMarked'
           /\ \A f \in DOMAIN files : Recycle(f) \/ Restore(f) => BinMarked'
<1>1. ASSUME NEW t \in Threads, InsertFile(t) PROVE BinMarked'
  <2>1. PICK f : /\ DOMAIN files' = DOMAIN files \union {f}
                 /\ files'[f] = [size |-> job[t].size, folder |-> job[t].folder,
                                 deleted |-> FALSE]
                 /\ \A g \in DOMAIN files : files'[g] = files[g]
    BY <1>1, InsertFileOutcome
  <2>2. ~files'[f].deleted
    BY <2>1
  <2>3. unchecked \subseteq unchecked' /\ loose \subseteq loose'
    BY <1>1, InsertFileOutcome
  <2> QED
    BY <2>1, <2>2, <2>3 DEF BinMarked
<1>2. ASSUME NEW t \in Threads, DeleteFiles(t) PROVE BinMarked'
  BY <1>2, DeleteFilesOutcome DEF BinMarked
<1>3. ASSUME NEW t \in Threads, EnsureSegment(t) PROVE BinMarked'
  <2>1. loose \subseteq loose' /\ UNCHANGED <<files, unchecked>>
    BY <1>3, EnsureSegmentOutcome
  <2> QED
    BY <2>1 DEF BinMarked
<1>4. ASSUME NEW t \in Threads, DeleteFolders(t) PROVE BinMarked'
  BY <1>4, DeleteFoldersOutcome DEF BinMarked
<1>5. ASSUME UNCHANGED <<folders, lastId, files, unchecked, loose>> PROVE BinMarked'
  BY <1>5 DEF BinMarked
<1>6. ASSUME NEW f \in DOMAIN files, Recycle(f) \/ Restore(f) PROVE BinMarked'
  BY <1>6, FileStepOutcome DEF BinMarked
<1> QED
  BY <1>1, <1>2, <1>3, <1>4, <1>5, <1>6, QuietRequest

\* FilesFound, without the set of the files of a folder.
LEMMA RestatedFilesFound ==
    FilesFound <=> \A f \in Live : \/ files[f].folder = Root \/ IsFolder(files[f].folder)
                                   \/ <<"file", f>> \in loose
BY DEF FilesFound, FilesIn, IsFolder

\* A live file keeps its folder: an insert is into a folder that is there, and a
\* deletion that takes the folder has taken the file before.
LEMMA FilesFoundStep ==
    ASSUME StorageTypeOK, StepsOfRequests, BinMarked, FilesFound, FolderOfJob, SelectionClosed
    PROVE  /\ \A t \in Threads : Request(t) => FilesFound'
           /\ \A f \in DOMAIN files : Recycle(f) \/ Restore(f) => FilesFound'
<1> DEFINE Found(f) == \/ files[f].folder = Root \/ IsFolder(files[f].folder)
                       \/ <<"file", f>> \in loose
<1>a. \A f \in Live : Found(f)
  BY RestatedFilesFound
<1>b. (\A f \in Live : Found(f))' => FilesFound'
  BY DEF FilesFound, FilesIn, IsFolder
<1>1. ASSUME NEW t \in Threads, InsertFile(t) PROVE (\A f \in Live : Found(f))'
  <2>1. PICK f : /\ f \notin DOMAIN files /\ DOMAIN files' = DOMAIN files \union {f}
                 /\ files'[f] = [size |-> job[t].size, folder |-> job[t].folder,
                                 deleted |-> FALSE]
                 /\ \A g \in DOMAIN files : files'[g] = files[g]
                 /\ loose' = IF t \in crossed THEN loose \union {<<"file", f>>} ELSE loose
                 /\ pc[t] = "insert" /\ UNCHANGED <<folders, lastId, started>>
    BY <1>1, InsertFileOutcome
  <2>2. t \in Making
    BY <2>1 DEF StepsOfRequests, Making
  <2>3. \/ job[t].folder = Root \/ IsFolder(job[t].folder) \/ t \in crossed
    BY <2>1, <2>2 DEF FolderOfJob
  <2>4. files'[f].folder = job[t].folder
    BY <2>1
  <2>5. Found(f)'
    BY <2>1, <2>3, <2>4 DEF IsFolder
  <2>6. \A g \in Live' : g = f \/ g \in Live
    BY <2>1 DEF Live
  <2>7. \A g \in DOMAIN files : Found(g) => Found(g)'
    BY <2>1 DEF IsFolder
  <2> HIDE DEF Found
  <2> QED
    BY <1>a, <2>5, <2>6, <2>7 DEF Live
<1>2. ASSUME NEW t \in Threads, DeleteFiles(t) PROVE (\A f \in Live : Found(f))'
  <2>1. /\ \A f \in Live' : f \in Live /\ files'[f] = files[f]
        /\ loose \subseteq loose' /\ folders' = folders
    BY <1>2, DeleteFilesOutcome DEF Live
  <2> QED
    BY <1>a, <2>1 DEF IsFolder
<1>3. ASSUME NEW t \in Threads, EnsureSegment(t) PROVE (\A f \in Live : Found(f))'
  <2>1. loose \subseteq loose' /\ folders \subseteq folders' /\ UNCHANGED files
    BY <1>3, EnsureSegmentOutcome
  <2> QED
    BY <1>a, <2>1 DEF IsFolder, Live
<1>4. ASSUME NEW t \in Threads, DeleteFolders(t) PROVE (\A f \in Live : Found(f))'
  <2>1. /\ pc[t] = "folders" /\ UNCHANGED <<files, loose>>
        /\ folders' = {row \in folders : row.id \notin job[t].ids}
    BY <1>4, DeleteFoldersOutcome
  <2>2. \A f \in Live : files[f].folder \in job[t].ids => <<"file", f>> \in loose
    BY <2>1 DEF SelectionClosed
  <2> QED
    BY <1>a, <2>1, <2>2 DEF IsFolder, Live
<1>5. ASSUME UNCHANGED <<folders, lastId, files, unchecked, loose>>
      PROVE  (\A f \in Live : Found(f))'
  BY <1>5, <1>a DEF IsFolder, Live
<1>6. ASSUME NEW f \in DOMAIN files, Recycle(f) \/ Restore(f)
      PROVE  (\A g \in Live : Found(g))'
  <2>1. /\ DOMAIN files' = DOMAIN files /\ UNCHANGED folders /\ loose \subseteq loose'
        /\ \A g \in DOMAIN files : g # f => files'[g] = files[g]
        /\ files'[f].deleted \/ files[f].deleted
    BY <1>6, FileStepOutcome
  <2>2. \A g \in Live' : (g \in Live /\ files'[g] = files[g]) \/ <<"file", g>> \in loose
    BY <2>1 DEF Live, BinMarked
  <2> QED
    BY <1>a, <2>1, <2>2 DEF IsFolder
<1> HIDE DEF Found
<1> QED
  BY <1>b, <1>1, <1>2, <1>3, <1>4, <1>5, <1>6, QuietRequest

\* The paths of folders.
LEMMA AppendedPath ==
    ASSUME NEW path \in Seq(Names), NEW name \in Names
    PROVE  /\ Len(Append(path, name)) = Len(path) + 1 /\ Len(path) \in Nat
           /\ IsPrefix(path, Append(path, name))
<1>1. /\ Append(path, name) \in Seq(Names)
      /\ Len(Append(path, name)) = Len(path) + 1 /\ Len(path) \in Nat
      /\ \A i \in 1..Len(path) : Append(path, name)[i] = path[i]
  BY AppendProperties, LenProperties
<1>2. SubSeq(path, 1, Len(path)) = SubSeq(Append(path, name), 1, Len(path))
  BY <1>1, SubSeqProperties
<1> QED
  BY <1>1, <1>2 DEF IsPrefix

\* A prefix has the same elements.
LEMMA PrefixElements ==
    ASSUME NEW s \in Seq(Names), NEW path \in Seq(Names), IsPrefix(s, path)
    PROVE  /\ Len(s) <= Len(path)
           /\ \A i \in 1..Len(s) : s[i] = path[i]
<1>1. Len(s) \in Nat /\ Len(path) \in Nat /\ Len(s) <= Len(path)
  BY LenProperties DEF IsPrefix
<1>2. \A i \in 1..Len(s) : SubSeq(s, 1, Len(s))[i] = s[i] /\ SubSeq(path, 1, Len(s))[i] = path[i]
  BY <1>1, SubSeqProperties
<1> QED
  BY <1>1, <1>2 DEF IsPrefix

\* The folder that a request has read stays while no deletion crosses it.
LEMMA FolderOfJobStep ==
    ASSUME StorageTypeOK, StepsOfRequests, CrossedMarked, FolderOfJob
    PROVE  /\ \A t \in Threads : Request(t) => FolderOfJob'
           /\ \A f \in DOMAIN files : Recycle(f) \/ Restore(f) => FolderOfJob'
<1> DEFINE Known(x) ==
        /\ pc[x] \in {"segment", "insert"} /\ job[x].folder # Root => IsFolder(job[x].folder)
        /\ pc[x] = "segment" =>
              \/ job[x].folder = Root /\ job[x].path = << >>
              \/ \E row \in folders : row.id = job[x].folder /\ row.path = job[x].path
<1>1. ASSUME NEW t \in Threads, Request(t), NEW x \in Making' \ crossed'
      PROVE  Known(x)'
  <2>0. x \in Threads
    BY DEF Making
  <2>1. CASE x # t
    <3>1. x \in Making \ crossed /\ pc'[x] = pc[x] /\ job'[x] = job[x]
      BY <1>1, <2>0, <2>1, OthersWait DEF Making
    <3>2. Known(x)
      BY <3>1 DEF FolderOfJob
    <3>3. folders \subseteq folders'
      <4>1. ~DeleteFolders(t)
        <5>1. DeleteFolders(t) => t \in Deleting
          BY DEF DeleteFolders, StepsOfRequests, Deleting
        <5> QED
          BY <3>1, <5>1 DEF CrossedMarked
      <4> QED
        BY <1>1, <4>1, QuietRequest, EnsureSegmentOutcome, InsertFileOutcome, DeleteFilesOutcome
    <3> QED
      BY <3>1, <3>2, <3>3 DEF IsFolder
  <2>2. CASE x = t
    <3> SUFFICES Known(t)'
      BY <2>2
    <3>1. CASE \/ pc'[t] \notin {"segment", "insert"} \/ Done(t)
      BY <3>1, DoneOutcome
    <3>2. CASE ReturnsZero(t) /\ ~Done(t)
      BY <3>2, ReturnsZeroOutcome
    <3>3. CASE ReadBase(t) /\ ~ReturnsZero(t)
      <4>1. /\ folders' = folders /\ job'[t].folder = job[t].asked
            /\ \/ job[t].asked = Root /\ job'[t].path = << >>
               \/ \E row \in folders : row.id = job[t].asked /\ row.path = job'[t].path
        BY <3>3, ReadBaseOutcome DEF tables
      <4> QED
        BY <4>1 DEF IsFolder
    <3>4. CASE EnsureSegment(t) /\ ~Done(t)
      <4>1. PICK id \in 1..MaxFolders, name \in Names :
                /\ \E row \in folders' : row.id = id /\ row.path = Append(job[t].path, name)
                /\ job'[t].folder = id /\ job'[t].path = Append(job[t].path, name)
        BY <3>4, EnsureSegmentOutcome
      <4> QED
        BY <4>1 DEF IsFolder
    <3>5. CASE SegmentFails(t)
      BY <3>1, <3>2, <3>5 DEF SegmentFails
    <3>6. CASE CheckQuota(t)
      BY <3>1, <3>6, CheckQuotaOutcome
    <3> USE DEF StorageTypeOK, Goto
    <3>7. CASE \E d \in 0..lastId : \E segments \in {<< >>} \union {<<n>> : n \in Names}, size \in Sizes :
                   StartUpload(t, d, segments, size)
      BY <3>1, <3>7 DEF StartUpload, Start
    <3>8. CASE \E d \in 0..lastId, n \in Names : StartCreate(t, d, n)
      BY <3>1, <3>8 DEF StartCreate, Start
    <3>9. CASE \E d \in 0..lastId : StartDelete(t, d)
      BY <3>1, <3>9 DEF StartDelete
    <3>10. CASE SelectFolders(t) \/ DeleteFiles(t)
      <4>1. Done(t) \/ Goto(t, "files") \/ Goto(t, "folders")
        BY <3>10 DEF SelectFolders, DeleteFiles
      <4> QED
        BY <3>1, <4>1
    <3>11. CASE InsertFile(t) \/ DeleteFolders(t) \/ GiveUp(t)
      BY <3>1, <3>11 DEF InsertFile, DeleteFolders, GiveUp
    <3> HIDE DEF Known
    <3> QED
      BY <1>1, <3>1, <3>2, <3>3, <3>4, <3>5, <3>6, <3>7, <3>8, <3>9, <3>10, <3>11 DEF Request
  <2> QED
    BY <2>1, <2>2
<1>2. ASSUME NEW f \in DOMAIN files, Recycle(f) \/ Restore(f) PROVE FolderOfJob'
  BY <1>2, FileStepOutcome DEF FolderOfJob, Making, IsFolder
<1> QED
  BY <1>1, <1>2 DEF FolderOfJob

\* A row is below another one, or a deletion or a crossed request left it behind.
LEMMA RowsLinkedStep ==
    ASSUME StorageTypeOK, StepsOfRequests, RowsLinked, FolderOfJob, SelectionClosed
    PROVE  /\ \A t \in Threads : Request(t) => RowsLinked'
           /\ \A f \in DOMAIN files : Recycle(f) \/ Restore(f) => RowsLinked'
<1>1. ASSUME folders' = folders, loose \subseteq loose' PROVE RowsLinked'
  BY <1>1 DEF RowsLinked
<1>2. ASSUME NEW t \in Threads, EnsureSegment(t) PROVE RowsLinked'
  <2>0. PICK id \in 1..MaxFolders, name \in Names :
            /\ pc[t] = "segment"
            /\ \/ UNCHANGED <<folders, loose>>
               \/ /\ folders' = folders \union
                        {[id |-> id, parent |-> job[t].folder, path |-> Append(job[t].path, name)]}
                  /\ loose' = IF t \in crossed THEN loose \union {<<"folder", id>>}
                              ELSE loose
    BY <1>2, EnsureSegmentOutcome
  <2>1. CASE UNCHANGED <<folders, loose>>
    BY <1>1, <2>1
  <2>2. CASE ~UNCHANGED <<folders, loose>>
    <3> DEFINE path == Append(job[t].path, name)
               new == [id |-> id, parent |-> job[t].folder, path |-> path]
    <3>1. /\ folders' = folders \union {new} /\ loose \subseteq loose'
          /\ t \in crossed => <<"folder", id>> \in loose'
      BY <2>0, <2>2
    <3>2. t \in Making /\ job[t].path \in Seq(Names)
      BY <2>0 DEF StepsOfRequests, Making, StorageTypeOK, Jobs
    <3>3. \/ job[t].folder = Root /\ job[t].path = << >>
          \/ \E row \in folders : row.id = job[t].folder /\ row.path = job[t].path
          \/ t \in crossed
      BY <2>0, <3>2 DEF FolderOfJob
    <3>4. /\ Len(path) = Len(job[t].path) + 1 /\ Len(job[t].path) \in Nat
          /\ IsPrefix(job[t].path, path)
      BY <3>2, AppendedPath
    <3>5. new.id = id /\ new.parent = job[t].folder /\ new.path = path
      OBVIOUS
    <3>6. Len(<< >>) = 0
      BY EmptySeq
    <3> HIDE DEF new, path
    <3>7. \/ new.parent = Root /\ Len(new.path) = 1
          \/ \E up \in folders' : IsChild(new, up)
          \/ <<"folder", new.id>> \in loose'
      <4>1. CASE job[t].folder = Root /\ job[t].path = << >>
        BY <3>4, <3>5, <3>6, <4>1
      <4>2. ASSUME NEW up \in folders, up.id = job[t].folder, up.path = job[t].path
            PROVE  up \in folders' /\ IsChild(new, up)
        <5>1. Len(up.path) = Len(new.path) - 1
          BY <3>4, <3>5, <4>2
        <5> QED
          BY <3>1, <3>4, <3>5, <4>2, <5>1 DEF IsChild
      <4> QED
        BY <3>1, <3>3, <3>5, <4>1, <4>2
    <3> QED
      BY <3>1, <3>7 DEF RowsLinked
  <2> QED
    BY <2>1, <2>2
<1>3. ASSUME NEW t \in Threads, DeleteFolders(t) PROVE RowsLinked'
  <2>1. /\ pc[t] = "folders" /\ UNCHANGED <<files, loose>>
        /\ folders' = {row \in folders : row.id \notin job[t].ids}
    BY <1>3, DeleteFoldersOutcome
  <2>2. \A row \in folders : row.parent \in job[t].ids /\ <<"folder", row.id>> \notin loose
                                => row.id \in job[t].ids
    BY <2>1 DEF SelectionClosed
  <2>3. ASSUME NEW row \in folders', NEW up \in folders, IsChild(row, up)
        PROVE  <<"folder", row.id>> \in loose \/ up \in folders'
    BY <2>1, <2>2, <2>3 DEF IsChild
  <2> QED
    BY <2>1, <2>3 DEF RowsLinked
<1>4. \A t \in Threads : InsertFile(t) \/ DeleteFiles(t) => folders' = folders /\ loose \subseteq loose'
  BY InsertFileOutcome, DeleteFilesOutcome
<1>5. \A f \in DOMAIN files : Recycle(f) \/ Restore(f) => folders' = folders /\ loose \subseteq loose'
  BY FileStepOutcome
<1> QED
  BY <1>1, <1>2, <1>3, <1>4, <1>5, QuietRequest

\* The folder of a deletion is a row with the path that it has read, or gone.
LEMMA AskedOfDeletionStep ==
    ASSUME StorageTypeOK, StepsOfRequests, AskedOfDeletion
    PROVE  /\ \A t \in Threads : Request(t) => AskedOfDeletion'
           /\ \A f \in DOMAIN files : Recycle(f) \/ Restore(f) => AskedOfDeletion'
<1>1. ASSUME NEW t \in Threads, Request(t), NEW x \in Deleting'
      PROVE  /\ job'[x].asked <= lastId'
             /\ \A row \in folders' : row.id = job'[x].asked => row.path = job'[x].path
  <2>0. x \in Threads /\ lastId \in Nat /\ \A z \in Threads : job[z] \in Jobs
    BY DEF Deleting, StorageTypeOK
  <2>1. CASE x \in Deleting /\ job'[x].asked = job[x].asked /\ job'[x].path = job[x].path
    <3>1. /\ job[x].asked <= lastId /\ job[x].asked \in Nat
          /\ \A row \in folders : row.id = job[x].asked => row.path = job[x].path
      BY <2>0, <2>1 DEF AskedOfDeletion, Jobs
    <3>2. CASE lastId' = lastId /\ folders' \subseteq folders
      BY <2>1, <3>1, <3>2
    <3>3. CASE EnsureSegment(t) /\ ~(lastId' = lastId /\ folders' \subseteq folders)
      <4>1. PICK new : /\ folders' = folders \union {new} /\ new.id = lastId + 1
                       /\ lastId' = lastId + 1
        BY <3>3, EnsureSegmentOutcome
      <4> QED
        BY <2>0, <2>1, <3>1, <4>1
    <3> QED
      BY <1>1, <3>2, <3>3, QuietRequest, InsertFileOutcome, DeleteFilesOutcome, DeleteFoldersOutcome
  <2>2. CASE x # t
    BY <1>1, <2>0, <2>1, <2>2, OthersWait DEF Deleting
  <2>3. CASE x = t
    <3> USE DEF StorageTypeOK
    <3>1. job'[t].op = "delete"
      BY <2>3 DEF Deleting
    <3>2. ~Done(t)
      BY <3>1, DoneOutcome DEF NoJob
    <3>3. CASE \E d \in 0..lastId : StartDelete(t, d)
      <4>1. PICK d \in 0..lastId : StartDelete(t, d)
        BY <3>3
      <4>2. /\ job'[t] = [NoJob EXCEPT !.op = "delete", !.asked = d, !.path = Row(d).path]
            /\ IsFolder(d) /\ UNCHANGED <<folders, lastId>>
        BY <4>1 DEF StartDelete, tables
      <4>3. job'[t].asked = d /\ job'[t].path = Row(d).path
        BY <4>2 DEF NoJob
      <4>4. Row(d) \in folders /\ Row(d).id = d
        BY <4>2 DEF IsFolder, Row
      <4> QED
        BY <2>3, <4>2, <4>3, <4>4
    <3>4. CASE SelectFolders(t)
      <4>1. job'[t] = [job[t] EXCEPT !.ids = Selected(t)] /\ t \in Deleting
        BY <3>2, <3>4 DEF SelectFolders, StepsOfRequests, Deleting
      <4>2. job'[t].asked = job[t].asked /\ job'[t].path = job[t].path
        BY <2>0, <4>1 DEF Jobs
      <4> QED
        BY <2>1, <2>3, <4>1, <4>2
    <3>5. CASE DeleteFiles(t)
      <4>1. job'[t] = job[t] /\ t \in Deleting
        BY <3>5 DEF DeleteFiles, StepsOfRequests, Deleting
      <4> QED
        BY <2>1, <2>3, <4>1
    <3>6. CASE \E d \in 0..lastId : \E segments \in {<< >>} \union {<<n>> : n \in Names}, size \in Sizes :
                   StartUpload(t, d, segments, size)
      BY <3>1, <3>6 DEF StartUpload, Start, NoJob
    <3>7. CASE \E d \in 0..lastId, n \in Names : StartCreate(t, d, n)
      BY <3>1, <3>7 DEF StartCreate, Start, NoJob
    <3>8. CASE CheckQuota(t)
      BY <3>1, <3>2, <3>8, CheckQuotaOutcome DEF StepsOfRequests
    <3>9. CASE ReadBase(t) \/ SegmentFails(t)
      <4>1. job[t].op # "delete"
        BY <3>9 DEF StepsOfRequests, ReadBase, SegmentFails
      <4> QED
        BY <3>1, <3>2, <3>9, <4>1, ReadBaseOutcome, ReturnsZeroOutcome DEF SegmentFails, Kept
    <3>10. CASE EnsureSegment(t)
      BY <3>1, <3>2, <3>10, EnsureSegmentOutcome DEF Kept
    <3>11. CASE InsertFile(t) \/ DeleteFolders(t) \/ GiveUp(t)
      BY <3>2, <3>11 DEF InsertFile, DeleteFolders, GiveUp
    <3> QED
      BY <1>1, <3>3, <3>4, <3>5, <3>6, <3>7, <3>8, <3>9, <3>10, <3>11 DEF Request
  <2> QED
    BY <2>2, <2>3
<1>2. ASSUME NEW f \in DOMAIN files, Recycle(f) \/ Restore(f) PROVE AskedOfDeletion'
  BY <1>2, FileStepOutcome DEF AskedOfDeletion, Deleting
<1> QED
  BY <1>1, <1>2 DEF AskedOfDeletion

\* What LIKE selects below a folder it selects with all that is below it.
LEMMA BelowChild ==
    ASSUME StorageTypeOK, NEW row \in folders, NEW up \in folders, IsChild(row, up),
           NEW path \in Seq(Names), up.path = path \/ Below(path, up.path)
    PROVE  Below(path, row.path)
<1>1. row.path \in Seq(Names) /\ up.path \in Seq(Names)
  BY DEF StorageTypeOK, FolderRows
<1>2. /\ Len(up.path) = Len(row.path) - 1
      /\ \A i \in 1..Len(up.path) : up.path[i] = row.path[i]
  BY <1>1, PrefixElements DEF IsChild
<1>3. /\ Len(up.path) \in Nat /\ Len(row.path) \in Nat /\ Len(path) \in Nat
      /\ DOMAIN path = 1..Len(path) /\ \A i \in 1..Len(path) : path[i] \in Names
  BY <1>1, LenProperties, ElementOfSeq
<1>4. CASE up.path = path
  BY <1>2, <1>3, <1>4, StorageAssumption DEF Below
<1>5. CASE Below(path, up.path)
  <2>1. Len(up.path) > Len(path) /\ \A i \in 1..Len(path) : <<path[i], up.path[i]>> \in Like
    BY <1>3, <1>5 DEF Below
  <2>2. \A i \in 1..Len(path) : up.path[i] = row.path[i]
    BY <1>2, <1>3, <2>1
  <2>3. Len(row.path) > Len(path)
    BY <1>2, <1>3, <2>1
  <2> QED
    BY <1>3, <2>1, <2>2, <2>3 DEF Below
<1> QED
  BY <1>4, <1>5

\* SelectFolders selects the children of all that it selects.
LEMMA SelectedClosed ==
    ASSUME StorageTypeOK, RowsLinked, AskedOfDeletion, NEW t \in Deleting,
           NEW row \in folders, row.parent \in Selected(t), <<"folder", row.id>> \notin loose
    PROVE  row.id \in Selected(t)
<1>1. job[t].path \in Seq(Names)
  BY DEF StorageTypeOK, Deleting, Jobs
<1>2. PICK r \in folders : /\ r.id = row.parent
                           /\ r.id = job[t].asked \/ Below(job[t].path, r.path)
  BY DEF Selected
<1>3. row.parent # Root
  BY <1>2 DEF Root, StorageTypeOK, FolderRows
<1>4. PICK up \in folders : IsChild(row, up)
  BY <1>3 DEF RowsLinked
<1>5. up = r
  BY <1>2, <1>4 DEF IsChild, StorageTypeOK
<1>6. up.path = job[t].path \/ Below(job[t].path, up.path)
  BY <1>2, <1>5 DEF AskedOfDeletion
<1>7. Below(job[t].path, row.path)
  BY <1>1, <1>4, <1>6, BelowChild
<1> QED
  BY <1>7 DEF Selected

\* Nothing is made below what a deletion has selected but by a request it crosses.
LEMMA SelectionClosedStep ==
    ASSUME StorageTypeOK, StepsOfRequests, CrossedMarked, BinMarked, RowsLinked,
           AskedOfDeletion, SelectionClosed
    PROVE  /\ \A t \in Threads : Request(t) => SelectionClosed'
           /\ \A f \in DOMAIN files : Recycle(f) \/ Restore(f) => SelectionClosed'
<1> DEFINE Rows(x) == \A row \in folders :
                row.parent \in job[x].ids /\ <<"folder", row.id>> \notin loose
                    => row.id \in job[x].ids
           Files(x) == \A f \in Live : files[f].folder \in job[x].ids => <<"file", f>> \in loose
           ClosedUnder(x) == /\ pc[x] \in {"files", "folders"} => Rows(x)
                             /\ pc[x] = "folders" => Files(x)
<1>0. \A x \in Threads : ClosedUnder(x)
  BY DEF SelectionClosed
<1>1. ASSUME NEW t \in Threads, Request(t), NEW x \in Threads, x # t
      PROVE  ClosedUnder(x)'
  <2>1. pc'[x] = pc[x] /\ job'[x] = job[x]
    BY <1>1, OthersWait
  <2>2. CASE pc[x] \notin {"files", "folders"}
    BY <2>1, <2>2
  <2>3. CASE pc[x] \in {"files", "folders"}
    <3>0. t \in Making => t \in crossed
      BY <2>3 DEF StepsOfRequests, CrossedMarked, Deleting
    <3>1. CASE UNCHANGED <<folders, lastId, files, unchecked, loose>>
      BY <1>0, <2>1, <3>1 DEF Live
    <3>2. CASE EnsureSegment(t)
      <4>1. PICK id : /\ UNCHANGED files
                      /\ \/ UNCHANGED <<folders, loose>>
                         \/ /\ \A row \in folders' : row \in folders \/ row.id = id
                            /\ t \in crossed => loose' = loose \union {<<"folder", id>>}
        <5>1. PICK id, path :
                 /\ UNCHANGED files
                 /\ \/ UNCHANGED <<folders, lastId, loose>>
                    \/ /\ folders' = folders \union
                            {[id |-> id, parent |-> job[t].folder, path |-> path]}
                       /\ loose' = IF t \in crossed THEN loose \union {<<"folder", id>>}
                                   ELSE loose
          BY <3>2, EnsureSegmentOutcome
        <5> DEFINE new == [id |-> id, parent |-> job[t].folder, path |-> path]
        <5>2. new.id = id
          OBVIOUS
        <5>3. \/ folders' = folders
              \/ folders' = folders \union {new}
          BY <5>1
        <5> HIDE DEF new
        <5> QED
          BY <5>1, <5>2, <5>3
      <4>2. t \in Making
        BY <3>2 DEF EnsureSegment, StepsOfRequests, Making
      <4> QED
        BY <1>0, <2>1, <3>0, <4>1, <4>2 DEF Live
    <3>3. CASE InsertFile(t)
      <4>1. PICK f : /\ DOMAIN files' = DOMAIN files \union {f}
                     /\ \A g \in DOMAIN files : files'[g] = files[g]
                     /\ loose' = IF t \in crossed THEN loose \union {<<"file", f>>} ELSE loose
                     /\ UNCHANGED folders
        BY <3>3, InsertFileOutcome
      <4>2. t \in Making
        BY <3>3 DEF InsertFile, StepsOfRequests, Making
      <4>3. <<"file", f>> \in loose' /\ loose \subseteq loose'
        BY <3>0, <4>1, <4>2
      <4>4. \A g \in Live' : g = f \/ (g \in Live /\ files'[g] = files[g])
        <5>1. ASSUME NEW g \in Live', g # f PROVE g \in DOMAIN files /\ files'[g] = files[g]
          BY <4>1, <5>1 DEF Live
        <5> QED
          BY <5>1 DEF Live
      <4> QED
        BY <1>0, <2>1, <4>1, <4>3, <4>4
    <3>4. CASE DeleteFiles(t)
      <4>1. /\ \A f \in Live' : f \in Live /\ files'[f] = files[f]
            /\ loose \subseteq loose' /\ folders' = folders
        BY <3>4, DeleteFilesOutcome DEF Live
      <4> QED
        BY <1>0, <2>1, <4>1
    <3>5. CASE DeleteFolders(t)
      <4>1. folders' \subseteq folders /\ UNCHANGED <<files, loose>>
        BY <3>5, DeleteFoldersOutcome
      <4> QED
        BY <1>0, <2>1, <4>1 DEF Live
    <3> QED
      BY <1>1, <3>1, <3>2, <3>3, <3>4, <3>5, QuietRequest
  <2> QED
    BY <2>2, <2>3
<1>2. ASSUME NEW t \in Threads, Request(t) PROVE ClosedUnder(t)'
  <2>1. CASE Done(t) \/ pc'[t] \notin {"files", "folders"}
    BY <2>1, DoneOutcome
  <2>2. CASE SelectFolders(t) /\ ~Done(t)
    <3>1. /\ job'[t] = [job[t] EXCEPT !.ids = Selected(t)] /\ pc'[t] = "files"
          /\ UNCHANGED <<folders, loose>> /\ t \in Deleting
      BY <2>2 DEF SelectFolders, StepsOfRequests, Deleting, StorageTypeOK, Goto, tables
    <3>2. job'[t].ids = Selected(t)
      BY <3>1 DEF StorageTypeOK, Jobs
    <3> QED
      BY <3>1, <3>2, SelectedClosed
  <2>3. CASE DeleteFiles(t)
    <3>1. PICK gone \in SUBSET Live :
              /\ gone = {f \in Live : files[f].folder \in job[t].ids}
              /\ DOMAIN files' = DOMAIN files
              /\ \A f \in gone : files'[f].deleted
              /\ \A f \in DOMAIN files \ gone : files'[f] = files[f]
              /\ loose \subseteq loose'
              /\ pc[t] = "files" /\ UNCHANGED <<folders, job>>
      BY <2>3, DeleteFilesOutcome
    <3>2. Rows(t)'
      BY <1>0, <3>1
    <3>3. \A f \in Live' : f \in Live /\ f \notin gone /\ files'[f] = files[f]
      BY <3>1 DEF Live
    <3>4. Files(t)'
      BY <3>1, <3>3
    <3> QED
      BY <3>2, <3>4
  <2>4. CASE ~SelectFolders(t) /\ ~DeleteFiles(t)
    <3> USE DEF StorageTypeOK, Goto
    <3> SUFFICES Done(t) \/ pc'[t] \notin {"files", "folders"}
      BY <2>1
    <3>1. CASE \E d \in 0..lastId : \E segments \in {<< >>} \union {<<n>> : n \in Names}, size \in Sizes :
                   StartUpload(t, d, segments, size)
      BY <3>1 DEF StartUpload, Start
    <3>2. CASE \E d \in 0..lastId, n \in Names : StartCreate(t, d, n)
      BY <3>2 DEF StartCreate, Start
    <3>3. CASE \E d \in 0..lastId : StartDelete(t, d)
      BY <3>3 DEF StartDelete
    <3>4. CASE CheckQuota(t)
      BY <3>4, CheckQuotaOutcome
    <3>5. CASE ReadBase(t) \/ SegmentFails(t)
      BY <3>5, ReadBaseOutcome, ReturnsZeroOutcome DEF SegmentFails
    <3>6. CASE EnsureSegment(t)
      BY <3>6, EnsureSegmentOutcome
    <3>7. CASE InsertFile(t) \/ DeleteFolders(t) \/ GiveUp(t)
      BY <3>7 DEF InsertFile, DeleteFolders, GiveUp
    <3> QED
      BY <1>2, <2>4, <3>1, <3>2, <3>3, <3>4, <3>5, <3>6, <3>7 DEF Request
  <2> QED
    BY <2>1, <2>2, <2>3, <2>4
<1>3. ASSUME NEW f \in DOMAIN files, Recycle(f) \/ Restore(f), NEW x \in Threads
      PROVE  ClosedUnder(x)'
  <2>1. /\ DOMAIN files' = DOMAIN files /\ UNCHANGED <<folders, pc, job>> /\ loose \subseteq loose'
        /\ \A g \in DOMAIN files : g # f => files'[g] = files[g]
        /\ files'[f].deleted \/ files[f].deleted
    BY <1>3, FileStepOutcome
  <2>2. \A g \in Live' : (g \in Live /\ files'[g] = files[g]) \/ <<"file", g>> \in loose
    BY <2>1 DEF Live, BinMarked
  <2>3. Files(x) => Files(x)'
    BY <2>1, <2>2
  <2>4. Rows(x) => Rows(x)'
    BY <2>1
  <2> HIDE DEF Files, Rows
  <2> QED
    BY <1>0, <2>1, <2>3, <2>4
<1>4. ASSUME \A x \in Threads : ClosedUnder(x)' PROVE SelectionClosed'
  BY <1>4 DEF SelectionClosed
<1> HIDE DEF ClosedUnder
<1> QED
  BY <1>1, <1>2, <1>3, <1>4

-----------------------------------------------------------------------------
(* The quota.                                                              *)

\* There is a largest file.
LEMMA LargestType ==
    /\ Largest \in Nat
    /\ \A size \in Sizes \union {0} : size \in 0..Largest
<1>1. \E largest \in Sizes : \A size \in Sizes : largest >= size
  BY StorageAssumption
<1>2. Largest \in Sizes /\ \A size \in Sizes : Largest >= size
  BY <1>1 DEF Largest, Max
<1> QED
  BY <1>2, StorageAssumption

\* The files and the requests that count are finitely many.
LEMMA CountedType ==
    ASSUME StorageTypeOK
    PROVE  /\ IsFiniteSet(DOMAIN files)
           /\ \A f \in DOMAIN files : [g \in DOMAIN files |-> files[g].size][f] \in Nat
           /\ Admitted \subseteq Threads /\ IsFiniteSet(Admitted)
           /\ \A t \in Threads : [u \in Threads |-> job[u].size][t] \in 0..Largest
<1>1. IsFiniteSet(DOMAIN files)
  BY FilesType, FS_Interval
<1>2. \A f \in DOMAIN files : files[f].size \in Nat
  BY FilesType, StorageAssumption DEF FileRows
<1>3. Admitted \subseteq Threads /\ IsFiniteSet(Admitted)
  BY StorageAssumption, FS_Subset DEF Admitted
<1>4. \A t \in Threads : job[t].size \in 0..Largest
  BY LargestType DEF StorageTypeOK, Jobs
<1> QED
  BY <1>1, <1>2, <1>3, <1>4

\* Bytes of fewer files.
LEMMA BytesLess ==
    ASSUME StorageTypeOK, NEW S \in SUBSET DOMAIN files, NEW T \in SUBSET S
    PROVE  BytesOf(S) \in Nat /\ BytesOf(T) \in Nat /\ BytesOf(T) <= BytesOf(S)
<1> DEFINE w == [f \in DOMAIN files |-> files[f].size]
<1>1. IsFiniteSet(S) /\ \A f \in S : w[f] \in Nat
  BY CountedType, FS_Subset
<1> HIDE DEF w
<1>2. /\ SumFunctionOnSet(w, S) \in Nat /\ SumFunctionOnSet(w, T) \in Nat
      /\ SumFunctionOnSet(w, T) <= SumFunctionOnSet(w, S)
  BY <1>1, SumLess
<1> QED
  BY <1>2 DEF BytesOf, w

\* Files that go, or that no longer count.
LEMMA FewerFiles ==
    ASSUME StorageTypeOK, NEW T, T \subseteq Live \ unchecked, T \subseteq DOMAIN files',
           T = (Live \ unchecked)',
           \A f \in T : files'[f].size = files[f].size
    PROVE  /\ BytesOf(Live \ unchecked)' <= BytesOf(Live \ unchecked)
           /\ BytesOf(Live \ unchecked) \in Nat /\ BytesOf(Live \ unchecked)' \in Nat
<1> DEFINE S == Live \ unchecked
           w == [f \in DOMAIN files |-> files[f].size]
           v == [f \in DOMAIN files' |-> files'[f].size]
<1>1. IsFiniteSet(S) /\ \A f \in S : w[f] \in Nat
  BY CountedType, FS_Subset DEF Live
<1>2. \A f \in T : v[f] = w[f]
  BY DEF Live
<1>3. BytesOf(Live \ unchecked)' = SumFunctionOnSet(v, T) /\ BytesOf(S) = SumFunctionOnSet(w, S)
  BY DEF BytesOf
<1>4. T \in SUBSET S
  OBVIOUS
<1> HIDE DEF w, v, S
<1>5. /\ SumFunctionOnSet(w, S) \in Nat /\ SumFunctionOnSet(v, T) \in Nat
      /\ SumFunctionOnSet(v, T) <= SumFunctionOnSet(w, S)
  BY <1>1, <1>2, <1>4, SumLess
<1> QED
  BY <1>3, <1>5 DEF S

\* Requests that end, or that are let in unchecked.
LEMMA FewerAdmitted ==
    ASSUME StorageTypeOK, Admitted' \subseteq Admitted,
           \A t \in Admitted' : job'[t].size = job[t].size
    PROVE  /\ SizesAdmitted' <= SizesAdmitted
           /\ SizesAdmitted \in Nat /\ SizesAdmitted' \in Nat
<1> DEFINE S == Admitted
           T == Admitted'
           w == [t \in Threads |-> job[t].size]
           v == [t \in Threads |-> job'[t].size]
<1>1. IsFiniteSet(S) /\ S \subseteq Threads /\ \A t \in S : w[t] \in Nat
  BY CountedType
<1>2. T \in SUBSET S /\ \A t \in T : v[t] = w[t]
  BY <1>1
<1>3. SizesAdmitted' = SumFunctionOnSet(v, T) /\ SizesAdmitted = SumFunctionOnSet(w, S)
  BY DEF SizesAdmitted
<1> HIDE DEF w, v, S, T
<1>4. /\ SumFunctionOnSet(w, S) \in Nat /\ SumFunctionOnSet(v, T) \in Nat
      /\ SumFunctionOnSet(v, T) <= SumFunctionOnSet(w, S)
  BY <1>1, <1>2, SumLess
<1> QED
  BY <1>3, <1>4

\* Every request but one has a file of at most the largest size.
LEMMA OthersBounded ==
    ASSUME StorageTypeOK, NEW t \in Threads, t \notin Admitted
    PROVE  /\ SizesAdmitted \in Nat
           /\ SizesAdmitted <= (Cardinality(Threads) - 1) * Largest
           /\ (Cardinality(Threads) - 1) * Largest \in Nat
<1> DEFINE w == [u \in Threads |-> job[u].size]
           n == Cardinality(Threads)
           k == Cardinality(Admitted)
<1>1. /\ IsFiniteSet(Admitted) /\ Admitted \subseteq Threads \ {t}
      /\ \A u \in Admitted : w[u] \in 0..Largest
  BY CountedType
<1>2. /\ IsFiniteSet(Threads \ {t}) /\ Cardinality(Threads \ {t}) = n - 1
      /\ Cardinality(Threads \ {t}) \in Nat
  BY StorageAssumption, FS_RemoveElement, FS_CardinalityType, FS_Subset
<1>3. k \in Nat /\ k <= n - 1
  BY <1>1, <1>2, FS_CardinalityType, FS_Subset
<1>4. SizesAdmitted <= k * Largest /\ SizesAdmitted \in Nat
  <2>1. SizesAdmitted = SumFunctionOnSet(w, Admitted)
    BY DEF SizesAdmitted
  <2>2. \A u \in Admitted : w[u] \in Nat
    BY <1>1, LargestType
  <2> HIDE DEF w
  <2> QED
    BY <1>1, <2>1, <2>2, LargestType, SumBounded, SumRemove
<1>5. n - 1 \in Nat
  BY <1>2
<1> HIDE DEF n, k
<1>6. \A i, j, l \in Nat : i <= j => i * l <= j * l /\ i * l \in Nat /\ j * l \in Nat
  OBVIOUS
<1>7. k * Largest <= (n - 1) * Largest /\ k * Largest \in Nat /\ (n - 1) * Largest \in Nat
  BY <1>3, <1>5, <1>6, LargestType
<1> QED
  BY <1>4, <1>7 DEF n

\* Nothing is stored at first.
LEMMA RoomInit == StorageInit => RoomForAdmitted
<1> SUFFICES ASSUME StorageInit PROVE RoomForAdmitted
  OBVIOUS
<1>1. Live \ unchecked = {} /\ Admitted = {}
  BY DEF StorageInit, Live, Admitted
<1>2. BytesOf({}) = 0 /\ SizesAdmitted = 0
  BY <1>1, SumUnfolds, FS_EmptySet DEF BytesOf, SizesAdmitted
<1> DEFINE others == (Cardinality(Threads) - 1) * Largest
<1>3. Quota \in Nat /\ others \in Nat
  BY <1>1, OthersBounded, StorageTypeInit, StorageAssumption
<1>4. BytesOf(Live \ unchecked) + SizesAdmitted <= Quota + others
  <2> HIDE DEF others
  <2>1. BytesOf(Live \ unchecked) = 0
    BY <1>1, <1>2
  <2> QED
    BY <1>2, <1>3, <2>1
<1> QED
  BY <1>4 DEF RoomForAdmitted

\* No more bytes and no more requests leave room.
LEMMA RoomStays ==
    ASSUME StorageTypeOK, RoomForAdmitted,
           (Live \ unchecked)' \subseteq Live \ unchecked,
           \A f \in (Live \ unchecked)' : files'[f].size = files[f].size,
           Admitted' \subseteq Admitted,
           \A t \in Admitted' : job'[t].size = job[t].size
    PROVE  RoomForAdmitted'
<1>1. /\ BytesOf(Live \ unchecked)' <= BytesOf(Live \ unchecked)
      /\ BytesOf(Live \ unchecked) \in Nat /\ BytesOf(Live \ unchecked)' \in Nat
  <2> DEFINE T == (Live \ unchecked)'
  <2>1. T \subseteq DOMAIN files'
    BY DEF Live
  <2> QED
    BY <2>1, FewerFiles
<1>2. /\ SizesAdmitted' <= SizesAdmitted
      /\ SizesAdmitted \in Nat /\ SizesAdmitted' \in Nat
  BY FewerAdmitted
<1> DEFINE room == Quota + (Cardinality(Threads) - 1) * Largest
<1>3. room \in Int
  BY StorageAssumption, LargestType, FS_CardinalityType
<1>4. BytesOf(Live \ unchecked) + SizesAdmitted <= room
  BY DEF RoomForAdmitted
<1>5. BytesOf(Live \ unchecked)' + SizesAdmitted' <= room
  <2> HIDE DEF room
  <2> QED
    BY <1>1, <1>2, <1>3, <1>4
<1> QED
  BY <1>5 DEF RoomForAdmitted

\* A file that passes the check finds room; those let in beside it are at most one
\* for each other request.
LEMMA CheckQuotaRoom ==
    ASSUME StorageTypeOK, StepsOfRequests, RoomForAdmitted, NEW t \in Threads, CheckQuota(t)
    PROVE  RoomForAdmitted'
<1>0. /\ pc[t] = "quota" /\ UNCHANGED <<folders, lastId, files, started, unchecked, loose>>
      /\ Live' = Live /\ job[t].size \in Sizes /\ job[t].op = "upload"
  BY CheckQuotaOutcome DEF tables, Live, StepsOfRequests
<1>1. \A u \in Threads : u # t => pc'[u] = pc[u] /\ job'[u] = job[u]
  BY OthersWait DEF Request
<1>2. t \notin Admitted /\ Admitted' \subseteq Admitted \union {t} /\ Admitted \subseteq Admitted'
  BY <1>0, <1>1 DEF Admitted
<1>3. CASE t \notin Admitted'
  <2>1. \A u \in Admitted' : u # t /\ u \in Threads
    BY <1>3 DEF Admitted
  <2> QED
    BY <1>0, <1>1, <1>2, <1>3, <2>1, RoomStays
<1>4. CASE t \in Admitted'
  <2>1. pc'[t] = "base" /\ job'[t].size = job[t].size /\ job'[t].checked /\ ~Done(t)
    <3>1. job'[t].checked /\ pc'[t] # "idle"
      BY <1>4 DEF Admitted
    <3> QED
      BY <3>1, CheckQuotaOutcome, DoneOutcome
  <2>2. BytesOf(Live) + job[t].size <= Quota
    BY <2>1, CheckQuotaOutcome
  <2>3. /\ BytesOf(Live) \in Nat /\ BytesOf(Live \ unchecked) \in Nat
        /\ BytesOf(Live \ unchecked) <= BytesOf(Live)
    BY BytesLess DEF Live
  <2>4. BytesOf(Live \ unchecked)' = BytesOf(Live \ unchecked)
    BY <1>0 DEF BytesOf
  <2> DEFINE w == [u \in Threads |-> job[u].size]
             v == [u \in Threads |-> job'[u].size]
  <2>5. SizesAdmitted' = job[t].size + SizesAdmitted /\ job[t].size \in Nat
    <3>1. /\ IsFiniteSet(Admitted \union {t}) /\ IsFiniteSet(Admitted)
          /\ Admitted' = Admitted \union {t} /\ Admitted' \ {t} = Admitted
      BY <1>2, <1>4, CountedType, FS_AddElement
    <3>2. \A u \in Admitted' : v[u] = w[u] /\ w[u] \in Nat
      <4>1. Admitted' \subseteq Threads
        BY DEF Admitted
      <4>2. \A u \in Threads : job'[u].size = job[u].size
        BY <1>1, <2>1
      <4>3. \A u \in Threads : w[u] \in Nat
        BY CountedType, LargestType
      <4> QED
        BY <4>1, <4>2, <4>3
    <3>3. SizesAdmitted' = SumFunctionOnSet(v, Admitted') /\ SizesAdmitted = SumFunctionOnSet(w, Admitted)
      BY DEF SizesAdmitted
    <3>4. w[t] = job[t].size
      OBVIOUS
    <3> HIDE DEF w, v
    <3>5. SumFunctionOnSet(v, Admitted') = SumFunctionOnSet(w, Admitted')
      BY <3>1, <3>2, SumLess
    <3>6. SumFunctionOnSet(w, Admitted') = w[t] + SumFunctionOnSet(w, Admitted)
      BY <3>1, <3>2, SumRemove
    <3> QED
      BY <1>4, <3>2, <3>3, <3>4, <3>5, <3>6
  <2> DEFINE others == (Cardinality(Threads) - 1) * Largest
  <2>6. SizesAdmitted \in Nat /\ SizesAdmitted <= others /\ others \in Nat
    BY <1>2, OthersBounded
  <2>7. BytesOf(Live \ unchecked)' + SizesAdmitted' <= Quota + others
    <3> HIDE DEF others
    <3> QED
      BY <2>2, <2>3, <2>4, <2>5, <2>6, StorageAssumption
  <2> QED
    BY <2>7 DEF RoomForAdmitted
<1> QED
  BY <1>3, <1>4

\* A file that is inserted was counted while it was under way.
LEMMA InsertFileRoom ==
    ASSUME StorageTypeOK, StepsOfRequests, RoomForAdmitted, NEW t \in Threads, InsertFile(t)
    PROVE  RoomForAdmitted'
<1>1. PICK f : /\ f \notin DOMAIN files /\ DOMAIN files' = DOMAIN files \union {f}
               /\ files'[f] = [size |-> job[t].size, folder |-> job[t].folder,
                               deleted |-> FALSE]
               /\ \A g \in DOMAIN files : files'[g] = files[g]
               /\ unchecked' = IF job[t].checked THEN unchecked ELSE unchecked \union {f}
               /\ pc[t] = "insert" /\ Done(t) /\ job[t].size \in Sizes
  BY InsertFileOutcome
<1>2. /\ files'[f].size = job[t].size /\ ~files'[f].deleted
      /\ job[t].size \in Nat /\ unchecked \subseteq DOMAIN files
  <2>1. files'[f].size = job[t].size /\ ~files'[f].deleted
    BY <1>1
  <2>2. job[t].size \in Nat
    BY <1>1, StorageAssumption
  <2>3. unchecked \subseteq DOMAIN files
    BY DEF StorageTypeOK
  <2> QED
    BY <2>1, <2>2, <2>3
<1>3. \A u \in Threads : u # t => pc'[u] = pc[u] /\ job'[u] = job[u]
  BY OthersWait DEF Request
<1>4. Admitted' = Admitted \ {t}
  BY <1>1, <1>3, DoneOutcome DEF Admitted
<1>5. \A u \in Admitted' : job'[u].size = job[u].size
  BY <1>3, <1>4 DEF Admitted
<1> DEFINE S == Live \ unchecked
<1>6. CASE ~job[t].checked
  <2>1. (Live \ unchecked)' \subseteq S /\ \A g \in (Live \ unchecked)' : g # f /\ g \in DOMAIN files
    BY <1>1, <1>6 DEF Live
  <2> QED
    BY <1>1, <1>4, <1>5, <2>1, RoomStays
<1>7. CASE job[t].checked
  <2> DEFINE w == [g \in DOMAIN files |-> files[g].size]
             v == [g \in DOMAIN files' |-> files'[g].size]
             j == [u \in Threads |-> job[u].size]
             k == [u \in Threads |-> job'[u].size]
  <2>1. S' = S \union {f} /\ f \notin S /\ S \subseteq DOMAIN files
    BY <1>1, <1>2, <1>7 DEF Live
  <2>2. t \in Admitted
    BY <1>1, <1>7 DEF Admitted, StepsOfRequests
  <2>3. BytesOf(S)' = job[t].size + BytesOf(S) /\ BytesOf(S) \in Nat
    <3>1. /\ IsFiniteSet(S) /\ IsFiniteSet(S \union {f})
          /\ (S \union {f}) \ {f} = S
      <4>1. IsFiniteSet(DOMAIN files)
        BY CountedType
      <4> HIDE DEF S
      <4>2. IsFiniteSet(S)
        BY <2>1, <4>1, FS_Subset
      <4>3. IsFiniteSet(S \union {f})
        BY <4>2, FS_AddElement
      <4> QED
        BY <2>1, <4>2, <4>3
    <3>2. /\ \A g \in S : w[g] \in Nat /\ v[g] = w[g]
          /\ v[f] = job[t].size
      BY <1>1, <1>2, <2>1, CountedType
    <3>3. BytesOf(S)' = SumFunctionOnSet(v, S') /\ BytesOf(S) = SumFunctionOnSet(w, S)
      BY DEF BytesOf
    <3> HIDE DEF w, v, S
    <3>4. SumFunctionOnSet(v, S) = SumFunctionOnSet(w, S) /\ SumFunctionOnSet(w, S) \in Nat
      BY <3>1, <3>2, SumLess
    <3>5. \A g \in S \union {f} : v[g] \in Nat
      BY <1>2, <3>2
    <3>6. SumFunctionOnSet(v, S \union {f}) = v[f] + SumFunctionOnSet(v, S)
      BY <3>1, <3>5, SumRemove
    <3> QED
      BY <2>1, <3>2, <3>3, <3>4, <3>6
  <2>4. SizesAdmitted = job[t].size + SizesAdmitted' /\ SizesAdmitted' \in Nat
    <3>1. IsFiniteSet(Admitted) /\ IsFiniteSet(Admitted') /\ Admitted \subseteq Threads
      BY <1>4, CountedType, FS_Subset
    <3>2. /\ \A u \in Admitted : j[u] \in Nat
          /\ \A u \in Admitted' : k[u] = j[u]
          /\ j[t] = job[t].size
      BY <1>4, <1>5, <3>1, CountedType, LargestType
    <3>3. SizesAdmitted' = SumFunctionOnSet(k, Admitted') /\ SizesAdmitted = SumFunctionOnSet(j, Admitted)
      BY DEF SizesAdmitted
    <3> HIDE DEF j, k
    <3>4. /\ SumFunctionOnSet(k, Admitted') = SumFunctionOnSet(j, Admitted')
          /\ SumFunctionOnSet(k, Admitted') \in Nat
      BY <1>4, <3>1, <3>2, SumLess
    <3>5. SumFunctionOnSet(j, Admitted) = j[t] + SumFunctionOnSet(j, Admitted')
      BY <1>4, <2>2, <3>1, <3>2, SumRemove
    <3> QED
      BY <3>2, <3>3, <3>4, <3>5
  <2> DEFINE room == Quota + (Cardinality(Threads) - 1) * Largest
  <2>5. BytesOf(S) + SizesAdmitted <= room
    BY DEF RoomForAdmitted
  <2>6. BytesOf(S)' + SizesAdmitted' <= room
    <3> HIDE DEF room, S
    <3> QED
      BY <1>2, <2>3, <2>4, <2>5
  <2> QED
    BY <2>6 DEF RoomForAdmitted
<1> QED
  BY <1>6, <1>7

\* The room is kept by every step.
LEMMA RoomStep ==
    ASSUME StorageTypeOK, StepsOfRequests, BinMarked, RoomForAdmitted
    PROVE  /\ \A t \in Threads : Request(t) => RoomForAdmitted'
           /\ \A f \in DOMAIN files : Recycle(f) \/ Restore(f) => RoomForAdmitted'
<1>1. ASSUME NEW t \in Threads, Request(t), ~InsertFile(t), ~CheckQuota(t) PROVE RoomForAdmitted'
  <2>1. /\ (Live \ unchecked)' \subseteq Live \ unchecked
        /\ \A f \in (Live \ unchecked)' : files'[f].size = files[f].size
    <3>1. CASE UNCHANGED <<files, unchecked>>
      BY <3>1 DEF Live
    <3>2. CASE DeleteFiles(t)
      <4>1. /\ \A f \in Live' : f \in Live /\ files'[f] = files[f]
            /\ unchecked \subseteq unchecked'
        BY <3>2, DeleteFilesOutcome DEF Live
      <4> QED
        BY <4>1
    <3> QED
      BY <1>1, <3>1, <3>2, QuietRequest, EnsureSegmentOutcome, DeleteFoldersOutcome
  <2>2. \A u \in Threads : u # t => pc'[u] = pc[u] /\ job'[u] = job[u]
    BY <1>1, OthersWait
  <2>3. t \in Admitted' => t \in Admitted /\ job'[t].size = job[t].size
    <3> USE DEF StorageTypeOK, Goto
    <3>0. Done(t) \/ pc'[t] \notin {"base", "segment", "insert"} \/ job'[t].op # "upload"
              => t \notin Admitted'
      BY DoneOutcome DEF Admitted, NoJob
    <3>a. /\ pc[t] \in {"base", "segment"} /\ Kept(t)
              => (t \in Admitted' => t \in Admitted /\ job'[t].size = job[t].size)
      BY DEF Admitted, Kept
    <3>1. CASE \E d \in 0..lastId : \E segments \in {<< >>} \union {<<n>> : n \in Names}, size \in Sizes :
                   StartUpload(t, d, segments, size)
      BY <3>0, <3>1 DEF StartUpload, Start
    <3>2. CASE \E d \in 0..lastId, n \in Names : StartCreate(t, d, n)
      BY <3>0, <3>2 DEF StartCreate, Start, NoJob
    <3>3. CASE \E d \in 0..lastId : StartDelete(t, d)
      BY <3>0, <3>3 DEF StartDelete
    <3>4. CASE ReadBase(t)
      BY <3>0, <3>a, <3>4, ReadBaseOutcome, ReturnsZeroOutcome
    <3>5. CASE SegmentFails(t)
      BY <3>0, <3>a, <3>5, ReturnsZeroOutcome DEF SegmentFails
    <3>6. CASE EnsureSegment(t)
      BY <3>0, <3>a, <3>6, EnsureSegmentOutcome
    <3>7. CASE SelectFolders(t) \/ DeleteFiles(t)
      <4>1. Done(t) \/ Goto(t, "files") \/ Goto(t, "folders")
        BY <3>7 DEF SelectFolders, DeleteFiles
      <4> QED
        BY <3>0, <4>1
    <3>8. CASE DeleteFolders(t) \/ GiveUp(t)
      BY <3>0, <3>8 DEF DeleteFolders, GiveUp
    <3> QED
      BY <1>1, <3>1, <3>2, <3>3, <3>4, <3>5, <3>6, <3>7, <3>8 DEF Request
  <2>4. Admitted' \subseteq Admitted /\ \A u \in Admitted' : job'[u].size = job[u].size
    BY <2>2, <2>3 DEF Admitted
  <2> QED
    BY <2>1, <2>4, RoomStays
<1>2. ASSUME NEW f \in DOMAIN files, Recycle(f) \/ Restore(f) PROVE RoomForAdmitted'
  <2>1. /\ DOMAIN files' = DOMAIN files /\ UNCHANGED <<pc, job>>
        /\ \A g \in DOMAIN files : /\ g # f => files'[g] = files[g]
                                   /\ files'[g].size = files[g].size
        /\ unchecked \subseteq unchecked'
        /\ files'[f].deleted \/ files[f].deleted
    BY <1>2, FileStepOutcome
  <2>2. f \notin (Live \ unchecked)'
    BY <2>1 DEF Live, BinMarked
  <2>3. (Live \ unchecked)' \subseteq Live \ unchecked
    BY <2>1, <2>2 DEF Live
  <2>4. \A g \in (Live \ unchecked)' : files'[g].size = files[g].size
    BY <2>1 DEF Live
  <2>5. Admitted' = Admitted
    BY <2>1 DEF Admitted
  <2> QED
    BY <2>1, <2>3, <2>4, <2>5, RoomStays
<1> QED
  BY <1>1, <1>2, CheckQuotaRoom, InsertFileRoom

-----------------------------------------------------------------------------
(* The theorems.                                                           *)

\* The tables are empty and no request is under way.
LEMMA StorageInitInv == StorageInit => StorageInv
<1> SUFFICES ASSUME StorageInit PROVE StorageInv
  OBVIOUS
<1>1. StorageTypeOK /\ RoomForAdmitted
  BY StorageTypeInit, RoomInit
<1>2. StepsOfRequests /\ CrossedMarked /\ BinMarked
  BY DEF StorageInit, StepsOfRequests, CrossedMarked, BinMarked, Making, Deleting, NoJob
<1>3. FilesFound
  BY DEF StorageInit, FilesFound, Live
<1>4. FolderOfJob /\ RowsLinked /\ AskedOfDeletion /\ SelectionClosed
  BY DEF StorageInit, FolderOfJob, RowsLinked, AskedOfDeletion, SelectionClosed, Making, Deleting, NoJob
<1> QED
  BY <1>1, <1>2, <1>3, <1>4 DEF StorageInv

\* Every step keeps the invariant.
LEMMA StorageNextInv == StorageInv /\ [StorageNext]_storageVars => StorageInv'
<1> SUFFICES ASSUME StorageInv, [StorageNext]_storageVars PROVE StorageInv'
  OBVIOUS
<1> USE DEF StorageInv
<1>1. CASE UNCHANGED storageVars
  <2> USE <1>1 DEF storageVars, tables
  <2>1. StorageTypeOK'
    BY DEF StorageTypeOK
  <2>2. StepsOfRequests' /\ CrossedMarked' /\ BinMarked' /\ FilesFound'
    BY DEF StepsOfRequests, CrossedMarked, BinMarked, FilesFound, FilesIn, Live, Making, Deleting
  <2>3. RoomForAdmitted'
    BY DEF RoomForAdmitted, BytesOf, Live, SizesAdmitted, Admitted
  <2>4. FolderOfJob' /\ RowsLinked' /\ AskedOfDeletion' /\ SelectionClosed'
    BY DEF FolderOfJob, RowsLinked, AskedOfDeletion, SelectionClosed, Making, Deleting, IsFolder, Live
  <2> QED
    BY <2>1, <2>2, <2>3, <2>4
<1>2. ASSUME NEW t \in Threads, Request(t) PROVE StorageInv'
  <2>1. StorageTypeOK'
    <3>1. ASSUME NEW d \in 0..lastId, NEW segments \in {<< >>} \union {<<n>> : n \in Names},
                 NEW size \in Sizes, StartUpload(t, d, segments, size)
          PROVE  StorageTypeOK'
      <4>1. segments \in Seq(Names)
        <5>1. << >> \in Seq(Names) /\ \A n \in Names : <<n>> \in Seq(Names)
          BY EmptySeq
        <5> QED
          BY <5>1
      <4> QED
        BY <3>1, <4>1, StorageRequestType
    <3> QED
      BY <1>2, <3>1, StorageRequestType DEF Request
  <2>2. StepsOfRequests' /\ CrossedMarked'
    BY <1>2, StepsOfRequestsStep, CrossedMarkedStep
  <2>3. BinMarked' /\ FilesFound' /\ RoomForAdmitted'
    BY <1>2, BinMarkedStep, FilesFoundStep, RoomStep
  <2>4. FolderOfJob' /\ RowsLinked' /\ AskedOfDeletion' /\ SelectionClosed'
    BY <1>2, FolderOfJobStep, RowsLinkedStep, AskedOfDeletionStep, SelectionClosedStep
  <2> QED
    BY <2>1, <2>2, <2>3, <2>4
<1>3. ASSUME NEW f \in DOMAIN files, Recycle(f) \/ Restore(f) PROVE StorageInv'
  <2>1. StorageTypeOK'
    BY <1>3, StorageFileType
  <2>2. StepsOfRequests' /\ CrossedMarked'
    BY <1>3, FileStepOutcome DEF StepsOfRequests, CrossedMarked, Making, Deleting
  <2>3. BinMarked' /\ FilesFound' /\ RoomForAdmitted'
    BY <1>3, BinMarkedStep, FilesFoundStep, RoomStep
  <2>4. FolderOfJob' /\ RowsLinked' /\ AskedOfDeletion' /\ SelectionClosed'
    BY <1>3, FolderOfJobStep, RowsLinkedStep, AskedOfDeletionStep, SelectionClosedStep
  <2> QED
    BY <2>1, <2>2, <2>3, <2>4
<1> QED
  BY <1>1, <1>2, <1>3 DEF StorageNext

\* What the statements of concurrent uploads, folder requests and deletions keep,
\* for any number of requests, files and folders.
THEOREM StorageInvariant == StorageSpec => []StorageInv
BY StorageInitInv, StorageNextInv, PTL DEF StorageSpec

\* The rows of the folders, the files and the requests keep their types; ids
\* and paths of folders are unique (uniq_user_path_hash).
THEOREM StorageTypeCorrect == StorageSpec => []StorageTypeOK
<1>1. StorageInv => StorageTypeOK
  BY DEF StorageInv
<1> QED
  BY <1>1, StorageInvariant, PTL

\* The live files that were checked never take more than the quota and one largest
\* file for each further request: the check and the insert are not one transaction
\* (UserHandler, FileHandler.cc).
THEOREM QuotaBounded == StorageSpec => []QuotaExceededByRequests
<1>1. StorageInv => QuotaExceededByRequests
  <2> SUFFICES ASSUME StorageInv PROVE QuotaExceededByRequests
    OBVIOUS
  <2> DEFINE room == Quota + (Cardinality(Threads) - 1) * Largest
  <2>1. BytesOf(Live \ unchecked) + SizesAdmitted <= room
    BY DEF StorageInv, RoomForAdmitted
  <2>2. BytesOf(Live \ unchecked) \in Nat
    BY BytesLess DEF StorageInv, Live
  <2>3. SizesAdmitted \in Nat
    <3>1. StorageTypeOK
      BY DEF StorageInv
    <3>2. /\ IsFiniteSet(Admitted) /\ Admitted \subseteq Threads
          /\ \A t \in Admitted : [u \in Threads |-> job[u].size][t] \in Nat
      BY <3>1, CountedType, LargestType
    <3> QED
      BY <3>2, SumRemove DEF SizesAdmitted
  <2>4. room \in Int
    BY StorageAssumption, LargestType, FS_CardinalityType
  <2>5. BytesOf(Live \ unchecked) <= room
    <3> HIDE DEF room
    <3> QED
      BY <2>1, <2>2, <2>3, <2>4
  <2> QED
    BY <2>5 DEF QuotaExceededByRequests
<1> QED
  BY <1>1, StorageInvariant, PTL

\* A live file is in the root or in a folder that has a row, unless a deletion
\* crossed the request that made it.
THEOREM LiveFilesFound == StorageSpec => []FilesFound
<1>1. StorageInv => FilesFound
  BY DEF StorageInv
<1> QED
  BY <1>1, StorageInvariant, PTL

\* A folder is in the root or in a folder that has a row, under the path of that
\* row, unless a deletion crossed the request that made it.
THEOREM AllFoldersFound == StorageSpec => []FoldersFound
<1>1. ASSUME StorageInv, NEW row \in folders
      PROVE  \/ row \in FoldersIn(Root) /\ Breadcrumbs(row) = {row}
             \/ \E up \in Breadcrumbs(row) \ {row} :
                     row \in FoldersIn(up.id) /\ Len(up.path) = Len(row.path) - 1
             \/ <<"folder", row.id>> \in loose
  <2>0. /\ \A r \in folders : r.path \in Seq(Names) /\ Len(r.path) \in 1..MaxDepth
        /\ \A r, other \in folders : r.path = other.path => r = other
    BY <1>1 DEF StorageInv, StorageTypeOK, FolderRows
  <2>1. CASE row.parent = Root /\ Len(row.path) = 1
    <3>1. ASSUME NEW up \in folders, IsPrefix(up.path, row.path) PROVE up = row
      <4>1. Len(up.path) = 1
        BY <2>0, <2>1, <3>1, PrefixElements
      <4>2. up.path = row.path
        BY <2>0, <2>1, <3>1, <4>1, PrefixElements, SeqEqual
      <4> QED
        BY <2>0, <4>2
    <3>2. IsPrefix(row.path, row.path)
      BY <2>0 DEF IsPrefix
    <3> QED
      BY <2>1, <3>1, <3>2 DEF Breadcrumbs, FoldersIn
  <2>2. ASSUME NEW up \in folders, IsChild(row, up)
        PROVE  /\ up \in Breadcrumbs(row) \ {row}
               /\ row \in FoldersIn(up.id) /\ Len(up.path) = Len(row.path) - 1
    <3>1. Len(up.path) = Len(row.path) - 1 /\ Len(row.path) \in Nat
      BY <2>0, <2>2 DEF IsChild
    <3> QED
      BY <2>2, <3>1 DEF IsChild, Breadcrumbs, FoldersIn
  <2>3. \/ row.parent = Root /\ Len(row.path) = 1
        \/ \E up \in folders : IsChild(row, up)
        \/ <<"folder", row.id>> \in loose
    BY <1>1 DEF StorageInv, RowsLinked
  <2> QED
    BY <2>1, <2>2, <2>3
<1>2. StorageInv => FoldersFound
  BY <1>1 DEF FoldersFound
<1> QED
  BY <1>2, StorageInvariant, PTL

=============================================================================
