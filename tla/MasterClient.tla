---------------------------- MODULE MasterClient ----------------------------
(***************************************************************************)
(* The session of one DataNode with the master: connection, registration,  *)
(* token, heartbeats and the queue of finish notices on one side, the      *)
(* entries of NodeManager::nodes_ on the other, and between them the HTTP  *)
(* requests and replies of one TCP connection.                             *)
(*                                                                         *)
(* The connection keeps order, but not boundaries.  HttpServer handles one *)
(* request per read, so of several that arrive together the rest wait in   *)
(* its buffer for the next read; MasterClient takes all that one read      *)
(* brings for a single reply.                                              *)
(***************************************************************************)
EXTENDS Naturals, Sequences, FiniteSets

CONSTANTS
    Ids,            \* node ids, bound on the UUIDs the master makes up
    NoId,           \* no node_id.dat
    InitialId,      \* what node_id.dat holds at first, or NoId
    Files,          \* uploads that finish, again and again
    MaxWire,        \* bound on requests sent and not read yet
    MaxBacklog,     \* bound on requests read and not handled yet
    MaxReplies      \* bound on replies sent and not read yet

ASSUME MasterClientAssumption ==
    /\ NoId \notin Ids
    /\ InitialId \in Ids \union {NoId}
    /\ MaxWire \in Nat \ {0}
    /\ MaxBacklog \in Nat
    /\ MaxReplies \in Nat \ {0}

VARIABLES
    connected,  \* conn_->connected()
    registered, \* registered_
    nodeId,     \* nodeId_, the same as in node_id.dat
    token,      \* token_: "none", "valid" or "expired"
    pending,    \* pendingNotifications_
    procs,      \* calls of procPendingNotice queued in the event loop
    requests,   \* requests sent and not handled yet, oldest first
    arrived,    \* how many of them are in the buffer of the master
    replies,    \* replies sent and not read yet, oldest first
    entries,    \* keys of nodes_ on the master
    alive       \* those of them with isAlive_

clientVars == <<registered, nodeId, token, pending, procs>>
wireVars == <<requests, arrived, replies>>
masterVars == <<entries, alive>>
vars == <<connected, clientVars, wireVars, masterVars>>

-----------------------------------------------------------------------------
(* Messages.                                                               *)

RegisterRequest(i) == [kind |-> "register", id |-> i]
Heartbeat(i, ok) == [kind |-> "heartbeat", id |-> i, valid |-> ok]
Report(i, ok) == [kind |-> "report", id |-> i, valid |-> ok]
Notice(i, ok, f) == [kind |-> "notice", id |-> i, valid |-> ok, file |-> f]

Requests ==
    {RegisterRequest(i) : i \in Ids \union {NoId}}
        \union {Heartbeat(i, ok) : i \in Ids, ok \in BOOLEAN}
        \union {Report(i, ok) : i \in Ids, ok \in BOOLEAN}
        \union {Notice(i, ok, f) : i \in Ids, ok \in BOOLEAN, f \in Files}

\* "other": any reply that MasterClient only logs.
Registered(i) == [kind |-> "registered", id |-> i]
Unauthorized == [kind |-> "unauthorized"]
Other == [kind |-> "other"]

Replies == {Registered(i) : i \in Ids} \union {Unauthorized, Other}

TypeOK ==
    /\ connected \in BOOLEAN
    /\ registered \in BOOLEAN
    /\ nodeId \in Ids \union {NoId}
    /\ token \in {"none", "valid", "expired"}
    /\ pending \in Seq(Files)
    /\ procs \in Nat
    /\ requests \in Seq(Requests)
    /\ arrived \in 0..Len(requests)
    /\ replies \in Seq(Replies)
    /\ entries \in SUBSET Ids
    /\ alive \in SUBSET entries

Init ==
    /\ connected = FALSE
    /\ registered = FALSE
    /\ nodeId = InitialId
    /\ token = "none"
    /\ pending = <<>>
    /\ procs = 0
    /\ requests = <<>> /\ arrived = 0 /\ replies = <<>>
    /\ entries = {} /\ alive = {}

Queued(f) == \E i \in DOMAIN pending : pending[i] = f

InFlight(f) ==
    \E i \in DOMAIN requests :
        requests[i].kind = "notice" /\ requests[i].file = f

\* Bound of the model: when the timers and finished uploads may send.
WireFree == Len(requests) - arrived < MaxWire

-----------------------------------------------------------------------------
(* Sending.                                                                *)

Register == RegisterRequest(nodeId)

\* doNotifyUploadFinish for each notice of a queue: a notice that finds the
\* node unregistered asks for a registration and goes back to the queue.
NoticeRequests(queue, reg) ==
    [i \in DOMAIN queue |->
        IF reg THEN Notice(nodeId, token = "valid", queue[i]) ELSE Register]

\* Mutant of Connect: a node that has a token resumes its session.
ConnectResuming ==
    /\ ~connected
    /\ connected' = TRUE
    /\ registered' = (token # "none")
    /\ requests' = IF token = "none" THEN <<Register>> ELSE <<>>
    /\ UNCHANGED <<nodeId, token, pending, procs, arrived, replies, masterVars>>

\* onConnection, connected: a registration, then the notices of the queue,
\* none of which can be sent yet.
Connect ==
    /\ ~connected
    /\ connected' = TRUE
    /\ requests' = <<Register>> \o NoticeRequests(pending, registered)
    /\ UNCHANGED <<clientVars, arrived, replies, masterVars>>

\* Mutant of SendHeartbeat: it waits for earlier requests to be answered.
SendHeartbeatWhenAnswered ==
    /\ connected
    /\ requests = <<>>
    /\ requests' = Append(requests, IF registered
                                    THEN Heartbeat(nodeId, token = "valid")
                                    ELSE Register)
    /\ UNCHANGED <<connected, clientVars, arrived, replies, masterVars>>

\* sendHeartbeat, every 3 seconds
SendHeartbeat ==
    /\ connected
    /\ WireFree
    /\ requests' = Append(requests, IF registered
                                    THEN Heartbeat(nodeId, token = "valid")
                                    ELSE Register)
    /\ UNCHANGED <<connected, clientVars, arrived, replies, masterVars>>

\* notifyUploadFinish, called from a thread of the HTTP server
NotifyUploadFinish(f) ==
    /\ ~Queued(f) /\ ~InFlight(f)
    /\ procs < Cardinality(Files)
    /\ pending' = Append(pending, f)
    /\ procs' = procs + 1
    /\ UNCHANGED <<connected, registered, nodeId, token, wireVars, masterVars>>

\* procPendingNotice, in the event loop
ProcPendingNotice ==
    /\ procs > 0
    /\ WireFree
    /\ procs' = procs - 1
    /\ IF connected
       THEN requests' = requests \o NoticeRequests(pending, registered)
       ELSE UNCHANGED requests
    /\ pending' = IF connected /\ registered THEN <<>> ELSE pending
    /\ UNCHANGED <<connected, registered, nodeId, token, arrived, replies,
                   masterVars>>

\* checkTokenExpired: the timer that renews the token after 23 hours
RefreshToken ==
    /\ connected /\ registered
    /\ WireFree
    /\ requests' = Append(requests, Register)
    /\ UNCHANGED <<connected, clientVars, arrived, replies, masterVars>>

-----------------------------------------------------------------------------
(* The master: HttpServer::onMessage and DataNodeHandler.                  *)

\* A node without an id gets a new one, whoever it is.
HandleRegister(r) ==
    \E i \in IF r.id = NoId THEN Ids \ entries ELSE {r.id} :
        /\ i # nodeId \/ r.id # NoId
        /\ entries' = entries \union {i}
        /\ alive' = alive \union {i}
        /\ replies' = Append(replies, Registered(i))

HandleHeartbeat(r) ==
    LET known == r.valid /\ r.id \in entries
    IN /\ alive' = IF known THEN alive \union {r.id} ELSE alive
       /\ replies' = Append(replies, IF r.valid THEN Other ELSE Unauthorized)
       /\ UNCHANGED entries

\* handleUploadFinishNotify and handleReportFiles; what they do to the rows
\* is the subject of FileLifecycle.
HandleOther(r) ==
    /\ replies' = Append(replies, IF r.valid THEN Other ELSE Unauthorized)
    /\ UNCHANGED masterVars

\* A read brings k requests; the oldest of those waiting is handled.
MasterRead(k) ==
    /\ k \in 1..(Len(requests) - arrived)
    /\ arrived + k - 1 <= MaxBacklog
    /\ Len(replies) < MaxReplies
    /\ arrived' = arrived + k - 1
    /\ requests' = Tail(requests)
    /\ LET r == Head(requests)
       IN CASE r.kind = "register" -> HandleRegister(r)
            [] r.kind = "heartbeat" -> HandleHeartbeat(r)
            [] OTHER -> HandleOther(r)
    /\ UNCHANGED <<connected, clientVars>>

\* checkTimeoutNodes; an entry is never removed.
Timeout(i) ==
    /\ i \in alive
    /\ alive' = alive \ {i}
    /\ UNCHANGED <<connected, clientVars, wireVars, entries>>

-----------------------------------------------------------------------------
(* MasterClient::onMessage: a read brings k replies.                       *)

DropReplies(k) == replies' = SubSeq(replies, k + 1, Len(replies))

\* Mutant of ReadUnauthorized: nothing but a log line.
ReadUnauthorizedIgnored(k) ==
    /\ Head(replies) = Unauthorized
    /\ UNCHANGED <<clientVars, requests>>

\* The status line of the first says 401: register again, forget the rest.
ReadUnauthorized(k) ==
    /\ Head(replies) = Unauthorized
    /\ requests' = Append(requests, Register)
    /\ UNCHANGED clientVars

\* handleRegisterResponse; the report of local files follows at once.
ReadRegistered(k) ==
    /\ k = 1
    /\ Head(replies).kind = "registered"
    /\ nodeId' = Head(replies).id
    /\ token' = "valid"
    /\ registered' = TRUE
    /\ requests' = Append(requests, Report(nodeId', TRUE))
    /\ UNCHANGED <<pending, procs>>

\* Nothing to do, or a body that is two replies in one and does not parse.
ReadIgnored(k) ==
    /\ Head(replies) # Unauthorized
    /\ k > 1 \/ Head(replies) = Other
    /\ UNCHANGED <<clientVars, requests>>

ClientRead(k) ==
    /\ k \in 1..Len(replies)
    /\ DropReplies(k)
    /\ ReadUnauthorized(k) \/ ReadRegistered(k) \/ ReadIgnored(k)
    /\ UNCHANGED <<connected, arrived, masterVars>>

-----------------------------------------------------------------------------
(* Failures.                                                               *)

\* What was under way is lost with the connection.
CloseConnection ==
    /\ connected' = FALSE
    /\ registered' = FALSE
    /\ requests' = <<>> /\ arrived' = 0 /\ replies' = <<>>

Disconnect ==
    /\ connected
    /\ CloseConnection
    /\ UNCHANGED <<nodeId, token, pending, procs, masterVars>>

\* What the master will make of a request whose token expired on the way.
Expired(r) ==
    CASE r.kind = "heartbeat" -> Heartbeat(r.id, FALSE)
      [] r.kind = "report" -> Report(r.id, FALSE)
      [] r.kind = "notice" -> Notice(r.id, FALSE, r.file)
      [] OTHER -> r

\* Twenty-four hours after it was issued.
TokenExpires ==
    /\ token = "valid"
    /\ token' = "expired"
    /\ requests' = [i \in DOMAIN requests |-> Expired(requests[i])]
    /\ UNCHANGED <<connected, registered, nodeId, pending, procs, arrived,
                   replies, masterVars>>

\* node_id.dat survives, the queue of notices does not.
DataNodeRestart ==
    /\ CloseConnection
    /\ token' = "none"
    /\ pending' = <<>> /\ procs' = 0
    /\ UNCHANGED <<nodeId, masterVars>>

MasterRestart ==
    /\ CloseConnection
    /\ entries' = {} /\ alive' = {}
    /\ UNCHANGED <<nodeId, token, pending, procs>>

-----------------------------------------------------------------------------
ClientStep ==
    \/ Connect \/ SendHeartbeat \/ ProcPendingNotice \/ RefreshToken
    \/ \E f \in Files : NotifyUploadFinish(f)
    \/ \E k \in 1..Len(replies) : ClientRead(k)

Next ==
    \/ ClientStep
    \/ \E k \in 1..Len(requests) : MasterRead(k)
    \/ \E i \in Ids : Timeout(i)
    \/ Disconnect \/ TokenExpires \/ DataNodeRestart \/ MasterRestart

Spec == Init /\ [][Next]_vars

\* The client retries its connection, its heartbeat timer and its event loop
\* run, and now and then a read on either side brings a single message.  Uploads
\* need not finish, and the renewal of the token is not relied upon.
Fairness ==
    /\ WF_vars(Connect)
    /\ WF_vars(ProcPendingNotice)
    /\ SF_vars(SendHeartbeat)
    /\ SF_vars(MasterRead(1))
    /\ SF_vars(ClientRead(1))

FairSpec == Spec /\ Fairness

-----------------------------------------------------------------------------
(* Safety.                                                                 *)

\* The master never meets a heartbeat, notice or report of a node it does not
\* know, restarts of either side and reconnections included.
SenderKnown ==
    \A i \in DOMAIN requests :
        requests[i].kind # "register" => requests[i].id \in entries

-----------------------------------------------------------------------------
(* Liveness.                                                               *)

\* A DataNode comes back to life on the master again and again, through lost
\* connections, expired tokens, restarts and replies that were lost because
\* they came together.
NodeComesAlive == []<>(nodeId \in alive)

\* A notice that was sent does not stay in the buffer of the master for ever,
\* although only later requests push it out.
NoticesReachMaster == \A f \in Files : InFlight(f) ~> ~InFlight(f)
=============================================================================
