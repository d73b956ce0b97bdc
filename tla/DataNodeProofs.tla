---------------------------- MODULE DataNodeProofs ----------------------------
(***************************************************************************)
(* Theorems about two parts of a DataNode: its client of the master        *)
(* (MasterClient), for any ids, any notices and any number of messages     *)
(* under way; and the editing of a text file that is read meanwhile        *)
(* (Editing), for any number of requests, readers, blocks and inodes.      *)
(***************************************************************************)
EXTENDS MasterClient, Editing, SequenceTheorems, TLAPS

-----------------------------------------------------------------------------
(***************************************************************************)
(* The client of the master.                                               *)
(***************************************************************************)

\* Requests of a sequence are sent by nodes of a set of entries.
Known(s, E) == \A i \in DOMAIN s : s[i].kind # "register" => s[i].id \in E

\* Registrations answered in a sequence of replies have an entry.
Answered(s, E) == \A i \in DOMAIN s : s[i].kind = "registered" => s[i].id \in E

\* A connection that is closed carries nothing; a node that is registered, or
\* is about to learn so, has an entry.
SessionInv ==
    /\ ~connected => /\ ~registered /\ arrived = 0
                   /\ requests = <<>> /\ replies = <<>>
    /\ registered => nodeId \in entries
    /\ Answered(replies, entries)

Inv == TypeOK /\ SessionInv /\ SenderKnown

-----------------------------------------------------------------------------
(* Sequences of messages.                                                  *)

\* What the requests of a registered node are made of.
LEMMA MessageTypes ==
    ASSUME NEW i \in Ids, NEW v \in BOOLEAN
    PROVE  /\ Heartbeat(i, v) \in Requests
           /\ Heartbeat(i, v).kind = "heartbeat" /\ Heartbeat(i, v).id = i
           /\ Report(i, v) \in Requests
           /\ Report(i, v).kind = "report" /\ Report(i, v).id = i
           /\ \A f \in Files : /\ Notice(i, v, f) \in Requests
                               /\ Notice(i, v, f).kind = "notice"
                               /\ Notice(i, v, f).id = i
BY DEF Requests, Heartbeat, Report, Notice

\* Appending a request.
LEMMA AppendRequest ==
    ASSUME NEW s \in Seq(Requests), NEW r \in Requests, NEW E
    PROVE  /\ Append(s, r) \in Seq(Requests)
           /\ Len(Append(s, r)) = Len(s) + 1
           /\ Known(s, E) /\ (r.kind # "register" => r.id \in E)
                => Known(Append(s, r), E)
<1>1. /\ Append(s, r) \in Seq(Requests) /\ Len(Append(s, r)) = Len(s) + 1
      /\ \A i \in 1..Len(s) : Append(s, r)[i] = s[i]
      /\ Append(s, r)[Len(s) + 1] = r
  BY AppendProperties
<1>2. DOMAIN s = 1..Len(s) /\ DOMAIN Append(s, r) = 1..(Len(s) + 1) /\ Len(s) \in Nat
  BY <1>1, LenProperties
<1> QED
  BY <1>1, <1>2 DEF Known

\* A connection that carries nothing.
LEMMA EmptyMessages ==
    ASSUME NEW E
    PROVE  /\ <<>> \in Seq(Requests) /\ Known(<<>>, E)
           /\ <<>> \in Seq(Replies) /\ Answered(<<>>, E)
           /\ 0 \in 0..Len(<<>>)
<1>1. <<>> \in Seq(Requests) /\ <<>> \in Seq(Replies) /\ Len(<<>>) = 0
  BY EmptySeq
<1>2. DOMAIN <<>> = {}
  OBVIOUS
<1> QED
  BY <1>1, <1>2 DEF Known, Answered

\* Dropping the oldest request.
LEMMA TailRequest ==
    ASSUME NEW s \in Seq(Requests), s # <<>>, NEW E
    PROVE  /\ Tail(s) \in Seq(Requests)
           /\ Len(Tail(s)) = Len(s) - 1
           /\ Head(s) \in Requests
           /\ Known(s, E) => Known(Tail(s), E)
<1>1. /\ Tail(s) \in Seq(Requests) /\ Len(Tail(s)) = Len(s) - 1
      /\ \A i \in 1..Len(Tail(s)) : Tail(s)[i] = s[i + 1]
      /\ Head(s) \in Requests
  BY HeadTailProperties
<1>2. DOMAIN s = 1..Len(s) /\ DOMAIN Tail(s) = 1..(Len(s) - 1) /\ Len(s) \in Nat
  BY <1>1, LenProperties
<1> QED
  BY <1>1, <1>2 DEF Known

\* Sending one sequence of requests after another.
LEMMA ConcatRequests ==
    ASSUME NEW s \in Seq(Requests), NEW t \in Seq(Requests), NEW E
    PROVE  /\ s \o t \in Seq(Requests)
           /\ Len(s \o t) = Len(s) + Len(t)
           /\ Known(s, E) /\ Known(t, E) => Known(s \o t, E)
<1>1. /\ s \o t \in Seq(Requests) /\ Len(s \o t) = Len(s) + Len(t)
      /\ \A i \in 1..(Len(s) + Len(t)) :
            (s \o t)[i] = IF i <= Len(s) THEN s[i] ELSE t[i - Len(s)]
  BY ConcatProperties
<1>2. /\ DOMAIN s = 1..Len(s) /\ DOMAIN t = 1..Len(t)
      /\ DOMAIN (s \o t) = 1..(Len(s) + Len(t))
      /\ Len(s) \in Nat /\ Len(t) \in Nat
  BY <1>1, LenProperties
<1>3. ASSUME Known(s, E), Known(t, E), NEW i \in 1..(Len(s) + Len(t))
      PROVE  (s \o t)[i].kind # "register" => (s \o t)[i].id \in E
  <2>1. CASE i <= Len(s)
    BY <1>1, <1>2, <1>3, <2>1 DEF Known
  <2>2. CASE ~(i <= Len(s))
    <3>1. i - Len(s) \in 1..Len(t)
      BY <1>2, <2>2
    <3> QED
      BY <1>1, <1>2, <1>3, <2>2, <3>1 DEF Known
  <2> QED
    BY <2>1, <2>2
<1> QED
  BY <1>1, <1>2, <1>3 DEF Known

\* The requests for a queue of notices.
LEMMA NoticesKnown ==
    ASSUME Inv, NEW reg \in BOOLEAN, reg => nodeId \in entries
    PROVE  /\ NoticeRequests(pending, reg) \in Seq(Requests)
           /\ Known(NoticeRequests(pending, reg), entries)
<1> DEFINE n == NoticeRequests(pending, reg)
<1> DEFINE v == (token = "valid")
<1>v. v \in BOOLEAN
  OBVIOUS
<1> HIDE DEF v
<1>1. DOMAIN pending = 1..Len(pending) /\ Len(pending) \in Nat
      /\ \A i \in 1..Len(pending) : pending[i] \in Files
  BY LenProperties DEF Inv, TypeOK
<1>2. ASSUME NEW i \in 1..Len(pending)
      PROVE  /\ reg => Notice(nodeId, v, pending[i]) \in Requests
             /\ reg => Notice(nodeId, v, pending[i]).id \in entries
  <2>1. nodeId \in Ids \union {NoId} /\ (reg => nodeId \in Ids) /\ pending[i] \in Files
    BY <1>1, <1>2 DEF Inv, TypeOK
  <2> QED
    BY <1>v, <2>1 DEF Requests, Notice
<1>r. Register \in Requests /\ Register.kind = "register"
  BY DEF Requests, Register, RegisterRequest, Inv, TypeOK
<1>3. n = [i \in 1..Len(pending) |->
              IF reg THEN Notice(nodeId, v, pending[i]) ELSE Register]
  BY <1>1 DEF NoticeRequests, v
<1> HIDE DEF n
<1>4. n \in Seq(Requests)
  <2>1. \A i \in 1..Len(pending) : n[i] \in Requests
    BY <1>2, <1>3, <1>r
  <2>2. n \in [1..Len(pending) -> Requests]
    BY <1>3, <2>1
  <2> QED
    BY <1>1, <2>2, SeqDef
<1>5. Known(n, entries)
  BY <1>2, <1>3, <1>r DEF Known
<1> QED
  BY <1>4, <1>5 DEF n

\* Appending a reply.
LEMMA AppendReply ==
    ASSUME NEW s \in Seq(Replies), NEW r \in Replies, NEW E, NEW F, E \subseteq F
    PROVE  /\ Append(s, r) \in Seq(Replies)
           /\ Answered(s, E) /\ (r.kind = "registered" => r.id \in F)
                => Answered(Append(s, r), F)
<1>1. /\ Append(s, r) \in Seq(Replies) /\ Len(Append(s, r)) = Len(s) + 1
      /\ \A i \in 1..Len(s) : Append(s, r)[i] = s[i]
      /\ Append(s, r)[Len(s) + 1] = r
  BY AppendProperties
<1>2. DOMAIN s = 1..Len(s) /\ DOMAIN Append(s, r) = 1..(Len(s) + 1) /\ Len(s) \in Nat
  BY <1>1, LenProperties
<1> QED
  BY <1>1, <1>2 DEF Answered

\* Dropping the replies that were read.
LEMMA DropSomeReplies ==
    ASSUME NEW s \in Seq(Replies), NEW k \in 1..Len(s), NEW E
    PROVE  /\ SubSeq(s, k + 1, Len(s)) \in Seq(Replies)
           /\ Answered(s, E) => Answered(SubSeq(s, k + 1, Len(s)), E)
           /\ Head(s) \in Replies
           /\ Answered(s, E) /\ Head(s).kind = "registered" => Head(s).id \in E
<1>1. /\ Len(s) \in Nat /\ DOMAIN s = 1..Len(s)
      /\ \A i \in 1..Len(s) : s[i] \in Replies
  BY LenProperties
<1>2. \A i \in (k + 1)..Len(s) : s[i] \in Replies
  BY <1>1
<1>3. /\ SubSeq(s, k + 1, Len(s)) \in Seq(Replies)
      /\ Len(SubSeq(s, k + 1, Len(s))) = Len(s) - k
      /\ \A i \in 1..(Len(s) - k) : SubSeq(s, k + 1, Len(s))[i] = s[k + i]
  BY <1>1, <1>2, SubSeqProperties
<1>4. DOMAIN SubSeq(s, k + 1, Len(s)) = 1..(Len(s) - k)
  BY <1>3, LenProperties
<1>5. \A i \in 1..(Len(s) - k) : k + i \in 1..Len(s)
  BY <1>1
<1>6. Answered(s, E) => Answered(SubSeq(s, k + 1, Len(s)), E)
  BY <1>1, <1>3, <1>4, <1>5 DEF Answered
<1>7. Head(s) = s[1] /\ 1 \in DOMAIN s
  BY <1>1
<1> QED
  BY <1>1, <1>3, <1>6, <1>7 DEF Answered

-----------------------------------------------------------------------------
(* Steps of the client.                                                    *)

\* What a send step must show.
LEMMA SendRequest ==
    ASSUME Inv, NEW r \in Requests, r.kind # "register" => r.id \in entries,
           requests' = Append(requests, r), connected,
           UNCHANGED <<connected, clientVars, arrived, replies, masterVars>>
    PROVE  Inv'
<1> USE DEF clientVars, masterVars
<1>1. /\ requests' \in Seq(Requests) /\ Len(requests') = Len(requests) + 1
      /\ Known(requests', entries)
  BY AppendRequest DEF Inv, TypeOK, SenderKnown, Known
<1>2. arrived' \in 0..Len(requests')
  BY <1>1, LenProperties DEF Inv, TypeOK
<1> QED
  BY <1>1, <1>2 DEF Inv, TypeOK, SessionInv, SenderKnown, Known

\* A registration is a request, and so is a heartbeat of a registered node.
LEMMA OwnRequests ==
    ASSUME Inv
    PROVE  /\ Register \in Requests /\ Register.kind = "register"
           /\ registered =>
                /\ Heartbeat(nodeId, token = "valid") \in Requests
                /\ Heartbeat(nodeId, token = "valid").id \in entries
<1> DEFINE v == (token = "valid")
<1>1. v \in BOOLEAN
  OBVIOUS
<1> HIDE DEF v
<1>2. Register \in Requests /\ Register.kind = "register"
  BY DEF Inv, TypeOK, Register, RegisterRequest, Requests
<1>3. ASSUME registered
      PROVE  Heartbeat(nodeId, v) \in Requests /\ Heartbeat(nodeId, v).id \in entries
  <2>1. nodeId \in entries /\ nodeId \in Ids
    BY <1>3 DEF Inv, TypeOK, SessionInv
  <2> QED
    BY <1>1, <2>1 DEF Heartbeat, Requests
<1> QED
  BY <1>2, <1>3 DEF v

\* Connecting and sending keep the invariant.
LEMMA SendStep ==
    ASSUME Inv, \/ Connect \/ SendHeartbeat \/ ProcPendingNotice \/ RefreshToken
                \/ \E f \in Files : NotifyUploadFinish(f)
    PROVE  Inv'
<1> USE DEF clientVars, masterVars, wireVars
<1>1. CASE Connect
  <2> DEFINE n == NoticeRequests(pending, registered)
  <2>1. ~registered /\ arrived = 0
    BY <1>1 DEF Connect, Inv, SessionInv
  <2>2. n \in Seq(Requests) /\ Known(n, entries)
    BY <2>1, NoticesKnown DEF Inv, TypeOK
  <2>3. <<Register>> \in Seq(Requests) /\ Known(<<Register>>, entries)
    BY OwnRequests DEF Known
  <2> HIDE DEF n
  <2>4. <<Register>> \o n \in Seq(Requests) /\ Known(<<Register>> \o n, entries)
    BY <2>2, <2>3, ConcatRequests
  <2>5. requests' = <<Register>> \o n /\ connected' = TRUE
    BY <1>1 DEF Connect, n
  <2>6. arrived' \in 0..Len(requests')
    BY <1>1, <2>1, <2>4, <2>5, LenProperties DEF Connect
  <2>7. UNCHANGED <<registered, nodeId, token, pending, procs, arrived, replies,
                    entries, alive>>
    BY <1>1 DEF Connect
  <2> QED
    BY <2>4, <2>5, <2>6, <2>7 DEF Inv, TypeOK, SessionInv, SenderKnown, Known
<1>2. CASE SendHeartbeat
  BY <1>2, OwnRequests, SendRequest DEF SendHeartbeat
<1>3. CASE RefreshToken
  BY <1>3, OwnRequests, SendRequest DEF RefreshToken
<1>4. CASE ProcPendingNotice
  <2> DEFINE n == NoticeRequests(pending, registered)
  <2>1. n \in Seq(Requests) /\ Known(n, entries)
    BY NoticesKnown DEF Inv, TypeOK, SessionInv
  <2>2. requests' = (IF connected THEN requests \o n ELSE requests)
    BY <1>4 DEF ProcPendingNotice
  <2> HIDE DEF n
  <2>3. /\ requests' \in Seq(Requests) /\ Known(requests', entries)
        /\ Len(requests') >= Len(requests)
        /\ ~connected => requests' = requests
    BY <2>1, <2>2, ConcatRequests, LenProperties DEF Inv, TypeOK, SenderKnown, Known
  <2>4. arrived' \in 0..Len(requests')
    BY <1>4, <2>3, LenProperties DEF Inv, TypeOK, ProcPendingNotice
  <2>5. procs' \in Nat /\ pending' \in Seq(Files)
    BY <1>4 DEF ProcPendingNotice, Inv, TypeOK
  <2>6. UNCHANGED <<connected, registered, nodeId, token, arrived, replies,
                    entries, alive>>
    BY <1>4 DEF ProcPendingNotice
  <2> QED
    BY <2>3, <2>4, <2>5, <2>6 DEF Inv, TypeOK, SessionInv, SenderKnown, Known
<1>5. ASSUME NEW f \in Files, NotifyUploadFinish(f)
      PROVE  Inv'
  BY <1>5, AppendProperties
  DEF NotifyUploadFinish, Inv, TypeOK, SessionInv, SenderKnown
<1> QED
  BY <1>1, <1>2, <1>3, <1>4, <1>5

\* Reading replies keeps the invariant: a node learns only ids that the master
\* has an entry for.
LEMMA ReadStep ==
    ASSUME Inv, NEW k \in 1..Len(replies), ClientRead(k)
    PROVE  Inv'
<1> USE DEF clientVars, masterVars
<1>1. /\ replies' \in Seq(Replies) /\ Answered(replies', entries)
      /\ Head(replies) \in Replies
      /\ Head(replies).kind = "registered" => Head(replies).id \in entries
  BY DropSomeReplies DEF ClientRead, DropReplies, Inv, TypeOK, SessionInv
<1>2. UNCHANGED <<connected, arrived, entries, alive>>
  BY DEF ClientRead
<1>3. ASSUME NEW r \in Requests, r.kind # "register" => r.id \in entries,
             requests' = Append(requests, r)
      PROVE  /\ requests' \in Seq(Requests) /\ Known(requests', entries)
             /\ arrived' \in 0..Len(requests')
  BY <1>2, <1>3, AppendRequest, LenProperties DEF Inv, TypeOK, SenderKnown, Known
<1>4. connected
  BY DEF Inv, SessionInv, TypeOK
<1>5. CASE ReadUnauthorized(k)
  <2>1. Register \in Requests /\ Register.kind = "register"
    BY OwnRequests
  <2>2. requests' = Append(requests, Register) /\ UNCHANGED clientVars
    BY <1>5 DEF ReadUnauthorized
  <2> QED
    BY <1>1, <1>2, <1>3, <2>1, <2>2 DEF Inv, TypeOK, SessionInv, SenderKnown, Known
<1>6. CASE ReadRegistered(k)
  <2>1. /\ nodeId' \in entries /\ nodeId' \in Ids
        /\ token' = "valid" /\ registered' = TRUE
        /\ requests' = Append(requests, Report(nodeId', TRUE))
        /\ UNCHANGED <<pending, procs>>
    BY <1>1, <1>6 DEF ReadRegistered, Inv, TypeOK
  <2>2. Report(nodeId', TRUE) \in Requests /\ Report(nodeId', TRUE).id \in entries
    <3> DEFINE i == nodeId'
    <3>1. i \in Ids /\ i \in entries
      BY <2>1
    <3> HIDE DEF i
    <3>2. Report(i, TRUE) \in Requests /\ Report(i, TRUE).id = i
      BY <3>1, MessageTypes
    <3> QED
      BY <3>1, <3>2 DEF i
  <2>3. /\ requests' \in Seq(Requests) /\ Known(requests', entries)
        /\ arrived' \in 0..Len(requests')
    BY <1>3, <2>1, <2>2
  <2> QED
    BY <1>1, <1>2, <1>4, <2>1, <2>3
    DEF Inv, TypeOK, SessionInv, SenderKnown, Known
<1>7. CASE ReadIgnored(k)
  BY <1>1, <1>2, <1>4, <1>7 DEF ReadIgnored, Inv, TypeOK, SessionInv, SenderKnown
<1> QED
  BY <1>5, <1>6, <1>7 DEF ClientRead

-----------------------------------------------------------------------------
(* Steps of the master, and failures.                                      *)

\* Handling one request keeps the invariant: an entry is made before the reply
\* that names it, and none is taken away.
LEMMA HandleStep ==
    ASSUME Inv, NEW k \in 1..Len(requests), MasterRead(k)
    PROVE  Inv'
<1> USE DEF clientVars
<1>1. /\ UNCHANGED <<connected, registered, nodeId, token, pending, procs>>
      /\ requests' = Tail(requests) /\ arrived' = arrived + k - 1
      /\ k \in 1..(Len(requests) - arrived)
  BY DEF MasterRead
<1>2. requests # <<>> /\ Len(requests) \in Nat /\ arrived \in Nat
  BY <1>1, LenProperties DEF Inv, TypeOK
<1>3. /\ requests' \in Seq(Requests) /\ Len(requests') = Len(requests) - 1
      /\ Head(requests) \in Requests /\ Known(requests', entries)
  BY <1>1, <1>2, TailRequest DEF Inv, TypeOK, SenderKnown, Known
<1>4. arrived' \in 0..Len(requests')
  BY <1>1, <1>2, <1>3
<1>5. connected
  BY <1>2 DEF Inv, SessionInv, TypeOK
<1> DEFINE r == Head(requests)
<1>6. \/ r.kind = "register" /\ HandleRegister(r)
      \/ r.kind = "heartbeat" /\ HandleHeartbeat(r)
      \/ HandleOther(r)
  BY DEF MasterRead
<1> HIDE DEF r
<1>7. /\ entries \subseteq entries' /\ entries' \in SUBSET Ids
      /\ alive' \in SUBSET entries'
      /\ replies' \in Seq(Replies) /\ Answered(replies', entries')
  <2>1. CASE r.kind = "register" /\ HandleRegister(r)
    <3>1. PICK i \in IF r.id = NoId THEN Ids \ entries ELSE {r.id} :
             /\ entries' = entries \union {i} /\ alive' = alive \union {i}
             /\ replies' = Append(replies, Registered(i))
      BY <2>1 DEF HandleRegister
    <3>2. i \in Ids
      <4>1. r.id \in Ids \union {NoId}
        BY <1>3, <2>1 DEF r, Requests, RegisterRequest, Heartbeat, Report, Notice
      <4> QED
        BY <4>1
    <3>3. Registered(i) \in Replies /\ Registered(i).id \in entries'
      BY <3>1, <3>2 DEF Registered, Replies
    <3>4. entries \subseteq entries'
      BY <3>1
    <3>5. replies' \in Seq(Replies) /\ Answered(replies', entries')
      BY <3>1, <3>3, <3>4, AppendReply DEF Inv, TypeOK, SessionInv
    <3> QED
      BY <3>1, <3>2, <3>4, <3>5 DEF Inv, TypeOK
  <2>2. ASSUME NEW e \in {Other, Unauthorized}, replies' = Append(replies, e),
               UNCHANGED entries
        PROVE  replies' \in Seq(Replies) /\ Answered(replies', entries')
    <3>1. e \in Replies /\ e.kind # "registered"
      BY <2>2 DEF Replies, Other, Unauthorized
    <3> QED
      BY <2>2, <3>1, AppendReply DEF Inv, TypeOK, SessionInv
  <2>3. CASE r.kind = "heartbeat" /\ HandleHeartbeat(r)
    <3>1. /\ replies' = Append(replies, IF r.valid THEN Other ELSE Unauthorized)
          /\ UNCHANGED entries
          /\ alive' \in SUBSET entries
      BY <2>3 DEF HandleHeartbeat, Inv, TypeOK
    <3> QED
      BY <2>2, <3>1 DEF Inv, TypeOK
  <2>4. CASE HandleOther(r)
    <3>1. /\ replies' = Append(replies, IF r.valid THEN Other ELSE Unauthorized)
          /\ UNCHANGED <<entries, alive>>
      BY <2>4 DEF HandleOther, masterVars
    <3> QED
      BY <2>2, <3>1 DEF Inv, TypeOK
  <2> QED
    BY <1>6, <2>1, <2>3, <2>4
<1>8. Known(requests', entries')
  BY <1>3, <1>7 DEF Known
<1> QED
  BY <1>1, <1>3, <1>4, <1>5, <1>7, <1>8
  DEF Inv, TypeOK, SessionInv, SenderKnown, Known

\* A lost connection takes with it all that depended on the entries.
LEMMA FailureStep ==
    ASSUME Inv, Disconnect \/ TokenExpires \/ DataNodeRestart \/ MasterRestart
    PROVE  Inv'
<1>1. ASSUME CloseConnection, UNCHANGED nodeId,
             token' \in {"none", "valid", "expired"}, pending' \in Seq(Files),
             procs' \in Nat, entries' \in SUBSET Ids, alive' \in SUBSET entries'
      PROVE  Inv'
  <2>1. /\ requests' = <<>> /\ arrived' = 0 /\ replies' = <<>>
        /\ connected' = FALSE /\ registered' = FALSE
        /\ nodeId' \in Ids \union {NoId}
    BY <1>1 DEF CloseConnection, Inv, TypeOK
  <2> QED
    BY <1>1, <2>1, EmptyMessages DEF Inv, TypeOK, SessionInv, SenderKnown, Known
<1>2. CASE Disconnect
  BY <1>1, <1>2 DEF Disconnect, masterVars, Inv, TypeOK
<1>3. CASE DataNodeRestart
  BY <1>1, <1>3, EmptySeq DEF DataNodeRestart, masterVars, Inv, TypeOK
<1>4. CASE MasterRestart
  BY <1>1, <1>4 DEF MasterRestart, Inv, TypeOK
<1>5. CASE TokenExpires
  <2>1. /\ UNCHANGED <<connected, registered, nodeId, pending, procs, arrived,
                       replies, entries, alive>>
        /\ token' = "expired"
    BY <1>5 DEF TokenExpires, masterVars
  <2>2. Len(requests) \in Nat /\ DOMAIN requests = 1..Len(requests)
        /\ \A i \in 1..Len(requests) : requests[i] \in Requests
    BY LenProperties DEF Inv, TypeOK
  <2>3. ASSUME NEW r \in Requests
        PROVE  /\ Expired(r) \in Requests /\ Expired(r).kind = r.kind
               /\ r.kind # "register" => Expired(r).id = r.id
    <3> DEFINE no == FALSE
    <3>0. no \in BOOLEAN
      OBVIOUS
    <3> HIDE DEF no
    <3>1. CASE \E i \in Ids \union {NoId} : r = RegisterRequest(i)
      BY <3>1 DEF RegisterRequest, Expired
    <3>2. CASE \E i \in Ids, ok \in BOOLEAN : r = Heartbeat(i, ok)
      <4>1. PICK i \in Ids, ok \in BOOLEAN : r = Heartbeat(i, ok)
        BY <3>2
      <4>2. r.kind = "heartbeat" /\ r.id = i
        BY <4>1 DEF Heartbeat
      <4>3. Expired(r) = Heartbeat(i, no)
        BY <4>2 DEF Expired, no
      <4> QED
        BY <3>0, <4>1, <4>2, <4>3, MessageTypes
    <3>3. CASE \E i \in Ids, ok \in BOOLEAN : r = Report(i, ok)
      <4>1. PICK i \in Ids, ok \in BOOLEAN : r = Report(i, ok)
        BY <3>3
      <4>2. r.kind = "report" /\ r.id = i
        BY <4>1 DEF Report
      <4>3. Expired(r) = Report(i, no)
        BY <4>2 DEF Expired, no
      <4> QED
        BY <3>0, <4>1, <4>2, <4>3, MessageTypes
    <3>4. CASE \E i \in Ids, ok \in BOOLEAN, f \in Files : r = Notice(i, ok, f)
      <4>1. PICK i \in Ids, ok \in BOOLEAN, f \in Files : r = Notice(i, ok, f)
        BY <3>4
      <4>2. r.kind = "notice" /\ r.id = i /\ r.file = f
        BY <4>1 DEF Notice
      <4>3. Expired(r) = Notice(i, no, f)
        BY <4>2 DEF Expired, no
      <4> QED
        BY <3>0, <4>1, <4>2, <4>3, MessageTypes
    <3> QED
      BY <3>1, <3>2, <3>3, <3>4 DEF Requests
  <2>4. requests' = [i \in 1..Len(requests) |-> Expired(requests[i])]
    BY <1>5, <2>2 DEF TokenExpires
  <2>5. /\ requests' \in [1..Len(requests) -> Requests]
        /\ requests' \in Seq(Requests) /\ Len(requests') = Len(requests)
        /\ DOMAIN requests' = 1..Len(requests)
    BY <2>2, <2>3, <2>4, SeqDef
  <2>6. Known(requests', entries)
    BY <2>2, <2>3, <2>4, <2>5 DEF Known, Inv, SenderKnown
  <2>7. requests = <<>> => requests' = <<>>
    BY <2>2, <2>5
  <2> QED
    BY <2>1, <2>5, <2>6, <2>7
    DEF Inv, TypeOK, SessionInv, SenderKnown, Known
<1> QED
  BY <1>2, <1>3, <1>4, <1>5

\* Every step keeps the invariant.
LEMMA InvStep == Inv /\ [Next]_vars => Inv'
<1> SUFFICES ASSUME Inv, [Next]_vars
             PROVE  Inv'
  OBVIOUS
<1>1. CASE ClientStep
  BY <1>1, SendStep, ReadStep DEF ClientStep
<1>2. ASSUME NEW k \in 1..Len(requests), MasterRead(k)
      PROVE  Inv'
  BY <1>2, HandleStep
<1>3. ASSUME NEW i \in Ids, Timeout(i)
      PROVE  Inv'
  BY <1>3 DEF Timeout, clientVars, wireVars, Inv, TypeOK, SessionInv, SenderKnown
<1>4. CASE Disconnect \/ TokenExpires \/ DataNodeRestart \/ MasterRestart
  BY <1>4, FailureStep
<1>5. CASE UNCHANGED vars
  BY <1>5 DEF vars, clientVars, wireVars, masterVars, Inv, TypeOK, SessionInv,
              SenderKnown
<1> QED
  BY <1>1, <1>2, <1>3, <1>4, <1>5 DEF Next

LEMMA InvAlways == Spec => []Inv
<1>1. Init => Inv
  <2> SUFFICES ASSUME Init
               PROVE  Inv
    OBVIOUS
  <2>1. pending \in Seq(Files) /\ procs \in Nat /\ nodeId \in Ids \union {NoId}
    BY EmptySeq, MasterClientAssumption DEF Init
  <2> QED
    BY <2>1, EmptyMessages DEF Init, Inv, TypeOK, SessionInv, SenderKnown, Known
<1> QED
  BY <1>1, InvStep, PTL DEF Spec

\* Every variable keeps its type, for any ids and any number of messages.
THEOREM TypeCorrect == Spec => []TypeOK
<1>1. Inv => TypeOK
  BY DEF Inv
<1> QED
  BY <1>1, InvAlways, PTL

\* Every heartbeat, notice and report that reaches the master comes from a
\* node it has an entry for.
THEOREM SendersKnown == Spec => []SenderKnown
<1>1. Inv => SenderKnown
  BY DEF Inv
<1> QED
  BY <1>1, InvAlways, PTL

-----------------------------------------------------------------------------
(***************************************************************************)
(* Editing.                                                                *)
(***************************************************************************)

-----------------------------------------------------------------------------
(* What holds of the inodes between the steps of requests.                 *)

Holding == {"opened", "written", "copying", "saving"}

\* The descriptors of requests and readers are open.
DescriptorsOpen ==
    /\ \A e \in Editors : /\ pc[e] \in Holding => job[e].to \in Inodes
                          /\ pc[e] = "copying" => job[e].from \in Inodes
    /\ \A r \in Readers : reader[r].at # "idle" => reader[r].fd \in Inodes

\* An inode that is not hurt is in the hand of one request.
OneHand ==
    \A e, x \in Editors :
        pc[e] \in Holding /\ pc[x] \in Holding /\ job[e].to = job[x].to
            => e = x \/ job[e].to \in hurt

\* What a request has in hand: nothing yet, or what it has written.
HandsClean ==
    \A e \in Editors :
        /\ pc[e] = "opened" => Whole(job[e].bytes)
        /\ pc[e] \in Holding /\ job[e].to \notin hurt =>
              /\ pc[e] \in {"opened", "copying", "saving"} => disk[job[e].to] = Empty
              /\ pc[e] = "written" => Whole(disk[job[e].to])
              /\ pc[e] = "saving" => Whole(job[e].bytes)
              /\ pc[e] = "opened" => \A n \in Names \ {Tmp} : dir[n] # job[e].to

\* A snapshot or an experiment is not the file, nor becomes it.
SavedApart ==
    \A e \in Editors : pc[e] = "saving" => job[e].to \notin {dir[File], dir[Tmp]}

Sound(i) == i \in hurt \/ InHand(i) \/ Whole(disk[i])

\* What has a name, or is copied from, is sound.
NamedSound ==
    /\ \A n \in Names \ {Tmp} : dir[n] # NoInode => Sound(dir[n])
    /\ \A e \in Editors : pc[e] = "copying" => Sound(job[e].from)

\* What a rename would make the file.
TmpReady ==
    dir[Tmp] # NoInode /\ (\E e \in Editors : pc[e] \in {"opened", "written"}) =>
        \/ dir[Tmp] \in hurt \/ Whole(disk[dir[Tmp]])
        \/ \E x \in Editors : pc[x] = "opened" /\ job[x].to = dir[Tmp]

\* A reader that is not late reads the file.
ReadersCurrent ==
    \A r \in Readers :
        reader[r].at # "idle" /\ r \notin late =>
            /\ reader[r].fd = dir[File]
            /\ reader[r].at \in {"missed", "loaded"} =>
                  reader[r].data = disk[dir[File]][reader[r].block]

\* A cached block is what the file holds, or a request will drop it, or there
\* is an excuse.
BlocksCurrent ==
    \A b \in Blocks :
        \/ cache[b] \in {Hole, disk[dir[File]][b]}
        \/ b \in excused
        \/ \E e \in Editors : \/ pc[e] = "copying"
                              \/ pc[e] = "changed" /\ b \in job[e].todo
                              \/ pc[e] = "written" /\ job[e].to = dir[File]

EditingInv ==
    /\ EditingTypeOK /\ DescriptorsOpen /\ OneHand /\ HandsClean /\ SavedApart
    /\ NamedSound /\ TmpReady /\ ReadersCurrent /\ BlocksCurrent

-----------------------------------------------------------------------------
(* What the steps are made of.                                             *)

\* Contents of inodes; what is written over a truncated file is what it holds.
LEMMA EditingContents ==
    /\ Empty \in Bytes
    /\ \A c \in Contents : Content(c) \in Bytes
    /\ \A old, bytes \in Bytes : Over(old, bytes) \in Bytes
    /\ \A bytes \in Bytes : Over(Empty, bytes) = bytes
<1> USE EditingAssumption
<1>1. Empty \in Bytes
  BY DEF Empty, Bytes
<1>2. \A c \in Contents : Content(c) \in Bytes
  BY DEF Content, Bytes
<1>3. \A old, bytes \in Bytes : Over(old, bytes) \in Bytes
  BY DEF Over, Bytes
<1>4. ASSUME NEW bytes \in Bytes PROVE Over(Empty, bytes) = bytes
  <2>1. \A b \in Blocks : Over(Empty, bytes)[b] = bytes[b]
    BY DEF Over, Empty
  <2>2. Over(Empty, bytes) = [b \in Blocks |-> Over(Empty, bytes)[b]]
    BY DEF Over
  <2>3. bytes = [b \in Blocks |-> bytes[b]]
    BY DEF Bytes
  <2> QED
    BY <2>1, <2>2, <2>3
<1> QED
  BY <1>1, <1>2, <1>3, <1>4

\* The records of requests.
LEMMA NoJobForm ==
    NoJob \in Jobs /\ NoJob.to = NoInode /\ NoJob.from = NoInode /\ NoJob.bytes = Empty /\ NoJob.todo = {}
BY EditingContents DEF NoJob, Jobs

\* A request with a descriptor and a text to write.
LEMMA TextJob ==
    ASSUME NEW i \in Inodes, NEW bytes \in Bytes
    PROVE  LET j == [NoJob EXCEPT !.to = i, !.bytes = bytes]
           IN j \in Jobs /\ j.to = i /\ j.from = NoInode /\ j.bytes = bytes /\ j.todo = {}
BY EditingContents DEF NoJob, Jobs

\* A request with a descriptor that it has written to.
LEMMA WrittenJob ==
    ASSUME NEW i \in Inodes
    PROVE  LET j == [NoJob EXCEPT !.to = i]
           IN j \in Jobs /\ j.to = i /\ j.from = NoInode /\ j.bytes = Empty /\ j.todo = {}
BY EditingContents DEF NoJob, Jobs

\* A request with the descriptors of a copy.
LEMMA CopyJob ==
    ASSUME NEW i \in Inodes, NEW k \in Inodes
    PROVE  LET j == [NoJob EXCEPT !.to = i, !.from = k]
           IN j \in Jobs /\ j.to = i /\ j.from = k /\ j.bytes = Empty /\ j.todo = {}
BY EditingContents DEF NoJob, Jobs

\* A request in invalidateFile.
LEMMA InvalidatingJob ==
    ASSUME NEW k \in Jobs, NEW todo \in SUBSET Blocks
    PROVE  LET j == [k EXCEPT !.todo = todo]
           IN j \in Jobs /\ j.to = k.to /\ j.from = k.from /\ j.bytes = k.bytes /\ j.todo = todo
BY DEF Jobs

\* The records of readers.
LEMMA NoReaderForm ==
    NoReader \in ReaderStates /\ NoReader.at = "idle" /\ NoReader.fd = NoInode
BY EditingAssumption DEF NoReader, ReaderStates, Blocks

\* A reader that has opened the file.
LEMMA BeginningReader ==
    ASSUME NEW at \in {"get", "mark"}, NEW i \in Inodes, NEW b \in Blocks
    PROVE  LET s == [at |-> at, fd |-> i, block |-> b, data |-> Hole]
           IN s \in ReaderStates /\ s.at = at /\ s.fd = i /\ s.block = b
BY DEF ReaderStates

\* A reader at the next block.
LEMMA AdvancedReader ==
    ASSUME NEW s \in ReaderStates, NEW at \in {"get", "mark"}, s.block # LastBlock
    PROVE  LET n == [s EXCEPT !.at = at, !.block = s.block + 1, !.data = Hole]
           IN n \in ReaderStates /\ n.at = at /\ n.fd = s.fd
<1>1. s.block + 1 \in Blocks
  BY EditingAssumption DEF ReaderStates, Blocks
<1>2. Hole \in Contents \union {Hole}
  OBVIOUS
<1> QED
  BY <1>1, <1>2 DEF ReaderStates

\* A reader that has marked its block.
LEMMA LoadingReader ==
    ASSUME NEW s \in ReaderStates
    PROVE  LET n == [s EXCEPT !.at = "load"]
           IN n \in ReaderStates /\ n.at = "load" /\ n.fd = s.fd
BY DEF ReaderStates

\* What keeps an inode.
LEMMA StaysUsed ==
    /\ \A n \in Names : dir'[n] \in Used(dir', job', reader')
    /\ \A e \in Editors : /\ job'[e].to \in Used(dir', job', reader')
                          /\ job'[e].from \in Used(dir', job', reader')
    /\ \A r \in Readers : reader'[r].fd \in Used(dir', job', reader')
BY DEF Used

\* The same before a step.
LEMMA InUse ==
    /\ \A n \in Names : dir[n] \in Used(dir, job, reader)
    /\ \A e \in Editors : /\ job[e].to \in Used(dir, job, reader)
                          /\ job[e].from \in Used(dir, job, reader)
    /\ \A r \in Readers : reader[r].fd \in Used(dir, job, reader)
BY DEF Used

\* The inodes that are still in use hold what was written to them.
LEMMA KeepOutcome ==
    ASSUME NEW bytes \in [Inodes -> Bytes], NEW damaged \in SUBSET Inodes,
           Keep(bytes, damaged)
    PROVE  /\ disk' \in [Inodes -> Bytes]
           /\ hurt' \subseteq Inodes
           /\ \A i \in Inodes : i \in Used(dir', job', reader') =>
                 disk'[i] = bytes[i] /\ (i \in hurt' <=> i \in damaged)
BY EditingContents DEF Keep

\* The file always has an inode, which is not that of another name.
LEMMA FileInode ==
    ASSUME EditingTypeOK
    PROVE  /\ dir[File] \in Inodes /\ NoInode \notin Inodes
           /\ File \in Names /\ Tmp \in Names /\ File # Tmp
           /\ Sources = Names \ {File, Tmp}
BY EditingAssumption DEF EditingTypeOK, Names, File, Tmp, NoInode

\* An open for writing finds the file of that name or an inode nobody uses.
LEMMA OpensOutcome ==
    ASSUME EditingTypeOK, NEW n \in Names, NEW i \in Inodes, Opens(n, i)
    PROVE  /\ dir[n] = NoInode => i \notin Used(dir, job, reader)
           /\ dir[n] # NoInode => i = dir[n]
           /\ \A m \in Names \ {n} : dir[m] # i
BY InUse DEF Opens, Free, EditingTypeOK

-----------------------------------------------------------------------------
(* What each step does, and the types of what it leaves.                   *)

\* The other requests are where they were.
OthersStay(e) == \A x \in Editors \ {e} : pc'[x] = pc[x] /\ job'[x] = job[x]

\* The inodes that are still in use are as they were, but those of S.
StayBut(S) ==
    \A i \in Inodes \ S : i \in Used(dir', job', reader') =>
        disk'[i] = disk[i] /\ (i \in hurt' <=> i \in hurt)

\* A request that moves.
LEMMA Goes ==
    ASSUME EditingTypeOK, NEW e \in Editors, NEW j \in Jobs,
           NEW state \in {"idle", "opened", "written", "copying", "saving", "changed"},
           Goto(e, state, j)
    PROVE  /\ pc' \in [Editors -> {"idle", "opened", "written", "copying", "saving", "changed"}]
           /\ job' \in [Editors -> Jobs]
           /\ pc'[e] = state /\ job'[e] = j
           /\ OthersStay(e)
BY DEF EditingTypeOK, Goto, OthersStay

\* A name that is given to an inode no other name has.
LEMMA Named ==
    ASSUME EditingTypeOK, NEW n \in Names, NEW i \in Inodes,
           \A m \in Names \ {n} : dir[m] # i,
           dir' = [dir EXCEPT ![n] = i]
    PROVE  /\ dir' \in [Names -> Inodes \union {NoInode}]
           /\ dir'[File] # NoInode
           /\ \A m, k \in Names : m # k /\ dir'[m] # NoInode => dir'[m] # dir'[k]
           /\ dir'[n] = i /\ \A m \in Names \ {n} : dir'[m] = dir[m]
BY FileInode DEF EditingTypeOK

\* The temporary file is empty, and in the hand of one more request.
LEMMA OpenTmpOutcome ==
    ASSUME EditingTypeOK, DescriptorsOpen, NEW e \in Editors, NEW c \in Contents, OpenTmp(e, c)
    PROVE  \E i \in Inodes :
              /\ pc[e] = "idle" /\ Opens(Tmp, i)
              /\ dir'[Tmp] = i /\ \A m \in Names \ {Tmp} : dir'[m] = dir[m]
              /\ pc'[e] = "opened" /\ job'[e].to = i /\ job'[e].bytes = Content(c)
              /\ OthersStay(e)
              /\ disk'[i] = Empty /\ (i \in hurt' <=> InHand(i)) /\ StayBut({i})
              /\ UNCHANGED <<reader, cache, late, excused>>
              /\ EditingTypeOK' /\ DescriptorsOpen'
<1>1. PICK i \in Inodes :
          /\ Opens(Tmp, i)
          /\ dir' = [dir EXCEPT ![Tmp] = i]
          /\ Goto(e, "opened", [NoJob EXCEPT !.to = i, !.bytes = Content(c)])
          /\ UNCHANGED reader
          /\ Truncated(i)
  BY DEF OpenTmp
<1> DEFINE j == [NoJob EXCEPT !.to = i, !.bytes = Content(c)]
           damaged == IF InHand(i) THEN hurt \union {i} ELSE hurt \ {i}
<1>2. j \in Jobs /\ j.to = i /\ j.bytes = Content(c)
  <2>1. Content(c) \in Bytes
    BY EditingContents
  <2> QED
    BY <2>1, TextJob
<1>3. /\ pc' \in [Editors -> {"idle", "opened", "written", "copying", "saving", "changed"}]
      /\ job' \in [Editors -> Jobs]
      /\ pc'[e] = "opened" /\ job'[e] = j /\ OthersStay(e)
  <2> HIDE DEF j
  <2>1. Goto(e, "opened", j)
    BY <1>1 DEF j
  <2> QED
    BY <1>2, <2>1, Goes
<1>4. /\ dir' \in [Names -> Inodes \union {NoInode}]
      /\ dir'[File] # NoInode
      /\ \A m, k \in Names : m # k /\ dir'[m] # NoInode => dir'[m] # dir'[k]
      /\ dir'[Tmp] = i /\ \A m \in Names \ {Tmp} : dir'[m] = dir[m]
  <2>1. Tmp \in Names /\ \A m \in Names \ {Tmp} : dir[m] # i
    BY <1>1, FileInode, OpensOutcome
  <2>2. dir' = [dir EXCEPT ![Tmp] = i]
    BY <1>1
  <2> QED
    BY <2>1, <2>2, Named
<1>5. /\ [disk EXCEPT ![i] = Empty] \in [Inodes -> Bytes]
      /\ damaged \in SUBSET Inodes
      /\ Keep([disk EXCEPT ![i] = Empty], damaged)
  BY <1>1, EditingContents DEF Truncated, EditingTypeOK
<1>6. /\ disk' \in [Inodes -> Bytes] /\ hurt' \subseteq Inodes
      /\ \A k \in Inodes : k \in Used(dir', job', reader') =>
            disk'[k] = [disk EXCEPT ![i] = Empty][k] /\ (k \in hurt' <=> k \in damaged)
  <2> DEFINE blank == [disk EXCEPT ![i] = Empty]
  <2>1. blank \in [Inodes -> Bytes] /\ damaged \in SUBSET Inodes /\ Keep(blank, damaged)
    BY <1>5
  <2> HIDE DEF blank, damaged
  <2>2. /\ disk' \in [Inodes -> Bytes] /\ hurt' \subseteq Inodes
        /\ \A k \in Inodes : k \in Used(dir', job', reader') =>
              disk'[k] = blank[k] /\ (k \in hurt' <=> k \in damaged)
    BY <2>1, KeepOutcome
  <2> QED
    BY <2>2 DEF blank
<1>7. i \in Used(dir', job', reader')
  BY <1>4, FileInode, StaysUsed
<1>8. disk'[i] = Empty /\ (i \in hurt' <=> InHand(i)) /\ StayBut({i})
  BY <1>6, <1>7 DEF EditingTypeOK, StayBut
<1>9. EditingTypeOK' /\ DescriptorsOpen'
  <2> HIDE DEF j
  <2>1. UNCHANGED <<reader, cache, loading, late, excused>>
    BY <1>1 DEF OpenTmp
  <2>2. EditingTypeOK'
    BY <2>1, <1>3, <1>4, <1>6 DEF EditingTypeOK
  <2>3. DescriptorsOpen'
    BY <2>1, <1>2, <1>3 DEF DescriptorsOpen, OthersStay
  <2> QED
    BY <2>2, <2>3
<1> QED
  BY <1>1, <1>2, <1>3, <1>4, <1>8, <1>9 DEF OpenTmp

\* The temporary file holds the text, or the write failed.
LEMMA WriteTmpOutcome ==
    ASSUME EditingTypeOK, DescriptorsOpen, NEW e \in Editors, WriteTmp(e)
    PROVE  LET i == job[e].to
           IN /\ pc[e] = "opened" /\ i \in Inodes
              /\ pc'[e] = "written" /\ job'[e].to = i /\ OthersStay(e)
              /\ \/ disk'[i] = Over(disk[i], job[e].bytes) /\ (i \in hurt' <=> i \in hurt)
                 \/ i \in hurt'
              /\ StayBut({i})
              /\ Changes(i = dir[File])
              /\ UNCHANGED <<dir, reader, cache, excused>>
              /\ EditingTypeOK' /\ DescriptorsOpen'
<1> DEFINE i == job[e].to
           j == [NoJob EXCEPT !.to = i]
<1>1. pc[e] = "opened" /\ i \in Inodes /\ i \in Inodes \union {NoInode} /\ job[e].bytes \in Bytes
  BY DEF WriteTmp, DescriptorsOpen, Holding, EditingTypeOK, Jobs
<1> HIDE DEF i
<1>2. j \in Jobs /\ j.to = i
  BY <1>1, WrittenJob
<1>3. /\ pc' \in [Editors -> {"idle", "opened", "written", "copying", "saving", "changed"}]
      /\ job' \in [Editors -> Jobs]
      /\ pc'[e] = "written" /\ job'[e] = j /\ OthersStay(e)
  <2> HIDE DEF j
  <2>1. Goto(e, "written", j)
    BY DEF WriteTmp, i, j
  <2> QED
    BY <1>2, <2>1, Goes
<1>4. /\ \/ disk' = [disk EXCEPT ![i] = Over(@, job[e].bytes)] /\ hurt' = hurt
         \/ disk' = disk /\ hurt' = hurt \union {i}
      /\ Changes(i = dir[File])
      /\ UNCHANGED <<dir, reader, cache, loading, excused>>
  BY DEF WriteTmp, i, readVars
<1>5. /\ disk' \in [Inodes -> Bytes] /\ hurt' \subseteq Inodes
      /\ \/ disk'[i] = Over(disk[i], job[e].bytes) /\ (i \in hurt' <=> i \in hurt)
         \/ i \in hurt'
      /\ StayBut({i})
  <2>1. disk \in [Inodes -> Bytes] /\ hurt \subseteq Inodes
    BY DEF EditingTypeOK
  <2>2. Over(disk[i], job[e].bytes) \in Bytes
    BY <2>1, <1>1, EditingContents
  <2>3. CASE disk' = [disk EXCEPT ![i] = Over(@, job[e].bytes)] /\ hurt' = hurt
    BY <1>1, <2>1, <2>2, <2>3 DEF StayBut
  <2>4. CASE disk' = disk /\ hurt' = hurt \union {i}
    BY <1>1, <2>1, <2>4 DEF StayBut
  <2> QED
    BY <1>4, <2>3, <2>4
<1>6. EditingTypeOK' /\ DescriptorsOpen'
  <2>1. late' \subseteq Readers
    BY <1>4 DEF Changes, Open, EditingTypeOK
  <2>2. EditingTypeOK'
    BY <1>3, <1>4, <1>5, <2>1 DEF EditingTypeOK
  <2>3. DescriptorsOpen'
    <3>1. ASSUME NEW x \in Editors, x # e
          PROVE  pc'[x] = pc[x] /\ job'[x] = job[x]
      BY <1>3, <3>1 DEF OthersStay
    <3>2. pc'[e] = "written" /\ job'[e].to \in Inodes
      BY <1>1, <1>2, <1>3
    <3>3. reader' = reader
      BY <1>4
    <3> QED
      BY <3>1, <3>2, <3>3 DEF DescriptorsOpen, Holding
  <2> QED
    BY <2>2, <2>3
<1> QED
  BY <1>1, <1>2, <1>3, <1>4, <1>5, <1>6 DEF i

\* What was the temporary file is the file.
LEMMA RenameTmpOutcome ==
    ASSUME EditingTypeOK, DescriptorsOpen, NEW e \in Editors, RenameTmp(e)
    PROVE  /\ pc[e] = "written" /\ dir[Tmp] \in Inodes
           /\ dir'[File] = dir[Tmp] /\ dir'[Tmp] = NoInode
           /\ \A m \in Names \ {File, Tmp} : dir'[m] = dir[m]
           /\ pc'[e] = "changed" /\ job'[e].todo = Blocks /\ OthersStay(e)
           /\ disk'[dir[Tmp]] = disk[dir[Tmp]]
           /\ (dir[Tmp] \in hurt' <=> dir[Tmp] \in hurt \union Unfinished)
           /\ StayBut({dir[Tmp]})
           /\ Changes(TRUE)
           /\ UNCHANGED <<reader, cache, excused>>
           /\ EditingTypeOK' /\ DescriptorsOpen'
<1> DEFINE i == dir[Tmp]
           j == [NoJob EXCEPT !.todo = Blocks]
<1>1. pc[e] = "written" /\ i \in Inodes
  BY FileInode DEF RenameTmp, EditingTypeOK
<1>2. j \in Jobs /\ j.todo = Blocks
  BY NoJobForm, InvalidatingJob
<1>3. /\ pc' \in [Editors -> {"idle", "opened", "written", "copying", "saving", "changed"}]
      /\ job' \in [Editors -> Jobs]
      /\ pc'[e] = "changed" /\ job'[e] = j /\ OthersStay(e)
  <2> HIDE DEF j
  <2>1. Goto(e, "changed", j)
    BY DEF RenameTmp, j
  <2> QED
    BY <1>2, <2>1, Goes
<1>4. /\ dir' \in [Names -> Inodes \union {NoInode}]
      /\ dir'[File] = i /\ dir'[Tmp] = NoInode
      /\ \A m \in Names \ {File, Tmp} : dir'[m] = dir[m]
  BY FileInode DEF RenameTmp, EditingTypeOK
<1>5. \A m, k \in Names : m # k /\ dir'[m] # NoInode => dir'[m] # dir'[k]
  <2>1. \A m, k \in Names : m # k /\ dir[m] # NoInode => dir[m] # dir[k]
    BY DEF EditingTypeOK
  <2> QED
    BY <1>1, <1>4, <2>1, FileInode
<1>6. /\ disk' \in [Inodes -> Bytes] /\ hurt' \subseteq Inodes
      /\ \A k \in Inodes : k \in Used(dir', job', reader') =>
            disk'[k] = disk[k] /\ (k \in hurt' <=> k \in hurt \union Unfinished)
  <2>1. disk \in [Inodes -> Bytes] /\ hurt \union Unfinished \in SUBSET Inodes
    BY DEF EditingTypeOK, Unfinished
  <2>2. Keep(disk, hurt \union Unfinished)
    BY DEF RenameTmp
  <2> QED
    BY <2>1, <2>2, KeepOutcome
<1>7. i \in Used(dir', job', reader')
  BY <1>4, FileInode, StaysUsed
<1>8. \A k \in Inodes \ {i} : k \notin Unfinished
  BY DEF Unfinished
<1>9. EditingTypeOK' /\ DescriptorsOpen'
  <2> HIDE DEF j
  <2>1. late' \subseteq Readers /\ UNCHANGED <<reader, cache, loading, excused>>
    BY DEF RenameTmp, Changes, Open, EditingTypeOK
  <2>2. EditingTypeOK'
    BY <1>1, <1>3, <1>4, <1>5, <1>6, <2>1, FileInode DEF EditingTypeOK
  <2>3. DescriptorsOpen'
    BY <2>1, <1>2, <1>3 DEF DescriptorsOpen, OthersStay, Holding
  <2> QED
    BY <2>2, <2>3
<1> QED
  BY <1>1, <1>2, <1>3, <1>4, <1>6, <1>7, <1>8, <1>9 DEF RenameTmp, StayBut

\* The end of a request that has failed, or saved.
LEMMA IdleType ==
    ASSUME EditingTypeOK, DescriptorsOpen, NEW e \in Editors, Goto(e, "idle", NoJob),
           NEW bytes \in [Inodes -> Bytes], NEW damaged \in SUBSET Inodes,
           Keep(bytes, damaged), excused' \subseteq Blocks,
           UNCHANGED <<dir, reader, cache, loading, late>>
    PROVE  /\ pc'[e] = "idle" /\ OthersStay(e)
           /\ EditingTypeOK' /\ DescriptorsOpen'
<1>1. /\ pc' \in [Editors -> {"idle", "opened", "written", "copying", "saving", "changed"}]
      /\ job' \in [Editors -> Jobs]
      /\ pc'[e] = "idle" /\ job'[e] = NoJob /\ OthersStay(e)
  BY NoJobForm, Goes
<1>2. disk' \in [Inodes -> Bytes] /\ hurt' \subseteq Inodes
  BY KeepOutcome
<1>3. EditingTypeOK'
  BY <1>1, <1>2 DEF EditingTypeOK
<1>4. DescriptorsOpen'
  BY <1>1 DEF DescriptorsOpen, OthersStay, Holding
<1> QED
  BY <1>1, <1>3, <1>4

\* Only blocks are excused.
LEMMA UnannouncedType ==
    ASSUME EditingTypeOK, NEW really \in BOOLEAN, Unannounced(really)
    PROVE  excused' \subseteq Blocks
BY DEF Unannounced, EditingTypeOK

\* Another request has renamed the temporary file.
LEMMA RenameFailsOutcome ==
    ASSUME EditingTypeOK, DescriptorsOpen, NEW e \in Editors, RenameFails(e)
    PROVE  /\ pc[e] = "written" /\ pc'[e] = "idle" /\ OthersStay(e)
           /\ StayBut({})
           /\ Unannounced(job[e].to = dir[File])
           /\ UNCHANGED <<dir, reader, cache, late>>
           /\ EditingTypeOK' /\ DescriptorsOpen'
<1>1. disk \in [Inodes -> Bytes] /\ hurt \in SUBSET Inodes /\ Keep(disk, hurt)
  BY DEF EditingTypeOK, RenameFails
<1>2. StayBut({})
  BY <1>1, KeepOutcome DEF StayBut
<1>3. excused' \subseteq Blocks
  BY UnannouncedType DEF RenameFails
<1> QED
  BY <1>1, <1>2, <1>3, IdleType DEF RenameFails

\* The copy ends where it failed.
LEMMA CopyFailsOutcome ==
    ASSUME EditingTypeOK, DescriptorsOpen, NEW e \in Editors, CopyFails(e)
    PROVE  LET i == job[e].to
           IN /\ pc[e] = "copying" /\ i \in Inodes /\ pc'[e] = "idle" /\ OthersStay(e)
              /\ i \in Used(dir', job', reader') => disk'[i] = disk[i] /\ i \in hurt'
              /\ StayBut({i})
              /\ Unannounced(TRUE)
              /\ UNCHANGED <<dir, reader, cache, late>>
              /\ EditingTypeOK' /\ DescriptorsOpen'
<1> DEFINE i == job[e].to
<1>0. pc[e] = "copying" /\ i \in Inodes
  BY DEF CopyFails, DescriptorsOpen, Holding
<1>1. /\ disk \in [Inodes -> Bytes] /\ hurt \union {i} \in SUBSET Inodes
      /\ Keep(disk, hurt \union {i})
  BY <1>0 DEF EditingTypeOK, CopyFails
<1>2. \A k \in Inodes : k \in Used(dir', job', reader') =>
          disk'[k] = disk[k] /\ (k \in hurt' <=> k \in hurt \union {i})
  BY <1>1, KeepOutcome
<1>3. excused' \subseteq Blocks
  BY UnannouncedType DEF CopyFails
<1>4. /\ pc'[e] = "idle" /\ OthersStay(e)
      /\ EditingTypeOK' /\ DescriptorsOpen'
  BY <1>1, <1>3, IdleType DEF CopyFails
<1> QED
  BY <1>0, <1>2, <1>4 DEF CopyFails, StayBut

\* A save ends, or fails unnoticed.
LEMMA EndSaveOutcome ==
    ASSUME EditingTypeOK, DescriptorsOpen, NEW e \in Editors, EndSave(e)
    PROVE  LET i == job[e].to
           IN /\ pc[e] = "saving" /\ i \in Inodes /\ pc'[e] = "idle" /\ OthersStay(e)
              /\ i \in Used(dir', job', reader') =>
                    \/ disk'[i] = Over(disk[i], job[e].bytes) /\ (i \in hurt' <=> i \in hurt)
                    \/ i \in hurt'
              /\ StayBut({i})
              /\ UNCHANGED <<dir, reader, cache, late, excused>>
              /\ EditingTypeOK' /\ DescriptorsOpen'
<1> DEFINE i == job[e].to
           saved == [disk EXCEPT ![i] = Over(@, job[e].bytes)]
<1>0. pc[e] = "saving" /\ i \in Inodes /\ job[e].bytes \in Bytes /\ excused' \subseteq Blocks
  BY DEF EndSave, DescriptorsOpen, Holding, EditingTypeOK, Jobs
<1> HIDE DEF i
<1>1. /\ disk \in [Inodes -> Bytes] /\ hurt \in SUBSET Inodes
      /\ hurt \union {i} \in SUBSET Inodes
      /\ Over(disk[i], job[e].bytes) \in Bytes /\ saved \in [Inodes -> Bytes]
  BY <1>0, EditingContents DEF EditingTypeOK
<1>2. Keep(saved, hurt) \/ Keep(disk, hurt \union {i})
  BY DEF EndSave, i
<1>3. /\ i \in Used(dir', job', reader') =>
            \/ disk'[i] = Over(disk[i], job[e].bytes) /\ (i \in hurt' <=> i \in hurt)
            \/ i \in hurt'
      /\ StayBut({i})
  <2>1. CASE Keep(saved, hurt)
    <3>1. \A k \in Inodes : k \in Used(dir', job', reader') =>
              disk'[k] = saved[k] /\ (k \in hurt' <=> k \in hurt)
      BY <1>1, <2>1, KeepOutcome
    <3> QED
      BY <1>0, <1>1, <3>1 DEF StayBut
  <2>2. CASE Keep(disk, hurt \union {i})
    <3>1. \A k \in Inodes : k \in Used(dir', job', reader') =>
              disk'[k] = disk[k] /\ (k \in hurt' <=> k \in hurt \union {i})
      BY <1>1, <2>2, KeepOutcome
    <3> QED
      BY <1>0, <3>1 DEF StayBut
  <2> QED
    BY <1>2, <2>1, <2>2
<1>4. /\ pc'[e] = "idle" /\ OthersStay(e)
      /\ EditingTypeOK' /\ DescriptorsOpen'
  BY <1>0, <1>1, <1>2, IdleType DEF EndSave
<1> QED
  BY <1>0, <1>3, <1>4 DEF EndSave, i

\* The file is truncated by a copy.
LEMMA BeginCopyOutcome ==
    ASSUME EditingTypeOK, DescriptorsOpen, NEW e \in Editors, NEW s \in Sources, BeginCopy(e, s)
    PROVE  LET i == dir[File]
           IN /\ pc[e] = "idle" /\ i \in Inodes /\ dir[s] # NoInode
              /\ pc'[e] = "copying" /\ job'[e].to = i /\ job'[e].from = dir[s] /\ OthersStay(e)
              /\ disk'[i] = Empty /\ (i \in hurt' <=> InHand(i)) /\ StayBut({i})
              /\ Changes(TRUE)
              /\ UNCHANGED <<dir, reader, cache, excused>>
              /\ EditingTypeOK' /\ DescriptorsOpen'
<1> DEFINE i == dir[File]
           j == [NoJob EXCEPT !.to = i, !.from = dir[s]]
           damaged == IF InHand(i) THEN hurt \union {i} ELSE hurt \ {i}
<1>1. pc[e] = "idle" /\ i \in Inodes /\ dir[s] \in Inodes /\ dir[s] # NoInode /\ s \in Names
  BY FileInode DEF BeginCopy, EditingTypeOK
<1>2. j \in Jobs /\ j.to = i /\ j.from = dir[s]
  <2> DEFINE k == dir[s]
  <2>1. i \in Inodes /\ k \in Inodes
    BY <1>1
  <2> HIDE DEF i, k
  <2>2. /\ [NoJob EXCEPT !.to = i, !.from = k] \in Jobs
        /\ [NoJob EXCEPT !.to = i, !.from = k].to = i
        /\ [NoJob EXCEPT !.to = i, !.from = k].from = k
    BY <2>1, CopyJob
  <2> QED
    BY <2>2 DEF i, k
<1>3. /\ pc' \in [Editors -> {"idle", "opened", "written", "copying", "saving", "changed"}]
      /\ job' \in [Editors -> Jobs]
      /\ pc'[e] = "copying" /\ job'[e] = j /\ OthersStay(e)
  <2> HIDE DEF j
  <2>1. Goto(e, "copying", j)
    BY DEF BeginCopy, j
  <2> QED
    BY <1>2, <2>1, Goes
<1>4. /\ [disk EXCEPT ![i] = Empty] \in [Inodes -> Bytes]
      /\ damaged \in SUBSET Inodes
      /\ Keep([disk EXCEPT ![i] = Empty], damaged)
  BY <1>1, EditingContents DEF BeginCopy, Truncated, EditingTypeOK
<1>5. /\ disk' \in [Inodes -> Bytes] /\ hurt' \subseteq Inodes
      /\ \A k \in Inodes : k \in Used(dir', job', reader') =>
            disk'[k] = [disk EXCEPT ![i] = Empty][k] /\ (k \in hurt' <=> k \in damaged)
  <2> DEFINE blank == [disk EXCEPT ![i] = Empty]
  <2>1. blank \in [Inodes -> Bytes] /\ damaged \in SUBSET Inodes /\ Keep(blank, damaged)
    BY <1>4
  <2> HIDE DEF blank, damaged
  <2>2. /\ disk' \in [Inodes -> Bytes] /\ hurt' \subseteq Inodes
        /\ \A k \in Inodes : k \in Used(dir', job', reader') =>
              disk'[k] = blank[k] /\ (k \in hurt' <=> k \in damaged)
    BY <2>1, KeepOutcome
  <2> QED
    BY <2>2 DEF blank
<1>6. UNCHANGED <<dir, reader, cache, loading, excused>> /\ Changes(TRUE)
  BY DEF BeginCopy
<1>7. i \in Used(dir', job', reader')
  BY <1>6, FileInode, StaysUsed
<1>8. disk'[i] = Empty /\ (i \in hurt' <=> InHand(i)) /\ StayBut({i})
  BY <1>1, <1>5, <1>7 DEF EditingTypeOK, StayBut
<1>9. EditingTypeOK' /\ DescriptorsOpen'
  <2> HIDE DEF j
  <2>1. late' \subseteq Readers
    BY <1>6 DEF Changes, Open, EditingTypeOK
  <2>2. EditingTypeOK'
    BY <1>3, <1>5, <1>6, <2>1 DEF EditingTypeOK
  <2>3. DescriptorsOpen'
    BY <1>1, <1>2, <1>3, <1>6 DEF DescriptorsOpen, OthersStay
  <2> QED
    BY <2>2, <2>3
<1> QED
  BY <1>1, <1>2, <1>3, <1>6, <1>8, <1>9

\* The file holds what the source of the copy holds.
LEMMA EndCopyOutcome ==
    ASSUME EditingTypeOK, DescriptorsOpen, NEW e \in Editors, EndCopy(e)
    PROVE  LET i == job[e].to
               k == job[e].from
           IN /\ pc[e] = "copying" /\ i \in Inodes /\ k \in Inodes
              /\ pc'[e] = "changed" /\ job'[e].todo = Blocks /\ OthersStay(e)
              /\ i \in Used(dir', job', reader') =>
                    /\ disk'[i] = Over(disk[i], disk[k])
                    /\ i \in hurt' <=> i \in hurt \/ Doubtful(k)
              /\ StayBut({i})
              /\ Changes(i = dir[File])
              /\ UNCHANGED <<dir, reader, cache, excused>>
              /\ EditingTypeOK' /\ DescriptorsOpen'
<1> DEFINE i == job[e].to
           k == job[e].from
           j == [NoJob EXCEPT !.todo = Blocks]
           copied == [disk EXCEPT ![i] = Over(@, disk[k])]
           damaged == IF Doubtful(k) THEN hurt \union {i} ELSE hurt
<1>1. pc[e] = "copying" /\ i \in Inodes /\ k \in Inodes
  BY DEF EndCopy, DescriptorsOpen, Holding
<1>2. j \in Jobs /\ j.todo = Blocks
  BY NoJobForm, InvalidatingJob
<1>3. /\ pc' \in [Editors -> {"idle", "opened", "written", "copying", "saving", "changed"}]
      /\ job' \in [Editors -> Jobs]
      /\ pc'[e] = "changed" /\ job'[e] = j /\ OthersStay(e)
  <2> HIDE DEF j
  <2>1. Goto(e, "changed", j)
    BY DEF EndCopy, j
  <2> QED
    BY <1>2, <2>1, Goes
<1>4. Keep(copied, damaged) /\ Changes(i = dir[File]) /\ UNCHANGED <<dir, reader, cache, loading, excused>>
  BY DEF EndCopy
<1> HIDE DEF i, k
<1>5. disk \in [Inodes -> Bytes] /\ hurt \subseteq Inodes /\ Over(disk[i], disk[k]) \in Bytes
  BY <1>1, EditingContents DEF EditingTypeOK
<1>6. copied \in [Inodes -> Bytes] /\ damaged \in SUBSET Inodes
  BY <1>1, <1>5
<1>7. /\ disk' \in [Inodes -> Bytes] /\ hurt' \subseteq Inodes
      /\ \A x \in Inodes : x \in Used(dir', job', reader') =>
            disk'[x] = copied[x] /\ (x \in hurt' <=> x \in damaged)
  <2> HIDE DEF copied, damaged
  <2> QED
    BY <1>4, <1>6, KeepOutcome
<1>8. /\ i \in Used(dir', job', reader') =>
            /\ disk'[i] = Over(disk[i], disk[k])
            /\ i \in hurt' <=> i \in hurt \/ Doubtful(k)
      /\ StayBut({i})
  BY <1>1, <1>5, <1>7 DEF StayBut
<1>9. EditingTypeOK' /\ DescriptorsOpen'
  <2> HIDE DEF j
  <2>1. late' \subseteq Readers
    BY <1>4 DEF Changes, Open, EditingTypeOK
  <2>2. EditingTypeOK'
    BY <1>3, <1>4, <1>7, <2>1 DEF EditingTypeOK
  <2>3. DescriptorsOpen'
    BY <1>3, <1>4 DEF DescriptorsOpen, OthersStay, Holding
  <2> QED
    BY <2>2, <2>3
<1> QED
  BY <1>1, <1>2, <1>3, <1>4, <1>8, <1>9 DEF i, k

\* One block is dropped.
LEMMA InvalidateOutcome ==
    ASSUME EditingTypeOK, DescriptorsOpen, NEW e \in Editors, NEW b \in Blocks, InvalidateBlock(e, b)
    PROVE  /\ pc[e] = "changed" /\ OthersStay(e)
           /\ \/ pc'[e] = "idle" /\ job[e].todo \subseteq {b}
              \/ pc'[e] = "changed" /\ job'[e].todo = job[e].todo \ {b}
           /\ cache'[b] = Hole /\ \A d \in Blocks \ {b} : cache'[d] = cache[d]
           /\ excused' = excused \ {b}
           /\ UNCHANGED <<dir, disk, hurt, reader, late>>
           /\ EditingTypeOK' /\ DescriptorsOpen'
<1> DEFINE rest == job[e].todo \ {b}
           j == [job[e] EXCEPT !.todo = rest]
           state == IF rest = {} THEN "idle" ELSE "changed"
<1>1. pc[e] = "changed" /\ job[e] \in Jobs /\ rest \in SUBSET Blocks
  BY DEF InvalidateBlock, EditingTypeOK, Jobs
<1>2. j \in Jobs /\ j.todo = rest
  <2> HIDE DEF rest
  <2> QED
    BY <1>1, InvalidatingJob
<1>3. /\ pc' \in [Editors -> {"idle", "opened", "written", "copying", "saving", "changed"}]
      /\ job' \in [Editors -> Jobs]
      /\ pc'[e] = state /\ job'[e] = j /\ OthersStay(e)
  <2>1. Goto(e, state, j) /\ state \in {"idle", "changed"}
    BY DEF InvalidateBlock
  <2> HIDE DEF j, state
  <2> QED
    BY <1>2, <2>1, Goes
<1>4. /\ cache' = [cache EXCEPT ![b] = Hole]
      /\ loading' = loading \ {b} /\ excused' = excused \ {b}
      /\ UNCHANGED <<dir, disk, hurt, reader, late>>
  BY DEF InvalidateBlock, fileVars
<1>5. EditingTypeOK'
  <2> HIDE DEF j, state
  <2> QED
    BY <1>3, <1>4 DEF EditingTypeOK
<1>6. DescriptorsOpen'
  <2> HIDE DEF j
  <2> QED
    BY <1>3, <1>4 DEF DescriptorsOpen, OthersStay, Holding
<1> QED
  BY <1>1, <1>2, <1>3, <1>4, <1>5, <1>6 DEF EditingTypeOK

\* A snapshot or an experiment is truncated by a save.
LEMMA BeginSaveOutcome ==
    ASSUME EditingTypeOK, DescriptorsOpen, NEW e \in Editors, NEW s \in Sources,
           NEW bytes \in Bytes, BeginSave(e, s, bytes)
    PROVE  \E i \in Inodes :
              /\ pc[e] = "idle" /\ Opens(s, i)
              /\ dir'[s] = i /\ \A m \in Names \ {s} : dir'[m] = dir[m]
              /\ pc'[e] = "saving" /\ job'[e].to = i /\ job'[e].bytes = bytes
              /\ OthersStay(e)
              /\ disk'[i] = Empty
              /\ (i \in hurt' <=> InHand(i) \/ (~Whole(bytes) /\ Doubtful(dir[File])))
              /\ StayBut({i})
              /\ UNCHANGED <<reader, cache, late, excused>>
              /\ EditingTypeOK' /\ DescriptorsOpen'
<1> DEFINE unsure(i) == InHand(i) \/ (~Whole(bytes) /\ Doubtful(dir[File]))
<1>1. PICK i \in Inodes :
          /\ Opens(s, i)
          /\ dir' = [dir EXCEPT ![s] = i]
          /\ Goto(e, "saving", [NoJob EXCEPT !.to = i, !.bytes = bytes])
          /\ UNCHANGED reader
          /\ Keep([disk EXCEPT ![i] = Empty], IF unsure(i) THEN hurt \union {i} ELSE hurt \ {i})
  BY DEF BeginSave
<1> DEFINE j == [NoJob EXCEPT !.to = i, !.bytes = bytes]
           damaged == IF unsure(i) THEN hurt \union {i} ELSE hurt \ {i}
<1>2. j \in Jobs /\ j.to = i /\ j.bytes = bytes /\ s \in Names
  BY TextJob, FileInode
<1>3. /\ pc' \in [Editors -> {"idle", "opened", "written", "copying", "saving", "changed"}]
      /\ job' \in [Editors -> Jobs]
      /\ pc'[e] = "saving" /\ job'[e] = j /\ OthersStay(e)
  <2> HIDE DEF j
  <2>1. Goto(e, "saving", j)
    BY <1>1 DEF j
  <2> QED
    BY <1>2, <2>1, Goes
<1>4. /\ dir' \in [Names -> Inodes \union {NoInode}]
      /\ dir'[File] # NoInode
      /\ \A m, k \in Names : m # k /\ dir'[m] # NoInode => dir'[m] # dir'[k]
      /\ dir'[s] = i /\ \A m \in Names \ {s} : dir'[m] = dir[m]
  <2>1. s \in Names /\ \A m \in Names \ {s} : dir[m] # i
    BY <1>1, FileInode, OpensOutcome
  <2>2. dir' = [dir EXCEPT ![s] = i]
    BY <1>1
  <2> QED
    BY <2>1, <2>2, Named
<1>5. /\ [disk EXCEPT ![i] = Empty] \in [Inodes -> Bytes]
      /\ damaged \in SUBSET Inodes
      /\ Keep([disk EXCEPT ![i] = Empty], damaged)
  BY <1>1, EditingContents DEF EditingTypeOK
<1>6. /\ disk' \in [Inodes -> Bytes] /\ hurt' \subseteq Inodes
      /\ \A k \in Inodes : k \in Used(dir', job', reader') =>
            disk'[k] = [disk EXCEPT ![i] = Empty][k] /\ (k \in hurt' <=> k \in damaged)
  <2> DEFINE blank == [disk EXCEPT ![i] = Empty]
  <2>1. blank \in [Inodes -> Bytes] /\ damaged \in SUBSET Inodes /\ Keep(blank, damaged)
    BY <1>5
  <2> HIDE DEF blank, damaged
  <2>2. /\ disk' \in [Inodes -> Bytes] /\ hurt' \subseteq Inodes
        /\ \A k \in Inodes : k \in Used(dir', job', reader') =>
              disk'[k] = blank[k] /\ (k \in hurt' <=> k \in damaged)
    BY <2>1, KeepOutcome
  <2> QED
    BY <2>2 DEF blank
<1>7. i \in Used(dir', job', reader')
  BY <1>2, <1>4, StaysUsed
<1>8. disk'[i] = Empty /\ (i \in hurt' <=> unsure(i)) /\ StayBut({i})
  <2> HIDE DEF unsure
  <2> QED
    BY <1>6, <1>7 DEF EditingTypeOK, StayBut
<1>9. EditingTypeOK' /\ DescriptorsOpen'
  <2> HIDE DEF j
  <2>1. UNCHANGED <<reader, cache, loading, late, excused>>
    BY <1>1 DEF BeginSave
  <2>2. EditingTypeOK'
    BY <2>1, <1>3, <1>4, <1>6 DEF EditingTypeOK
  <2>3. DescriptorsOpen'
    BY <2>1, <1>2, <1>3 DEF DescriptorsOpen, OthersStay
  <2> QED
    BY <2>2, <2>3
<1> QED
  BY <1>1, <1>2, <1>3, <1>4, <1>8, <1>9 DEF BeginSave

\* A snapshot or an experiment loses its name.
LEMMA DiscardOutcome ==
    ASSUME EditingTypeOK, DescriptorsOpen, NEW s \in Sources, Discard(s)
    PROVE  /\ dir'[s] = NoInode /\ \A m \in Names \ {s} : dir'[m] = dir[m]
           /\ StayBut({})
           /\ UNCHANGED <<pc, job, reader, cache, late, excused>>
           /\ EditingTypeOK' /\ DescriptorsOpen'
<1>1. /\ dir' \in [Names -> Inodes \union {NoInode}]
      /\ dir'[s] = NoInode /\ \A m \in Names \ {s} : dir'[m] = dir[m]
      /\ s \in Names /\ s # File
  BY FileInode DEF EditingTypeOK, Discard
<1>2. \A m, k \in Names : m # k /\ dir'[m] # NoInode => dir'[m] # dir'[k]
  <2>1. \A m, k \in Names : m # k /\ dir[m] # NoInode => dir[m] # dir[k]
    BY DEF EditingTypeOK
  <2> QED
    BY <1>1, <2>1
<1>3. disk \in [Inodes -> Bytes] /\ hurt \in SUBSET Inodes /\ Keep(disk, hurt)
  BY DEF EditingTypeOK, Discard
<1>4. disk' \in [Inodes -> Bytes] /\ hurt' \subseteq Inodes /\ StayBut({})
  BY <1>3, KeepOutcome DEF StayBut
<1>5. UNCHANGED <<pc, job, reader, cache, loading, late, excused>>
  BY DEF Discard
<1>6. EditingTypeOK'
  BY <1>1, <1>2, <1>4, <1>5, FileInode DEF EditingTypeOK
<1>7. DescriptorsOpen'
  BY <1>5 DEF DescriptorsOpen
<1> QED
  BY <1>1, <1>4, <1>5, <1>6, <1>7

\* What a crash cuts off.
CutOff == {job[e].to : e \in {x \in Editors : pc[x] \in {"copying", "saving"}}}

\* Descriptors and the cache are gone, the files stay.
LEMMA CrashOutcome ==
    ASSUME EditingTypeOK, DescriptorsOpen, Crash
    PROVE  /\ \A e \in Editors : pc'[e] = "idle"
           /\ \A r \in Readers : reader'[r].at = "idle"
           /\ \A b \in Blocks : cache'[b] = Hole
           /\ \A i \in Inodes : i \in Used(dir', job', reader') =>
                 disk'[i] = disk[i] /\ (i \in hurt' <=> i \in hurt \union CutOff)
           /\ UNCHANGED dir
           /\ EditingTypeOK' /\ DescriptorsOpen'
<1>1. disk \in [Inodes -> Bytes] /\ hurt \union CutOff \in SUBSET Inodes /\ Keep(disk, hurt \union CutOff)
  BY DEF EditingTypeOK, Crash, CutOff, DescriptorsOpen, Holding
<1>2. /\ disk' \in [Inodes -> Bytes] /\ hurt' \subseteq Inodes
      /\ \A i \in Inodes : i \in Used(dir', job', reader') =>
            disk'[i] = disk[i] /\ (i \in hurt' <=> i \in hurt \union CutOff)
  BY <1>1, KeepOutcome
<1>3. /\ pc' = [e \in Editors |-> "idle"] /\ job' = [e \in Editors |-> NoJob]
      /\ reader' = [r \in Readers |-> NoReader] /\ cache' = [b \in Blocks |-> Hole]
      /\ loading' = {} /\ late' = {} /\ excused' = {} /\ UNCHANGED dir
  BY DEF Crash
<1>4. EditingTypeOK'
  <2>1. job' \in [Editors -> Jobs] /\ reader' \in [Readers -> ReaderStates]
    BY <1>3, NoJobForm, NoReaderForm
  <2>2. /\ pc' \in [Editors -> {"idle", "opened", "written", "copying", "saving", "changed"}]
        /\ cache' \in [Blocks -> Contents \union {Hole}]
    BY <1>3
  <2> QED
    BY <1>2, <1>3, <2>1, <2>2 DEF EditingTypeOK
<1>5. \A r \in Readers : reader'[r].at = "idle"
  BY <1>3, NoReaderForm
<1>6. DescriptorsOpen'
  BY <1>3, <1>5 DEF DescriptorsOpen, Holding
<1> QED
  BY <1>2, <1>3, <1>4, <1>5, <1>6

\* The readers: one moves.
OneMoves(r) ==
    /\ \A x \in Readers \ {r} : reader'[x] = reader[x] /\ (x \in late' <=> x \in late)
    /\ \/ reader'[r].at = "idle"
       \/ /\ reader'[r].at \in {"get", "mark", "load"} /\ (r \in late' <=> r \in late)
          /\ IF reader[r].at = "idle" THEN reader'[r].fd = dir[File]
                                      ELSE reader'[r].fd = reader[r].fd
       \/ /\ reader[r].at # "idle" /\ (r \in late' <=> r \in late)
          /\ reader'[r].at \in {"missed", "loaded"}
          /\ reader'[r].fd = reader[r].fd /\ reader'[r].block = reader[r].block
          /\ reader'[r].data = disk[reader[r].fd][reader[r].block]

\* What a reader may change, and the types of that.
ReadTypes ==
    /\ reader' \in [Readers -> ReaderStates] /\ late' \subseteq Readers
    /\ \A x \in Readers : reader'[x].at # "idle" => reader'[x].fd \in Inodes
    /\ disk' \in [Inodes -> Bytes] /\ hurt' \subseteq Inodes

\* A reader closes its descriptor.
LEMMA ClosesOutcome ==
    ASSUME EditingTypeOK, DescriptorsOpen, NEW r \in Readers, Closes(r)
    PROVE  /\ UNCHANGED <<dir, job>> /\ StayBut({}) /\ OneMoves(r)
           /\ ReadTypes
<1>1. /\ reader' = [reader EXCEPT ![r] = NoReader]
      /\ late' = late \ {r} /\ UNCHANGED <<dir, job>> /\ Keep(disk, hurt)
  BY DEF Closes
<1>2. disk \in [Inodes -> Bytes] /\ hurt \in SUBSET Inodes
  BY DEF EditingTypeOK
<1>3. disk' \in [Inodes -> Bytes] /\ hurt' \subseteq Inodes /\ StayBut({})
  BY <1>1, <1>2, KeepOutcome DEF StayBut
<1>4. NoReader \in ReaderStates /\ NoReader.at = "idle"
  BY NoReaderForm
<1>5. OneMoves(r)
  BY <1>1, <1>4 DEF OneMoves, EditingTypeOK
<1>6. ReadTypes
  BY <1>1, <1>3, <1>4 DEF ReadTypes, EditingTypeOK, DescriptorsOpen
<1> QED
  BY <1>1, <1>3, <1>5, <1>6

\* A reader that goes on with a state s of the same descriptor.
LEMMA GoesOn ==
    ASSUME EditingTypeOK, DescriptorsOpen, NEW r \in Readers, NEW s \in ReaderStates,
           reader' = [reader EXCEPT ![r] = s],
           s.fd \in Inodes,
           \/ /\ s.at \in {"get", "mark", "load"}
              /\ IF reader[r].at = "idle" THEN s.fd = dir[File] ELSE s.fd = reader[r].fd
           \/ /\ reader[r].at # "idle" /\ s.at \in {"missed", "loaded"}
              /\ s.fd = reader[r].fd /\ s.block = reader[r].block
              /\ s.data = disk[reader[r].fd][reader[r].block],
           UNCHANGED <<fileVars, job, late, hurt>>
    PROVE  /\ UNCHANGED <<dir, job>> /\ StayBut({}) /\ OneMoves(r)
           /\ ReadTypes
<1>1. UNCHANGED <<dir, disk, job, late, hurt>>
  BY DEF fileVars
<1>2. reader'[r] = s /\ \A x \in Readers \ {r} : reader'[x] = reader[x]
  BY DEF EditingTypeOK
<1>3. OneMoves(r)
  BY <1>1, <1>2 DEF OneMoves
<1>4. reader' \in [Readers -> ReaderStates]
  BY DEF EditingTypeOK
<1>5. ReadTypes
  BY <1>1, <1>2, <1>4 DEF ReadTypes, EditingTypeOK, DescriptorsOpen
<1> QED
  BY <1>1, <1>3, <1>5 DEF StayBut

\* A reader goes on to the next block, or closes.
LEMMA AdvancesOutcome ==
    ASSUME EditingTypeOK, DescriptorsOpen, NEW r \in Readers, reader[r].at # "idle",
           NEW at \in {"get", "mark"}, Advances(r, at)
    PROVE  /\ UNCHANGED <<dir, job>> /\ StayBut({}) /\ OneMoves(r)
           /\ ReadTypes
<1>1. CASE reader[r].block = LastBlock
  BY <1>1, ClosesOutcome DEF Advances
<1>2. CASE reader[r].block # LastBlock
  <2> DEFINE s == [reader[r] EXCEPT !.at = at, !.block = reader[r].block + 1, !.data = Hole]
  <2>1. reader[r] \in ReaderStates
    BY DEF EditingTypeOK
  <2>2. s \in ReaderStates /\ s.at = at /\ s.fd = reader[r].fd
    BY <1>2, <2>1, AdvancedReader
  <2>3. reader' = [reader EXCEPT ![r] = s] /\ UNCHANGED <<fileVars, job, late, hurt>>
    BY <1>2 DEF Advances, EditingTypeOK
  <2>4. s.fd \in Inodes
    BY <2>2 DEF DescriptorsOpen
  <2> HIDE DEF s
  <2> QED
    BY <2>2, <2>3, <2>4, GoesOn
<1> QED
  BY <1>1, <1>2

\* What a reader reads of its descriptor.
LEMMA ReadsBlock ==
    ASSUME EditingTypeOK, DescriptorsOpen, NEW r \in Readers, reader[r].at # "idle",
           NEW at \in {"missed", "loaded"},
           reader' = [reader EXCEPT ![r].at = at,
                                    ![r].data = disk[reader[r].fd][reader[r].block]],
           UNCHANGED <<fileVars, job, late, hurt>>
    PROVE  /\ UNCHANGED <<dir, job>> /\ StayBut({}) /\ OneMoves(r)
           /\ ReadTypes
<1> DEFINE data == disk[reader[r].fd][reader[r].block]
           s == [reader[r] EXCEPT !.at = at, !.data = data]
<1>1. reader[r] \in ReaderStates /\ reader[r].fd \in Inodes /\ reader[r].block \in Blocks
  BY DEF EditingTypeOK, DescriptorsOpen, ReaderStates
<1>2. data \in Contents \union {Hole}
  BY <1>1 DEF EditingTypeOK, Bytes
<1> HIDE DEF data
<1>3. s \in ReaderStates /\ s.at = at /\ s.fd = reader[r].fd /\ s.block = reader[r].block /\ s.data = data
  <2>1. \A k \in ReaderStates :
            /\ [k EXCEPT !.at = at, !.data = data] \in ReaderStates
            /\ [k EXCEPT !.at = at, !.data = data].at = at
            /\ [k EXCEPT !.at = at, !.data = data].fd = k.fd
            /\ [k EXCEPT !.at = at, !.data = data].block = k.block
            /\ [k EXCEPT !.at = at, !.data = data].data = data
    BY <1>2 DEF ReaderStates
  <2> QED
    BY <1>1, <2>1
<1>4. reader' = [reader EXCEPT ![r] = s]
  BY DEF data, EditingTypeOK
<1> HIDE DEF s
<1> QED
  BY <1>1, <1>3, <1>4, GoesOn DEF data

\* A step of a reader leaves the names and the requests, and puts a block it has
\* read or none.
LEMMA ReadOutcome ==
    ASSUME EditingTypeOK, DescriptorsOpen, NEW r \in Readers, Read(r)
    PROVE  /\ UNCHANGED <<dir, pc, job>> /\ StayBut({}) /\ OneMoves(r)
           /\ \/ UNCHANGED <<cache, excused>>
              \/ LET b == reader[r].block
                 IN /\ reader[r].at \in {"missed", "loaded"} /\ b \in Blocks
                    /\ cache'[b] = reader[r].data
                    /\ \A d \in Blocks \ {b} : cache'[d] = cache[d]
                    /\ excused' = IF r \in late THEN excused \union {b} ELSE excused \ {b}
           /\ EditingTypeOK' /\ DescriptorsOpen'
<1> DEFINE Moves == UNCHANGED <<dir, job>> /\ StayBut({}) /\ OneMoves(r) /\ ReadTypes
           Stays == cache' \in [Blocks -> Contents \union {Hole}] /\ excused' \subseteq Blocks
                    /\ loading' \subseteq Blocks /\ UNCHANGED pc
<1>1. reader[r] \in ReaderStates /\ reader[r].block \in Blocks
  BY DEF EditingTypeOK, ReaderStates
<1>2. ASSUME Moves, Stays PROVE EditingTypeOK' /\ DescriptorsOpen'
  <2>1. EditingTypeOK'
    <3>1. /\ dir' = dir /\ job' = job /\ pc' = pc
          /\ reader' \in [Readers -> ReaderStates] /\ late' \subseteq Readers
          /\ disk' \in [Inodes -> Bytes] /\ hurt' \subseteq Inodes
      BY <1>2 DEF ReadTypes
    <3> HIDE DEF Moves
    <3> QED
      BY <1>2, <3>1 DEF EditingTypeOK
  <2>2. DescriptorsOpen'
    BY <1>2 DEF DescriptorsOpen, ReadTypes
  <2> QED
    BY <2>1, <2>2
<1>3. ASSUME NEW at \in {"get", "mark"}, NEW b \in Blocks, BeginRead(r, at, b)
      PROVE  Moves /\ Stays /\ UNCHANGED <<cache, excused>>
  <2> DEFINE s == [at |-> at, fd |-> dir[File], block |-> b, data |-> Hole]
  <2>1. s \in ReaderStates /\ s.at = at /\ s.fd = dir[File]
    <3> DEFINE i == dir[File]
    <3>1. i \in Inodes
      BY FileInode
    <3> HIDE DEF i
    <3>2. LET n == [at |-> at, fd |-> i, block |-> b, data |-> Hole]
          IN n \in ReaderStates /\ n.at = at /\ n.fd = i
      BY <3>1, BeginningReader
    <3> QED
      BY <3>2 DEF i
  <2>2. /\ reader[r].at = "idle" /\ reader' = [reader EXCEPT ![r] = s]
        /\ UNCHANGED <<fileVars, requestVars, cache, loading, historyVars>>
    BY <1>3 DEF BeginRead
  <2>3. UNCHANGED <<fileVars, pc, job, cache, loading, late, excused, hurt>>
    BY <2>2 DEF requestVars, historyVars
  <2> HIDE DEF s
  <2>4. Moves
    BY <2>1, <2>2, <2>3, FileInode, GoesOn
  <2> QED
    BY <2>3, <2>4 DEF EditingTypeOK
<1>4. ASSUME EndRead(r) PROVE Moves /\ Stays /\ UNCHANGED <<cache, excused>>
  BY <1>4, ClosesOutcome DEF EndRead, EditingTypeOK
<1>5. ASSUME Hit(r) PROVE Moves /\ Stays /\ UNCHANGED <<cache, excused>>
  BY <1>5, AdvancesOutcome DEF Hit, EditingTypeOK
<1>6. ASSUME Miss(r) PROVE Moves /\ Stays /\ UNCHANGED <<cache, excused>>
  <2>1. Stays /\ UNCHANGED <<cache, excused>> /\ reader[r].at = "get"
    BY <1>6 DEF Miss, EditingTypeOK
  <2>2. \/ Closes(r)
        \/ /\ reader' = [reader EXCEPT ![r].at = "missed",
                                       ![r].data = disk[reader[r].fd][reader[r].block]]
           /\ UNCHANGED <<fileVars, job, late, hurt>>
    BY <1>6 DEF Miss
  <2> QED
    BY <2>1, <2>2, ClosesOutcome, ReadsBlock
<1>7. ASSUME Mark(r) PROVE Moves /\ Stays /\ UNCHANGED <<cache, excused>>
  <2>1. Stays /\ UNCHANGED <<cache, excused>> /\ reader[r].at = "mark"
    BY <1>1, <1>7 DEF Mark, EditingTypeOK
  <2>2. CASE Advances(r, "mark")
    BY <2>1, <2>2, AdvancesOutcome
  <2>3. CASE reader' = [reader EXCEPT ![r].at = "load"] /\ UNCHANGED <<fileVars, job, late, hurt>>
    <3> DEFINE s == [reader[r] EXCEPT !.at = "load"]
    <3>1. s \in ReaderStates /\ s.at = "load" /\ s.fd = reader[r].fd
      BY <1>1, LoadingReader
    <3>2. s.fd \in Inodes
      BY <2>1, <3>1 DEF DescriptorsOpen
    <3>3. reader' = [reader EXCEPT ![r] = s]
      BY <2>3 DEF EditingTypeOK
    <3> HIDE DEF s
    <3> QED
      BY <2>1, <2>3, <3>1, <3>2, <3>3, GoesOn
  <2> QED
    BY <1>7, <2>1, <2>2, <2>3 DEF Mark
<1>8. ASSUME Load(r) PROVE Moves /\ Stays /\ UNCHANGED <<cache, excused>>
  <2>1. Stays /\ UNCHANGED <<cache, excused>> /\ reader[r].at = "load"
    BY <1>8 DEF Load, EditingTypeOK
  <2>2. \/ Closes(r) \/ Advances(r, "mark")
        \/ /\ reader' = [reader EXCEPT ![r].at = "loaded",
                                       ![r].data = disk[reader[r].fd][reader[r].block]]
           /\ UNCHANGED <<fileVars, job, late, hurt>>
    BY <1>8 DEF Load
  <2> QED
    BY <2>1, <2>2, ClosesOutcome, AdvancesOutcome, ReadsBlock
<1>9. ASSUME Put(r)
      PROVE  /\ Moves /\ Stays
             /\ LET b == reader[r].block
                IN /\ reader[r].at \in {"missed", "loaded"} /\ b \in Blocks
                   /\ cache'[b] = reader[r].data
                   /\ \A d \in Blocks \ {b} : cache'[d] = cache[d]
                   /\ excused' = IF r \in late THEN excused \union {b} ELSE excused \ {b}
  <2>1. Moves
    BY <1>9, AdvancesOutcome DEF Put
  <2>2. reader[r].data \in Contents \union {Hole}
    BY <1>1 DEF ReaderStates
  <2> QED
    BY <1>1, <1>9, <2>1, <2>2 DEF Put, EditingTypeOK
<1> HIDE DEF Moves
<1>10. Moves /\ Stays /\
          \/ UNCHANGED <<cache, excused>>
          \/ LET b == reader[r].block
             IN /\ reader[r].at \in {"missed", "loaded"} /\ b \in Blocks
                /\ cache'[b] = reader[r].data
                /\ \A d \in Blocks \ {b} : cache'[d] = cache[d]
                /\ excused' = IF r \in late THEN excused \union {b} ELSE excused \ {b}
  BY <1>3, <1>4, <1>5, <1>6, <1>7, <1>8, <1>9 DEF Read
<1> QED
  BY <1>2, <1>10 DEF Moves

\* A block is expired or evicted.
LEMMA ForgetOutcome ==
    ASSUME EditingTypeOK, DescriptorsOpen, NEW b \in Blocks, Forget(b)
    PROVE  /\ UNCHANGED <<dir, pc, job, reader, late>> /\ StayBut({})
           /\ cache'[b] = Hole /\ \A d \in Blocks \ {b} : cache'[d] = cache[d]
           /\ excused' = excused \ {b}
           /\ EditingTypeOK' /\ DescriptorsOpen'
<1>1. /\ cache' = [cache EXCEPT ![b] = Hole] /\ excused' = excused \ {b}
      /\ UNCHANGED <<dir, disk, pc, job, reader, loading, late, hurt>>
  BY DEF Forget, fileVars, requestVars
<1>2. EditingTypeOK'
  BY <1>1 DEF EditingTypeOK
<1>3. DescriptorsOpen'
  BY <1>1 DEF DescriptorsOpen
<1> QED
  BY <1>1, <1>2, <1>3 DEF EditingTypeOK, StayBut

-----------------------------------------------------------------------------
(* What holds of the inodes is kept by every step.                         *)

SameInode(i) == disk'[i] = disk[i] /\ (i \in hurt' <=> i \in hurt)

\* What still has a name or a descriptor after a step was not freed by it.
LEMMA StillThere ==
    ASSUME EditingTypeOK', DescriptorsOpen', NEW S, StayBut(S)
    PROVE  /\ \A n \in Names : dir'[n] # NoInode => dir'[n] \in S \/ SameInode(dir'[n])
           /\ \A x \in Editors : pc'[x] \in Holding =>
                 job'[x].to \in S \/ SameInode(job'[x].to)
           /\ \A x \in Editors : pc'[x] = "copying" =>
                 job'[x].from \in S \/ SameInode(job'[x].from)
           /\ \A n \in Names : dir'[n] # NoInode => dir'[n] \in Used(dir', job', reader')
           /\ \A x \in Editors : /\ job'[x].to \in Used(dir', job', reader')
                                 /\ job'[x].from \in Used(dir', job', reader')
           /\ \A x \in Editors : pc'[x] \in Holding => job'[x].to \in Inodes
<1>1. /\ \A n \in Names : dir'[n] # NoInode => dir'[n] \in Inodes
      /\ \A x \in Editors : pc'[x] \in Holding => job'[x].to \in Inodes
      /\ \A x \in Editors : pc'[x] = "copying" => job'[x].from \in Inodes
  BY DEF EditingTypeOK, DescriptorsOpen
<1> QED
  BY <1>1, StaysUsed DEF StayBut, SameInode

InodesInv == OneHand /\ HandsClean /\ SavedApart /\ NamedSound /\ TmpReady

\* The text of a request is whole.
LEMMA ContentWhole == \A c \in Contents : Whole(Content(c))
BY DEF Whole

\* An edit that another one has under way hurts the temporary file.
LEMMA OpenTmpKeeps ==
    ASSUME EditingTypeOK, DescriptorsOpen, InodesInv,
           NEW e \in Editors, NEW c \in Contents, OpenTmp(e, c)
    PROVE  InodesInv'
<1> USE FileInode DEF Holding
<1>1. PICK i \in Inodes :
              /\ pc[e] = "idle" /\ Opens(Tmp, i)
              /\ dir'[Tmp] = i /\ \A m \in Names \ {Tmp} : dir'[m] = dir[m]
              /\ pc'[e] = "opened" /\ job'[e].to = i /\ job'[e].bytes = Content(c)
              /\ OthersStay(e)
              /\ disk'[i] = Empty /\ (i \in hurt' <=> InHand(i)) /\ StayBut({i})
              /\ EditingTypeOK' /\ DescriptorsOpen'
  BY OpenTmpOutcome
<1>2. /\ \A n \in Names \ {Tmp} : dir'[n] # NoInode => dir'[n] # i /\ SameInode(dir'[n])
      /\ \A x \in Editors : pc'[x] \in Holding => job'[x].to = i \/ SameInode(job'[x].to)
      /\ \A x \in Editors : pc'[x] = "copying" => job'[x].from = i \/ SameInode(job'[x].from)
      /\ \A x \in Editors : pc'[x] \in Holding => job'[x].to \in Inodes
  BY <1>1, StillThere, OpensOutcome
<1>3. \A x \in Editors \ {e} : pc[x] \in Holding /\ job[x].to = i => i \in hurt'
  BY <1>1 DEF InHand
<1>4. \A k : InHand(k) => InHand(k)'
  BY <1>1 DEF InHand, OthersStay
<1>5. OneHand'
  BY <1>1, <1>2, <1>3 DEF InodesInv, OneHand, OthersStay, SameInode
<1>6. HandsClean'
  <2>1. \A x \in Editors \ {e} : pc'[x] = "opened" => Whole(job'[x].bytes)
    BY <1>1 DEF InodesInv, HandsClean, OthersStay
  <2>2. \A x \in Editors \ {e} : pc'[x] \in Holding /\ job'[x].to \notin hurt' =>
            /\ pc[x] \in Holding /\ job[x].to \notin hurt /\ pc'[x] = pc[x] /\ job'[x] = job[x]
            /\ job'[x].to # i /\ disk'[job[x].to] = disk[job[x].to]
    BY <1>1, <1>2, <1>3 DEF OthersStay, SameInode
  <2> QED
    BY <1>1, <1>2, <2>1, <2>2, ContentWhole DEF InodesInv, HandsClean
<1>7. SavedApart'
  <2>1. \A x \in Editors \ {e} : pc[x] = "saving" => job[x].to # i
    BY <1>1, OpensOutcome, InUse DEF InodesInv, SavedApart
  <2> QED
    BY <1>1, <2>1 DEF InodesInv, SavedApart, OthersStay
<1>8. NamedSound'
  <2>1. InHand(i)'
    BY <1>1 DEF InHand
  <2> QED
    BY <1>1, <1>2, <1>4, <2>1 DEF InodesInv, NamedSound, Sound, SameInode, OthersStay
<1>9. TmpReady'
  BY <1>1 DEF TmpReady
<1> QED
  BY <1>5, <1>6, <1>7, <1>8, <1>9 DEF InodesInv

\* What only one request has written to is whole.
LEMMA WriteTmpKeeps ==
    ASSUME EditingTypeOK, DescriptorsOpen, InodesInv, NEW e \in Editors, WriteTmp(e)
    PROVE  InodesInv'
<1> USE FileInode DEF Holding
<1>0. PICK i : i = job[e].to
  OBVIOUS
<1>1. /\ pc[e] = "opened" /\ i \in Inodes
      /\ pc'[e] = "written" /\ job'[e].to = i /\ OthersStay(e)
      /\ \/ disk'[i] = Over(disk[i], job[e].bytes) /\ (i \in hurt' <=> i \in hurt)
         \/ i \in hurt'
      /\ StayBut({i})
      /\ UNCHANGED dir
      /\ EditingTypeOK' /\ DescriptorsOpen'
  BY <1>0, WriteTmpOutcome
<1>2. /\ \A n \in Names : dir'[n] # NoInode => dir'[n] = i \/ SameInode(dir'[n])
      /\ \A x \in Editors : pc'[x] \in Holding => job'[x].to = i \/ SameInode(job'[x].to)
      /\ \A x \in Editors : pc'[x] = "copying" => job'[x].from = i \/ SameInode(job'[x].from)
  BY <1>1, StillThere
<1>3. i \in hurt => i \in hurt'
  BY <1>1
<1>4. \A x \in Editors : /\ job'[x].to = job[x].to
                         /\ pc'[x] \in Holding <=> pc[x] \in Holding
                         /\ pc'[x] = "copying" => x # e
  BY <1>0, <1>1 DEF OthersStay
<1>5. \A k : InHand(k) => InHand(k)'
  BY <1>4 DEF InHand
<1>6. i \notin hurt' => Whole(disk'[i])
  <2>1. job[e].bytes \in Bytes
    BY DEF EditingTypeOK, Jobs
  <2>2. i \notin hurt => disk[i] = Empty /\ Whole(job[e].bytes)
    BY <1>0, <1>1 DEF InodesInv, HandsClean
  <2> QED
    BY <1>1, <2>1, <2>2, EditingContents
<1>7. OneHand'
  BY <1>2, <1>3, <1>4 DEF InodesInv, OneHand, SameInode
<1>8. HandsClean'
  <2>1. \A x \in Editors \ {e} : pc'[x] = "opened" => Whole(job'[x].bytes)
    BY <1>1 DEF InodesInv, HandsClean, OthersStay
  <2>2. \A x \in Editors \ {e} : pc'[x] \in Holding /\ job'[x].to \notin hurt' =>
            /\ pc[x] \in Holding /\ job[x].to \notin hurt /\ pc'[x] = pc[x] /\ job'[x] = job[x]
            /\ disk'[job[x].to] = disk[job[x].to]
    <3>1. \A x \in Editors \ {e} : pc[x] \in Holding /\ job[x].to = i => i \in hurt
      BY <1>0, <1>1 DEF InodesInv, OneHand
    <3> QED
      BY <1>1, <1>2, <1>3, <3>1 DEF OthersStay, SameInode
  <2> QED
    BY <1>0, <1>1, <1>6, <2>1, <2>2 DEF InodesInv, HandsClean
<1>9. SavedApart'
  BY <1>1 DEF InodesInv, SavedApart, OthersStay
<1>10. NamedSound'
  <2>1. InHand(i)'
    BY <1>1 DEF InHand
  <2> QED
    BY <1>1, <1>2, <1>5, <2>1 DEF InodesInv, NamedSound, Sound, SameInode, OthersStay
<1>11. TmpReady'
  <2>1. CASE dir[Tmp] = i
    BY <1>1, <1>6, <2>1 DEF TmpReady
  <2>2. CASE dir[Tmp] # i
    <3>1. \A x \in Editors : pc[x] = "opened" /\ job[x].to = dir[Tmp] => x # e
      BY <1>0, <2>2
    <3> QED
      BY <1>1, <1>2, <2>2, <3>1 DEF InodesInv, TmpReady, SameInode, OthersStay
  <2> QED
    BY <2>1, <2>2
<1> QED
  BY <1>7, <1>8, <1>9, <1>10, <1>11 DEF InodesInv

\* A request that ends, or goes on to invalidateFile, with its inode i finished
\* or hurt; the names are as they were, or i was renamed.
LEMMA LeavesKeeps ==
    ASSUME EditingTypeOK, DescriptorsOpen, InodesInv, EditingTypeOK', DescriptorsOpen',
           NEW e \in Editors, pc[e] \in {"written", "copying", "saving"},
           pc'[e] \in {"idle", "changed"}, OthersStay(e),
           NEW i, i = job[e].to,
           \A k \in Inodes : k \in Used(dir', job', reader') =>
              /\ k \in hurt => k \in hurt'
              /\ k # i => disk'[k] = disk[k],
           i \in Used(dir', job', reader') => i \in hurt' \/ Whole(disk'[i]),
           \/ UNCHANGED dir
           \/ /\ dir'[File] = dir[Tmp] /\ dir'[Tmp] = NoInode
              /\ \A m \in Names \ {File, Tmp} : dir'[m] = dir[m]
              /\ dir[Tmp] \in hurt' \/ Whole(disk'[dir[Tmp]])
              /\ \A x \in Editors : pc[x] = "opened" /\ job[x].to = dir[Tmp] => dir[Tmp] \in hurt'
    PROVE  InodesInv'
<1> USE FileInode DEF Holding
<1>1. /\ \A n \in Names : dir'[n] # NoInode => dir'[n] \in Inodes
      /\ \A x \in Editors : pc'[x] \in Holding => job'[x].to \in Inodes
      /\ \A x \in Editors : pc'[x] = "copying" => job'[x].from \in Inodes
  BY DEF EditingTypeOK, DescriptorsOpen
<1>2. \A x \in Editors : pc'[x] \in Holding =>
          x # e /\ pc'[x] = pc[x] /\ job'[x] = job[x]
  BY DEF OthersStay
<1>3. \A k : InHand(k) => InHand(k)' \/ k = i
  BY DEF InHand, OthersStay
<1>4. \A x \in Editors \ {e} : pc[x] \in Holding /\ job[x].to = i => i \in hurt
  BY DEF InodesInv, OneHand
<1>5. \A k \in Inodes : k \in Used(dir', job', reader') /\ Sound(k) => Sound(k)'
  BY <1>3 DEF Sound
<1>6. OneHand'
  BY <1>1, <1>2, StaysUsed DEF InodesInv, OneHand
<1>7. HandsClean'
  <2>1. \A x \in Editors : pc'[x] = "opened" => Whole(job'[x].bytes)
    BY <1>2 DEF InodesInv, HandsClean
  <2>2. \A x \in Editors : pc'[x] \in Holding /\ job'[x].to \notin hurt' =>
            /\ pc[x] \in Holding /\ job[x].to \notin hurt /\ pc'[x] = pc[x] /\ job'[x] = job[x]
            /\ disk'[job[x].to] = disk[job[x].to]
    BY <1>1, <1>2, <1>4, StaysUsed
  <2>3. \A x \in Editors : pc'[x] = "opened" /\ job'[x].to \notin hurt' =>
            \A n \in Names \ {Tmp} : dir'[n] # job'[x].to
    BY <1>2, <2>2 DEF InodesInv, HandsClean
  <2> QED
    BY <2>1, <2>2, <2>3 DEF InodesInv, HandsClean
<1>8. SavedApart'
  BY <1>1, <1>2 DEF InodesInv, SavedApart
<1>9. NamedSound'
  <2>1. ASSUME NEW n \in Names \ {Tmp}, dir'[n] # NoInode
        PROVE  dir'[n] \in hurt' \/ InHand(dir[n])' \/ Whole(disk'[dir'[n]])
    <3>1. CASE n = File /\ dir'[File] = dir[Tmp]
              /\ (dir[Tmp] \in hurt' \/ Whole(disk'[dir[Tmp]]))
      BY <3>1
    <3>2. CASE dir'[n] = dir[n]
      <4>1. PICK k : k = dir[n]
        OBVIOUS
      <4>2. Sound(k) /\ k \in Inodes /\ k \in Used(dir', job', reader')
        BY <1>1, <2>1, <3>2, <4>1, StaysUsed DEF InodesInv, NamedSound
      <4>3. Sound(k)' /\ k = dir'[n]
        BY <1>5, <3>2, <4>1, <4>2
      <4> QED
        BY <4>3 DEF Sound, InHand
    <3> QED
      BY <2>1, <3>1, <3>2
  <2>2. ASSUME NEW x \in Editors, pc'[x] = "copying" PROVE Sound(job[x].from)'
    <3>1. PICK k : k = job[x].from
      OBVIOUS
    <3>2. Sound(k) /\ k \in Inodes /\ k \in Used(dir', job', reader') /\ k = job'[x].from
      BY <1>1, <1>2, <2>2, <3>1, StaysUsed DEF InodesInv, NamedSound
    <3>3. Sound(k)'
      BY <1>5, <3>2
    <3> QED
      BY <3>2, <3>3 DEF Sound, InHand
  <2> QED
    BY <2>1, <2>2 DEF NamedSound, Sound
<1>10. TmpReady'
  <2>1. CASE dir'[Tmp] = NoInode
    BY <2>1 DEF TmpReady
  <2>2. CASE UNCHANGED dir /\ dir'[Tmp] # NoInode
    <3>1. PICK t : t = dir[Tmp]
      OBVIOUS
    <3>2. t = dir'[Tmp] /\ t # NoInode /\ t \in Inodes /\ t \in Used(dir', job', reader')
      BY <1>1, <2>2, <3>1, StaysUsed
    <3>3. ASSUME NEW x \in Editors, pc'[x] \in {"opened", "written"}
          PROVE  pc[x] \in {"opened", "written"}
      BY <1>2, <3>3
    <3>4. ASSUME \E x \in Editors : pc[x] \in {"opened", "written"}
          PROVE  \/ t \in hurt \/ Whole(disk[t])
                 \/ \E x \in Editors \ {e} : pc[x] = "opened" /\ job[x].to = t
      BY <3>1, <3>2, <3>4 DEF InodesInv, TmpReady
    <3>5. ASSUME \E x \in Editors : pc[x] \in {"opened", "written"}
          PROVE  \/ t \in hurt' \/ Whole(disk'[t])
                 \/ \E x \in Editors : pc'[x] = "opened" /\ job'[x].to = t
      BY <3>2, <3>4, <3>5 DEF OthersStay
    <3> QED
      BY <3>2, <3>3, <3>5 DEF TmpReady
  <2> QED
    BY <2>1, <2>2
<1> QED
  BY <1>6, <1>7, <1>8, <1>9, <1>10 DEF InodesInv

\* A rename, a copy or a save that ends.
LEMMA LeavingKeeps ==
    ASSUME EditingTypeOK, DescriptorsOpen, InodesInv, NEW e \in Editors,
           RenameTmp(e) \/ RenameFails(e) \/ EndCopy(e) \/ CopyFails(e) \/ EndSave(e)
    PROVE  InodesInv'
<1> USE FileInode DEF Holding
<1>0. PICK i : i = job[e].to
  OBVIOUS
<1>1. job[e].bytes \in Bytes /\ disk \in [Inodes -> Bytes]
  BY DEF EditingTypeOK, Jobs
<1>2. pc[e] = "written" => i \in hurt \/ Whole(disk[i])
  BY <1>0 DEF InodesInv, HandsClean
<1>3. ASSUME RenameTmp(e) PROVE InodesInv'
  <2>0. PICK t : t = dir[Tmp]
    OBVIOUS
  <2>1. /\ pc[e] = "written" /\ t \in Inodes
        /\ dir'[File] = t /\ dir'[Tmp] = NoInode
        /\ \A m \in Names \ {File, Tmp} : dir'[m] = dir[m]
        /\ pc'[e] = "changed" /\ OthersStay(e)
        /\ disk'[t] = disk[t]
        /\ (t \in hurt' <=> t \in hurt \union Unfinished)
        /\ StayBut({t})
        /\ EditingTypeOK' /\ DescriptorsOpen'
    BY <1>3, <2>0, RenameTmpOutcome
  <2>2. \A k \in Inodes : k \in Used(dir', job', reader') =>
            (k \in hurt => k \in hurt') /\ disk'[k] = disk[k]
    BY <2>1 DEF StayBut
  <2>3. i \in Used(dir', job', reader') => i \in hurt' \/ Whole(disk'[i])
    <3>1. i \in Inodes
      BY <1>0, <2>1 DEF DescriptorsOpen
    <3> QED
      BY <1>2, <2>1, <2>2, <3>1
  <2>4. \A x \in Editors : pc[x] = "opened" /\ job[x].to = t => t \in hurt'
    BY <2>0, <2>1 DEF Unfinished
  <2>5. t \in hurt' \/ Whole(disk'[t])
    <3>1. t \in hurt \/ Whole(disk[t]) \/ \E x \in Editors : pc[x] = "opened" /\ job[x].to = t
      BY <2>0, <2>1 DEF InodesInv, TmpReady
    <3> QED
      BY <2>1, <2>4, <3>1
  <2> QED
    BY <1>0, <2>0, <2>1, <2>2, <2>3, <2>4, <2>5, LeavesKeeps
<1>4. ASSUME RenameFails(e) PROVE InodesInv'
  <2>1. /\ pc[e] = "written" /\ pc'[e] = "idle" /\ OthersStay(e)
        /\ StayBut({}) /\ UNCHANGED dir /\ EditingTypeOK' /\ DescriptorsOpen'
    BY <1>4, RenameFailsOutcome
  <2>2. \A k \in Inodes : k \in Used(dir', job', reader') =>
            (k \in hurt => k \in hurt') /\ disk'[k] = disk[k]
    BY <2>1 DEF StayBut
  <2>3. i \in Used(dir', job', reader') => i \in hurt' \/ Whole(disk'[i])
    <3>1. i \in Inodes
      BY <1>0, <2>1 DEF DescriptorsOpen
    <3> QED
      BY <1>2, <2>1, <2>2, <3>1
  <2> QED
    BY <1>0, <2>1, <2>2, <2>3, LeavesKeeps
<1>5. ASSUME EndCopy(e) PROVE InodesInv'
  <2>0. PICK k : k = job[e].from
    OBVIOUS
  <2>1. /\ pc[e] = "copying" /\ i \in Inodes /\ k \in Inodes
        /\ pc'[e] = "changed" /\ OthersStay(e)
        /\ i \in Used(dir', job', reader') =>
              /\ disk'[i] = Over(disk[i], disk[k])
              /\ i \in hurt' <=> i \in hurt \/ Doubtful(k)
        /\ StayBut({i}) /\ UNCHANGED dir
        /\ EditingTypeOK' /\ DescriptorsOpen'
    BY <1>0, <1>5, <2>0, EndCopyOutcome
  <2>2. \A x \in Inodes : x \in Used(dir', job', reader') =>
            (x \in hurt => x \in hurt') /\ (x # i => disk'[x] = disk[x])
    BY <2>1 DEF StayBut
  <2>3. i \in Used(dir', job', reader') => i \in hurt' \/ Whole(disk'[i])
    <3>1. i \notin hurt => disk[i] = Empty
      BY <1>0, <2>1 DEF InodesInv, HandsClean
    <3>2. ~Doubtful(k) => Whole(disk[k])
      BY <2>0, <2>1 DEF InodesInv, NamedSound, Sound, Doubtful
    <3> QED
      BY <1>1, <2>1, <3>1, <3>2, EditingContents
  <2> QED
    BY <1>0, <2>1, <2>2, <2>3, LeavesKeeps
<1>6. ASSUME CopyFails(e) PROVE InodesInv'
  <2>1. /\ pc[e] = "copying" /\ i \in Inodes /\ pc'[e] = "idle" /\ OthersStay(e)
        /\ i \in Used(dir', job', reader') => disk'[i] = disk[i] /\ i \in hurt'
        /\ StayBut({i}) /\ UNCHANGED dir /\ EditingTypeOK' /\ DescriptorsOpen'
    BY <1>0, <1>6, CopyFailsOutcome
  <2>2. \A k \in Inodes : k \in Used(dir', job', reader') =>
            (k \in hurt => k \in hurt') /\ disk'[k] = disk[k]
    BY <2>1 DEF StayBut
  <2> QED
    BY <1>0, <2>1, <2>2, LeavesKeeps
<1>7. ASSUME EndSave(e) PROVE InodesInv'
  <2>1. /\ pc[e] = "saving" /\ i \in Inodes /\ pc'[e] = "idle" /\ OthersStay(e)
        /\ i \in Used(dir', job', reader') =>
              \/ disk'[i] = Over(disk[i], job[e].bytes) /\ (i \in hurt' <=> i \in hurt)
              \/ i \in hurt'
        /\ StayBut({i}) /\ UNCHANGED dir /\ EditingTypeOK' /\ DescriptorsOpen'
    BY <1>0, <1>7, EndSaveOutcome
  <2>2. \A k \in Inodes : k \in Used(dir', job', reader') =>
            (k \in hurt => k \in hurt') /\ (k # i => disk'[k] = disk[k])
    BY <2>1 DEF StayBut
  <2>3. i \in Used(dir', job', reader') => i \in hurt' \/ Whole(disk'[i])
    <3>1. i \notin hurt => disk[i] = Empty /\ Whole(job[e].bytes)
      BY <1>0, <2>1 DEF InodesInv, HandsClean
    <3> QED
      BY <1>1, <2>1, <3>1, EditingContents
  <2> QED
    BY <1>0, <2>1, <2>2, <2>3, LeavesKeeps
<1> QED
  BY <1>3, <1>4, <1>5, <1>6, <1>7

\* A request that truncates an inode i and has it in hand; no other name than
\* that of i changes.
LEMMA TakesKeeps ==
    ASSUME EditingTypeOK, DescriptorsOpen, InodesInv, EditingTypeOK', DescriptorsOpen',
           NEW e \in Editors, pc[e] = "idle", pc'[e] \in {"copying", "saving"}, OthersStay(e),
           NEW i \in Inodes, job'[e].to = i, disk'[i] = Empty, InHand(i) => i \in hurt',
           StayBut({i}),
           dir[Tmp] # i,
           \A n \in Names : dir'[n] = dir[n] \/ (n \in Sources /\ dir'[n] = i),
           pc'[e] = "saving" => dir[File] # i,
           pc'[e] = "saving" /\ i \notin hurt' => Whole(job'[e].bytes),
           pc'[e] = "copying" => Sound(job'[e].from) /\ job'[e].from # i
    PROVE  InodesInv'
<1> USE FileInode DEF Holding
<1>2. /\ \A n \in Names : dir'[n] # NoInode => dir'[n] = i \/ SameInode(dir'[n])
      /\ \A x \in Editors : pc'[x] \in Holding => job'[x].to = i \/ SameInode(job'[x].to)
      /\ \A x \in Editors : pc'[x] = "copying" => job'[x].from = i \/ SameInode(job'[x].from)
      /\ \A x \in Editors : pc'[x] \in Holding => job'[x].to \in Inodes
  BY StillThere
<1>3. \A x \in Editors \ {e} : pc[x] \in Holding /\ job[x].to = i => i \in hurt'
  BY DEF InHand
<1>4. \A k : InHand(k) => InHand(k)'
  BY DEF InHand, OthersStay
<1>5. OneHand'
  BY <1>2, <1>3 DEF InodesInv, OneHand, OthersStay, SameInode
<1>6. HandsClean'
  <2>1. \A x \in Editors \ {e} : pc'[x] = "opened" => Whole(job'[x].bytes)
    BY DEF InodesInv, HandsClean, OthersStay
  <2>2. \A x \in Editors \ {e} : pc'[x] \in Holding /\ job'[x].to \notin hurt' =>
            /\ pc[x] \in Holding /\ job[x].to \notin hurt /\ pc'[x] = pc[x] /\ job'[x] = job[x]
            /\ job'[x].to # i /\ disk'[job[x].to] = disk[job[x].to]
    BY <1>2, <1>3 DEF OthersStay, SameInode
  <2>3. \A x \in Editors : pc'[x] = "opened" /\ job'[x].to \notin hurt' =>
            \A n \in Names \ {Tmp} : dir'[n] # job'[x].to
    BY <2>2 DEF InodesInv, HandsClean
  <2> QED
    BY <2>1, <2>2, <2>3 DEF InodesInv, HandsClean
<1>7. SavedApart'
  BY DEF InodesInv, SavedApart, OthersStay
<1>8. NamedSound'
  <2>1. InHand(i)'
    BY DEF InHand
  <2>2. job'[e].from # i /\ pc'[e] = "copying" => Sound(job[e].from)'
    BY <1>2, <1>4 DEF Sound, SameInode
  <2>3. ASSUME NEW n \in Names \ {Tmp}, dir'[n] # NoInode PROVE Sound(dir[n])'
    BY <1>2, <1>4, <2>1, <2>3 DEF InodesInv, NamedSound, Sound, SameInode
  <2>4. ASSUME NEW x \in Editors, pc'[x] = "copying" PROVE Sound(job[x].from)'
    BY <1>2, <1>4, <2>1, <2>2, <2>4 DEF InodesInv, NamedSound, Sound, SameInode, OthersStay
  <2> QED
    BY <2>3, <2>4 DEF NamedSound
<1>9. TmpReady'
  <2>1. dir'[Tmp] = dir[Tmp]
    OBVIOUS
  <2> QED
    BY <1>2, <2>1 DEF InodesInv, TmpReady, SameInode, OthersStay
<1> QED
  BY <1>5, <1>6, <1>7, <1>8, <1>9 DEF InodesInv

\* A copy that begins.
LEMMA BeginCopyKeeps ==
    ASSUME EditingTypeOK, DescriptorsOpen, InodesInv,
           NEW e \in Editors, NEW s \in Sources, BeginCopy(e, s)
    PROVE  InodesInv'
<1> USE FileInode
<1>0. PICK i : i = dir[File]
  OBVIOUS
<1>1. /\ pc[e] = "idle" /\ i \in Inodes /\ dir[s] # NoInode
      /\ pc'[e] = "copying" /\ job'[e].to = i /\ job'[e].from = dir[s] /\ OthersStay(e)
      /\ disk'[i] = Empty /\ (i \in hurt' <=> InHand(i)) /\ StayBut({i})
      /\ UNCHANGED dir
      /\ EditingTypeOK' /\ DescriptorsOpen'
  BY <1>0, BeginCopyOutcome
<1>2. dir[Tmp] # i /\ dir[s] # i
  BY <1>0, <1>1 DEF EditingTypeOK
<1>3. Sound(job'[e].from) /\ job'[e].from # i
  BY <1>1, <1>2 DEF InodesInv, NamedSound
<1> QED
  BY <1>1, <1>2, <1>3, TakesKeeps

\* A save that begins: what it has read of the file is whole, unless the file is
\* doubtful.
LEMMA BeginSaveKeeps ==
    ASSUME EditingTypeOK, DescriptorsOpen, InodesInv, NEW e \in Editors, NEW s \in Sources,
           NEW bytes \in {Content(c) : c \in Contents} \union {disk[dir[File]]},
           BeginSave(e, s, bytes)
    PROVE  InodesInv'
<1> USE FileInode
<1>0. bytes \in Bytes
  BY EditingContents DEF EditingTypeOK
<1>1. PICK i \in Inodes :
          /\ pc[e] = "idle" /\ Opens(s, i)
          /\ dir'[s] = i /\ \A m \in Names \ {s} : dir'[m] = dir[m]
          /\ pc'[e] = "saving" /\ job'[e].to = i /\ job'[e].bytes = bytes
          /\ OthersStay(e)
          /\ disk'[i] = Empty
          /\ (i \in hurt' <=> InHand(i) \/ (~Whole(bytes) /\ Doubtful(dir[File])))
          /\ StayBut({i})
          /\ UNCHANGED <<reader, cache, late, excused>>
          /\ EditingTypeOK' /\ DescriptorsOpen'
  BY <1>0, BeginSaveOutcome, Zenon
<1>2. dir[Tmp] # i /\ dir[File] # i
  BY <1>1, OpensOutcome
<1>3. i \notin hurt' => Whole(bytes)
  <2>1. CASE bytes \in {Content(c) : c \in Contents}
    BY <2>1, ContentWhole
  <2>2. CASE bytes = disk[dir[File]]
    <3>1. Sound(dir[File])
      BY DEF InodesInv, NamedSound
    <3> QED
      BY <1>1, <2>2, <3>1 DEF Sound, Doubtful
  <2> QED
    BY <2>1, <2>2
<1> QED
  BY <1>1, <1>2, <1>3, TakesKeeps

\* No request moves, and no inode in use changes.
LEMMA QuietKeeps ==
    ASSUME EditingTypeOK, DescriptorsOpen, InodesInv, EditingTypeOK', DescriptorsOpen',
           \A x \in Editors : \/ pc'[x] = pc[x] /\ job'[x] = job[x]
                              \/ pc[x] \notin Holding /\ pc'[x] \notin Holding,
           \A n \in Names : dir'[n] = dir[n] \/ (n \in Sources /\ dir'[n] = NoInode),
           StayBut({})
    PROVE  InodesInv'
<1> USE FileInode DEF Holding
<1>2. /\ \A n \in Names : dir'[n] # NoInode => SameInode(dir[n]) /\ dir'[n] = dir[n]
      /\ \A x \in Editors : pc'[x] \in Holding => SameInode(job[x].to) /\ job'[x].to \in Inodes
      /\ \A x \in Editors : pc'[x] = "copying" => SameInode(job[x].from)
  BY StillThere
<1>3. \A x \in Editors : pc'[x] \in Holding => pc'[x] = pc[x] /\ job'[x] = job[x]
  OBVIOUS
<1>4. \A k : InHand(k) => InHand(k)'
  BY DEF InHand
<1>5. OneHand'
  BY <1>2, <1>3 DEF InodesInv, OneHand, SameInode
<1>6. HandsClean'
  <2>1. \A x \in Editors : pc'[x] = "opened" => Whole(job'[x].bytes)
    BY <1>3 DEF InodesInv, HandsClean
  <2>2. \A x \in Editors : pc'[x] \in Holding /\ job'[x].to \notin hurt' =>
            /\ job[x].to \notin hurt /\ disk'[job[x].to] = disk[job[x].to]
    BY <1>2, <1>3 DEF SameInode
  <2>3. \A x \in Editors : pc'[x] = "opened" /\ job'[x].to \notin hurt' =>
            \A n \in Names \ {Tmp} : dir'[n] # job'[x].to
    BY <1>2, <1>3, <2>2 DEF InodesInv, HandsClean
  <2> QED
    BY <1>3, <2>1, <2>2, <2>3 DEF InodesInv, HandsClean
<1>7. SavedApart'
  BY <1>3 DEF InodesInv, SavedApart
<1>8. NamedSound'
  <2>1. ASSUME NEW n \in Names \ {Tmp}, dir'[n] # NoInode PROVE Sound(dir[n])'
    BY <1>2, <1>4, <2>1 DEF InodesInv, NamedSound, Sound, SameInode
  <2>2. ASSUME NEW x \in Editors, pc'[x] = "copying" PROVE Sound(job[x].from)'
    BY <1>2, <1>3, <1>4, <2>2 DEF InodesInv, NamedSound, Sound, SameInode
  <2> QED
    BY <2>1, <2>2 DEF NamedSound
<1>9. TmpReady'
  BY <1>2, <1>3 DEF InodesInv, TmpReady, SameInode
<1> QED
  BY <1>5, <1>6, <1>7, <1>8, <1>9 DEF InodesInv

\* A crash leaves what is whole or hurt: an inode that was only opened is not the
\* file.
LEMMA CrashKeeps ==
    ASSUME EditingTypeOK, DescriptorsOpen, InodesInv, Crash
    PROVE  InodesInv'
<1> USE FileInode DEF Holding
<1>1. /\ \A e \in Editors : pc'[e] = "idle"
      /\ \A i \in Inodes : i \in Used(dir', job', reader') =>
            disk'[i] = disk[i] /\ (i \in hurt' <=> i \in hurt \union CutOff)
      /\ UNCHANGED dir
  BY CrashOutcome
<1>2. ASSUME NEW n \in Names \ {Tmp}, dir[n] # NoInode
      PROVE  dir'[n] \in hurt' \/ Whole(disk'[dir'[n]])
  <2>0. PICK k : k = dir[n]
    OBVIOUS
  <2>1. k \in Inodes /\ k \in Used(dir', job', reader') /\ Sound(k)
    BY <1>1, <1>2, <2>0, StaysUsed DEF EditingTypeOK, InodesInv, NamedSound
  <2>2. ASSUME NEW e \in Editors, pc[e] \in Holding, job[e].to = k
        PROVE  k \in hurt \/ k \in CutOff \/ Whole(disk[k])
    <3>1. CASE pc[e] = "opened"
      BY <1>2, <2>0, <2>2, <3>1 DEF InodesInv, HandsClean
    <3>2. CASE pc[e] = "written"
      BY <2>2, <3>2 DEF InodesInv, HandsClean
    <3>3. CASE pc[e] \in {"copying", "saving"}
      BY <2>2, <3>3 DEF CutOff
    <3> QED
      BY <2>2, <3>1, <3>2, <3>3
  <2>3. k \in hurt \/ k \in CutOff \/ Whole(disk[k])
    BY <2>1, <2>2 DEF Sound, InHand
  <2> QED
    BY <1>1, <2>0, <2>1, <2>3
<1>3. NamedSound'
  BY <1>1, <1>2 DEF NamedSound, Sound
<1>4. OneHand' /\ HandsClean' /\ SavedApart' /\ TmpReady'
  BY <1>1 DEF OneHand, HandsClean, SavedApart, TmpReady
<1> QED
  BY <1>3, <1>4 DEF InodesInv


-----------------------------------------------------------------------------
(* Readers that are not late read the file, and what is cached is what the *)
(* file holds.                                                             *)

FileSame == dir'[File] = dir[File] /\ disk'[dir[File]] = disk[dir[File]]

\* A step that leaves the inode of the file leaves the file.
LEMMA FileStays ==
    ASSUME EditingTypeOK, NEW S, StayBut(S), dir[File] \notin S, dir'[File] = dir[File]
    PROVE  FileSame
<1>1. dir[File] \in Inodes /\ dir[File] \in Used(dir', job', reader')
  BY FileInode, StaysUsed
<1> QED
  BY <1>1 DEF FileSame, StayBut

\* Why a block that is not what the file holds may be cached: a request that
\* will drop it.
WillDrop(e, b) ==
    \/ pc[e] = "copying"
    \/ pc[e] = "changed" /\ b \in job[e].todo
    \/ pc[e] = "written" /\ job[e].to = dir[File]

\* The readers do not move, and either the file did not change or all are late.
LEMMA ReadersWait ==
    ASSUME ReadersCurrent, UNCHANGED reader,
           (FileSame /\ UNCHANGED late) \/ Open \subseteq late'
    PROVE  ReadersCurrent'
BY DEF ReadersCurrent, FileSame, Open

\* A change of the file makes every open reader late.
LEMMA ChangesReaders ==
    ASSUME EditingTypeOK, ReadersCurrent, UNCHANGED reader, NEW really \in BOOLEAN,
           Changes(really), ~really => FileSame
    PROVE  ReadersCurrent'
<1>1. CASE really
  BY <1>1, ReadersWait DEF Changes
<1>2. CASE ~really
  BY <1>2, ReadersWait DEF Changes
<1> QED
  BY <1>1, <1>2

\* The cache does not change: the file does not either, and the request had
\* nothing to drop.
LEMMA BlocksWait ==
    ASSUME BlocksCurrent, UNCHANGED <<cache, excused>>, FileSame,
           NEW e \in Editors, OthersStay(e), \A b \in Blocks : ~WillDrop(e, b)
    PROVE  BlocksCurrent'
<1>1. ASSUME NEW b \in Blocks
      PROVE  \/ cache'[b] \in {Hole, disk'[dir'[File]][b]}
             \/ b \in excused'
             \/ \E x \in Editors : WillDrop(x, b)'
  <2>1. CASE cache[b] \in {Hole, disk[dir[File]][b]} \/ b \in excused
    BY <2>1 DEF FileSame
  <2>2. CASE \E x \in Editors : WillDrop(x, b)
    <3>1. PICK x \in Editors \ {e} : WillDrop(x, b)
      BY <2>2
    <3>2. WillDrop(x, b)'
      BY <3>1 DEF WillDrop, OthersStay, FileSame
    <3> QED
      BY <3>2
  <2> QED
    BY <2>1, <2>2 DEF BlocksCurrent, WillDrop
<1> QED
  BY <1>1 DEF BlocksCurrent, WillDrop

\* A request that will drop every block.
LEMMA BlocksDropped ==
    ASSUME NEW e \in Editors, \A b \in Blocks : WillDrop(e, b)'
    PROVE  BlocksCurrent'
BY DEF BlocksCurrent, WillDrop

\* A request that fails after it has changed the file.
LEMMA BlocksExcused ==
    ASSUME Unannounced(TRUE), UNCHANGED cache
    PROVE  BlocksCurrent'
BY DEF BlocksCurrent, Unannounced

CacheInv == ReadersCurrent /\ BlocksCurrent

\* The steps of requests that change files.
LEMMA EditsCache ==
    ASSUME EditingTypeOK, DescriptorsOpen, InodesInv, CacheInv, NEW e \in Editors
    PROVE  /\ \A c \in Contents : OpenTmp(e, c) => CacheInv'
           /\ WriteTmp(e) => CacheInv'
           /\ RenameTmp(e) => CacheInv'
           /\ RenameFails(e) => CacheInv'
           /\ \A s \in Sources : BeginCopy(e, s) => CacheInv'
           /\ EndCopy(e) => CacheInv'
           /\ CopyFails(e) => CacheInv'
           /\ \A s \in Sources, bytes \in Bytes : BeginSave(e, s, bytes) => CacheInv'
           /\ EndSave(e) => CacheInv'
<1> USE FileInode DEF CacheInv
<1>0. PICK i : i = job[e].to
  OBVIOUS
<1>1. ASSUME NEW c \in Contents, OpenTmp(e, c) PROVE CacheInv'
  <2>1. PICK k \in Inodes :
              /\ pc[e] = "idle" /\ Opens(Tmp, k)
              /\ dir'[Tmp] = k /\ \A m \in Names \ {Tmp} : dir'[m] = dir[m]
              /\ pc'[e] = "opened" /\ job'[e].to = k /\ job'[e].bytes = Content(c)
              /\ OthersStay(e)
              /\ disk'[k] = Empty /\ (k \in hurt' <=> InHand(k)) /\ StayBut({k})
              /\ UNCHANGED <<reader, cache, late, excused>>
              /\ EditingTypeOK' /\ DescriptorsOpen'
    BY <1>1, OpenTmpOutcome, Zenon
  <2>2. FileSame
    BY <2>1, OpensOutcome, FileStays
  <2>3. \A b \in Blocks : ~WillDrop(e, b)
    BY <2>1 DEF WillDrop
  <2> QED
    BY <2>1, <2>2, <2>3, ReadersWait, BlocksWait
<1>2. ASSUME WriteTmp(e) PROVE CacheInv'
  <2>1. /\ pc[e] = "opened" /\ pc'[e] = "written" /\ job'[e].to = i /\ OthersStay(e)
        /\ StayBut({i}) /\ Changes(i = dir[File])
        /\ UNCHANGED <<dir, reader, cache, excused>>
    BY <1>0, <1>2, WriteTmpOutcome
  <2>2. i # dir[File] => FileSame
    BY <2>1, FileStays
  <2>3. ReadersCurrent'
    BY <2>1, <2>2, ChangesReaders
  <2>4. BlocksCurrent'
    <3>1. CASE i = dir[File]
      <4>1. \A b \in Blocks : WillDrop(e, b)'
        BY <2>1, <3>1 DEF WillDrop
      <4> QED
        BY <4>1, BlocksDropped
    <3>2. CASE i # dir[File]
      <4>1. \A b \in Blocks : ~WillDrop(e, b)
        BY <2>1 DEF WillDrop
      <4> QED
        BY <2>1, <2>2, <3>2, <4>1, BlocksWait
    <3> QED
      BY <3>1, <3>2
  <2> QED
    BY <2>3, <2>4
<1>3. ASSUME RenameTmp(e) PROVE CacheInv'
  <2>1. pc'[e] = "changed" /\ job'[e].todo = Blocks /\ Changes(TRUE) /\ UNCHANGED reader
    BY <1>3, RenameTmpOutcome
  <2>2. \A b \in Blocks : WillDrop(e, b)'
    BY <2>1 DEF WillDrop
  <2> QED
    BY <2>1, <2>2, ChangesReaders, BlocksDropped
<1>4. ASSUME RenameFails(e) PROVE CacheInv'
  <2>1. /\ pc[e] = "written" /\ OthersStay(e) /\ StayBut({})
        /\ Unannounced(i = dir[File]) /\ UNCHANGED <<dir, reader, cache, late>>
    BY <1>0, <1>4, RenameFailsOutcome
  <2>2. FileSame
    BY <2>1, FileStays
  <2>3. BlocksCurrent'
    <3>1. CASE i = dir[File]
      <4>1. Unannounced(TRUE)
        BY <2>1, <3>1
      <4> QED
        BY <2>1, <4>1, BlocksExcused
    <3>2. CASE i # dir[File]
      <4>1. \A b \in Blocks : ~WillDrop(e, b)
        BY <1>0, <2>1, <3>2 DEF WillDrop
      <4>2. UNCHANGED excused
        BY <2>1, <3>2 DEF Unannounced
      <4> QED
        BY <2>1, <2>2, <4>1, <4>2, BlocksWait
    <3> QED
      BY <3>1, <3>2
  <2> QED
    BY <2>1, <2>2, <2>3, ReadersWait
<1>5. ASSUME NEW s \in Sources, BeginCopy(e, s) PROVE CacheInv'
  <2>1. pc'[e] = "copying" /\ Changes(TRUE) /\ UNCHANGED reader
    BY <1>5, BeginCopyOutcome
  <2>2. \A b \in Blocks : WillDrop(e, b)'
    BY <2>1 DEF WillDrop
  <2> QED
    BY <2>1, <2>2, ChangesReaders, BlocksDropped
<1>6. ASSUME EndCopy(e) PROVE CacheInv'
  <2>1. /\ pc'[e] = "changed" /\ job'[e].todo = Blocks /\ Changes(i = dir[File])
        /\ StayBut({i}) /\ UNCHANGED <<dir, reader>>
    BY <1>0, <1>6, EndCopyOutcome
  <2>2. i # dir[File] => FileSame
    BY <2>1, FileStays
  <2>3. \A b \in Blocks : WillDrop(e, b)'
    BY <2>1 DEF WillDrop
  <2> QED
    BY <2>1, <2>2, <2>3, ChangesReaders, BlocksDropped
<1>7. ASSUME CopyFails(e) PROVE CacheInv'
  <2>1. /\ Unannounced(TRUE) /\ StayBut({i}) /\ UNCHANGED <<dir, reader, cache, late>>
        /\ i \in Used(dir', job', reader') => disk'[i] = disk[i] /\ i \in hurt'
    BY <1>0, <1>7, CopyFailsOutcome
  <2>2. FileSame
    BY <2>1, FileStays, StaysUsed DEF FileSame
  <2>3. BlocksCurrent'
    BY <2>1, BlocksExcused
  <2> QED
    BY <2>1, <2>2, <2>3, ReadersWait
<1>8. ASSUME NEW s \in Sources, NEW bytes \in Bytes, BeginSave(e, s, bytes) PROVE CacheInv'
  <2>1. PICK k \in Inodes :
              /\ pc[e] = "idle" /\ Opens(s, k)
              /\ dir'[s] = k /\ \A m \in Names \ {s} : dir'[m] = dir[m]
              /\ pc'[e] = "saving" /\ job'[e].to = k /\ job'[e].bytes = bytes
              /\ OthersStay(e)
              /\ disk'[k] = Empty
              /\ (k \in hurt' <=> InHand(k) \/ (~Whole(bytes) /\ Doubtful(dir[File])))
              /\ StayBut({k})
              /\ UNCHANGED <<reader, cache, late, excused>>
              /\ EditingTypeOK' /\ DescriptorsOpen'
    BY <1>8, BeginSaveOutcome, Zenon
  <2>2. FileSame
    BY <2>1, OpensOutcome, FileStays
  <2>3. \A b \in Blocks : ~WillDrop(e, b)
    BY <2>1 DEF WillDrop
  <2> QED
    BY <2>1, <2>2, <2>3, ReadersWait, BlocksWait
<1>9. ASSUME EndSave(e) PROVE CacheInv'
  <2>1. /\ pc[e] = "saving" /\ OthersStay(e) /\ StayBut({i})
        /\ UNCHANGED <<dir, reader, cache, late, excused>>
    BY <1>0, <1>9, EndSaveOutcome
  <2>2. i # dir[File]
    BY <1>0, <2>1 DEF InodesInv, SavedApart
  <2>3. FileSame
    BY <2>1, <2>2, FileStays
  <2>4. \A b \in Blocks : ~WillDrop(e, b)
    BY <2>1 DEF WillDrop
  <2> QED
    BY <2>1, <2>3, <2>4, ReadersWait, BlocksWait
<1> QED
  BY <1>1, <1>2, <1>3, <1>4, <1>5, <1>6, <1>7, <1>8, <1>9

\* A request still drops the blocks that it has not reached.
LEMMA InvalidateCache ==
    ASSUME EditingTypeOK, DescriptorsOpen, CacheInv,
           NEW e \in Editors, NEW b \in Blocks, InvalidateBlock(e, b)
    PROVE  CacheInv'
<1> USE DEF CacheInv
<1>1. /\ pc[e] = "changed" /\ OthersStay(e)
      /\ \/ pc'[e] = "idle" /\ job[e].todo \subseteq {b}
         \/ pc'[e] = "changed" /\ job'[e].todo = job[e].todo \ {b}
      /\ cache'[b] = Hole /\ \A d \in Blocks \ {b} : cache'[d] = cache[d]
      /\ excused' = excused \ {b}
      /\ UNCHANGED <<dir, disk, hurt, reader, late>>
  BY InvalidateOutcome
<1>2. FileSame
  BY <1>1 DEF FileSame
<1>3. ASSUME NEW d \in Blocks \ {b}, NEW x \in Editors, WillDrop(x, d) PROVE WillDrop(x, d)'
  BY <1>1, <1>3 DEF WillDrop, OthersStay
<1>4. BlocksCurrent'
  BY <1>1, <1>3 DEF BlocksCurrent, WillDrop
<1> QED
  BY <1>1, <1>2, <1>4, ReadersWait

\* A source is not the file.
LEMMA DiscardCache ==
    ASSUME EditingTypeOK, DescriptorsOpen, CacheInv, NEW s \in Sources, Discard(s)
    PROVE  CacheInv'
<1>1. /\ dir'[File] = dir[File] /\ StayBut({})
      /\ UNCHANGED <<pc, job, reader, cache, late, excused>>
  BY DiscardOutcome, FileInode
<1>2. FileSame
  BY <1>1, FileStays
<1>3. BlocksCurrent'
  BY <1>1, <1>2 DEF CacheInv, BlocksCurrent, FileSame
<1> QED
  BY <1>1, <1>2, <1>3, ReadersWait DEF CacheInv

\* A block that is not cached is current.
LEMMA ForgetCache ==
    ASSUME EditingTypeOK, DescriptorsOpen, CacheInv, NEW b \in Blocks, Forget(b)
    PROVE  CacheInv'
<1>1. /\ UNCHANGED <<dir, pc, job, reader, late>> /\ StayBut({})
      /\ cache'[b] = Hole /\ \A d \in Blocks \ {b} : cache'[d] = cache[d]
      /\ excused' = excused \ {b}
  BY ForgetOutcome
<1>2. FileSame
  BY <1>1, FileStays
<1>3. BlocksCurrent'
  BY <1>1, <1>2 DEF CacheInv, BlocksCurrent, FileSame
<1> QED
  BY <1>1, <1>2, <1>3, ReadersWait DEF CacheInv

\* Nothing is cached after a crash.
LEMMA CrashCache ==
    ASSUME EditingTypeOK, DescriptorsOpen, Crash
    PROVE  CacheInv'
BY CrashOutcome DEF CacheInv, ReadersCurrent, BlocksCurrent

\* What a reader puts is what the file holds, or the reader is late.
LEMMA ReadCache ==
    ASSUME EditingTypeOK, DescriptorsOpen, CacheInv, NEW r \in Readers, Read(r)
    PROVE  CacheInv'
<1>1. /\ UNCHANGED <<dir, pc, job>> /\ StayBut({}) /\ OneMoves(r)
      /\ \/ UNCHANGED <<cache, excused>>
         \/ LET b == reader[r].block
            IN /\ reader[r].at \in {"missed", "loaded"} /\ b \in Blocks
               /\ cache'[b] = reader[r].data
               /\ \A d \in Blocks \ {b} : cache'[d] = cache[d]
               /\ excused' = IF r \in late THEN excused \union {b} ELSE excused \ {b}
  BY ReadOutcome
<1>2. FileSame
  BY <1>1, FileStays
<1>3. ReadersCurrent'
  <2>1. ASSUME NEW x \in Readers \ {r}, reader'[x].at # "idle", x \notin late'
        PROVE  /\ reader'[x].fd = dir'[File]
               /\ reader'[x].at \in {"missed", "loaded"} =>
                     reader'[x].data = disk'[dir'[File]][reader'[x].block]
    BY <1>1, <1>2, <2>1 DEF OneMoves, CacheInv, ReadersCurrent, FileSame
  <2>2. ASSUME reader'[r].at # "idle", r \notin late'
        PROVE  /\ reader'[r].fd = dir'[File]
               /\ reader'[r].at \in {"missed", "loaded"} =>
                     reader'[r].data = disk'[dir'[File]][reader'[r].block]
    BY <1>1, <1>2, <2>2 DEF OneMoves, CacheInv, ReadersCurrent, FileSame
  <2> QED
    BY <2>1, <2>2 DEF ReadersCurrent
<1>4. BlocksCurrent'
  <2>1. \A x \in Editors, d \in Blocks : WillDrop(x, d) => WillDrop(x, d)'
    BY <1>1 DEF WillDrop
  <2>2. ASSUME NEW d \in Blocks
        PROVE  \/ cache'[d] \in {Hole, disk'[dir'[File]][d]}
               \/ d \in excused'
               \/ \E x \in Editors : WillDrop(x, d)
    <3>1. \/ cache[d] \in {Hole, disk[dir[File]][d]} \/ d \in excused
          \/ \E x \in Editors : WillDrop(x, d)
      BY DEF CacheInv, BlocksCurrent, WillDrop
    <3>2. CASE cache'[d] = cache[d] /\ (d \in excused => d \in excused')
      BY <1>2, <3>1, <3>2 DEF FileSame
    <3>3. CASE /\ reader[r].at \in {"missed", "loaded"} /\ d = reader[r].block
               /\ cache'[d] = reader[r].data /\ (r \in late => d \in excused')
      BY <1>2, <3>3 DEF CacheInv, ReadersCurrent, FileSame
    <3> QED
      BY <1>1, <3>2, <3>3
  <2> QED
    BY <2>1, <2>2 DEF BlocksCurrent, WillDrop
<1> QED
  BY <1>3, <1>4 DEF CacheInv

-----------------------------------------------------------------------------
(* The theorems.                                                           *)

\* The parts of the invariant.
LEMMA EditingInvParts ==
    EditingInv <=> EditingTypeOK /\ DescriptorsOpen /\ InodesInv /\ CacheInv
BY DEF EditingInv, InodesInv, CacheInv

\* The file is whole, and nobody has it open.
LEMMA EditingInvInit == EditingInit => EditingInv
<1> SUFFICES ASSUME EditingInit PROVE EditingInv
  OBVIOUS
<1> USE EditingAssumption DEF EditingInit
<1>1. PICK i \in Inodes, c \in Contents :
          /\ dir = [n \in Names |-> IF n = File THEN i ELSE NoInode]
          /\ disk = [j \in Inodes |-> IF j = i THEN Content(c) ELSE Empty]
  OBVIOUS
<1>2. /\ File \in Names /\ NoInode \notin Inodes
      /\ Content(c) \in Bytes /\ Empty \in Bytes /\ Whole(Content(c))
  BY EditingContents DEF Names, NoInode, Whole
<1>3. dir[File] = i /\ \A n \in Names \ {File} : dir[n] = NoInode
  BY <1>1, <1>2
<1>4. /\ dir \in [Names -> Inodes \union {NoInode}] /\ dir[File] # NoInode
      /\ \A m, n \in Names : m # n /\ dir[m] # NoInode => dir[m] # dir[n]
      /\ disk \in [Inodes -> Bytes] /\ Whole(disk[i])
  BY <1>1, <1>2, <1>3
<1>5. /\ job \in [Editors -> Jobs] /\ reader \in [Readers -> ReaderStates]
      /\ \A r \in Readers : reader[r].at = "idle"
  BY NoJobForm, NoReaderForm
<1>6. /\ pc \in [Editors -> {"idle", "opened", "written", "copying", "saving", "changed"}]
      /\ \A e \in Editors : pc[e] = "idle"
      /\ cache \in [Blocks -> Contents \union {Hole}]
      /\ \A b \in Blocks : cache[b] = Hole
  OBVIOUS
<1>7. EditingTypeOK
  BY <1>4, <1>5, <1>6 DEF EditingTypeOK
<1>8. DescriptorsOpen /\ OneHand /\ HandsClean /\ SavedApart /\ TmpReady
  BY <1>5, <1>6 DEF DescriptorsOpen, OneHand, HandsClean, SavedApart, TmpReady, Holding
<1>9. NamedSound
  BY <1>3, <1>4, <1>6 DEF NamedSound, Sound
<1>10. ReadersCurrent /\ BlocksCurrent
  BY <1>5, <1>6 DEF ReadersCurrent, BlocksCurrent
<1> QED
  BY <1>7, <1>8, <1>9, <1>10 DEF EditingInv

\* A step of a request.
LEMMA EditStep ==
    ASSUME EditingInv, NEW e \in Editors, Edit(e)
    PROVE  EditingInv'
<1>0. EditingTypeOK /\ DescriptorsOpen /\ InodesInv /\ CacheInv
  BY EditingInvParts
<1> DEFINE Kept == EditingTypeOK' /\ DescriptorsOpen' /\ InodesInv' /\ CacheInv'
<1>1. ASSUME NEW c \in Contents, OpenTmp(e, c) PROVE Kept
  BY <1>0, <1>1, OpenTmpOutcome, OpenTmpKeeps, EditsCache
<1>2. ASSUME WriteTmp(e) PROVE Kept
  BY <1>0, <1>2, WriteTmpOutcome, WriteTmpKeeps, EditsCache
<1>3. ASSUME RenameTmp(e) PROVE Kept
  BY <1>0, <1>3, RenameTmpOutcome, LeavingKeeps, EditsCache
<1>4. ASSUME RenameFails(e) PROVE Kept
  BY <1>0, <1>4, RenameFailsOutcome, LeavingKeeps, EditsCache
<1>5. ASSUME NEW s \in Sources, BeginCopy(e, s) PROVE Kept
  BY <1>0, <1>5, BeginCopyOutcome, BeginCopyKeeps, EditsCache
<1>6. ASSUME EndCopy(e) PROVE Kept
  BY <1>0, <1>6, EndCopyOutcome, LeavingKeeps, EditsCache
<1>7. ASSUME CopyFails(e) PROVE Kept
  BY <1>0, <1>7, CopyFailsOutcome, LeavingKeeps, EditsCache
<1>8. ASSUME NEW b \in Blocks, InvalidateBlock(e, b) PROVE Kept
  <2>1. /\ pc[e] = "changed" /\ OthersStay(e) /\ pc'[e] \in {"idle", "changed"}
        /\ UNCHANGED <<dir, disk, hurt, reader, late>>
        /\ EditingTypeOK' /\ DescriptorsOpen'
    BY <1>0, <1>8, InvalidateOutcome
  <2>2. InodesInv'
    <3>1. StayBut({})
      BY <2>1 DEF StayBut
    <3>2. \A x \in Editors : \/ pc'[x] = pc[x] /\ job'[x] = job[x]
                             \/ pc[x] \notin Holding /\ pc'[x] \notin Holding
      BY <2>1 DEF OthersStay, Holding
    <3> QED
      BY <1>0, <2>1, <3>1, <3>2, QuietKeeps
  <2> QED
    BY <1>0, <1>8, <2>1, <2>2, InvalidateCache
<1>9. ASSUME NEW s \in Sources,
             NEW bytes \in {Content(c) : c \in Contents} \union {disk[dir[File]]},
             BeginSave(e, s, bytes)
      PROVE  Kept
  <2>1. bytes \in Bytes
    BY <1>0, EditingContents, FileInode DEF EditingTypeOK
  <2>2. EditingTypeOK' /\ DescriptorsOpen'
    BY <1>0, <1>9, <2>1, BeginSaveOutcome
  <2>3. InodesInv'
    BY <1>0, <1>9, BeginSaveKeeps
  <2>4. CacheInv'
    BY <1>0, <1>9, <2>1, EditsCache
  <2> QED
    BY <2>2, <2>3, <2>4
<1>10. ASSUME EndSave(e) PROVE Kept
  BY <1>0, <1>10, EndSaveOutcome, LeavingKeeps, EditsCache
<1>11. Kept
  <2> HIDE DEF Kept
  <2> QED
    BY <1>1, <1>2, <1>3, <1>4, <1>5, <1>6, <1>7, <1>8, <1>9, <1>10 DEF Edit
<1> QED
  BY <1>11 DEF EditingInv, InodesInv, CacheInv

\* A step in which no request moves.
LEMMA QuietStep ==
    ASSUME EditingInv, EditingTypeOK', DescriptorsOpen', CacheInv',
           UNCHANGED <<pc, job>>, StayBut({}),
           \A n \in Names : dir'[n] = dir[n] \/ (n \in Sources /\ dir'[n] = NoInode)
    PROVE  EditingInv'
<1>1. InodesInv'
  BY EditingInvParts, QuietKeeps
<1> QED
  BY <1>1 DEF EditingInv, InodesInv, CacheInv

\* Every step keeps the invariant.
LEMMA EditingInvStep ==
    ASSUME EditingInv, [EditingNext]_editingVars
    PROVE  EditingInv'
<1>0. EditingTypeOK /\ DescriptorsOpen /\ InodesInv /\ CacheInv
  BY EditingInvParts
<1>1. ASSUME NEW r \in Readers, Read(r) PROVE EditingInv'
  <2>1. UNCHANGED <<dir, pc, job>> /\ StayBut({}) /\ EditingTypeOK' /\ DescriptorsOpen'
    BY <1>0, <1>1, ReadOutcome
  <2>2. CacheInv'
    BY <1>0, <1>1, ReadCache
  <2> QED
    BY <2>1, <2>2, QuietStep
<1>2. ASSUME NEW s \in Sources, Discard(s) PROVE EditingInv'
  <2>1. /\ dir'[s] = NoInode /\ \A m \in Names \ {s} : dir'[m] = dir[m]
        /\ UNCHANGED <<pc, job>> /\ StayBut({}) /\ EditingTypeOK' /\ DescriptorsOpen'
    BY <1>0, <1>2, DiscardOutcome
  <2>2. CacheInv'
    BY <1>0, <1>2, DiscardCache
  <2> QED
    BY <2>1, <2>2, QuietStep
<1>3. ASSUME NEW b \in Blocks, Forget(b) PROVE EditingInv'
  <2>1. UNCHANGED <<dir, pc, job>> /\ StayBut({}) /\ EditingTypeOK' /\ DescriptorsOpen'
    BY <1>0, <1>3, ForgetOutcome
  <2>2. CacheInv'
    BY <1>0, <1>3, ForgetCache
  <2> QED
    BY <2>1, <2>2, QuietStep
<1>4. ASSUME Crash PROVE EditingInv'
  <2>1. EditingTypeOK' /\ DescriptorsOpen' /\ InodesInv' /\ CacheInv'
    BY <1>0, <1>4, CrashOutcome, CrashKeeps, CrashCache
  <2> QED
    BY <2>1 DEF EditingInv, InodesInv, CacheInv
<1>5. CASE UNCHANGED editingVars
  <2>1. UNCHANGED <<dir, disk, pc, job, reader, cache, loading, late, excused, hurt>>
    BY <1>5 DEF editingVars, fileVars, requestVars, readVars, historyVars
  <2> QED
    BY <2>1 DEF EditingInv, EditingTypeOK, DescriptorsOpen, OneHand, HandsClean, SavedApart,
                NamedSound, Sound, InHand, TmpReady, ReadersCurrent, BlocksCurrent
<1> QED
  BY <1>1, <1>2, <1>3, <1>4, <1>5, EditStep DEF EditingNext

\* What edits, rollbacks, merges, saves, readers and crashes keep in any order, for
\* any number of each.
THEOREM EditingInvariant == EditingSpec => []EditingInv
<1>1. EditingInit => EditingInv
  BY EditingInvInit
<1>2. EditingInv /\ [EditingNext]_editingVars => EditingInv'
  BY EditingInvStep
<1> QED
  BY <1>1, <1>2, PTL DEF EditingSpec

\* Descriptors, inodes and cached blocks keep their types; no two names share an
\* inode.
THEOREM EditingTypeCorrect == EditingSpec => []EditingTypeOK
<1>1. EditingInv => EditingTypeOK
  BY DEF EditingInv
<1> QED
  BY <1>1, EditingInvariant, PTL

\* A cached block is what the file holds, unless a request is changing the file, a
\* reader older than the last change put it, or a request failed after a change
\* (invalidateFile, readNextChunk, schedulePrefetchWindow).
THEOREM CacheIsCurrent == EditingSpec => []CachedIsCurrent
<1>1. EditingInv => CachedIsCurrent
  BY DEF EditingInv, BlocksCurrent, CachedIsCurrent, Changing
<1> QED
  BY <1>1, EditingInvariant, PTL

\* The file holds one whole content, across crashes, unless it is being copied
\* over, a write failed, a copy was cut off, or two requests wrote to one inode
\* (handleTextEdit, handleTextRollback, handleTextExperiment).
THEOREM FileIsWhole == EditingSpec => []SavesAreWhole
<1>1. ASSUME EditingInv PROVE SavesAreWhole
  <2> USE <1>1 DEF Holding
  <2>0. EditingTypeOK /\ File \in Names /\ File # Tmp
    BY FileInode DEF EditingInv
  <2>1. PICK i : i = dir[File] /\ i # NoInode
    BY <2>0 DEF EditingTypeOK
  <2>2. ASSUME i \notin hurt, ~Whole(disk[i]) PROVE \E e \in Editors : pc[e] = "copying" /\ job[e].to = i
    <3>1. PICK e \in Editors : pc[e] \in Holding /\ job[e].to = i
      BY <2>1, <2>2, <2>0 DEF EditingInv, NamedSound, Sound, InHand
    <3>2. pc[e] # "opened"
      BY <2>1, <2>2, <3>1, <2>0 DEF EditingInv, HandsClean
    <3>3. pc[e] # "written"
      BY <2>2, <3>1 DEF EditingInv, HandsClean
    <3>4. pc[e] # "saving"
      BY <2>1, <3>1 DEF EditingInv, SavedApart
    <3> QED
      BY <3>1, <3>2, <3>3, <3>4 DEF Holding
  <2> QED
    BY <2>1, <2>2 DEF SavesAreWhole
<1> QED
  BY <1>1, EditingInvariant, PTL

=============================================================================
