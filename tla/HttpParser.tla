------------------------------ MODULE HttpParser ------------------------------
(***************************************************************************)
(* Both servers read HTTP from their connections with one parser per       *)
(* connection, driven by the event loop that the connection shares with    *)
(* others.  A read adds what has arrived to the connection's buffer and    *)
(* runs parseRequest, which goes round a loop until it has a request,      *)
(* an error, or too little data; the request is then given to the handler  *)
(* and the parser is reset, unless the handler asks for more.              *)
(*                                                                         *)
(* A request is a line, a header with the length of its body or with       *)
(* "chunked", the blank line, and its bytes: these are the tokens of a     *)
(* connection's stream.  A position says how many tokens of which request  *)
(* are past.  A token of which a part has arrived counts as not arrived.   *)
(* The bytes of a body contain no line end, and the handing over of large  *)
(* uploads in parts is in TransferSessions.                                *)
(***************************************************************************)
EXTENDS Integers, Sequences

CONSTANTS
    Conns,          \* connections of one event loop
    Requests,       \* what a client may send
    MaxRequests,    \* bound: requests sent on each connection
    IntRange        \* number of values of an int

Kinds == {"plain",
          "badLine",        \* its first line is no request line
          "chunked",        \* Transfer-Encoding: chunked
          "unfinished"}     \* its handler does not find the end of the upload

ASSUME HttpParserAssumption ==
    /\ Requests \subseteq [len: Nat, kind: Kinds]
    /\ \A r \in Requests : r.kind = "chunked" => r.len > 0
    /\ MaxRequests \in [Conns -> Nat]
    /\ IntRange \in Nat /\ IntRange > 1

VARIABLES
    sent,           \* requests of each client
    arrived,        \* position up to which a connection was read
    taken,          \* position up to which its buffer was consumed
    state,          \* state_
    contentLength,  \* contentLength_
    bodyReceived,   \* bodyReceived_
    handled,        \* requests given to the handler
    loop,           \* connection whose buffer the loop parses, or Idle
    hasty           \* history: clients that did not wait for their answers

countVars == <<contentLength, bodyReceived>>
contextVars == <<taken, state, countVars, handled>>
vars == <<sent, arrived, contextVars, loop, hasty>>

Idle == "idle"

(***************************************************************************)
(* Positions in the stream of a connection.                                *)
(***************************************************************************)
Size(r) == 3 + r.len

\* The position after tok tokens of request i.
At(c, i, tok) ==
    IF i \in DOMAIN sent[c] /\ tok = Size(sent[c][i])
      THEN [req |-> i + 1, tok |-> 0]
      ELSE [req |-> i, tok |-> tok]

End(c) == [req |-> Len(sent[c]) + 1, tok |-> 0]

Upto(p, q) == p.req < q.req \/ (p.req = q.req /\ p.tok <= q.tok)

Positions(c) ==
    UNION {{At(c, i, tok) : tok \in 0..Size(sent[c][i])} : i \in DOMAIN sent[c]}

(***************************************************************************)
(* The value of Content-Length: atoi wraps around, and a negative number   *)
(* becomes a size_t that no body reaches.                                  *)
(***************************************************************************)
Unreachable == -1

IntMax == (IntRange - 1) \div 2

Declared(r) ==
    IF r.kind = "chunked" THEN 0
    ELSE LET n == r.len % IntRange
         IN  IF n <= IntMax THEN n ELSE Unreachable

-----------------------------------------------------------------------------
TypeOK ==
    /\ sent \in [Conns -> Seq(Requests)]
    /\ arrived \in [Conns -> [req: Nat, tok: Nat]]
    /\ taken \in [Conns -> [req: Nat, tok: Nat]]
    /\ state \in [Conns -> {"line", "headers", "body", "gotAll"}]
    /\ contentLength \in [Conns -> Nat \union {Unreachable}]
    /\ bodyReceived \in [Conns -> Nat]
    /\ handled \in [Conns -> Seq([req: Nat, body: Nat])]
    /\ loop \in Conns \union {Idle}
    /\ hasty \in [Conns -> BOOLEAN]

Init ==
    /\ sent = [c \in Conns |-> << >>]
    /\ arrived = [c \in Conns |-> [req |-> 1, tok |-> 0]]
    /\ taken = arrived
    /\ state = [c \in Conns |-> "line"]
    /\ contentLength = [c \in Conns |-> 0]
    /\ bodyReceived = [c \in Conns |-> 0]
    /\ handled = [c \in Conns |-> << >>]
    /\ loop = Idle
    /\ hasty = [c \in Conns |-> FALSE]

(***************************************************************************)
(* The client writes a request, before or after the answers to the others. *)
(***************************************************************************)
Send(c, r) ==
    /\ Len(sent[c]) < MaxRequests[c]
    /\ sent' = [sent EXCEPT ![c] = Append(@, r)]
    /\ hasty' = [hasty EXCEPT ![c] = @ \/ Len(handled[c]) < Len(sent[c])]
    /\ UNCHANGED <<arrived, contextVars, loop>>

(***************************************************************************)
(* The loop reads what has arrived of a connection and starts to parse its *)
(* buffer, what earlier reads left in it included.                         *)
(***************************************************************************)
Read(c, p) ==
    /\ loop = Idle
    /\ arrived[c] # End(c)
    /\ Upto(arrived[c], p)
    /\ arrived' = [arrived EXCEPT ![c] = p]
    /\ loop' = c
    /\ UNCHANGED <<sent, contextVars, hasty>>

-----------------------------------------------------------------------------
(***************************************************************************)
(* The rounds of parseRequest's loop.  Each belongs to a state of the      *)
(* context; in state gotAll a round does nothing and leads to another.     *)
(***************************************************************************)

\* onRequest, and reset unless the handler waits for more data.
Handle(c, i, body) ==
    /\ handled' = [handled EXCEPT ![c] = Append(@, [req |-> i, body |-> body])]
    /\ loop' = Idle
    /\ IF sent[c][i].kind = "unfinished"
         THEN /\ state' = [state EXCEPT ![c] = "gotAll"]
              /\ contentLength' = [contentLength EXCEPT ![c] = body]
              /\ bodyReceived' = [bodyReceived EXCEPT ![c] = body]
         ELSE /\ state' = [state EXCEPT ![c] = "line"]
              /\ contentLength' = [contentLength EXCEPT ![c] = 0]
              /\ bodyReceived' = [bodyReceived EXCEPT ![c] = 0]

LineArrived(c) ==
    \E i \in DOMAIN sent[c] :
        /\ Upto(taken[c], [req |-> i, tok |-> 0])
        /\ Upto([req |-> i, tok |-> 1], arrived[c])

\* Mutant of LineGood: bytes of a body before the line are passed over.
LineGoodAnywhere(c) == sent[c][taken[c].req].kind # "badLine"

\* What is in front of the next line end: a request line, and nothing else.
LineGood(c) ==
    taken[c].tok = 0 /\ sent[c][taken[c].req].kind # "badLine"

\* No line yet, or an error, which is answered with 400 and a shutdown and
\* leaves the buffer and the context as they are.
NoRequest(c) ==
    /\ loop = c
    /\ state[c] = "line"
    /\ ~(LineArrived(c) /\ LineGood(c))
    /\ loop' = Idle
    /\ UNCHANGED <<sent, arrived, contextVars, hasty>>

\* Mutant of RequestLine: the loop ends after the line.
RequestLineReturns(c) ==
    /\ loop = c
    /\ state[c] = "line"
    /\ LineArrived(c) /\ LineGood(c)
    /\ taken' = [taken EXCEPT ![c].tok = 1]
    /\ state' = [state EXCEPT ![c] = "headers"]
    /\ loop' = Idle
    /\ UNCHANGED <<sent, arrived, countVars, handled, hasty>>

RequestLine(c) ==
    /\ loop = c
    /\ state[c] = "line"
    /\ LineArrived(c) /\ LineGood(c)
    /\ taken' = [taken EXCEPT ![c].tok = 1]
    /\ state' = [state EXCEPT ![c] = "headers"]
    /\ UNCHANGED <<sent, arrived, countVars, handled, loop, hasty>>

HeadersArrived(c) == Upto(At(c, taken[c].req, 3), arrived[c])

\* The end of the headers is missing: the loop takes the ones that are there
\* and goes round again, without reading.
HeadersSplit(c) ==
    /\ loop = c
    /\ state[c] = "headers"
    /\ ~HeadersArrived(c)
    /\ taken' = [taken EXCEPT ![c] = arrived[c]]
    /\ contentLength' = [contentLength EXCEPT ![c] =
            IF arrived[c].tok = 2 THEN Declared(sent[c][taken[c].req]) ELSE @]
    /\ UNCHANGED <<sent, arrived, state, bodyReceived, handled, loop, hasty>>

Headers(c) ==
    LET i == taken[c].req
        r == sent[c][i]
    IN
    /\ loop = c
    /\ state[c] = "headers"
    /\ HeadersArrived(c)
    /\ taken' = [taken EXCEPT ![c] = At(c, i, 3)]
    /\ \/ /\ Declared(r) = 0 /\ r.kind # "chunked"
          /\ Handle(c, i, 0)
       \/ /\ Declared(r) # 0 \/ r.kind = "chunked"
          /\ state' = [state EXCEPT ![c] = "body"]
          /\ contentLength' = [contentLength EXCEPT ![c] = Declared(r)]
          /\ loop' = IF arrived[c] = At(c, i, 3) THEN Idle ELSE c
          /\ UNCHANGED <<bodyReceived, handled>>
    /\ UNCHANGED <<sent, arrived, hasty>>

\* Chunked bodies are not read: the context waits for ever.
ChunkedBody(c) ==
    /\ loop = c
    /\ state[c] = "body" /\ contentLength[c] = 0
    /\ loop' = Idle
    /\ UNCHANGED <<sent, arrived, contextVars, hasty>>

\* All that arrives is body, later requests included.
EndlessBody(c) ==
    /\ loop = c
    /\ state[c] = "body" /\ contentLength[c] = Unreachable
    /\ taken' = [taken EXCEPT ![c] = arrived[c]]
    /\ loop' = Idle
    /\ UNCHANGED <<sent, arrived, state, countVars, handled, hasty>>

\* The bytes of the request that are in the buffer.
Readable(c) ==
    LET p == taken[c] IN
    (IF arrived[c].req = p.req THEN arrived[c].tok ELSE Size(sent[c][p.req])) - p.tok

Body(c) ==
    LET i == taken[c].req
        rest == contentLength[c] - bodyReceived[c]
        n == IF Readable(c) < rest THEN Readable(c) ELSE rest
    IN
    /\ loop = c
    /\ state[c] = "body" /\ contentLength[c] > 0
    /\ taken' = [taken EXCEPT ![c] = At(c, i, @.tok + n)]
    /\ \/ n = rest /\ Handle(c, i, taken[c].tok + n - 3)
       \/ /\ n < rest
          /\ bodyReceived' = [bodyReceived EXCEPT ![c] = @ + n]
          /\ loop' = Idle
          /\ UNCHANGED <<state, contentLength, handled>>
    /\ UNCHANGED <<sent, arrived, hasty>>

Parse(c) ==
    \/ NoRequest(c) \/ RequestLine(c)
    \/ HeadersSplit(c) \/ Headers(c)
    \/ ChunkedBody(c) \/ EndlessBody(c) \/ Body(c)

Next ==
    \E c \in Conns :
        \/ \E r \in Requests : Send(c, r)
        \/ \E p \in Positions(c) : Read(c, p)
        \/ Parse(c)

(***************************************************************************)
(* The loop runs, and takes every connection in turn that has more data;   *)
(* what was sent arrives.                                                  *)
(***************************************************************************)
Fairness ==
    \A c \in Conns :
        /\ WF_vars(Parse(c))
        /\ SF_vars(\E p \in Positions(c) \ {arrived[c]} : Read(c, p))

Spec == Init /\ [][Next]_vars /\ Fairness

-----------------------------------------------------------------------------
(***************************************************************************)
(* The loop goes round without end: the headers of a request were cut by   *)
(* the end of a read, or more data came for a request whose handler asked  *)
(* for it.  No connection of the loop is read any more.                    *)
(***************************************************************************)
Stuck ==
    /\ loop # Idle
    /\ \/ state[loop] = "headers" /\ ~HeadersArrived(loop)
       \/ state[loop] = "gotAll"

Exchange == INSTANCE HttpExchange WITH
    sent <- sent, handled <- handled, IntMax <- IntMax

(***************************************************************************)
(* However the bytes of its connections are cut into reads, the parser     *)
(* implements HttpExchange: requests are handed over once, in order and    *)
(* with all of their body (parseRequest, HttpContext::reset).              *)
(***************************************************************************)
ImplementsExchange == Exchange!Spec

\* A request the parser can read: neither chunked nor too long for an int.
Fits(r) == r.kind \in {"plain", "unfinished"} /\ r.len <= IntMax

(***************************************************************************)
(* A request is handled in the end, when its client waits for each answer, *)
(* the parser can read what it has sent, and no connection of the same     *)
(* loop makes the parser go round without end (HttpContext.cc:77,          *)
(* parseRequest in state kGotAll).                                         *)
(***************************************************************************)
Served ==
    \A c \in Conns : \A i \in 1..MaxRequests[c] :
        Len(sent[c]) >= i ~>
            \/ Len(handled[c]) >= i
            \/ hasty[c] \/ Stuck
            \/ \E j \in DOMAIN sent[c] : j <= i /\ ~Fits(sent[c][j])
=============================================================================
