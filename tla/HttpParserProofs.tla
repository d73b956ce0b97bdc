--------------------------- MODULE HttpParserProofs ---------------------------
(***************************************************************************)
(* Proofs about HttpParser: its types, and that it implements HttpExchange *)
(* for any connections, requests and width of an int.                      *)
(***************************************************************************)
EXTENDS HttpParser, TLAPS, SequenceTheorems

(***************************************************************************)
(* The inductive invariant.  A connection is read up to a position of its  *)
(* stream and its buffer consumed up to an earlier one.  While the parser  *)
(* is at a request it will hand over, everything before that request was   *)
(* handed over whole.  It is at no such request any more once it is inside *)
(* a body where a request line should be, or in a body without end.        *)
(***************************************************************************)
ReadOK(c) ==
    /\ arrived[c].req \in 1..(Len(sent[c]) + 1)
    /\ IF arrived[c].req \in DOMAIN sent[c]
         THEN arrived[c].tok < Size(sent[c][arrived[c].req])
         ELSE arrived[c].tok = 0
    /\ Upto(taken[c], arrived[c])

InOrder(c) ==
    /\ Len(handled[c]) <= Len(sent[c])
    /\ \A j \in DOMAIN handled[c] : handled[c][j].req = j

AllWhole(c) ==
    \A j \in DOMAIN handled[c] : handled[c][j].body = sent[c][j].len

AtNext(c) ==
    /\ taken[c].req = Len(handled[c]) + 1
    /\ AllWhole(c)

Parsing(c) ==
    /\ state[c] \in {"line", "headers"} => bodyReceived[c] = 0
    /\ state[c] = "line" /\ taken[c].tok = 0 => AtNext(c)
    /\ state[c] = "headers" =>
            /\ AtNext(c)
            /\ taken[c].req \in DOMAIN sent[c]
            /\ taken[c].tok \in 1..2
    /\ state[c] = "body" /\ contentLength[c] > 0 =>
            /\ AtNext(c)
            /\ taken[c].req \in DOMAIN sent[c]
            /\ taken[c].tok = 3 + bodyReceived[c]
            /\ bodyReceived[c] < contentLength[c]
            /\ contentLength[c] = Declared(sent[c][taken[c].req])

IInv ==
    /\ TypeOK
    /\ \A c \in Conns : ReadOK(c) /\ InOrder(c) /\ Parsing(c)

-----------------------------------------------------------------------------
(***************************************************************************)
(* What the conversion of Content-Length returns: a length that fits is    *)
(* the length, another is shorter than the body or never reached.          *)
(***************************************************************************)
LEMMA DeclaredLength ==
    ASSUME NEW r \in Requests, r.kind # "chunked"
    PROVE  /\ Declared(r) \in Nat \union {Unreachable}
           /\ Declared(r) # Unreachable =>
                /\ Declared(r) <= r.len
                /\ Declared(r) = r.len \/ r.len > IntMax
<1> DEFINE n == r.len % IntRange
<1>1. r.len \in Nat /\ IntRange \in Nat /\ IntRange > 1
  BY HttpParserAssumption
<1>2. n \in 0..(IntRange - 1) /\ n <= r.len /\ (r.len < IntRange => n = r.len)
  BY <1>1, SMT
<1>3. IntMax \in Nat /\ IntMax < IntRange
  BY <1>1, SMT DEF IntMax
<1>4. Declared(r) = IF n <= IntMax THEN n ELSE Unreachable
  BY DEF Declared
<1> HIDE DEF n
<1> QED BY <1>1, <1>2, <1>3, <1>4, SMT DEF Unreachable

LEMMA DeclaredType ==
    ASSUME NEW r \in Requests
    PROVE  Declared(r) \in Nat \union {Unreachable}
<1>1. CASE r.kind = "chunked"
  BY <1>1 DEF Declared
<1>2. CASE r.kind # "chunked"
  BY <1>2, DeclaredLength
<1> QED BY <1>1, <1>2

-----------------------------------------------------------------------------
ConnInv(c) == ReadOK(c) /\ InOrder(c) /\ Parsing(c)

\* What the state of a connection's parser is made of.
Untouched(c) ==
    /\ sent'[c] = sent[c] /\ arrived'[c] = arrived[c] /\ taken'[c] = taken[c]
    /\ state'[c] = state[c] /\ contentLength'[c] = contentLength[c]
    /\ bodyReceived'[c] = bodyReceived[c] /\ handled'[c] = handled[c]

LEMMA UntouchedKeeps ==
    ASSUME NEW c \in Conns, ConnInv(c), Untouched(c)
    PROVE  ConnInv(c)'
BY DEF ConnInv, Untouched, ReadOK, InOrder, Parsing, AtNext, AllWhole, At, Size, Upto

LEMMA PositionType ==
    ASSUME NEW c \in Conns, NEW i \in Nat, NEW tok \in Nat
    PROVE  At(c, i, tok) \in [req: Nat, tok: Nat]
BY DEF At

LEMMA Appended ==
    ASSUME NEW S, NEW s \in Seq(S), NEW e \in S, NEW i, i = Len(s) + 1
    PROVE  /\ Append(s, e) \in Seq(S)
           /\ Len(Append(s, e)) = Len(s) + 1
           /\ \A j \in DOMAIN s : Append(s, e)[j] = s[j]
           /\ Append(s, e)[i] = e
           /\ DOMAIN Append(s, e) = DOMAIN s \union {i}
BY SMT

(***************************************************************************)
(* The next request is handed over: a step of HttpExchange.                *)
(***************************************************************************)
LEMMA HandsOver ==
    ASSUME TypeOK, NEW c \in Conns, InOrder(c), AtNext(c),
           taken[c].req \in DOMAIN sent[c],
           NEW body \in 0..sent[c][taken[c].req].len,
           body = sent[c][taken[c].req].len \/ sent[c][taken[c].req].len > IntMax,
           Handle(c, taken[c].req, body), sent' = sent
    PROVE  /\ Exchange!Deliver(c)
           /\ handled' \in [Conns -> Seq([req: Nat, body: Nat])]
           /\ state' \in [Conns -> {"line", "headers", "body", "gotAll"}]
           /\ contentLength' \in [Conns -> Nat \union {Unreachable}]
           /\ bodyReceived' \in [Conns -> Nat]
           /\ loop' \in Conns \union {Idle}
           /\ InOrder(c)'
           /\ Len(handled'[c]) = Len(handled[c]) + 1
           /\ body = sent[c][taken[c].req].len => AllWhole(c)'
           /\ state'[c] \in {"line", "gotAll"}
           /\ state'[c] = "line" => bodyReceived'[c] = 0
           /\ \A d \in Conns \ {c} :
                /\ handled'[d] = handled[d] /\ state'[d] = state[d]
                /\ contentLength'[d] = contentLength[d]
                /\ bodyReceived'[d] = bodyReceived[d]
<1> DEFINE i == taken[c].req
           h == [req |-> i, body |-> body]
<1>1. sent[c] \in Seq(Requests) /\ handled[c] \in Seq([req: Nat, body: Nat])
  BY DEF TypeOK
<1>2. i \in Nat /\ i = Len(handled[c]) + 1 /\ i <= Len(sent[c]) /\ sent[c][i] \in Requests
  BY <1>1 DEF AtNext
<1>3. sent[c][i].len \in Nat /\ body \in Nat
  BY <1>2, HttpParserAssumption
<1>4. h \in [req: Nat, body: Nat]
  BY <1>2, <1>3
<1>5. handled' = [handled EXCEPT ![c] = Append(handled[c], h)]
  BY DEF Handle
<1>6. handled'[c] = Append(handled[c], h)
  BY <1>5 DEF TypeOK
<1>7. /\ handled'[c] \in Seq([req: Nat, body: Nat])
      /\ Len(handled'[c]) = Len(handled[c]) + 1
      /\ \A j \in DOMAIN handled[c] : handled'[c][j] = handled[c][j]
      /\ handled'[c][i] = h
      /\ DOMAIN handled'[c] = DOMAIN handled[c] \union {i}
  <2> HIDE DEF h, i
  <2> DEFINE S == [req: Nat, body: Nat]
  <2>1. handled[c] \in Seq(S) /\ h \in S /\ i = Len(handled[c]) + 1
    BY <1>1, <1>2, <1>4
  <2> HIDE DEF S
  <2>2. /\ Append(handled[c], h) \in Seq(S)
        /\ Len(Append(handled[c], h)) = Len(handled[c]) + 1
        /\ \A j \in DOMAIN handled[c] : Append(handled[c], h)[j] = handled[c][j]
        /\ Append(handled[c], h)[i] = h
        /\ DOMAIN Append(handled[c], h) = DOMAIN handled[c] \union {i}
    BY <2>1, Appended
  <2> QED BY <1>6, <2>2 DEF S
<1>8. handled' \in [Conns -> Seq([req: Nat, body: Nat])]
  BY <1>5, <1>6, <1>7 DEF TypeOK
<1>9. InOrder(c)'
  BY SMTT(30), <1>2, <1>7 DEF InOrder
<1>10. ASSUME body = sent[c][i].len PROVE AllWhole(c)'
  BY <1>2, <1>7, <1>10 DEF AtNext, AllWhole
<1>11. Exchange!Deliver(c)
  <2>1. \A j \in DOMAIN handled[c] : Exchange!Whole(c, handled[c][j])
    BY DEF InOrder, AtNext, AllWhole, Exchange!Whole
  <2> QED BY <1>1, <1>2, <1>5, <2>1 DEF Exchange!Deliver
<1> DEFINE waits == sent[c][i].kind = "unfinished"
<1>12. /\ state' \in [Conns -> {"line", "headers", "body", "gotAll"}]
       /\ state'[c] = IF waits THEN "gotAll" ELSE "line"
       /\ \A d \in Conns \ {c} : state'[d] = state[d]
  <2>1. state' = [state EXCEPT ![c] = IF waits THEN "gotAll" ELSE "line"]
    BY DEF Handle
  <2> QED BY <2>1 DEF TypeOK
<1>13. /\ contentLength' \in [Conns -> Nat \union {Unreachable}]
       /\ \A d \in Conns \ {c} : contentLength'[d] = contentLength[d]
  <2>1. contentLength' = [contentLength EXCEPT ![c] = IF waits THEN body ELSE 0]
    BY DEF Handle
  <2> QED BY <1>3, <2>1 DEF TypeOK
<1>14. /\ bodyReceived' \in [Conns -> Nat]
       /\ bodyReceived'[c] = IF waits THEN body ELSE 0
       /\ \A d \in Conns \ {c} : bodyReceived'[d] = bodyReceived[d]
  <2>1. bodyReceived' = [bodyReceived EXCEPT ![c] = IF waits THEN body ELSE 0]
    BY DEF Handle
  <2> QED BY <1>3, <2>1 DEF TypeOK
<1>15. /\ loop' \in Conns \union {Idle}
       /\ \A d \in Conns \ {c} : handled'[d] = handled[d]
  BY <1>5 DEF Handle, TypeOK
<1> QED BY <1>7, <1>8, <1>9, <1>10, <1>11, <1>12, <1>13, <1>14, <1>15

-----------------------------------------------------------------------------
\* What every step shows: the invariant again, and a step of HttpExchange.
Good == IInv' /\ (Exchange!Next \/ UNCHANGED <<sent, handled>>)

LEMMA OnlyOne ==
    ASSUME IInv, NEW c \in Conns, TypeOK', ConnInv(c)',
           \A d \in Conns \ {c} : Untouched(d)
    PROVE  IInv'
<1>1. \A d \in Conns \ {c} : ConnInv(d)'
  BY UntouchedKeeps DEF IInv, ConnInv
<1> QED BY <1>1 DEF IInv, ConnInv

LEMMA InitGood == Init => IInv /\ Exchange!Init
<1> SUFFICES ASSUME Init PROVE IInv /\ Exchange!Init
  OBVIOUS
<1>1. TypeOK
  BY DEF Init, TypeOK
<1>2. ASSUME NEW c \in Conns PROVE ConnInv(c)
  BY DEF Init, ConnInv, ReadOK, InOrder, Parsing, AtNext, AllWhole, Upto
<1> QED BY <1>1, <1>2 DEF Init, Exchange!Init, IInv, ConnInv

LEMMA SendGood ==
    ASSUME IInv, NEW c \in Conns, NEW r \in Requests, Send(c, r)
    PROVE  Good
<1>1. sent[c] \in Seq(Requests) /\ arrived[c] \in [req: Nat, tok: Nat]
      /\ taken[c] \in [req: Nat, tok: Nat] /\ contentLength[c] \in Nat \union {Unreachable}
      /\ bodyReceived[c] \in Nat /\ handled[c] \in Seq([req: Nat, body: Nat])
  BY DEF IInv, TypeOK
<1>2. sent' = [sent EXCEPT ![c] = Append(sent[c], r)]
      /\ sent'[c] = Append(sent[c], r)
  BY DEF Send, IInv, TypeOK
<1>3. /\ sent'[c] \in Seq(Requests)
      /\ Len(sent'[c]) = Len(sent[c]) + 1
      /\ \A j \in DOMAIN sent[c] : sent'[c][j] = sent[c][j]
      /\ sent'[c][Len(sent[c]) + 1] = r
      /\ DOMAIN sent'[c] = DOMAIN sent[c] \union {Len(sent[c]) + 1}
  BY <1>1, <1>2, Appended
<1>4. TypeOK'
  BY <1>1, <1>2, <1>3 DEF IInv, TypeOK, Send, contextVars, countVars
<1>5. r.len \in Nat
  BY HttpParserAssumption
<1>6. ReadOK(c)'
  <2>1. arrived' = arrived /\ taken' = taken /\ Len(sent[c]) \in Nat
    BY <1>1 DEF Send, contextVars
  <2>2. /\ arrived[c].req \in 1..(Len(sent[c]) + 1)
        /\ Upto(taken[c], arrived[c])
        /\ IF arrived[c].req \in DOMAIN sent[c]
             THEN arrived[c].tok < Size(sent[c][arrived[c].req])
             ELSE arrived[c].tok = 0
    BY DEF IInv, ReadOK
  <2>3. CASE arrived[c].req \in DOMAIN sent[c]
    BY <1>3, <2>1, <2>2, <2>3 DEF ReadOK, Size, Upto
  <2>4. CASE arrived[c].req \notin DOMAIN sent[c]
    <3>1. arrived[c].req = Len(sent[c]) + 1 /\ arrived[c].tok = 0
      BY <1>1, <2>1, <2>2, <2>4
    <3> QED BY <1>1, <1>3, <1>5, <2>1, <2>2, <3>1 DEF ReadOK, Size, Upto
  <2> QED BY <2>3, <2>4
<1>7. InOrder(c)'
  BY <1>1, <1>3 DEF IInv, InOrder, Send, contextVars
<1>8. AtNext(c) => AtNext(c)'
  <2>1. \A j \in DOMAIN handled[c] : j \in DOMAIN sent[c]
    BY SMTT(30), <1>1 DEF IInv, InOrder
  <2>2. handled' = handled /\ taken' = taken
    BY DEF Send, contextVars
  <2> QED BY <1>3, <2>1, <2>2 DEF AtNext, AllWhole
<1>9. Parsing(c)'
  BY <1>1, <1>3, <1>8 DEF IInv, Parsing, Send, contextVars, countVars
<1>10. \A d \in Conns \ {c} : Untouched(d)
  BY <1>2 DEF IInv, TypeOK, Untouched, Send, contextVars, countVars
<1>11. IInv'
  BY <1>4, <1>6, <1>7, <1>9, <1>10, OnlyOne DEF ConnInv
<1>12. Exchange!Next
  BY <1>2 DEF Send, contextVars, Exchange!Next, Exchange!Send
<1> QED BY <1>11, <1>12 DEF Good

LEMMA ReadGood ==
    ASSUME IInv, NEW c \in Conns, NEW p \in Positions(c), Read(c, p)
    PROVE  Good
<1>1. sent[c] \in Seq(Requests) /\ arrived[c] \in [req: Nat, tok: Nat]
      /\ taken[c] \in [req: Nat, tok: Nat]
  BY DEF IInv, TypeOK
<1>2. PICK i \in DOMAIN sent[c] : \E tok \in 0..Size(sent[c][i]) : p = At(c, i, tok)
  BY DEF Positions
<1>3. PICK tok \in 0..Size(sent[c][i]) : p = At(c, i, tok)
  BY <1>2
<1>4. i \in Nat /\ i \in 1..Len(sent[c]) /\ sent[c][i].len \in Nat
  BY SMTT(30), <1>1, HttpParserAssumption
<1>5. tok \in Nat /\ tok <= Size(sent[c][i])
  BY <1>3, <1>4 DEF Size
<1>6. p \in [req: Nat, tok: Nat]
  BY <1>3, <1>4, <1>5, PositionType
<1>7. arrived'[c] = p /\ \A d \in Conns \ {c} : arrived'[d] = arrived[d]
  BY DEF Read, IInv, TypeOK
<1>8. TypeOK'
  BY <1>6 DEF IInv, TypeOK, Read, contextVars, countVars
<1>9. \A j \in DOMAIN sent[c] : Size(sent[c][j]) > 0
  BY SMTT(30), <1>1, HttpParserAssumption DEF Size
<1>10. ReadOK(c)'
  <2>1. Upto(taken[c], p)
    BY <1>1, <1>6 DEF IInv, ReadOK, Read, Upto
  <2>2. p.req \in 1..(Len(sent[c]) + 1)
        /\ IF p.req \in DOMAIN sent[c] THEN p.tok < Size(sent[c][p.req]) ELSE p.tok = 0
    <3>1. CASE tok = Size(sent[c][i])
      BY <1>1, <1>3, <1>4, <1>9, <3>1 DEF At
    <3>2. CASE tok # Size(sent[c][i])
      BY <1>1, <1>3, <1>4, <1>5, <3>2 DEF At, Size
    <3> QED BY <3>1, <3>2
  <2> QED BY <1>7, <2>1, <2>2 DEF ReadOK, Read, contextVars, Size, Upto
<1>11. InOrder(c)' /\ Parsing(c)'
  BY DEF IInv, InOrder, Parsing, AtNext, AllWhole, Read, contextVars, countVars
<1>12. \A d \in Conns \ {c} : Untouched(d)
  BY <1>7 DEF Untouched, Read, contextVars, countVars
<1>13. IInv'
  BY <1>8, <1>10, <1>11, <1>12, OnlyOne DEF ConnInv
<1> QED BY <1>13 DEF Good, Read, contextVars

\* The facts about one connection that the steps of its parser start from.
LEMMA Facts ==
    ASSUME IInv, NEW c \in Conns
    PROVE  /\ sent[c] \in Seq(Requests)
           /\ arrived[c] \in [req: Nat, tok: Nat] /\ taken[c] \in [req: Nat, tok: Nat]
           /\ contentLength[c] \in Nat \union {Unreachable} /\ bodyReceived[c] \in Nat
           /\ handled[c] \in Seq([req: Nat, body: Nat])
           /\ \A i \in DOMAIN sent[c] :
                i \in Nat /\ sent[c][i] \in Requests /\ sent[c][i].len \in Nat
           /\ ReadOK(c) /\ InOrder(c) /\ Parsing(c)
<1>1. sent[c] \in Seq(Requests)
  BY DEF IInv, TypeOK
<1>2. \A i \in DOMAIN sent[c] : i \in Nat /\ sent[c][i] \in Requests
  BY <1>1
<1>3. \A r \in Requests : r.len \in Nat
  BY HttpParserAssumption
<1> QED BY <1>1, <1>2, <1>3 DEF IInv, TypeOK

\* A step that touches neither a context nor the streams.
LEMMA WaitGood ==
    ASSUME IInv, NEW c \in Conns,
           UNCHANGED <<sent, arrived, contextVars, hasty>>, loop' \in Conns \union {Idle}
    PROVE  Good
<1>1. TypeOK'
  BY DEF IInv, TypeOK, contextVars, countVars
<1>2. \A d \in Conns : Untouched(d)
  BY DEF Untouched, contextVars, countVars
<1>3. ConnInv(c)'
  BY <1>2, UntouchedKeeps DEF IInv, ConnInv
<1> QED BY <1>1, <1>2, <1>3, OnlyOne DEF Good, contextVars

LEMMA RequestLineGood ==
    ASSUME IInv, NEW c \in Conns, RequestLine(c)
    PROVE  Good
<1>1. PICK i \in DOMAIN sent[c] :
        /\ Upto(taken[c], [req |-> i, tok |-> 0])
        /\ Upto([req |-> i, tok |-> 1], arrived[c])
  BY DEF RequestLine, LineArrived
<1>2. taken[c].tok = 0 /\ AtNext(c) /\ bodyReceived[c] = 0
  BY Facts DEF RequestLine, LineGood, Parsing
<1>3. taken[c].req \in DOMAIN sent[c]
  BY <1>1, <1>2, Facts DEF Upto, AtNext
<1>4. /\ taken'[c] = [req |-> taken[c].req, tok |-> 1]
      /\ \A d \in Conns \ {c} : taken'[d] = taken[d] /\ state'[d] = state[d]
      /\ state'[c] = "headers"
  BY Facts DEF RequestLine, IInv, TypeOK
<1>5. TypeOK'
  BY Facts DEF RequestLine, IInv, TypeOK, countVars
<1>6. Upto(taken'[c], arrived[c])
  BY <1>1, <1>2, <1>4, Facts DEF Upto
<1>7. ReadOK(c)' /\ InOrder(c)'
  BY <1>6, Facts DEF RequestLine, ReadOK, InOrder, Size, Upto
<1>8. Parsing(c)'
  BY <1>2, <1>3, <1>4 DEF RequestLine, Parsing, AtNext, AllWhole, countVars
<1>9. \A d \in Conns \ {c} : Untouched(d)
  BY <1>4 DEF Untouched, RequestLine, countVars
<1>10. IInv'
  BY <1>5, <1>7, <1>8, <1>9, OnlyOne DEF ConnInv
<1> QED BY <1>10 DEF Good, RequestLine

LEMMA HeadersSplitGood ==
    ASSUME IInv, NEW c \in Conns, HeadersSplit(c)
    PROVE  Good
<1> DEFINE i == taken[c].req
<1>1. /\ AtNext(c) /\ bodyReceived[c] = 0
      /\ i \in DOMAIN sent[c] /\ taken[c].tok \in 1..2
  BY Facts DEF HeadersSplit, Parsing
<1>2. ~Upto(At(c, i, 3), arrived[c]) /\ Upto(taken[c], arrived[c])
  BY Facts DEF HeadersSplit, HeadersArrived, ReadOK
<1>3. arrived[c].req = i /\ arrived[c].tok \in 1..2
  <2>1. CASE sent[c][i].len = 0
    <3>1. Size(sent[c][i]) = 3 /\ At(c, i, 3) = [req |-> i + 1, tok |-> 0]
      BY <1>1, <2>1, Facts DEF At, Size
    <3>2. arrived[c].req = i /\ arrived[c].tok >= taken[c].tok
      BY <1>1, <1>2, <3>1, Facts DEF Upto
    <3>3. arrived[c].tok < 3
      BY <1>1, <3>1, <3>2, Facts DEF ReadOK
    <3> QED BY <1>1, <3>2, <3>3, Facts
  <2>2. CASE sent[c][i].len # 0
    BY SMTT(30), <1>1, <1>2, <2>2, Facts DEF At, Size, Upto, ReadOK
  <2> QED BY <2>1, <2>2
<1>4. taken'[c] = arrived[c] /\ \A d \in Conns \ {c} : taken'[d] = taken[d]
  BY DEF HeadersSplit, IInv, TypeOK
<1>5. Declared(sent[c][i]) \in Nat \union {Unreachable}
  BY <1>1, Facts, DeclaredType
<1>6. /\ contentLength' \in [Conns -> Nat \union {Unreachable}]
      /\ \A d \in Conns \ {c} : contentLength'[d] = contentLength[d]
  BY <1>5, Facts DEF HeadersSplit, IInv, TypeOK
<1>7. TypeOK'
  BY <1>6, Facts DEF HeadersSplit, IInv, TypeOK
<1>8. ReadOK(c)'
  BY <1>4, Facts DEF HeadersSplit, ReadOK, Size, Upto
<1>9. InOrder(c)'
  BY Facts DEF HeadersSplit, InOrder
<1>10. Parsing(c)'
  BY <1>1, <1>3, <1>4 DEF HeadersSplit, Parsing, AtNext, AllWhole
<1>11. \A d \in Conns \ {c} : Untouched(d)
  BY <1>4, <1>6 DEF Untouched, HeadersSplit
<1>12. IInv'
  BY <1>7, <1>8, <1>9, <1>10, <1>11, OnlyOne DEF ConnInv
<1> QED BY <1>12 DEF Good, HeadersSplit

LEMMA HeadersGood ==
    ASSUME IInv, NEW c \in Conns, Headers(c)
    PROVE  Good
<1> DEFINE i == taken[c].req
           r == sent[c][i]
<1>1. /\ AtNext(c) /\ bodyReceived[c] = 0
      /\ i \in DOMAIN sent[c] /\ taken[c].tok \in 1..2
  BY Facts DEF Headers, Parsing
<1>2. r \in Requests /\ r.len \in Nat /\ i \in Nat
  BY <1>1, Facts
<1>3. /\ taken'[c] = At(c, i, 3)
      /\ \A d \in Conns \ {c} : taken'[d] = taken[d]
  BY DEF Headers, IInv, TypeOK
<1>4. taken' \in [Conns -> [req: Nat, tok: Nat]]
  BY <1>2, PositionType DEF Headers, IInv, TypeOK
<1>5. ReadOK(c)'
  BY <1>3, Facts DEF Headers, HeadersArrived, ReadOK, Size, Upto
<1>6. At(c, i, 3) = IF r.len = 0 THEN [req |-> i + 1, tok |-> 0]
                    ELSE [req |-> i, tok |-> 3]
  BY <1>1, <1>2 DEF At, Size
<1>7. CASE Declared(r) = 0 /\ r.kind # "chunked"
  <2>1. 0 = r.len \/ r.len > IntMax
    BY <1>2, <1>7, DeclaredLength DEF Unreachable
  <2>2. 0 \in 0..r.len
    BY <1>2
  <2>3. Handle(c, taken[c].req, 0) /\ sent' = sent
    BY <1>7 DEF Headers
  <2>4. /\ Exchange!Deliver(c)
        /\ handled' \in [Conns -> Seq([req: Nat, body: Nat])]
        /\ state' \in [Conns -> {"line", "headers", "body", "gotAll"}]
        /\ contentLength' \in [Conns -> Nat \union {Unreachable}]
        /\ bodyReceived' \in [Conns -> Nat]
        /\ loop' \in Conns \union {Idle}
        /\ InOrder(c)'
        /\ Len(handled'[c]) = Len(handled[c]) + 1
        /\ 0 = r.len => AllWhole(c)'
        /\ state'[c] \in {"line", "gotAll"}
        /\ state'[c] = "line" => bodyReceived'[c] = 0
        /\ \A d \in Conns \ {c} :
             /\ handled'[d] = handled[d] /\ state'[d] = state[d]
             /\ contentLength'[d] = contentLength[d]
             /\ bodyReceived'[d] = bodyReceived[d]
    BY <1>1, <2>1, <2>2, <2>3, HandsOver, Facts DEF IInv
  <2>5. TypeOK'
    BY <1>4, <2>4 DEF IInv, TypeOK, Headers
  <2>6. Parsing(c)'
    BY SMTT(30), <1>1, <1>2, <1>3, <1>6, <2>4 DEF Parsing, AtNext
  <2>7. \A d \in Conns \ {c} : Untouched(d)
    BY <1>3, <2>4 DEF Untouched, Headers
  <2>8. IInv'
    BY <1>5, <2>4, <2>5, <2>6, <2>7, OnlyOne DEF ConnInv
  <2> QED BY <2>4, <2>8 DEF Good, Exchange!Next
<1>8. CASE Declared(r) # 0 \/ r.kind = "chunked"
  <2>1. /\ state' = [state EXCEPT ![c] = "body"]
        /\ contentLength' = [contentLength EXCEPT ![c] = Declared(r)]
        /\ loop' \in Conns \union {Idle}
        /\ UNCHANGED <<sent, arrived, bodyReceived, handled, hasty>>
    BY <1>8 DEF Headers
  <2>2. Declared(r) \in Nat \union {Unreachable}
    BY <1>2, DeclaredType
  <2>3. TypeOK'
    BY <1>4, <2>1, <2>2 DEF IInv, TypeOK
  <2>4. state'[c] = "body" /\ contentLength'[c] = Declared(r)
    BY <2>1 DEF IInv, TypeOK
  <2>5. ASSUME Declared(r) > 0 PROVE taken'[c] = [req |-> i, tok |-> 3]
    <3>1. r.kind # "chunked"
      BY <2>5 DEF Declared
    <3>2. r.len # 0
      BY <1>2, <2>2, <2>5, <3>1, DeclaredLength DEF Unreachable
    <3> QED BY <1>3, <1>6, <3>2
  <2>6. Parsing(c)'
    BY <1>1, <2>1, <2>4, <2>5 DEF Parsing, AtNext, AllWhole
  <2>7. InOrder(c)'
    BY <2>1, Facts DEF InOrder
  <2>8. \A d \in Conns \ {c} : Untouched(d)
    BY <1>3, <2>1 DEF Untouched, IInv, TypeOK
  <2>9. IInv'
    BY <1>5, <2>3, <2>6, <2>7, <2>8, OnlyOne DEF ConnInv
  <2> QED BY <2>1, <2>9 DEF Good
<1> QED BY <1>7, <1>8 DEF Headers

LEMMA EndlessBodyGood ==
    ASSUME IInv, NEW c \in Conns, EndlessBody(c)
    PROVE  Good
<1>1. taken'[c] = arrived[c] /\ \A d \in Conns \ {c} : taken'[d] = taken[d]
  BY DEF EndlessBody, IInv, TypeOK
<1>2. TypeOK'
  BY Facts DEF EndlessBody, IInv, TypeOK, countVars
<1>3. ReadOK(c)' /\ InOrder(c)'
  BY <1>1, Facts DEF EndlessBody, ReadOK, InOrder, Size, Upto
<1>4. Parsing(c)'
  BY DEF EndlessBody, Parsing, Unreachable, countVars
<1>5. \A d \in Conns \ {c} : Untouched(d)
  BY <1>1 DEF Untouched, EndlessBody, countVars
<1>6. IInv'
  BY <1>2, <1>3, <1>4, <1>5, OnlyOne DEF ConnInv
<1> QED BY <1>6 DEF Good, EndlessBody

LEMMA BodyGood ==
    ASSUME IInv, NEW c \in Conns, Body(c)
    PROVE  Good
<1> DEFINE i == taken[c].req
           r == sent[c][i]
           rest == contentLength[c] - bodyReceived[c]
           n == IF Readable(c) < rest THEN Readable(c) ELSE rest
           p == At(c, i, taken[c].tok + n)
<1>1. /\ AtNext(c)
      /\ i \in DOMAIN sent[c]
      /\ taken[c].tok = 3 + bodyReceived[c]
      /\ bodyReceived[c] < contentLength[c]
      /\ contentLength[c] = Declared(r)
  BY Facts DEF Body, Parsing
<1>2. r \in Requests /\ r.len \in Nat /\ i \in Nat
  BY <1>1, Facts
<1>3. /\ contentLength[c] \in Nat /\ bodyReceived[c] \in Nat /\ rest \in Nat /\ rest > 0
      /\ contentLength[c] <= r.len
      /\ contentLength[c] = r.len \/ r.len > IntMax
  <2>1. r.kind # "chunked" /\ contentLength[c] # Unreachable
    <3>1. contentLength[c] > 0
      BY DEF Body
    <3>2. r.kind = "chunked" => Declared(r) = 0
      BY DEF Declared
    <3> QED BY <1>1, <3>1, <3>2 DEF Unreachable
  <2> QED BY SMTT(30), <1>1, <1>2, <2>1, DeclaredLength, Facts
<1>4. Readable(c) \in Nat /\ taken[c].tok + Readable(c) <= Size(r)
  <2>1. Size(r) \in Nat /\ taken[c].tok \in Nat /\ taken[c].tok < Size(r)
    BY <1>1, <1>2, <1>3 DEF Size
  <2>2. CASE arrived[c].req = i
    <3>1. arrived[c].tok \in Nat /\ arrived[c].tok >= taken[c].tok /\ arrived[c].tok < Size(r)
      BY <1>1, <1>2, <2>2, Facts DEF ReadOK, Upto
    <3> QED BY <2>1, <2>2, <3>1 DEF Readable
  <2>3. CASE arrived[c].req # i
    BY <2>1, <2>3 DEF Readable
  <2> QED BY <2>2, <2>3
<1>5. n \in Nat /\ n <= rest /\ n <= Readable(c)
  BY <1>3, <1>4
<1> HIDE DEF n
<1>6. taken'[c] = p /\ \A d \in Conns \ {c} : taken'[d] = taken[d]
  BY DEF n, Body, IInv, TypeOK
<1>7. taken' \in [Conns -> [req: Nat, tok: Nat]]
  <2>1. p \in [req: Nat, tok: Nat]
    <3>1. taken[c].tok + n \in Nat
      BY <1>1, <1>3, <1>5
    <3> QED BY <1>2, <3>1, PositionType
  <2> QED BY <2>1 DEF n, Body, IInv, TypeOK
<1>8. p = IF taken[c].tok + n = Size(r) THEN [req |-> i + 1, tok |-> 0]
          ELSE [req |-> i, tok |-> taken[c].tok + n]
  BY <1>1 DEF At
<1>9. ReadOK(c)'
  <2>1. Upto(p, arrived[c])
    <3>1. CASE arrived[c].req = i
      <4>1. taken[c].tok + n <= arrived[c].tok
        BY <1>1, <1>3, <1>5, <3>1, Facts DEF Readable
      <4>2. arrived[c].tok < Size(r)
        BY <1>1, <3>1, Facts DEF ReadOK
      <4> QED BY SMTT(30), <1>1, <1>2, <1>3, <1>5, <1>8, <3>1, <4>1, <4>2, Facts DEF Upto, Size
    <3>2. CASE arrived[c].req > i
      BY <1>2, <1>8, <3>2, Facts DEF Upto
    <3> QED BY <1>2, <3>1, <3>2, Facts DEF ReadOK, Upto
  <2> QED BY <1>6, <2>1, Facts DEF Body, ReadOK, Size, Upto
<1>10. CASE n = rest /\ Handle(c, i, taken[c].tok + n - 3)
  <2>0. taken[c].tok + n - 3 = contentLength[c]
    BY <1>1, <1>3, <1>10
  <2>1. /\ contentLength[c] \in 0..r.len /\ sent' = sent
        /\ Handle(c, i, contentLength[c])
    BY <1>2, <1>3, <1>10, <2>0 DEF Body
  <2>2. /\ Exchange!Deliver(c)
        /\ handled' \in [Conns -> Seq([req: Nat, body: Nat])]
        /\ state' \in [Conns -> {"line", "headers", "body", "gotAll"}]
        /\ contentLength' \in [Conns -> Nat \union {Unreachable}]
        /\ bodyReceived' \in [Conns -> Nat]
        /\ loop' \in Conns \union {Idle}
        /\ InOrder(c)'
        /\ Len(handled'[c]) = Len(handled[c]) + 1
        /\ contentLength[c] = r.len => AllWhole(c)'
        /\ state'[c] \in {"line", "gotAll"}
        /\ state'[c] = "line" => bodyReceived'[c] = 0
        /\ \A d \in Conns \ {c} :
             /\ handled'[d] = handled[d] /\ state'[d] = state[d]
             /\ contentLength'[d] = contentLength[d]
             /\ bodyReceived'[d] = bodyReceived[d]
    BY <1>1, <1>3, <2>1, HandsOver, Facts DEF IInv
  <2>3. TypeOK'
    BY <1>7, <2>2 DEF IInv, TypeOK, Body
  <2>4. taken[c].tok + n = 3 + contentLength[c]
    BY <1>1, <1>3, <1>10
  <2>5. taken'[c].tok = 0 => contentLength[c] = r.len /\ taken'[c].req = i + 1
    BY <1>2, <1>3, <1>6, <1>8, <2>4 DEF Size
  <2>6. Parsing(c)'
    BY <1>1, <2>2, <2>5 DEF Parsing, AtNext
  <2>7. \A d \in Conns \ {c} : Untouched(d)
    BY <1>6, <2>2 DEF Untouched, Body
  <2>8. IInv'
    BY <1>9, <2>2, <2>3, <2>6, <2>7, OnlyOne DEF ConnInv
  <2> QED BY <2>2, <2>8 DEF Good, Exchange!Next
<1>11. CASE /\ n < rest
            /\ bodyReceived' = [bodyReceived EXCEPT ![c] = @ + n]
            /\ loop' = Idle
            /\ UNCHANGED <<state, contentLength, handled>>
  <2>1. UNCHANGED <<sent, arrived, state, contentLength, handled, hasty>>
    BY <1>11 DEF Body
  <2>2. /\ bodyReceived' \in [Conns -> Nat]
        /\ bodyReceived'[c] = bodyReceived[c] + n
        /\ \A d \in Conns \ {c} : bodyReceived'[d] = bodyReceived[d]
    <3>1. bodyReceived' = [bodyReceived EXCEPT ![c] = bodyReceived[c] + n]
      BY <1>11
    <3>2. bodyReceived[c] + n \in Nat
      BY <1>3, <1>5
    <3> QED BY <3>1, <3>2 DEF IInv, TypeOK
  <2>3. TypeOK'
    BY <1>7, <1>11, <2>1, <2>2 DEF IInv, TypeOK
  <2>4. taken[c].tok + n < Size(r)
    BY <1>1, <1>2, <1>3, <1>5, <1>11 DEF Size
  <2>5. taken'[c] = [req |-> i, tok |-> taken[c].tok + n]
    BY <1>2, <1>1, <1>3, <1>5, <1>6, <1>8, <2>4 DEF Size
  <2>6. bodyReceived'[c] < contentLength[c]
    BY <1>3, <1>5, <1>11, <2>2
  <2>7. state[c] = "body"
    BY DEF Body
  <2>8. Parsing(c)'
    BY <1>1, <1>3, <1>5, <2>1, <2>2, <2>5, <2>6, <2>7 DEF Parsing, AtNext, AllWhole
  <2>9. InOrder(c)'
    BY <2>1, Facts DEF InOrder
  <2>10. \A d \in Conns \ {c} : Untouched(d)
    BY <1>6, <2>1, <2>2 DEF Untouched
  <2>11. IInv'
    BY <1>9, <2>3, <2>8, <2>9, <2>10, OnlyOne DEF ConnInv
  <2> QED BY <2>1, <2>11 DEF Good
<1> QED BY <1>10, <1>11 DEF Body, n

LEMMA NextGood == IInv /\ [Next]_vars => Good
<1> SUFFICES ASSUME IInv, [Next]_vars PROVE Good
  OBVIOUS
<1>1. ASSUME NEW c \in Conns, NEW r \in Requests, Send(c, r) PROVE Good
  BY <1>1, SendGood
<1>2. ASSUME NEW c \in Conns, NEW p \in Positions(c), Read(c, p) PROVE Good
  BY <1>2, ReadGood
<1>3. ASSUME NEW c \in Conns, Parse(c) PROVE Good
  <2>1. CASE NoRequest(c)
    BY <2>1, WaitGood DEF NoRequest
  <2>2. CASE RequestLine(c)
    BY <2>2, RequestLineGood
  <2>3. CASE HeadersSplit(c)
    BY <2>3, HeadersSplitGood
  <2>4. CASE Headers(c)
    BY <2>4, HeadersGood
  <2>5. CASE ChunkedBody(c)
    BY <2>5, WaitGood DEF ChunkedBody
  <2>6. CASE EndlessBody(c)
    BY <2>6, EndlessBodyGood
  <2>7. CASE Body(c)
    BY <2>7, BodyGood
  <2> QED BY <1>3, <2>1, <2>2, <2>3, <2>4, <2>5, <2>6, <2>7 DEF Parse
<1>4. CASE UNCHANGED vars
  <2>1. TypeOK'
    BY <1>4 DEF IInv, TypeOK, vars, contextVars, countVars
  <2>2. \A c \in Conns : Untouched(c)
    BY <1>4 DEF Untouched, vars, contextVars, countVars
  <2>3. IInv'
    BY <2>1, <2>2, UntouchedKeeps DEF IInv, ConnInv
  <2> QED BY <1>4, <2>3 DEF Good, vars, contextVars
<1> QED BY <1>1, <1>2, <1>3, <1>4 DEF Next

-----------------------------------------------------------------------------
(***************************************************************************)
(* The contexts and buffers of any number of connections keep their types. *)
(***************************************************************************)
THEOREM TypeCorrect == Spec => []TypeOK
<1>1. Init => IInv
  BY InitGood
<1>2. IInv /\ [Next]_vars => IInv'
  BY NextGood DEF Good
<1>3. IInv => TypeOK
  BY DEF IInv
<1> QED BY <1>1, <1>2, <1>3, PTL DEF Spec

(***************************************************************************)
(* However reads cut the streams of any number of connections, and for     *)
(* any width of an int, the parser hands over each request once, in order  *)
(* and with all of its body, as HttpExchange says.                         *)
(***************************************************************************)
THEOREM ParserImplementsExchange == Spec => ImplementsExchange
<1>1. Init => IInv /\ Exchange!Init
  BY InitGood
<1>2. IInv /\ [Next]_vars => IInv' /\ [Exchange!Next]_(Exchange!vars)
  BY NextGood DEF Good, Exchange!vars
<1> QED BY <1>1, <1>2, PTL DEF Spec, ImplementsExchange, Exchange!Spec
=============================================================================
