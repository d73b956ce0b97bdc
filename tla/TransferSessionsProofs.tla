----------------------- MODULE TransferSessionsProofs -----------------------
(***************************************************************************)
(* Theorems about TransferSessions, for any number of connections and any  *)
(* bounds.                                                                 *)
(***************************************************************************)
EXTENDS TransferSessions, FiniteSetTheorems, SequenceTheorems, TLAPS

-----------------------------------------------------------------------------
(* What a new context, or a change of one, does to the number counted.     *)

LEMMA CountedIsFinite ==
  ASSUME NEW S, NEW s \in Seq(S)
  PROVE  /\ IsFiniteSet(Counted(s)) /\ Cardinality(Counted(s)) \in Nat
         /\ Counted(s) \subseteq 1 .. Len(s)
<1>1. Len(s) \in Nat /\ DOMAIN s = 1 .. Len(s)
  BY LenProperties
<1>2. IsFiniteSet(1 .. Len(s))
  BY <1>1, FS_Interval
<1>3. Counted(s) \subseteq 1 .. Len(s)
  BY <1>1 DEF Counted
<1> QED
  BY <1>2, <1>3, FS_Subset, FS_CardinalityType

LEMMA Changed ==
  ASSUME NEW S, NEW s \in Seq(S), NEW i \in 1 .. Len(s), NEW y \in S
  PROVE  LET t == [s EXCEPT ![i] = y]
         IN  /\ t \in Seq(S) /\ Len(t) = Len(s)
             /\ (s[i].counted <=> y.counted) => Counted(t) = Counted(s)
             /\ s[i].counted /\ ~y.counted =>
                  /\ Cardinality(Counted(s)) > 0
                  /\ Cardinality(Counted(t)) = Cardinality(Counted(s)) - 1
<1> DEFINE t == [s EXCEPT ![i] = y]
<1>1. /\ t \in Seq(S) /\ Len(t) = Len(s) /\ DOMAIN s = 1 .. Len(s)
      /\ DOMAIN t = 1 .. Len(s)
      /\ \A j \in 1 .. Len(s) : t[j] = IF j = i THEN y ELSE s[j]
  BY ExceptSeq, LenProperties
<1>2. (s[i].counted <=> y.counted) => Counted(t) = Counted(s)
  BY <1>1 DEF Counted
<1>3. ASSUME s[i].counted, ~y.counted
      PROVE  /\ Cardinality(Counted(s)) > 0
             /\ Cardinality(Counted(t)) = Cardinality(Counted(s)) - 1
  <2>1. i \in Counted(s) /\ Counted(t) = Counted(s) \ {i}
    BY <1>1, <1>3 DEF Counted
  <2>2. /\ IsFiniteSet(Counted(s)) /\ Cardinality(Counted(s)) \in Nat
        /\ Cardinality(Counted(t)) \in Nat
    BY <1>1, CountedIsFinite
  <2>3. Cardinality(Counted(t)) = Cardinality(Counted(s)) - 1
    BY <2>1, <2>2, FS_RemoveElement
  <2> QED
    BY <2>2, <2>3
<1> QED
  BY <1>1, <1>2, <1>3

LEMMA Appended ==
  ASSUME NEW S, NEW s \in Seq(S), NEW y \in S
  PROVE  LET t == Append(s, y)
         IN  /\ t \in Seq(S) /\ Len(t) = Len(s) + 1
             /\ y.counted =>
                  Cardinality(Counted(t)) = Cardinality(Counted(s)) + 1
             /\ ~y.counted => Counted(t) = Counted(s)
<1> DEFINE t == Append(s, y)
<1>1. /\ t \in Seq(S) /\ Len(t) = Len(s) + 1 /\ Len(s) \in Nat
      /\ DOMAIN s = 1 .. Len(s) /\ DOMAIN t = 1 .. Len(s) + 1
      /\ \A j \in 1 .. Len(s) : t[j] = s[j]
      /\ t[Len(s) + 1] = y
  BY AppendProperties, LenProperties
<1>2. ~y.counted => Counted(t) = Counted(s)
  BY <1>1 DEF Counted
<1>3. ASSUME y.counted
      PROVE  Cardinality(Counted(t)) = Cardinality(Counted(s)) + 1
  <2>1. Counted(t) = Counted(s) \cup {Len(s) + 1} /\ Len(s) + 1 \notin Counted(s)
    BY <1>1, <1>3 DEF Counted
  <2>2. IsFiniteSet(Counted(s)) /\ Cardinality(Counted(s)) \in Nat
    BY CountedIsFinite
  <2> QED
    BY <2>1, <2>2, FS_AddElement
<1> QED
  BY <1>1, <1>2, <1>3

-----------------------------------------------------------------------------
(* Types and counters are one inductive invariant: that the floor of a     *)
(* counter is never hit follows from what it counts.                       *)

Inv == TypeOK /\ Accounting

\* Callbacks queued earlier stay callbacks when downloads are added.
LEMMA OldQueues ==
  ASSUME TypeOK, Len(down) <= Len(down'), Len(down') \in Nat
  PROVE  /\ Callbacks \subseteq Callbacks'
         /\ queued \in [Conns -> Seq(Callbacks')]
         /\ callback \in [Conns -> Callbacks' \cup {None}]
<1>1. Callbacks \subseteq Callbacks'
  <2>1. Len(down) \in Nat
    BY LenProperties DEF TypeOK
  <2> QED
    BY <2>1 DEF Callbacks
<1>2. \A c \in Conns : queued[c] \in Seq(Callbacks')
  <2> SUFFICES ASSUME NEW c \in Conns
               PROVE  queued[c] \in Seq(Callbacks')
    OBVIOUS
  <2>1. queued[c] \in Seq(Callbacks)
    BY DEF TypeOK
  <2> QED
    BY <1>1, <2>1, SeqMonotonic
<1> QED
  BY <1>1, <1>2 DEF TypeOK

LEMMA SendTyped ==
  ASSUME TypeOK, NEW c \in Conns, NEW q \in Seq(Callbacks'),
         NEW cb \in Callbacks' \cup {None},
         queued \in [Conns -> Seq(Callbacks')], Send(c, q, cb)
  PROVE  out' \in [Conns -> BOOLEAN] /\ queued' \in [Conns -> Seq(Callbacks')]
<1>1. cb # None => Append(q, cb) \in Seq(Callbacks')
  BY AppendProperties
<1>2. out' \in [Conns -> BOOLEAN]
  BY DEF Send, TypeOK
<1>3. PICK s \in Seq(Callbacks') : queued' = [queued EXCEPT ![c] = s]
  BY <1>1 DEF Send
<1>4. queued' \in [Conns -> Seq(Callbacks')]
  BY <1>3
<1> QED
  BY <1>2, <1>4

LEMMA RespondTyped ==
  ASSUME TypeOK, NEW c \in Conns, NEW cb \in Callbacks' \cup {None},
         queued \in [Conns -> Seq(Callbacks')],
         NEW close \in BOOLEAN, Respond(c, cb, close)
  PROVE  /\ out' \in [Conns -> BOOLEAN] /\ queued' \in [Conns -> Seq(Callbacks')]
         /\ link' \in [Conns -> {"new", "open", "closing", "closed"}]
<1>1. queued[c] \in Seq(Callbacks')
  OBVIOUS
<1>2. out' \in [Conns -> BOOLEAN] /\ queued' \in [Conns -> Seq(Callbacks')]
  BY <1>1, SendTyped DEF Respond
<1>3. link' \in [Conns -> {"new", "open", "closing", "closed"}]
  BY DEF Respond, ShutDown, TypeOK
<1> QED
  BY <1>2, <1>3

\* A body whose parts on connection c become h and l of n stays within its length.
LEMMA BodyKept ==
  ASSUME TypeOK, NEW c \in Conns, NEW l \in 0 .. Size, NEW h \in 0 .. Size,
         NEW n \in 0 .. Size, h + l <= n,
         left' = [left EXCEPT ![c] = l], held' = [held EXCEPT ![c] = h],
         length' = [length EXCEPT ![c] = n]
  PROVE  /\ length' \in [Conns -> 0 .. Size]
         /\ left' \in [Conns -> 0 .. Size]
         /\ held' \in [Conns -> 0 .. Size]
         /\ \A b \in Conns : held'[b] + left'[b] <= length'[b]
<1>1. /\ length' \in [Conns -> 0 .. Size] /\ left' \in [Conns -> 0 .. Size]
      /\ held' \in [Conns -> 0 .. Size]
  BY DEF TypeOK
<1>2. \A b \in Conns \ {c} : held'[b] + left'[b] <= length'[b]
  BY DEF TypeOK
<1>3. held'[c] = h /\ left'[c] = l /\ length'[c] = n
  BY DEF TypeOK
<1> QED
  BY <1>1, <1>2, <1>3

\* What the end of a handler leaves of the body, and its answer.
LEMMA HandlerTyped ==
  ASSUME TypeOK, NEW c \in Conns, NEW k \in 0 .. Size, Reads(c, k),
         NEW kept \in 0 .. Size, kept <= held[c] + k,
         callback'[c] \in Callbacks' \cup {None},
         queued \in [Conns -> Seq(Callbacks')],
         NEW close \in BOOLEAN, AfterHandler(c, k, kept, close)
  PROVE  /\ out' \in [Conns -> BOOLEAN] /\ queued' \in [Conns -> Seq(Callbacks')]
         /\ link' \in [Conns -> {"new", "open", "closing", "closed"}]
         /\ reading' \in [Conns -> BOOLEAN]
         /\ length' \in [Conns -> 0 .. Size]
         /\ left' \in [Conns -> 0 .. Size]
         /\ held' \in [Conns -> 0 .. Size]
         /\ \A b \in Conns : held'[b] + left'[b] <= length'[b]
<1>0. PICK l \in 0 .. Size : /\ kept + l <= length[c]
                             /\ Last(c, k) => l = 0
                             /\ left' = [left EXCEPT ![c] = l]
  <2>1. /\ left[c] \in 0 .. Size /\ held[c] \in 0 .. Size /\ length[c] \in 0 .. Size
        /\ held[c] + left[c] <= length[c] /\ k <= left[c]
    BY DEF TypeOK, Reads
  <2>2. \A a, h, n \in 0 .. Size : h + a <= n /\ k <= a /\ kept <= h + k =>
          /\ a - k \in 0 .. Size /\ kept + (a - k) <= n
          /\ k = a => a - k = 0
    BY BoundsAssumption
  <2>3. left' = [left EXCEPT ![c] = left[c] - k]
    BY DEF AfterHandler
  <2>4. /\ left[c] - k \in 0 .. Size /\ kept + (left[c] - k) <= length[c]
        /\ k = left[c] => left[c] - k = 0
    BY <2>1, <2>2
  <2> QED
    BY <2>3, <2>4 DEF Last
<1>1. CASE Last(c, k)
  <2>1. Respond(c, callback'[c], close)
    BY <1>1 DEF AfterHandler
  <2>2. /\ out' \in [Conns -> BOOLEAN] /\ queued' \in [Conns -> Seq(Callbacks')]
        /\ link' \in [Conns -> {"new", "open", "closing", "closed"}]
    BY <2>1, RespondTyped
  <2> QED
    <3>1. /\ length' = [length EXCEPT ![c] = 0] /\ held' = [held EXCEPT ![c] = 0]
          /\ reading' \in [Conns -> BOOLEAN]
      BY <1>1 DEF AfterHandler, TypeOK
    <3>2. 0 \in 0 .. Size /\ 0 + l <= 0
      BY <1>0, <1>1, BoundsAssumption
    <3> QED
      BY <1>0, <2>2, <3>1, <3>2, BodyKept
<1>2. CASE ~Last(c, k)
  <2>1. /\ held' = [held EXCEPT ![c] = kept] /\ UNCHANGED <<link, out, queued, reading>>
        /\ length' = [length EXCEPT ![c] = length[c]] /\ length[c] \in 0 .. Size
    BY <1>2 DEF AfterHandler, TypeOK
  <2>2. /\ length' \in [Conns -> 0 .. Size] /\ left' \in [Conns -> 0 .. Size]
        /\ held' \in [Conns -> 0 .. Size]
        /\ \A b \in Conns : held'[b] + left'[b] <= length'[b]
    BY <1>0, <2>1, BodyKept
  <2> QED
    BY <2>1, <2>2 DEF TypeOK
<1> QED
  BY <1>1, <1>2

LEMMA InvInit == Init => Inv
<1> SUFFICES ASSUME Init
             PROVE  Inv
  OBVIOUS
<1>1. up = << >> /\ down = << >> /\ Len(up) = 0 /\ Len(down) = 0
  BY DEF Init
<1>2. up \in Seq(UploadContext) /\ down \in Seq(DownloadContext)
  BY <1>1
<1>3. << >> \in Seq(Callbacks)
  OBVIOUS
<1>4. TypeOK
  BY <1>1, <1>2, <1>3, BoundsAssumption DEF Init, TypeOK, None
<1>5. Counted(up) = {} /\ Counted(down) = {}
  BY <1>1 DEF Counted
<1>6. Accounting
  BY <1>5, FS_EmptySet DEF Init, Accounting
<1> QED
  BY <1>4, <1>6 DEF Inv

\* Steps that touch no context.
LEMMA InvQuiet ==
  ASSUME Inv, NEW c \in Conns,
         \/ Connect(c) \/ Drain(c) \/ RunShutdown(c)
         \/ \E n \in 0 .. Size : StartUpload(c, n)
         \/ \E k \in 0 .. Size : BodyWaits(c, k)
         \/ \E k \in 0 .. Size, close \in BOOLEAN : UploadRefused(c, k, close)
         \/ \E cb \in {callback[c], Shutdown}, close \in BOOLEAN :
              Answer(c, cb, close)
  PROVE  Inv'
<1> USE DEF entries, shown, parser, tcp
<1>1. UNCHANGED <<entryUp, entryDown, shownUp, shownDown, up, down,
                  activeUploads, activeDownloads>>
  BY DEF Connect, Drain, RunShutdown, StartUpload, BodyWaits, UploadRefused, Answer
<1>2. Accounting'
  BY <1>1 DEF Inv, Accounting, Counted
<1>3. Callbacks' = Callbacks
  BY <1>1 DEF Callbacks
<1>4. TypeOK
  BY DEF Inv
<1>5. queued \in [Conns -> Seq(Callbacks')] /\ queued[c] \in Seq(Callbacks)
  BY <1>3, <1>4 DEF TypeOK
<1> DEFINE Rest ==
      /\ link' \in [Conns -> {"new", "open", "closing", "closed"}]
      /\ out' \in [Conns -> BOOLEAN]
      /\ callback' \in [Conns -> Callbacks' \cup {None}]
      /\ queued' \in [Conns -> Seq(Callbacks')]
      /\ reading' \in [Conns -> BOOLEAN]
      /\ length' \in [Conns -> 0 .. Size]
      /\ left' \in [Conns -> 0 .. Size]
      /\ held' \in [Conns -> 0 .. Size]
      /\ overlapped' \in [Conns -> BOOLEAN]
      /\ \A b \in Conns : held'[b] + left'[b] <= length'[b]
<1>6. Rest => TypeOK'
  BY <1>1, <1>4 DEF TypeOK
<1>7. CASE Connect(c)
  <2>1. Rest
    BY <1>3, <1>4, <1>7 DEF Connect, TypeOK
  <2> QED
    BY <1>2, <1>6, <2>1 DEF Inv
<1>8. CASE Drain(c)
  <2>1. callback[c] # None => Append(queued[c], callback[c]) \in Seq(Callbacks)
    BY <1>4, <1>5, AppendProperties DEF TypeOK
  <2>2. Rest
    BY <1>3, <1>4, <1>8, <2>1 DEF Drain, TypeOK
  <2> QED
    BY <1>2, <1>6, <2>2 DEF Inv
<1>9. CASE RunShutdown(c)
  <2>1. Tail(queued[c]) \in Seq(Callbacks)
    BY <1>5, <1>9, HeadTailProperties DEF RunShutdown
  <2>2. Rest
    BY <1>3, <1>4, <1>9, <2>1 DEF RunShutdown, ShutDown, TypeOK
  <2> QED
    BY <1>2, <1>6, <2>2 DEF Inv
<1>10. CASE \E n \in 0 .. Size : StartUpload(c, n)
  <2>1. PICK n \in 0 .. Size : StartUpload(c, n)
    BY <1>10
  <2>2. Busy(c) \in BOOLEAN
    BY DEF Busy
  <2>3. /\ reading' = [reading EXCEPT ![c] = TRUE]
        /\ overlapped' = [overlapped EXCEPT ![c] = @ \/ Busy(c)]
        /\ length' = [length EXCEPT ![c] = n] /\ left' = [left EXCEPT ![c] = n]
        /\ held' = [held EXCEPT ![c] = 0]
        /\ UNCHANGED <<link, out, callback, queued>>
    BY <2>1 DEF StartUpload, Asks
  <2>4. /\ length' \in [Conns -> 0 .. Size] /\ left' \in [Conns -> 0 .. Size]
        /\ held' \in [Conns -> 0 .. Size]
        /\ \A b \in Conns : held'[b] + left'[b] <= length'[b]
    <3>1. 0 \in 0 .. Size /\ 0 + n <= n
      BY BoundsAssumption
    <3> QED
      BY <1>4, <2>3, <3>1, BodyKept
  <2>5. reading' \in [Conns -> BOOLEAN] /\ overlapped' \in [Conns -> BOOLEAN]
    BY <1>4, <2>2, <2>3 DEF TypeOK
  <2>6. Rest
    BY <1>3, <1>4, <2>3, <2>4, <2>5 DEF TypeOK
  <2> QED
    BY <1>2, <1>6, <2>6 DEF Inv
<1>11. CASE \E k \in 0 .. Size : BodyWaits(c, k)
  <2>1. PICK k \in 0 .. Size : BodyWaits(c, k)
    BY <1>11
  <2>2. /\ left[c] - k \in 0 .. Size /\ held[c] + k \in 0 .. Size
        /\ (held[c] + k) + (left[c] - k) <= length[c]
    <3>1. /\ left[c] \in 0 .. Size /\ held[c] \in 0 .. Size /\ length[c] \in 0 .. Size
          /\ held[c] + left[c] <= length[c] /\ k <= left[c]
      BY <1>4, <2>1 DEF TypeOK, BodyWaits, Reads
    <3> QED
      BY <3>1, BoundsAssumption
  <2>3. Rest
    BY <1>3, <1>4, <2>1, <2>2 DEF BodyWaits, TypeOK
  <2> QED
    BY <1>2, <1>6, <2>3 DEF Inv
<1>12. CASE \E k \in 0 .. Size, close \in BOOLEAN : UploadRefused(c, k, close)
  <2>1. PICK k \in 0 .. Size, close \in BOOLEAN : UploadRefused(c, k, close)
    BY <1>12
  <2>2. Shutdown \in Callbacks
    BY DEF Callbacks
  <2>3. callback' \in [Conns -> Callbacks' \cup {None}] /\ callback'[c] = Shutdown
    BY <1>3, <1>4, <2>1, <2>2 DEF UploadRefused, TypeOK
  <2>4. Reads(c, k) /\ AfterHandler(c, k, held[c] + k, close)
    BY <2>1 DEF UploadRefused
  <2>5. held[c] + k \in 0 .. Size
    BY SMTT(30), <1>4, <2>4, BoundsAssumption DEF TypeOK, Reads
  <2>6. Rest
    <3>1. callback'[c] \in Callbacks' \cup {None} /\ held[c] + k <= held[c] + k
      BY <1>3, <2>2, <2>3, <2>5
    <3>2. overlapped' \in [Conns -> BOOLEAN]
      BY <1>4, <2>1 DEF UploadRefused, TypeOK
    <3>3. /\ out' \in [Conns -> BOOLEAN] /\ queued' \in [Conns -> Seq(Callbacks')]
          /\ link' \in [Conns -> {"new", "open", "closing", "closed"}]
          /\ reading' \in [Conns -> BOOLEAN]
          /\ length' \in [Conns -> 0 .. Size]
          /\ left' \in [Conns -> 0 .. Size]
          /\ held' \in [Conns -> 0 .. Size]
          /\ \A b \in Conns : held'[b] + left'[b] <= length'[b]
      BY <1>4, <1>5, <2>4, <2>5, <3>1, HandlerTyped
    <3> QED
      BY <2>3, <3>2, <3>3
  <2> QED
    BY <1>2, <1>6, <2>6 DEF Inv
<1>13. CASE \E cb \in {callback[c], Shutdown}, close \in BOOLEAN :
              Answer(c, cb, close)
  <2>1. PICK cb \in {callback[c], Shutdown}, close \in BOOLEAN :
           Answer(c, cb, close)
    BY <1>13
  <2>2. cb \in Callbacks' \cup {None}
    BY <1>3, <1>4 DEF Callbacks, TypeOK
  <2>3. Respond(c, cb, close) /\ Busy(c) \in BOOLEAN
    BY <2>1 DEF Answer, Busy
  <2>4. /\ out' \in [Conns -> BOOLEAN] /\ queued' \in [Conns -> Seq(Callbacks')]
        /\ link' \in [Conns -> {"new", "open", "closing", "closed"}]
    BY <1>4, <1>5, <2>2, <2>3, RespondTyped
  <2>5. Rest
    BY <1>3, <1>4, <2>1, <2>2, <2>3, <2>4 DEF Answer, Asks, TypeOK
  <2> QED
    BY <1>2, <1>6, <2>5 DEF Inv
<1> QED
  BY <1>7, <1>8, <1>9, <1>10, <1>11, <1>12, <1>13

\* What the invariant says of contexts and their counters.
Facts == /\ Len(up) \in Nat /\ DOMAIN up = 1 .. Len(up)
         /\ Len(down) \in Nat /\ DOMAIN down = 1 .. Len(down)
         /\ up \in Seq(UploadContext) /\ down \in Seq(DownloadContext)
         /\ \A u \in 1 .. Len(up) : up[u] \in UploadContext
         /\ \A d \in 1 .. Len(down) : down[d] \in DownloadContext
         /\ activeUploads \in Nat /\ activeDownloads \in Nat
         /\ activeUploads = Cardinality(Counted(up))
         /\ activeDownloads = Cardinality(Counted(down))

LEMMA CountedFacts == Inv => Facts
BY LenProperties, ElementOfSeq DEF Inv, TypeOK, Accounting, Facts

\* A body goes to the context of the connection or to a new one.
LEMMA InvTakeBody ==
  ASSUME Inv, NEW c \in Conns, NEW k \in 0 .. Size, Reads(c, k),
         NEW outcome \in Outcomes, NEW close \in BOOLEAN,
         NEW u, NEW x \in UploadContext, NEW counters \in Nat,
         \/ u \in 1 .. Len(up) /\ x = up[u] /\ counters = activeUploads
         \/ /\ u = Len(up) + 1 /\ Len(up) < MaxUploads
            /\ x.counted /\ counters = activeUploads + 1,
         TakeBody(c, k, u, x, counters, outcome, close)
  PROVE  Inv'
<1> DEFINE taken == held[c] + k
           total == IF outcome = "failed" THEN x.total ELSE x.total + taken
           done  == Last(c, k) \/ (length[c] > 0 /\ total >= length[c])
           drop  == done /\ x.counted
           y == [x EXCEPT !.counted = @ /\ ~done,
                          !.total = total,
                          !.failed = @ \/ outcome # "stored",
                          !.finished = IF done THEN total ELSE @]
<1>0. TypeOK
  BY DEF Inv
<1>f. Facts
  BY CountedFacts
<1>1. taken \in Nat /\ total \in Nat /\ x.counted \in BOOLEAN
  <2>1. held[c] \in Nat /\ k \in Nat /\ x.total \in Nat /\ x.counted \in BOOLEAN
    BY <1>0, BoundsAssumption DEF TypeOK, UploadContext
  <2> QED
    BY <2>1
<1>2. done \in BOOLEAN
  BY DEF Last
<1>3. /\ up' = IF u \in DOMAIN up THEN [up EXCEPT ![u] = y] ELSE Append(up, y)
      /\ activeUploads' = IF drop THEN Decrement(counters) ELSE counters
      /\ shownUp' = [shownUp EXCEPT ![c] = IF drop THEN None ELSE
                                           IF u \in DOMAIN up THEN @ ELSE u]
      /\ entryUp' = [entryUp EXCEPT ![c] = IF done THEN None ELSE u]
      /\ entryDown' = [entryDown EXCEPT ![c] = IF done THEN None ELSE @]
      /\ callback' = [callback EXCEPT ![c] = IF done THEN Shutdown ELSE @]
      /\ AfterHandler(c, k, 0, close)
      /\ UNCHANGED <<shownDown, down, activeDownloads, overlapped>>
  BY DEF TakeBody
<1> HIDE DEF total, taken, done
<1>4. y \in UploadContext /\ y.counted = (x.counted /\ ~done)
  BY <1>1, <1>2 DEF UploadContext
<1> HIDE DEF y
<1>5. /\ up' \in Seq(UploadContext) /\ Len(up') <= MaxUploads
      /\ Len(up) <= Len(up') /\ u \in 1 .. Len(up')
      /\ Len(up') \in Nat /\ Len(up) \in Nat
      /\ activeUploads' \in Nat /\ activeUploads' = Cardinality(Counted(up'))
  <2>1. CASE u \in 1 .. Len(up) /\ x = up[u] /\ counters = activeUploads
    <3>1. up' = [up EXCEPT ![u] = y]
      BY <1>f, <1>3, <2>1 DEF Facts
    <3>2. /\ up' \in Seq(UploadContext) /\ Len(up') = Len(up)
          /\ (up[u].counted <=> y.counted) => Counted(up') = Counted(up)
          /\ up[u].counted /\ ~y.counted =>
               /\ Cardinality(Counted(up)) > 0
               /\ Cardinality(Counted(up')) = Cardinality(Counted(up)) - 1
      <4>1. up \in Seq(UploadContext) /\ u \in 1 .. Len(up)
        BY <1>f, <2>1 DEF Facts
      <4>2. y \in UploadContext
        BY <1>4
      <4> DEFINE t == [up EXCEPT ![u] = y]
      <4>3. /\ t \in Seq(UploadContext) /\ Len(t) = Len(up)
            /\ (up[u].counted <=> y.counted) => Counted(t) = Counted(up)
            /\ up[u].counted /\ ~y.counted =>
                 /\ Cardinality(Counted(up)) > 0
                 /\ Cardinality(Counted(t)) = Cardinality(Counted(up)) - 1
        BY <4>1, <4>2, Changed
      <4> QED
        BY <3>1, <4>3
    <3>3. activeUploads' \in Nat /\ activeUploads' = Cardinality(Counted(up'))
      <4>1. CASE drop
        <5>1. up[u].counted /\ ~y.counted
          BY <1>4, <2>1, <4>1
        <5> QED
          BY <1>f, <1>3, <2>1, <3>2, <4>1, <5>1 DEF Decrement, Facts
      <4>2. CASE ~drop
        <5>1. up[u].counted <=> y.counted
          BY <1>1, <1>2, <1>4, <2>1, <4>2
        <5> QED
          BY <1>f, <1>3, <2>1, <3>2, <4>2, <5>1 DEF Facts
      <4> QED
        BY <4>1, <4>2
    <3> QED
      BY <1>f, <1>0, <2>1, <3>2, <3>3 DEF TypeOK, Facts
  <2>2. CASE /\ u = Len(up) + 1 /\ Len(up) < MaxUploads
             /\ x.counted /\ counters = activeUploads + 1
    <3>1. up' = Append(up, y)
      <4>1. u \notin DOMAIN up
        BY <1>f, <2>2 DEF Facts
      <4> QED
        BY <1>3, <4>1
    <3>2. /\ up' \in Seq(UploadContext) /\ Len(up') = Len(up) + 1
          /\ y.counted => Cardinality(Counted(up')) = Cardinality(Counted(up)) + 1
          /\ ~y.counted => Counted(up') = Counted(up)
      <4>1. up \in Seq(UploadContext)
        BY <1>f DEF Facts
      <4> QED
        BY <1>4, <3>1, <4>1, Appended
    <3>3. activeUploads' \in Nat /\ activeUploads' = Cardinality(Counted(up'))
      <4>1. CASE drop
        <5>1. ~y.counted
          BY <1>4, <4>1
        <5> QED
          BY <1>f, <1>3, <2>2, <3>2, <4>1, <5>1 DEF Decrement, Facts
      <4>2. CASE ~drop
        <5>1. y.counted
          BY <1>4, <2>2, <4>2
        <5> QED
          BY <1>f, <1>3, <2>2, <3>2, <4>2, <5>1 DEF Facts
      <4> QED
        BY <4>1, <4>2
    <3> QED
      BY <1>f, <1>0, <2>2, <3>2, <3>3, BoundsAssumption DEF Facts
  <2> QED
    BY <2>1, <2>2
<1>6. Callbacks' = Callbacks
  BY <1>3 DEF Callbacks
<1>7. /\ entryUp' \in [Conns -> 0 .. Len(up')]
      /\ shownUp' \in [Conns -> 0 .. Len(up')]
  <2>1. 0 .. Len(up) \subseteq 0 .. Len(up') /\ u \in 0 .. Len(up') /\ 0 \in 0 .. Len(up')
    BY <1>5
  <2> QED
    BY <1>0, <1>3, <2>1 DEF TypeOK, None
<1>8. /\ entryDown' \in [Conns -> 0 .. Len(down')]
      /\ shownDown' \in [Conns -> 0 .. Len(down')]
      /\ callback' \in [Conns -> Callbacks' \cup {None}]
      /\ queued \in [Conns -> Seq(Callbacks')]
  <2>1. 0 \in 0 .. Len(down) /\ Shutdown \in Callbacks
    BY <1>f DEF Facts, Callbacks
  <2>2. UNCHANGED <<down, shownDown>>
    BY <1>3
  <2> QED
    BY <1>0, <1>3, <1>6, <2>1, <2>2 DEF TypeOK, None
<1>9. /\ out' \in [Conns -> BOOLEAN] /\ queued' \in [Conns -> Seq(Callbacks')]
      /\ link' \in [Conns -> {"new", "open", "closing", "closed"}]
      /\ reading' \in [Conns -> BOOLEAN]
      /\ length' \in [Conns -> 0 .. Size]
      /\ left' \in [Conns -> 0 .. Size]
      /\ held' \in [Conns -> 0 .. Size]
      /\ \A b \in Conns : held'[b] + left'[b] <= length'[b]
  <2>1. 0 \in 0 .. Size /\ 0 <= held[c] + k
    BY SMTT(30), <1>0, BoundsAssumption DEF TypeOK
  <2>2. callback'[c] \in Callbacks' \cup {None}
    BY <1>8
  <2>3. AfterHandler(c, k, 0, close) /\ queued \in [Conns -> Seq(Callbacks')]
    BY <1>3, <1>8
  <2> QED
    BY <1>0, <2>1, <2>2, <2>3, HandlerTyped
<1>10. TypeOK'
  BY <1>0, <1>3, <1>5, <1>7, <1>8, <1>9 DEF TypeOK
<1>11. Accounting'
  BY <1>f, <1>3, <1>5 DEF Accounting, Facts
<1> QED
  BY <1>10, <1>11 DEF Inv

LEMMA InvUpload ==
  ASSUME Inv, NEW c \in Conns, NEW k \in 0 .. Size, NEW outcome \in Outcomes,
         NEW close \in BOOLEAN,
         UploadGoesOn(c, k, outcome, close) \/ UploadBegins(c, k, outcome, close)
  PROVE  Inv'
<1>1. TypeOK
  BY DEF Inv
<1>f. Facts
  BY CountedFacts
<1>2. CASE UploadGoesOn(c, k, outcome, close)
  <2>1. entryUp[c] \in 1 .. Len(up)
    BY <1>f, <1>1, <1>2 DEF UploadGoesOn, TypeOK, None, Facts
  <2>2. up[entryUp[c]] \in UploadContext
    BY <1>f, <2>1 DEF Facts
  <2> QED
    BY <1>f, <1>2, <2>1, <2>2, InvTakeBody DEF UploadGoesOn, Facts
<1>3. CASE UploadBegins(c, k, outcome, close)
  <2> DEFINE x == [conn |-> c, counted |-> TRUE, length |-> length[c],
                   total |-> 0, failed |-> FALSE, finished |-> -1]
  <2>1. x \in UploadContext /\ x.counted
    BY <1>1 DEF UploadContext, TypeOK
  <2>2. activeUploads + 1 \in Nat
    BY <1>f DEF Facts
  <2>3. Reads(c, k) /\ Len(up) < MaxUploads
        /\ TakeBody(c, k, Len(up) + 1, x, activeUploads + 1, outcome, close)
    BY <1>3 DEF UploadBegins
  <2> HIDE DEF x
  <2> QED
    BY <2>1, <2>2, <2>3, InvTakeBody
<1> QED
  BY <1>2, <1>3

\* Releasing a context that is counted, or leaving all as they are.
LEMMA Released ==
  ASSUME NEW S, NEW s \in Seq(S), NEW i, NEW y, NEW open \in BOOLEAN,
         open => i \in 1 .. Len(s) /\ s[i].counted /\ y \in S /\ ~y.counted,
         NEW n \in Nat, n = Cardinality(Counted(s)),
         NEW t, t = IF open THEN [s EXCEPT ![i] = y] ELSE s,
         NEW m, m = IF open THEN Decrement(n) ELSE n
  PROVE  /\ t \in Seq(S) /\ Len(t) = Len(s)
         /\ m \in Nat /\ m = Cardinality(Counted(t))
<1>1. CASE open
  <2> DEFINE r == [s EXCEPT ![i] = y]
  <2>1. i \in 1 .. Len(s) /\ y \in S /\ s[i].counted /\ ~y.counted
    BY <1>1
  <2>2. /\ r \in Seq(S) /\ Len(r) = Len(s)
        /\ s[i].counted /\ ~y.counted =>
             /\ Cardinality(Counted(s)) > 0
             /\ Cardinality(Counted(r)) = Cardinality(Counted(s)) - 1
    BY <2>1, Changed
  <2>3. t = r
    BY <1>1
  <2> QED
    BY <1>1, <2>1, <2>2, <2>3 DEF Decrement
<1>2. CASE ~open
  BY <1>2
<1> QED
  BY <1>1, <1>2

LEMMA InvClose ==
  ASSUME Inv, NEW c \in Conns, Close(c)
  PROVE  Inv'
<1>0. TypeOK
  BY DEF Inv
<1>f. Facts
  BY CountedFacts
<1> DEFINE u == entryUp[c]
           d == entryDown[c]
           upOpen   == u # None /\ up[u].counted
           downOpen == d # None /\ down[d].counted
           y == [up[u] EXCEPT !.counted = FALSE]
           z == [down[d] EXCEPT !.counted = FALSE]
<1>1. /\ up' = IF upOpen THEN [up EXCEPT ![u] = y] ELSE up
      /\ activeUploads' = IF upOpen THEN Decrement(activeUploads) ELSE activeUploads
      /\ down' = IF downOpen THEN [down EXCEPT ![d] = z] ELSE down
      /\ activeDownloads' =
           IF downOpen THEN Decrement(activeDownloads) ELSE activeDownloads
  BY DEF Close
<1>2. u \in 0 .. Len(up) /\ d \in 0 .. Len(down)
  BY <1>0 DEF TypeOK
<1>3. upOpen \in BOOLEAN /\
      (upOpen => u \in 1 .. Len(up) /\ up[u].counted /\ y \in UploadContext /\ ~y.counted)
  <2>1. upOpen => u \in 1 .. Len(up)
    BY <1>f, <1>2 DEF Facts, None
  <2>2. u \in 1 .. Len(up) => up[u] \in UploadContext
    BY <1>f DEF Facts
  <2>3. u \in 1 .. Len(up) => y \in UploadContext /\ ~y.counted
    BY <2>2 DEF UploadContext
  <2>4. upOpen \in BOOLEAN
    BY <1>2, <1>f, <2>2 DEF None, UploadContext, Facts
  <2> QED
    BY <2>1, <2>3, <2>4
<1>4. downOpen \in BOOLEAN /\
      (downOpen => d \in 1 .. Len(down) /\ down[d].counted
                   /\ z \in DownloadContext /\ ~z.counted)
  <2>1. downOpen => d \in 1 .. Len(down)
    BY <1>f, <1>2 DEF Facts, None
  <2>2. d \in 1 .. Len(down) => down[d] \in DownloadContext
    BY <1>f DEF Facts
  <2>3. d \in 1 .. Len(down) => z \in DownloadContext /\ ~z.counted
    BY <2>2 DEF DownloadContext
  <2>4. downOpen \in BOOLEAN
    BY <1>2, <1>f, <2>2 DEF None, DownloadContext, Facts
  <2> QED
    BY <2>1, <2>3, <2>4
<1>5. /\ up' \in Seq(UploadContext) /\ Len(up') = Len(up)
      /\ activeUploads' \in Nat /\ activeUploads' = Cardinality(Counted(up'))
  <2> HIDE DEF upOpen, y, u
  <2>1. up \in Seq(UploadContext) /\ activeUploads \in Nat
        /\ activeUploads = Cardinality(Counted(up))
    BY <1>f DEF Facts
  <2> QED
    BY <1>1, <1>3, <2>1, Released
<1>6. /\ down' \in Seq(DownloadContext) /\ Len(down') = Len(down)
      /\ activeDownloads' \in Nat /\ activeDownloads' = Cardinality(Counted(down'))
  <2> HIDE DEF downOpen, z, d
  <2>1. down \in Seq(DownloadContext) /\ activeDownloads \in Nat
        /\ activeDownloads = Cardinality(Counted(down))
    BY <1>f DEF Facts
  <2> QED
    BY <1>1, <1>4, <2>1, Released
<1>7. Callbacks' = Callbacks
  BY <1>6 DEF Callbacks
<1>8. /\ shownUp' = IF upOpen THEN [shownUp EXCEPT ![c] = None] ELSE shownUp
      /\ shownDown' = IF downOpen THEN [shownDown EXCEPT ![c] = None] ELSE shownDown
      /\ entryUp' = [entryUp EXCEPT ![c] = None]
      /\ entryDown' = [entryDown EXCEPT ![c] = None]
      /\ link' = [link EXCEPT ![c] = "closed"]
      /\ out' = [out EXCEPT ![c] = FALSE]
      /\ reading' = [reading EXCEPT ![c] = FALSE]
      /\ length' = [length EXCEPT ![c] = 0]
      /\ left' = [left EXCEPT ![c] = 0]
      /\ held' = [held EXCEPT ![c] = 0]
      /\ UNCHANGED <<callback, queued, overlapped>>
  BY DEF Close
<1> HIDE DEF upOpen, downOpen, y, z
<1>9. /\ entryUp' \in [Conns -> 0 .. Len(up')]
      /\ entryDown' \in [Conns -> 0 .. Len(down')]
      /\ shownUp' \in [Conns -> 0 .. Len(up')]
      /\ shownDown' \in [Conns -> 0 .. Len(down')]
  <2>1. 0 \in 0 .. Len(up) /\ 0 \in 0 .. Len(down)
    BY <1>f DEF Facts
  <2> QED
    BY <1>0, <1>5, <1>6, <1>8, <2>1 DEF TypeOK, None
<1>10. /\ length' \in [Conns -> 0 .. Size]
       /\ left' \in [Conns -> 0 .. Size]
       /\ held' \in [Conns -> 0 .. Size]
       /\ \A b \in Conns : held'[b] + left'[b] <= length'[b]
  <2>1. 0 \in 0 .. Size /\ 0 + 0 <= 0
    BY BoundsAssumption
  <2> QED
    BY <1>0, <1>8, <2>1, BodyKept
<1>11. TypeOK'
  BY <1>0, <1>5, <1>6, <1>7, <1>8, <1>9, <1>10 DEF TypeOK
<1> QED
  BY <1>5, <1>6, <1>11 DEF Inv, Accounting

LEMMA InvDownload ==
  ASSUME Inv, NEW c \in Conns, NEW n \in 0 .. Size, NEW close \in BOOLEAN,
         Download(c, n, close)
  PROVE  Inv'
<1>0. TypeOK
  BY DEF Inv
<1>f. Facts
  BY CountedFacts
<1> USE DEF parser
<1> DEFINE d == Len(down) + 1
           y == [conn |-> c, counted |-> TRUE, rest |-> n]
<1>1. y \in DownloadContext /\ y.counted
  BY DEF DownloadContext
<1>2. down' = Append(down, y) /\ d <= MaxDownloads
  BY DEF Download
<1> HIDE DEF y
<1>3. /\ down' \in Seq(DownloadContext) /\ Len(down') = d
      /\ Cardinality(Counted(down')) = Cardinality(Counted(down)) + 1
  <2>1. down \in Seq(DownloadContext)
    BY <1>f DEF Facts
  <2> QED
    BY <1>1, <1>2, <2>1, Appended
<1>4. d \in Nat /\ Len(down) <= d /\ Len(down) \in Nat
  BY <1>f DEF Facts
<1>5. /\ Callbacks \subseteq Callbacks' /\ queued \in [Conns -> Seq(Callbacks')]
      /\ callback \in [Conns -> Callbacks' \cup {None}]
  BY <1>0, <1>3, <1>4, OldQueues
<1>6. d \in Callbacks' /\ d \in 0 .. Len(down') /\ 0 \in 0 .. Len(up)
      /\ 0 .. Len(down) \subseteq 0 .. Len(down')
  BY <1>f, <1>3, <1>4 DEF Callbacks, Facts
<1>7. /\ entryUp' = [entryUp EXCEPT ![c] = None]
      /\ entryDown' = [entryDown EXCEPT ![c] = d]
      /\ shownDown' = [shownDown EXCEPT ![c] = d]
      /\ activeDownloads' = activeDownloads + 1
      /\ callback' = [callback EXCEPT ![c] = d]
      /\ Respond(c, d, close)
      /\ overlapped' = [overlapped EXCEPT ![c] = @ \/ Busy(c)]
      /\ UNCHANGED <<reading, length, left, held, shownUp, up, activeUploads>>
  BY DEF Download, Asks
<1>8. /\ out' \in [Conns -> BOOLEAN] /\ queued' \in [Conns -> Seq(Callbacks')]
      /\ link' \in [Conns -> {"new", "open", "closing", "closed"}]
  <2>1. d \in Callbacks' \cup {None} /\ Respond(c, d, close)
    BY <1>6, <1>7
  <2> QED
    BY <1>0, <1>5, <2>1, RespondTyped
<1>9. /\ callback' \in [Conns -> Callbacks' \cup {None}]
      /\ overlapped' \in [Conns -> BOOLEAN]
  <2>1. Busy(c) \in BOOLEAN
    BY DEF Busy
  <2> QED
    BY <1>0, <1>5, <1>6, <1>7, <2>1 DEF TypeOK
<1>10. /\ entryUp' \in [Conns -> 0 .. Len(up')]
       /\ entryDown' \in [Conns -> 0 .. Len(down')]
       /\ shownUp' \in [Conns -> 0 .. Len(up')]
       /\ shownDown' \in [Conns -> 0 .. Len(down')]
  BY <1>0, <1>6, <1>7 DEF TypeOK, None
<1>11. activeDownloads' \in Nat /\ activeDownloads' = Cardinality(Counted(down'))
  BY <1>f, <1>3, <1>7 DEF Facts
<1>12. TypeOK'
  BY <1>0, <1>2, <1>3, <1>7, <1>8, <1>9, <1>10, <1>11 DEF TypeOK
<1>13. Accounting'
  BY <1>f, <1>7, <1>11 DEF Accounting, Facts
<1> QED
  BY <1>12, <1>13 DEF Inv

LEMMA InvRun ==
  ASSUME Inv, NEW c \in Conns, RunChunk(c) \/ RunEnd(c)
  PROVE  Inv'
<1>0. TypeOK
  BY DEF Inv
<1>f. Facts
  BY CountedFacts
<1> USE DEF parser, shown, entries
<1> DEFINE d == Head(queued[c])
<1>1. d \in 1 .. Len(down) /\ Tail(queued[c]) \in Seq(Callbacks)
  <2>1. queued[c] \in Seq(Callbacks) /\ queued[c] # << >> /\ d # Shutdown
    BY <1>0 DEF TypeOK, RunChunk, RunEnd
  <2>2. d \in Callbacks /\ Tail(queued[c]) \in Seq(Callbacks)
    BY <2>1, HeadTailProperties
  <2> QED
    BY <2>1, <2>2 DEF Callbacks
<1>2. down[d] \in DownloadContext /\ down \in Seq(DownloadContext)
  BY <1>f, <1>1 DEF Facts
<1>3. UNCHANGED <<reading, length, left, held, callback, shownUp, up,
                  activeUploads, overlapped>>
  BY DEF RunChunk, RunEnd
<1>4. CASE RunChunk(c)
  <2> DEFINE y == [down[d] EXCEPT !.rest = @ - 1]
  <2>1. down' = [down EXCEPT ![d] = y] /\ down[d].rest > 0
    BY <1>4 DEF RunChunk
  <2>2. y \in DownloadContext /\ (down[d].counted <=> y.counted)
    <3>1. down[d].rest \in 0 .. Size /\ down[d].rest - 1 \in 0 .. Size
      BY <1>2, <2>1, BoundsAssumption DEF DownloadContext
    <3> QED
      BY <1>2, <3>1 DEF DownloadContext
  <2> HIDE DEF y
  <2>3. /\ down' \in Seq(DownloadContext) /\ Len(down') = Len(down)
        /\ Counted(down') = Counted(down)
    <3> HIDE DEF d
    <3> DEFINE t == [down EXCEPT ![d] = y]
    <3>1. t \in Seq(DownloadContext) /\ Len(t) = Len(down)
          /\ ((down[d].counted <=> y.counted) => Counted(t) = Counted(down))
      BY <1>1, <1>2, <2>2, Changed
    <3> QED
      BY <2>1, <2>2, <3>1
  <2>4. Callbacks' = Callbacks
    BY <2>3 DEF Callbacks
  <2>5. /\ Send(c, Tail(queued[c]), callback[c])
        /\ UNCHANGED <<link, entryUp, entryDown, shownDown, activeDownloads>>
    BY <1>4 DEF RunChunk
  <2>6. out' \in [Conns -> BOOLEAN] /\ queued' \in [Conns -> Seq(Callbacks')]
    <3>1. /\ callback[c] \in Callbacks' \cup {None}
          /\ queued \in [Conns -> Seq(Callbacks')]
      BY <1>0, <2>4 DEF TypeOK
    <3>2. Tail(queued[c]) \in Seq(Callbacks')
      BY <1>1, <2>4
    <3> QED
      BY <1>0, <2>5, <3>1, <3>2, SendTyped
  <2>7. TypeOK'
    BY <1>0, <1>3, <2>3, <2>4, <2>5, <2>6 DEF TypeOK
  <2>8. Accounting'
    BY <1>f, <1>3, <2>3, <2>5 DEF Accounting, Facts
  <2> QED
    BY <2>7, <2>8 DEF Inv
<1>5. CASE RunEnd(c)
  <2> DEFINE y == [down[d] EXCEPT !.counted = FALSE, !.rest = 0]
             drop == down[d].counted
  <2>1. /\ down' = [down EXCEPT ![d] = y]
        /\ activeDownloads' = IF drop THEN Decrement(activeDownloads) ELSE activeDownloads
        /\ shownDown' = IF drop THEN [shownDown EXCEPT ![c] = None] ELSE shownDown
        /\ entryUp' = [entryUp EXCEPT ![c] = None]
        /\ entryDown' = [entryDown EXCEPT ![c] = None]
        /\ queued' = [queued EXCEPT ![c] = Tail(@)]
        /\ ShutDown(c) /\ UNCHANGED out
    BY <1>5 DEF RunEnd
  <2>2. y \in DownloadContext /\ ~y.counted /\ drop \in BOOLEAN
    <3>1. 0 \in 0 .. Size
      BY BoundsAssumption
    <3> QED
      BY <1>2, <3>1 DEF DownloadContext
  <2> HIDE DEF y
  <2>3. /\ down' \in Seq(DownloadContext) /\ Len(down') = Len(down)
        /\ activeDownloads' \in Nat /\ activeDownloads' = Cardinality(Counted(down'))
    <3> HIDE DEF d
    <3> DEFINE t == [down EXCEPT ![d] = y]
    <3>1. /\ t \in Seq(DownloadContext) /\ Len(t) = Len(down)
          /\ (down[d].counted <=> y.counted) => Counted(t) = Counted(down)
          /\ down[d].counted /\ ~y.counted =>
               /\ Cardinality(Counted(down)) > 0
               /\ Cardinality(Counted(t)) = Cardinality(Counted(down)) - 1
      BY <1>1, <1>2, <2>2, Changed
    <3>2. down' = t
      BY <2>1
    <3> HIDE DEF t
    <3>3. /\ activeDownloads \in Nat
          /\ activeDownloads = Cardinality(Counted(down))
      BY <1>f DEF Facts
    <3>4. CASE drop
      <4>1. /\ Cardinality(Counted(down)) > 0
            /\ Cardinality(Counted(t)) = Cardinality(Counted(down)) - 1
        BY <2>2, <3>1, <3>4
      <4>2. activeDownloads' = Decrement(activeDownloads)
        BY <2>1, <3>4
      <4> QED
        BY <3>1, <3>2, <3>3, <4>1, <4>2 DEF Decrement
    <3>5. CASE ~drop
      <4>1. Counted(t) = Counted(down)
        BY <2>2, <3>1, <3>5
      <4>2. activeDownloads' = activeDownloads
        BY <2>1, <3>5
      <4> QED
        BY <3>1, <3>2, <3>3, <4>1, <4>2
    <3> QED
      BY <3>4, <3>5
  <2>4. Callbacks' = Callbacks
    BY <2>3 DEF Callbacks
  <2>5. /\ entryUp' \in [Conns -> 0 .. Len(up')]
        /\ entryDown' \in [Conns -> 0 .. Len(down')]
        /\ shownDown' \in [Conns -> 0 .. Len(down')]
    <3>1. 0 \in 0 .. Len(up) /\ 0 \in 0 .. Len(down)
      BY <1>f DEF Facts
    <3> QED
      BY <1>0, <1>3, <2>1, <2>3, <3>1 DEF TypeOK, None
  <2>6. /\ queued' \in [Conns -> Seq(Callbacks')]
        /\ link' \in [Conns -> {"new", "open", "closing", "closed"}]
    BY <1>0, <1>1, <2>1, <2>4 DEF TypeOK, ShutDown
  <2>7. TypeOK'
    BY <1>0, <1>3, <2>1, <2>3, <2>4, <2>5, <2>6 DEF TypeOK
  <2>8. Accounting'
    BY <1>f, <1>3, <2>3 DEF Accounting, Facts
  <2> QED
    BY <2>7, <2>8 DEF Inv
<1> QED
  BY <1>4, <1>5

LEMMA InvNext == Inv /\ [Next]_vars => Inv'
<1> SUFFICES ASSUME Inv, [Next]_vars
             PROVE  Inv'
  OBVIOUS
<1>1. CASE UNCHANGED vars
  BY <1>1 DEF vars, Inv, TypeOK, Accounting, Callbacks, Counted
<1>2. CASE Next
  <2>1. PICK c \in Conns :
    \/ \/ Connect(c) \/ Drain(c) \/ RunShutdown(c)
       \/ \E n \in 0 .. Size : StartUpload(c, n)
       \/ \E k \in 0 .. Size : BodyWaits(c, k)
       \/ \E k \in 0 .. Size, close \in BOOLEAN : UploadRefused(c, k, close)
       \/ \E cb \in {callback[c], Shutdown}, close \in BOOLEAN :
            Answer(c, cb, close)
    \/ Close(c)
    \/ RunChunk(c) \/ RunEnd(c)
    \/ \E k \in 0 .. Size, outcome \in Outcomes, close \in BOOLEAN :
         UploadGoesOn(c, k, outcome, close) \/ UploadBegins(c, k, outcome, close)
    \/ \E n \in 0 .. Size, close \in BOOLEAN : Download(c, n, close)
    BY <1>2 DEF Next
  <2> QED
    BY <2>1, InvQuiet, InvClose, InvRun, InvUpload, InvDownload
<1> QED
  BY <1>1, <1>2

\* All values stay in their types and within their bounds.
THEOREM TypeCorrect == Spec => []TypeOK
<1>1. Init => Inv
  BY InvInit
<1>2. Inv /\ [Next]_vars => Inv'
  BY InvNext
<1>3. Inv => TypeOK
  BY DEF Inv
<1> QED
  BY <1>1, <1>2, <1>3, PTL DEF Spec

\* Heartbeats report the transfers that are counted and not released: none is
\* released twice, and no decrement meets the floor.
THEOREM CountersCorrect == Spec => []Accounting
<1>1. Init => Inv
  BY InvInit
<1>2. Inv /\ [Next]_vars => Inv'
  BY InvNext
<1>3. Inv => Accounting
  BY DEF Inv
<1> QED
  BY <1>1, <1>2, <1>3, PTL DEF Spec

-----------------------------------------------------------------------------
(* A client that asks for nothing while its transfer is counted.  What the *)
(* two properties of such connections need to be inductive: contexts and   *)
(* callbacks stay with the connection they were made on, whatever its      *)
(* client does; and on an orderly connection at most one callback of its   *)
(* download is on its way, and the parts of a body add up to its length.   *)

\* The entry and the callbacks of a connection are for contexts made on it.
Made(c) == {Shutdown} \cup {d \in DOMAIN down : down[d].conn = c}
Mine(c) ==
  /\ entryUp[c] # None => up[entryUp[c]].conn = c
  /\ entryDown[c] # None => down[entryDown[c]].conn = c
  /\ callback[c] \in Made(c) \cup {None}
  /\ queued[c] \in Seq(Made(c))

\* What OrderlyConnections says of a connection.
Orderly(c) ==
  /\ \A u \in DOMAIN up : (up[u].counted /\ up[u].conn = c) <=> (entryUp[c] = u)
  /\ \A d \in DOMAIN down :
       (down[d].counted /\ down[d].conn = c) <=> (entryDown[c] = d)
  /\ shownUp[c] = entryUp[c] /\ shownDown[c] = entryDown[c]
  /\ link[c] = "closed" => entryUp[c] = None /\ entryDown[c] = None

\* With q queued, the callback cb, output pending or not, the connection in state
\* s and the download d: the callback of d is queued once, or will be when the
\* output has drained.
Chain(q, cb, pending, s, d) ==
  /\ \A i \in DOMAIN q : q[i] # Shutdown => d # None /\ q[i] = d
  /\ \A i, j \in DOMAIN q : q[i] # Shutdown /\ q[j] # Shutdown => i = j
  /\ pending /\ cb \notin {None, Shutdown} =>
       cb = d /\ \A i \in DOMAIN q : q[i] = Shutdown
  /\ s \in {"new", "open"} => cb \in {None, Shutdown, d}

Waiting(c) ==
  /\ Chain(queued[c], callback[c], out[c], link[c], entryDown[c])
  /\ link[c] = "new" => queued[c] = << >>
  /\ entryDown[c] # None => entryUp[c] = None /\ ~reading[c]

\* What is written, held and still to come makes the body.
Body(c) ==
  reading[c] =>
    IF entryUp[c] = None
      THEN held[c] + left[c] = length[c]
      ELSE LET x == up[entryUp[c]]
           IN  /\ x.length = length[c] /\ x.finished = -1
               /\ x.total + held[c] + left[c] <= length[c]
               /\ ~x.failed => x.total + held[c] + left[c] = length[c]

\* What OrderlyUploadsWhole says of the uploads of a connection.
Whole(c) ==
  \A u \in DOMAIN up : up[u].conn = c /\ up[u].finished # -1 =>
    ~up[u].counted /\ (~up[u].failed => up[u].finished = up[u].length)

Good(c) ==
  /\ Mine(c)
  /\ ~overlapped[c] =>
       /\ Orderly(c) /\ Whole(c)
       /\ link[c] # "closed" => Waiting(c) /\ Body(c)

OrderlyInv == Inv /\ \A c \in Conns : Good(c)

\* From s to t, only contexts of connection c change or are made.
Only(s, t, c) ==
  /\ DOMAIN s \subseteq DOMAIN t
  /\ \A i \in DOMAIN s : t[i].conn = s[i].conn /\ (s[i].conn # c => t[i] = s[i])
  /\ \A i \in DOMAIN t \ DOMAIN s : t[i].conn = c

LEMMA OnlyChanged ==
  ASSUME NEW S, NEW s \in Seq(S), NEW i \in 1 .. Len(s), NEW y, NEW c,
         s[i].conn = c, y.conn = c
  PROVE  Only(s, [s EXCEPT ![i] = y], c)
<1>1. DOMAIN s = 1 .. Len(s)
  BY LenProperties
<1> QED
  BY <1>1 DEF Only

LEMMA OnlyAppended ==
  ASSUME NEW S, NEW s \in Seq(S), NEW y \in S, NEW c, y.conn = c
  PROVE  Only(s, Append(s, y), c)
<1>1. /\ Len(s) \in Nat /\ DOMAIN s = 1 .. Len(s)
      /\ DOMAIN Append(s, y) = 1 .. Len(s) + 1
      /\ \A j \in 1 .. Len(s) : Append(s, y)[j] = s[j]
      /\ Append(s, y)[Len(s) + 1] = y
  BY AppendProperties, LenProperties
<1> QED
  BY <1>1 DEF Only

\* A step of connection c leaves the other connections alone.
Elsewhere(c) ==
  /\ Only(up, up', c) /\ Only(down, down', c)
  /\ \A b \in Conns \ {c} :
       /\ link'[b] = link[b] /\ out'[b] = out[b] /\ callback'[b] = callback[b]
       /\ queued'[b] = queued[b] /\ reading'[b] = reading[b]
       /\ length'[b] = length[b] /\ left'[b] = left[b] /\ held'[b] = held[b]
       /\ entryUp'[b] = entryUp[b] /\ entryDown'[b] = entryDown[b]
       /\ shownUp'[b] = shownUp[b] /\ shownDown'[b] = shownDown[b]
       /\ overlapped'[b] = overlapped[b]

LEMMA OthersKept ==
  ASSUME OrderlyInv, Inv', NEW c \in Conns, Elsewhere(c), NEW b \in Conns, b # c
  PROVE  Good(b)'
<1>0. TypeOK /\ Good(b) /\ Facts
  BY CountedFacts DEF OrderlyInv, Inv
<1>1. /\ entryUp[b] # None => entryUp[b] \in DOMAIN up
      /\ entryDown[b] # None => entryDown[b] \in DOMAIN down
  <2>1. /\ entryUp[b] \in 0 .. Len(up) /\ entryDown[b] \in 0 .. Len(down)
    BY <1>0 DEF TypeOK
  <2> QED
    BY <1>0, <2>1 DEF Facts, None
<1>2. /\ link'[b] = link[b] /\ out'[b] = out[b] /\ callback'[b] = callback[b]
      /\ queued'[b] = queued[b] /\ reading'[b] = reading[b]
      /\ length'[b] = length[b] /\ left'[b] = left[b] /\ held'[b] = held[b]
      /\ entryUp'[b] = entryUp[b] /\ entryDown'[b] = entryDown[b]
      /\ shownUp'[b] = shownUp[b] /\ shownDown'[b] = shownDown[b]
      /\ overlapped'[b] = overlapped[b]
  BY DEF Elsewhere
<1>3. Only(up, up', c) /\ Only(down, down', c)
  BY DEF Elsewhere
<1>4. Mine(b)'
  <2>1. Mine(b)
    BY <1>0 DEF Good
  <2>2. Made(b) \subseteq Made(b)'
    BY <1>3 DEF Made, Only
  <2>3. queued'[b] \in Seq(Made(b)')
    BY <1>2, <2>1, <2>2, SeqMonotonic DEF Mine
  <2> QED
    BY <1>1, <1>2, <1>3, <2>1, <2>2, <2>3 DEF Mine, Only
<1>5. 0 \notin DOMAIN up' /\ 0 \notin DOMAIN down'
  <2>1. up' \in Seq(UploadContext) /\ down' \in Seq(DownloadContext)
    BY DEF Inv, TypeOK
  <2> QED
    BY <2>1, LenProperties
<1>6. ASSUME ~overlapped'[b]
      PROVE  /\ Orderly(b)' /\ Whole(b)'
             /\ link'[b] # "closed" => Waiting(b)' /\ Body(b)'
  <2>1. /\ Mine(b) /\ Orderly(b) /\ Whole(b)
        /\ link[b] # "closed" => Waiting(b) /\ Body(b)
    BY <1>0, <1>2, <1>6 DEF Good
  <2>2. \A u \in DOMAIN up' :
          (up'[u].counted /\ up'[u].conn = b) <=> (entryUp'[b] = u)
    BY <1>1, <1>2, <1>3, <1>5, <2>1 DEF Only, Orderly, None
  <2>3. \A d \in DOMAIN down' :
          (down'[d].counted /\ down'[d].conn = b) <=> (entryDown'[b] = d)
    BY <1>1, <1>2, <1>3, <1>5, <2>1 DEF Only, Orderly, None
  <2>4. Orderly(b)'
    BY <1>2, <2>1, <2>2, <2>3 DEF Orderly
  <2>5. Whole(b)'
    BY <1>3, <2>1 DEF Only, Whole
  <2>6. ASSUME link'[b] # "closed"
        PROVE  Waiting(b)' /\ Body(b)'
    <3>1. Waiting(b)'
      BY <1>2, <2>1, <2>6 DEF Waiting, Chain
    <3>2. entryUp[b] # None => up'[entryUp[b]] = up[entryUp[b]]
      BY <1>1, <1>3, <2>1 DEF Only, Mine
    <3>3. Body(b)'
      BY <1>2, <2>1, <2>6, <3>2 DEF Body
    <3> QED
      BY <3>1, <3>3
  <2> QED
    BY <2>4, <2>5, <2>6
<1> QED
  BY <1>4, <1>6 DEF Good

\* What is sent goes to the end of the queue,
LEMMA SendsMade ==
  ASSUME TypeOK, NEW c \in Conns, NEW S, NEW q \in Seq(S), NEW cb \in S \cup {None},
         Send(c, q, cb)
  PROVE  /\ queued'[c] \in Seq(S)
         /\ \A b \in Conns \ {c} : queued'[b] = queued[b] /\ out'[b] = out[b]
<1>1. cb # None => Append(q, cb) \in Seq(S)
  BY AppendProperties
<1>2. DOMAIN queued = Conns /\ DOMAIN out = Conns
  BY DEF TypeOK
<1> QED
  BY <1>1, <1>2 DEF Send

\* ... or waits in the output, where nothing else of the download is on its way.
LEMMA SendsChain ==
  ASSUME TypeOK, NEW c \in Conns, NEW S, NEW q \in Seq(S), NEW cb \in S \cup {None},
         Send(c, q, cb), NEW d, NEW s,
         \A i \in DOMAIN q : q[i] = Shutdown,
         link[c] = "open" => cb \in {None, Shutdown, d},
         link[c] # "open" /\ out[c] /\ cb \notin {None, Shutdown} => cb = d,
         s \in {"new", "open"} => link[c] = "open"
  PROVE  Chain(queued'[c], cb, out'[c], s, d)
<1>1. cb # None => LET t == Append(q, cb)
                   IN  /\ Len(q) \in Nat /\ DOMAIN q = 1 .. Len(q)
                       /\ DOMAIN t = 1 .. Len(q) + 1
                       /\ \A i \in 1 .. Len(q) : t[i] = q[i]
                       /\ t[Len(q) + 1] = cb
  BY AppendProperties, LenProperties
<1>2. DOMAIN queued = Conns /\ DOMAIN out = Conns
  BY DEF TypeOK
<1>3. \/ link[c] = "open" /\ cb # None /\ ~out'[c] /\ queued'[c] = Append(q, cb)
      \/ link[c] = "open" /\ queued'[c] = q
      \/ link[c] # "open" /\ queued'[c] = q /\ out'[c] = out[c]
  BY <1>2 DEF Send
<1>4. CASE link[c] = "open" /\ cb # None /\ ~out'[c] /\ queued'[c] = Append(q, cb)
  <2>1. \A i \in DOMAIN queued'[c] :
          queued'[c][i] # Shutdown => i = Len(q) + 1 /\ queued'[c][i] = cb
    BY <1>1, <1>4
  <2> QED
    BY <1>4, <2>1 DEF Chain
<1>5. CASE link[c] = "open" /\ queued'[c] = q
  BY <1>5 DEF Chain
<1>6. CASE link[c] # "open" /\ queued'[c] = q /\ out'[c] = out[c]
  BY <1>6 DEF Chain
<1> QED
  BY <1>3, <1>4, <1>5, <1>6

\* A request that finds nothing counted finds nothing in the entry, and no
\* callback of a download in the queue.
LEMMA AsksIdle ==
  ASSUME OrderlyInv, NEW c \in Conns, Asks(c)
  PROVE  /\ \A b \in Conns \ {c} : overlapped'[b] = overlapped[b]
         /\ link[c] \in {"open", "closing"} /\ ~reading[c]
         /\ ~overlapped'[c] =>
              /\ ~overlapped[c] /\ entryUp[c] = None /\ entryDown[c] = None
              /\ Orderly(c) /\ Whole(c) /\ Waiting(c)
              /\ \A i \in DOMAIN queued[c] : queued[c][i] = Shutdown
<1>0. TypeOK /\ Good(c) /\ Facts
  BY CountedFacts DEF OrderlyInv, Inv
<1>1. /\ DOMAIN overlapped = Conns
      /\ entryUp[c] \in 0 .. Len(up) /\ entryDown[c] \in 0 .. Len(down)
  BY <1>0 DEF TypeOK
<1>2. /\ overlapped' = [overlapped EXCEPT ![c] = @ \/ Busy(c)]
      /\ link[c] \in {"open", "closing"} /\ ~reading[c]
  BY DEF Asks, Readable
<1>3. ASSUME ~overlapped'[c]
      PROVE  /\ ~overlapped[c] /\ entryUp[c] = None /\ entryDown[c] = None
             /\ Orderly(c) /\ Whole(c) /\ Waiting(c)
             /\ \A i \in DOMAIN queued[c] : queued[c][i] = Shutdown
  <2>1. ~overlapped[c] /\ ~Busy(c)
    BY <1>1, <1>2, <1>3
  <2>2. Orderly(c) /\ Whole(c) /\ Waiting(c)
    BY <1>0, <1>2, <2>1 DEF Good
  <2>3. entryUp[c] = None /\ entryDown[c] = None
    BY <1>0, <1>1, <2>1, <2>2 DEF Orderly, Busy, Counted, Facts, None
  <2> QED
    BY <2>1, <2>2, <2>3 DEF Waiting, Chain
<1> QED
  BY <1>1, <1>2, <1>3

\* A step that touches no context and no entry.
LEMMA QuietKept ==
  ASSUME OrderlyInv, NEW c \in Conns,
         UNCHANGED <<entryUp, entryDown, shownUp, shownDown, up, down>>,
         queued'[c] \in Seq(Made(c)), callback'[c] \in Made(c) \cup {None},
         link'[c] = "closed" => link[c] = "closed",
         overlapped[c] => overlapped'[c],
         ~overlapped'[c] /\ link'[c] # "closed" => Waiting(c)' /\ Body(c)'
  PROVE  Good(c)'
<1>1. Good(c)
  BY DEF OrderlyInv
<1>2. Made(c)' = Made(c)
  BY DEF Made
<1>3. Mine(c)'
  BY <1>1, <1>2 DEF Good, Mine
<1>4. ~overlapped'[c] => Orderly(c)' /\ Whole(c)'
  BY <1>1 DEF Good, Orderly, Whole
<1> QED
  BY <1>3, <1>4 DEF Good

\* What the types say of the contexts in the entry of a connection.
LEMMA EntryTyped ==
  ASSUME Inv, NEW c \in Conns
  PROVE  /\ entryUp[c] # None =>
              entryUp[c] \in 1 .. Len(up) /\ up[entryUp[c]] \in UploadContext
                /\ up[entryUp[c]].total \in Nat
         /\ entryDown[c] # None =>
              /\ entryDown[c] \in 1 .. Len(down)
              /\ down[entryDown[c]] \in DownloadContext
<1>1. Facts
  BY CountedFacts
<1>2. entryUp[c] \in 0 .. Len(up) /\ entryDown[c] \in 0 .. Len(down)
  BY DEF Inv, TypeOK
<1>3. /\ entryUp[c] # None => entryUp[c] \in 1 .. Len(up)
      /\ entryDown[c] # None => entryDown[c] \in 1 .. Len(down)
  BY <1>1, <1>2 DEF Facts, None
<1>4. \A x \in UploadContext : x.total \in Nat
  BY DEF UploadContext
<1> QED
  BY <1>1, <1>3, <1>4 DEF Facts

LEMMA OnlySame == \A s, c : Only(s, s, c)
BY DEF Only

LEMMA ConnectOrderly ==
  ASSUME OrderlyInv, NEW c \in Conns, Connect(c)
  PROVE  Elsewhere(c) /\ Good(c)'
<1> USE DEF entries, shown, parser, tcp
<1>0. TypeOK /\ Good(c)
  BY DEF OrderlyInv, Inv
<1>1. /\ link[c] = "new" /\ link' = [link EXCEPT ![c] = "open"]
      /\ UNCHANGED <<out, callback, queued, reading, length, left, held, entryUp,
           entryDown, shownUp, shownDown, up, down, activeUploads,
           activeDownloads, overlapped>>
  BY DEF Connect
<1>2. DOMAIN link = Conns
  BY <1>0 DEF TypeOK
<1>3. Elsewhere(c)
  BY <1>1, <1>2, OnlySame DEF Elsewhere
<1>4. link'[c] = "open"
  BY <1>1, <1>2
<1>5. ~overlapped[c] => Waiting(c)' /\ Body(c)'
  BY <1>0, <1>1, <1>4 DEF Good, Waiting, Chain, Body
<1>6. queued'[c] \in Seq(Made(c)) /\ callback'[c] \in Made(c) \cup {None}
  BY <1>0, <1>1 DEF Good, Mine
<1> QED
  BY <1>1, <1>3, <1>4, <1>5, <1>6, QuietKept

LEMMA DrainOrderly ==
  ASSUME OrderlyInv, NEW c \in Conns, Drain(c)
  PROVE  Elsewhere(c) /\ Good(c)'
<1> USE DEF entries, shown, parser, tcp
<1>0. TypeOK /\ Good(c)
  BY DEF OrderlyInv, Inv
<1>1. /\ out[c] /\ link[c] \in {"open", "closing"}
      /\ out' = [out EXCEPT ![c] = FALSE]
      /\ queued' = [queued EXCEPT ![c] = IF callback[c] = None THEN @
                                         ELSE Append(@, callback[c])]
      /\ UNCHANGED <<link, callback, reading, length, left, held, entryUp,
           entryDown, shownUp, shownDown, up, down, activeUploads,
           activeDownloads, overlapped>>
  BY DEF Drain, Readable
<1>2. DOMAIN out = Conns /\ DOMAIN queued = Conns
  BY <1>0 DEF TypeOK
<1>3. Elsewhere(c)
  BY <1>1, <1>2, OnlySame DEF Elsewhere
<1> DEFINE q == queued[c]
           cb == callback[c]
           t == Append(q, cb)
<1>4. q \in Seq(Made(c)) /\ cb \in Made(c) \cup {None}
  BY <1>0 DEF Good, Mine
<1>5. cb # None => /\ t \in Seq(Made(c))
                   /\ Len(q) \in Nat /\ DOMAIN q = 1 .. Len(q)
                   /\ DOMAIN t = 1 .. Len(q) + 1
                   /\ \A i \in 1 .. Len(q) : t[i] = q[i]
                   /\ t[Len(q) + 1] = cb
  BY <1>4, AppendProperties, LenProperties
<1>6. queued'[c] = IF cb = None THEN q ELSE t
  BY <1>1, <1>2
<1>7. ~out'[c] /\ callback'[c] = cb
  BY <1>1, <1>2
<1> HIDE DEF t
<1>8. ASSUME ~overlapped[c]
      PROVE  Waiting(c)' /\ Body(c)'
  <2>1. Waiting(c) /\ Body(c)
    BY <1>0, <1>1, <1>8 DEF Good
  <2>2. Chain(q, cb, TRUE, link[c], entryDown[c])
    BY <1>1, <2>1 DEF Waiting
  <2>3. Chain(queued'[c], cb, FALSE, link[c], entryDown[c])
    <3>1. CASE cb \in {None, Shutdown}
      <4>1. \A i \in DOMAIN queued'[c] :
              queued'[c][i] # Shutdown => i \in DOMAIN q /\ queued'[c][i] = q[i]
        BY <1>5, <1>6, <3>1
      <4> QED
        BY <2>2, <4>1 DEF Chain
    <3>2. CASE cb \notin {None, Shutdown}
      <4>1. \A i \in DOMAIN queued'[c] :
              queued'[c][i] # Shutdown => i = Len(q) + 1 /\ queued'[c][i] = cb
        BY <1>5, <1>6, <2>2, <3>2 DEF Chain
      <4> QED
        BY <2>2, <3>2, <4>1 DEF Chain
    <3> QED
      BY <3>1, <3>2
  <2>4. Waiting(c)'
    BY <1>1, <1>7, <2>1, <2>3 DEF Waiting, Chain
  <2>5. Body(c)'
    BY <1>1, <2>1 DEF Body
  <2> QED
    BY <2>4, <2>5
<1>9. queued'[c] \in Seq(Made(c)) /\ callback'[c] \in Made(c) \cup {None}
  BY <1>4, <1>5, <1>6, <1>7
<1> QED
  BY <1>1, <1>3, <1>8, <1>9, QuietKept

LEMMA RunShutdownOrderly ==
  ASSUME OrderlyInv, NEW c \in Conns, RunShutdown(c)
  PROVE  Elsewhere(c) /\ Good(c)'
<1> USE DEF entries, shown, parser, tcp
<1>0. TypeOK /\ Good(c)
  BY DEF OrderlyInv, Inv
<1>1. /\ queued[c] # << >>
      /\ queued' = [queued EXCEPT ![c] = Tail(@)]
      /\ link' = [link EXCEPT ![c] = IF @ = "open" THEN "closing" ELSE @]
      /\ UNCHANGED <<out, callback, reading, length, left, held, entryUp,
           entryDown, shownUp, shownDown, up, down, activeUploads,
           activeDownloads, overlapped>>
  BY DEF RunShutdown, ShutDown
<1>2. DOMAIN link = Conns /\ DOMAIN queued = Conns
  BY <1>0 DEF TypeOK
<1>3. Elsewhere(c)
  BY <1>1, <1>2, OnlySame DEF Elsewhere
<1> DEFINE q == queued[c]
           t == Tail(q)
<1>4. q \in Seq(Made(c)) /\ callback[c] \in Made(c) \cup {None}
  BY <1>0 DEF Good, Mine
<1>5. /\ t \in Seq(Made(c)) /\ Len(q) \in Nat
      /\ DOMAIN q = 1 .. Len(q) /\ DOMAIN t = 1 .. Len(q) - 1
      /\ \A i \in 1 .. Len(q) - 1 : t[i] = q[i + 1]
  BY <1>1, <1>4, HeadTailProperties, LenProperties
<1>6. queued'[c] = t
  BY <1>1, <1>2
<1>7. /\ link'[c] = IF link[c] = "open" THEN "closing" ELSE link[c]
      /\ link'[c] \notin {"open", "new"} \/ link[c] = "new"
  BY <1>1, <1>2
<1> HIDE DEF t
<1>8. ASSUME ~overlapped[c], link'[c] # "closed"
      PROVE  Waiting(c)' /\ Body(c)'
  <2>1. Waiting(c) /\ Body(c) /\ link[c] # "new"
    BY <1>0, <1>1, <1>7, <1>8 DEF Good, Waiting
  <2>2. Chain(q, callback[c], out[c], link[c], entryDown[c])
    BY <2>1 DEF Waiting
  <2>3. Chain(t, callback[c], out[c], "closing", entryDown[c])
    <3>1. \A i \in DOMAIN t : i + 1 \in DOMAIN q /\ t[i] = q[i + 1]
      BY <1>5
    <3>2. \A i, j \in DOMAIN t : i + 1 = j + 1 => i = j
      BY <1>5
    <3> QED
      BY <2>2, <3>1, <3>2 DEF Chain
  <2>4. Waiting(c)'
    BY <1>1, <1>6, <1>7, <2>1, <2>3 DEF Waiting, Chain
  <2>5. Body(c)'
    BY <1>1, <2>1 DEF Body
  <2> QED
    BY <2>4, <2>5
<1>9. queued'[c] \in Seq(Made(c)) /\ callback'[c] \in Made(c) \cup {None}
  BY <1>1, <1>4, <1>5, <1>6
<1> QED
  BY <1>1, <1>3, <1>7, <1>8, <1>9, QuietKept

LEMMA StartUploadOrderly ==
  ASSUME OrderlyInv, NEW c \in Conns, NEW n \in 0 .. Size, StartUpload(c, n)
  PROVE  Elsewhere(c) /\ Good(c)'
<1> USE DEF entries, shown, parser, tcp
<1>0. TypeOK /\ Good(c)
  BY DEF OrderlyInv, Inv
<1>1. /\ Asks(c)
      /\ reading' = [reading EXCEPT ![c] = TRUE]
      /\ length' = [length EXCEPT ![c] = n]
      /\ left' = [left EXCEPT ![c] = n]
      /\ held' = [held EXCEPT ![c] = 0]
      /\ overlapped' = [overlapped EXCEPT ![c] = @ \/ Busy(c)]
      /\ UNCHANGED <<link, out, callback, queued, entryUp, entryDown, shownUp,
                     shownDown, up, down>>
  BY DEF StartUpload, Asks
<1>2. /\ DOMAIN reading = Conns /\ DOMAIN length = Conns /\ DOMAIN left = Conns
      /\ DOMAIN held = Conns /\ DOMAIN overlapped = Conns
  BY <1>0 DEF TypeOK
<1>3. Elsewhere(c)
  BY <1>1, <1>2, OnlySame DEF Elsewhere
<1>4. ASSUME ~overlapped'[c]
      PROVE  Waiting(c)' /\ Body(c)'
  <2>1. entryUp[c] = None /\ entryDown[c] = None /\ Waiting(c)
    BY <1>1, <1>4, AsksIdle
  <2>2. Waiting(c)'
    BY <1>1, <2>1 DEF Waiting, Chain
  <2>3. held'[c] = 0 /\ left'[c] = n /\ length'[c] = n /\ 0 + n = n
    BY <1>1, <1>2, BoundsAssumption
  <2>4. Body(c)'
    BY <1>1, <2>1, <2>3 DEF Body
  <2> QED
    BY <2>2, <2>4
<1>5. queued'[c] \in Seq(Made(c)) /\ callback'[c] \in Made(c) \cup {None}
  BY <1>0, <1>1 DEF Good, Mine
<1> QED
  BY <1>1, <1>2, <1>3, <1>4, <1>5, QuietKept

LEMMA BodyWaitsOrderly ==
  ASSUME OrderlyInv, NEW c \in Conns, NEW k \in 0 .. Size, BodyWaits(c, k)
  PROVE  Elsewhere(c) /\ Good(c)'
<1> USE DEF entries, shown, parser, tcp
<1>0. TypeOK /\ Good(c) /\ Facts
  BY CountedFacts DEF OrderlyInv, Inv
<1>1. /\ link[c] # "closed" /\ reading[c]
      /\ left' = [left EXCEPT ![c] = @ - k]
      /\ held' = [held EXCEPT ![c] = @ + k]
      /\ UNCHANGED <<link, out, callback, queued, reading, length, entryUp,
                     entryDown, shownUp, shownDown, up, down, overlapped>>
  BY DEF BodyWaits, Reads, Readable
<1>2. DOMAIN left = Conns /\ DOMAIN held = Conns
  BY <1>0 DEF TypeOK
<1>3. Elsewhere(c)
  BY <1>1, <1>2, OnlySame DEF Elsewhere
<1>4. ASSUME ~overlapped[c]
      PROVE  Waiting(c)' /\ Body(c)'
  <2>1. Waiting(c) /\ Body(c)
    BY <1>0, <1>1, <1>4 DEF Good
  <2>2. Waiting(c)'
    BY <1>1, <2>1 DEF Waiting, Chain
  <2>3. held[c] \in Nat /\ left[c] \in Nat /\ k \in Nat
    BY <1>0, BoundsAssumption DEF TypeOK
  <2>4. held'[c] = held[c] + k /\ left'[c] = left[c] - k
    BY <1>1, <1>2
  <2>5. /\ held'[c] + left'[c] = held[c] + left[c]
        /\ \A m \in Nat : m + held'[c] + left'[c] = m + held[c] + left[c]
    BY <2>3, <2>4
  <2>6. entryUp[c] # None => up[entryUp[c]].total \in Nat
    BY <1>0, EntryTyped DEF OrderlyInv
  <2>7. Body(c)'
    BY <1>1, <2>1, <2>5, <2>6 DEF Body
  <2> QED
    BY <2>2, <2>7
<1>5. queued'[c] \in Seq(Made(c)) /\ callback'[c] \in Made(c) \cup {None}
  BY <1>0, <1>1 DEF Good, Mine
<1> QED
  BY <1>1, <1>3, <1>4, <1>5, QuietKept

\* What the end of a handler does to the connection: with the last part of the
\* body its answer is sent, and all that was queued before is a shutdown.
LEMMA HandlerOrderly ==
  ASSUME TypeOK, NEW c \in Conns, NEW k \in 0 .. Size, Reads(c, k), NEW kept,
         NEW close \in BOOLEAN, AfterHandler(c, k, kept, close),
         NEW S, queued[c] \in Seq(S), callback'[c] \in S \cup {None}
  PROVE  /\ \A b \in Conns \ {c} :
              /\ link'[b] = link[b] /\ out'[b] = out[b] /\ queued'[b] = queued[b]
              /\ reading'[b] = reading[b] /\ length'[b] = length[b]
              /\ left'[b] = left[b] /\ held'[b] = held[b]
         /\ queued'[c] \in Seq(S) /\ left'[c] = left[c] - k
         /\ link[c] \notin {"new", "closed"} /\ link'[c] \notin {"new", "closed"}
         /\ ~Last(c, k) =>
              /\ held'[c] = kept /\ link' = link /\ out' = out
              /\ queued' = queued /\ reading' = reading /\ length' = length
         /\ Last(c, k) => ~reading'[c]
         /\ Last(c, k) /\ callback'[c] = Shutdown
              /\ (\A i \in DOMAIN queued[c] : queued[c][i] = Shutdown) =>
              Chain(queued'[c], callback'[c], out'[c], link'[c], None)
<1>1. /\ DOMAIN link = Conns /\ DOMAIN reading = Conns /\ DOMAIN length = Conns
      /\ DOMAIN left = Conns /\ DOMAIN held = Conns
  BY DEF TypeOK
<1>2. link[c] \in {"open", "closing"}
  BY DEF Reads, Readable
<1>3. left' = [left EXCEPT ![c] = @ - k]
  BY DEF AfterHandler
<1>4. CASE ~Last(c, k)
  <2>1. /\ held' = [held EXCEPT ![c] = kept]
        /\ UNCHANGED <<link, out, queued, reading, length>>
    BY <1>4 DEF AfterHandler
  <2> QED
    BY <1>1, <1>2, <1>3, <1>4, <2>1
<1>5. CASE Last(c, k)
  <2>1. /\ Send(c, queued[c], callback'[c])
        /\ link' = link \/ link' = [link EXCEPT ![c] = IF @ = "open" THEN "closing" ELSE @]
        /\ length' = [length EXCEPT ![c] = 0]
        /\ reading' = [reading EXCEPT ![c] = FALSE]
        /\ held' = [held EXCEPT ![c] = 0]
    BY <1>5 DEF AfterHandler, Respond, ShutDown
  <2>2. /\ queued'[c] \in Seq(S)
        /\ \A b \in Conns \ {c} : queued'[b] = queued[b] /\ out'[b] = out[b]
    BY <2>1, SendsMade
  <2>3. /\ link'[c] \in {"open", "closing"}
        /\ link'[c] \in {"new", "open"} => link[c] = "open"
        /\ \A b \in Conns \ {c} : link'[b] = link[b]
    BY <1>1, <1>2, <2>1
  <2>4. ASSUME callback'[c] = Shutdown,
               \A i \in DOMAIN queued[c] : queued[c][i] = Shutdown
        PROVE  Chain(queued'[c], callback'[c], out'[c], link'[c], None)
    <3>1. Send(c, queued[c], callback'[c])
      BY <2>1
    <3>2. /\ link[c] = "open" => callback'[c] \in {None, Shutdown, None}
          /\ link[c] # "open" /\ out[c] /\ callback'[c] \notin {None, Shutdown} =>
               callback'[c] = None
      BY <2>4
    <3> QED
      BY <2>3, <2>4, <3>1, <3>2, SendsChain
  <2> QED
    BY <1>1, <1>2, <1>3, <1>5, <2>1, <2>2, <2>3, <2>4
<1> QED
  BY <1>4, <1>5

LEMMA UploadRefusedOrderly ==
  ASSUME OrderlyInv, NEW c \in Conns, NEW k \in 0 .. Size, NEW close \in BOOLEAN,
         UploadRefused(c, k, close)
  PROVE  Elsewhere(c) /\ Good(c)'
<1> USE DEF entries, shown, parser, tcp
<1>0. TypeOK /\ Good(c) /\ Facts
  BY CountedFacts DEF OrderlyInv, Inv
<1>1. /\ Reads(c, k) /\ reading[c]
      /\ callback' = [callback EXCEPT ![c] = Shutdown]
      /\ AfterHandler(c, k, held[c] + k, close)
      /\ UNCHANGED <<entryUp, entryDown, shownUp, shownDown, up, down, overlapped>>
  BY DEF UploadRefused, Reads
<1>2. callback'[c] = Shutdown /\ \A b \in Conns \ {c} : callback'[b] = callback[b]
  BY <1>0, <1>1 DEF TypeOK
<1>3. queued[c] \in Seq(Made(c)) /\ callback'[c] \in Made(c) \cup {None}
  BY <1>0, <1>2 DEF Good, Mine, Made
<1>4. /\ \A b \in Conns \ {c} :
           /\ link'[b] = link[b] /\ out'[b] = out[b] /\ queued'[b] = queued[b]
           /\ reading'[b] = reading[b] /\ length'[b] = length[b]
           /\ left'[b] = left[b] /\ held'[b] = held[b]
      /\ queued'[c] \in Seq(Made(c)) /\ left'[c] = left[c] - k
      /\ link[c] \notin {"new", "closed"} /\ link'[c] \notin {"new", "closed"}
      /\ ~Last(c, k) =>
           /\ held'[c] = held[c] + k /\ link' = link /\ out' = out
           /\ queued' = queued /\ reading' = reading /\ length' = length
      /\ Last(c, k) => ~reading'[c]
      /\ Last(c, k) /\ callback'[c] = Shutdown
           /\ (\A i \in DOMAIN queued[c] : queued[c][i] = Shutdown) =>
           Chain(queued'[c], callback'[c], out'[c], link'[c], None)
  BY <1>0, <1>1, <1>3, HandlerOrderly
<1>5. Elsewhere(c)
  BY <1>1, <1>2, <1>4, OnlySame DEF Elsewhere
<1>6. ASSUME ~overlapped[c]
      PROVE  Waiting(c)' /\ Body(c)'
  <2>1. /\ Waiting(c) /\ Body(c) /\ entryDown[c] = None
        /\ \A i \in DOMAIN queued[c] : queued[c][i] = Shutdown
    BY <1>0, <1>1, <1>4, <1>6 DEF Good, Waiting, Chain
  <2>2. Waiting(c)'
    <3>1. CASE Last(c, k)
      BY <1>1, <1>2, <1>4, <2>1, <3>1 DEF Waiting
    <3>2. CASE ~Last(c, k)
      BY <1>1, <1>2, <1>4, <2>1, <3>2 DEF Waiting, Chain
    <3> QED
      BY <3>1, <3>2
  <2>3. Body(c)'
    <3>1. CASE Last(c, k)
      BY <1>4, <3>1 DEF Body
    <3>2. CASE ~Last(c, k)
      <4>1. held[c] \in Nat /\ left[c] \in Nat /\ k \in Nat
        BY <1>0, BoundsAssumption DEF TypeOK
      <4>2. held'[c] = held[c] + k /\ left'[c] = left[c] - k
        BY <1>4, <3>2
      <4>3. /\ held'[c] + left'[c] = held[c] + left[c]
            /\ \A m \in Nat : m + held'[c] + left'[c] = m + held[c] + left[c]
        BY <4>1, <4>2
      <4>4. entryUp[c] # None => up[entryUp[c]].total \in Nat
        BY <1>0, EntryTyped DEF OrderlyInv
      <4> QED
        BY <1>1, <1>4, <2>1, <3>2, <4>3, <4>4 DEF Body
    <3> QED
      BY <3>1, <3>2
  <2> QED
    BY <2>2, <2>3
<1> QED
  BY <1>1, <1>3, <1>4, <1>5, <1>6, QuietKept

LEMMA AnswerOrderly ==
  ASSUME OrderlyInv, NEW c \in Conns, NEW cb \in {callback[c], Shutdown},
         NEW close \in BOOLEAN, Answer(c, cb, close)
  PROVE  Elsewhere(c) /\ Good(c)'
<1> USE DEF entries, shown, parser, tcp
<1>0. TypeOK /\ Good(c)
  BY DEF OrderlyInv, Inv
<1>1. /\ Asks(c) /\ Send(c, queued[c], cb)
      /\ callback' = [callback EXCEPT ![c] = cb]
      /\ link' = link \/ link' = [link EXCEPT ![c] = IF @ = "open" THEN "closing" ELSE @]
      /\ overlapped' = [overlapped EXCEPT ![c] = @ \/ Busy(c)]
      /\ UNCHANGED <<reading, length, left, held, entryUp, entryDown, shownUp,
                     shownDown, up, down>>
  BY DEF Answer, Respond, ShutDown, Asks
<1>2. DOMAIN link = Conns /\ DOMAIN callback = Conns /\ DOMAIN overlapped = Conns
  BY <1>0 DEF TypeOK
<1>3. queued[c] \in Seq(Made(c)) /\ cb \in Made(c) \cup {None} /\ callback'[c] = cb
  BY <1>0, <1>1, <1>2 DEF Good, Mine, Made
<1>4. /\ queued'[c] \in Seq(Made(c))
      /\ \A b \in Conns \ {c} : queued'[b] = queued[b] /\ out'[b] = out[b]
  BY <1>0, <1>1, <1>3, SendsMade
<1>5. Elsewhere(c)
  BY <1>1, <1>2, <1>4, OnlySame DEF Elsewhere
<1>6. /\ link[c] \in {"open", "closing"} /\ link'[c] \in {"open", "closing"}
      /\ link'[c] \in {"new", "open"} => link[c] = "open"
      /\ ~reading[c]
  BY <1>1, <1>2, AsksIdle
<1>7. ASSUME ~overlapped'[c]
      PROVE  Waiting(c)' /\ Body(c)'
  <2>1. /\ entryUp[c] = None /\ entryDown[c] = None /\ Waiting(c)
        /\ \A i \in DOMAIN queued[c] : queued[c][i] = Shutdown
    BY <1>1, <1>7, AsksIdle
  <2>2. /\ link[c] = "open" => cb \in {None, Shutdown}
        /\ out[c] => cb \in {None, Shutdown}
    BY <2>1 DEF Waiting, Chain
  <2>3. Chain(queued'[c], cb, out'[c], link'[c], None)
    <3>1. TypeOK /\ queued[c] \in Seq(Made(c)) /\ cb \in Made(c) \cup {None}
      BY <1>0, <1>3
    <3>2. Send(c, queued[c], cb)
      BY <1>1
    <3>3. /\ link[c] = "open" => cb \in {None, Shutdown, None}
          /\ link[c] # "open" /\ out[c] /\ cb \notin {None, Shutdown} => cb = None
      BY <2>2
    <3> QED
      BY <1>6, <2>1, <3>1, <3>2, <3>3, SendsChain
  <2>4. Waiting(c)'
    BY <1>1, <1>3, <1>6, <2>1, <2>3 DEF Waiting
  <2>5. Body(c)'
    BY <1>1, <1>6 DEF Body
  <2> QED
    BY <2>4, <2>5
<1>8. /\ callback'[c] \in Made(c) \cup {None} /\ (overlapped[c] => overlapped'[c])
      /\ link'[c] # "closed"
  BY <1>1, <1>2, <1>3, <1>6
<1> QED
  BY <1>1, <1>4, <1>5, <1>7, <1>8, QuietKept

\* What a connection has made it keeps.
LEMMA MadeKept ==
  ASSUME NEW b, NEW c, Only(down, down', b)
  PROVE  Made(c) \subseteq Made(c)'
BY DEF Made, Only

LEMMA CloseOrderly ==
  ASSUME OrderlyInv, NEW c \in Conns, Close(c)
  PROVE  Elsewhere(c) /\ Good(c)'
<1>0. Inv /\ TypeOK /\ Good(c) /\ Mine(c) /\ Facts
  BY CountedFacts DEF OrderlyInv, Inv, Good
<1> DEFINE u == entryUp[c]
           d == entryDown[c]
           upOpen   == u # None /\ up[u].counted
           downOpen == d # None /\ down[d].counted
           y == [up[u] EXCEPT !.counted = FALSE]
           z == [down[d] EXCEPT !.counted = FALSE]
<1>1. /\ up' = IF upOpen THEN [up EXCEPT ![u] = y] ELSE up
      /\ down' = IF downOpen THEN [down EXCEPT ![d] = z] ELSE down
      /\ shownUp' = IF upOpen THEN [shownUp EXCEPT ![c] = None] ELSE shownUp
      /\ shownDown' = IF downOpen THEN [shownDown EXCEPT ![c] = None] ELSE shownDown
      /\ entryUp' = [entryUp EXCEPT ![c] = None]
      /\ entryDown' = [entryDown EXCEPT ![c] = None]
      /\ link' = [link EXCEPT ![c] = "closed"]
      /\ out' = [out EXCEPT ![c] = FALSE]
      /\ reading' = [reading EXCEPT ![c] = FALSE]
      /\ length' = [length EXCEPT ![c] = 0]
      /\ left' = [left EXCEPT ![c] = 0]
      /\ held' = [held EXCEPT ![c] = 0]
      /\ UNCHANGED <<callback, queued, overlapped>>
  BY DEF Close
<1>2. /\ DOMAIN link = Conns /\ DOMAIN out = Conns /\ DOMAIN reading = Conns
      /\ DOMAIN length = Conns /\ DOMAIN left = Conns /\ DOMAIN held = Conns
      /\ DOMAIN entryUp = Conns /\ DOMAIN entryDown = Conns
      /\ DOMAIN shownUp = Conns /\ DOMAIN shownDown = Conns
  BY <1>0 DEF TypeOK
<1>3. u # None =>
        /\ u \in 1 .. Len(up) /\ up[u].conn = c /\ y.conn = c /\ ~y.counted
        /\ y.finished = up[u].finished /\ y.failed = up[u].failed
        /\ y.length = up[u].length
  <2>1. u # None => u \in 1 .. Len(up) /\ up[u] \in UploadContext /\ up[u].conn = c
    BY <1>0, EntryTyped DEF Mine
  <2> QED
    BY <2>1 DEF UploadContext
<1>4. d # None =>
        d \in 1 .. Len(down) /\ down[d].conn = c /\ z.conn = c /\ ~z.counted
  <2>1. d # None => d \in 1 .. Len(down) /\ down[d] \in DownloadContext /\ down[d].conn = c
    BY <1>0, EntryTyped DEF Mine
  <2> QED
    BY <2>1 DEF DownloadContext
<1> HIDE DEF y, z
<1>5. Only(up, up', c) /\ Only(down, down', c)
  <2>1. up \in Seq(UploadContext) /\ down \in Seq(DownloadContext)
    BY <1>0 DEF Facts
  <2>2. upOpen => Only(up, [up EXCEPT ![u] = y], c)
    BY <1>3, <2>1, OnlyChanged
  <2>3. downOpen => Only(down, [down EXCEPT ![d] = z], c)
    BY <1>4, <2>1, OnlyChanged
  <2> QED
    BY <1>1, <2>2, <2>3, OnlySame
<1>6. Elsewhere(c)
  BY <1>1, <1>2, <1>5 DEF Elsewhere
<1>7. /\ DOMAIN up' = DOMAIN up /\ DOMAIN down' = DOMAIN down
      /\ \A i \in DOMAIN up : up'[i] = IF upOpen /\ i = u THEN y ELSE up[i]
      /\ \A i \in DOMAIN down : down'[i] = IF downOpen /\ i = d THEN z ELSE down[i]
  BY <1>0, <1>1, <1>3, <1>4 DEF Facts
<1>8. entryUp'[c] = None /\ entryDown'[c] = None /\ link'[c] = "closed"
  BY <1>1, <1>2
<1>9. Mine(c)'
  <2>1. Made(c) \subseteq Made(c)'
    BY <1>5, MadeKept
  <2>2. queued'[c] \in Seq(Made(c)')
    BY <1>0, <1>1, <2>1, SeqMonotonic DEF Mine
  <2> QED
    BY <1>0, <1>1, <1>8, <2>1, <2>2 DEF Mine
<1>10. ASSUME ~overlapped'[c]
       PROVE  Orderly(c)' /\ Whole(c)'
  <2>1. Orderly(c) /\ Whole(c)
    BY <1>0, <1>1, <1>10 DEF Good
  <2>2. /\ u # None => upOpen
        /\ d # None => downOpen
    BY <1>0, <1>3, <1>4, <2>1 DEF Orderly, Facts
  <2>3. shownUp'[c] = None /\ shownDown'[c] = None
    BY <1>1, <1>2, <2>1, <2>2 DEF Orderly
  <2>4. \A i \in DOMAIN up' : ~(up'[i].counted /\ up'[i].conn = c) /\ i # None
    BY <1>0, <1>3, <1>7, <2>1, <2>2 DEF Orderly, Facts, None
  <2>5. \A i \in DOMAIN down' : ~(down'[i].counted /\ down'[i].conn = c) /\ i # None
    BY <1>0, <1>4, <1>7, <2>1, <2>2 DEF Orderly, Facts, None
  <2>6. Orderly(c)'
    BY <1>8, <2>3, <2>4, <2>5 DEF Orderly
  <2>7. Whole(c)'
    BY <1>3, <1>7, <2>1 DEF Whole
  <2> QED
    BY <2>6, <2>7
<1> QED
  BY <1>6, <1>8, <1>9, <1>10 DEF Good

LEMMA DownloadOrderly ==
  ASSUME OrderlyInv, NEW c \in Conns, NEW n \in 0 .. Size, NEW close \in BOOLEAN,
         Download(c, n, close)
  PROVE  Elsewhere(c) /\ Good(c)'
<1> USE DEF parser
<1>0. Inv /\ TypeOK /\ Good(c) /\ Mine(c) /\ Facts
  BY CountedFacts DEF OrderlyInv, Inv, Good
<1> DEFINE d == Len(down) + 1
           y == [conn |-> c, counted |-> TRUE, rest |-> n]
<1>1. /\ Asks(c) /\ Send(c, queued[c], d)
      /\ down' = Append(down, y)
      /\ entryUp' = [entryUp EXCEPT ![c] = None]
      /\ entryDown' = [entryDown EXCEPT ![c] = d]
      /\ shownDown' = [shownDown EXCEPT ![c] = d]
      /\ callback' = [callback EXCEPT ![c] = d]
      /\ link' = link \/ link' = [link EXCEPT ![c] = IF @ = "open" THEN "closing" ELSE @]
      /\ UNCHANGED <<reading, length, left, held, shownUp, up>>
  BY DEF Download, Respond, ShutDown
<1>2. /\ DOMAIN link = Conns /\ DOMAIN callback = Conns
      /\ DOMAIN entryUp = Conns /\ DOMAIN entryDown = Conns
      /\ DOMAIN shownDown = Conns
  BY <1>0 DEF TypeOK
<1>3. /\ y \in DownloadContext /\ y.conn = c /\ y.counted
      /\ down \in Seq(DownloadContext)
  BY <1>0 DEF DownloadContext, Facts
<1> HIDE DEF y
<1>4. /\ Len(down) \in Nat /\ DOMAIN down = 1 .. Len(down)
      /\ DOMAIN down' = 1 .. d /\ down'[d] = y
      /\ \A i \in 1 .. Len(down) : down'[i] = down[i]
  BY <1>1, <1>3, AppendProperties, LenProperties
<1>5. Only(down, down', c) /\ Only(up, up', c)
  BY <1>1, <1>3, OnlyAppended, OnlySame
<1>6. Made(c) \subseteq Made(c)' /\ d \in Made(c)'
  <2>1. Made(c) \subseteq Made(c)'
    BY <1>5, MadeKept
  <2>2. d \in DOMAIN down' /\ down'[d].conn = c
    BY <1>3, <1>4
  <2> QED
    BY <2>1, <2>2 DEF Made
<1>7. queued[c] \in Seq(Made(c)')
  BY <1>0, <1>6, SeqMonotonic DEF Mine
<1>8. /\ queued'[c] \in Seq(Made(c)')
      /\ \A b \in Conns \ {c} : queued'[b] = queued[b] /\ out'[b] = out[b]
  BY <1>0, <1>1, <1>6, <1>7, SendsMade
<1>9. /\ \A b \in Conns \ {c} : overlapped'[b] = overlapped[b]
      /\ link[c] \in {"open", "closing"} /\ ~reading'[c]
      /\ link'[c] \in {"open", "closing"}
      /\ link'[c] \in {"new", "open"} => link[c] = "open"
  BY <1>1, <1>2, AsksIdle
<1>10. Elsewhere(c)
  BY <1>1, <1>2, <1>5, <1>8, <1>9 DEF Elsewhere
<1>11. /\ entryUp'[c] = None /\ entryDown'[c] = d /\ shownDown'[c] = d
       /\ callback'[c] = d /\ d # None
  BY <1>1, <1>2, <1>4 DEF None
<1>12. Mine(c)'
  BY <1>3, <1>4, <1>6, <1>8, <1>11 DEF Mine
<1>13. ASSUME ~overlapped'[c]
       PROVE  Orderly(c)' /\ Whole(c)' /\ Waiting(c)' /\ Body(c)'
  <2>1. /\ entryUp[c] = None /\ entryDown[c] = None
        /\ Orderly(c) /\ Whole(c) /\ Waiting(c)
        /\ \A i \in DOMAIN queued[c] : queued[c][i] = Shutdown
    BY <1>1, <1>13, AsksIdle
  <2>2. \A i \in DOMAIN down' :
          (down'[i].counted /\ down'[i].conn = c) <=> (entryDown'[c] = i)
    <3>1. \A i \in 1 .. Len(down) :
            ~(down'[i].counted /\ down'[i].conn = c) /\ i # d
      BY <1>4, <2>1 DEF Orderly, None
    <3>2. \A i \in DOMAIN down' : i \in 1 .. Len(down) \/ i = d
      BY <1>4
    <3> QED
      BY <1>3, <1>4, <1>11, <3>1, <3>2
  <2>3. Orderly(c)'
    BY <1>1, <1>9, <1>11, <2>1, <2>2 DEF Orderly
  <2>4. Whole(c)'
    BY <1>1, <2>1 DEF Whole
  <2>5. Chain(queued'[c], d, out'[c], link'[c], d)
    <3>1. /\ link[c] = "open" => d \in {None, Shutdown, d}
          /\ link[c] # "open" /\ out[c] /\ d \notin {None, Shutdown} => d = d
      OBVIOUS
    <3>2. d \in Made(c)' \cup {None}
      BY <1>6
    <3> HIDE DEF d
    <3> QED
      BY <1>0, <1>1, <1>7, <1>9, <2>1, <3>1, <3>2, SendsChain
  <2>6. Waiting(c)'
    BY <1>9, <1>11, <2>5 DEF Waiting
  <2>7. Body(c)'
    BY <1>9 DEF Body
  <2> QED
    BY <2>3, <2>4, <2>6, <2>7
<1> QED
  BY <1>10, <1>12, <1>13 DEF Good

LEMMA RunChunkOrderly ==
  ASSUME OrderlyInv, NEW c \in Conns, RunChunk(c)
  PROVE  Elsewhere(c) /\ Good(c)'
<1> USE DEF entries, shown, parser
<1>0. Inv /\ TypeOK /\ Good(c) /\ Mine(c) /\ Facts
  BY CountedFacts DEF OrderlyInv, Inv, Good
<1> DEFINE q == queued[c]
           t == Tail(q)
           d == Head(q)
           y == [down[d] EXCEPT !.rest = @ - 1]
<1>1. /\ q # << >> /\ d # Shutdown
      /\ down' = [down EXCEPT ![d] = y]
      /\ Send(c, t, callback[c])
      /\ UNCHANGED <<link, callback, reading, length, left, held, entryUp,
           entryDown, shownUp, shownDown, up, activeUploads, activeDownloads,
           overlapped>>
  BY DEF RunChunk
<1>2. q \in Seq(Made(c)) /\ callback[c] \in Made(c) \cup {None}
  BY <1>0 DEF Mine
<1>3. /\ t \in Seq(Made(c)) /\ d \in Made(c) /\ Len(q) \in Nat /\ Len(q) > 0
      /\ DOMAIN q = 1 .. Len(q) /\ DOMAIN t = 1 .. Len(q) - 1 /\ d = q[1]
      /\ \A i \in 1 .. Len(q) - 1 : t[i] = q[i + 1]
  BY <1>1, <1>2, HeadTailProperties, LenProperties
<1> HIDE DEF t, d
<1>4. d \in 1 .. Len(down) /\ down[d] \in DownloadContext /\ down[d].conn = c
  BY <1>0, <1>1, <1>3 DEF Made, Facts
<1>5. y.conn = c /\ y.counted = down[d].counted
  BY <1>4 DEF DownloadContext
<1> HIDE DEF y
<1>6. Only(down, down', c) /\ Only(up, up', c)
  <2>1. down \in Seq(DownloadContext)
    BY <1>0 DEF Facts
  <2>2. Only(down, [down EXCEPT ![d] = y], c)
    BY <1>4, <1>5, <2>1, OnlyChanged
  <2> QED
    BY <1>1, <2>2, OnlySame
<1>7. Made(c) \subseteq Made(c)'
  BY <1>6, MadeKept
<1>8. t \in Seq(Made(c)') /\ callback[c] \in Made(c)' \cup {None}
  BY <1>2, <1>3, <1>7, SeqMonotonic
<1>9. /\ queued'[c] \in Seq(Made(c)')
      /\ \A b \in Conns \ {c} : queued'[b] = queued[b] /\ out'[b] = out[b]
  BY <1>0, <1>1, <1>8, SendsMade
<1>10. Elsewhere(c)
  BY <1>1, <1>6, <1>9 DEF Elsewhere
<1>11. Mine(c)'
  <2>1. entryDown[c] # None => down'[entryDown[c]].conn = c
    <3>1. entryDown[c] # None => entryDown[c] \in DOMAIN down /\ down[entryDown[c]].conn = c
      BY <1>0, EntryTyped DEF Mine, Facts
    <3> QED
      BY <1>6, <3>1 DEF Only
  <2> QED
    BY <1>0, <1>1, <1>8, <1>9, <2>1 DEF Mine
<1>12. ASSUME ~overlapped[c]
       PROVE  Orderly(c)' /\ Whole(c)'
  <2>1. Orderly(c) /\ Whole(c)
    BY <1>0, <1>12 DEF Good
  <2>2. /\ DOMAIN down' = DOMAIN down
        /\ \A i \in DOMAIN down :
             down'[i].counted = down[i].counted /\ down'[i].conn = down[i].conn
    BY <1>0, <1>1, <1>4, <1>5 DEF Facts
  <2> QED
    BY <1>1, <2>1, <2>2 DEF Orderly, Whole
<1>13. ASSUME ~overlapped[c], link[c] # "closed"
       PROVE  Waiting(c)' /\ Body(c)'
  <2>1. Waiting(c) /\ Body(c)
    BY <1>0, <1>13 DEF Good
  <2>2. Chain(q, callback[c], out[c], link[c], entryDown[c]) /\ link[c] # "new"
    BY <1>1, <2>1 DEF Waiting
  <2>3. \A i \in DOMAIN t : t[i] = Shutdown
    <3>1. 1 \in DOMAIN q /\ q[1] # Shutdown
      BY <1>1, <1>3
    <3>2. \A i \in DOMAIN t : i + 1 \in DOMAIN q /\ t[i] = q[i + 1] /\ i + 1 # 1
      BY <1>3
    <3> QED
      BY <2>2, <3>1, <3>2 DEF Chain
  <2>4. Chain(queued'[c], callback[c], out'[c], link[c], entryDown[c])
    <3>1. /\ link[c] = "open" => callback[c] \in {None, Shutdown, entryDown[c]}
          /\ link[c] # "open" /\ out[c] /\ callback[c] \notin {None, Shutdown} =>
               callback[c] = entryDown[c]
          /\ link[c] \in {"new", "open"} => link[c] = "open"
      BY <2>2 DEF Chain
    <3> QED
      BY <1>0, <1>1, <1>8, <2>3, <3>1, SendsChain
  <2>5. Waiting(c)'
    BY <1>1, <2>1, <2>2, <2>4 DEF Waiting
  <2>6. Body(c)'
    BY <1>1, <2>1 DEF Body
  <2> QED
    BY <2>5, <2>6
<1> QED
  BY <1>1, <1>10, <1>11, <1>12, <1>13 DEF Good

\* The callback that ends a download ends the one in the entry, or finds it
\* released with the connection.
LEMMA RunEndOrderly ==
  ASSUME OrderlyInv, NEW c \in Conns, RunEnd(c)
  PROVE  Elsewhere(c) /\ Good(c)'
<1> USE DEF parser
<1>0. Inv /\ TypeOK /\ Good(c) /\ Mine(c) /\ Facts
  BY CountedFacts DEF OrderlyInv, Inv, Good
<1> DEFINE q == queued[c]
           t == Tail(q)
           d == Head(q)
           y == [down[d] EXCEPT !.counted = FALSE, !.rest = 0]
           drop == down[d].counted
<1>1. /\ q # << >> /\ d # Shutdown
      /\ down' = [down EXCEPT ![d] = y]
      /\ shownDown' = IF drop THEN [shownDown EXCEPT ![c] = None] ELSE shownDown
      /\ entryUp' = [entryUp EXCEPT ![c] = None]
      /\ entryDown' = [entryDown EXCEPT ![c] = None]
      /\ queued' = [queued EXCEPT ![c] = t]
      /\ link' = [link EXCEPT ![c] = IF @ = "open" THEN "closing" ELSE @]
      /\ UNCHANGED <<out, callback, reading, length, left, held, shownUp, up,
                     overlapped>>
  BY DEF RunEnd, ShutDown
<1>2. q \in Seq(Made(c)) /\ callback[c] \in Made(c) \cup {None}
  BY <1>0 DEF Mine
<1>3. /\ t \in Seq(Made(c)) /\ d \in Made(c) /\ Len(q) \in Nat /\ Len(q) > 0
      /\ DOMAIN q = 1 .. Len(q) /\ DOMAIN t = 1 .. Len(q) - 1 /\ d = q[1]
      /\ \A i \in 1 .. Len(q) - 1 : t[i] = q[i + 1]
  BY <1>1, <1>2, HeadTailProperties, LenProperties
<1> HIDE DEF t, d
<1>4. d \in 1 .. Len(down) /\ down[d] \in DownloadContext /\ down[d].conn = c
  BY <1>0, <1>1, <1>3 DEF Made, Facts
<1>5. y.conn = c /\ ~y.counted
  BY <1>4 DEF DownloadContext
<1> HIDE DEF y
<1>6. Only(down, down', c) /\ Only(up, up', c)
  <2>1. down \in Seq(DownloadContext)
    BY <1>0 DEF Facts
  <2>2. Only(down, [down EXCEPT ![d] = y], c)
    BY <1>4, <1>5, <2>1, OnlyChanged
  <2> QED
    BY <1>1, <2>2, OnlySame
<1>7. Made(c) \subseteq Made(c)'
  BY <1>6, MadeKept
<1>8. t \in Seq(Made(c)') /\ callback[c] \in Made(c)' \cup {None}
  BY <1>2, <1>3, <1>7, SeqMonotonic
<1>9. /\ DOMAIN link = Conns /\ DOMAIN queued = Conns
      /\ DOMAIN entryUp = Conns /\ DOMAIN entryDown = Conns
      /\ DOMAIN shownDown = Conns
  BY <1>0 DEF TypeOK
<1>10. Elsewhere(c)
  BY <1>1, <1>6, <1>9 DEF Elsewhere
<1>11. /\ entryUp'[c] = None /\ entryDown'[c] = None /\ queued'[c] = t
       /\ link'[c] = IF link[c] = "open" THEN "closing" ELSE link[c]
  BY <1>1, <1>9
<1>12. Mine(c)'
  BY <1>1, <1>8, <1>11 DEF Mine
<1>13. ASSUME ~overlapped[c]
       PROVE  Orderly(c)' /\ Whole(c)'
  <2>1. Orderly(c) /\ Whole(c)
    BY <1>0, <1>13 DEF Good
  <2>2. \/ link[c] = "closed" /\ entryUp[c] = None /\ entryDown[c] = None /\ ~drop
        \/ entryUp[c] = None /\ entryDown[c] = d /\ drop
    <3>1. d \in DOMAIN down /\ d # None /\ (drop <=> entryDown[c] = d)
      BY <1>0, <1>4, <2>1 DEF Facts, None, Orderly
    <3>2. CASE link[c] = "closed"
      BY <2>1, <3>1, <3>2 DEF Orderly
    <3>3. CASE link[c] # "closed"
      <4>1. Waiting(c) /\ 1 \in DOMAIN q /\ q[1] # Shutdown
        BY <1>0, <1>1, <1>3, <1>13, <3>3 DEF Good
      <4>2. entryDown[c] = d
        BY <1>3, <4>1 DEF Waiting, Chain
      <4> QED
        BY <3>1, <4>1, <4>2 DEF Waiting
    <3> QED
      BY <3>2, <3>3
  <2>3. shownUp'[c] = None /\ shownDown'[c] = None
    BY <1>1, <1>9, <2>1, <2>2 DEF Orderly
  <2>4. /\ DOMAIN down' = 1 .. Len(down)
        /\ \A i \in 1 .. Len(down) : down'[i] = IF i = d THEN y ELSE down[i]
    BY <1>0, <1>1, <1>4 DEF Facts
  <2>5. \A i \in DOMAIN down' : ~(down'[i].counted /\ down'[i].conn = c) /\ i # None
    BY <1>0, <1>5, <2>1, <2>2, <2>4 DEF Orderly, Facts, None
  <2>6. Orderly(c)'
    BY <1>1, <1>11, <2>1, <2>2, <2>3, <2>5 DEF Orderly
  <2>7. Whole(c)'
    BY <1>1, <2>1 DEF Whole
  <2> QED
    BY <2>6, <2>7
<1>14. ASSUME ~overlapped[c], link'[c] # "closed"
       PROVE  Waiting(c)' /\ Body(c)'
  <2>1. Waiting(c) /\ Body(c)
    BY <1>0, <1>11, <1>14 DEF Good
  <2>2. /\ Chain(q, callback[c], out[c], link[c], entryDown[c])
        /\ link'[c] \notin {"new", "open"}
    BY <1>1, <1>11, <2>1 DEF Waiting
  <2>3. 1 \in DOMAIN q /\ q[1] # Shutdown
    BY <1>1, <1>3
  <2>4. \A i \in DOMAIN t : t[i] = Shutdown
    <3>1. \A i \in DOMAIN t : i + 1 \in DOMAIN q /\ t[i] = q[i + 1] /\ i + 1 # 1
      BY <1>3
    <3> QED
      BY <2>2, <2>3, <3>1 DEF Chain
  <2>5. Chain(t, callback[c], out[c], link'[c], None)
    BY <2>2, <2>3, <2>4 DEF Chain
  <2>6. Waiting(c)'
    BY <1>1, <1>11, <2>2, <2>5 DEF Waiting
  <2>7. Body(c)'
    BY <1>1, <2>1, <2>2, <2>3 DEF Body, Waiting, Chain
  <2> QED
    BY <2>6, <2>7
<1> QED
  BY <1>1, <1>10, <1>12, <1>13, <1>14 DEF Good

\* On an orderly connection the context x that takes a body is counted, not
\* finished, and lacks just what is held and still to come.
LEMMA TakeBodyOrderly ==
  ASSUME OrderlyInv, NEW c \in Conns, NEW k \in 0 .. Size, Reads(c, k),
         NEW outcome \in Outcomes, NEW close \in BOOLEAN,
         NEW u, NEW x \in UploadContext, NEW counters,
         \/ u \in 1 .. Len(up) /\ x = up[u] /\ entryUp[c] = u
         \/ u = Len(up) + 1 /\ entryUp[c] = None,
         x.conn = c,
         ~overlapped[c] =>
           /\ x.counted /\ x.length = length[c] /\ x.finished = -1
           /\ x.total + held[c] + left[c] <= length[c]
           /\ ~x.failed => x.total + held[c] + left[c] = length[c],
         TakeBody(c, k, u, x, counters, outcome, close)
  PROVE  Elsewhere(c) /\ Good(c)'
<1>0. Inv /\ TypeOK /\ Good(c) /\ Mine(c) /\ Facts
  BY CountedFacts DEF OrderlyInv, Inv, Good
<1> DEFINE total == IF outcome = "failed" THEN x.total ELSE x.total + (held[c] + k)
           done  == Last(c, k) \/ (length[c] > 0 /\ total >= length[c])
           drop  == done /\ x.counted
           y == [x EXCEPT !.counted = @ /\ ~done,
                          !.total = total,
                          !.failed = @ \/ outcome # "stored",
                          !.finished = IF done THEN total ELSE @]
<1>1. /\ up' = IF u \in DOMAIN up THEN [up EXCEPT ![u] = y] ELSE Append(up, y)
      /\ shownUp' = [shownUp EXCEPT ![c] = IF drop THEN None ELSE
                                           IF u \in DOMAIN up THEN @ ELSE u]
      /\ entryUp' = [entryUp EXCEPT ![c] = IF done THEN None ELSE u]
      /\ entryDown' = [entryDown EXCEPT ![c] = IF done THEN None ELSE @]
      /\ callback' = [callback EXCEPT ![c] = IF done THEN Shutdown ELSE @]
      /\ AfterHandler(c, k, 0, close)
      /\ UNCHANGED <<shownDown, down, activeDownloads, overlapped>>
  BY DEF TakeBody
<1>2. /\ y.conn = c /\ y.counted = (x.counted /\ ~done) /\ y.total = total
      /\ y.failed = (x.failed \/ outcome # "stored") /\ y.length = x.length
      /\ y.finished = IF done THEN total ELSE x.finished
  BY DEF UploadContext
<1>3. /\ held[c] \in Nat /\ left[c] \in Nat /\ length[c] \in Nat /\ k \in Nat
      /\ x.total \in Nat /\ k <= left[c] /\ reading[c] /\ total \in Nat
  <2>1. held[c] \in Nat /\ left[c] \in Nat /\ length[c] \in Nat /\ k \in Nat
    BY <1>0, BoundsAssumption DEF TypeOK
  <2>2. x.total \in Nat /\ k <= left[c] /\ reading[c]
    BY DEF UploadContext, Reads
  <2> QED
    BY <2>1, <2>2
<1>4. y \in UploadContext
  <2>1. done \in BOOLEAN /\ x.counted \in BOOLEAN /\ x.failed \in BOOLEAN
    BY DEF Last, UploadContext
  <2> HIDE DEF done, total
  <2> QED
    BY <1>3, <2>1 DEF UploadContext
<1>5. ~overlapped[c] =>
        /\ done <=> Last(c, k)
        /\ done /\ ~y.failed => total = length[c]
        /\ ~done => /\ total + 0 + (left[c] - k) <= length[c]
                    /\ ~y.failed => total + 0 + (left[c] - k) = length[c]
  <2> SUFFICES ASSUME ~overlapped[c]
               PROVE  /\ done <=> Last(c, k)
                      /\ done /\ ~y.failed => total = length[c]
                      /\ ~done => /\ total + 0 + (left[c] - k) <= length[c]
                                  /\ ~y.failed =>
                                       total + 0 + (left[c] - k) = length[c]
    OBVIOUS
  <2>1. /\ x.total + held[c] + left[c] <= length[c]
        /\ ~x.failed => x.total + held[c] + left[c] = length[c]
    OBVIOUS
  <2>2. total <= x.total + held[c] + k
    BY <1>3
  <2>3. ~y.failed => ~x.failed /\ total = x.total + held[c] + k
    <3>1. ~y.failed => ~x.failed /\ outcome = "stored"
      BY <1>2
    <3>2. outcome = "stored" => total = x.total + held[c] + k
      BY <1>3
    <3> QED
      BY <3>1, <3>2
  <2>4. done <=> Last(c, k)
    <3> HIDE DEF total
    <3> QED
      BY <1>3, <2>1, <2>2 DEF Last
  <2> HIDE DEF total, done, y
  <2>5. ASSUME Last(c, k), ~y.failed
        PROVE  total = length[c]
    <3>1. total = x.total + held[c] + left[c] /\ ~x.failed
      BY <2>3, <2>5 DEF Last
    <3> QED
      BY <2>1, <3>1
  <2>6. total + 0 + (left[c] - k) <= length[c]
    BY <1>3, <2>1, <2>2
  <2>7. ASSUME ~y.failed
        PROVE  total + 0 + (left[c] - k) = length[c]
    <3>1. total = x.total + held[c] + k /\ x.total + held[c] + left[c] = length[c]
      BY <2>1, <2>3, <2>7
    <3> QED
      BY <1>3, <3>1
  <2> QED
    BY <2>4, <2>5, <2>6, <2>7
<1>6. done => Last(c, k) \/ overlapped[c]
  BY <1>5
<1> HIDE DEF total, done, y
<1>7. u \in Nat \ {0} /\ u # None
  BY <1>0 DEF Facts, None
<1>8. Only(up, up', c) /\ Only(down, down', c)
  <2>1. up \in Seq(UploadContext)
    BY <1>0 DEF Facts
  <2>2. CASE u \in 1 .. Len(up) /\ x = up[u]
    <3>1. Only(up, [up EXCEPT ![u] = y], c)
      BY <1>2, <2>1, <2>2, OnlyChanged
    <3> QED
      BY <1>0, <1>1, <2>2, <3>1, OnlySame DEF Facts
  <2>3. CASE u = Len(up) + 1
    <3>1. Only(up, Append(up, y), c)
      BY <1>2, <1>4, <2>1, OnlyAppended
    <3>2. u \notin DOMAIN up
      BY <1>0, <2>3 DEF Facts
    <3> QED
      BY <1>1, <3>1, <3>2, OnlySame
  <2> QED
    BY <2>2, <2>3
<1>9. /\ DOMAIN up' = DOMAIN up \cup {u}
      /\ \A i \in DOMAIN up' : up'[i] = IF i = u THEN y ELSE up[i]
  <2>1. CASE u \in 1 .. Len(up)
    BY <1>0, <1>1, <2>1 DEF Facts
  <2>2. CASE u = Len(up) + 1
    <3>1. up' = Append(up, y) /\ up \in Seq(UploadContext)
      <4>1. u \notin DOMAIN up
        BY <1>0, <2>2 DEF Facts
      <4> QED
        BY <1>0, <1>1, <4>1 DEF Facts
    <3>2. /\ DOMAIN up = 1 .. Len(up) /\ DOMAIN up' = 1 .. Len(up) + 1
          /\ \A i \in 1 .. Len(up) : up'[i] = up[i]
          /\ up'[Len(up) + 1] = y /\ Len(up) \in Nat
      BY <1>4, <3>1, AppendProperties, LenProperties
    <3> QED
      BY <2>2, <3>2
  <2> QED
    BY <2>1, <2>2
<1>10. /\ DOMAIN callback = Conns /\ DOMAIN entryUp = Conns
       /\ DOMAIN entryDown = Conns /\ DOMAIN shownUp = Conns
  BY <1>0 DEF TypeOK
<1>11. /\ entryUp'[c] = IF done THEN None ELSE u
       /\ entryDown'[c] = IF done THEN None ELSE entryDown[c]
       /\ callback'[c] = IF done THEN Shutdown ELSE callback[c]
  BY <1>1, <1>10
<1>12. queued[c] \in Seq(Made(c)) /\ callback'[c] \in Made(c) \cup {None}
  BY <1>0, <1>11 DEF Mine, Made
<1>13. /\ \A b \in Conns \ {c} :
            /\ link'[b] = link[b] /\ out'[b] = out[b] /\ queued'[b] = queued[b]
            /\ reading'[b] = reading[b] /\ length'[b] = length[b]
            /\ left'[b] = left[b] /\ held'[b] = held[b]
       /\ queued'[c] \in Seq(Made(c)) /\ left'[c] = left[c] - k
       /\ link[c] \notin {"new", "closed"} /\ link'[c] \notin {"new", "closed"}
       /\ ~Last(c, k) =>
            /\ held'[c] = 0 /\ link' = link /\ out' = out
            /\ queued' = queued /\ reading' = reading /\ length' = length
       /\ Last(c, k) => ~reading'[c]
       /\ Last(c, k) /\ callback'[c] = Shutdown
            /\ (\A i \in DOMAIN queued[c] : queued[c][i] = Shutdown) =>
            Chain(queued'[c], callback'[c], out'[c], link'[c], None)
  BY <1>0, <1>1, <1>12, HandlerOrderly
<1>14. Elsewhere(c)
  BY <1>1, <1>8, <1>10, <1>13 DEF Elsewhere
<1>15. Mine(c)'
  <2>1. Made(c)' = Made(c)
    BY <1>1 DEF Made
  <2>2. ~done => up'[entryUp'[c]].conn = c
    BY <1>2, <1>9, <1>11
  <2> QED
    BY <1>0, <1>1, <1>11, <1>12, <1>13, <2>1, <2>2 DEF Mine
<1>16. ASSUME ~overlapped[c]
       PROVE  Orderly(c)' /\ Whole(c)' /\ Waiting(c)' /\ Body(c)'
  <2>1. /\ Orderly(c) /\ Whole(c) /\ Waiting(c) /\ Body(c)
        /\ entryDown[c] = None
        /\ \A i \in DOMAIN queued[c] : queued[c][i] = Shutdown
    BY <1>0, <1>3, <1>13, <1>16 DEF Good, Waiting, Chain
  <2>2. entryDown'[c] = None /\ y.counted = ~done
    BY <1>2, <1>11, <1>16, <2>1
  <2>3. shownUp'[c] = entryUp'[c]
    <3>1. u \in DOMAIN up => entryUp[c] = u
      BY <1>0 DEF Facts
    <3> QED
      BY <1>1, <1>10, <1>11, <1>16, <2>1, <3>1 DEF Orderly
  <2>4. \A i \in DOMAIN up' :
          (up'[i].counted /\ up'[i].conn = c) <=> (entryUp'[c] = i)
    <3> SUFFICES ASSUME NEW i \in DOMAIN up'
                 PROVE  (up'[i].counted /\ up'[i].conn = c) <=> (entryUp'[c] = i)
      OBVIOUS
    <3>1. i # None
      BY <1>0, <1>7, <1>9 DEF Facts, None
    <3>2. CASE i = u
      BY <1>2, <1>9, <1>11, <2>2, <3>1, <3>2
    <3>3. CASE i # u
      <4>1. i \in DOMAIN up /\ up'[i] = up[i] /\ entryUp[c] # i
        BY <1>9, <3>1, <3>3
      <4>2. entryUp'[c] # i
        BY <1>11, <3>1, <3>3
      <4> QED
        BY <2>1, <4>1, <4>2 DEF Orderly
    <3> QED
      BY <3>2, <3>3
  <2>5. Orderly(c)'
    BY <1>1, <1>13, <2>1, <2>2, <2>3, <2>4 DEF Orderly
  <2>6. Whole(c)'
    <3>1. y.finished # -1 => ~y.counted /\ (~y.failed => y.finished = y.length)
      BY <1>2, <1>5, <1>16, <2>2
    <3> QED
      BY <1>9, <2>1, <3>1 DEF Whole
  <2>7. Waiting(c)'
    <3>1. CASE Last(c, k)
      BY <1>5, <1>11, <1>13, <1>16, <2>1, <2>2, <3>1 DEF Waiting
    <3>2. CASE ~Last(c, k)
      BY <1>5, <1>11, <1>13, <1>16, <2>1, <2>2, <3>2 DEF Waiting, Chain
    <3> QED
      BY <3>1, <3>2
  <2>8. Body(c)'
    <3>1. CASE Last(c, k)
      BY <1>13, <3>1 DEF Body
    <3>2. CASE ~Last(c, k)
      <4>1. /\ entryUp'[c] = u /\ up'[u] = y /\ u # None
            /\ held'[c] = 0 /\ left'[c] = left[c] - k /\ length'[c] = length[c]
        BY <1>5, <1>7, <1>9, <1>11, <1>13, <1>16, <3>2
      <4>2. /\ y.length = length[c] /\ y.finished = -1 /\ y.total = total
            /\ total + 0 + (left[c] - k) <= length[c]
            /\ ~y.failed => total + 0 + (left[c] - k) = length[c]
        BY <1>2, <1>5, <1>16, <3>2
      <4> QED
        BY <4>1, <4>2 DEF Body
    <3> QED
      BY <3>1, <3>2
  <2> QED
    BY <2>5, <2>6, <2>7, <2>8
<1> QED
  BY <1>1, <1>14, <1>15, <1>16 DEF Good

LEMMA UploadOrderly ==
  ASSUME OrderlyInv, NEW c \in Conns, NEW k \in 0 .. Size, NEW outcome \in Outcomes,
         NEW close \in BOOLEAN,
         UploadGoesOn(c, k, outcome, close) \/ UploadBegins(c, k, outcome, close)
  PROVE  Elsewhere(c) /\ Good(c)'
<1>0. Inv /\ TypeOK /\ Good(c) /\ Mine(c) /\ Facts
  BY CountedFacts DEF OrderlyInv, Inv, Good
<1>1. /\ Reads(c, k) /\ reading[c] /\ link[c] # "closed"
      /\ held[c] \in Nat /\ left[c] \in Nat /\ length[c] \in 0 .. Size
  <2>1. Reads(c, k)
    BY DEF UploadGoesOn, UploadBegins
  <2> QED
    BY <1>0, <2>1, BoundsAssumption DEF Reads, Readable, TypeOK
<1>2. CASE UploadGoesOn(c, k, outcome, close)
  <2> DEFINE u == entryUp[c]
  <2>1. /\ u # None
        /\ TakeBody(c, k, u, up[u], activeUploads, outcome, close)
    BY <1>2 DEF UploadGoesOn
  <2>2. u \in 1 .. Len(up) /\ up[u] \in UploadContext /\ up[u].conn = c
    BY <1>0, <2>1, EntryTyped DEF Mine
  <2>3. ~overlapped[c] =>
          /\ up[u].counted /\ up[u].length = length[c] /\ up[u].finished = -1
          /\ up[u].total + held[c] + left[c] <= length[c]
          /\ ~up[u].failed => up[u].total + held[c] + left[c] = length[c]
    BY <1>0, <1>1, <2>1, <2>2 DEF Good, Orderly, Body, Facts
  <2> QED
    BY <1>1, <2>1, <2>2, <2>3, TakeBodyOrderly
<1>3. CASE UploadBegins(c, k, outcome, close)
  <2> DEFINE x == [conn |-> c, counted |-> TRUE, length |-> length[c],
                   total |-> 0, failed |-> FALSE, finished |-> -1]
  <2>1. /\ entryUp[c] = None
        /\ TakeBody(c, k, Len(up) + 1, x, activeUploads + 1, outcome, close)
    BY <1>3 DEF UploadBegins
  <2>2. x \in UploadContext /\ x.conn = c
    BY <1>1 DEF UploadContext
  <2>3. ~overlapped[c] => held[c] + left[c] = length[c]
    BY <1>0, <1>1, <2>1 DEF Good, Body
  <2>4. ~overlapped[c] =>
          /\ x.counted /\ x.length = length[c] /\ x.finished = -1
          /\ x.total + held[c] + left[c] <= length[c]
          /\ ~x.failed => x.total + held[c] + left[c] = length[c]
    BY <1>1, <2>3
  <2> HIDE DEF x
  <2> QED
    BY <1>1, <2>1, <2>2, <2>4, TakeBodyOrderly
<1> QED
  BY <1>2, <1>3

LEMMA OrderlyInit == Init => OrderlyInv
<1> SUFFICES ASSUME Init
             PROVE  OrderlyInv
  OBVIOUS
<1>1. Inv
  BY InvInit
<1>2. ASSUME NEW c \in Conns
      PROVE  Good(c)
  <2>1. /\ up = << >> /\ down = << >> /\ queued[c] = << >> /\ callback[c] = None
        /\ entryUp[c] = None /\ entryDown[c] = None /\ ~reading[c] /\ ~out[c]
        /\ shownUp[c] = None /\ shownDown[c] = None /\ link[c] = "new"
    BY DEF Init
  <2>2. DOMAIN up = {} /\ DOMAIN down = {} /\ DOMAIN queued[c] = {}
    BY <2>1
  <2>3. Mine(c)
    <3>1. << >> \in Seq(Made(c))
      OBVIOUS
    <3> QED
      BY <2>1, <3>1 DEF Mine
  <2>4. Orderly(c) /\ Whole(c)
    BY <2>1, <2>2 DEF Orderly, Whole
  <2>5. Waiting(c) /\ Body(c)
    BY <2>1, <2>2 DEF Waiting, Chain, Body
  <2> QED
    BY <2>3, <2>4, <2>5 DEF Good
<1> QED
  BY <1>1, <1>2 DEF OrderlyInv

LEMMA OrderlyNext == OrderlyInv /\ [Next]_vars => OrderlyInv'
<1> SUFFICES ASSUME OrderlyInv, [Next]_vars
             PROVE  OrderlyInv'
  OBVIOUS
<1>1. Inv'
  BY InvNext DEF OrderlyInv
<1>2. CASE UNCHANGED vars
  <2>1. ASSUME NEW c \in Conns
        PROVE  Good(c)'
    <3>1. Good(c)
      BY DEF OrderlyInv
    <3>2. Made(c)' = Made(c) /\ (Mine(c) <=> Mine(c)')
      BY <1>2 DEF vars, Made, Mine
    <3>3. (Orderly(c) <=> Orderly(c)') /\ (Whole(c) <=> Whole(c)')
      BY <1>2 DEF vars, Orderly, Whole
    <3>4. (Waiting(c) <=> Waiting(c)') /\ (Body(c) <=> Body(c)')
      BY <1>2 DEF vars, Waiting, Chain, Body
    <3> QED
      BY <1>2, <3>1, <3>2, <3>3, <3>4 DEF vars, Good
  <2> QED
    BY <1>1, <2>1 DEF OrderlyInv
<1>3. CASE Next
  <2>1. PICK c \in Conns :
    \/ Connect(c) \/ Close(c) \/ Drain(c)
    \/ RunShutdown(c) \/ RunChunk(c) \/ RunEnd(c)
    \/ \E n \in 0 .. Size : StartUpload(c, n)
    \/ \E k \in 0 .. Size : BodyWaits(c, k)
    \/ \E k \in 0 .. Size, close \in BOOLEAN : UploadRefused(c, k, close)
    \/ \E k \in 0 .. Size, outcome \in Outcomes, close \in BOOLEAN :
         UploadGoesOn(c, k, outcome, close) \/ UploadBegins(c, k, outcome, close)
    \/ \E n \in 0 .. Size, close \in BOOLEAN : Download(c, n, close)
    \/ \E cb \in {callback[c], Shutdown}, close \in BOOLEAN : Answer(c, cb, close)
    BY <1>3 DEF Next
  <2>2. Elsewhere(c) /\ Good(c)'
    BY <2>1, ConnectOrderly, CloseOrderly, DrainOrderly, RunShutdownOrderly,
       RunChunkOrderly, RunEndOrderly, StartUploadOrderly, BodyWaitsOrderly,
       UploadRefusedOrderly, UploadOrderly, DownloadOrderly, AnswerOrderly
  <2>3. \A b \in Conns \ {c} : Good(b)'
    BY <1>1, <2>2, OthersKept
  <2> QED
    BY <1>1, <2>2, <2>3 DEF OrderlyInv
<1> QED
  BY <1>2, <1>3

\* On a connection whose client never asked while a transfer was counted, the
\* counted transfer, the entry and the session are one, and closing leaves none.
THEOREM OrderlyConnectionsKept == Spec => []OrderlyConnections
<1>1. Init => OrderlyInv
  BY OrderlyInit
<1>2. OrderlyInv /\ [Next]_vars => OrderlyInv'
  BY OrderlyNext
<1>3. OrderlyInv => OrderlyConnections
  BY DEF OrderlyInv, Good, Orderly, OrderlyConnections
<1> QED
  BY <1>1, <1>2, <1>3, PTL DEF Spec

\* ... and the master is told the length of the body, if no write failed.
THEOREM OrderlyUploadsAreWhole == Spec => []OrderlyUploadsWhole
<1>1. Init => OrderlyInv
  BY OrderlyInit
<1>2. OrderlyInv /\ [Next]_vars => OrderlyInv'
  BY OrderlyNext
<1>3. ASSUME OrderlyInv
      PROVE  OrderlyUploadsWhole
  <2>1. Facts
    BY <1>3, CountedFacts DEF OrderlyInv
  <2>2. \A u \in DOMAIN up : up[u].conn \in Conns
    BY <2>1 DEF Facts, UploadContext
  <2> QED
    BY <1>3, <2>2 DEF OrderlyInv, Good, Whole, OrderlyUploadsWhole
<1> QED
  BY <1>1, <1>2, <1>3, PTL DEF Spec

=============================================================================
