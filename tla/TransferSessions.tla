-------------------------- MODULE TransferSessions --------------------------
(***************************************************************************)
(* Uploads and downloads over the connections of a DataNode: the counters  *)
(* the heartbeats report, the sessions the administrator sees, and the     *)
(* state a connection keeps between reads (DataNodeHttpHandler.cc,         *)
(* DataNode.cc, LocalFileStorage.cc on HttpServer.cc and TcpConnection.cc).*)
(*                                                                         *)
(* All handlers and callbacks of a connection run on its I/O loop, one     *)
(* after the other, so each is one action.  A context is known by its      *)
(* number: `up` and `down` hold all that were ever made.  A body or a file *)
(* is a number of pieces of any size; a part of a body may be shorter or   *)
(* longer than the 1 MiB a handler waits for.                              *)
(***************************************************************************)
EXTENDS Integers, Sequences, FiniteSets

CONSTANTS
  Conns,         \* connections; the server never uses a name twice
  Size,          \* bound: pieces of a body or of a file
  MaxUploads,    \* bound: upload contexts made
  MaxDownloads,  \* bound: download contexts made
  MaxQueued,     \* bound: a client asks only while fewer callbacks are queued
  DiskMayFail    \* can LocalFileStorage::write fail?

ASSUME BoundsAssumption ==
  Size \in Nat /\ MaxUploads \in Nat /\ MaxDownloads \in Nat /\ MaxQueued \in Nat
ASSUME DiskAssumption == DiskMayFail \in BOOLEAN

VARIABLES
  link,       \* TcpConnection::state_
  out,        \* is something left in outputBuffer_?
  callback,   \* writeCompleteCallback_
  queued,     \* copies of it queued in the loop
  reading,    \* is the parser in the body of an upload request?
  length,     \* pieces of that body,
  left,       \* those still to come,
  held,       \* and those in req.body() that no handler has taken
  entryUp,    \* activeTransfers_[conn]->uploadContext
  entryDown,  \* activeTransfers_[conn]->downloadContext
  shownUp,    \* transferSessions_["<conn>:upload"]
  shownDown,  \* transferSessions_["<conn>:download"]
  up,         \* upload contexts, in the order of their making
  down,       \* download contexts
  activeUploads,
  activeDownloads,
  overlapped  \* history: was a request handled while a transfer was counted?

tcp    == <<link, out, callback, queued>>
parser == <<reading, length, left, held>>
entries == <<entryUp, entryDown>>
shown  == <<shownUp, shownDown>>
vars == <<link, out, callback, queued, reading, length, left, held, entryUp,
          entryDown, shownUp, shownDown, up, down, activeUploads,
          activeDownloads, overlapped>>

Outcomes == {"stored", "failed", "unflushed"}   \* of a write

None     == 0     \* no context, no callback
Shutdown == -1    \* the callback that shuts the connection down

\* The callback of a download is known by its context, from 1.
Callbacks == {Shutdown} \cup (1 .. Len(down))

\* A context is "counted" until releaseTransferCounter().  `total` is what its
\* LocalFileStorage takes for written, `failed` says that its stream failed, and
\* `finished` is the size told to the master, -1 until then.
UploadContext ==
  [conn : Conns, counted : BOOLEAN, length : 0 .. Size,
   total : Nat, failed : BOOLEAN, finished : Nat \cup {-1}]
DownloadContext ==
  [conn : Conns, counted : BOOLEAN, rest : 0 .. Size]

TypeOK ==
  /\ link \in [Conns -> {"new", "open", "closing", "closed"}]
  /\ out \in [Conns -> BOOLEAN]
  /\ callback \in [Conns -> Callbacks \cup {None}]
  /\ queued \in [Conns -> Seq(Callbacks)]
  /\ reading \in [Conns -> BOOLEAN]
  /\ length \in [Conns -> 0 .. Size]
  /\ left \in [Conns -> 0 .. Size]
  /\ held \in [Conns -> 0 .. Size]
  /\ up \in Seq(UploadContext) /\ Len(up) <= MaxUploads
  /\ down \in Seq(DownloadContext) /\ Len(down) <= MaxDownloads
  /\ entryUp \in [Conns -> 0 .. Len(up)]
  /\ entryDown \in [Conns -> 0 .. Len(down)]
  /\ shownUp \in [Conns -> 0 .. Len(up)]
  /\ shownDown \in [Conns -> 0 .. Len(down)]
  /\ activeUploads \in Nat
  /\ activeDownloads \in Nat
  /\ overlapped \in [Conns -> BOOLEAN]
  /\ \A c \in Conns : held[c] + left[c] <= length[c]

Init ==
  /\ link = [c \in Conns |-> "new"]
  /\ out = [c \in Conns |-> FALSE]
  /\ callback = [c \in Conns |-> None]
  /\ queued = [c \in Conns |-> << >>]
  /\ reading = [c \in Conns |-> FALSE]
  /\ length = [c \in Conns |-> 0]
  /\ left = [c \in Conns |-> 0]
  /\ held = [c \in Conns |-> 0]
  /\ entryUp = [c \in Conns |-> None]
  /\ entryDown = [c \in Conns |-> None]
  /\ shownUp = [c \in Conns |-> None]
  /\ shownDown = [c \in Conns |-> None]
  /\ up = << >>
  /\ down = << >>
  /\ activeUploads = 0
  /\ activeDownloads = 0
  /\ overlapped = [c \in Conns |-> FALSE]

-----------------------------------------------------------------------------
\* The contexts the counters stand for.
Counted(contexts) == {i \in DOMAIN contexts : contexts[i].counted}

\* Is a transfer of the connection counted?
Busy(c) == \/ \E u \in Counted(up) : up[u].conn = c
           \/ \E d \in Counted(down) : down[d].conn = c

\* decActiveUpload and decActiveDownload never go below zero.
Decrement(n) == IF n > 0 THEN n - 1 ELSE 0

Readable(c) == link[c] \in {"open", "closing"}

\* The parser is between requests, and the client asks for something.
Asks(c) == /\ Readable(c) /\ ~reading[c] /\ Len(queued[c]) < MaxQueued
           /\ overlapped' = [overlapped EXCEPT ![c] = @ \/ Busy(c)]

\* TcpConnection::send when the queue of the connection is q and its callback
\* is cb: all is written and the callback queued, or something stays buffered (a
\* write that fails is taken for one that never drains, until Close).  After a
\* shutdown the message is dropped.
Send(c, q, cb) ==
  \/ /\ link[c] = "open"
     /\ out' = [out EXCEPT ![c] = FALSE]
     /\ queued' = [queued EXCEPT ![c] = IF cb = None THEN q ELSE Append(q, cb)]
  \/ /\ link[c] = "open"
     /\ out' = [out EXCEPT ![c] = TRUE]
     /\ queued' = [queued EXCEPT ![c] = q]
  \/ /\ link[c] # "open"
     /\ queued' = [queued EXCEPT ![c] = q]
     /\ UNCHANGED out

ShutDown(c) == link' = [link EXCEPT ![c] = IF @ = "open" THEN "closing" ELSE @]

\* HttpServer::onRequest sends the answer a handler has made, and shuts the
\* connection down if the request said "Connection: close".
Respond(c, cb, close) ==
  /\ Send(c, queued[c], cb)
  /\ IF close THEN ShutDown(c) ELSE UNCHANGED link

-----------------------------------------------------------------------------
\* A connection is accepted.
Connect(c) ==
  /\ link[c] = "new"
  /\ link' = [link EXCEPT ![c] = "open"]
  /\ UNCHANGED <<out, callback, queued, parser, entries, shown, up, down,
                 activeUploads, activeDownloads, overlapped>>

\* Mutant of Close: onConnection forgets the download.
CloseUpload(c) ==
  LET u == entryUp[c]
      open == u # None /\ up[u].counted
  IN  /\ Readable(c)
      /\ link' = [link EXCEPT ![c] = "closed"]
      /\ out' = [out EXCEPT ![c] = FALSE]
      /\ entryUp' = [entryUp EXCEPT ![c] = None]
      /\ entryDown' = [entryDown EXCEPT ![c] = None]
      /\ up' = IF open THEN [up EXCEPT ![u].counted = FALSE] ELSE up
      /\ shownUp' = IF open THEN [shownUp EXCEPT ![c] = None] ELSE shownUp
      /\ activeUploads' = IF open THEN Decrement(activeUploads) ELSE activeUploads
      /\ reading' = [reading EXCEPT ![c] = FALSE]
      /\ length' = [length EXCEPT ![c] = 0]
      /\ left' = [left EXCEPT ![c] = 0]
      /\ held' = [held EXCEPT ![c] = 0]
      /\ UNCHANGED <<callback, queued, down, shownDown, activeDownloads, overlapped>>

\* It is closed by the client, or breaks: onConnection releases what the entry
\* of the connection holds.
Close(c) ==
  LET u == entryUp[c]
      d == entryDown[c]
      upOpen   == u # None /\ up[u].counted
      downOpen == d # None /\ down[d].counted
  IN  /\ Readable(c)
      /\ link' = [link EXCEPT ![c] = "closed"]
      /\ out' = [out EXCEPT ![c] = FALSE]
      /\ entryUp' = [entryUp EXCEPT ![c] = None]
      /\ entryDown' = [entryDown EXCEPT ![c] = None]
      /\ up' = IF upOpen THEN [up EXCEPT ![u].counted = FALSE] ELSE up
      /\ down' = IF downOpen THEN [down EXCEPT ![d].counted = FALSE] ELSE down
      /\ shownUp' = IF upOpen THEN [shownUp EXCEPT ![c] = None] ELSE shownUp
      /\ shownDown' = IF downOpen THEN [shownDown EXCEPT ![c] = None] ELSE shownDown
      /\ activeUploads' = IF upOpen THEN Decrement(activeUploads) ELSE activeUploads
      /\ activeDownloads' =
           IF downOpen THEN Decrement(activeDownloads) ELSE activeDownloads
      /\ reading' = [reading EXCEPT ![c] = FALSE]
      /\ length' = [length EXCEPT ![c] = 0]
      /\ left' = [left EXCEPT ![c] = 0]
      /\ held' = [held EXCEPT ![c] = 0]
      /\ UNCHANGED <<callback, queued, overlapped>>

-----------------------------------------------------------------------------
\* The headers of an upload of n pieces are read.
StartUpload(c, n) ==
  /\ Asks(c)
  /\ reading' = [reading EXCEPT ![c] = TRUE]
  /\ length' = [length EXCEPT ![c] = n]
  /\ left' = [left EXCEPT ![c] = n]
  /\ held' = [held EXCEPT ![c] = 0]
  /\ UNCHANGED <<tcp, entries, shown, up, down, activeUploads, activeDownloads>>

\* k more pieces of the body are read; the request is complete with the last.
Reads(c, k) == /\ Readable(c) /\ reading[c]
               /\ k <= left[c] /\ (k = 0 => left[c] = 0)
Last(c, k) == k = left[c]

\* Less than 1 MiB waits: no handler runs.
BodyWaits(c, k) ==
  /\ Reads(c, k) /\ ~Last(c, k)
  /\ left' = [left EXCEPT ![c] = @ - k]
  /\ held' = [held EXCEPT ![c] = @ + k]
  /\ UNCHANGED <<tcp, reading, length, entries, shown, up, down, activeUploads,
                 activeDownloads, overlapped>>

\* Mutant of AfterHandler: the body that was taken stays in the request.
AfterHandlerKeeping(c, k, kept, close) ==
  /\ left' = [left EXCEPT ![c] = @ - k]
  /\ IF Last(c, k)
       THEN /\ Respond(c, callback'[c], close)
            /\ length' = [length EXCEPT ![c] = 0]
            /\ reading' = [reading EXCEPT ![c] = FALSE]
            /\ held' = [held EXCEPT ![c] = 0]
       ELSE /\ held' = [held EXCEPT ![c] = @ + k]
            /\ UNCHANGED <<link, out, queued, reading, length>>

\* What HttpServer::onMessage does after the handler: it answers and resets the
\* parser after the last piece only.
AfterHandler(c, k, kept, close) ==
  /\ left' = [left EXCEPT ![c] = @ - k]
  /\ IF Last(c, k)
       THEN /\ Respond(c, callback'[c], close)
            /\ length' = [length EXCEPT ![c] = 0]
            /\ reading' = [reading EXCEPT ![c] = FALSE]
            /\ held' = [held EXCEPT ![c] = 0]
       ELSE /\ held' = [held EXCEPT ![c] = kept]
            /\ UNCHANGED <<link, out, queued, reading, length>>

\* handleFileUpload refuses: the token has expired, or there is no context and
\* the file cannot be opened.  The body stays in the request, and a context that
\* there is stays too.
UploadRefused(c, k, close) ==
  /\ Reads(c, k)
  /\ callback' = [callback EXCEPT ![c] = Shutdown]
  /\ AfterHandler(c, k, held[c] + k, close)
  /\ UNCHANGED <<entries, shown, up, down, activeUploads, activeDownloads,
                 overlapped>>

\* LocalFileStorage::write appends n pieces to the file of context x: they are
\* stored; or the write fails and is not counted; or it is counted and then the
\* flush fails, which nobody asks about.  A stream that has failed fails again.
\* writeData looks at none of this.
Writes(x, n, outcome) ==
  /\ outcome # "stored" => n > 0 /\ DiskMayFail
  /\ outcome # "failed" => n = 0 \/ ~x.failed

\* handleFileUpload takes the body into context u, which is x before: the one
\* the connection has, whoever asked for it.
TakeBody(c, k, u, x, counters, outcome, close) ==
  LET taken == held[c] + k
      total == IF outcome = "failed" THEN x.total ELSE x.total + taken
      done  == Last(c, k) \/ (length[c] > 0 /\ total >= length[c])
      drop  == done /\ x.counted
      y == [x EXCEPT !.counted = @ /\ ~done,
                     !.total = total,
                     !.failed = @ \/ outcome # "stored",
                     !.finished = IF done THEN total ELSE @]
  IN  /\ Writes(x, taken, outcome)
      /\ up' = IF u \in DOMAIN up THEN [up EXCEPT ![u] = y] ELSE Append(up, y)
      /\ activeUploads' = IF drop THEN Decrement(counters) ELSE counters
      /\ shownUp' = [shownUp EXCEPT ![c] = IF drop THEN None ELSE
                                           IF u \in DOMAIN up THEN @ ELSE u]
      /\ entryUp' = [entryUp EXCEPT ![c] = IF done THEN None ELSE u]
      /\ entryDown' = [entryDown EXCEPT ![c] = IF done THEN None ELSE @]
      /\ callback' = [callback EXCEPT ![c] = IF done THEN Shutdown ELSE @]
      /\ AfterHandler(c, k, 0, close)
      /\ UNCHANGED <<shownDown, down, activeDownloads, overlapped>>

\* The connection has a context,
UploadGoesOn(c, k, outcome, close) ==
  /\ Reads(c, k) /\ entryUp[c] # None
  /\ TakeBody(c, k, entryUp[c], up[entryUp[c]], activeUploads, outcome, close)

\* ... or one is made, counted and shown.
UploadBegins(c, k, outcome, close) ==
  /\ Reads(c, k) /\ entryUp[c] = None /\ Len(up) < MaxUploads
  /\ TakeBody(c, k, Len(up) + 1,
              [conn |-> c, counted |-> TRUE, length |-> length[c],
               total |-> 0, failed |-> FALSE, finished |-> -1],
              activeUploads + 1, outcome, close)

-----------------------------------------------------------------------------
\* handleFileDownload of a file of n chunks: a new state replaces the entry.
Download(c, n, close) ==
  LET d == Len(down) + 1
  IN  /\ Asks(c)
      /\ d <= MaxDownloads
      /\ down' = Append(down, [conn |-> c, counted |-> TRUE, rest |-> n])
      /\ entryUp' = [entryUp EXCEPT ![c] = None]
      /\ entryDown' = [entryDown EXCEPT ![c] = d]
      /\ shownDown' = [shownDown EXCEPT ![c] = d]
      /\ activeDownloads' = activeDownloads + 1
      /\ callback' = [callback EXCEPT ![c] = d]
      /\ Respond(c, d, close)
      /\ UNCHANGED <<parser, shownUp, up, activeUploads>>

\* Any other request: answered with an error or a result, which sets the
\* callback to a shutdown, or (OPTIONS, or a line that is no request) without
\* touching it.
Answer(c, cb, close) ==
  /\ Asks(c)
  /\ callback' = [callback EXCEPT ![c] = cb]
  /\ Respond(c, cb, close)
  /\ UNCHANGED <<parser, entries, shown, up, down, activeUploads, activeDownloads>>

\* Mutant of Drain: no callback is queued.
DrainQuietly(c) ==
  /\ out[c] /\ Readable(c)
  /\ out' = [out EXCEPT ![c] = FALSE]
  /\ UNCHANGED <<link, callback, queued, parser, entries, shown, up, down,
                 activeUploads, activeDownloads, overlapped>>

\* The rest of the output is written (TcpConnection::handleWrite).
Drain(c) ==
  /\ out[c] /\ Readable(c)
  /\ out' = [out EXCEPT ![c] = FALSE]
  /\ queued' = [queued EXCEPT ![c] = IF callback[c] = None THEN @
                                     ELSE Append(@, callback[c])]
  /\ UNCHANGED <<link, callback, parser, entries, shown, up, down,
                 activeUploads, activeDownloads, overlapped>>

\* The loop runs a queued callback that shuts the connection down.
RunShutdown(c) ==
  /\ queued[c] # << >> /\ Head(queued[c]) = Shutdown
  /\ queued' = [queued EXCEPT ![c] = Tail(@)]
  /\ ShutDown(c)
  /\ UNCHANGED <<out, callback, parser, entries, shown, up, down,
                 activeUploads, activeDownloads, overlapped>>

\* ... or one that sends the next chunk of its download,
RunChunk(c) ==
  LET d == Head(queued[c])
  IN  /\ queued[c] # << >> /\ d # Shutdown /\ down[d].rest > 0
      /\ down' = [down EXCEPT ![d].rest = @ - 1]
      /\ Send(c, Tail(queued[c]), callback[c])
      /\ UNCHANGED <<link, callback, parser, entries, shown, up,
                     activeUploads, activeDownloads, overlapped>>

\* Mutant of RunEnd: releaseTransferCounter() is not asked.
RunEndAgain(c) ==
  LET d == Head(queued[c])
  IN  /\ queued[c] # << >> /\ d # Shutdown
      /\ down' = [down EXCEPT ![d] = [@ EXCEPT !.counted = FALSE, !.rest = 0]]
      /\ activeDownloads' = Decrement(activeDownloads)
      /\ shownDown' = [shownDown EXCEPT ![c] = None]
      /\ entryUp' = [entryUp EXCEPT ![c] = None]
      /\ entryDown' = [entryDown EXCEPT ![c] = None]
      /\ queued' = [queued EXCEPT ![c] = Tail(@)]
      /\ ShutDown(c)
      /\ UNCHANGED <<out, callback, parser, shownUp, up, activeUploads, overlapped>>

\* ... or finds its end, or an error in reading: it ends the download it was
\* made for and erases whatever entry the connection has.
RunEnd(c) ==
  LET d == Head(queued[c])
      drop == down[d].counted
  IN  /\ queued[c] # << >> /\ d # Shutdown
      /\ down' = [down EXCEPT ![d] = [@ EXCEPT !.counted = FALSE, !.rest = 0]]
      /\ activeDownloads' = IF drop THEN Decrement(activeDownloads) ELSE activeDownloads
      /\ shownDown' = IF drop THEN [shownDown EXCEPT ![c] = None] ELSE shownDown
      /\ entryUp' = [entryUp EXCEPT ![c] = None]
      /\ entryDown' = [entryDown EXCEPT ![c] = None]
      /\ queued' = [queued EXCEPT ![c] = Tail(@)]
      /\ ShutDown(c)
      /\ UNCHANGED <<out, callback, parser, shownUp, up, activeUploads, overlapped>>

Next ==
  \E c \in Conns :
    \/ Connect(c) \/ Close(c) \/ Drain(c)
    \/ RunShutdown(c) \/ RunChunk(c) \/ RunEnd(c)
    \/ \E n \in 0 .. Size : StartUpload(c, n)
    \/ \E k \in 0 .. Size : BodyWaits(c, k)
    \/ \E k \in 0 .. Size, close \in BOOLEAN : UploadRefused(c, k, close)
    \/ \E k \in 0 .. Size, outcome \in Outcomes, close \in BOOLEAN :
         UploadGoesOn(c, k, outcome, close) \/ UploadBegins(c, k, outcome, close)
    \/ \E n \in 0 .. Size, close \in BOOLEAN : Download(c, n, close)
    \/ \E cb \in {callback[c], Shutdown}, close \in BOOLEAN : Answer(c, cb, close)

Spec == Init /\ [][Next]_vars

\* The loop runs its callbacks; clients read what they are sent, and close a
\* connection that the server has shut down.
Fairness ==
  \A c \in Conns :
    /\ WF_vars(Drain(c))
    /\ WF_vars(RunShutdown(c) \/ RunChunk(c) \/ RunEnd(c))
    /\ WF_vars(link[c] = "closing" /\ Close(c))

FairSpec == Spec /\ Fairness

-----------------------------------------------------------------------------
\* The counters that heartbeats carry are the numbers of contexts counted and
\* not yet released: whichever of an end, a replacement and a closing
\* connection comes first, and however late a callback runs, none is released
\* twice and the floor at zero hides no decrement.
Accounting ==
  /\ activeUploads = Cardinality(Counted(up))
  /\ activeDownloads = Cardinality(Counted(down))

\* A client that asks for nothing while its transfer is counted leaves nothing
\* behind: the transfer counted on a connection is the one in its entry and
\* the one in its session, and a connection that is closed has none.
OrderlyConnections ==
  \A c \in Conns : ~overlapped[c] =>
    /\ \A u \in DOMAIN up : (up[u].counted /\ up[u].conn = c) <=> (entryUp[c] = u)
    /\ \A d \in DOMAIN down :
         (down[d].counted /\ down[d].conn = c) <=> (entryDown[c] = d)
    /\ shownUp[c] = entryUp[c] /\ shownDown[c] = entryDown[c]
    /\ link[c] = "closed" => entryUp[c] = None /\ entryDown[c] = None

\* The size the master is told is the length of the body the client announced,
\* unless a write failed: whatever handlers refused on the way, nothing is
\* counted twice or forgotten.
OrderlyUploadsWhole ==
  \A u \in DOMAIN up :
    up[u].finished # -1 /\ ~up[u].failed /\ ~overlapped[up[u].conn] =>
      up[u].finished = up[u].length

\* The download in the entry of a connection ends, even if other answers replace
\* its callback: it is sent to its end, or the connection is closed and releases
\* it, unless another transfer takes its place.
DownloadsEnd ==
  \A d \in 1 .. MaxDownloads, c \in Conns :
    (entryDown[c] = d) ~> (entryDown[c] # d)

=============================================================================
