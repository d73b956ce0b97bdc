# A TLA+ model of the distributed cloud storage

This directory holds a verification development of the C++ program under
`src/`: a **master** (accounts, the `files` table in MySQL, node management,
scheduling, collection of deleted files), one or more **DataNodes** (the bytes,
uploads, downloads, transcoding, a block cache) and the muduo-based HTTP stack
both run on.  It contains TLA+ modules translated from the source, instances
that TLC checks exhaustively, and theorems that the TLA+ proof system TLAPS
checks for every value of the constants.

`PROJECT.json` lists the components, the runs, which definition stands for
which lines of the code (`map`), the hazards of the code with the properties
aimed at them, and the theorems.

## 1. Inventory

### The program

| Process | Threads | State |
|---|---|---|
| Master | an accept loop, 10 I/O loops (`test_all.cc:88`), a maintenance thread of the connection pool; timers: node timeout every 5 s, collectors every 60 s, hot-cache collection every 10 s | MySQL tables (persistent); node table, QoS mode, administrator's policy, hot cache list, rooms (memory) |
| DataNode | an accept loop, 16 I/O loops, a pool of worker threads, the loop of its client of the master; timers: heartbeat 3 s, token renewal | `uploads/` and `node_id.dat` (persistent); transfers, sessions, notices, caches (memory) |
| Browser | - | upload and download tokens handed out by the master |

A browser asks the master for an upload; the master inserts a row with status
`uploading` and returns a signed token; the browser sends the bytes to the
DataNode the token names; the DataNode tells the master that the upload is
finished.  Deletion goes the other way: the user marks the row, a timer of the
master sends the DataNode a delete request over a connection of its own, and
the reply removes the row.  A registration is followed by a report of all local
files, from which the master repairs its table.

### Components

*File lifecycle* (`FileHandler.cc`, `MasterHttpHandler.cc`,
`AsyncDeleteTask.cc`, `DataNodeHandler.cc`, parts of `DataNodeHttpHandler.cc`).
State: rows with `status`, `is_deleted`, `filename`, `node_id`, `file_md5`; the
upload directory; queued notices; delete tasks; a report.  Operations: upload
request, instant upload by MD5, delete, restore, hard delete (single and
batch), garbage collection, sweep of stale uploads, notice, report, unlink.
Hard: every one of them is a sequence of SQL statements and messages without a
transaction, run by different threads; both processes restart; one file may be
named by many rows.  Correct if confirmed files keep their bytes, an upload
resolves, deleted space comes back, and table and disk converge.

*Connection pool* (`MySQLPool.cc`).  State: the queue of idle connections, the
count of all, the closed flag, waiting threads.  Operations: get, return,
maintain, shut down.  Hard: a condition variable, a section that drops the
mutex while it opens a connection, failures of the server.  Correct if the
count is right, the limit means something, and nobody sleeps for no reason.

*Node table and QoS mode* (`NodeManager.cc`, `AdminHandler.cc`).  State: entries
with liveness, load, circuit break and limits; mode, thresholds, override.
Operations: register, heartbeat, time out, choose a node, administrate.  Hard:
predictions by the scheduler that heartbeats overwrite, hysteresis, restarts
that lose everything, policy changes in three critical sections.  Correct if
the mode follows the load, dead nodes leave, limits arrive.

*Client of the master* (`MasterClient.cc`, with `DataNodeHandler.cc` and
`HttpServer.cc` on the other side).  State: connection, registration, token,
node id, queue of notices.  Operations: connect, register, heartbeat, notify,
renew, report, read.  Hard: the connection carries no message boundaries; one
request is handled per read, one reply is parsed per read.  Correct if a node
comes back to life and its notices arrive.

*Prefetch cache* (`PrefetchCache.h`).  State: shards of blocks with marks of
loads, two byte counters.  Operations: admit, mark, put, get, cancel, evict,
expire, invalidate.  Hard: locks by shard, atomics updated outside of them,
victims found under one lock and erased under another.  Correct if the
counters are right in the end, the limit is nearly kept, and VIP entries
outlive normal ones.

*Transfers and sessions of a DataNode* (`DataNode.cc`,
`DataNodeHttpHandler.cc`, `LocalFileStorage.cc`, on `HttpServer.cc` and
`TcpConnection.cc`).  State: counters of active transfers, the contexts of each
connection, sessions shown to the administrator, the body that is being read.
Operations: connect, upload part by part, download chunk by chunk from the
write-complete callback, close.  Hard: keep-alive connections that start a
download over an upload, callbacks bound to a transfer that was replaced,
handlers that refuse in the middle of a body.  Correct if each transfer is
uncounted once, nothing outlives its connection, and a confirmed upload has the
size it announced.

*HTTP parser* (`HttpContext.cc`, `HttpServer.cc`).  State: per connection a
buffer and a context (`state_`, `contentLength_`, `bodyReceived_`).  Operations:
a read, the rounds of `parseRequest`, the handing over of a request.  Hard: reads
end anywhere, requests follow each other without a pause, lengths do not fit an
`int`, a loop whose exit depends on what has arrived, one thread for many
connections.  Correct if every request is handed over once, in order, whole,
and in the end.

*Quotas and folders* (`StorageFeatureService.cc`, `FileHandler.cc`).  State: the
table `folders` with `parent_id` and `full_path`, the columns `folder_id`,
`file_size` and `is_deleted` of `files`.  Operations: check a quota, make a path
of folders, insert a file, delete a subtree, list, delete and restore files.
Hard: no transactions, and two representations of one tree (the parent and the
path).  Correct if the quota means something, and live files and folders are
found by browsing.

*Shares* (`UserHandler.cc`), *playlists and rooms*
(`EntertainmentHandler.cc`).  State: `file_shares`, `entertainment_playlists`,
their items, `entertainment_rooms`.  Operations: share, cancel, expire, purge;
create, change and delete playlists, add and remove items; open, delete and expire
rooms; open a file.  Hard: a right is looked at in one statement and used in
later ones, rights are given on by rooms, the deletion of a playlist is two
statements of which the first may fail.  Correct if every right to open a file
goes back to its owner, shares do not pile up, and rooms show what playlists
hold.

*Learning progress* (`handleUpdateVideoProgress`).  State: a row per user and
video.  Operation: a report of the player, which reads the row and writes it.
Hard: reports overlap, the query may fail.  Correct if progress is earned by
playing and none of it is lost.

*Text editing* (`DataNodeHttpHandler.cc`: `handleTextEdit`, `handleTextRollback`,
`handleTextSnapshot`, `handleTextExperiment`).  State: the file, its temporary
copy, a snapshot and experiments, all in the upload directory; the blocks of the
file in the cache.  Operations: save an edit, roll back, merge, save or delete a
snapshot or an experiment, while downloads and prefetching jobs read the file and
put its blocks.  Hard: no lock, one temporary name for all edits, copies in
place, open descriptors that outlive a rename, crashes between any two steps.
Correct if the file is one whole version and the cache holds what the file
holds.

*Collection of purged rows* (`MasterHttpHandler.cc`, `AsyncDeleteTask.cc`, with
muduo's `TcpClient` and `Connector`).  State: purged rows, the tasks under way
with their connection, timer and token.  Operations: a round, connect, time out,
send, answer, fail.  Hard: a round is limited, tasks outlive their timeout, rows
of nodes that never return.  Correct if every row whose node returns goes in the
end.

*Hot cache list* (`HotCacheService.cc`, `AsyncHotCacheTask.cc`), *accounts*
(`UserHandler.cc`), *notes, segments and study collections* (`FileHandler.cc`),
*transcoding and previews* (`DataNodeHttpHandler.cc`), *tokens*
(`TokenManager.cc`), *rate limiter* (`TokenBucketRateLimiter.h`), *event loop*
(`src/third_party/muduo`), *statements* (`MySQLStatement.cc`), *web pages*
(`src/web`): see section 7.

## 2. Modules

Each component has a module (variables, `Init`, one action per critical section
or handler step, `Next`, `Spec`, `FairSpec`, properties), an `MC` module with
the values TLC needs, and mostly a `Proofs` module with the theorems.
`MasterProofs` has those of two parts of the master and `DataNodeProofs` those of
two parts of a DataNode; so that they can be taken together, the
specifications of the second parts are called `StorageSpec` and `EditingSpec`.

| Module | Models | Proofs |
|---|---|---|
| `FileCatalogue` | what the table of files promises the users, abstractly | - |
| `FileLifecycle` | rows, bytes and the messages between them; implements `FileCatalogue` | `FileLifecycleProofs` |
| `MySQLPool` | the connection pool | `MySQLPoolProofs` |
| `NodeManager` | the node table, QoS mode and policy | `MasterProofs` |
| `MasterClient` | the session of one DataNode with the master | `DataNodeProofs` |
| `PrefetchCache` | the block cache | `PrefetchCacheProofs` |
| `TransferSessions` | uploads and downloads over a DataNode's connections | `TransferSessionsProofs` |
| `HttpExchange` | what an HTTP server promises, abstractly | - |
| `HttpParser` | the parser and its loop; implements `HttpExchange` | `HttpParserProofs` |
| `Storage` | folders and quotas | `MasterProofs` |
| `Sharing` | shares and the recycle bin; no specification of its own | `SharingProofs` |
| `Rooms` | playlists, rooms and who may open a file; composed with `Sharing` | `SharingProofs` |
| `Learning` | the progress in a video; composed with `Sharing` | `SharingProofs` |
| `Requests` | `Sharing`, `Rooms` and `Learning` together | `SharingProofs` |
| `Editing` | edits of a text file, its readers and its cached blocks | `DataNodeProofs` |
| `Collector` | the rounds over purged rows and their delete tasks | - |

Definitions whose comment begins with "Mutant of" are faulty versions of the
definition after them; no specification uses them.  They show that the
properties notice such a fault.

### FileCatalogue and FileLifecycle

`FileCatalogue` is the table as its users see it: a file is listed, confirmed or
given up, moved to the recycle bin, back, or on to be purged, and removed.  It knows
neither statements nor bytes.  What it promises is about removal: a row goes only
when it was *condemned*, which takes that it is purged, or late and still
`uploading`, at that moment.  It promises no more: what is condemned may be
restored or confirmed meanwhile and goes all the same, which the code allows,
because the DELETE that ends a removal asks for the id only.

`FileLifecycle` implements it (`ImplementsCatalogue`): `del` is `del`, `status` is
`status` but for a row an instant upload has looked up and not inserted, `late` are
the rows that are `overdue`, and `condemned` those with a delete request or a
removal under way (`delReq`, `rowDrop`).

The code takes the rows of a round with one SELECT and decides on each a little
later; in `FileLifecycle` selection and decision are one step, since a state between
them multiplies the states of `file_safety` by five.  What others do to a selected
row in between may as well follow the decision, which looks at other rows and at the
node only; a purged row that nobody restores stays as it was selected.  The one
outcome left out takes a purged row that is restored between the two, and an instant
upload that finds and refers to it before the decision: the code then removes the
restored row and keeps its file, which `FileCatalogue` allows, as the row was
condemned when it was selected.

A *slot* `r \in Rows` is one upload request and the row it may insert.
`generateUniqueFilename` never repeats a name, so the slot also names the file
an ordinary upload writes; `name[r]` differs from `r` only for a row that an
instant upload made.  `status`, `del` and `name` are the columns; `disk`,
`session` and `notices` belong to the DataNode; `delReq`, `rowDrop` and `report`
are messages and unfinished work of collectors.  SQL statements that the code
issues separately are separate actions: the lookup and the insert of an instant
upload (`InstantLookup`, `InsertInstant`), the reference count and the unlink
(`GcIssueDelete`, `DnDelete`), the unlink and the removal of the row
(`DnDelete`, `DropRow`), the scan of the directory, the SELECT and each UPDATE
of a report (`ReportScan`, `ReportSelect`, `ReportFix`).  Lost messages,
restarts of both processes and the 30-minute limit (`AgeOut`) are actions too.
One DataNode is modelled: every statement that relates rows to bytes is keyed by
`node_id`, so nodes do not interact through it.

`RestorePurged` and `Reupload` say whether clients send two requests that are
legal and destructive: to restore a row that was deleted for good, and to
upload again with a used token.

### MySQLPool

One action per critical section of `mutex_`.  A thread is `out`, `waiting` in
the condition variable, `woken` (it will look again), `holding` a connection,
`refilling` (opening a replacement without the mutex) or `pushing` it.
`shutdown` has three steps: the flag, `notify_all`, and the closing of idle
connections after the maintenance thread is joined.  Spurious wakeups are
allowed.  MySQL may drop an idle or a held connection, stop and start;
`faulted` remembers whether it ever did.

### NodeManager

One action per method; `handleUpdatePolicy` calls three methods and is three
actions.  An entry is `alive`, `late` (silent for more than 10 s and not yet
checked) or `dead`.  `RefreshMode` is the refresh at the end of a critical
section.  `link[n]` is the node's connection with the heartbeat or the reply
under way, `load[n]` its real transfers, `policy[n]` what it was last told.
`getAliveNode`'s score is an arbitrary choice among the nodes that pass its
tests, since no property depends on it.

### MasterClient

`requests` are sent and not handled, `arrived` of them sit in the master's
buffer; `replies` are sent and not read.  `MasterRead(k)`: a read brings `k`
requests and the oldest waiting one is handled, because `HttpServer::onMessage`
parses once per read.  `ClientRead(k)`: a read brings `k` replies and
`MasterClient::onMessage` takes them for one.  A token that expires makes the
requests under way invalid.

### PrefetchCache

One action per critical section and one per use of a counter between two of
them.  `debts` holds what a thread has erased and not subtracted, `Adders` are
threads that have inserted and not added.  Counters are unsigned: `Wrap` is
arithmetic modulo `Word`.  Blocks have one size; which entry is the oldest is
an arbitrary choice.

### TransferSessions

All handlers and callbacks of a connection run on its I/O loop, so each is one
action.  `link`, `out`, `callback` and `queued` are the connection's state, its
output buffer, `writeCompleteCallback_` and the copies of it in the loop's queue;
a copy keeps the callback that was set when it was queued.  `reading`, `length`,
`left` and `held` are the parser's place in the body of an upload.  `up` and
`down` hold every context ever made, so that a callback can name one that no
map holds any more; `entryUp` and `entryDown` are `activeTransfers_`, `shownUp`
and `shownDown` the two sessions of a connection.  `TakeBody` is
`handleFileUpload` from the write on; `UploadGoesOn` and `UploadBegins` are its two
beginnings, `UploadRefused` its early returns.  `overlapped` is a history
variable: the client asked for something while a transfer of the connection
was counted.

### HttpExchange and HttpParser

`HttpExchange` is the contract in two actions: a client sends a request, and the
next request of a connection is handed over with all of its body.  It says
nothing of reads.  `HttpParser` implements it (`ImplementsExchange`) under the
identity on `sent` and `handled`; the position read (`arrived`), the position
consumed (`taken`) and the context are what the implementation adds.

The stream of a connection is a sequence of tokens: a request is its first line,
the header that says how its body is sent, the blank line, and the bytes of the
body.  `Read` takes what has arrived up to any position; each round of the loop
in `parseRequest` is an action of its own (`NoRequest`, `RequestLine`, `Headers`,
...), so that a loop that goes round without end is a behaviour and not an
evaluation that never returns.  While `loop` is a connection no other connection
of that event loop is read.  `Declared` is `atoi` with the width of an int as a
constant, followed by the conversion to `size_t`.

`Handle` is the call of the handler and, unless it asks for more data (an upload
whose last part was not found), `reset`.  The handing over of large uploads in
parts is left to `TransferSessions`.

### Storage

A request is a series of statements, and `pc` says which one is next: `quota`,
`base` and `segment` (`ensureFolderPath`), `insert`; `select`, `files` and
`folders` (`handleDeleteFolder`).  Every statement may fail, and what the code
does then is part of the model: a quota query that fails counts as an empty
account, an `ensureFolderPath` that returns 0 puts the file into the root or ends
the request (`ReturnsZero`).  A path is a sequence of names; `SamePath` is the
unique key on its hash.  `Like` says which names match which others as patterns of
`LIKE`, because names may hold `_` and `%` (`Below`).

`crossed` and `loose` are history variables: which requests were under way
together with a deletion of a folder, and what they made.  `unchecked` are the
files that got past the quota without a look.

### Sharing, Rooms and Learning

`Sharing` has the shares with the recycle bin and exports `SharingInit` and
`SharingNext`.  `Rooms` and `Learning` each EXTEND it and interleave its steps
with their own; they read `trash` and `SharedWith` and leave them unchanged.
The look for an existing share and the insertion are two actions
(`LookForShare`, `InsertShare`), and so are the look for the right to a file and the
insertion of the item (`CheckAccess`, `InsertItem`), the deletion of the items and
of the playlist (`DeleteItems`, `DeletePlaylist`), the reading and the writing of the
progress (`ReadProgress`, `StoreReport`).

`OpensInRightOf(u, f)` is the test of `handleFileDownload` and of the share page,
with the user in whose right it succeeds.  `granted`, `loose`, `stray`,
`earned`, `played` and `overlapped` are history variables, kept only to state the
properties: the shares with a user that ever existed, the rows inserted after a
look that failed, the items added to a playlist that was being deleted, and what
the stored reports add up to.

`Requests` composes the three over one table of shares and one recycle bin: a step
is a step of `Rooms`, of `Learning` or of `Sharing`, which both of them see.  The
theorem `RequestsAreBoth` says that a behaviour of `Requests` is one of `Rooms` and
one of `Learning`, so what is proved of each holds of the composition.

### Editing

The file system is modelled as names (`dir`), inodes (`disk`) and descriptors, for
a rename leaves those who have the old file open with the old file.  An edit is
`OpenTmp`, `WriteTmp`, `RenameTmp` and one `InvalidateBlock` per block
(`invalidateFile` locks shard after shard); a rollback or a merge is `BeginCopy`,
which truncates the file, and `EndCopy`.  `RenameFails` and `CopyFails` are the
exceptions, after which the handler answers without dropping a block.
`BeginSave` and `EndSave` write a snapshot or an experiment.  A reader is a download
(`get`: a hit, or a read and a `put`) or a job that prefetches or warms up (`mark`,
`load`, `put`); both open the file once.  `Crash` ends all requests and empties the
cache.

Three history variables name what goes wrong: `late` readers were open when the
file changed, `excused` blocks were put by one of them or left by a request that
failed half-way, and `hurt` inodes had a write that failed, a copy or a save cut
off by a crash, or two requests that wrote to them at a time.  The properties say
that there is no other way to a stale block or to a torn file.

### Collector

`Round(used)` is `processGarbageCollection`: `First` are the rows that the limit
lets through, `used` those whose references are found or cannot be counted, and
`Online` those whose node the master takes to be alive.  A task is `connecting`
until its `Connector` gets through, which goes on after the timeout (`Timeout`
does nothing to it), then `open` until the DataNode has deleted the file, then
`answered` until the row is removed.  `age` is the age of the task: its token
expires after five minutes.  References and races with uploads are in
`FileLifecycle`, which has no limit and no connections.

## 3. Runs

| Run | Instance | Checks |
|---|---|---|
| `file_safety` | 2 requests of the same content, one user | `UploadingNameUnshared`, `ConfirmedFileKept` |
| `file_recovery` | 1 request, restore after purge and repeated uploads allowed, fairness | `ImplementsCatalogue`, `FailedIsFinal`, `PurgedRowsGo`, `UploadsResolve`, `LeaksReclaimed`, `DanglingRowsFlagged` |
| `pool_safety` | 5 threads, 3 connections, faults, fairness | `Accounting`, `OvershootNeedsThreads`, `NoLostWakeup`, `ShutdownReleasesWaiters` |
| `node_recovery` | 1 node with 2 transfers, 1 administrator, 2 limits, thresholds that change, fairness | `ModeFollowsLoad`, `GoneNodesDeclaredDead`, `StrictModeEnds`, `LimitsReachNodes` |
| `client_session` | 1 identity, 2 uploads, 2 messages under way, fairness | `SenderKnown`, `NodeComesAlive`, `NoticesReachMaster` |
| `cache_counters` | 2 threads, 3 blocks in 2 shards, room for 2 of which 1 is for VIPs | `Accounting`, `OvershootBounded`, `MarksHaveLoaders`, `NormalEvictsNoVip` |
| `transfer_counters` | 1 connection, 2 uploads, 2 downloads, 2 pieces, a disk that does not fail, fairness | `Accounting`, `OrderlyConnections`, `OrderlyUploadsWhole`, `DownloadsEnd` |
| `parser` | 2 connections, 2 requests and 1, of 7 kinds, ints of 6 values, fairness | `ImplementsExchange`, `Served` |
| `folders` | 2 requests at a time, 4 in all, 2 names of which one is a pattern, 3 folders, 3 files | `QuotaExceededByRequests`, `FilesFound`, `FoldersFound` |
| `requests` | an owner, a user with a share, another VIP; 1 file that is a video, 2 sharing requests, 3 share ids, 2 playlists, 1 code, 3 room requests, 2 reports | `RightsReachOwner`, `RoomsShowPlaylists`, `LinksBounded`, `MaxReachedEarned`, `WatchedKept` |
| `editing` | 2 requests and 1 reader at a time, a content of 1 block and one of 2, 1 snapshot, 3 inodes | `CachedIsCurrent`, `SavesAreWhole` |
| `collector` | 3 rows, the first 2 on a node that may be lost, rounds of 2, fairness | `PurgedRowsCollected` |

The type invariants of the files, the pool, the node table, the session, the
cache, the transfers, the parser, the rooms, the folders and the edited file are
theorems and part of every invariant proved there, and the runs leave them out.
That of `Collector` documents its variables and holds on the instance of the run
without being listed there.

### Why these bounds

- `file_safety`: what may go wrong with a shared file takes one row that owns
  it and one that refers to it; both slots may play either part.  A third
  referrer is a second one of the same kind for every statement (`Referenced`
  asks for *some* other row).  The properties of the run are proved for
  any number of rows.  The liveness run has one row and every action on a
  single file, with restarts for ever; one row meets no instant upload, and what
  the run shows of `ImplementsCatalogue` and `FailedIsFinal` is proved for any number
  of rows.
- `pool_safety`: two threads more than `maxConnections`, and a minimum as high as it,
  so that refills, waiting and overshoot happen together.
- `node_recovery`: thresholds 1 and 0 that change to 2 and 0 and back with a
  restart; loads of 0, 1 and 2 are below, between and above.  Nodes meet only in
  the sum of their loads, and the theorem `ModeFollows` covers any number of them.
- `client_session`: two messages under way in each direction are the least that
  can be read together, and a backlog of one is the least that stays.  A
  node without an identity is covered by the theorem `SendersKnown`; with
  finitely many identities TLC would run out of them.
- `cache_counters`: two threads put the same key, or different ones in one
  shard or in two, with room for less than they put, so that every put may
  evict.

- `transfer_counters`: connections meet only in the counters, and the theorem
  `CountersCorrect` covers any number of them, as `OrderlyConnectionsKept` and
  `OrderlyUploadsAreWhole` do; two transfers of each kind are the
  least in which one replaces another of its own kind, and two pieces the least
  that arrive apart.  Two queued callbacks let a request come between a callback
  and its run.  A disk that fails multiplies the states by five and touches
  none of the counters (the theorem allows it).

- `parser`: two requests on one connection are the least in which one is read as
  part of another, and a second connection the least that a loop without end can
  starve.  With ints of six values a body of 3 has a negative length and one of 7
  the length 1; the bodies are there to overflow, not to be long.  The refinement is
  proved for any connections, requests and width.
- `folders`: two requests that cross each other, before and after two more, in a
  tree of depth two: one folder above, one below, and one beside that its name as a
  pattern matches.  A quota of one file of one size lets the second request pass
  it.
- `requests`: the three ways to open a file are its owner, a share and a room; a
  third user who is a VIP is the one who might give on what a room showed him.
  Two reports are the least that overlap, and two requests to share with three ids
  the least that insert one row too many.  `Tolerance` and `Slack` are 1 instead of
  4 and 5000.  The constraint `Within` cuts the product of the three: everything
  about shares is explored without playlists and reports; beside playlists, or
  beside reports, there is one grant to one user, one request to share, purge,
  restore or cancel at a time, and no link; only the first playlist may be one of
  images.  That is what a right that goes away
  under a playlist or a report needs.  All five are proved for any numbers.
- `editing`: two requests are the least that meet in the temporary file.  Two blocks
  show a file that is partly new; a cached block meets nothing but the inode it
  was read from, so the constraint `Within` lets the reader cache the last block,
  which only one of the contents has.  Three inodes are a file, a temporary file
  and a snapshot, or one of them and one that only a descriptor holds; a request
  that finds none free waits.
- `collector`: two rows of a lost node are as many as a round takes, and the third
  row waits behind them; all orders in which rows are purged occur.

Bounds that only exist for TLC are constants (`MaxTransfers`, `MaxWire`,
`MaxBacklog`, `MaxReplies`, `Size`, `MaxUploads`, `MaxDownloads`, `MaxQueued`,
`MaxRequests`, `MaxFolders`, `MaxFiles`, `MaxDepth`, `MaxPlaylists`, `MaxReports`,
`Inodes`, `MaxTasks`, the sets), the two constraints `Within`, or noted at the guard (`WireFree`; one
unused upload token in `NodeManager`; a notice is not queued twice).
The runs of `MySQLPool`, `TransferSessions`, `HttpParser`, `Storage` and `Requests` do not check deadlock: a pool that was shut down stops, and so does a
connection that was closed or whose client sends no more, and users who ask for
nothing more.

### What the models show of faults

These follow from the models and are written into them or into the exceptions of
a property, so that no run is spent on them:

- The collector counts references before it sends the delete request.  An
  instant upload that had found the row earlier inserts its own row after the
  count, and the file of a live row is unlinked (`MasterHttpHandler.cc:96` says it
  must not be).  `DanglingRowsFlagged` shows that the next report notices.
- A report lists files that exist when it is scanned; an upload that completes
  between the scan and the UPDATE is marked `failed` although its bytes are there
  (`DataNodeHandler.cc:366`).
- A broken connection lowers the pool's count without a notification when its
  refill fails, and threads sleep below the limit until some other thread returns
  a connection (`MySQLPool.cc:223`).
- `onConnection` flushes the queue of notices before the registration is
  answered, so everything goes back to the queue and stays until another upload
  finishes (`MasterClient.cc:61`).
- The parser goes round without end when the headers of a request arrive in two
  reads, and when more data comes for a request whose handler asked for it
  (`Stuck` in `Served`): its thread serves no connection any more.  Chunked bodies
  are never handed over, and a client that does not wait for its answer may get
  none until it sends more (`hasty`): one request is handled per read.
- An upload into a folder that is deleted meanwhile, or whose subfolder could
  not be made, lands in the root without a word (`ReturnsZero`).  A folder made
  below one that has just been deleted is in no listing, and the unique key then
  hands it to every later request for that path (`loose` in `FoldersFound`,
  `FilesFound`).  Deleting a folder whose name has `_` or `%` also deletes what the
  name matches.  A restored file is not held against the quota (`unchecked`).
- A share that is cancelled goes on in the playlists and rooms of the one who
  had it; a grant to a user goes on after its `expire_time` and stands in the way of
  a new one (`granted` in `RightsReachOwner`, `Same`).
- Items that were added to a playlist while it was deleted, or whose deletion
  failed, stay visible in its rooms and can be removed by nobody (`stray`).
- When two reports of a viewer overlap, the time of one is lost (`overlapped`).
- `LocalFileStorage::write` returns false when the disk fails, but `writeData` waits
  for an exception: the upload is answered with success and the master marks a
  truncated file `success`, with the size that was written.  With `DiskMayFail` the
  model does so; `OrderlyUploadsWhole` excepts uploads with a failed write, and the
  run keeps the disk sound.
- A download that is open across an edit, or a prefetching job that has read its
  block, puts the former content after `invalidateFile`, and it is served for up
  to ten minutes (`late` in `CachedIsCurrent`).  A rename that fails because another
  edit has taken the temporary file, or a copy that fails, drops no block.
- Two edits at a time write to one temporary file, and one of them may rename what
  the other has not finished; a write to a full disk is not noticed; a rollback
  that is cut off leaves a truncated file (`hurt` in `SavesAreWhole`).
- Tasks of an unreachable node outlive their timeout and pile up, one per round
  while the master takes the node to be online (`Tasks`).  Purged rows of nodes that
  never return fill the rounds once they are 50 (`Crowded`).  When the references of
  a purged row cannot be counted, the row goes and the file stays
  (`used` in `Round`).

## 4. Fairness

Liveness is checked under `FairSpec` of the first modules and of `Collector`, and
`Spec` of `HttpParser`.  The cache, the folders, the requests of users and the
edits have none to check: their calls do not wait for each other.

- Timers of the program (`runEvery` of the event loops) and threads inside a
  call are weakly fair: they are always enabled until they run.
- What needs a connection that may be lost at any moment is strongly fair
  (`SF`): a heartbeat, a read, a delete request.  A connection that comes back
  again and again carries a message now and then.
- A read that brings exactly one message is strongly fair
  (`MasterRead(1)`, `ClientRead(1)`): messages are not coalesced every single
  time; heartbeats are three seconds apart.
- Clients owe nothing: no fairness on uploads, downloads, deletions, requests
  of administrators, or on threads that might ask for a connection.  Failures
  are never fair.
- In `TransferSessions` the loop runs the callbacks it has queued; clients read
  what they are sent and close a connection whose end they have seen.  Nothing
  says that a client sends the rest of a body or asks again, and no connection is
  ever closed by a timeout (the code has none): an upload that stalls stays
  counted until its connection breaks.
- In `HttpParser` a loop that has begun to parse goes on (`WF`), and each
  connection that has more data is read in the end (`SF`: the loop is busy with
  another one again and again, and `epoll` returns all that are ready).  `SF` asks
  for a read that makes progress; where it ends is free.  Clients owe nothing.
- In `FileLifecycle` the DataNode returns after each crash (`NodeUp`); without
  that no purged row of its could ever go.  The collectors are fair for each
  row; whether a round of 50 rows reaches each row is the subject of `Collector`
  (`PurgedRowsCollected`).
- In `Collector` the rounds of the timer and the attempts of a connector are weakly
  fair, for nodes that are not lost.  A request that is made again and again gets
  through some day while its token is valid, and so does its answer (`SF`): each
  attempt may fail, not every one of them.  No row goes because somebody must use
  its file: only `Round({})` is fair.

## 5. Theorems

All are proved from the `ASSUME` of their module: sets that are counted are
finite, bounds are natural numbers in the order the code's validation enforces.
In `Storage` the requests at a time are finitely many and at least one (`Threads`)
and there is a largest file size, which the column's integer type gives; in
`Editing` "no content" and "no inode" are not contents or inodes, and sources
have names of their own.

| Theorem | Statement |
|---|---|
| `FileLifecycleProofs!TypeCorrect` | `Spec => []TypeOK` |
| `FileLifecycleProofs!UploadingNamesUnshared` | `Spec => []UploadingNameUnshared` |
| `FileLifecycleProofs!FailedStaysFailed` | `Spec => FailedIsFinal` |
| `FileLifecycleProofs!ConfirmedFilesKept` | `Spec => []ConfirmedFileKept`, if no purged row is restored |
| `FileLifecycleProofs!FilesImplementCatalogue` | `Spec => ImplementsCatalogue` |
| `MySQLPoolProofs!TypeCorrect` | `Spec => []TypeOK` |
| `MySQLPoolProofs!ConnectionsAccounted` | `Spec => []Accounting` |
| `MySQLPoolProofs!OvershootLimited` | `Spec => []OvershootNeedsThreads` |
| `MySQLPoolProofs!NoWakeupLost` | `Spec => []NoLostWakeup` |
| `MasterProofs!TypeCorrect` | `Spec => []TypeOK`, of `NodeManager` |
| `MasterProofs!ModeFollows` | `Spec => []ModeFollowsLoad`, if thresholds are apart |
| `MasterProofs!StorageInvariant` | `StorageSpec => []StorageInv` |
| `MasterProofs!StorageTypeCorrect` | `StorageSpec => []StorageTypeOK` |
| `MasterProofs!QuotaBounded` | `StorageSpec => []QuotaExceededByRequests` |
| `MasterProofs!LiveFilesFound` | `StorageSpec => []FilesFound` |
| `MasterProofs!AllFoldersFound` | `StorageSpec => []FoldersFound` |
| `DataNodeProofs!TypeCorrect` | `Spec => []TypeOK`, of `MasterClient` |
| `DataNodeProofs!SendersKnown` | `Spec => []SenderKnown` |
| `DataNodeProofs!EditingInvariant` | `EditingSpec => []EditingInv` |
| `DataNodeProofs!EditingTypeCorrect` | `EditingSpec => []EditingTypeOK` |
| `DataNodeProofs!CacheIsCurrent` | `EditingSpec => []CachedIsCurrent` |
| `DataNodeProofs!FileIsWhole` | `EditingSpec => []SavesAreWhole` |
| `PrefetchCacheProofs!TypeCorrect` | `Spec => []TypeOK` |
| `PrefetchCacheProofs!CountersCorrect` | `Spec => []Accounting` |
| `PrefetchCacheProofs!OvershootLimited` | `Spec => []OvershootBounded` |
| `PrefetchCacheProofs!MarksCleared` | `Spec => []MarksHaveLoaders` |
| `PrefetchCacheProofs!VipsEvictedByVips` | `Spec => NormalEvictsNoVip` |
| `TransferSessionsProofs!TypeCorrect` | `Spec => []TypeOK` |
| `TransferSessionsProofs!CountersCorrect` | `Spec => []Accounting` |
| `TransferSessionsProofs!OrderlyConnectionsKept` | `Spec => []OrderlyConnections` |
| `TransferSessionsProofs!OrderlyUploadsAreWhole` | `Spec => []OrderlyUploadsWhole` |
| `HttpParserProofs!TypeCorrect` | `Spec => []TypeOK` |
| `HttpParserProofs!ParserImplementsExchange` | `Spec => ImplementsExchange` |
| `SharingProofs!LinksStayBounded` | `LearningSpec => []LinksBounded` |
| `SharingProofs!ProgressIsEarned` | `LearningSpec => []MaxReachedEarned` |
| `SharingProofs!TimeIsKept` | `LearningSpec => []WatchedKept` |
| `SharingProofs!RoomsTypeCorrect` | `Spec => []TypeOK`, of `Rooms` |
| `SharingProofs!RoomsKeepRights` | `Spec => []RightsReachOwner`, of `Rooms` |
| `SharingProofs!RoomsShowWhatIsThere` | `Spec => []RoomsShowPlaylists`, of `Rooms` |
| `SharingProofs!RequestsAreSafe` | all invariants of `requests`, under `RequestsSpec` |

The arguments:

- *Files.*  `NameInv` strengthens `UploadingNameUnshared`: only a row that is or
  was `success` is ever named by another, a row never returns to `uploading`,
  and each pending decision of the stale sweep is about a row that was never
  shared.  `FoundInv` says which rows an unfinished report may still
  promote; with it no step leaves `failed`.  `KeepInv` follows a confirmed file:
  whoever may unlink it (a delete request, an orphan verdict, a truncating
  upload) must have been let in by a row that is purged, or by a session that
  is not `stored`.  It needs `UnbornInv` (a slot without a row has no file) and,
  indispensably, that no purged row comes back: with `RestorePurged` TLC shows
  a file collected under a restored row.
- *Catalogue.*  `ListedInv`: only rows of the table are in the bin or purged, and only
  rows that are or were in the table are about to be removed.  With it, and with
  `FoundInv` for the verdicts of a report, each step is one of `FileCatalogue` or
  leaves its variables alone (`CatalogueInductive`): what users and the recycle bin do
  is a move (`MovesAreSteps`); a lost message, a restart, and whatever touches bytes and
  sessions only, spares rows or does nothing (`SparingIsAStep`).
- *Pool.*  `TypeOK` alone is not inductive: `total` can be decremented only
  because the discarded connection is counted.  `CountInv` adds that a thread
  has a connection exactly when it is `holding` or `pushing`, and `Accounting`.
  For wakeups `HealthyInv` says that before the first fault no connection is
  bad and nobody refills; each push to the queue is then followed by a
  notification, and each wakeup takes at most one connection.  The overshoot
  counts a refill under way as the connection that was discarded
  (`OvershootThread`): the sum grows only where a new connection is made, and then
  the queue is empty, so that all that is counted is in the hands of a thread of
  its own.
- *Mode.*  The refresh that ends each critical section establishes the
  property for any load (`RefreshFollows`, which needs exit < enter: with equal
  thresholds each refresh flips the mode).  A reservation is counted after the
  refresh; the lemma `ReservationCounts` bounds what it adds by one.
- *Session.*  Every request on the wire that is not a registration carries the
  node's present id, and that id is in the master's table as long as the
  connection lasts (`SessionInv`): each side's restart closes the connection,
  which empties the wire, and a reply that gives an id was made by an entry.
- *Cache.*  `CacheInv`: busy threads have a block, debts are owed by threads
  that are about to pay, the counters are the sum modulo `Word`, and the blocks
  stored or about to be stored stay within `MaxBlocks + threads - 1`.  The last
  one is where the race between `makeSpaceFor` calls lives: the counter that a
  thread compares may already include a block, or still lack those of threads
  between their insertion and their addition.  `MarksHaveLoaders` and
  `NormalEvictsNoVip` need the types only, and a lemma that a thread touches its
  own state only.
- *Transfers.*  `Inv` is the types with `Accounting`.  Three lemmas say what a
  change of one context (`Changed`), a new one (`Appended`) and a release
  (`Released`) do to the number counted; a release happens to a counted context,
  so the counter is positive and its floor is never what stops it.  Callbacks
  name contexts that exist because contexts are never forgotten (`OldQueues`), and
  a body's parts stay within its length (`BodyKept`, `HandlerTyped`).
- *Orderly connections.*  Neither property is inductive alone: what a late
  callback releases depends on what is still queued.  `OrderlyInv` adds that the
  entry and the callbacks of every connection, orderly or not, name contexts made
  on it (`Mine`), which keeps a step of one connection from reaching another
  (`OthersKept`); that on an orderly connection at most one callback of its
  download is on its way, in the queue or behind the output (`Chain`), and
  that it is for the download in the entry; and that what is written, held and
  still to come makes the body (`Body`).  A callback that ends a download
  therefore finds either its own entry or a closed connection that has released
  it.  A request that finds nothing counted finds an empty entry (`AsksIdle`): this
  is where `overlapped` is used.
- *Parser.*  `IInv` relates three places in the stream of a connection: what
  was handed over is a prefix of what was sent (`InOrder`), the buffer was consumed
  no further than it was read (`ReadOK`), and as long as the parser stands where it
  may hand over a request, that is the next one and everything before it was
  handed over whole (`Parsing`).  It loses its place for good only inside a body
  whose length was cut short, where `LineGood` finds no request line, or in a body
  without end.  `DeclaredLength` is what arithmetic there is: a length read is the
  length, or the body does not fit an int.  With the invariant each step is one of
  `HttpExchange` or leaves `sent` and `handled` alone (`NextGood`).
- *Shares.*  `SharesInv` counts, for each subject, the valid rows together with
  the requests that are to insert one after a look: a look that finds nothing
  means that there are no such rows, and each insertion turns a request into a
  row.
- *Progress.*  `ReportsInv`: a report starts from a maximum that was earned when
  it was read, and what was earned never shrinks; it adds its own budget at most
  (`MaxReachedBound`).  While no two reports overlapped, a report that is about to
  write holds the row as it is, or no row, and then the INSERT fails if there is
  one.
- *Rooms.*  Ids of playlists are never used again, so there is a function `by`
  from ids to users, which outlives the rows, of which `OwnedBy` says: every
  playlist, room, item and request under way that names an id belongs to `by` of
  it, and every item got past a look for that user's right.  `by` is extended when a
  playlist is created (`Creates`); the invariant quantifies over it.  Grants only
  grow (`GrantsKept`), so that a right once seen is not lost.
- *Deleted playlists.*  `StrayInv`: an item that is not stray is held by a playlist
  whose deletion has not got to its second statement, and a request that is to add an
  item is about a playlist that exists, or has met its deletion (`AdditionsCross`).
  The second is what makes an insertion after the deletion a stray one.

- *Requests.*  A step of the composition is one of `Learning` or leaves its
  variables alone, and one of `Rooms` or leaves its variables alone, since both have
  the steps of `Sharing` (`RequestsAreBoth`).  The theorems of the two then hold of
  it.

- *Folders.*  `StorageInv` says what a request may rely on between two of its
  statements.  The folder it has read, and under which it is about to insert, is
  still there while no deletion crosses it (`FolderOfJob`); a deletion's folder is
  the row it was asked for, or gone (`AskedOfDeletion`); and what it has selected
  with `LIKE` stays closed: a child that is not selected was made by a request
  that it crosses, and once the files have gone none is left in a selected folder
  (`SelectionClosed`).  That `LIKE` selects children with their parents, whatever
  the pattern, is the lemma `BelowChild`.  Then the third statement of a deletion
  leaves neither a file nor a row behind that is not `loose` (`FilesFound`,
  `RowsLinked`), and `FoldersFound` follows from the links row by row.
- *Quota.*  `QuotaExceededByRequests` bounds what is stored; inductive is the bound
  for what is stored together with what has been let in: `RoomForAdmitted` adds
  the sizes of the uploads that got past the check and have not inserted yet.  The
  upload that is checked last fits beside what is stored, and the others are at
  most `Cardinality(Threads) - 1` files of the largest size.  Sums are those of
  the community modules, defined by recursion over sets; `SumRemove`, `SumLess` and
  `SumBounded` say what the proof needs of them.
- *Edits.*  An inode that is not `hurt` is in the hand of at most one request
  (`OneHand`), which finds it empty until it writes and leaves it whole
  (`HandsClean`); what has a name, or is the source of a copy, is hurt, in hand or
  whole (`NamedSound`); a temporary file that a request may still rename is whole,
  or another edit has just opened it, and then the rename hurts it (`TmpReady`).
  `SavedApart` keeps a snapshot from being the file.  A crash then cuts off only what
  is hurt by it, because a temporary file that is only open has no other
  name.
- *Cached blocks.*  `ReadersCurrent`: a reader that opened the file after its last
  change has its inode and, between the read and the put, the block it still
  holds.  `BlocksCurrent` refines `CachedIsCurrent`: it names for each block the request
  that will drop it, by what `invalidateFile` has left to do.

The lemma `SmallestSubset` of `MasterProofs` is induction over finite sets in first-order
form: a counterexample to a claim would have a smallest one (from the
well-foundedness of inclusion).  With it the recursively defined sums are within
reach of the prover; so would be other definitions by recursion over sets.

Only model-checked: every liveness property, since fairness and `ENABLED` are
beyond the prover (`PurgedRowsGo`, `UploadsResolve`, `LeaksReclaimed`,
`DanglingRowsFlagged`, `ShutdownReleasesWaiters`, `GoneNodesDeclaredDead`,
`StrictModeEnds`, `LimitsReachNodes`, `NodeComesAlive`, `NoticesReachMaster`,
`DownloadsEnd`, `Served`, `PurgedRowsCollected`), and with the last one all of
`Collector`.

## 6. Plan

1. *Core (done).*  Files, connection pool, nodes, session, cache, transfers.
2. *Requests of users (done).*  `HttpParser` with its abstract specification;
   `Storage`; `Sharing` with `Rooms` and `Learning`, composed in `Requests`.
3. *Edits, and the rounds of the collector (done).*  `Editing`, `Collector`.
4. *Open.*
   - `HotCache`: the list of hot files, its limits and its cooldown.
   - The queue of notices of `MasterClient` composed with the rows of
     `FileLifecycle`, so that `UploadsResolve` rests on the session instead of on
     `SF`.

## 7. Not modelled

- Contents of files, ranges, thumbnails, transcoding, chunked merges: only whether
  a file is absent, partial or complete, and in `Editing` which version it is.
- The hot cache list of the master (`HotCacheService.cc`): scores, decay, limits
  per round and node.  An entry that is erased for lack of accesses forgets its
  last task with it, so the cooldown starts anew.  What a DataNode does
  with a hot-cache task is a reader in `Editing` and an admission in
  `PrefetchCache`.
- The MD5 of a file that was edited: the row keeps that of the first upload, and a
  later instant upload of the former content refers to the edited file.
- Accounts, the search for users, the recharge of VIP rights and the change of
  a service level while requests run; search and sorting in listings; notes,
  segments and study collections; danmaku, the position of a room's player, notes
  and order of items, the type that playlists of an older schema are given at
  start.
- In `Storage` rows with status `failed`, which count for no quota; in `Rooms` rows
  that share a file name, of which `handleFileDownload` takes the first.
- In `Editing` the deletion of the file or of its snapshot by the collector while a
  request edits it, the details that are stored next to a snapshot, and the
  eviction of blocks, of which `Forget` stands for every cause.
- A handler that gets no connection from the pool: some handlers use the guard
  without testing it, whose outcome is undefined; the model starts from
  handlers that have one.
- Signatures and the text of tokens; only what they authorise and when they
  expire.
- The circuit break against batch uploads with a preferred node: the code does not
  ask for it there (`UsePreferredNode`), and no property says it should.
- muduo apart from the one-request-per-read rule, the states of a connection and
  its write-complete callback; MySQL apart from atomic
  statements that may fail; web pages.
