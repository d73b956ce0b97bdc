---------------------------- MODULE FileLifecycle ----------------------------
(***************************************************************************)
(* The life of a stored file: the master's `files' table, the upload       *)
(* directory of the DataNode that holds the bytes, and the traffic that    *)
(* keeps the two in step (upload sessions, finish notices, the report of   *)
(* local files, the garbage collector and its asynchronous delete tasks).  *)
(*                                                                         *)
(* One DataNode is modelled: every statement of the code that relates rows *)
(* to bytes is keyed by node_id, and rows of different nodes never share a *)
(* file.  A row slot stands for one upload request and for the row the     *)
(* request inserts.  generateUniqueFilename gives each ordinary upload a   *)
(* server filename of its own, so the slot also names that file; a row     *)
(* made by an instant upload carries the name of another row's file.       *)
(*                                                                         *)
(* The records of file_shares that hard delete and removal also drop are   *)
(* left out: no statement of this component reads them.                    *)
(***************************************************************************)
EXTENDS Naturals, FiniteSets

CONSTANTS
    Rows,           \* upload requests, each with the row it may insert
    Users,
    Owner,          \* the user who issues each request
    Hashed,         \* requests that carry the MD5 of one common content
    RestorePurged,  \* whether a client may ask to restore a purged row
    Reupload        \* whether a client may use an upload token once more
                    \* after its upload was stored

ASSUME FileLifecycleAssumption ==
    /\ Owner \in [Rows -> Users]
    /\ Hashed \subseteq Rows
    /\ RestorePurged \in BOOLEAN
    /\ Reupload \in BOOLEAN

VARIABLES
    status,     \* files.status; "free": no row yet, "hit": instant upload
                \* between its SELECT and its INSERT, "gone": row deleted
    del,        \* files.is_deleted: 0 live, 1 recycle bin, 2 purged
    name,       \* files.filename, as the slot whose upload writes that file
    disk,       \* uploads/ on the DataNode
    session,    \* the user's upload session for the slot's own file
    age,        \* 30 minutes after the row: "overdue" if still uploading
    notices,    \* finish notices queued on the DataNode or under way
    delReq,     \* delete requests under way to the DataNode
    rowDrop,    \* rows the master is about to DELETE: a collector decided
                \* so, or a positive reply (200 or 404) is under way
    report,     \* the report of local files, if one is being handled
    alive       \* DataNodeInfo::isAlive_ as the master sees it

rowVars == <<status, del, name>>
nodeVars == <<disk, session, age, notices>>
gcVars == <<delReq, rowDrop>>
vars == <<rowVars, nodeVars, gcVars, report, alive>>

Statuses == {"free", "hit", "uploading", "success", "failed", "gone"}

NoReport == [sent |-> FALSE, files |-> {}, lost |-> {}, found |-> {},
             orphans |-> {}]

TypeOK ==
    /\ status \in [Rows -> Statuses]
    /\ del \in [Rows -> 0..2]
    /\ name \in [Rows -> Rows]
    /\ disk \in [Rows -> {"none", "partial", "complete"}]
    /\ session \in [Rows -> {"none", "ready", "writing", "stored",
                           "expired"}]
    /\ age \in [Rows -> {"young", "confirmed", "overdue"}]
    /\ notices \in SUBSET Rows
    /\ delReq \in SUBSET Rows
    /\ rowDrop \in SUBSET Rows
    /\ report \in [sent: BOOLEAN, files: SUBSET Rows, lost: SUBSET Rows,
                   found: SUBSET Rows, orphans: SUBSET Rows]
    /\ alive \in BOOLEAN

Init ==
    /\ status = [r \in Rows |-> "free"]
    /\ del = [r \in Rows |-> 0]
    /\ name = [r \in Rows |-> r]
    /\ disk = [r \in Rows |-> "none"]
    /\ session = [r \in Rows |-> "none"]
    /\ age = [r \in Rows |-> "young"]
    /\ notices = {}
    /\ delReq = {}
    /\ rowDrop = {}
    /\ report = NoReport
    /\ alive = TRUE

-----------------------------------------------------------------------------
(* What the SELECTs of the code ask of the table.                          *)

Present(r) == status[r] \in {"uploading", "success", "failed"}

\* hasOtherPhysicalReferences: another usable row names the same file.
Referenced(n, r) ==
    \E s \in Rows \ {r} : status[s] = "success" /\ del[s] # 2 /\ name[s] = n

\* Mutant of InstantHits: the lookup does not ask for status 'success'.
InstantHitsAnyStatus == {s \in Hashed : Present(s) /\ del[s] = 0}

\* The rows the MD5 lookup of an upload request can return.
InstantHits == {s \in Hashed : status[s] = "success" /\ del[s] = 0}

-----------------------------------------------------------------------------
(* FileHandler::handleFileUpload.                                          *)

\* A row in state "uploading" and an upload token for its new file.
InsertUploading(r) ==
    /\ alive
    /\ status' = [status EXCEPT ![r] = "uploading"]
    /\ name' = [name EXCEPT ![r] = r]
    /\ session' = [session EXCEPT ![r] = "ready"]
    /\ UNCHANGED <<del, disk, age, notices, gcVars, report, alive>>

\* No MD5 in the request, or no row with that MD5.
RequestUpload(r) ==
    /\ status[r] = "free"
    /\ r \in Hashed => InstantHits = {}
    /\ InsertUploading(r)

\* The SELECT of an instant upload finds a file to reuse ...
InstantLookup(r) ==
    /\ status[r] = "free"
    /\ r \in Hashed
    /\ \E s \in InstantHits : name' = [name EXCEPT ![r] = name[s]]
    /\ status' = [status EXCEPT ![r] = "hit"]
    /\ UNCHANGED <<del, nodeVars, gcVars, report, alive>>

\* ... and a later INSERT adds a "success" row for it.
InsertInstant(r) ==
    /\ status[r] = "hit"
    /\ status' = [status EXCEPT ![r] = "success"]
    /\ UNCHANGED <<del, name, nodeVars, gcVars, report, alive>>

\* When that INSERT fails the request goes on as an ordinary upload.
InsertFallsThrough(r) ==
    /\ status[r] = "hit"
    /\ InsertUploading(r)

-----------------------------------------------------------------------------
(* The upload session on the DataNode.                                     *)

\* The first chunk opens (and truncates) uploads/<server_filename>.  Nothing
\* marks a token as used: a retry of a stored upload begins it anew.
BeginUpload(r) ==
    /\ \/ session[r] = "ready"
       \/ Reupload /\ session[r] = "stored" /\ age[r] = "young"
    /\ session' = [session EXCEPT ![r] = "writing"]
    /\ disk' = [disk EXCEPT ![r] = "partial"]
    /\ UNCHANGED <<rowVars, age, notices, gcVars, report, alive>>

\* The last chunk: the user is told "success", then a notice is queued.  A
\* file that was unlinked meanwhile stays unlinked.  The token is verified
\* with every chunk, so nothing completes after its 30 minutes.
CompleteUpload(r) ==
    /\ session[r] = "writing"
    /\ session' = [session EXCEPT ![r] = "stored"]
    /\ disk' = [disk EXCEPT ![r] = IF @ = "partial" THEN "complete" ELSE @]
    /\ notices' = notices \union {r}
    /\ UNCHANGED <<rowVars, age, gcVars, report, alive>>

\* The connection closes: counters are released, the partial file stays.
AbortUpload(r) ==
    /\ session[r] = "writing"
    /\ session' = [session EXCEPT ![r] = "ready"]
    /\ UNCHANGED <<rowVars, disk, age, notices, gcVars, report, alive>>

\* Thirty minutes after the row was inserted the token expires, so that no
\* chunk is accepted any more, and a row still "uploading" becomes stale.  The
\* age of a row makes no difference once it is resolved and its token used up.
AgeOut(r) ==
    /\ session[r] # "none"
    /\ age[r] = "young"
    /\ status[r] = "uploading" \/ session[r] # "stored" \/ Reupload
    /\ age' = [age EXCEPT ![r] = IF status[r] = "uploading" THEN "overdue"
                                                            ELSE "confirmed"]
    /\ session' = [session EXCEPT ![r] = IF @ = "stored" THEN @ ELSE "expired"]
    /\ UNCHANGED <<rowVars, disk, notices, gcVars, report, alive>>

-----------------------------------------------------------------------------
(* Finish notices.                                                         *)

\* Mutant of DeliverNotice: the UPDATE lacks AND status = 'uploading'.
DeliverNoticeAnyStatus(r) ==
    /\ r \in notices
    /\ notices' = notices \ {r}
    /\ status' = [status EXCEPT ![r] = IF Present(r) THEN "success" ELSE @]
    /\ UNCHANGED <<del, name, disk, session, age, gcVars, report, alive>>

\* DataNodeHandler::handleUploadFinishNotify
DeliverNotice(r) ==
    /\ r \in notices
    /\ notices' = notices \ {r}
    /\ status' = [status EXCEPT ![r] = IF @ = "uploading" THEN "success" ELSE @]
    /\ UNCHANGED <<del, name, disk, session, age, gcVars, report,
                   alive>>

\* A notice is posted once: a broken connection, a 401 or a 500 loses it.
LoseNotice(r) ==
    /\ r \in notices
    /\ notices' = notices \ {r}
    /\ UNCHANGED <<rowVars, disk, session, age, gcVars, report, alive>>

-----------------------------------------------------------------------------
(* The report of local files.  One report is handled at a time: the        *)
(* DataNode sends its requests over one connection, which the master       *)
(* serves from one thread.                                                 *)

\* Mutant of ReportScan: files still being written are not reported.
ReportScanComplete ==
    /\ report = NoReport
    /\ report' = [NoReport EXCEPT
                     !.sent = TRUE,
                     !.files = {n \in Rows : disk[n] = "complete"}]
    /\ UNCHANGED <<rowVars, nodeVars, gcVars, alive>>

\* MasterClient::reportLocalFiles scans uploads/, partial files included.
ReportScan ==
    /\ report = NoReport
    /\ report' = [NoReport EXCEPT
                     !.sent = TRUE,
                     !.files = {n \in Rows : disk[n] # "none"}]
    /\ UNCHANGED <<rowVars, nodeVars, gcVars, alive>>

\* DataNodeHandler::handleReportFiles reads the node's rows once ...
ReportSelect ==
    /\ report.sent
    /\ report' =
        [sent |-> FALSE,
         files |-> {},
         lost |-> {r \in Rows : /\ status[r] \in {"success", "uploading"}
                                /\ del[r] # 2
                                /\ name[r] \notin report.files},
         found |-> {r \in Rows : /\ status[r] = "uploading"
                                 /\ name[r] \in report.files},
         orphans |-> report.files \
                        {name[r] : r \in {s \in Rows : /\ Present(s)
                                                       /\ del[s] # 2}}]
    /\ UNCHANGED <<rowVars, nodeVars, gcVars, alive>>

\* Mutant of ReportMark: the UPDATE also asks for status = 'uploading'.
ReportMarkUploading(r, verdict) ==
    status' = [status EXCEPT ![r] = IF @ = "uploading" THEN verdict ELSE @]

\* ... then issues one UPDATE ... WHERE id = ? per verdict.
ReportMark(r, verdict) ==
    status' = [status EXCEPT ![r] = IF Present(r) THEN verdict ELSE @]

ReportFix(r) ==
    /\ \/ /\ r \in report.lost
          /\ ReportMark(r, "failed")
          /\ report' = [report EXCEPT !.lost = @ \ {r}]
       \/ /\ r \in report.found
          /\ ReportMark(r, "success")
          /\ report' = [report EXCEPT !.found = @ \ {r}]
    /\ UNCHANGED <<del, name, nodeVars, gcVars, alive>>

\* MasterClient::handleReportFilesResponse unlinks every name listed.
DeleteOrphan(n) ==
    /\ n \in report.orphans
    /\ report.lost \union report.found = {}
    /\ disk' = [disk EXCEPT ![n] = "none"]
    /\ report' = [report EXCEPT !.orphans = @ \ {n}]
    /\ UNCHANGED <<rowVars, session, age, notices, gcVars, alive>>

\* The request or the reply is lost with its connection.
LoseReport ==
    /\ report.sent \/ report.orphans # {}
    /\ report' = [report EXCEPT !.sent = FALSE, !.files = {}, !.orphans = {}]
    /\ UNCHANGED <<rowVars, nodeVars, gcVars, alive>>

-----------------------------------------------------------------------------
(* What users do to rows.                                                  *)

Recycle(S) ==
    /\ S # {}
    /\ del' = [r \in Rows |-> IF r \in S THEN 1 ELSE del[r]]
    /\ UNCHANGED <<status, name, nodeVars, gcVars, report, alive>>

OwnLive(u) == {r \in Rows : Present(r) /\ Owner[r] = u /\ del[r] = 0}

\* FileHandler::handleDeleteFile: by server filename.
DeleteByName(u, n) == Recycle({r \in OwnLive(u) : name[r] = n})

\* FileHandler::handleBatchDelete: by ids.
BatchDelete(u, S) == Recycle(S \intersect OwnLive(u))

\* FileHandler::handleRestoreFile: the UPDATE asks for id and user only.
RestoreFile(r) ==
    /\ Present(r)
    /\ del[r] # 0
    /\ del[r] = 2 => RestorePurged
    /\ del' = [del EXCEPT ![r] = 0]
    /\ UNCHANGED <<status, name, nodeVars, gcVars, report, alive>>

InBin(S) == {r \in S : Present(r) /\ del[r] = 1}

Purge(S) == del' = [r \in Rows |-> IF r \in S THEN 2 ELSE del[r]]

\* FileHandler::handleHardDelete
HardDelete(r) ==
    /\ r \in InBin(Rows)
    /\ Purge({r})
    /\ UNCHANGED <<status, name, nodeVars, gcVars, report, alive>>

\* FileHandler::handleBatchHardDelete
BatchHardDelete(u, S) ==
    /\ S # {}
    /\ Purge({r \in InBin(S) : Owner[r] = u})
    /\ UNCHANGED <<status, name, nodeVars, gcVars, report, alive>>

\* MasterHttpHandler::processExpiredRecycleBin; S: the rows old enough.
ExpireRecycleBin(S) ==
    /\ InBin(S) # {}
    /\ Purge(InBin(S))
    /\ UNCHANGED <<status, name, nodeVars, gcVars, report, alive>>

-----------------------------------------------------------------------------
(* Garbage collection on the master's timers.                              *)

Purged(r) == Present(r) /\ del[r] = 2

\* Mutant of Stale: the sweep does not ask for status 'uploading'.
StaleAnyStatus(r) == Present(r) /\ age[r] = "overdue"

Stale(r) == status[r] = "uploading" /\ age[r] = "overdue"

\* An AsyncDeleteTask for the file of row r.
IssueDelete(r) ==
    /\ alive
    /\ delReq' = delReq \union {r}
    /\ UNCHANGED <<rowVars, nodeVars, rowDrop, report, alive>>

\* cleanupFileRecordById is about to run for row r.
DecideDrop(r) ==
    /\ rowDrop' = rowDrop \union {r}
    /\ UNCHANGED <<rowVars, nodeVars, delReq, report, alive>>

\* processGarbageCollection: only the row of a file still used goes.
GcKeepFile(r) == Purged(r) /\ Referenced(name[r], r) /\ DecideDrop(r)

\* Mutant of GcIssueDelete: no hasOtherPhysicalReferences.
GcIssueDeleteShared(r) == Purged(r) /\ IssueDelete(r)

\* processGarbageCollection: otherwise the file first; offline nodes wait.
GcIssueDelete(r) == Purged(r) /\ ~Referenced(name[r], r) /\ IssueDelete(r)

\* processStaleUploadingFiles, node online ...
StaleIssueDelete(r) == Stale(r) /\ IssueDelete(r)

\* ... and node offline: the row goes, the bytes stay where they are.
StaleDropRow(r) == Stale(r) /\ ~alive /\ DecideDrop(r)

\* Mutant of DnDelete: a file already absent is an error for the task.
DnDeleteExisting(r) ==
    /\ r \in delReq
    /\ delReq' = delReq \ {r}
    /\ rowDrop' = IF disk[name[r]] = "none" THEN rowDrop ELSE rowDrop \union {r}
    /\ disk' = [disk EXCEPT ![name[r]] = "none"]
    /\ UNCHANGED <<rowVars, session, age, notices, report, alive>>

\* DataNodeHttpHandler::handleDeleteFile: 200, or 404 when already absent.
DnDelete(r) ==
    /\ r \in delReq
    /\ delReq' = delReq \ {r}
    /\ rowDrop' = rowDrop \union {r}
    /\ disk' = [disk EXCEPT ![name[r]] = "none"]
    /\ UNCHANGED <<rowVars, session, age, notices, report, alive>>

\* No connection, a timeout, an error reply: the task does nothing.
LoseDeleteRequest(r) ==
    /\ r \in delReq
    /\ delReq' = delReq \ {r}
    /\ UNCHANGED <<rowVars, nodeVars, rowDrop, report, alive>>

\* The reply does not reach the task, or the task gets no DB connection.
LoseDeleteReply(r) ==
    /\ r \in rowDrop
    /\ rowDrop' = rowDrop \ {r}
    /\ UNCHANGED <<rowVars, nodeVars, delReq, report, alive>>

\* Mutant of DropRow: the DELETE asks for a row that left 'uploading'.
DropRowResolved(r) ==
    /\ r \in rowDrop
    /\ status[r] # "uploading"
    /\ rowDrop' = rowDrop \ {r}
    /\ status' = [status EXCEPT ![r] = "gone"]
    /\ del' = [del EXCEPT ![r] = 0]
    /\ UNCHANGED <<name, nodeVars, delReq, report, alive>>

\* AsyncDeleteTask::onMessage, cleanupFileRecordById: DELETE FROM files WHERE
\* id = ?, whatever the row has become meanwhile.
DropRow(r) ==
    /\ r \in rowDrop
    /\ rowDrop' = rowDrop \ {r}
    /\ status' = [status EXCEPT ![r] = "gone"]
    /\ del' = [del EXCEPT ![r] = 0]
    /\ UNCHANGED <<name, nodeVars, delReq, report, alive>>

-----------------------------------------------------------------------------
(* Failures.                                                               *)

\* checkTimeoutNodes declares the node dead; a heartbeat or a registration
\* brings it back.
NodeDown == alive /\ alive' = FALSE
            /\ UNCHANGED <<rowVars, nodeVars, gcVars, report>>
NodeUp == ~alive /\ alive' = TRUE
          /\ UNCHANGED <<rowVars, nodeVars, gcVars, report>>

\* The DataNode process restarts: pendingNotifications_ is in memory.
DataNodeCrash ==
    /\ session' = [r \in Rows |-> IF session[r] = "writing" THEN "ready"
                                                            ELSE session[r]]
    /\ notices' = {}
    /\ delReq' = {}
    /\ report' = [report EXCEPT !.sent = FALSE, !.files = {}, !.orphans = {}]
    /\ UNCHANGED <<rowVars, disk, age, rowDrop, alive>>

\* The master restarts: tasks, node table and half-done handlers are lost.
MasterCrash ==
    /\ status' = [r \in Rows |-> IF status[r] = "hit" THEN "free"
                                                      ELSE status[r]]
    /\ rowDrop' = {}
    /\ report' = NoReport
    /\ alive' = FALSE
    /\ UNCHANGED <<del, name, nodeVars, delReq>>

-----------------------------------------------------------------------------
UploadStep(r) ==
    \/ RequestUpload(r) \/ InstantLookup(r) \/ InsertInstant(r)
    \/ InsertFallsThrough(r) \/ BeginUpload(r) \/ CompleteUpload(r)
    \/ AbortUpload(r) \/ AgeOut(r) \/ DeliverNotice(r) \/ LoseNotice(r)

UserStep ==
    \/ \E u \in Users, n \in Rows : DeleteByName(u, n)
    \/ \E u \in Users, S \in SUBSET Rows : BatchDelete(u, S)
    \/ \E r \in Rows : RestoreFile(r)
    \/ \E r \in Rows : HardDelete(r)
    \/ \E u \in Users, S \in SUBSET Rows : BatchHardDelete(u, S)

CollectStep(r) ==
    \/ GcKeepFile(r) \/ GcIssueDelete(r) \/ StaleIssueDelete(r)
    \/ StaleDropRow(r) \/ DnDelete(r) \/ LoseDeleteRequest(r)
    \/ LoseDeleteReply(r) \/ DropRow(r)

ReportStep ==
    \/ ReportScan
    \/ ReportSelect
    \/ \E r \in Rows : ReportFix(r)
    \/ \E n \in Rows : DeleteOrphan(n)
    \/ LoseReport

Next ==
    \/ \E r \in Rows : UploadStep(r)
    \/ UserStep
    \/ \E S \in SUBSET Rows : ExpireRecycleBin(S)
    \/ \E r \in Rows : CollectStep(r)
    \/ ReportStep
    \/ NodeDown
    \/ NodeUp
    \/ DataNodeCrash
    \/ MasterCrash

Spec == Init /\ [][Next]_vars

\* Timers fire (the collectors every minute, registration and with it the
\* report every 23 hours and on every reconnection), a node that is down comes
\* back, and a request or reply that is sent again and again gets through.
\* Nothing is assumed of users, and crashes may recur for ever.
Fairness ==
    /\ WF_vars(NodeUp)
    /\ SF_vars(ReportScan)
    /\ SF_vars(ReportSelect)
    /\ \A r \in Rows :
        /\ WF_vars(AgeOut(r))
        /\ SF_vars(GcKeepFile(r))
        /\ SF_vars(GcIssueDelete(r))
        /\ SF_vars(StaleIssueDelete(r))
        /\ SF_vars(StaleDropRow(r))
        /\ SF_vars(DnDelete(r))
        /\ SF_vars(DropRow(r))
        /\ SF_vars(ReportFix(r))
        /\ SF_vars(DeleteOrphan(r))

FairSpec == Spec /\ Fairness

-----------------------------------------------------------------------------
(* Safety.                                                                 *)

\* The stale-upload sweep asks no one whether the file is still used.  It
\* need not: while a row is "uploading", it names its own file, and no other
\* row, nor an instant upload about to insert one, names that file.
UploadingNameUnshared ==
    \A r \in Rows : status[r] = "uploading" =>
        /\ name[r] = r
        /\ \A s \in Rows \ {r} :
               Present(s) \/ status[s] = "hit" => name[s] # r

\* An upload the master confirmed within its 30 minutes keeps its bytes until
\* its row is purged, whatever collectors, reports, restarts and instant
\* uploads of the same content do meanwhile (provided nobody restores a purged
\* row).  A client that uploads once more with the same token opens the
\* session, and truncates the file, again.
ConfirmedFileKept ==
    \A r \in Rows :
        /\ status[r] = "success" /\ name[r] = r /\ del[r] # 2
        /\ session[r] = "stored" /\ age[r] # "overdue"
        => disk[r] = "complete"

\* A row given up as "failed" is never promoted again, neither by a finish
\* notice that arrives late nor by the verdict of a report.
FailedIsFinal ==
    [][\A r \in Rows : status[r] = "failed" => status'[r] \in {"failed", "gone"}]_vars

\* A row that an instant upload is about to insert is not listed yet.  A removal
\* is under way from the decision to delete the file to the DELETE of the row.
Catalogue == INSTANCE FileCatalogue WITH
    status <- [r \in Rows |-> IF status[r] = "hit" THEN "free" ELSE status[r]],
    late <- {r \in Rows : age[r] = "overdue"},
    condemned <- delReq \union rowDrop

\* The statements and messages of all handlers, timers and tasks together keep
\* what FileCatalogue promises: a row is removed only when it was purged, or
\* overdue and still uploading, at the time its removal began, whichever of them
\* ran in between (processGarbageCollection, processStaleUploadingFiles,
\* AsyncDeleteTask, handleReportFiles).
ImplementsCatalogue == Catalogue!Spec

-----------------------------------------------------------------------------
(* Liveness.                                                               *)

\* A purged row leaves the table, unless its owner takes it back.
PurgedRowsGo == \A r \in Rows : Purged(r) ~> ~Purged(r)

\* No row stays "uploading" for ever: it is confirmed, given up or removed,
\* whatever happens to its upload, its notice and the nodes.
UploadsResolve ==
    \A r \in Rows : (status[r] = "uploading") ~> (status[r] # "uploading")

\* Bytes that no row of the table names.
Leaked(n) ==
    disk[n] # "none" /\ \A r \in Rows : Present(r) => name[r] # n

\* Bytes without a row, left by an offline removal or a late upload, are
\* found by a report and unlinked.
LeaksReclaimed == \A n \in Rows : []<>~Leaked(n)

\* A usable row whose bytes are missing does not go unnoticed.
Dangling(r) == /\ status[r] = "success" /\ del[r] # 2
               /\ disk[name[r]] = "none"

DanglingRowsFlagged == \A r \in Rows : []<>~Dangling(r)
=============================================================================
