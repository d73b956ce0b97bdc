-------------------------------- MODULE Storage --------------------------------
(***************************************************************************)
(* The folders of a user and the quota of the files in them.  A request is *)
(* a series of statements, each committed on its own: the folder and the   *)
(* quota are looked at, folders of the path are made, and the row of the   *)
(* file is inserted; a deletion selects a subtree, moves its files to the  *)
(* recycle bin and removes its folders.  Other requests of the user run    *)
(* between any two statements, and a statement may fail.                   *)
(*                                                                         *)
(* Users share nothing here, so there is one.  A file that is uploading,   *)
(* stored or shared by content counts alike; what becomes of its bytes is  *)
(* in FileLifecycle.                                                       *)
(***************************************************************************)
EXTENDS Naturals, FiniteSetsExt, SequencesExt

CONSTANTS
    Threads,        \* requests under way at a time
    Names,          \* of folders, sanitized
    Like,           \* pairs of names of which the first, as a pattern of LIKE,
                    \* matches the second
    Sizes,          \* of files
    Quota,          \* quotaBytes of the user's service level
    MaxFolders,     \* bound: folders ever created
    MaxFiles,       \* bound: files ever uploaded
    MaxDepth,       \* bound: length of a path
    MaxRequests     \* bound: requests of more than one statement

ASSUME StorageAssumption ==
    /\ IsFiniteSet(Threads) /\ Threads # {}
    /\ Like \subseteq Names \X Names
    /\ \A n \in Names : <<n, n>> \in Like
    /\ Sizes \subseteq Nat \ {0}
    /\ \E largest \in Sizes : \A size \in Sizes : size <= largest
    /\ Quota \in Nat /\ MaxFolders \in Nat /\ MaxFiles \in Nat /\ MaxDepth \in Nat
    /\ MaxRequests \in Nat

VARIABLES
    folders,    \* rows of the table folders
    lastId,     \* last id given to a folder
    files,      \* rows of the user's files, by id
    pc, job,    \* the requests under way
    started,    \* number of requests that began
    crossed,    \* history: requests under way together with a deletion
    loose,      \* history: rows made by crossed requests, and files that were
                \* in the recycle bin
    unchecked   \* history: files let in without a quota, and files that were
                \* in the recycle bin

tables == <<folders, lastId, files>>
storageVars == <<tables, pc, job, started, unchecked, crossed, loose>>

Root == 0       \* parent_id or folder_id NULL

FolderRows == [id: 1..MaxFolders, parent: 0..MaxFolders, path: Seq(Names)]

\* is_deleted: rows of the recycle bin and purged ones may all be restored.
FileRows == [size: Sizes, folder: 0..MaxFolders, deleted: BOOLEAN]

NoJob == [op |-> "none", asked |-> Root, folder |-> Root, path |-> << >>,
          todo |-> << >>, size |-> 0, checked |-> TRUE, ids |-> {}]

IsFolder(d) == \E row \in folders : row.id = d

Row(d) == CHOOSE row \in folders : row.id = d

Live == {f \in DOMAIN files : ~files[f].deleted}

BytesOf(S) == SumFunctionOnSet([f \in DOMAIN files |-> files[f].size], S)

(***************************************************************************)
(* What the listing of a folder shows: subfolders, files, and the folders  *)
(* whose paths begin its own.                                              *)
(***************************************************************************)
FoldersIn(d) == {row \in folders : row.parent = d}

FilesIn(d) == {f \in Live : files[f].folder = d}

Breadcrumbs(row) == {up \in folders : IsPrefix(up.path, row.path)}

-----------------------------------------------------------------------------
Jobs == [op: {"none", "upload", "create", "delete"}, asked: 0..MaxFolders,
         folder: 0..MaxFolders, path: Seq(Names), todo: Seq(Names),
         size: Sizes \union {0}, checked: BOOLEAN, ids: SUBSET (1..MaxFolders)]

StorageTypeOK ==
    /\ folders \subseteq FolderRows
    /\ \A row \in folders : row.id <= lastId /\ Len(row.path) \in 1..MaxDepth
    /\ \A row, other \in folders : row.path = other.path \/ row.id = other.id => row = other
    /\ lastId \in 0..MaxFolders
    /\ files \in Seq(FileRows) /\ Len(files) <= MaxFiles
    /\ pc \in [Threads -> {"idle", "quota", "base", "segment", "insert",
                           "select", "files", "folders"}]
    /\ job \in [Threads -> Jobs]
    /\ started \in 0..MaxRequests
    /\ unchecked \subseteq DOMAIN files
    /\ crossed \subseteq Threads
    /\ loose \subseteq ({"file"} \X DOMAIN files) \union ({"folder"} \X (1..lastId))

StorageInit ==
    /\ folders = {} /\ lastId = 0
    /\ files = << >>
    /\ pc = [t \in Threads |-> "idle"]
    /\ job = [t \in Threads |-> NoJob]
    /\ started = 0
    /\ unchecked = {} /\ crossed = {} /\ loose = {}

Goto(t, where) == pc' = [pc EXCEPT ![t] = where]

Done(t) ==
    /\ Goto(t, "idle")
    /\ job' = [job EXCEPT ![t] = NoJob]
    /\ crossed' = crossed \ {t}

Deleting == {t \in Threads : job[t].op = "delete"}
Making == {t \in Threads : job[t].op \in {"upload", "create"}}

-----------------------------------------------------------------------------
(***************************************************************************)
(* Uploads and new folders (handleFileUpload, handleCreateFolder).  A      *)
(* request begins with folderExists and ends there when it says no.        *)
(***************************************************************************)
Start(t, d, newJob, where) ==
    /\ pc[t] = "idle"
    /\ started < MaxRequests
    /\ d = Root \/ IsFolder(d)
    /\ started' = started + 1
    /\ job' = [job EXCEPT ![t] = newJob]
    /\ Goto(t, where)
    /\ crossed' = IF Deleting # {} THEN crossed \union {t} ELSE crossed
    /\ UNCHANGED <<tables, unchecked, loose>>

StartUpload(t, d, segments, size) ==
    Start(t, d, [NoJob EXCEPT !.op = "upload", !.asked = d, !.todo = segments,
                              !.size = size], "quota")

StartCreate(t, d, name) ==
    Start(t, d, [NoJob EXCEPT !.op = "create", !.asked = d, !.todo = <<name>>], "base")

\* Mutant of CheckQuota: the size of the file is not added.
CheckQuotaBefore(t) ==
    /\ pc[t] = "quota"
    /\ \/ /\ BytesOf(Live) <= Quota
          /\ Goto(t, "base")
          /\ UNCHANGED <<job, crossed>>
       \/ /\ BytesOf(Live) > Quota
          /\ Done(t)
    /\ UNCHANGED <<tables, started, unchecked, loose>>

\* canUploadFile.  A query that fails counts as an empty account.
CheckQuota(t) ==
    /\ pc[t] = "quota"
    /\ \/ /\ BytesOf(Live) + job[t].size <= Quota
          /\ Goto(t, "base")
          /\ UNCHANGED <<job, crossed>>
       \/ /\ BytesOf(Live) + job[t].size > Quota
          /\ Done(t)
       \/ /\ job[t].size <= Quota
          /\ Goto(t, "base")
          /\ job' = [job EXCEPT ![t].checked = FALSE]
          /\ UNCHANGED crossed
    /\ UNCHANGED <<tables, started, unchecked, loose>>

(***************************************************************************)
(* ensureFolderPath: the base folder is read, then each segment inserted   *)
(* unless a folder of that path exists.  When it returns 0 no folder is    *)
(* made, and a file that was meant for a folder goes to the root; one that *)
(* was meant for a path of the root is refused.                            *)
(***************************************************************************)
ReturnsZero(t) ==
    \/ /\ job[t].op = "upload" /\ job[t].asked # Root
       /\ job' = [job EXCEPT ![t].folder = Root, ![t].todo = << >>]
       /\ Goto(t, "insert")
       /\ UNCHANGED crossed
    \/ /\ job[t].op = "create" \/ job[t].asked = Root
       /\ Done(t)

\* Where a request goes when it has the id of the folder of its path so far.
AfterSegments(t, todo) ==
    Goto(t, IF todo # << >> THEN "segment" ELSE "insert")

ReadBase(t) ==
    LET d == job[t].asked IN
    /\ pc[t] = "base"
    /\ \/ /\ d = Root \/ IsFolder(d)
          /\ job' = [job EXCEPT ![t].folder = d,
                                ![t].path = IF d = Root THEN << >> ELSE Row(d).path]
          /\ AfterSegments(t, job[t].todo)
          /\ UNCHANGED crossed
       \/ /\ d # Root
          /\ ReturnsZero(t)
    /\ UNCHANGED <<tables, started, unchecked, loose>>

\* The row that the key uniq_user_path_hash finds.
SamePath(path) == {row \in folders : row.path = path}

EnsureSegment(t) ==
    LET path == Append(job[t].path, Head(job[t].todo))
        same == SamePath(path)
        rest == Tail(job[t].todo)
        Continue(id) ==
            IF job[t].op = "create" THEN Done(t)
            ELSE /\ job' = [job EXCEPT ![t].folder = id, ![t].path = path,
                                       ![t].todo = rest]
                 /\ AfterSegments(t, rest)
                 /\ UNCHANGED crossed
    IN
    /\ pc[t] = "segment"
    /\ Len(path) <= MaxDepth
    /\ \/ \E row \in same :
            /\ Continue(row.id)
            /\ UNCHANGED <<folders, lastId, loose>>
       \/ /\ same = {}
          /\ lastId < MaxFolders
          /\ lastId' = lastId + 1
          /\ folders' = folders \union
                {[id |-> lastId + 1, parent |-> job[t].folder, path |-> path]}
          /\ loose' = IF t \in crossed THEN loose \union {<<"folder", lastId + 1>>}
                      ELSE loose
          /\ Continue(lastId + 1)
    /\ UNCHANGED <<files, started, unchecked>>

SegmentFails(t) ==
    /\ pc[t] = "segment"
    /\ ReturnsZero(t)
    /\ UNCHANGED <<tables, started, unchecked, loose>>

InsertFile(t) ==
    LET f == Len(files) + 1 IN
    /\ pc[t] = "insert"
    /\ f <= MaxFiles
    /\ files' = Append(files, [size |-> job[t].size, folder |-> job[t].folder,
                               deleted |-> FALSE])
    /\ unchecked' = IF job[t].checked THEN unchecked ELSE unchecked \union {f}
    /\ loose' = IF t \in crossed THEN loose \union {<<"file", f>>} ELSE loose
    /\ Done(t)
    /\ UNCHANGED <<folders, lastId, started>>

-----------------------------------------------------------------------------
(***************************************************************************)
(* A folder is deleted with all below it (handleDeleteFolder).  What is    *)
(* below is what full_path LIKE the folder's path and "/%" selects, in     *)
(* which the names of the path are patterns.                               *)
(***************************************************************************)
Below(pattern, path) ==
    /\ Len(path) > Len(pattern)
    /\ \A i \in DOMAIN pattern : <<pattern[i], path[i]>> \in Like

StartDelete(t, d) ==
    /\ pc[t] = "idle"
    /\ started < MaxRequests
    /\ IsFolder(d)
    /\ started' = started + 1
    /\ job' = [job EXCEPT ![t] = [NoJob EXCEPT !.op = "delete", !.asked = d,
                                               !.path = Row(d).path]]
    /\ Goto(t, "select")
    /\ crossed' = crossed \union Making
    /\ UNCHANGED <<tables, unchecked, loose>>

\* Mutant of Selected: the folder without what is below it.
SelectedAlone(t) == {row.id : row \in {r \in folders : r.id = job[t].asked}}

Selected(t) ==
    {row.id : row \in {r \in folders : r.id = job[t].asked \/ Below(job[t].path, r.path)}}

SelectFolders(t) ==
    /\ pc[t] = "select"
    /\ \/ /\ Selected(t) # {}
          /\ job' = [job EXCEPT ![t].ids = Selected(t)]
          /\ Goto(t, "files")
          /\ UNCHANGED crossed
       \/ /\ Selected(t) = {}
          /\ Done(t)
    /\ UNCHANGED <<tables, started, unchecked, loose>>

\* Mutant of DeleteFiles: the files of the subfolders stay.
DeleteFilesOfFolder(t) ==
    LET gone == FilesIn(job[t].asked) IN
    /\ pc[t] = "files"
    /\ files' = [f \in DOMAIN files |->
            IF f \in gone
              THEN [files[f] EXCEPT !.deleted = TRUE, !.folder = Root]
              ELSE files[f]]
    /\ unchecked' = unchecked \union gone
    /\ loose' = loose \union ({"file"} \X gone)
    /\ Goto(t, "folders")
    /\ UNCHANGED <<folders, lastId, job, started, crossed>>

DeleteFiles(t) ==
    LET gone == UNION {FilesIn(d) : d \in job[t].ids} IN
    /\ pc[t] = "files"
    /\ files' = [f \in DOMAIN files |->
            IF f \in gone
              THEN [files[f] EXCEPT !.deleted = TRUE, !.folder = Root]
              ELSE files[f]]
    /\ unchecked' = unchecked \union gone
    /\ loose' = loose \union ({"file"} \X gone)
    /\ Goto(t, "folders")
    /\ UNCHANGED <<folders, lastId, job, started, crossed>>

DeleteFolders(t) ==
    /\ pc[t] = "folders"
    /\ folders' = {row \in folders : row.id \notin job[t].ids}
    /\ Done(t)
    /\ UNCHANGED <<lastId, files, started, unchecked, loose>>

\* A statement fails, or no node takes the file: the answer is an error.
GiveUp(t) ==
    /\ pc[t] \in {"insert", "select", "files", "folders"}
    /\ Done(t)
    /\ UNCHANGED <<tables, started, unchecked, loose>>

-----------------------------------------------------------------------------
(***************************************************************************)
(* Requests of one statement (handleDeleteFile, handleBatchDelete,         *)
(* handleRestoreFile).  A restored file keeps its folder_id, and no quota  *)
(* is asked.  handleHardDelete changes nothing of this: what it purged may *)
(* be restored until the collector takes it.                               *)
(***************************************************************************)
Recycle(f) ==
    /\ f \in Live
    /\ files' = [files EXCEPT ![f].deleted = TRUE]
    /\ unchecked' = unchecked \union {f}
    /\ loose' = loose \union {<<"file", f>>}
    /\ UNCHANGED <<folders, lastId, pc, job, started, crossed>>

Restore(f) ==
    /\ f \notin Live
    /\ files' = [files EXCEPT ![f].deleted = FALSE]
    /\ UNCHANGED <<folders, lastId, pc, job, started, crossed, unchecked, loose>>

Request(t) ==
    \/ \E d \in 0..lastId :
        \/ \E segments \in {<< >>} \union {<<n>> : n \in Names}, size \in Sizes :
                StartUpload(t, d, segments, size)
        \/ \E n \in Names : StartCreate(t, d, n)
        \/ StartDelete(t, d)
    \/ CheckQuota(t) \/ ReadBase(t)
    \/ EnsureSegment(t) \/ SegmentFails(t) \/ InsertFile(t)
    \/ SelectFolders(t) \/ DeleteFiles(t) \/ DeleteFolders(t)
    \/ GiveUp(t)

StorageNext ==
    \/ \E t \in Threads : Request(t)
    \/ \E f \in DOMAIN files : Recycle(f) \/ Restore(f)

StorageSpec == StorageInit /\ [][StorageNext]_storageVars

-----------------------------------------------------------------------------
(***************************************************************************)
(* The quota is looked at long before the file is inserted (FileHandler.cc *)
(* 681 and 809), so requests under way together may pass it: by no more    *)
(* than the files of all of them but one.  Restored files, and files let   *)
(* in when the query failed, come on top.                                  *)
(***************************************************************************)
Largest == Max(Sizes)

QuotaExceededByRequests ==
    BytesOf(Live \ unchecked) <= Quota + (Cardinality(Threads) - 1) * Largest

(***************************************************************************)
(* A live file is found by browsing, that is in the listing of the root or *)
(* of a folder that exists, unless it was inserted by a request that was   *)
(* under way together with a deletion of a folder, or came back from the   *)
(* recycle bin after its folder had gone (handleDeleteFolder,              *)
(* handleRestoreFile).                                                     *)
(***************************************************************************)
FilesFound ==
    \A f \in Live :
        \/ f \in FilesIn(Root) \/ \E row \in folders : f \in FilesIn(row.id)
        \/ <<"file", f>> \in loose

(***************************************************************************)
(* A folder is found by browsing too: it is in the listing of a folder     *)
(* that its breadcrumbs show, unless it was made by a request that was     *)
(* under way together with a deletion (ensureFolderPath writes parent_id   *)
(* and full_path from what it read before).                                *)
(***************************************************************************)
FoldersFound ==
    \A row \in folders :
        \/ row \in FoldersIn(Root) /\ Breadcrumbs(row) = {row}
        \/ \E up \in Breadcrumbs(row) \ {row} :
                row \in FoldersIn(up.id) /\ Len(up.path) = Len(row.path) - 1
        \/ <<"folder", row.id>> \in loose
=============================================================================
