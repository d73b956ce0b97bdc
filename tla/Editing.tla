-------------------------------- MODULE Editing --------------------------------
(***************************************************************************)
(* Editing a text file on a DataNode while it is downloaded, prefetched    *)
(* and warmed up.  An edit writes a temporary file and renames it; a       *)
(* rollback to the snapshot and the merge of an experiment copy over the   *)
(* file in place; then invalidateFile drops the cached blocks of the file. *)
(* Requests run on many I/O loops, and nothing excludes one another.       *)
(*                                                                         *)
(* An inode is modelled by the content each of its blocks comes from, or   *)
(* Hole past its end.  The cache is modelled by the content of its blocks; *)
(* PrefetchCache has its locks, counters and evictions.                    *)
(***************************************************************************)
EXTENDS Naturals

CONSTANTS
    Editors,        \* requests that change the file, at a time
    Readers,        \* downloads and prefetching jobs, at a time
    Sources,        \* the snapshot and the experiments of the file
    Contents,       \* contents of the file
    LastBlock,      \* blocks are 1..LastBlock
    Length,         \* number of blocks of each content
    Inodes          \* bound: inodes in use at a time

ASSUME EditingAssumption ==
    /\ LastBlock \in Nat \ {0}
    /\ Length \in [Contents -> 1..LastBlock]
    /\ "hole" \notin Contents /\ "none" \notin Inodes
    /\ Sources \intersect {"file", "tmp"} = {}

VARIABLES
    dir,            \* the inode of each name, or NoInode
    disk,           \* the blocks of each inode
    pc, job,        \* where each request is, and its descriptors and data
    reader,         \* each reader: where it is, its descriptor, block and data
    cache,          \* content of each cached block of the file
    loading,        \* blocks marked as being loaded
    late,           \* history: readers that were open when the file changed
    excused,        \* history: cached blocks that a late reader put, or that a
                    \* request left behind that changed the file and failed
    hurt            \* history: inodes on which a write failed or was cut off by
                    \* a crash, that two requests had in hand at a time, or that
                    \* were copied from such an inode

fileVars == <<dir, disk>>
requestVars == <<pc, job>>
readVars == <<reader, cache, loading>>
historyVars == <<late, excused, hurt>>
editingVars == <<fileVars, requestVars, readVars, historyVars>>

Blocks == 1..LastBlock
NoInode == "none"
Hole == "hole"
File == "file"
Tmp == "tmp"
Names == {File, Tmp} \union Sources
Bytes == [Blocks -> Contents \union {Hole}]
Empty == [b \in Blocks |-> Hole]

Content(c) == [b \in Blocks |-> IF b <= Length[c] THEN c ELSE Hole]
Whole(bytes) == \E c \in Contents : bytes = Content(c)

NoJob == [to |-> NoInode, from |-> NoInode, bytes |-> Empty, todo |-> {}]
NoReader == [at |-> "idle", fd |-> NoInode, block |-> 1, data |-> Hole]

Jobs == [to: Inodes \union {NoInode}, from: Inodes \union {NoInode}, bytes: Bytes,
         todo: SUBSET Blocks]
ReaderStates == [at: {"idle", "get", "missed", "mark", "load", "loaded"},
                 fd: Inodes \union {NoInode}, block: Blocks,
                 data: Contents \union {Hole}]

EditingTypeOK ==
    /\ dir \in [Names -> Inodes \union {NoInode}]
    /\ dir[File] # NoInode
    /\ \A m, n \in Names : m # n /\ dir[m] # NoInode => dir[m] # dir[n]
    /\ disk \in [Inodes -> Bytes]
    /\ pc \in [Editors -> {"idle", "opened", "written", "copying", "saving",
                           "changed"}]
    /\ job \in [Editors -> Jobs]
    /\ reader \in [Readers -> ReaderStates]
    /\ cache \in [Blocks -> Contents \union {Hole}]
    /\ loading \subseteq Blocks
    /\ late \subseteq Readers
    /\ excused \subseteq Blocks
    /\ hurt \subseteq Inodes

EditingInit ==
    /\ \E i \in Inodes, c \in Contents :
          /\ dir = [n \in Names |-> IF n = File THEN i ELSE NoInode]
          /\ disk = [j \in Inodes |-> IF j = i THEN Content(c) ELSE Empty]
    /\ pc = [e \in Editors |-> "idle"]
    /\ job = [e \in Editors |-> NoJob]
    /\ reader = [r \in Readers |-> NoReader]
    /\ cache = [b \in Blocks |-> Hole]
    /\ loading = {}
    /\ late = {} /\ excused = {} /\ hurt = {}

-----------------------------------------------------------------------------
(* The file system.                                                        *)

\* An inode without a name or a descriptor is freed.
Used(d, j, r) ==
    {d[n] : n \in Names} \union {j[e].to : e \in Editors}
        \union {j[e].from : e \in Editors} \union {r[s].fd : s \in Readers}

Keep(bytes, damaged) ==
    LET used == Used(dir', job', reader')
    IN /\ disk' = [i \in Inodes |-> IF i \in used THEN bytes[i] ELSE Empty]
       /\ hurt' = damaged \intersect used

Free == Inodes \ Used(dir, job, reader)

\* An open for writing: the file that has the name, or a new one.
Opens(n, i) ==
    IF dir[n] = NoInode THEN i \in Free ELSE i = dir[n]

\* What a write of bytes from the start of an inode leaves there.
Over(old, bytes) == [b \in Blocks |-> IF bytes[b] = Hole THEN old[b] ELSE bytes[b]]

\* A request has begun to write to the inode, and may not have renamed it yet.
InHand(i) ==
    \E e \in Editors :
        pc[e] \in {"opened", "written", "copying", "saving"} /\ job[e].to = i

Doubtful(i) == i \in hurt \/ InHand(i)

\* ios::trunc
Truncated(i) ==
    Keep([disk EXCEPT ![i] = Empty],
         IF InHand(i) THEN hurt \union {i} ELSE hurt \ {i})

Goto(e, state, j) ==
    /\ pc' = [pc EXCEPT ![e] = state]
    /\ job' = [job EXCEPT ![e] = j]

Open == {r \in Readers : reader[r].at # "idle"}

\* The bytes of the file change under the readers.
Changes(really) == late' = IF really THEN late \union Open ELSE late

\* A request ends with an error although it may have changed the file: what is
\* cached stays cached.
Unannounced(really) ==
    excused' = IF really THEN excused \union {b \in Blocks : cache[b] # Hole}
                         ELSE excused

-----------------------------------------------------------------------------
(* handleTextEdit                                                          *)

\* Mutant of OpenTmp: what an interrupted edit left is not truncated.
OpenTmpAppended(e, c) ==
    /\ pc[e] = "idle"
    /\ \E i \in Inodes :
          /\ Opens(Tmp, i)
          /\ dir' = [dir EXCEPT ![Tmp] = i]
          /\ Goto(e, "opened", [NoJob EXCEPT !.to = i, !.bytes = Content(c)])
          /\ UNCHANGED reader
          /\ Keep(disk, IF InHand(i) THEN hurt \union {i} ELSE hurt \ {i})
    /\ UNCHANGED <<cache, loading, late, excused>>

\* Every edit of the file uses the same temporary file.
OpenTmp(e, c) ==
    /\ pc[e] = "idle"
    /\ \E i \in Inodes :
          /\ Opens(Tmp, i)
          /\ dir' = [dir EXCEPT ![Tmp] = i]
          /\ Goto(e, "opened", [NoJob EXCEPT !.to = i, !.bytes = Content(c)])
          /\ UNCHANGED reader
          /\ Truncated(i)
    /\ UNCHANGED <<cache, loading, late, excused>>

\* A write that fails is not noticed: the stream is not looked at again.
WriteTmp(e) ==
    /\ pc[e] = "opened"
    /\ LET i == job[e].to
       IN /\ Goto(e, "written", [NoJob EXCEPT !.to = i])
          /\ \/ /\ disk' = [disk EXCEPT ![i] = Over(@, job[e].bytes)]
                /\ UNCHANGED hurt
             \/ /\ hurt' = hurt \union {i}
                /\ UNCHANGED disk
          /\ Changes(i = dir[File])
    /\ UNCHANGED <<dir, readVars, excused>>

\* The temporary file that is renamed may be the one another edit has just opened.
Unfinished ==
    {i \in Inodes : i = dir[Tmp] /\ \E x \in Editors : pc[x] = "opened" /\ job[x].to = i}

RenameTmp(e) ==
    /\ pc[e] = "written"
    /\ dir[Tmp] # NoInode
    /\ dir' = [dir EXCEPT ![File] = dir[Tmp], ![Tmp] = NoInode]
    /\ Goto(e, "changed", [NoJob EXCEPT !.todo = Blocks])
    /\ UNCHANGED reader
    /\ Keep(disk, hurt \union Unfinished)
    /\ Changes(TRUE)
    /\ UNCHANGED <<cache, loading, excused>>

\* Another edit has taken the temporary file; this one answers with an error,
\* whether or not it has written to what is the file by now.
RenameFails(e) ==
    /\ pc[e] = "written"
    /\ dir[Tmp] = NoInode
    /\ Goto(e, "idle", NoJob)
    /\ UNCHANGED <<dir, reader>>
    /\ Keep(disk, hurt)
    /\ Unannounced(job[e].to = dir[File])
    /\ UNCHANGED <<cache, loading, late>>

-----------------------------------------------------------------------------
(* handleTextRollback, and the merge in handleTextExperiment: copy_file,   *)
(* which truncates the file first.                                         *)

BeginCopy(e, s) ==
    /\ pc[e] = "idle"
    /\ dir[s] # NoInode
    /\ Goto(e, "copying", [NoJob EXCEPT !.to = dir[File], !.from = dir[s]])
    /\ UNCHANGED <<dir, reader>>
    /\ Truncated(dir[File])
    /\ Changes(TRUE)
    /\ UNCHANGED <<cache, loading, excused>>

\* Mutant of EndCopy: the cached blocks are left.
EndCopyQuietly(e) ==
    /\ pc[e] = "copying"
    /\ LET i == job[e].to
           j == job[e].from
       IN /\ Goto(e, "idle", NoJob)
          /\ UNCHANGED <<dir, reader>>
          /\ Keep([disk EXCEPT ![i] = Over(@, disk[j])],
                  IF Doubtful(j) THEN hurt \union {i} ELSE hurt)
          /\ Changes(i = dir[File])
    /\ UNCHANGED <<cache, loading, excused>>

EndCopy(e) ==
    /\ pc[e] = "copying"
    /\ LET i == job[e].to
           j == job[e].from
       IN /\ Goto(e, "changed", [NoJob EXCEPT !.todo = Blocks])
          /\ UNCHANGED <<dir, reader>>
          /\ Keep([disk EXCEPT ![i] = Over(@, disk[j])],
                  IF Doubtful(j) THEN hurt \union {i} ELSE hurt)
          /\ Changes(i = dir[File])
    /\ UNCHANGED <<cache, loading, excused>>

\* copy_file throws: the file stays truncated, the cached blocks stay cached.
CopyFails(e) ==
    /\ pc[e] = "copying"
    /\ Goto(e, "idle", NoJob)
    /\ UNCHANGED <<dir, reader>>
    /\ Keep(disk, hurt \union {job[e].to})
    /\ Unannounced(TRUE)
    /\ UNCHANGED <<cache, loading, late>>

\* invalidateFile, by an edit, a rollback or a merge, shard by shard.
InvalidateBlock(e, b) ==
    /\ pc[e] = "changed"
    /\ b \in job[e].todo
    /\ cache' = [cache EXCEPT ![b] = Hole]
    /\ loading' = loading \ {b}
    /\ excused' = excused \ {b}
    /\ LET rest == job[e].todo \ {b}
       IN Goto(e, IF rest = {} THEN "idle" ELSE "changed",
               [job[e] EXCEPT !.todo = rest])
    /\ UNCHANGED <<fileVars, reader, late, hurt>>

-----------------------------------------------------------------------------
(* handleTextSnapshot, and an experiment that is created or saved: written *)
(* in place, with the text of the request or what the file holds.          *)

BeginSave(e, s, bytes) ==
    /\ pc[e] = "idle"
    /\ \E i \in Inodes :
          /\ Opens(s, i)
          /\ dir' = [dir EXCEPT ![s] = i]
          /\ Goto(e, "saving", [NoJob EXCEPT !.to = i, !.bytes = bytes])
          /\ UNCHANGED reader
          /\ Keep([disk EXCEPT ![i] = Empty],
                  IF InHand(i) \/ (~Whole(bytes) /\ Doubtful(dir[File]))
                    THEN hurt \union {i} ELSE hurt \ {i})
    /\ UNCHANGED <<cache, loading, late, excused>>

EndSave(e) ==
    /\ pc[e] = "saving"
    /\ LET i == job[e].to
       IN /\ Goto(e, "idle", NoJob)
          /\ UNCHANGED <<dir, reader>>
          /\ \/ Keep([disk EXCEPT ![i] = Over(@, job[e].bytes)], hurt)
             \/ Keep(disk, hurt \union {i})
    /\ UNCHANGED <<cache, loading, late, excused>>

Discard(s) ==
    /\ dir[s] # NoInode
    /\ dir' = [dir EXCEPT ![s] = NoInode]
    /\ UNCHANGED <<job, reader>>
    /\ Keep(disk, hurt)
    /\ UNCHANGED <<pc, cache, loading, late, excused>>

-----------------------------------------------------------------------------
(* FileDownContext, schedulePrefetchWindow and scheduleHotCacheWarmup.     *)

\* Each opens the file once and keeps the descriptor; a download may begin at
\* any block, and what it prefetches as well.
BeginRead(r, at, b) ==
    /\ reader[r].at = "idle"
    /\ reader' = [reader EXCEPT ![r] = [at |-> at, fd |-> dir[File], block |-> b,
                                        data |-> Hole]]
    /\ UNCHANGED <<fileVars, requestVars, cache, loading, historyVars>>

Closes(r) ==
    /\ reader' = [reader EXCEPT ![r] = NoReader]
    /\ late' = late \ {r}
    /\ UNCHANGED <<dir, job>>
    /\ Keep(disk, hurt)

\* The next block, or the end.
Advances(r, at) ==
    IF reader[r].block = LastBlock
      THEN Closes(r)
      ELSE /\ reader' = [reader EXCEPT ![r].at = at, ![r].block = @ + 1,
                                       ![r].data = Hole]
           /\ UNCHANGED <<fileVars, job, late, hurt>>

\* A download is closed, its file is at its end, or nothing is admitted.
EndRead(r) ==
    /\ reader[r].at \in {"get", "mark"}
    /\ Closes(r)
    /\ UNCHANGED <<pc, cache, loading, excused>>

\* readNextChunk
Hit(r) ==
    /\ reader[r].at = "get"
    /\ cache[reader[r].block] # Hole
    /\ Advances(r, "get")
    /\ UNCHANGED <<pc, cache, loading, excused>>

Miss(r) ==
    /\ reader[r].at = "get"
    /\ cache[reader[r].block] = Hole
    /\ LET data == disk[reader[r].fd][reader[r].block]
       IN IF data = Hole
          THEN Closes(r)
          ELSE /\ reader' = [reader EXCEPT ![r].at = "missed", ![r].data = data]
               /\ UNCHANGED <<fileVars, job, late, hurt>>
    /\ UNCHANGED <<pc, cache, loading, excused>>

\* tryMarkLoading
Mark(r) ==
    /\ reader[r].at = "mark"
    /\ LET b == reader[r].block
       IN IF cache[b] # Hole \/ b \in loading
          THEN Advances(r, "mark") /\ UNCHANGED loading
          ELSE /\ loading' = loading \union {b}
               /\ reader' = [reader EXCEPT ![r].at = "load"]
               /\ UNCHANGED <<fileVars, job, late, hurt>>
    /\ UNCHANGED <<pc, cache, excused>>

\* The read of a prefetch or a warm-up; cancelLoading past the end, where a
\* warm-up ends and a prefetch goes on.
Load(r) ==
    /\ reader[r].at = "load"
    /\ LET b == reader[r].block
           data == disk[reader[r].fd][b]
       IN IF data = Hole
          THEN /\ loading' = loading \ {b}
               /\ Closes(r) \/ Advances(r, "mark")
          ELSE /\ reader' = [reader EXCEPT ![r].at = "loaded", ![r].data = data]
               /\ UNCHANGED <<fileVars, job, loading, late, hurt>>
    /\ UNCHANGED <<pc, cache, excused>>

\* The put of a block, whoever has read it.
Put(r) ==
    /\ reader[r].at \in {"missed", "loaded"}
    /\ LET b == reader[r].block
       IN /\ cache' = [cache EXCEPT ![b] = reader[r].data]
          /\ loading' = loading \ {b}
          /\ excused' = IF r \in late THEN excused \union {b} ELSE excused \ {b}
    /\ Advances(r, IF reader[r].at = "missed" THEN "get" ELSE "mark")
    /\ UNCHANGED pc

\* Expired or evicted.
Forget(b) ==
    /\ cache[b] # Hole
    /\ cache' = [cache EXCEPT ![b] = Hole]
    /\ excused' = excused \ {b}
    /\ UNCHANGED <<fileVars, requestVars, reader, loading, late, hurt>>

-----------------------------------------------------------------------------
\* The DataNode stops and starts again: a copy or a save is cut off.
Crash ==
    /\ pc' = [e \in Editors |-> "idle"]
    /\ job' = [e \in Editors |-> NoJob]
    /\ reader' = [r \in Readers |-> NoReader]
    /\ cache' = [b \in Blocks |-> Hole]
    /\ loading' = {} /\ late' = {} /\ excused' = {}
    /\ UNCHANGED dir
    /\ Keep(disk, hurt \union {job[e].to : e \in
                          {x \in Editors : pc[x] \in {"copying", "saving"}}})

-----------------------------------------------------------------------------
Edit(e) ==
    \/ \E c \in Contents : OpenTmp(e, c)
    \/ WriteTmp(e) \/ RenameTmp(e) \/ RenameFails(e)
    \/ \E s \in Sources : BeginCopy(e, s)
    \/ EndCopy(e) \/ CopyFails(e)
    \/ \E b \in Blocks : InvalidateBlock(e, b)
    \/ \E s \in Sources, bytes \in {Content(c) : c \in Contents}
                                      \union {disk[dir[File]]} :
          BeginSave(e, s, bytes)
    \/ EndSave(e)

Read(r) ==
    \/ \E at \in {"get", "mark"}, b \in Blocks : BeginRead(r, at, b)
    \/ EndRead(r) \/ Hit(r) \/ Miss(r) \/ Mark(r) \/ Load(r) \/ Put(r)

EditingNext ==
    \/ \E e \in Editors : Edit(e)
    \/ \E r \in Readers : Read(r)
    \/ \E s \in Sources : Discard(s)
    \/ \E b \in Blocks : Forget(b)
    \/ Crash

EditingSpec == EditingInit /\ [][EditingNext]_editingVars

-----------------------------------------------------------------------------
(* Safety.                                                                 *)

\* Between its first and its last step a request may have changed the file and
\* not yet dropped the blocks cached before.
Changing(e) ==
    \/ pc[e] \in {"copying", "changed"}
    \/ pc[e] = "written" /\ job[e].to = dir[File]

\* A cached block holds what the file holds, but while a request is changing
\* the file, or for a reason: a reader put it whose descriptor is older than
\* the last change, or a request failed after it had changed the file.
CachedIsCurrent ==
    \A b \in Blocks :
        \/ cache[b] \in {Hole, disk[dir[File]][b]}
        \/ b \in excused
        \/ \E e \in Editors : Changing(e)

\* The file holds one whole content, crashes or not, but while it is copied
\* over in place, and unless a write failed, an in-place copy was cut off, or
\* two requests wrote to the same file.
SavesAreWhole ==
    \/ Whole(disk[dir[File]])
    \/ dir[File] \in hurt
    \/ \E e \in Editors : pc[e] = "copying" /\ job[e].to = dir[File]

=============================================================================
