------------------------ MODULE FileLifecycleProofs ------------------------
(***************************************************************************)
(* Theorems about FileLifecycle, for any sets of rows and users.           *)
(***************************************************************************)
EXTENDS FileLifecycle, TLAPS

\* Every variable keeps its type.
THEOREM TypeCorrect == Spec => []TypeOK
<1>1. Init => TypeOK
  BY DEF Init, TypeOK, Statuses, NoReport
<1>2. TypeOK /\ [Next]_vars => TypeOK'
  <2> SUFFICES ASSUME TypeOK, [Next]_vars
               PROVE  TypeOK'
    OBVIOUS
  <2> USE DEF TypeOK, Statuses, rowVars, nodeVars, gcVars
  <2>1. ASSUME NEW r \in Rows, UploadStep(r)
        PROVE  TypeOK'
    <3>1. CASE RequestUpload(r)
      BY <3>1 DEF RequestUpload, InsertUploading
    <3>2. CASE InstantLookup(r)
      BY <3>2, FileLifecycleAssumption DEF InstantLookup, InstantHits
    <3>3. CASE InsertInstant(r)
      BY <3>3 DEF InsertInstant
    <3>4. CASE InsertFallsThrough(r)
      BY <3>4 DEF InsertFallsThrough, InsertUploading
    <3>5. CASE BeginUpload(r)
      BY <3>5 DEF BeginUpload
    <3>6. CASE CompleteUpload(r)
      BY <3>6 DEF CompleteUpload
    <3>7. CASE AbortUpload(r)
      BY <3>7 DEF AbortUpload
    <3>8. CASE AgeOut(r)
      BY <3>8 DEF AgeOut
    <3>9. CASE DeliverNotice(r)
      BY <3>9 DEF DeliverNotice
    <3>10. CASE LoseNotice(r)
      BY <3>10 DEF LoseNotice
    <3> QED
      BY <2>1, <3>1, <3>2, <3>3, <3>4, <3>5, <3>6, <3>7, <3>8, <3>9, <3>10
         DEF UploadStep
  <2>2. CASE UserStep
    <3>1. ASSUME NEW S \in SUBSET Rows, Recycle(S)
          PROVE  TypeOK'
      BY <3>1 DEF Recycle
    <3>2. ASSUME NEW r \in Rows, RestoreFile(r)
          PROVE  TypeOK'
      BY <3>2 DEF RestoreFile
    <3>3. ASSUME NEW r \in Rows, HardDelete(r)
          PROVE  TypeOK'
      BY <3>3 DEF HardDelete, Purge, InBin
    <3>4. ASSUME NEW u \in Users, NEW S \in SUBSET Rows, BatchHardDelete(u, S)
          PROVE  TypeOK'
      BY <3>4 DEF BatchHardDelete, Purge, InBin
    <3> QED
      BY <2>2, <3>1, <3>2, <3>3, <3>4
         DEF UserStep, DeleteByName, BatchDelete, OwnLive
  <2>3. ASSUME NEW S \in SUBSET Rows, ExpireRecycleBin(S)
        PROVE  TypeOK'
    BY <2>3 DEF ExpireRecycleBin, Purge, InBin
  <2>4. ASSUME NEW r \in Rows, CollectStep(r)
        PROVE  TypeOK'
    <3>1. CASE IssueDelete(r)
      BY <3>1 DEF IssueDelete
    <3>2. CASE DecideDrop(r)
      BY <3>2 DEF DecideDrop
    <3>3. CASE DnDelete(r)
      BY <3>3 DEF DnDelete
    <3>4. CASE LoseDeleteRequest(r)
      BY <3>4 DEF LoseDeleteRequest
    <3>5. CASE LoseDeleteReply(r)
      BY <3>5 DEF LoseDeleteReply
    <3>6. CASE DropRow(r)
      BY <3>6 DEF DropRow
    <3> QED
      BY <2>4, <3>1, <3>2, <3>3, <3>4, <3>5, <3>6
         DEF CollectStep, GcKeepFile, GcIssueDelete, StaleIssueDelete,
             StaleDropRow
  <2>5. CASE ReportStep
    <3>1. CASE ReportScan
      BY <3>1 DEF ReportScan, NoReport
    <3>2. CASE ReportSelect
      BY <3>2 DEF ReportSelect, Present
    <3>3. ASSUME NEW r \in Rows, ReportFix(r)
          PROVE  TypeOK'
      BY <3>3 DEF ReportFix, ReportMark
    <3>4. ASSUME NEW n \in Rows, DeleteOrphan(n)
          PROVE  TypeOK'
      BY <3>4 DEF DeleteOrphan
    <3>5. CASE LoseReport
      BY <3>5 DEF LoseReport
    <3> QED
      BY <2>5, <3>1, <3>2, <3>3, <3>4, <3>5 DEF ReportStep
  <2>6. CASE NodeDown
    BY <2>6 DEF NodeDown
  <2>7. CASE NodeUp
    BY <2>7 DEF NodeUp
  <2>8. CASE DataNodeCrash
    BY <2>8 DEF DataNodeCrash
  <2>9. CASE MasterCrash
    BY <2>9 DEF MasterCrash, NoReport
  <2>10. CASE UNCHANGED vars
    BY <2>10 DEF vars
  <2> QED
    BY <2>1, <2>2, <2>3, <2>4, <2>5, <2>6, <2>7, <2>8, <2>9, <2>10 DEF Next
<1> QED
  BY <1>1, <1>2, PTL DEF Spec

-----------------------------------------------------------------------------
(* Names.  Once a row has left "uploading" it never returns there, and     *)
(* only files of such rows are taken over by instant uploads.              *)

Settled(r) == status[r] \in {"success", "failed", "gone"}

NameInv ==
    \A r \in Rows :
        /\ status[r] = "uploading" => name[r] = r
        /\ status[r] = "hit" \/ name[r] # r => Settled(name[r])

\* Every step keeps NameInv.
LEMMA NameInductive == TypeOK /\ NameInv /\ [Next]_vars => NameInv'
<1> SUFFICES ASSUME TypeOK, NameInv, [Next]_vars
             PROVE  NameInv'
  OBVIOUS
<1> USE DEF TypeOK, Statuses, NameInv, Settled, rowVars, nodeVars, gcVars
<1>1. ASSUME NEW r \in Rows, UploadStep(r)
      PROVE  NameInv'
  <2>1. CASE RequestUpload(r)
    BY <2>1 DEF RequestUpload, InsertUploading
  <2>2. CASE InstantLookup(r)
    BY <2>2, FileLifecycleAssumption DEF InstantLookup, InstantHits
  <2>3. CASE InsertInstant(r)
    BY <2>3 DEF InsertInstant
  <2>4. CASE InsertFallsThrough(r)
    BY <2>4 DEF InsertFallsThrough, InsertUploading
  <2>5. CASE BeginUpload(r)
    BY <2>5 DEF BeginUpload
  <2>6. CASE CompleteUpload(r)
    BY <2>6 DEF CompleteUpload
  <2>7. CASE AbortUpload(r)
    BY <2>7 DEF AbortUpload
  <2>8. CASE AgeOut(r)
    BY <2>8 DEF AgeOut
  <2>9. CASE DeliverNotice(r)
    BY <2>9 DEF DeliverNotice
  <2>10. CASE LoseNotice(r)
    BY <2>10 DEF LoseNotice
  <2> QED
    BY <1>1, <2>1, <2>2, <2>3, <2>4, <2>5, <2>6, <2>7, <2>8, <2>9, <2>10
       DEF UploadStep
<1>2. CASE UserStep
  <2>1. ASSUME NEW S \in SUBSET Rows, Recycle(S)
        PROVE  NameInv'
    BY <2>1 DEF Recycle
  <2>2. ASSUME NEW r \in Rows, RestoreFile(r)
        PROVE  NameInv'
    BY <2>2 DEF RestoreFile
  <2>3. ASSUME NEW r \in Rows, HardDelete(r)
        PROVE  NameInv'
    BY <2>3 DEF HardDelete, Purge, InBin
  <2>4. ASSUME NEW u \in Users, NEW S \in SUBSET Rows, BatchHardDelete(u, S)
        PROVE  NameInv'
    BY <2>4 DEF BatchHardDelete, Purge, InBin
  <2> QED
    BY <1>2, <2>1, <2>2, <2>3, <2>4
       DEF UserStep, DeleteByName, BatchDelete, OwnLive
<1>3. ASSUME NEW S \in SUBSET Rows, ExpireRecycleBin(S)
      PROVE  NameInv'
  BY <1>3 DEF ExpireRecycleBin, Purge, InBin
<1>4. ASSUME NEW r \in Rows, CollectStep(r)
      PROVE  NameInv'
  <2>1. CASE GcKeepFile(r)
    BY <2>1 DEF GcKeepFile, DecideDrop
  <2>2. CASE GcIssueDelete(r)
    BY <2>2 DEF GcIssueDelete, IssueDelete
  <2>3. CASE StaleIssueDelete(r)
    BY <2>3 DEF StaleIssueDelete, IssueDelete, Stale
  <2>4. CASE StaleDropRow(r)
    BY <2>4 DEF StaleDropRow, DecideDrop
  <2>5. CASE DnDelete(r)
    BY <2>5 DEF DnDelete
  <2>6. CASE LoseDeleteRequest(r)
    BY <2>6 DEF LoseDeleteRequest
  <2>7. CASE LoseDeleteReply(r)
    BY <2>7 DEF LoseDeleteReply
  <2>8. CASE DropRow(r)
    BY <2>8 DEF DropRow
  <2> QED
    BY <1>4, <2>1, <2>2, <2>3, <2>4, <2>5, <2>6, <2>7, <2>8
       DEF CollectStep
<1>5. CASE ReportStep
  <2>1. CASE ReportScan
    BY <2>1 DEF ReportScan, NoReport
  <2>2. CASE ReportSelect
    BY <2>2 DEF ReportSelect, Present
  <2>3. ASSUME NEW r \in Rows, ReportFix(r)
        PROVE  NameInv'
    BY <2>3 DEF ReportFix, ReportMark, Present
  <2>4. ASSUME NEW n \in Rows, DeleteOrphan(n)
        PROVE  NameInv'
    BY <2>4 DEF DeleteOrphan
  <2>5. CASE LoseReport
    BY <2>5 DEF LoseReport
  <2> QED
    BY <1>5, <2>1, <2>2, <2>3, <2>4, <2>5 DEF ReportStep
<1>6. CASE NodeDown
  BY <1>6 DEF NodeDown
<1>7. CASE NodeUp
  BY <1>7 DEF NodeUp
<1>8. CASE DataNodeCrash
  BY <1>8 DEF DataNodeCrash
<1>9. CASE MasterCrash
  BY <1>9 DEF MasterCrash, NoReport
<1>10. CASE UNCHANGED vars
  BY <1>10 DEF vars
<1> QED
  BY <1>1, <1>2, <1>3, <1>4, <1>5, <1>6, <1>7, <1>8, <1>9, <1>10 DEF Next

\* For any number of requests: the stale-upload sweep never selects a file
\* that a second row names.
THEOREM UploadingNamesUnshared == Spec => []UploadingNameUnshared
<1>1. Init => NameInv
  BY DEF Init, NameInv
<1>2. TypeOK /\ NameInv => UploadingNameUnshared
  BY DEF TypeOK, NameInv, Settled, UploadingNameUnshared, Present
<1> QED
  BY <1>1, <1>2, NameInductive, TypeCorrect, PTL DEF Spec

-----------------------------------------------------------------------------
(* Verdicts.  A row waiting to be marked "success" by a report is neither  *)
(* waiting to be marked "failed" nor marked so already.                    *)

FoundInv ==
    /\ report.lost \intersect report.found = {}
    /\ \A r \in report.found : status[r] \in {"uploading", "success", "gone"}

\* Every step keeps FoundInv.
LEMMA FoundInductive == TypeOK /\ FoundInv /\ [Next]_vars => FoundInv'
<1> SUFFICES ASSUME TypeOK, FoundInv, [Next]_vars
             PROVE  FoundInv'
  OBVIOUS
<1> USE DEF TypeOK, Statuses, FoundInv, rowVars, nodeVars, gcVars
<1>1. ASSUME NEW r \in Rows, UploadStep(r)
      PROVE  FoundInv'
  <2>1. CASE RequestUpload(r)
    BY <2>1 DEF RequestUpload, InsertUploading
  <2>2. CASE InstantLookup(r)
    BY <2>2, FileLifecycleAssumption DEF InstantLookup, InstantHits
  <2>3. CASE InsertInstant(r)
    BY <2>3 DEF InsertInstant
  <2>4. CASE InsertFallsThrough(r)
    BY <2>4 DEF InsertFallsThrough, InsertUploading
  <2>5. CASE BeginUpload(r)
    BY <2>5 DEF BeginUpload
  <2>6. CASE CompleteUpload(r)
    BY <2>6 DEF CompleteUpload
  <2>7. CASE AbortUpload(r)
    BY <2>7 DEF AbortUpload
  <2>8. CASE AgeOut(r)
    BY <2>8 DEF AgeOut
  <2>9. CASE DeliverNotice(r)
    BY <2>9 DEF DeliverNotice
  <2>10. CASE LoseNotice(r)
    BY <2>10 DEF LoseNotice
  <2> QED
    BY <1>1, <2>1, <2>2, <2>3, <2>4, <2>5, <2>6, <2>7, <2>8, <2>9, <2>10
       DEF UploadStep
<1>2. CASE UserStep
  <2>1. ASSUME NEW S \in SUBSET Rows, Recycle(S)
        PROVE  FoundInv'
    BY <2>1 DEF Recycle
  <2>2. ASSUME NEW r \in Rows, RestoreFile(r)
        PROVE  FoundInv'
    BY <2>2 DEF RestoreFile
  <2>3. ASSUME NEW r \in Rows, HardDelete(r)
        PROVE  FoundInv'
    BY <2>3 DEF HardDelete, Purge, InBin
  <2>4. ASSUME NEW u \in Users, NEW S \in SUBSET Rows, BatchHardDelete(u, S)
        PROVE  FoundInv'
    BY <2>4 DEF BatchHardDelete, Purge, InBin
  <2> QED
    BY <1>2, <2>1, <2>2, <2>3, <2>4
       DEF UserStep, DeleteByName, BatchDelete, OwnLive
<1>3. ASSUME NEW S \in SUBSET Rows, ExpireRecycleBin(S)
      PROVE  FoundInv'
  BY <1>3 DEF ExpireRecycleBin, Purge, InBin
<1>4. ASSUME NEW r \in Rows, CollectStep(r)
      PROVE  FoundInv'
  <2>1. CASE GcKeepFile(r)
    BY <2>1 DEF GcKeepFile, DecideDrop
  <2>2. CASE GcIssueDelete(r)
    BY <2>2 DEF GcIssueDelete, IssueDelete
  <2>3. CASE StaleIssueDelete(r)
    BY <2>3 DEF StaleIssueDelete, IssueDelete, Stale
  <2>4. CASE StaleDropRow(r)
    BY <2>4 DEF StaleDropRow, DecideDrop
  <2>5. CASE DnDelete(r)
    BY <2>5 DEF DnDelete
  <2>6. CASE LoseDeleteRequest(r)
    BY <2>6 DEF LoseDeleteRequest
  <2>7. CASE LoseDeleteReply(r)
    BY <2>7 DEF LoseDeleteReply
  <2>8. CASE DropRow(r)
    BY <2>8 DEF DropRow
  <2> QED
    BY <1>4, <2>1, <2>2, <2>3, <2>4, <2>5, <2>6, <2>7, <2>8
       DEF CollectStep
<1>5. CASE ReportStep
  <2>1. CASE ReportScan
    BY <2>1 DEF ReportScan, NoReport
  <2>2. CASE ReportSelect
    BY <2>2 DEF ReportSelect, Present
  <2>3. ASSUME NEW r \in Rows, ReportFix(r)
        PROVE  FoundInv'
    BY <2>3 DEF ReportFix, ReportMark, Present
  <2>4. ASSUME NEW n \in Rows, DeleteOrphan(n)
        PROVE  FoundInv'
    BY <2>4 DEF DeleteOrphan
  <2>5. CASE LoseReport
    BY <2>5 DEF LoseReport
  <2> QED
    BY <1>5, <2>1, <2>2, <2>3, <2>4, <2>5 DEF ReportStep
<1>6. CASE NodeDown
  BY <1>6 DEF NodeDown
<1>7. CASE NodeUp
  BY <1>7 DEF NodeUp
<1>8. CASE DataNodeCrash
  BY <1>8 DEF DataNodeCrash
<1>9. CASE MasterCrash
  BY <1>9 DEF MasterCrash, NoReport
<1>10. CASE UNCHANGED vars
  BY <1>10 DEF vars
<1> QED
  BY <1>1, <1>2, <1>3, <1>4, <1>5, <1>6, <1>7, <1>8, <1>9, <1>10 DEF Next

\* A failed row stays failed until it is removed.
THEOREM FailedStaysFailed == Spec => FailedIsFinal
<1> DEFINE Final == \A r \in Rows :
                       status[r] = "failed" => status'[r] \in {"failed", "gone"}
<1>1. Init => FoundInv
  BY DEF Init, FoundInv, NoReport
<1>2. TypeOK /\ FoundInv /\ [Next]_vars => [Final]_vars
  <2> SUFFICES ASSUME TypeOK, FoundInv, Next
               PROVE  Final
    OBVIOUS
  <2> USE DEF TypeOK, Statuses, FoundInv, rowVars, nodeVars, gcVars
  <2>1. ASSUME NEW r \in Rows, UploadStep(r)
        PROVE  Final
    BY <2>1 DEF UploadStep, RequestUpload, InsertUploading, InstantLookup,
         InsertInstant, InsertFallsThrough, BeginUpload, CompleteUpload,
         AbortUpload, AgeOut, DeliverNotice, LoseNotice
  <2>2. ASSUME NEW r \in Rows, CollectStep(r)
        PROVE  Final
    BY <2>2 DEF CollectStep, GcKeepFile, GcIssueDelete, StaleIssueDelete,
         StaleDropRow, IssueDelete, DecideDrop, DnDelete, LoseDeleteRequest,
         LoseDeleteReply, DropRow
  <2>3. ASSUME NEW r \in Rows, ReportFix(r)
        PROVE  Final
    BY <2>3 DEF ReportFix, ReportMark, Present
  <2>4. CASE MasterCrash
    BY <2>4 DEF MasterCrash
  <2>5. CASE UNCHANGED status
    BY <2>5
  <2>6. UserStep => UNCHANGED status
    BY DEF UserStep, DeleteByName, BatchDelete, Recycle, RestoreFile,
           HardDelete, BatchHardDelete
  <2>7. ReportStep => UNCHANGED status \/ \E r \in Rows : ReportFix(r)
    BY DEF ReportStep, ReportScan, ReportSelect, DeleteOrphan, LoseReport
  <2> QED
    BY <2>1, <2>2, <2>3, <2>4, <2>5, <2>6, <2>7
       DEF Next, ExpireRecycleBin, NodeDown, NodeUp, DataNodeCrash
<1> QED
  BY <1>1, <1>2, FoundInductive, TypeCorrect, PTL DEF Spec, FailedIsFinal

-----------------------------------------------------------------------------
(* Bytes.  Nothing exists for a row not yet inserted; and no delete        *)
(* request and no orphan verdict is out against the file of a row that is  *)
(* in use, in time and not purged.                                         *)

UnbornInv ==
    \A r \in Rows : status[r] \in {"free", "hit"} =>
        /\ disk[r] = "none" /\ session[r] = "none" /\ age[r] = "young"
        /\ r \notin delReq
        /\ r \notin report.files \union report.orphans

InTime(r) ==
    /\ status[r] \in {"uploading", "success"} /\ name[r] = r
    /\ del[r] # 2 /\ age[r] # "overdue"

KeepInv ==
    /\ UnbornInv
    /\ \A r \in Rows : InTime(r) =>
          /\ \A x \in delReq : name[x] # r
          /\ r \notin report.orphans
          /\ session[r] = "writing" => disk[r] = "partial"
          /\ session[r] = "stored" => disk[r] = "complete"

\* Every step keeps KeepInv, when no purged row is restored.
LEMMA KeepInductive ==
    ASSUME ~RestorePurged
    PROVE  TypeOK /\ NameInv /\ FoundInv /\ KeepInv /\ [Next]_vars => KeepInv'
<1> SUFFICES ASSUME TypeOK, NameInv, FoundInv, KeepInv, [Next]_vars
             PROVE  KeepInv'
  OBVIOUS
<1> USE DEF TypeOK, Statuses, NameInv, Settled, FoundInv, KeepInv, UnbornInv,
            InTime, rowVars, nodeVars, gcVars
<1>1. ASSUME NEW r \in Rows, UploadStep(r)
      PROVE  KeepInv'
  <2>1. CASE RequestUpload(r)
    BY <2>1 DEF RequestUpload, InsertUploading
  <2>2. CASE InstantLookup(r)
    BY <2>2, FileLifecycleAssumption DEF InstantLookup, InstantHits
  <2>3. CASE InsertInstant(r)
    BY <2>3 DEF InsertInstant
  <2>4. CASE InsertFallsThrough(r)
    BY <2>4 DEF InsertFallsThrough, InsertUploading
  <2>5. CASE BeginUpload(r)
    BY <2>5 DEF BeginUpload
  <2>6. CASE CompleteUpload(r)
    BY <2>6 DEF CompleteUpload
  <2>7. CASE AbortUpload(r)
    BY <2>7 DEF AbortUpload
  <2>8. CASE AgeOut(r)
    BY <2>8 DEF AgeOut
  <2>9. CASE DeliverNotice(r)
    BY <2>9 DEF DeliverNotice
  <2>10. CASE LoseNotice(r)
    BY <2>10 DEF LoseNotice
  <2> QED
    BY <1>1, <2>1, <2>2, <2>3, <2>4, <2>5, <2>6, <2>7, <2>8, <2>9, <2>10
       DEF UploadStep
<1>2. CASE UserStep
  <2>1. ASSUME NEW S \in SUBSET Rows, Recycle(S), \A r \in S : del[r] = 0
        PROVE  KeepInv'
    BY <2>1 DEF Recycle
  <2>2. ASSUME NEW r \in Rows, RestoreFile(r)
        PROVE  KeepInv'
    BY <2>2 DEF RestoreFile
  <2>3. ASSUME NEW r \in Rows, HardDelete(r)
        PROVE  KeepInv'
    BY <2>3 DEF HardDelete, Purge, InBin
  <2>4. ASSUME NEW u \in Users, NEW S \in SUBSET Rows, BatchHardDelete(u, S)
        PROVE  KeepInv'
    BY <2>4 DEF BatchHardDelete, Purge, InBin
  <2> QED
    BY <1>2, <2>1, <2>2, <2>3, <2>4
       DEF UserStep, DeleteByName, BatchDelete, OwnLive
<1>3. ASSUME NEW S \in SUBSET Rows, ExpireRecycleBin(S)
      PROVE  KeepInv'
  BY <1>3 DEF ExpireRecycleBin, Purge, InBin
<1>4. ASSUME NEW r \in Rows, CollectStep(r)
      PROVE  KeepInv'
  <2>1. CASE GcKeepFile(r)
    BY <2>1 DEF GcKeepFile, DecideDrop
  <2>2. CASE GcIssueDelete(r)
    BY <2>2 DEF GcIssueDelete, IssueDelete, Purged, Present, Referenced
  <2>3. CASE StaleIssueDelete(r)
    BY <2>3 DEF StaleIssueDelete, IssueDelete, Stale
  <2>4. CASE StaleDropRow(r)
    BY <2>4 DEF StaleDropRow, DecideDrop
  <2>5. CASE DnDelete(r)
    BY <2>5 DEF DnDelete
  <2>6. CASE LoseDeleteRequest(r)
    BY <2>6 DEF LoseDeleteRequest
  <2>7. CASE LoseDeleteReply(r)
    BY <2>7 DEF LoseDeleteReply
  <2>8. CASE DropRow(r)
    BY <2>8 DEF DropRow
  <2> QED
    BY <1>4, <2>1, <2>2, <2>3, <2>4, <2>5, <2>6, <2>7, <2>8
       DEF CollectStep
<1>5. CASE ReportStep
  <2>1. CASE ReportScan
    BY <2>1 DEF ReportScan, NoReport
  <2>2. CASE ReportSelect
    BY <2>2 DEF ReportSelect, Present
  <2>3. ASSUME NEW r \in Rows, ReportFix(r)
        PROVE  KeepInv'
    BY <2>3 DEF ReportFix, ReportMark, Present
  <2>4. ASSUME NEW n \in Rows, DeleteOrphan(n)
        PROVE  KeepInv'
    BY <2>4 DEF DeleteOrphan
  <2>5. CASE LoseReport
    BY <2>5 DEF LoseReport
  <2> QED
    BY <1>5, <2>1, <2>2, <2>3, <2>4, <2>5 DEF ReportStep
<1>6. CASE NodeDown
  BY <1>6 DEF NodeDown
<1>7. CASE NodeUp
  BY <1>7 DEF NodeUp
<1>8. CASE DataNodeCrash
  BY <1>8 DEF DataNodeCrash
<1>9. CASE MasterCrash
  BY <1>9 DEF MasterCrash, NoReport
<1>10. CASE UNCHANGED vars
  BY <1>10 DEF vars
<1> QED
  BY <1>1, <1>2, <1>3, <1>4, <1>5, <1>6, <1>7, <1>8, <1>9, <1>10 DEF Next

\* When no purged row is ever restored: however many requests, users and
\* shared files there are, an upload confirmed in time keeps its bytes.
THEOREM ConfirmedFilesKept ==
    ASSUME ~RestorePurged
    PROVE  Spec => []ConfirmedFileKept
<1>1. Init => NameInv /\ FoundInv /\ KeepInv
  BY DEF Init, NameInv, FoundInv, KeepInv, UnbornInv, InTime, NoReport
<1>2. KeepInv => ConfirmedFileKept
  BY DEF KeepInv, InTime, ConfirmedFileKept
<1>3. TypeOK /\ NameInv /\ FoundInv /\ KeepInv /\ [Next]_vars => KeepInv'
  BY KeepInductive
<1> QED
  BY <1>1, <1>2, <1>3, NameInductive, FoundInductive, TypeCorrect, PTL DEF Spec

-----------------------------------------------------------------------------
(* The catalogue.  Only rows of the table are in the recycle bin, purged,  *)
(* or about to be removed.                                                 *)

ListedInv ==
    /\ \A r \in Rows : del[r] # 0 => Present(r)
    /\ \A r \in delReq \union rowDrop : status[r] \notin {"free", "hit"}

\* A step of the catalogue, or none.
CatalogueStep == [Catalogue!Next]_(Catalogue!vars)

\* What users and collectors do to the column is_deleted is a move.
LEMMA MovesAreSteps ==
    ASSUME TypeOK, del' \in [Rows -> 0..2], UNCHANGED <<status, age, delReq, rowDrop>>,
           \/ \A r \in Rows : del'[r] # del[r] => /\ Present(r) /\ del[r] = 0
                                                  /\ del'[r] = 1
           \/ \A r \in Rows : del'[r] # del[r] => Present(r) /\ del'[r] = 0
           \/ \A r \in Rows : del'[r] # del[r] => /\ Present(r) /\ del[r] = 1
                                                  /\ del'[r] = 2
    PROVE  CatalogueStep
<1> USE DEF TypeOK, Statuses, Present
<1>1. CASE \A r \in Rows : del'[r] # del[r] => /\ Present(r) /\ del[r] = 0
                                               /\ del'[r] = 1
  <2>1. Catalogue!Move({0}, 1)
    BY <1>1 DEF Catalogue!Move, Catalogue!Listed
  <2> QED
    BY <2>1 DEF CatalogueStep, Catalogue!Next
<1>2. CASE \A r \in Rows : del'[r] # del[r] => Present(r) /\ del'[r] = 0
  <2>1. Catalogue!Move({1, 2}, 0)
    BY <1>2 DEF Catalogue!Move, Catalogue!Listed
  <2> QED
    BY <2>1 DEF CatalogueStep, Catalogue!Next
<1>3. CASE \A r \in Rows : del'[r] # del[r] => /\ Present(r) /\ del[r] = 1
                                               /\ del'[r] = 2
  <2>1. Catalogue!Move({1}, 2)
    BY <1>3 DEF Catalogue!Move, Catalogue!Listed
  <2> QED
    BY <2>1 DEF CatalogueStep, Catalogue!Next
<1> QED
  BY <1>1, <1>2, <1>3

\* Steps that change nothing the catalogue shows, or only spare rows.
LEMMA SparingIsAStep ==
    ASSUME TypeOK, UNCHANGED <<del, age>>,
           \A r \in Rows : \/ status'[r] = status[r]
                           \/ status[r] \in {"free", "hit"} /\ status'[r] \in {"free", "hit"},
           status' \in [Rows -> Statuses],
           delReq' \union rowDrop' \subseteq delReq \union rowDrop
    PROVE  CatalogueStep
<1>1. [r \in Rows |-> IF status'[r] = "hit" THEN "free" ELSE status'[r]]
        = [r \in Rows |-> IF status[r] = "hit" THEN "free" ELSE status[r]]
  BY DEF TypeOK, Statuses
<1>2. Catalogue!Spare
  BY <1>1 DEF Catalogue!Spare
<1> QED
  BY <1>2 DEF CatalogueStep, Catalogue!Next

\* Every step keeps ListedInv, and is a step of the catalogue or none.
LEMMA CatalogueInductive ==
    TypeOK /\ TypeOK' /\ FoundInv /\ ListedInv /\ [Next]_vars
        => ListedInv' /\ CatalogueStep
<1> SUFFICES ASSUME TypeOK, TypeOK', FoundInv, ListedInv, [Next]_vars
             PROVE  ListedInv' /\ CatalogueStep
  OBVIOUS
<1> DEFINE Shown == [r \in Rows |-> IF status[r] = "hit" THEN "free" ELSE status[r]]
           Good == ListedInv' /\ CatalogueStep
<1>a. ASSUME NEW r \in Rows, NEW s \in Statuses \ {"hit"},
             status' = [status EXCEPT ![r] = s]
      PROVE  Shown' = [Shown EXCEPT ![r] = s]
  BY <1>a DEF TypeOK, Statuses
<1> USE DEF rowVars, nodeVars, gcVars
<1>1. ASSUME NEW r \in Rows, UploadStep(r)
      PROVE  Good
  <2>1. ASSUME InsertUploading(r), status[r] \in {"free", "hit"}
        PROVE  Good
    <3>1. ListedInv'
      BY <2>1 DEF InsertUploading, ListedInv, Present, TypeOK, Statuses
    <3>2. Catalogue!List(r)
      <4>1. Shown' = [Shown EXCEPT ![r] = "uploading"]
        BY <2>1, <1>a DEF InsertUploading, Statuses
      <4>2. Shown[r] = "free"
        BY <2>1 DEF TypeOK
      <4> QED
        BY <2>1, <4>1, <4>2 DEF Catalogue!List, InsertUploading
    <3> QED
      BY <3>1, <3>2 DEF CatalogueStep, Catalogue!Next
  <2>2. CASE RequestUpload(r)
    BY <2>1, <2>2 DEF RequestUpload
  <2>3. CASE InsertFallsThrough(r)
    BY <2>1, <2>3 DEF InsertFallsThrough
  <2>4. CASE InstantLookup(r)
    <3>1. ListedInv'
      BY <2>4 DEF InstantLookup, ListedInv, Present, TypeOK, Statuses
    <3>2. CatalogueStep
      BY <2>4, SparingIsAStep DEF InstantLookup, TypeOK, Statuses
    <3> QED
      BY <3>1, <3>2
  <2>5. CASE InsertInstant(r)
    <3>1. ListedInv'
      BY <2>5 DEF InsertInstant, ListedInv, Present, TypeOK, Statuses
    <3>2. Catalogue!List(r)
      <4>1. Shown' = [Shown EXCEPT ![r] = "success"]
        BY <2>5, <1>a DEF InsertInstant, Statuses
      <4>2. Shown[r] = "free"
        BY <2>5 DEF InsertInstant, TypeOK
      <4> QED
        BY <2>5, <4>1, <4>2 DEF Catalogue!List, InsertInstant
    <3> QED
      BY <3>1, <3>2 DEF CatalogueStep, Catalogue!Next
  <2>6. CASE BeginUpload(r) \/ CompleteUpload(r) \/ AbortUpload(r) \/ LoseNotice(r)
    <3>1. UNCHANGED <<status, del, age, delReq, rowDrop>>
      BY <2>6 DEF BeginUpload, CompleteUpload, AbortUpload, LoseNotice
    <3>2. CatalogueStep
      BY <3>1, SparingIsAStep DEF TypeOK
    <3> QED
      BY <3>1, <3>2 DEF ListedInv, Present
  <2>7. CASE AgeOut(r)
    <3>1. ListedInv'
      BY <2>7 DEF AgeOut, ListedInv, Present
    <3>2. CASE status[r] = "uploading"
      <4>1. {x \in Rows : age'[x] = "overdue"} = {x \in Rows : age[x] = "overdue"} \union {r}
        BY <2>7, <3>2 DEF AgeOut, TypeOK
      <4>2. Catalogue!Lapse(r)
        BY <2>7, <3>2, <4>1 DEF AgeOut, Catalogue!Lapse
      <4> QED
        BY <3>1, <4>2 DEF CatalogueStep, Catalogue!Next
    <3>3. CASE status[r] # "uploading"
      <4>1. {x \in Rows : age'[x] = "overdue"} = {x \in Rows : age[x] = "overdue"}
        BY <2>7, <3>3 DEF AgeOut, TypeOK
      <4>2. UNCHANGED Catalogue!vars
        BY <2>7, <4>1 DEF AgeOut, Catalogue!vars
      <4> QED
        BY <3>1, <4>2 DEF CatalogueStep
    <3> QED
      BY <3>2, <3>3
  <2>8. CASE DeliverNotice(r)
    <3>1. ListedInv'
      BY <2>8 DEF DeliverNotice, ListedInv, Present, TypeOK, Statuses
    <3>2. CASE status[r] = "uploading"
      <4>1. Shown' = [Shown EXCEPT ![r] = "success"]
        BY <2>8, <3>2, <1>a DEF DeliverNotice, Statuses
      <4>2. Catalogue!Confirm(r)
        BY <2>8, <3>2, <4>1 DEF DeliverNotice, Catalogue!Confirm
      <4> QED
        BY <3>1, <4>2 DEF CatalogueStep, Catalogue!Next
    <3>3. CASE status[r] # "uploading"
      <4>1. UNCHANGED <<status, del, age, delReq, rowDrop>>
        BY <2>8, <3>3 DEF DeliverNotice, TypeOK
      <4>2. CatalogueStep
        BY <4>1, SparingIsAStep DEF TypeOK
      <4> QED
        BY <3>1, <4>2
    <3> QED
      BY <3>2, <3>3
  <2> QED
    BY <1>1, <2>2, <2>3, <2>4, <2>5, <2>6, <2>7, <2>8 DEF UploadStep
<1>2. ASSUME UserStep \/ \E S \in SUBSET Rows : ExpireRecycleBin(S)
      PROVE  Good
  <2>1. UNCHANGED <<status, age, delReq, rowDrop>>
    BY <1>2 DEF UserStep, DeleteByName, BatchDelete, Recycle, RestoreFile,
         HardDelete, BatchHardDelete, ExpireRecycleBin
  <2>2. \/ \A r \in Rows : del'[r] # del[r] => /\ Present(r) /\ del[r] = 0
                                               /\ del'[r] = 1
        \/ \A r \in Rows : del'[r] # del[r] => Present(r) /\ del'[r] = 0
        \/ \A r \in Rows : del'[r] # del[r] => /\ Present(r) /\ del[r] = 1
                                               /\ del'[r] = 2
    <3>1. ASSUME NEW u \in Users, NEW n \in Rows, DeleteByName(u, n)
          PROVE  \A r \in Rows : del'[r] # del[r] => /\ Present(r) /\ del[r] = 0
                                                    /\ del'[r] = 1
      BY <3>1 DEF DeleteByName, Recycle, OwnLive
    <3>2. ASSUME NEW u \in Users, NEW S \in SUBSET Rows, BatchDelete(u, S)
          PROVE  \A r \in Rows : del'[r] # del[r] => /\ Present(r) /\ del[r] = 0
                                                    /\ del'[r] = 1
      BY <3>2 DEF BatchDelete, Recycle, OwnLive
    <3>3. ASSUME NEW x \in Rows, RestoreFile(x)
          PROVE  \A r \in Rows : del'[r] # del[r] => Present(r) /\ del'[r] = 0
      BY <3>3 DEF RestoreFile, TypeOK
    <3>4. ASSUME NEW x \in Rows, HardDelete(x)
          PROVE  \A r \in Rows : del'[r] # del[r] => /\ Present(r) /\ del[r] = 1
                                                    /\ del'[r] = 2
      BY <3>4 DEF HardDelete, Purge, InBin
    <3>5. ASSUME NEW u \in Users, NEW S \in SUBSET Rows, BatchHardDelete(u, S)
          PROVE  \A r \in Rows : del'[r] # del[r] => /\ Present(r) /\ del[r] = 1
                                                    /\ del'[r] = 2
      BY <3>5 DEF BatchHardDelete, Purge, InBin
    <3>6. ASSUME NEW S \in SUBSET Rows, ExpireRecycleBin(S)
          PROVE  \A r \in Rows : del'[r] # del[r] => /\ Present(r) /\ del[r] = 1
                                                    /\ del'[r] = 2
      BY <3>6 DEF ExpireRecycleBin, Purge, InBin
    <3> QED
      BY <1>2, <3>1, <3>2, <3>3, <3>4, <3>5, <3>6 DEF UserStep
  <2>3. ListedInv'
    BY <2>1, <2>2 DEF ListedInv, Present
  <2>4. CatalogueStep
    BY <2>1, <2>2, MovesAreSteps DEF TypeOK
  <2> QED
    BY <2>3, <2>4
<1>3. ASSUME NEW r \in Rows, CollectStep(r)
      PROVE  Good
  <2>1. ASSUME IssueDelete(r) \/ DecideDrop(r), Purged(r) \/ Stale(r)
        PROVE  Good
    <3>1. ListedInv'
      BY <2>1 DEF IssueDelete, DecideDrop, Purged, Stale, ListedInv, Present
    <3>2. (delReq \union rowDrop)' = delReq \union rowDrop \union {r}
      BY <2>1 DEF IssueDelete, DecideDrop
    <3>3. Shown[r] = status[r]
      BY <2>1 DEF Purged, Stale, Present
    <3>4. Catalogue!Condemn(r)
      BY <2>1, <3>2, <3>3
         DEF IssueDelete, DecideDrop, Purged, Stale, Present, Catalogue!Condemn,
             Catalogue!Listed
    <3> QED
      BY <3>1, <3>4 DEF CatalogueStep, Catalogue!Next
  <2>2. CASE GcKeepFile(r) \/ GcIssueDelete(r) \/ StaleIssueDelete(r) \/ StaleDropRow(r)
    BY <2>1, <2>2 DEF GcKeepFile, GcIssueDelete, StaleIssueDelete, StaleDropRow
  <2>3. CASE DnDelete(r) \/ LoseDeleteRequest(r) \/ LoseDeleteReply(r)
    <3>1. UNCHANGED <<status, del, age>>
      BY <2>3 DEF DnDelete, LoseDeleteRequest, LoseDeleteReply
    <3>2. delReq' \union rowDrop' \subseteq delReq \union rowDrop
      BY <2>3 DEF DnDelete, LoseDeleteRequest, LoseDeleteReply
    <3>3. ListedInv'
      BY <3>1, <3>2 DEF ListedInv, Present
    <3>4. CatalogueStep
      BY <3>1, <3>2, SparingIsAStep DEF TypeOK
    <3> QED
      BY <3>3, <3>4
  <2>4. CASE DropRow(r)
    <3>1. ListedInv'
      BY <2>4 DEF DropRow, ListedInv, Present, TypeOK
    <3>2. Shown' = [Shown EXCEPT ![r] = "gone"]
      BY <2>4, <1>a DEF DropRow, Statuses
    <3>3. (delReq \union rowDrop)'
            \in {delReq \union rowDrop, (delReq \union rowDrop) \ {r}}
      BY <2>4 DEF DropRow
    <3>4. Catalogue!Remove(r)
      BY <2>4, <3>2, <3>3 DEF DropRow, Catalogue!Remove
    <3> QED
      BY <3>1, <3>4 DEF CatalogueStep, Catalogue!Next
  <2> QED
    BY <1>3, <2>2, <2>3, <2>4 DEF CollectStep
<1>4. ASSUME NEW r \in Rows, ReportFix(r)
      PROVE  Good
  <2>1. ListedInv'
    BY <1>4 DEF ReportFix, ReportMark, ListedInv, Present, TypeOK, Statuses
  <2>2. CASE UNCHANGED status
    <3>1. CatalogueStep
      BY <1>4, <2>2, SparingIsAStep DEF ReportFix, TypeOK
    <3> QED
      BY <2>1, <3>1
  <2>3. CASE status' # status /\ r \in report.lost /\ ReportMark(r, "failed")
    <3>1. status[r] \in {"uploading", "success"}
      BY <2>3 DEF ReportMark, Present, TypeOK, Statuses
    <3>2. Shown' = [Shown EXCEPT ![r] = "failed"]
      BY <2>3, <3>1, <1>a DEF ReportMark, Present, Statuses
    <3>3. Catalogue!GiveUp(r)
      BY <1>4, <3>1, <3>2 DEF ReportFix, Catalogue!GiveUp
    <3> QED
      BY <2>1, <3>3 DEF CatalogueStep, Catalogue!Next
  <2>4. CASE status' # status /\ r \in report.found /\ ReportMark(r, "success")
    <3>1. status[r] = "uploading"
      BY <2>4 DEF ReportMark, Present, FoundInv, TypeOK, Statuses
    <3>2. Shown' = [Shown EXCEPT ![r] = "success"]
      BY <2>4, <3>1, <1>a DEF ReportMark, Present, Statuses
    <3>3. Catalogue!Confirm(r)
      BY <1>4, <3>1, <3>2 DEF ReportFix, Catalogue!Confirm
    <3> QED
      BY <2>1, <3>3 DEF CatalogueStep, Catalogue!Next
  <2> QED
    BY <1>4, <2>2, <2>3, <2>4 DEF ReportFix
<1>5. CASE ReportScan \/ ReportSelect \/ (\E n \in Rows : DeleteOrphan(n)) \/ LoseReport
           \/ NodeDown \/ NodeUp \/ DataNodeCrash \/ UNCHANGED vars
  <2>1. UNCHANGED <<status, del, age>>
    BY <1>5 DEF ReportScan, ReportSelect, DeleteOrphan, LoseReport, NodeDown,
         NodeUp, DataNodeCrash, vars
  <2>2. delReq' \union rowDrop' \subseteq delReq \union rowDrop
    BY <1>5 DEF ReportScan, ReportSelect, DeleteOrphan, LoseReport, NodeDown,
         NodeUp, DataNodeCrash, vars
  <2>3. ListedInv'
    BY <2>1, <2>2 DEF ListedInv, Present
  <2>4. CatalogueStep
    BY <2>1, <2>2, SparingIsAStep DEF TypeOK
  <2> QED
    BY <2>3, <2>4
<1>6. CASE MasterCrash
  <2>1. ListedInv'
    BY <1>6 DEF MasterCrash, ListedInv, Present, TypeOK, Statuses
  <2>2. CatalogueStep
    BY <1>6, SparingIsAStep DEF MasterCrash, TypeOK, Statuses
  <2> QED
    BY <2>1, <2>2
<1> QED
  BY <1>1, <1>2, <1>3, <1>4, <1>5, <1>6 DEF Next, ReportStep

(***************************************************************************)
(* The handlers, timers and tasks that read and write the table, however   *)
(* they interleave and fail, keep what FileCatalogue promises, for any     *)
(* number of requests and users: in particular a file is removed only when *)
(* it was purged, or late and unconfirmed, as its removal began.           *)
(***************************************************************************)
THEOREM FilesImplementCatalogue == Spec => ImplementsCatalogue
<1>1. Init => FoundInv /\ ListedInv /\ Catalogue!Init
  BY DEF Init, FoundInv, ListedInv, NoReport, Catalogue!Init
<1>2. TypeOK /\ TypeOK' /\ FoundInv /\ ListedInv /\ [Next]_vars
        => ListedInv' /\ [Catalogue!Next]_(Catalogue!vars)
  BY CatalogueInductive DEF CatalogueStep
<1> QED
  BY <1>1, <1>2, FoundInductive, TypeCorrect, PTL
     DEF Spec, ImplementsCatalogue, Catalogue!Spec

=============================================================================
