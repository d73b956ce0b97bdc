----------------------------- MODULE SharingProofs -----------------------------
(***************************************************************************)
(* Theorems about Sharing and the two modules composed with it, Rooms and  *)
(* Learning, for any users, files and number of requests under way.        *)
(***************************************************************************)
EXTENDS Requests, FiniteSetTheorems, TLAPS

-----------------------------------------------------------------------------
(***************************************************************************)
(* Shares do not pile up.  The valid rows of a subject that were inserted  *)
(* after a look, and the requests that are to insert one after a look, are *)
(* together no more than the requests: a look finds nothing only when      *)
(* there are no such rows, and from then on each new row uses up a         *)
(* request.                                                                *)
(***************************************************************************)
Valid(s) == {row \in shares : row.of = s /\ ~row.expired /\ row.id \notin loose}

Waiting(s) == {t \in Sharers : request[t].do = "insert" /\ request[t].about = s}

SharesInv ==
    /\ SharingTypeOK
    /\ IsFiniteSet(shares)
    /\ \A s \in Subjects :
            Cardinality(Valid(s)) + Cardinality(Waiting(s)) <= Cardinality(Sharers)

LEMMA Counts ==
  ASSUME SharesInv, NEW s \in Subjects
  PROVE  /\ IsFiniteSet(Valid(s)) /\ Cardinality(Valid(s)) \in Nat
         /\ IsFiniteSet(Waiting(s)) /\ Cardinality(Waiting(s)) \in Nat
         /\ Cardinality(Sharers) \in Nat
<1>1. IsFiniteSet(Valid(s)) /\ IsFiniteSet(Waiting(s)) /\ IsFiniteSet(Sharers)
  <2>1. Valid(s) \subseteq shares /\ Waiting(s) \subseteq Sharers
    BY DEF Valid, Waiting
  <2> QED
    BY <2>1, FS_Subset, SharingAssumption DEF SharesInv, SharingAssumption
<1> QED
  BY <1>1, FS_CardinalityType

\* What neither adds a valid row nor a request that waits to insert one.
LEMMA FewerShares ==
  ASSUME SharesInv, SharingTypeOK', IsFiniteSet(shares'),
         \A s \in Subjects : Valid(s)' \subseteq Valid(s) /\ Waiting(s)' \subseteq Waiting(s)
  PROVE  SharesInv'
<1>1. ASSUME NEW s \in Subjects
      PROVE  Cardinality(Valid(s)') + Cardinality(Waiting(s)') <= Cardinality(Sharers)
  <2>1. /\ IsFiniteSet(Valid(s)) /\ Cardinality(Valid(s)) \in Nat
        /\ IsFiniteSet(Waiting(s)) /\ Cardinality(Waiting(s)) \in Nat
        /\ Cardinality(Sharers) \in Nat
    BY Counts
  <2>2. /\ Cardinality(Valid(s)') <= Cardinality(Valid(s))
        /\ Cardinality(Valid(s)') \in Nat
        /\ Cardinality(Waiting(s)') <= Cardinality(Waiting(s))
        /\ Cardinality(Waiting(s)') \in Nat
    BY <2>1, FS_Subset, FS_CardinalityType
  <2>3. Cardinality(Valid(s)) + Cardinality(Waiting(s)) <= Cardinality(Sharers)
    BY DEF SharesInv
  <2> QED
    BY <2>1, <2>2, <2>3
<1> QED
  BY <1>1 DEF SharesInv

LEMMA LookForShareKeeps ==
  ASSUME SharesInv, NEW t \in Sharers, NEW subject \in Subjects, LookForShare(t, subject)
  PROVE  SharesInv'
<1>1. PICK d \in {"insert", "unchecked"} :
          /\ request' = [request EXCEPT ![t] = [do |-> d, about |-> subject]]
          /\ d = "insert" => Same(subject) = {}
  BY DEF LookForShare, Proceed
<1>2. UNCHANGED <<trash, shares, granted, loose>>
  BY DEF LookForShare
<1>3. request \in [Sharers -> Jobs] /\ request' \in [Sharers -> Jobs]
  BY <1>1 DEF SharesInv, SharingTypeOK, Jobs
<1>4. SharingTypeOK' /\ IsFiniteSet(shares')
  BY <1>2, <1>3 DEF SharesInv, SharingTypeOK
<1>5. ASSUME NEW z \in Subjects
      PROVE  Cardinality(Valid(z)') + Cardinality(Waiting(z)') <= Cardinality(Sharers)
  <2>1. /\ IsFiniteSet(Valid(z)) /\ Cardinality(Valid(z)) \in Nat
        /\ IsFiniteSet(Waiting(z)) /\ Cardinality(Waiting(z)) \in Nat
        /\ Cardinality(Sharers) \in Nat
        /\ Cardinality(Valid(z)) + Cardinality(Waiting(z)) <= Cardinality(Sharers)
    BY Counts DEF SharesInv
  <2>2. Valid(z)' \subseteq Valid(z)
    BY <1>2 DEF Valid
  <2>3. CASE d = "insert" /\ z = subject
    <3>1. Valid(z)' = {}
      BY <1>1, <2>2, <2>3 DEF Valid, Same
    <3>2. Waiting(z)' \subseteq Sharers /\ IsFiniteSet(Sharers)
      BY SharingAssumption DEF Waiting, SharingAssumption
    <3>3. /\ Cardinality(Waiting(z)') <= Cardinality(Sharers)
          /\ Cardinality(Waiting(z)') \in Nat
          /\ Cardinality(Valid(z)') = 0
      BY <3>1, <3>2, FS_Subset, FS_CardinalityType, FS_EmptySet
    <3> QED
      BY <2>1, <3>3
  <2>4. CASE ~(d = "insert" /\ z = subject)
    <3>1. Waiting(z)' \subseteq Waiting(z)
      BY <1>1, <1>3, <2>4 DEF Waiting
    <3>2. /\ Cardinality(Waiting(z)') <= Cardinality(Waiting(z))
          /\ Cardinality(Waiting(z)') \in Nat
          /\ Cardinality(Valid(z)') <= Cardinality(Valid(z))
          /\ Cardinality(Valid(z)') \in Nat
      BY <2>1, <2>2, <3>1, FS_Subset, FS_CardinalityType
    <3> QED
      BY <2>1, <3>2
  <2> QED
    BY <2>3, <2>4
<1> QED
  BY <1>4, <1>5 DEF SharesInv

LEMMA InsertShareKeeps ==
  ASSUME SharesInv, NEW t \in Sharers, NEW id \in ShareIds, InsertShare(t, id)
  PROVE  SharesInv'
<1> DEFINE subject == request[t].about
           new == [id |-> id, of |-> subject, expired |-> FALSE]
<1>1. /\ request[t].do \in {"insert", "unchecked"}
      /\ \A row \in shares : row.id # id
      /\ shares' = shares \union {new}
      /\ loose' = IF request[t].do = "unchecked" THEN loose \union {id} ELSE loose
      /\ request' = [request EXCEPT ![t] = Idle]
      /\ trash' = trash
  BY DEF InsertShare, Proceed
<1>2. request \in [Sharers -> Jobs] /\ request' \in [Sharers -> Jobs]
  BY <1>1 DEF SharesInv, SharingTypeOK, Jobs, Idle
<1>3. subject \in Subjects
  BY <1>1, <1>2 DEF Jobs
<1>4. new \in Rows
  BY <1>3 DEF Rows
<1>5. SharingTypeOK' /\ IsFiniteSet(shares')
  <2>1. IsFiniteSet(shares')
    BY <1>1, FS_AddElement DEF SharesInv
  <2>2. shares' \subseteq Rows
    BY <1>1, <1>4 DEF SharesInv, SharingTypeOK
  <2>3. ASSUME NEW r \in shares', NEW z \in shares', r.id = z.id PROVE r = z
    <3>1. CASE r \in shares /\ z \in shares
      BY <2>3, <3>1 DEF SharesInv, SharingTypeOK
    <3>2. CASE r = new /\ z \in shares
      BY <1>1, <2>3, <3>2
    <3>3. CASE r \in shares /\ z = new
      BY <1>1, <2>3, <3>3
    <3> QED
      BY <1>1, <3>1, <3>2, <3>3
  <2>4. granted' \subseteq Files \X Users
    <3>1. subject.kind = "specific" => subject.file \in Files /\ subject.target \in Users
      BY <1>3, SharingAssumption DEF SharingAssumption, AllSubjects
    <3>2. granted' \subseteq granted \union
             {p \in {<<subject.file, subject.target>>} : subject.kind = "specific"}
      BY DEF InsertShare
    <3> QED
      BY <3>1, <3>2 DEF SharesInv, SharingTypeOK
  <2>5. loose' \subseteq {row.id : row \in shares'}
    <3>1. loose \subseteq {row.id : row \in shares'}
      BY <1>1 DEF SharesInv, SharingTypeOK
    <3>2. id \in {row.id : row \in shares'}
      <4>1. new \in shares' /\ new.id = id
        BY <1>1
      <4> HIDE DEF new
      <4> QED
        BY <4>1
    <3> QED
      BY <1>1, <3>1, <3>2
  <2>6. trash' \in [Files -> 0..2]
    BY <1>1 DEF SharesInv, SharingTypeOK
  <2> QED
    BY <1>2, <2>1, <2>2, <2>3, <2>4, <2>5, <2>6 DEF SharingTypeOK
<1>6. ASSUME NEW z \in Subjects
      PROVE  Cardinality(Valid(z)') + Cardinality(Waiting(z)') <= Cardinality(Sharers)
  <2>1. /\ IsFiniteSet(Valid(z)) /\ Cardinality(Valid(z)) \in Nat
        /\ IsFiniteSet(Waiting(z)) /\ Cardinality(Waiting(z)) \in Nat
        /\ Cardinality(Sharers) \in Nat
        /\ Cardinality(Valid(z)) + Cardinality(Waiting(z)) <= Cardinality(Sharers)
    BY Counts DEF SharesInv
  <2>2. CASE request[t].do = "insert" /\ z = subject
    <3>1. t \in Waiting(z) /\ Waiting(z)' = Waiting(z) \ {t}
      BY <1>1, <1>2, <2>2 DEF Waiting, Idle
    <3>2. Cardinality(Waiting(z)') = Cardinality(Waiting(z)) - 1
      BY <2>1, <3>1, FS_RemoveElement
    <3>3. Valid(z)' \subseteq Valid(z) \union {new}
      BY <1>1, <2>2 DEF Valid
    <3>4. /\ IsFiniteSet(Valid(z) \union {new})
          /\ Cardinality(Valid(z) \union {new}) <= Cardinality(Valid(z)) + 1
          /\ Cardinality(Valid(z) \union {new}) \in Nat
      <4> HIDE DEF new
      <4> QED
        <5>1. /\ IsFiniteSet(Valid(z) \union {new})
              /\ \/ Cardinality(Valid(z) \union {new}) = Cardinality(Valid(z))
                 \/ Cardinality(Valid(z) \union {new}) = Cardinality(Valid(z)) + 1
          BY <2>1, FS_AddElement
        <5> QED
          BY <2>1, <5>1
    <3>5. /\ Cardinality(Valid(z)') <= Cardinality(Valid(z) \union {new})
          /\ Cardinality(Valid(z)') \in Nat
      <4> HIDE DEF new
      <4> QED
        BY <3>3, <3>4, FS_Subset, FS_CardinalityType
    <3> HIDE DEF new
    <3> QED
      BY <2>1, <3>2, <3>4, <3>5
  <2>3. CASE ~(request[t].do = "insert" /\ z = subject)
    <3>1. Valid(z)' \subseteq Valid(z) /\ Waiting(z)' \subseteq Waiting(z)
      <4>1. Waiting(z)' \subseteq Waiting(z)
        BY <1>1, <1>2 DEF Waiting, Idle
      <4>2. ASSUME NEW row \in Valid(z)' PROVE row \in Valid(z)
        <5>1. row \in shares' /\ row.of = z /\ ~row.expired /\ row.id \notin loose'
          BY DEF Valid
        <5>2. row # new
          <6>1. new.id = id /\ new.of = subject
            OBVIOUS
          <6>2. request[t].do = "unchecked" => new.id \in loose'
            BY <1>1, <6>1
          <6> HIDE DEF new
          <6> QED
            BY <1>1, <2>3, <5>1, <6>1, <6>2
        <5> QED
          BY <1>1, <5>1, <5>2 DEF Valid
      <4> QED
        BY <4>1, <4>2
    <3>2. /\ Cardinality(Waiting(z)') <= Cardinality(Waiting(z))
          /\ Cardinality(Waiting(z)') \in Nat
          /\ Cardinality(Valid(z)') <= Cardinality(Valid(z))
          /\ Cardinality(Valid(z)') \in Nat
      BY <2>1, <3>1, FS_Subset, FS_CardinalityType
    <3> QED
      BY <2>1, <3>2
  <2> QED
    BY <2>2, <2>3
<1> QED
  BY <1>5, <1>6 DEF SharesInv

\* After the shares of a file have gone: rows of the others stay as they were.
LEMMA DeleteSharesKeeps ==
  ASSUME SharesInv, NEW f, DeleteShares(f), UNCHANGED <<trash, granted>>,
         request' \in [Sharers -> Jobs],
         \A t \in Sharers : request'[t].do = "insert" => request'[t] = request[t]
  PROVE  SharesInv'
<1>1. /\ shares' = {row \in shares : row.of.file # f}
      /\ loose' = {id \in loose : \A row \in shares : row.id = id => row.of.file # f}
  BY DEF DeleteShares
<1>2. SharingTypeOK' /\ IsFiniteSet(shares')
  <2>1. shares' \subseteq shares
    BY <1>1
  <2>2. IsFiniteSet(shares')
    BY <2>1, FS_Subset DEF SharesInv
  <2>3. loose' \subseteq {row.id : row \in shares'}
    BY <1>1 DEF SharesInv, SharingTypeOK
  <2> QED
    BY <2>1, <2>2, <2>3 DEF SharesInv, SharingTypeOK
<1>3. ASSUME NEW s \in Subjects
      PROVE  Valid(s)' \subseteq Valid(s) /\ Waiting(s)' \subseteq Waiting(s)
  <2>1. ASSUME NEW row \in Valid(s)' PROVE row \notin shares \/ row.id \notin loose
    <3>1. row \in shares' /\ row.id \notin loose'
      BY DEF Valid
    <3>2. ASSUME row.id \in loose, NEW r \in shares, r.id = row.id PROVE r.of.file # f
      BY <1>1, <3>1, <3>2 DEF SharesInv, SharingTypeOK
    <3> QED
      BY <1>1, <3>1, <3>2
  <2>2. Valid(s)' \subseteq Valid(s)
    BY <1>1, <2>1 DEF Valid
  <2>3. Waiting(s)' \subseteq Waiting(s)
    BY DEF Waiting
  <2> QED
    BY <2>2, <2>3
<1> QED
  BY <1>2, <1>3, FewerShares

LEMMA SharingStepKeeps == SharesInv /\ [SharingNext]_shareVars => SharesInv'
<1> SUFFICES ASSUME SharesInv, [SharingNext]_shareVars
             PROVE  SharesInv'
  OBVIOUS
<1>1. ASSUME NEW t \in Sharers, NEW s \in Subjects, LookForShare(t, s)
      PROVE  SharesInv'
  BY <1>1, LookForShareKeeps
<1>2. ASSUME NEW t \in Sharers, NEW id \in ShareIds, InsertShare(t, id)
      PROVE  SharesInv'
  BY <1>2, InsertShareKeeps
<1>3. ASSUME NEW t \in Sharers, NEW f \in Files, PurgeFile(t, f)
      PROVE  SharesInv'
  <2>1. SharingTypeOK' /\ IsFiniteSet(shares')
    BY <1>3 DEF PurgeFile, Proceed, SharesInv, SharingTypeOK, Jobs
  <2>2. ASSUME NEW s \in Subjects
        PROVE  Valid(s)' \subseteq Valid(s) /\ Waiting(s)' \subseteq Waiting(s)
    BY <1>3 DEF PurgeFile, Proceed, Valid, Waiting, SharesInv, SharingTypeOK
  <2> QED
    BY <2>1, <2>2, FewerShares
<1>4. ASSUME NEW t \in Sharers, DropShares(t)
      PROVE  SharesInv'
  <2>1. /\ DeleteShares(request[t].about) /\ UNCHANGED <<trash, granted>>
        /\ request' = [request EXCEPT ![t] = Idle]
    BY <1>4 DEF DropShares, Proceed
  <2>2. /\ request' \in [Sharers -> Jobs]
        /\ \A z \in Sharers : request'[z].do = "insert" => request'[z] = request[z]
    BY <2>1 DEF SharesInv, SharingTypeOK, Jobs, Idle
  <2> QED
    BY <2>1, <2>2, DeleteSharesKeeps
<1>5. ASSUME NEW t \in Sharers, StatementFails(t)
      PROVE  SharesInv'
  <2>1. SharingTypeOK' /\ IsFiniteSet(shares')
    BY <1>5 DEF StatementFails, Proceed, SharesInv, SharingTypeOK, Jobs, Idle
  <2>2. ASSUME NEW s \in Subjects
        PROVE  Valid(s)' \subseteq Valid(s) /\ Waiting(s)' \subseteq Waiting(s)
    BY <1>5 DEF StatementFails, Proceed, Valid, Waiting, SharesInv, SharingTypeOK, Idle
  <2> QED
    BY <2>1, <2>2, FewerShares
<1>6. ASSUME NEW f \in Files, CancelShares(f)
      PROVE  SharesInv'
  <2>1. /\ DeleteShares(f) /\ UNCHANGED <<trash, granted, request>>
        /\ request' \in [Sharers -> Jobs]
    BY <1>6 DEF CancelShares, SharesInv, SharingTypeOK
  <2> QED
    BY <2>1, DeleteSharesKeeps
<1>7. ASSUME NEW f \in Files, RecycleFile(f) \/ RestoreFile(f)
      PROVE  SharesInv'
  <2>1. SharingTypeOK' /\ IsFiniteSet(shares')
    BY <1>7 DEF RecycleFile, RestoreFile, SharesInv, SharingTypeOK
  <2>2. ASSUME NEW s \in Subjects
        PROVE  Valid(s)' \subseteq Valid(s) /\ Waiting(s)' \subseteq Waiting(s)
    BY <1>7 DEF RecycleFile, RestoreFile, Valid, Waiting
  <2> QED
    BY <2>1, <2>2, FewerShares
<1>8. ASSUME NEW row \in shares, ShareExpires(row)
      PROVE  SharesInv'
  <2> DEFINE old == [row EXCEPT !.expired = TRUE]
  <2>1. /\ shares' = (shares \ {row}) \union {old}
        /\ UNCHANGED <<trash, request, granted, loose>>
        /\ old \in Rows /\ old.id = row.id /\ old.expired
    BY <1>8 DEF ShareExpires, SharesInv, SharingTypeOK, Rows
  <2> HIDE DEF old
  <2>2. IsFiniteSet(shares')
    BY <2>1, FS_AddElement, FS_RemoveElement DEF SharesInv
  <2>3. SharingTypeOK'
    <3>1. shares' \subseteq Rows
      BY <2>1 DEF SharesInv, SharingTypeOK
    <3>2. ASSUME NEW r \in shares', NEW z \in shares', r.id = z.id PROVE r = z
      BY <2>1, <3>2 DEF SharesInv, SharingTypeOK
    <3>3. loose' \subseteq {r.id : r \in shares'}
      <4>1. ASSUME NEW r \in shares PROVE \E z \in shares' : z.id = r.id
        BY <2>1
      <4> QED
        BY <2>1, <4>1 DEF SharesInv, SharingTypeOK
    <3> QED
      BY <2>1, <3>1, <3>2, <3>3 DEF SharesInv, SharingTypeOK
  <2>4. ASSUME NEW s \in Subjects
        PROVE  Valid(s)' \subseteq Valid(s) /\ Waiting(s)' \subseteq Waiting(s)
    BY <2>1 DEF Valid, Waiting
  <2> QED
    BY <2>2, <2>3, <2>4, FewerShares
<1>9. CASE UNCHANGED shareVars
  <2>1. SharingTypeOK' /\ IsFiniteSet(shares')
    BY <1>9 DEF shareVars, SharesInv, SharingTypeOK
  <2>2. ASSUME NEW s \in Subjects
        PROVE  Valid(s)' \subseteq Valid(s) /\ Waiting(s)' \subseteq Waiting(s)
    BY <1>9 DEF shareVars, Valid, Waiting
  <2> QED
    BY <2>1, <2>2, FewerShares
<1> QED
  BY <1>1, <1>2, <1>3, <1>4, <1>5, <1>6, <1>7, <1>8, <1>9 DEF SharingNext

LEMMA SharingStart == SharingInit => SharesInv
<1> SUFFICES ASSUME SharingInit PROVE SharesInv
  OBVIOUS
<1>1. SharingTypeOK /\ IsFiniteSet(shares)
  BY FS_EmptySet DEF SharingInit, SharingTypeOK, Jobs, Idle
<1>2. ASSUME NEW s \in Subjects
      PROVE  Cardinality(Valid(s)) + Cardinality(Waiting(s)) <= Cardinality(Sharers)
  <2>1. Valid(s) = {} /\ Waiting(s) = {}
    BY DEF SharingInit, Valid, Waiting, Idle
  <2>2. Cardinality(Sharers) \in Nat
    BY SharingAssumption, FS_CardinalityType DEF SharingAssumption
  <2> QED
    BY <2>1, <2>2, FS_EmptySet
<1> QED
  BY <1>1, <1>2 DEF SharesInv

\* However the requests interleave, with one another and with reports of
\* progress, a file has no more valid links of a kind, and no more grants to a
\* user, than requests under way at a time, unless the look for one failed
\* (handleShareFile, handleCancelShare, handleHardDelete).
THEOREM LinksStayBounded == LearningSpec => []LinksBounded
<1>1. LearningInit => SharesInv
  BY SharingStart DEF LearningInit
<1>2. SharesInv /\ [LearningNext]_<<shareVars, learningVars>> => SharesInv'
  BY SharingStepKeeps DEF LearningNext
<1>3. SharesInv => LinksBounded
  <2> SUFFICES ASSUME SharesInv, NEW s \in Subjects
               PROVE  Cardinality(Valid(s)) <= Cardinality(Sharers)
    BY DEF LinksBounded, Valid
  <2>1. /\ Cardinality(Valid(s)) \in Nat /\ Cardinality(Waiting(s)) \in Nat
        /\ Cardinality(Sharers) \in Nat
    BY Counts
  <2>2. Cardinality(Valid(s)) + Cardinality(Waiting(s)) <= Cardinality(Sharers)
    BY DEF SharesInv
  <2> QED
    BY <2>1, <2>2
<1> QED
  BY <1>1, <1>2, <1>3, PTL DEF LearningSpec

-----------------------------------------------------------------------------
(***************************************************************************)
(* Progress in a video.  A report starts from a maximum that was earned by *)
(* then, and adds no more than its own budget.  While no two reports have  *)
(* overlapped, what a report is to write starts from the row as it is, or  *)
(* from no row.                                                            *)
(***************************************************************************)
ReportsInv ==
    /\ LearningTypeOK
    /\ progress.max <= earned
    /\ \A t \in Reporters : report[t].old.max <= earned
    /\ ~progress.exists => progress = NoRow
    /\ ~overlapped =>
          /\ progress.watched = played
          /\ \A t \in Reporters :
                report[t].at = "write" => report[t].old = progress \/ report[t].old = NoRow

LEMMA RowsAndReports ==
  /\ NoRow \in ProgressRows /\ NoReport \in Reports
  /\ NoRow.max = 0 /\ NoRow.watched = 0 /\ ~NoRow.exists
  /\ NoReport.at = "idle" /\ NoReport.old = NoRow
BY DEF NoRow, NoReport, ProgressRows, Reports

LEMMA BudgetIsNat ==
  ASSUME NEW r \in Reports
  PROVE  Budget(r) \in Nat
BY LearningAssumption DEF LearningAssumption, Budget, Reports

\* A report advances by its budget at most.
LEMMA MaxReachedBound ==
  ASSUME NEW r \in Reports
  PROVE  /\ MaxReached(r) \in Nat /\ MaxReached(r) <= r.old.max + Budget(r)
         /\ MergedDuration(r) \in Nat
<1>1. /\ r.old.max \in Nat /\ r.position \in Nat
      /\ r.duration \in Nat /\ r.old.duration \in Nat
  BY DEF Reports, ProgressRows
<1>2. Budget(r) \in Nat
  BY BudgetIsNat
<1>3. MergedDuration(r) \in Nat
  BY <1>1 DEF MergedDuration, Greatest
<1> QED
  BY <1>1, <1>2, <1>3 DEF MaxReached, Least

LEMMA ReportsKept ==
  ASSUME ReportsInv, [LearningNext]_<<shareVars, learningVars>>
  PROVE  ReportsInv'
<1> USE RowsAndReports
<1>1. ASSUME NEW t \in Reporters, NEW position \in Times, NEW duration \in Times,
             NEW delta \in Deltas, ReceiveReport(t, position, duration, delta)
      PROVE  ReportsInv'
  <2>1. PICK r \in Reports :
            /\ report' = [report EXCEPT ![t] = r]
            /\ r.at = "read" /\ r.old = NoRow
    <3> DEFINE r == [at |-> "read",
                     position |-> IF duration > 0 THEN Least(position, duration)
                                  ELSE position,
                     duration |-> duration, delta |-> delta, old |-> NoRow]
    <3>1. r \in Reports
      BY LearningAssumption DEF LearningAssumption, Reports, Least
    <3>2. report' = [report EXCEPT ![t] = r] /\ r.at = "read" /\ r.old = NoRow
      BY <1>1 DEF ReceiveReport, SetReport
    <3> HIDE DEF r
    <3> QED
      BY <3>1, <3>2
  <2>2. /\ UNCHANGED <<progress, earned, played, overlapped>>
        /\ reports' = reports + 1 /\ reports < MaxReports
    BY <1>1 DEF ReceiveReport
  <2>3. LearningTypeOK'
    BY <2>1, <2>2, LearningAssumption DEF LearningAssumption, ReportsInv, LearningTypeOK
  <2> QED
    BY <2>1, <2>2, <2>3 DEF ReportsInv, LearningTypeOK
<1>2. ASSUME NEW t \in Reporters, ReadProgress(t)
      PROVE  ReportsInv'
  <2>1. PICK row \in {progress, NoRow} :
            report' = [report EXCEPT ![t] = [report[t] EXCEPT !.at = "write", !.old = row]]
    BY <1>2 DEF ReadProgress, SetReport
  <2>2. UNCHANGED <<progress, earned, played, overlapped, reports>>
    BY <1>2 DEF ReadProgress
  <2>3. row \in ProgressRows /\ row.max <= earned
    BY <2>1 DEF ReportsInv, LearningTypeOK
  <2>4. /\ report'[t] \in Reports /\ report'[t].old = row
        /\ \A z \in Reporters \ {t} : report'[z] = report[z]
        /\ report' \in [Reporters -> Reports]
    BY <2>1, <2>3 DEF ReportsInv, LearningTypeOK, Reports
  <2> QED
    BY <2>1, <2>2, <2>3, <2>4 DEF ReportsInv, LearningTypeOK
<1>3. ASSUME NEW t \in Reporters, StoreReport(t)
      PROVE  ReportsInv'
  <2> DEFINE r == report[t]
  <2>1. /\ r \in Reports /\ r.at = "write" /\ Written(t)
        /\ report' = [report EXCEPT ![t] = NoReport]
        /\ earned' = earned + Budget(r)
        /\ played' = played + r.delta
        /\ overlapped' = (overlapped \/ \E s \in Reporters \ {t} : report[s].at = "write")
        /\ reports' = reports
    BY <1>3 DEF StoreReport, SetReport, ReportsInv, LearningTypeOK
  <2>2. progress' = [exists |-> TRUE, max |-> MaxReached(r),
                     duration |-> MergedDuration(r), watched |-> r.old.watched + r.delta]
    BY <1>3 DEF StoreReport
  <2>3. /\ Budget(r) \in Nat /\ MaxReached(r) \in Nat /\ MergedDuration(r) \in Nat
        /\ MaxReached(r) <= r.old.max + Budget(r)
        /\ r.old.max \in Nat /\ r.old.watched \in Nat /\ r.delta \in Nat
        /\ r.old.max <= earned
        /\ earned \in Nat /\ played \in Nat
    BY <2>1, BudgetIsNat, MaxReachedBound DEF Reports, ProgressRows, ReportsInv, LearningTypeOK
  <2>4. /\ progress' \in ProgressRows /\ progress'.exists
        /\ progress'.max = MaxReached(r) /\ progress'.watched = r.old.watched + r.delta
    BY <2>2, <2>3 DEF ProgressRows
  <2>5. r.old \in ProgressRows
    BY <2>1 DEF Reports
  <2>6. /\ report' \in [Reporters -> Reports] /\ report'[t] = NoReport
        /\ \A z \in Reporters \ {t} : report'[z] = report[z]
    BY <2>1 DEF ReportsInv, LearningTypeOK
  <2>7. (~overlapped => r.old = progress \/ r.old = NoRow) /\ (r.old.exists \/ ~progress.exists)
    BY <2>1 DEF ReportsInv, Written
  <2>8. LearningTypeOK'
    BY <2>1, <2>3, <2>4, <2>6 DEF ReportsInv, LearningTypeOK
  <2> HIDE DEF r
  <2>9. progress'.max <= earned'
    BY <2>1, <2>3, <2>4
  <2>10. \A z \in Reporters : report'[z].old.max <= earned'
    <3>1. ASSUME NEW z \in Reporters \ {t} PROVE report'[z].old.max <= earned'
      <4>1. report[z].old.max <= earned /\ report[z].old.max \in Nat
        BY DEF ReportsInv, LearningTypeOK, Reports, ProgressRows
      <4> QED
        BY <2>1, <2>3, <2>6, <4>1
    <3>2. report'[t].old.max <= earned'
      BY <2>1, <2>3, <2>6
    <3> QED
      BY <3>1, <3>2
  <2>11. ASSUME ~overlapped'
         PROVE  /\ progress'.watched = played'
                /\ \A z \in Reporters : report'[z].at # "write"
    <3>1. r.old.watched = played
      <4>1. progress.watched = played /\ (~progress.exists => progress = NoRow)
        BY <2>1, <2>11 DEF ReportsInv
      <4> QED
        BY <2>1, <2>7, <2>11, <4>1
    <3>2. \A z \in Reporters : report'[z].at # "write"
      BY <2>1, <2>6, <2>11
    <3> QED
      BY <2>1, <2>4, <3>1, <3>2
  <2> QED
    BY <2>4, <2>8, <2>9, <2>10, <2>11 DEF ReportsInv
<1>4. ASSUME NEW t \in Reporters, ReportFails(t)
      PROVE  ReportsInv'
  <2>1. /\ report' = [report EXCEPT ![t] = NoReport]
        /\ UNCHANGED <<progress, reports, earned, played, overlapped>>
    BY <1>4 DEF ReportFails, SetReport
  <2> QED
    BY <2>1 DEF ReportsInv, LearningTypeOK
<1>5. CASE UNCHANGED learningVars
  BY <1>5 DEF learningVars, ReportsInv, LearningTypeOK
<1>6. CASE UNCHANGED <<shareVars, learningVars>>
  BY <1>5, <1>6
<1> QED
  BY <1>1, <1>2, <1>3, <1>4, <1>5, <1>6 DEF LearningNext

LEMMA ReportsAlways == LearningSpec => []ReportsInv
<1>1. LearningInit => ReportsInv
  <2> SUFFICES ASSUME LearningInit PROVE ReportsInv
    OBVIOUS
  <2>1. /\ progress = NoRow /\ reports = 0 /\ earned = 0 /\ played = 0
        /\ overlapped = FALSE
        /\ \A t \in Reporters : report[t] = NoReport
        /\ report \in [Reporters -> Reports]
    BY RowsAndReports DEF LearningInit
  <2>2. LearningTypeOK
    <3>1. reports \in Nat /\ reports <= MaxReports /\ earned \in Nat /\ played \in Nat
      BY <2>1, LearningAssumption DEF LearningAssumption
    <3>2. progress \in ProgressRows
      BY <2>1, RowsAndReports
    <3>3. overlapped \in BOOLEAN
      BY <2>1
    <3> QED
      BY <2>1, <3>1, <3>2, <3>3 DEF LearningTypeOK
  <2>3. \A t \in Reporters : report[t].old.max <= earned /\ report[t].at = "idle"
    BY <2>1, RowsAndReports
  <2> QED
    BY <2>1, <2>2, <2>3, RowsAndReports DEF ReportsInv
<1>2. ReportsInv /\ [LearningNext]_<<shareVars, learningVars>> => ReportsInv'
  BY ReportsKept
<1> QED
  BY <1>1, <1>2, PTL DEF LearningSpec

\* The furthest point reached in a video is earned by playing it, for any
\* number of reports under way (handleUpdateVideoProgress).
THEOREM ProgressIsEarned == LearningSpec => []MaxReachedEarned
<1>1. ReportsInv => MaxReachedEarned
  BY DEF ReportsInv, MaxReachedEarned
<1> QED
  BY <1>1, ReportsAlways, PTL

\* The time watched adds up unless two reports have overlapped
\* (handleUpdateVideoProgress).
THEOREM TimeIsKept == LearningSpec => []WatchedKept
<1>1. ReportsInv => WatchedKept
  BY DEF ReportsInv, WatchedKept
<1> QED
  BY <1>1, ReportsAlways, PTL

-----------------------------------------------------------------------------
(***************************************************************************)
(* Rooms.  Playlist ids are never used again, so each has one owner for    *)
(* good, by, even after its row has gone: the rooms, the items and the     *)
(* requests that name the id all are of that user.  An item gets into a    *)
(* playlist only past a look for the right of its owner.                   *)
(***************************************************************************)
TasksOK ==
    \A t \in Hosts :
        /\ step[t] # "idle" =>
              task[t].by \in Users /\ task[t].playlist \in 1..lastPlaylist
        /\ step[t] \in {"access", "type", "insert", "remove"} => task[t].file \in Files

GrantsTraced ==
    \A row \in shares :
        row.of.kind = "specific" => <<row.of.file, row.of.target>> \in granted

OwnedBy(by) ==
    /\ \A p \in DOMAIN playlists : playlists[p].by = by[p]
    /\ \A room \in rooms :
          room.playlist \in 1..lastPlaylist /\ room.host = by[room.playlist]
    /\ \A t \in Hosts : step[t] # "idle" => task[t].by = by[task[t].playlist]
    /\ \A t \in Hosts :
          step[t] \in {"type", "insert"} => HasRight(task[t].by, task[t].file)
    /\ \A item \in items :
          item[1] \in 1..lastPlaylist /\ HasRight(by[item[1]], item[2])

RoomsInv == RoomsTypeOK /\ TasksOK

Rest == <<playlists, lastPlaylist, items, rooms, stray>>

\* A request goes on to its next statement, or ends.
LEMMA Proceeds ==
  ASSUME RoomsInv, NEW by, OwnedBy(by), UNCHANGED <<shareVars, Rest, started>>,
         NEW t \in Hosts,
         \/ Done(t)
         \/ /\ UNCHANGED <<task, crossed>> /\ step[t] # "idle"
            /\ \/ Goto(t, "playlist") \/ Goto(t, "room")
               \/ /\ Goto(t, "type") \/ Goto(t, "insert")
                  /\ step[t] \in {"access", "type"}
                  /\ HasRight(task[t].by, task[t].file)
  PROVE  RoomsInv' /\ OwnedBy(by)'
<1> USE DEF Rest
<1>1. CASE Done(t)
  <2>1. /\ step' = [step EXCEPT ![t] = "idle"] /\ task' = [task EXCEPT ![t] = NoTask]
        /\ crossed' = crossed \ {t}
    BY <1>1 DEF Done, Goto
  <2>2. NoTask \in Tasks
    BY RoomsAssumption DEF NoTask, Tasks, RoomsAssumption
  <2>3. RoomsTypeOK'
    BY <2>1, <2>2 DEF RoomsInv, RoomsTypeOK
  <2>4. TasksOK'
    BY <2>1 DEF RoomsInv, RoomsTypeOK, TasksOK
  <2>5. OwnedBy(by)'
    BY <2>1 DEF RoomsInv, RoomsTypeOK, OwnedBy, HasRight, shareVars
  <2> QED
    BY <2>3, <2>4, <2>5 DEF RoomsInv
<1>2. CASE /\ UNCHANGED <<task, crossed>> /\ step[t] # "idle"
           /\ \/ Goto(t, "playlist") \/ Goto(t, "room")
              \/ /\ Goto(t, "type") \/ Goto(t, "insert")
                 /\ step[t] \in {"access", "type"}
                 /\ HasRight(task[t].by, task[t].file)
  <2>1. RoomsTypeOK'
    BY <1>2 DEF RoomsInv, RoomsTypeOK, Goto
  <2>2. TasksOK'
    BY <1>2 DEF RoomsInv, RoomsTypeOK, TasksOK, Goto
  <2>3. OwnedBy(by)'
    BY <1>2 DEF RoomsInv, RoomsTypeOK, OwnedBy, HasRight, shareVars, Goto
  <2> QED
    BY <2>1, <2>2, <2>3 DEF RoomsInv
<1> QED
  BY <1>1, <1>2

\* A request begins: playlistOwned said that the playlist is the user's.
LEMMA Begins ==
  ASSUME RoomsInv, NEW by, OwnedBy(by), UNCHANGED shareVars,
         NEW t \in Hosts, NEW op, NEW u \in Users, NEW p, NEW f, NEW where,
         Start(t, op, u, p, f, where),
         \/ op \in {"add", "remove"} /\ f \in Files /\ where \in {"access", "remove"}
         \/ /\ op \in {"delete", "retype", "room"} /\ f = NoFile
            /\ where \in {"items", "retype", "roomtype"}
  PROVE  RoomsInv' /\ OwnedBy(by)'
<1> DEFINE new == [op |-> op, by |-> u, playlist |-> p, file |-> f]
<1>1. /\ step' = [step EXCEPT ![t] = where] /\ task' = [task EXCEPT ![t] = new]
      /\ started' = started + 1 /\ started < MaxRequests
      /\ UNCHANGED <<playlists, lastPlaylist, items, rooms, stray>>
      /\ p \in DOMAIN playlists /\ playlists[p].by = u
  BY DEF Start, Goto, Owned
<1>2. crossed' \subseteq Hosts
  BY DEF Start, Busy, RoomsInv, RoomsTypeOK
<1>3. p \in 1..lastPlaylist /\ p \in 0..MaxPlaylists
  BY <1>1, RoomsAssumption DEF RoomsInv, RoomsTypeOK, RoomsAssumption
<1>4. new \in Tasks
  BY <1>3 DEF Tasks
<1>5. new.by = u /\ new.playlist = p /\ new.file = f
  OBVIOUS
<1> HIDE DEF new
<1>6. RoomsTypeOK'
  <2>1. started' \in 0..MaxRequests
    BY <1>1, RoomsAssumption DEF RoomsInv, RoomsTypeOK, RoomsAssumption
  <2>2. step' \in [Hosts -> {"idle", "access", "type", "insert", "remove", "items",
                             "playlist", "retype", "roomtype", "room"}]
    BY <1>1 DEF RoomsInv, RoomsTypeOK
  <2>3. task' \in [Hosts -> Tasks]
    BY <1>1, <1>4 DEF RoomsInv, RoomsTypeOK
  <2> QED
    BY <1>1, <1>2, <2>1, <2>2, <2>3 DEF RoomsInv, RoomsTypeOK
<1>7. TasksOK'
  <2>1. ASSUME NEW z \in Hosts \ {t}
        PROVE  step'[z] = step[z] /\ task'[z] = task[z]
    BY <1>1 DEF RoomsInv, RoomsTypeOK
  <2>2. step'[t] = where /\ task'[t] = new
    BY <1>1 DEF RoomsInv, RoomsTypeOK
  <2> QED
    BY <1>1, <1>3, <1>5, <2>1, <2>2 DEF RoomsInv, TasksOK
<1>8. OwnedBy(by)'
  <2>1. ASSUME NEW z \in Hosts \ {t}
        PROVE  step'[z] = step[z] /\ task'[z] = task[z]
    BY <1>1 DEF RoomsInv, RoomsTypeOK
  <2>2. step'[t] = where /\ task'[t] = new
    BY <1>1 DEF RoomsInv, RoomsTypeOK
  <2>3. u = by[p]
    BY <1>1 DEF OwnedBy
  <2> QED
    BY SMTT(30), <1>1, <1>5, <2>1, <2>2, <2>3 DEF OwnedBy, HasRight, shareVars
<1> QED
  BY <1>6, <1>7, <1>8 DEF RoomsInv

\* A playlist is created under an id that no room, item or request names.
LEMMA Creates ==
  ASSUME RoomsInv, NEW by, OwnedBy(by), UNCHANGED shareVars,
         NEW u \in Users, NEW type \in PlaylistTypes, CreatePlaylist(u, type)
  PROVE  RoomsInv' /\ \E new : OwnedBy(new)'
<1> DEFINE p == lastPlaylist + 1
           row == [by |-> u, type |-> type]
           new == [q \in 1..p |-> IF q = p THEN u ELSE by[q]]
<1>1. /\ p <= MaxPlaylists /\ lastPlaylist' = p
      /\ playlists' = [q \in DOMAIN playlists \union {p} |->
              IF q = p THEN row ELSE playlists[q]]
      /\ UNCHANGED <<items, rooms, step, task, crossed, stray, started>>
  BY DEF CreatePlaylist
<1>2. /\ lastPlaylist \in Nat /\ p \in Nat /\ p \notin 1..lastPlaylist
      /\ 1..p = (1..lastPlaylist) \union {p}
      /\ p \in 0..MaxPlaylists
  BY <1>1, RoomsAssumption DEF RoomsInv, RoomsTypeOK, RoomsAssumption
<1>3. row \in Playlists /\ row.by = u
  BY DEF Playlists
<1>4. RoomsTypeOK'
  <2>1. DOMAIN playlists' \subseteq 1..lastPlaylist'
    BY <1>1, <1>2 DEF RoomsInv, RoomsTypeOK
  <2>2. \A q \in DOMAIN playlists' : playlists'[q] \in Playlists
    BY <1>1, <1>3 DEF RoomsInv, RoomsTypeOK
  <2> HIDE DEF p, row
  <2> QED
    BY <1>1, <1>2, <2>1, <2>2 DEF RoomsInv, RoomsTypeOK
<1>5. TasksOK'
  <2> HIDE DEF p, row
  <2> QED
    BY <1>1, <1>2 DEF RoomsInv, TasksOK
<1>6. PICK then : then = new
  OBVIOUS
<1>7. OwnedBy(then)'
  <2>1. \A q \in 1..lastPlaylist : then[q] = by[q]
    BY <1>2, <1>6
  <2>2. then[p] = u
    BY <1>2, <1>6
  <2> HIDE DEF p, row, new
  <2>3. ASSUME NEW q \in DOMAIN playlists' PROVE playlists'[q].by = then[q]
    <3>1. CASE q = p
      BY <1>1, <1>3, <2>2, <3>1
    <3>2. CASE q # p
      <4>1. q \in DOMAIN playlists /\ playlists'[q] = playlists[q]
        BY <1>1, <2>3, <3>2
      <4>2. q \in 1..lastPlaylist
        BY <4>1 DEF RoomsInv, RoomsTypeOK
      <4> QED
        BY <2>1, <4>1, <4>2 DEF OwnedBy
    <3> QED
      BY <3>1, <3>2
  <2>4. \A q \in 1..lastPlaylist : q \in 1..lastPlaylist'
    BY <1>1, <1>2
  <2>5. \A room \in rooms' :
            room.playlist \in 1..lastPlaylist' /\ room.host = then[room.playlist]
    BY <1>1, <2>1, <2>4 DEF OwnedBy
  <2>6. \A z \in Hosts : step'[z] # "idle" => task'[z].by = then[task'[z].playlist]
    BY <1>1, <2>1 DEF OwnedBy, RoomsInv, TasksOK
  <2>7. \A item \in items' :
            item[1] \in 1..lastPlaylist' /\ HasRight(then[item[1]], item[2])'
    BY <1>1, <2>1, <2>4 DEF OwnedBy, HasRight, shareVars
  <2>8. \A z \in Hosts :
            step'[z] \in {"type", "insert"} => HasRight(task[z].by, task[z].file)'
    BY <1>1 DEF OwnedBy, HasRight, shareVars
  <2> QED
    BY <2>3, <2>5, <2>6, <2>7, <2>8 DEF OwnedBy
<1> QED
  BY <1>4, <1>5, <1>7 DEF RoomsInv

\* A request changes the rows and ends.
LEMMA Ends ==
  ASSUME RoomsInv, NEW by, OwnedBy(by), UNCHANGED <<shareVars, lastPlaylist, started>>,
         NEW t \in Hosts, Done(t),
         /\ DOMAIN playlists' \subseteq DOMAIN playlists
         /\ \A p \in DOMAIN playlists' :
                playlists'[p] \in Playlists /\ playlists'[p].by = playlists[p].by,
         items' \subseteq PlaylistIds \X Files, stray' \subseteq items',
         \A item \in items' \ items :
            item[1] \in 1..lastPlaylist /\ HasRight(by[item[1]], item[2]),
         rooms' \subseteq RoomRows,
         \A room \in rooms' \ rooms :
            room.playlist \in 1..lastPlaylist /\ room.host = by[room.playlist]
  PROVE  RoomsInv' /\ OwnedBy(by)'
<1>1. /\ step' = [step EXCEPT ![t] = "idle"] /\ task' = [task EXCEPT ![t] = NoTask]
      /\ crossed' = crossed \ {t}
  BY DEF Done, Goto
<1>2. NoTask \in Tasks
  BY RoomsAssumption DEF NoTask, Tasks, RoomsAssumption
<1>3. RoomsTypeOK'
  <2>1. /\ step' \in [Hosts -> {"idle", "access", "type", "insert", "remove", "items",
                                "playlist", "retype", "roomtype", "room"}]
        /\ task' \in [Hosts -> Tasks]
        /\ crossed' \subseteq Hosts
    BY <1>1, <1>2 DEF RoomsInv, RoomsTypeOK
  <2>2. DOMAIN playlists' \subseteq 1..lastPlaylist'
    BY DEF RoomsInv, RoomsTypeOK
  <2> QED
    BY <2>1, <2>2 DEF RoomsInv, RoomsTypeOK
<1>4. TasksOK'
  BY <1>1 DEF RoomsInv, RoomsTypeOK, TasksOK
<1>5. OwnedBy(by)'
  <2>1. \A p \in DOMAIN playlists' : playlists'[p].by = by[p]
    BY DEF OwnedBy
  <2>2. \A room \in rooms' : room.playlist \in 1..lastPlaylist' /\ room.host = by[room.playlist]
    BY DEF OwnedBy
  <2>3. \A item \in items' : item[1] \in 1..lastPlaylist' /\ HasRight(by[item[1]], item[2])'
    BY DEF OwnedBy, HasRight, shareVars
  <2>4. \A z \in Hosts :
            step'[z] # "idle" => step'[z] = step[z] /\ task'[z] = task[z]
    BY <1>1 DEF RoomsInv, RoomsTypeOK
  <2> QED
    BY SMTT(30), <2>1, <2>2, <2>3, <2>4 DEF OwnedBy, HasRight, shareVars
<1> QED
  BY <1>3, <1>4, <1>5 DEF RoomsInv

\* What the requests about playlists and rooms do, one at a time.
LEMMA RoomsStepKeeps ==
  ASSUME RoomsInv, GrantsTraced, NEW by, OwnedBy(by), RoomsNext, UNCHANGED shareVars
  PROVE  RoomsInv' /\ \E then : OwnedBy(then)'
<1>1. ASSUME NEW u \in Users, NEW type \in PlaylistTypes, CreatePlaylist(u, type)
      PROVE  RoomsInv' /\ \E then : OwnedBy(then)'
  BY <1>1, Creates
<1>2. ASSUME NEW t \in Hosts, NEW u \in Users, NEW p \in DOMAIN playlists, NEW f \in Files,
             \/ Start(t, "add", u, p, f, "access")
             \/ Start(t, "remove", u, p, f, "remove")
      PROVE  RoomsInv' /\ \E then : OwnedBy(then)'
  BY <1>2, Begins
<1>3. ASSUME NEW t \in Hosts, NEW u \in Users, NEW p \in DOMAIN playlists,
             \/ Start(t, "delete", u, p, NoFile, "items")
             \/ Start(t, "retype", u, p, NoFile, "retype")
             \/ StartRoom(t, u, p)
      PROVE  RoomsInv' /\ \E then : OwnedBy(then)'
  BY <1>3, Begins DEF StartRoom
<1>4. ASSUME NEW t \in Hosts, CheckAccess(t)
      PROVE  RoomsInv' /\ \E then : OwnedBy(then)'
  <2>1. UNCHANGED <<Rest, started>> /\ step[t] = "access"
    BY <1>4 DEF CheckAccess, Rest
  <2>2. ASSUME Accessible(task[t].by, task[t].file, {})
        PROVE  HasRight(task[t].by, task[t].file)
    <3>1. CASE Owner[task[t].file] = task[t].by
      BY <3>1 DEF HasRight
    <3>2. CASE SharedWith(task[t].by, task[t].file)
      <4>1. PICK row \in shares :
              row.of = [file |-> task[t].file, kind |-> "specific", target |-> task[t].by]
        BY <3>2 DEF SharedWith
      <4>2. /\ row.of.file = task[t].file /\ row.of.kind = "specific"
            /\ row.of.target = task[t].by
        BY <4>1
      <4> QED
        BY <4>2 DEF GrantsTraced, HasRight
    <3> QED
      BY <2>2, <3>1, <3>2 DEF Accessible
  <2> QED
    BY <1>4, <2>1, <2>2, Proceeds DEF CheckAccess
<1>5. ASSUME NEW t \in Hosts, CheckType(t)
      PROVE  RoomsInv' /\ \E then : OwnedBy(then)'
  <2>1. UNCHANGED <<Rest, started>> /\ step[t] = "type"
    BY <1>5 DEF CheckType, Rest
  <2>2. HasRight(task[t].by, task[t].file)
    BY <2>1 DEF OwnedBy
  <2> QED
    BY <1>5, <2>1, <2>2, Proceeds DEF CheckType
<1>6. ASSUME NEW t \in Hosts, InsertItem(t)
      PROVE  RoomsInv' /\ \E then : OwnedBy(then)'
  <2> DEFINE item == <<task[t].playlist, task[t].file>>
  <2>1. /\ step[t] = "insert" /\ items' = items \union {item} /\ Done(t)
        /\ stray' \subseteq stray \union {item}
        /\ UNCHANGED <<playlists, lastPlaylist, rooms, started>>
    BY <1>6 DEF InsertItem
  <2>2. /\ task[t].playlist \in 1..lastPlaylist /\ task[t].file \in Files
        /\ HasRight(by[task[t].playlist], task[t].file)
    BY <2>1 DEF RoomsInv, TasksOK, OwnedBy
  <2>3. task[t].playlist \in PlaylistIds
    BY <2>2, RoomsAssumption DEF RoomsInv, RoomsTypeOK, PlaylistIds, RoomsAssumption
  <2>4. /\ item \in PlaylistIds \X Files /\ item[1] = task[t].playlist
        /\ item[2] = task[t].file
    BY <2>2, <2>3
  <2> HIDE DEF item
  <2>5. /\ items' \subseteq PlaylistIds \X Files /\ stray' \subseteq items'
        /\ rooms' \subseteq RoomRows
        /\ \A p \in DOMAIN playlists' : playlists'[p] \in Playlists
    BY <1>6, <2>1, <2>4 DEF InsertItem, RoomsInv, RoomsTypeOK
  <2>6. \A i \in items' \ items : i[1] \in 1..lastPlaylist /\ HasRight(by[i[1]], i[2])
    BY <2>1, <2>2, <2>4
  <2> QED
    BY <2>1, <2>5, <2>6, Ends
<1>7. ASSUME NEW t \in Hosts, RemoveItem(t)
      PROVE  RoomsInv' /\ \E then : OwnedBy(then)'
  BY <1>7, Ends DEF RemoveItem, RoomsInv, RoomsTypeOK
<1>8. ASSUME NEW t \in Hosts, NEW type \in PlaylistTypes, ChangeType(t, type)
      PROVE  RoomsInv' /\ \E then : OwnedBy(then)'
  <2>1. \A p \in DOMAIN playlists' :
            playlists'[p] \in Playlists /\ playlists'[p].by = playlists[p].by
    BY <1>8 DEF ChangeType, RoomsInv, RoomsTypeOK, Playlists
  <2>2. /\ Done(t) /\ UNCHANGED <<lastPlaylist, items, rooms, stray, started>>
        /\ DOMAIN playlists' = DOMAIN playlists
    BY <1>8 DEF ChangeType
  <2> QED
    BY <2>1, <2>2, Ends DEF RoomsInv, RoomsTypeOK
<1>9. ASSUME NEW t \in Hosts, DeleteItems(t)
      PROVE  RoomsInv' /\ \E then : OwnedBy(then)'
  <2>1. /\ items' \subseteq items /\ stray' \subseteq items'
        /\ step[t] = "items" /\ Goto(t, "playlist")
        /\ UNCHANGED <<playlists, lastPlaylist, rooms, task, crossed, started>>
    BY <1>9 DEF DeleteItems, RoomsInv, RoomsTypeOK
  <2>2. RoomsTypeOK'
    BY <2>1 DEF RoomsInv, RoomsTypeOK, Goto
  <2>3. TasksOK'
    BY <2>1 DEF RoomsInv, RoomsTypeOK, TasksOK, Goto
  <2>4. OwnedBy(by)'
    BY <2>1 DEF RoomsInv, RoomsTypeOK, OwnedBy, HasRight, shareVars, Goto
  <2> QED
    BY <2>2, <2>3, <2>4 DEF RoomsInv
<1>10. ASSUME NEW t \in Hosts, DeletePlaylist(t)
       PROVE  RoomsInv' /\ \E then : OwnedBy(then)'
  <2>1. /\ playlists' = [q \in DOMAIN playlists \ {task[t].playlist} |-> playlists[q]]
        /\ Done(t) /\ UNCHANGED <<lastPlaylist, items, rooms, stray, started>>
    BY <1>10 DEF DeletePlaylist
  <2> QED
    BY <2>1, Ends DEF RoomsInv, RoomsTypeOK
<1>11. ASSUME NEW t \in Hosts, CheckRoomType(t)
       PROVE  RoomsInv' /\ \E then : OwnedBy(then)'
  <2>1. UNCHANGED <<Rest, started>> /\ step[t] = "roomtype"
    BY <1>11 DEF CheckRoomType, Rest
  <2> QED
    BY <1>11, <2>1, Proceeds DEF CheckRoomType
<1>12. ASSUME NEW t \in Hosts, NEW code \in Codes, InsertRoom(t, code)
       PROVE  RoomsInv' /\ \E then : OwnedBy(then)'
  <2> DEFINE room == [code |-> code, host |-> task[t].by, playlist |-> task[t].playlist,
                      expired |-> FALSE]
  <2>1. /\ step[t] = "room" /\ rooms' = rooms \union {room} /\ Done(t)
        /\ UNCHANGED <<playlists, lastPlaylist, items, stray, started>>
    BY <1>12 DEF InsertRoom
  <2>2. /\ task[t].playlist \in 1..lastPlaylist /\ task[t].by \in Users
        /\ task[t].by = by[task[t].playlist]
    BY <2>1 DEF RoomsInv, TasksOK, OwnedBy
  <2>3. task[t].playlist \in PlaylistIds
    BY <2>2, RoomsAssumption DEF RoomsInv, RoomsTypeOK, PlaylistIds, RoomsAssumption
  <2>4. room \in RoomRows /\ room.playlist = task[t].playlist /\ room.host = task[t].by
    BY <2>2, <2>3 DEF RoomRows
  <2> HIDE DEF room
  <2>5. rooms' \subseteq RoomRows
    BY <2>1, <2>4 DEF RoomsInv, RoomsTypeOK
  <2>6. \A r \in rooms' \ rooms : r.playlist \in 1..lastPlaylist /\ r.host = by[r.playlist]
    BY <2>1, <2>2, <2>4
  <2> QED
    BY <2>1, <2>5, <2>6, Ends DEF RoomsInv, RoomsTypeOK
<1>13. ASSUME NEW t \in Hosts, GiveUp(t)
       PROVE  RoomsInv' /\ \E then : OwnedBy(then)'
  BY <1>13, Proceeds DEF GiveUp, Rest
<1>14. ASSUME NEW room \in rooms, DeleteRoom(room) \/ RoomExpires(room)
       PROVE  RoomsInv' /\ \E then : OwnedBy(then)'
  <2> DEFINE old == [room EXCEPT !.expired = TRUE]
  <2>1. /\ rooms' \subseteq rooms \union {old}
        /\ UNCHANGED <<playlists, lastPlaylist, items, step, task, crossed, stray, started>>
    BY <1>14 DEF DeleteRoom, RoomExpires
  <2>2. old \in RoomRows /\ old.playlist = room.playlist /\ old.host = room.host
    BY DEF RoomsInv, RoomsTypeOK, RoomRows
  <2> HIDE DEF old
  <2>3. RoomsTypeOK'
    BY <2>1, <2>2 DEF RoomsInv, RoomsTypeOK
  <2>4. TasksOK'
    BY <2>1 DEF RoomsInv, TasksOK
  <2>5. OwnedBy(by)'
    BY <2>1, <2>2 DEF OwnedBy, HasRight, shareVars
  <2> QED
    BY <2>3, <2>4, <2>5 DEF RoomsInv
<1> QED
  BY <1>1, <1>2, <1>3, <1>4, <1>5, <1>6, <1>7, <1>8, <1>9, <1>10, <1>11, <1>12, <1>13,
     <1>14 DEF RoomsNext

\* The requests to share never take a grant out of the history.
LEMMA GrantsKept ==
  ASSUME SharesInv, GrantsTraced, [SharingNext]_shareVars
  PROVE  GrantsTraced' /\ granted \subseteq granted'
<1>1. ASSUME NEW t \in Sharers, NEW id \in ShareIds, InsertShare(t, id)
      PROVE  GrantsTraced' /\ granted \subseteq granted'
  <2> DEFINE new == [id |-> id, of |-> request[t].about, expired |-> FALSE]
  <2>1. /\ shares' = shares \union {new} /\ new.of = request[t].about
        /\ granted' = IF request[t].about.kind = "specific"
                        THEN granted \union {<<request[t].about.file, request[t].about.target>>}
                        ELSE granted
    BY <1>1 DEF InsertShare
  <2> HIDE DEF new
  <2> QED
    BY <2>1 DEF GrantsTraced
<1>2. ASSUME NEW row \in shares, ShareExpires(row)
      PROVE  GrantsTraced' /\ granted \subseteq granted'
  <2> DEFINE old == [row EXCEPT !.expired = TRUE]
  <2>1. shares' = (shares \ {row}) \union {old} /\ granted' = granted /\ old.of = row.of
    BY <1>2 DEF ShareExpires, SharesInv, SharingTypeOK, Rows
  <2> HIDE DEF old
  <2> QED
    BY <2>1 DEF GrantsTraced
<1>3. ASSUME shares' \subseteq shares, granted' = granted
      PROVE  GrantsTraced' /\ granted \subseteq granted'
  BY <1>3 DEF GrantsTraced
<1> QED
  BY <1>1, <1>2, <1>3
     DEF SharingNext, shareVars, LookForShare, PurgeFile, DropShares, StatementFails,
         CancelShares, RecycleFile, RestoreFile, DeleteShares

RightsInv == SharesInv /\ GrantsTraced /\ RoomsInv /\ \E by : OwnedBy(by)

LEMMA RightsKept == RightsInv /\ [Next]_vars => RightsInv'
<1> SUFFICES ASSUME RightsInv, [Next]_vars PROVE RightsInv'
  OBVIOUS
<1>1. PICK by : OwnedBy(by)
  BY DEF RightsInv
<1>2. ASSUME [SharingNext]_shareVars, UNCHANGED roomVars PROVE RightsInv'
  <2>1. SharesInv' /\ GrantsTraced' /\ granted \subseteq granted'
    BY <1>2, SharingStepKeeps, GrantsKept DEF RightsInv
  <2>2. RoomsInv'
    BY <1>2 DEF RightsInv, RoomsInv, RoomsTypeOK, TasksOK, roomVars
  <2>3. \A u, f : HasRight(u, f) => HasRight(u, f)'
    BY <2>1 DEF HasRight
  <2>4. OwnedBy(by)'
    BY <1>1, <1>2, <2>3 DEF OwnedBy, roomVars
  <2> QED
    BY <2>1, <2>2, <2>4 DEF RightsInv
<1>3. ASSUME RoomsNext, UNCHANGED shareVars PROVE RightsInv'
  <2>1. RoomsInv' /\ \E then : OwnedBy(then)'
    BY <1>1, <1>3, RoomsStepKeeps DEF RightsInv
  <2>2. SharesInv' /\ GrantsTraced'
    BY <1>3, SharingStepKeeps, GrantsKept DEF RightsInv
  <2> QED
    BY <2>1, <2>2 DEF RightsInv
<1> QED
  BY <1>2, <1>3 DEF Next, vars

LEMMA RightsAlways == Spec => []RightsInv
<1>1. Init => RightsInv
  <2> SUFFICES ASSUME Init PROVE RightsInv
    OBVIOUS
  <2>1. SharesInv /\ GrantsTraced
    BY SharingStart DEF Init, SharingInit, GrantsTraced
  <2>2. /\ NoTask \in Tasks
    BY RoomsAssumption DEF NoTask, Tasks, RoomsAssumption
  <2>3. RoomsTypeOK
    <3>1. /\ step \in [Hosts -> {"idle", "access", "type", "insert", "remove", "items",
                                 "playlist", "retype", "roomtype", "room"}]
          /\ task \in [Hosts -> Tasks]
      BY <2>2 DEF Init
    <3>2. DOMAIN playlists = {} /\ lastPlaylist \in 0..MaxPlaylists
          /\ started \in 0..MaxRequests
      BY RoomsAssumption DEF Init, RoomsAssumption
    <3> QED
      BY <3>1, <3>2 DEF Init, RoomsTypeOK
  <2>4. TasksOK /\ OwnedBy(playlists)
    <3>1. /\ DOMAIN playlists = {} /\ rooms = {} /\ items = {}
          /\ \A t \in Hosts : step[t] = "idle"
      BY DEF Init
    <3> QED
      BY <3>1 DEF TasksOK, OwnedBy
  <2> QED
    BY <2>1, <2>3, <2>4 DEF RightsInv, RoomsInv
<1> QED
  BY <1>1, RightsKept, PTL DEF Spec

\* The types of Rooms together with Sharing.
THEOREM RoomsTypeCorrect == Spec => []TypeOK
<1>1. RightsInv => TypeOK
  BY DEF RightsInv, RoomsInv, SharesInv, TypeOK
<1> QED
  BY <1>1, RightsAlways, PTL

\* Whoever opens a file does so in the right of its owner or of a user it was
\* shared with, whatever rooms and playlists there are and however requests to
\* share, to purge, and about playlists and rooms interleave
\* (handleFileDownload, handlePlaylists, handleRooms).
THEOREM RoomsKeepRights == Spec => []RightsReachOwner
<1>1. RightsInv => RightsReachOwner
  <2> SUFFICES ASSUME RightsInv PROVE RightsReachOwner
    OBVIOUS
  <2>1. PICK by : OwnedBy(by)
    BY DEF RightsInv
  <2>2. ASSUME NEW f \in Files, NEW u \in Users \union {Anyone},
               NEW h \in OpensInRightOf(u, f)
        PROVE  HasRight(h, f)
    <3>1. CASE h = Owner[f]
      BY <3>1 DEF HasRight
    <3>2. CASE h = u /\ SharedWith(u, f)
      <4>1. PICK row \in shares : row.of = [file |-> f, kind |-> "specific", target |-> u]
        BY <3>2 DEF SharedWith
      <4>2. row.of.file = f /\ row.of.kind = "specific" /\ row.of.target = u
        BY <4>1
      <4> QED
        BY <3>2, <4>2 DEF RightsInv, GrantsTraced, HasRight
    <3>3. CASE \E room \in rooms : RoomShows(room, f) /\ h = room.host
      <4>1. PICK room \in rooms : <<room.playlist, f>> \in items /\ h = room.host
        BY <3>3 DEF RoomShows
      <4>2. h = by[room.playlist] /\ HasRight(by[room.playlist], f)
        BY <2>1, <4>1 DEF OwnedBy
      <4> QED
        BY <4>2
    <3> QED
      BY <2>2, <3>1, <3>2, <3>3 DEF OpensInRightOf
  <2>3. ASSUME NEW item \in items, item[1] \in DOMAIN playlists
        PROVE  HasRight(playlists[item[1]].by, item[2])
    BY <2>1, <2>3 DEF OwnedBy
  <2> QED
    BY <2>2, <2>3 DEF RightsReachOwner
<1> QED
  BY <1>1, RightsAlways, PTL

-----------------------------------------------------------------------------
(***************************************************************************)
(* A playlist that has gone shows nothing.  Its items were deleted with    *)
(* it; one that is left was kept by a deletion that failed, or was added   *)
(* by a request that ran together with the deletion, which is why the      *)
(* invariant follows the requests to add an item: each is about a playlist *)
(* that exists, or has met its deletion.                                   *)
(***************************************************************************)
OpsOK ==
    \A t \in Hosts :
        /\ step[t] \in {"access", "type", "insert"} => task[t].op = "add"
        /\ step[t] \in {"items", "playlist"} => task[t].op = "delete"

AdditionsCross ==
    \A t \in Hosts : task[t].op = "add" =>
        /\ t \in crossed \/ task[t].playlist \in DOMAIN playlists
        /\ \A z \in Hosts :
              task[z].op = "delete" /\ task[z].playlist = task[t].playlist => t \in crossed

ItemsHeld ==
    \A item \in items \ stray :
        /\ item[1] \in DOMAIN playlists
        /\ \A t \in Hosts : step[t] = "playlist" => task[t].playlist # item[1]

StrayInv == OpsOK /\ AdditionsCross /\ ItemsHeld

\* A request ends; what it leaves is held by a playlist that nobody is about to
\* delete, and a playlist it deleted had no additions but crossed ones.
LEMMA StrayEnds ==
  ASSUME RoomsInv, StrayInv, NEW t \in Hosts, Done(t),
         \A item \in items' \ stray' :
            /\ item[1] \in DOMAIN playlists'
            /\ \A z \in Hosts \ {t} : step[z] = "playlist" => task[z].playlist # item[1],
         \A z \in Hosts \ {t} :
            task[z].op = "add" /\ task[z].playlist \in DOMAIN playlists =>
                z \in crossed \/ task[z].playlist \in DOMAIN playlists'
  PROVE  StrayInv'
<1>1. /\ step' = [step EXCEPT ![t] = "idle"] /\ task' = [task EXCEPT ![t] = NoTask]
      /\ crossed' = crossed \ {t}
  BY DEF Done, Goto
<1>2. ASSUME NEW z \in Hosts \ {t}
      PROVE  step'[z] = step[z] /\ task'[z] = task[z] /\ (z \in crossed' <=> z \in crossed)
  BY <1>1 DEF RoomsInv, RoomsTypeOK
<1>3. step'[t] = "idle" /\ task'[t].op = "none"
  BY <1>1 DEF RoomsInv, RoomsTypeOK, NoTask
<1>4. OpsOK'
  BY <1>2, <1>3 DEF StrayInv, OpsOK
<1>5. AdditionsCross'
  BY <1>2, <1>3 DEF StrayInv, AdditionsCross
<1>6. ItemsHeld'
  BY <1>2, <1>3 DEF ItemsHeld
<1> QED
  BY <1>4, <1>5, <1>6 DEF StrayInv

\* A request goes on to a statement that deletes no playlist.
LEMMA StrayProceeds ==
  ASSUME RoomsInv, StrayInv, UNCHANGED <<playlists, items, stray, task, crossed>>,
         NEW t \in Hosts, NEW where, Goto(t, where),
         \/ where = "room"
         \/ where \in {"type", "insert"} /\ step[t] \in {"access", "type"}
  PROVE  StrayInv'
<1>1. step' = [step EXCEPT ![t] = where]
  BY DEF Goto
<1>2. OpsOK'
  BY <1>1 DEF RoomsInv, RoomsTypeOK, StrayInv, OpsOK
<1>3. AdditionsCross'
  BY DEF StrayInv, AdditionsCross
<1>4. ItemsHeld'
  BY <1>1 DEF RoomsInv, RoomsTypeOK, StrayInv, ItemsHeld
<1> QED
  BY <1>2, <1>3, <1>4 DEF StrayInv

\* A request begins, and crosses the ones it meets.
LEMMA StrayBegins ==
  ASSUME RoomsInv, StrayInv, NEW t \in Hosts, NEW op, NEW u, NEW p, NEW f, NEW where,
         Start(t, op, u, p, f, where),
         \/ op = "add" /\ where = "access"
         \/ op = "delete" /\ where = "items"
         \/ op \notin {"add", "delete"} /\ where \in {"remove", "retype", "roomtype"}
  PROVE  StrayInv'
<1> DEFINE new == [op |-> op, by |-> u, playlist |-> p, file |-> f]
<1>1. /\ step' = [step EXCEPT ![t] = where] /\ task' = [task EXCEPT ![t] = new]
      /\ crossed' = IF op = "delete" THEN crossed \union Busy("add", p)
                    ELSE IF op = "add" /\ Busy("delete", p) # {} THEN crossed \union {t}
                    ELSE crossed
      /\ UNCHANGED <<playlists, items, stray>>
      /\ p \in DOMAIN playlists
  BY DEF Start, Goto, Owned
<1>2. new.op = op /\ new.playlist = p
  OBVIOUS
<1> HIDE DEF new
<1>3. ASSUME NEW z \in Hosts \ {t}
      PROVE  step'[z] = step[z] /\ task'[z] = task[z]
  BY <1>1 DEF RoomsInv, RoomsTypeOK
<1>4. step'[t] = where /\ task'[t] = new
  BY <1>1 DEF RoomsInv, RoomsTypeOK
<1>5. OpsOK'
  BY <1>2, <1>3, <1>4 DEF StrayInv, OpsOK
<1>6. AdditionsCross'
  <2>1. ASSUME NEW s \in Hosts, task'[s].op = "add"
        PROVE  s \in crossed' \/ task'[s].playlist \in DOMAIN playlists'
    BY <1>1, <1>2, <1>3, <1>4, <2>1 DEF StrayInv, AdditionsCross
  <2>2. ASSUME NEW s \in Hosts, NEW z \in Hosts, task'[s].op = "add",
               task'[z].op = "delete", task'[z].playlist = task'[s].playlist
        PROVE  s \in crossed'
    <3>1. CASE s = t
      <4>1. z # t /\ op = "add" /\ z \in Busy("delete", p)
        BY <1>2, <1>3, <1>4, <2>2, <3>1 DEF Busy
      <4> QED
        BY <1>1, <3>1, <4>1
    <3>2. CASE s # t /\ z = t
      <4>1. op = "delete" /\ s \in Busy("add", p)
        BY <1>2, <1>3, <1>4, <2>2, <3>2 DEF Busy
      <4> QED
        BY <1>1, <4>1
    <3>3. CASE s # t /\ z # t
      <4>1. s \in crossed
        BY <1>3, <2>2, <3>3 DEF StrayInv, AdditionsCross
      <4> QED
        BY <1>1, <4>1
    <3> QED
      BY <3>1, <3>2, <3>3
  <2> QED
    BY <2>1, <2>2 DEF AdditionsCross
<1>7. ItemsHeld'
  <2>1. where # "playlist"
    OBVIOUS
  <2> QED
    BY <1>1, <1>3, <1>4, <2>1 DEF StrayInv, ItemsHeld
<1> QED
  BY <1>5, <1>6, <1>7 DEF StrayInv

LEMMA StrayStepKeeps ==
  ASSUME RoomsInv, StrayInv, RoomsNext
  PROVE  StrayInv'
<1>1. ASSUME NEW u \in Users, NEW type \in PlaylistTypes, CreatePlaylist(u, type)
      PROVE  StrayInv'
  <2>1. /\ DOMAIN playlists \subseteq DOMAIN playlists'
        /\ UNCHANGED <<items, step, task, crossed, stray>>
    BY <1>1 DEF CreatePlaylist
  <2> QED
    BY <2>1 DEF StrayInv, OpsOK, AdditionsCross, ItemsHeld
<1>2. ASSUME NEW t \in Hosts, NEW u \in Users, NEW p, NEW f,
             \/ Start(t, "add", u, p, f, "access")
             \/ Start(t, "remove", u, p, f, "remove")
             \/ Start(t, "delete", u, p, f, "items")
             \/ Start(t, "retype", u, p, f, "retype")
             \/ StartRoom(t, u, p)
      PROVE  StrayInv'
  BY <1>2, StrayBegins DEF StartRoom
<1>3. ASSUME NEW t \in Hosts,
             \/ CheckAccess(t) \/ CheckType(t) \/ CheckRoomType(t) \/ GiveUp(t)
             \/ \E code \in Codes : InsertRoom(t, code)
      PROVE  StrayInv'
  <2>1. UNCHANGED <<playlists, items, stray>>
    BY <1>3 DEF CheckAccess, CheckType, CheckRoomType, GiveUp, InsertRoom
  <2>2. CASE Done(t)
    BY <2>1, <2>2, StrayEnds DEF StrayInv, ItemsHeld
  <2>3. CASE ~Done(t)
    <3>1. /\ UNCHANGED <<task, crossed>>
          /\ \/ Goto(t, "room")
             \/ (Goto(t, "type") \/ Goto(t, "insert")) /\ step[t] \in {"access", "type"}
      BY <1>3, <2>3 DEF CheckAccess, CheckType, CheckRoomType, GiveUp, InsertRoom
    <3> QED
      BY <2>1, <3>1, StrayProceeds
  <2> QED
    BY <2>2, <2>3
<1>4. ASSUME NEW t \in Hosts, InsertItem(t)
      PROVE  StrayInv'
  <2> DEFINE item == <<task[t].playlist, task[t].file>>
  <2>1. /\ step[t] = "insert" /\ items' = items \union {item} /\ Done(t)
        /\ stray' = IF t \in crossed /\ item \notin items THEN stray \union {item} ELSE stray
        /\ UNCHANGED playlists
    BY <1>4 DEF InsertItem
  <2>2. item[1] = task[t].playlist
    OBVIOUS
  <2> HIDE DEF item
  <2>3. task[t].op = "add"
    BY <2>1 DEF StrayInv, OpsOK
  <2>4. ASSUME item \notin items, t \notin crossed
        PROVE  /\ item[1] \in DOMAIN playlists
               /\ \A z \in Hosts : step[z] = "playlist" => task[z].playlist # item[1]
    BY <2>2, <2>3, <2>4 DEF StrayInv, OpsOK, AdditionsCross
  <2>5. ASSUME NEW i \in items' \ stray'
        PROVE  /\ i[1] \in DOMAIN playlists'
               /\ \A z \in Hosts \ {t} : step[z] = "playlist" => task[z].playlist # i[1]
    <3>1. CASE i \in items
      BY <2>1, <2>5, <3>1 DEF StrayInv, ItemsHeld
    <3>2. CASE i \notin items
      <4>1. i = item /\ t \notin crossed
        BY <2>1, <2>5, <3>2
      <4> QED
        BY <2>1, <2>4, <3>2, <4>1
    <3> QED
      BY <3>1, <3>2
  <2> QED
    BY <2>1, <2>5, StrayEnds
<1>5. ASSUME NEW t \in Hosts, RemoveItem(t)
      PROVE  StrayInv'
  <2>1. /\ Done(t) /\ UNCHANGED playlists
        /\ items' \ stray' \subseteq items \ stray
    BY <1>5 DEF RemoveItem
  <2> QED
    BY <2>1, StrayEnds DEF StrayInv, ItemsHeld
<1>6. ASSUME NEW t \in Hosts, NEW type \in PlaylistTypes, ChangeType(t, type)
      PROVE  StrayInv'
  <2>1. /\ Done(t) /\ UNCHANGED <<items, stray>> /\ DOMAIN playlists' = DOMAIN playlists
    BY <1>6 DEF ChangeType
  <2> QED
    BY <2>1, StrayEnds DEF StrayInv, ItemsHeld
<1>7. ASSUME NEW t \in Hosts, DeleteItems(t)
      PROVE  StrayInv'
  <2> DEFINE its == {task[t].playlist} \X Files
  <2>1. /\ step[t] = "items" /\ step' = [step EXCEPT ![t] = "playlist"]
        /\ UNCHANGED <<playlists, task, crossed>>
        /\ \/ items' = items \ its /\ stray' = stray \ its
           \/ items' = items /\ stray' = stray \union (items \intersect its)
    BY <1>7 DEF DeleteItems, Goto
  <2>2. items' \ stray' \subseteq (items \ stray) \ its
    BY <2>1
  <2>3. \A item \in items' \ stray' : item \in items \ stray /\ item[1] # task[t].playlist
    BY <2>2 DEF RoomsInv, RoomsTypeOK
  <2> HIDE DEF its
  <2>4. OpsOK'
    BY <2>1 DEF RoomsInv, RoomsTypeOK, StrayInv, OpsOK
  <2>5. AdditionsCross'
    BY <2>1 DEF StrayInv, AdditionsCross
  <2>6. ItemsHeld'
    BY <2>1, <2>3 DEF RoomsInv, RoomsTypeOK, StrayInv, ItemsHeld
  <2> QED
    BY <2>4, <2>5, <2>6 DEF StrayInv
<1>8. ASSUME NEW t \in Hosts, DeletePlaylist(t)
      PROVE  StrayInv'
  <2>1. /\ step[t] = "playlist" /\ Done(t) /\ UNCHANGED <<items, stray>>
        /\ DOMAIN playlists' = DOMAIN playlists \ {task[t].playlist}
    BY <1>8 DEF DeletePlaylist
  <2>2. ASSUME NEW z \in Hosts \ {t}, task[z].op = "add", task[z].playlist \in DOMAIN playlists
        PROVE  z \in crossed \/ task[z].playlist \in DOMAIN playlists'
    BY <2>1, <2>2 DEF StrayInv, OpsOK, AdditionsCross
  <2> QED
    BY <2>1, <2>2, StrayEnds DEF StrayInv, ItemsHeld
<1>9. ASSUME NEW room \in rooms, DeleteRoom(room) \/ RoomExpires(room)
      PROVE  StrayInv'
  BY <1>9 DEF DeleteRoom, RoomExpires, StrayInv, OpsOK, AdditionsCross, ItemsHeld
<1> QED
  BY <1>1, <1>2, <1>3, <1>4, <1>5, <1>6, <1>7, <1>8, <1>9 DEF RoomsNext

\* The rooms of a playlist that was deleted show nothing but items that met the
\* deletion (handlePlaylists, handleRooms).
THEOREM RoomsShowWhatIsThere == Spec => []RoomsShowPlaylists
<1>1. Init => StrayInv
  <2> SUFFICES ASSUME Init PROVE StrayInv
    OBVIOUS
  <2>1. items = {} /\ \A t \in Hosts : step[t] = "idle" /\ task[t].op = "none"
    BY DEF Init, NoTask
  <2> QED
    BY <2>1 DEF StrayInv, OpsOK, AdditionsCross, ItemsHeld
<1>2. RightsInv /\ StrayInv /\ [Next]_vars => StrayInv'
  <2>1. ASSUME StrayInv, UNCHANGED roomVars PROVE StrayInv'
    BY <2>1 DEF StrayInv, OpsOK, AdditionsCross, ItemsHeld, roomVars
  <2> QED
    BY <2>1, StrayStepKeeps DEF RightsInv, Next, vars
<1>3. StrayInv => RoomsShowPlaylists
  <2> SUFFICES ASSUME StrayInv, NEW room \in rooms, NEW f \in Files,
                      <<room.playlist, f>> \in items
               PROVE  room.playlist \in DOMAIN playlists \/ <<room.playlist, f>> \in stray
    BY DEF RoomsShowPlaylists, RoomShows
  <2>1. <<room.playlist, f>>[1] = room.playlist
    OBVIOUS
  <2> QED
    BY <2>1 DEF StrayInv, ItemsHeld
<1> QED
  BY <1>1, <1>2, <1>3, RightsAlways, PTL DEF Spec

-----------------------------------------------------------------------------
(***************************************************************************)
(* All requests together.  A step about playlists and rooms is a stutter   *)
(* of Learning, a report one of Rooms, and the steps of Sharing are steps  *)
(* of both; so what was proved of either holds of them together.           *)
(***************************************************************************)
THEOREM RequestsAreBoth == RequestsSpec => Spec /\ LearningSpec
<1>1. RequestsInit => Init /\ LearningInit
  BY DEF RequestsInit
<1>2. [RequestsNext]_requestVars => [Next]_vars
  <2>1. ASSUME LearningNext, UNCHANGED roomVars
        PROVE  [Next]_vars
    BY <2>1 DEF LearningNext, Next, vars
  <2>2. ASSUME RoomsNext, UNCHANGED <<shareVars, learningVars>>
        PROVE  Next
    BY <2>2 DEF Next
  <2> QED
    BY <2>1, <2>2 DEF RequestsNext, requestVars
<1>3. [RequestsNext]_requestVars => [LearningNext]_<<shareVars, learningVars>>
  BY DEF RequestsNext, requestVars, vars
<1> QED
  BY <1>1, <1>2, <1>3, PTL DEF RequestsSpec, Spec, LearningSpec

\* Shares, playlists, rooms and reports together: links stay bounded, progress is
\* earned and kept, rights go back to owners, and rooms show what playlists hold,
\* however the requests of all users interleave (handleShareFile,
\* handleUpdateVideoProgress, handleFileDownload, handlePlaylists, handleRooms).
THEOREM RequestsAreSafe ==
  RequestsSpec => [](/\ LinksBounded /\ MaxReachedEarned /\ WatchedKept
                     /\ RightsReachOwner /\ RoomsShowPlaylists)
BY RequestsAreBoth, LinksStayBounded, ProgressIsEarned, TimeIsKept, RoomsKeepRights,
   RoomsShowWhatIsThere, PTL

=============================================================================
