-------------------------------- MODULE Learning --------------------------------
(***************************************************************************)
(* How far a user has come in a video.  The player reports its position,   *)
(* the length of the video and the time played since the last report; the  *)
(* handler reads the row of the user and the file, works out the new one   *)
(* and writes it, as statements of their own.  Reports of the same user    *)
(* (two windows, a retry) may run between them.                            *)
(*                                                                         *)
(* Composed with Sharing: the video is the user's or shared with him when  *)
(* the report comes in.  Rows of other users and files are apart, so there *)
(* is one user and one video.  The last position, which is only stored, is *)
(* left out.                                                               *)
(***************************************************************************)
EXTENDS Sharing

CONSTANTS
    Viewer, Video,
    Reporters,      \* reports under way at a time
    Times,          \* positions and lengths reported, >= 0
    Deltas,         \* times played, clamped to 0..30000
    Tolerance,      \* 4
    Slack,          \* 5000
    MaxReports      \* bound: reports that are let in

ASSUME LearningAssumption ==
    /\ Viewer \in Users /\ Video \in Files
    /\ Times \subseteq Nat /\ Deltas \subseteq Nat
    /\ Tolerance \in Nat /\ Slack \in Nat /\ MaxReports \in Nat

VARIABLES
    progress,       \* the row of video_learning_progress, or none
    report,         \* the reports under way
    reports,        \* number of reports let in
    earned,         \* history: what the stored reports allow to advance
    played,         \* history: time played of the stored reports
    overlapped      \* history: whether a report was stored between the reading
                    \* and the writing of another

learningVars == <<progress, report, reports, earned, played, overlapped>>

NoRow == [exists |-> FALSE, max |-> 0, duration |-> 0, watched |-> 0]

ProgressRows == [exists: BOOLEAN, max: Nat, duration: Nat, watched: Nat]

NoReport == [at |-> "idle", position |-> 0, duration |-> 0, delta |-> 0, old |-> NoRow]

Reports == [at: {"idle", "read", "write"}, position: Nat, duration: Nat, delta: Nat,
            old: ProgressRows]

Least(a, b) == IF a <= b THEN a ELSE b
Greatest(a, b) == IF a <= b THEN b ELSE a

-----------------------------------------------------------------------------
LearningTypeOK ==
    /\ progress \in ProgressRows
    /\ report \in [Reporters -> Reports]
    /\ reports \in Nat /\ reports <= MaxReports
    /\ earned \in Nat /\ played \in Nat
    /\ overlapped \in BOOLEAN

LearningInit ==
    /\ SharingInit
    /\ progress = NoRow
    /\ report = [t \in Reporters |-> NoReport]
    /\ reports = 0
    /\ earned = 0 /\ played = 0
    /\ overlapped = FALSE

SetReport(t, r) == report' = [report EXCEPT ![t] = r]

\* The report is clamped, and the video looked up.
ReceiveReport(t, position, duration, delta) ==
    /\ report[t].at = "idle"
    /\ reports < MaxReports
    /\ trash[Video] = 0
    /\ Owner[Video] = Viewer \/ SharedWith(Viewer, Video)
    /\ reports' = reports + 1
    /\ SetReport(t, [at |-> "read",
                     position |-> IF duration > 0 THEN Least(position, duration)
                                  ELSE position,
                     duration |-> duration, delta |-> delta, old |-> NoRow])
    /\ UNCHANGED <<progress, earned, played, overlapped>>

\* When the query fails the row counts as missing.
ReadProgress(t) ==
    /\ report[t].at = "read"
    /\ \E row \in {progress, NoRow} :
            SetReport(t, [report[t] EXCEPT !.at = "write", !.old = row])
    /\ UNCHANGED <<progress, reports, earned, played, overlapped>>

Budget(r) == r.delta * Tolerance + Slack

MergedDuration(r) == Greatest(r.old.duration, r.duration)

\* Mutant of MaxReached: a report advances to its position.
MaxReachedAtOnce(r) ==
    LET advanced == Greatest(r.old.max, r.position)
    IN  IF MergedDuration(r) > 0 THEN Least(advanced, MergedDuration(r)) ELSE advanced

MaxReached(r) ==
    LET advanced == IF r.position > r.old.max
                      THEN Least(r.position, r.old.max + Budget(r))
                      ELSE r.old.max
    IN  IF MergedDuration(r) > 0 THEN Least(advanced, MergedDuration(r)) ELSE advanced

\* Mutant of Written: INSERT ... ON DUPLICATE KEY UPDATE.
WrittenOver(t) == TRUE

\* An UPDATE of the row, or an INSERT that fails when there is a row by now.
Written(t) == report[t].old.exists \/ ~progress.exists

StoreReport(t) ==
    LET r == report[t] IN
    /\ r.at = "write"
    /\ Written(t)
    /\ progress' = [exists |-> TRUE, max |-> MaxReached(r),
                    duration |-> MergedDuration(r),
                    watched |-> r.old.watched + r.delta]
    /\ earned' = earned + Budget(r)
    /\ played' = played + r.delta
    /\ overlapped' = (overlapped \/ \E s \in Reporters \ {t} : report[s].at = "write")
    /\ SetReport(t, NoReport)
    /\ UNCHANGED reports

\* The insertion of a row that exists, or any statement, fails.
ReportFails(t) ==
    /\ report[t].at = "write"
    /\ SetReport(t, NoReport)
    /\ UNCHANGED <<progress, reports, earned, played, overlapped>>

LearningNext ==
    \/ /\ SharingNext
       /\ UNCHANGED learningVars
    \/ /\ \E t \in Reporters :
            \/ \E position, duration \in Times, delta \in Deltas :
                    ReceiveReport(t, position, duration, delta)
            \/ ReadProgress(t) \/ StoreReport(t) \/ ReportFails(t)
       /\ UNCHANGED shareVars

LearningSpec == LearningInit /\ [][LearningNext]_<<shareVars, learningVars>>

-----------------------------------------------------------------------------
(***************************************************************************)
(* The furthest point reached is earned by playing: it is never beyond     *)
(* what all stored reports together allow, however they overlap and        *)
(* wherever the player was dragged to (handleUpdateVideoProgress, which    *)
(* says that dragging must not take one to the end).                       *)
(***************************************************************************)
MaxReachedEarned == progress.max <= earned

(***************************************************************************)
(* No time played is lost: what the row holds is what the stored reports   *)
(* add up to, unless two of them overlapped.  In particular a query that   *)
(* failed does not make the handler begin anew (handleUpdateVideoProgress).*)
(***************************************************************************)
WatchedKept == progress.watched = played \/ overlapped
=============================================================================
