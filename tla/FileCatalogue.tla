---------------------------- MODULE FileCatalogue ----------------------------
(***************************************************************************)
(* What the table of files promises the users, whatever collectors,        *)
(* reports, notices, restarts and lost messages do behind it.              *)
(*                                                                         *)
(* A file is listed once.  It is confirmed or given up, and what was given *)
(* up is never confirmed.  It moves to the recycle bin and back, and only  *)
(* from there is it purged.  And a listed file vanishes only when it was   *)
(* condemned, which takes that it is purged, or that its upload lasted too *)
(* long and is not confirmed, at that moment; an owner who is quick may    *)
(* take back, and an upload may still confirm, what is condemned, and lose *)
(* it all the same.                                                        *)
(***************************************************************************)
EXTENDS Naturals

CONSTANT Rows       \* requests to upload, each of which may list one file

VARIABLES
    status,         \* "free", "uploading", "success", "failed" or "gone"
    del,            \* 0: live, 1: in the recycle bin, 2: purged
    late,           \* rows whose upload lasted too long
    condemned       \* rows whose removal is under way

vars == <<status, del, late, condemned>>

Listed(r) == status[r] \in {"uploading", "success", "failed"}

Init ==
    /\ status = [r \in Rows |-> "free"]
    /\ del = [r \in Rows |-> 0]
    /\ late = {}
    /\ condemned = {}

\* An instant upload is confirmed at once.
List(r) ==
    /\ status[r] = "free"
    /\ \E p \in {"uploading", "success"} : status' = [status EXCEPT ![r] = p]
    /\ UNCHANGED <<del, late, condemned>>

Confirm(r) ==
    /\ status[r] = "uploading"
    /\ status' = [status EXCEPT ![r] = "success"]
    /\ UNCHANGED <<del, late, condemned>>

\* A report does not find the bytes.
GiveUp(r) ==
    /\ status[r] \in {"uploading", "success"}
    /\ status' = [status EXCEPT ![r] = "failed"]
    /\ UNCHANGED <<del, late, condemned>>

Lapse(r) ==
    /\ status[r] = "uploading"
    /\ late' = late \union {r}
    /\ UNCHANGED <<status, del, condemned>>

\* Any number of files at a time.
Move(from, to) ==
    /\ del' \in [Rows -> 0..2]
    /\ \A r \in Rows :
          del'[r] # del[r] => Listed(r) /\ del[r] \in from /\ del'[r] = to
    /\ UNCHANGED <<status, late, condemned>>

Condemn(r) ==
    /\ \/ Listed(r) /\ del[r] = 2
       \/ status[r] = "uploading" /\ r \in late
    /\ condemned' = condemned \union {r}
    /\ UNCHANGED <<status, del, late>>

\* Nothing comes of it: a message is lost, or a process restarts.
Spare ==
    /\ condemned' \in SUBSET condemned
    /\ UNCHANGED <<status, del, late>>

\* A second removal may be under way, and finds nothing.
Remove(r) ==
    /\ r \in condemned
    /\ status' = [status EXCEPT ![r] = "gone"]
    /\ del' = [del EXCEPT ![r] = 0]
    /\ condemned' \in {condemned, condemned \ {r}}
    /\ UNCHANGED late

Next ==
    \/ \E r \in Rows :
        \/ List(r) \/ Confirm(r) \/ GiveUp(r) \/ Lapse(r)
        \/ Condemn(r) \/ Remove(r)
    \/ Move({0}, 1) \/ Move({1, 2}, 0) \/ Move({1}, 2)
    \/ Spare

Spec == Init /\ [][Next]_vars
=============================================================================
