-------------------------------- MODULE Sharing --------------------------------
(***************************************************************************)
(* The shares of files: links (public, or protected by a code) and grants  *)
(* to one user.  A request to share first looks for a share of the same    *)
(* kind and then inserts a row, as two statements: requests of the same    *)
(* owner may run between them.  Purging a file marks it and then deletes   *)
(* its shares.  Each statement commits on its own and may fail.            *)
(*                                                                         *)
(* Only the owner of a file shares it, cancels its shares or deletes it,   *)
(* so the user of those requests is not a parameter.                       *)
(***************************************************************************)
EXTENDS Naturals, FiniteSets

CONSTANTS
    Users,
    Files,
    Owner,          \* user_id of the row of each file
    Subjects,       \* what is shared, how, and with whom
    Sharers,        \* requests to share or to purge, under way at a time
    ShareIds        \* what generateShareCode may return

Anyone == "anyone"      \* target_user_id NULL

AllSubjects == [file: Files, kind: {"public", "protected"}, target: {Anyone}]
                 \union [file: Files, kind: {"specific"}, target: Users]

ASSUME SharingAssumption ==
    /\ Owner \in [Files -> Users]
    /\ Subjects \subseteq AllSubjects
    /\ IsFiniteSet(Sharers) /\ IsFiniteSet(ShareIds)

VARIABLES
    trash,          \* is_deleted: 0, 1 in the recycle bin, 2 purged
    shares,         \* rows of file_shares
    request,        \* what each request is to do next
    granted,        \* history: <<file, user>> of the shares with one user
    loose           \* history: rows inserted although the look for one failed

shareVars == <<trash, shares, request, granted, loose>>

Rows == [id: ShareIds, of: Subjects, expired: BOOLEAN]

Idle == [do |-> "nothing", about |-> Anyone]

Jobs == [do: {"nothing"}, about: {Anyone}]
          \union [do: {"insert", "unchecked"}, about: Subjects]
          \union [do: {"drop"}, about: Files]

-----------------------------------------------------------------------------
SharingTypeOK ==
    /\ trash \in [Files -> 0..2]
    /\ shares \subseteq Rows
    /\ \A r, s \in shares : r.id = s.id => r = s
    /\ request \in [Sharers -> Jobs]
    /\ granted \subseteq Files \X Users
    /\ loose \subseteq {row.id : row \in shares}

SharingInit ==
    /\ trash = [f \in Files |-> 0]
    /\ shares = {}
    /\ request = [t \in Sharers |-> Idle]
    /\ granted = {}
    /\ loose = {}

Proceed(t, job) == request' = [request EXCEPT ![t] = job]

(***************************************************************************)
(* A file is shared (handleShareFile).  The look passes over links that    *)
(* have expired; a grant to a user counts as one after it has.  A look     *)
(* that fails counts as one that finds nothing.                            *)
(***************************************************************************)
\* Mutant of Same: the comparison of the time is turned round.
SameExpired(s) ==
    {row \in shares : row.of = s /\ (s.kind = "specific" \/ row.expired)}

Same(s) ==
    {row \in shares : row.of = s /\ (s.kind = "specific" \/ ~row.expired)}

LookForShare(t, s) ==
    /\ request[t] = Idle
    /\ \/ Same(s) = {} /\ Proceed(t, [do |-> "insert", about |-> s])
       \/ Same(s) # {} /\ Proceed(t, [do |-> "unchecked", about |-> s])
    /\ UNCHANGED <<trash, shares, granted, loose>>

InsertShare(t, id) ==
    LET job == request[t] IN
    /\ job.do \in {"insert", "unchecked"}
    /\ \A row \in shares : row.id # id
    /\ shares' = shares \union {[id |-> id, of |-> job.about, expired |-> FALSE]}
    /\ granted' = IF job.about.kind = "specific"
                    THEN granted \union {<<job.about.file, job.about.target>>}
                    ELSE granted
    /\ loose' = IF job.do = "unchecked" THEN loose \union {id} ELSE loose
    /\ Proceed(t, Idle)
    /\ UNCHANGED trash

\* The insertion fails, or the deletion of the shares of a purged file.
StatementFails(t) ==
    /\ request[t] # Idle
    /\ Proceed(t, Idle)
    /\ UNCHANGED <<trash, shares, granted, loose>>

DeleteShares(f) ==
    /\ shares' = {row \in shares : row.of.file # f}
    /\ loose' = {id \in loose : \A row \in shares : row.id = id => row.of.file # f}

\* handleCancelShare
CancelShares(f) ==
    /\ DeleteShares(f)
    /\ UNCHANGED <<trash, request, granted>>

\* The expire_time of a link, if it has one, passes.  That of a grant is
\* never looked at.
ShareExpires(row) ==
    /\ row.of.kind # "specific" /\ ~row.expired
    /\ shares' = (shares \ {row}) \union {[row EXCEPT !.expired = TRUE]}
    /\ UNCHANGED <<trash, request, granted, loose>>

(***************************************************************************)
(* The recycle bin (handleDeleteFile, handleRestoreFile) and the purge     *)
(* (handleHardDelete).  What is purged may be restored until it is         *)
(* collected.                                                              *)
(***************************************************************************)
RecycleFile(f) ==
    /\ trash[f] = 0
    /\ trash' = [trash EXCEPT ![f] = 1]
    /\ UNCHANGED <<shares, request, granted, loose>>

RestoreFile(f) ==
    /\ trash[f] # 0
    /\ trash' = [trash EXCEPT ![f] = 0]
    /\ UNCHANGED <<shares, request, granted, loose>>

PurgeFile(t, f) ==
    /\ request[t] = Idle
    /\ trash[f] = 1
    /\ trash' = [trash EXCEPT ![f] = 2]
    /\ Proceed(t, [do |-> "drop", about |-> f])
    /\ UNCHANGED <<shares, granted, loose>>

DropShares(t) ==
    /\ request[t].do = "drop"
    /\ DeleteShares(request[t].about)
    /\ Proceed(t, Idle)
    /\ UNCHANGED <<trash, granted>>

\* A grant to a user, which the requests for a file look for, whether or not
\* it has expired.
SharedWith(u, f) ==
    \E row \in shares : row.of = [file |-> f, kind |-> "specific", target |-> u]

SharingNext ==
    \/ \E t \in Sharers :
        \/ \E s \in Subjects : LookForShare(t, s)
        \/ \E id \in ShareIds : InsertShare(t, id)
        \/ \E f \in Files : PurgeFile(t, f)
        \/ DropShares(t)
        \/ StatementFails(t)
    \/ \E f \in Files : CancelShares(f) \/ RecycleFile(f) \/ RestoreFile(f)
    \/ \E row \in shares : ShareExpires(row)

-----------------------------------------------------------------------------
(***************************************************************************)
(* Shares of a kind do not pile up: however the requests to share, to      *)
(* cancel and to purge interleave with the expiry of links, a file never   *)
(* has more valid links of a kind, or grants to a user, than requests that *)
(* can be under way at a time.  Rows that were inserted because the look   *)
(* failed come on top (handleShareFile).                                   *)
(***************************************************************************)
LinksBounded ==
    \A s \in Subjects :
        Cardinality({row \in shares : row.of = s /\ ~row.expired /\ row.id \notin loose})
            <= Cardinality(Sharers)
=============================================================================
