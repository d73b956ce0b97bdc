------------------------------- MODULE MCRequests -------------------------------
(* Instances of Requests for TLC.                                          *)
EXTENDS Requests, TLC

CONSTANTS o, h, v, f, s1, s2, s3, r1, r2, h1, h2, c1, c2, p1, p2

\* The owner of the only file is no VIP; the file is shared with one of two
\* users who may have rooms, who also watches it.
OneOwner == [g \in {f} |-> o]
Levels == [u \in {o, h, v} |-> IF u = o THEN "normal" ELSE "svip"]
AllVideo == [g \in {f} |-> "video"]
LinkAndGrant == {[file |-> f, kind |-> "public", target |-> Anyone],
                 [file |-> f, kind |-> "specific", target |-> h]}

\* Bound: beside playlists or reports there are no links, one grant and one
\* request to share or to purge at a time, and no reports beside playlists; only the
\* first playlist may be one of images.
Alone ==
    /\ \A row \in shares : row.id = s1 /\ row.of.kind = "specific"
    /\ request[r1].do \in {"insert", "unchecked"} => request[r1].about.kind = "specific"
    /\ request[r2] = Idle

Within ==
    /\ lastPlaylist > 0 \/ reports > 0 => Alone
    /\ lastPlaylist > 0 => reports = 0
    /\ \A p \in DOMAIN playlists : p > 1 => playlists[p].type = "video"

Symmetry == Permutations(Hosts) \union Permutations(Codes)
=============================================================================
