--------------------------------- MODULE Rooms ---------------------------------
(***************************************************************************)
(* Playlists of media files, the viewing rooms that show one of them, and  *)
(* who may open a file: its owner, a user it is shared with, whoever has a *)
(* link, and the VIP users who know the code of a room whose playlist      *)
(* holds it.  Composed with Sharing, whose requests run between any two    *)
(* statements of the requests here.                                        *)
(*                                                                         *)
(* A room code stands for whoever it was told to.  Titles, notes, the      *)
(* order of the items and the position of the player are left out.         *)
(***************************************************************************)
EXTENDS Sharing

CONSTANTS
    Level,          \* service_level of each user
    Media,          \* "video", "image" or another kind, of each file
    Hosts,          \* requests about playlists and rooms under way at a time
    Codes,          \* what generateRoomCode may return
    MaxPlaylists,   \* bound: playlists ever created
    MaxRequests     \* bound: requests about playlists and new rooms

ASSUME RoomsAssumption ==
    /\ Level \in [Users -> {"normal", "vip", "svip"}]
    /\ Media \in [Files -> {"video", "image", "audio", "other"}]
    /\ MaxPlaylists \in Nat /\ MaxRequests \in Nat

VARIABLES
    playlists,      \* rows of entertainment_playlists, by id
    lastPlaylist,   \* last id given to a playlist
    items,          \* rows of entertainment_playlist_items
    rooms,          \* rows of entertainment_rooms
    step, task,     \* where each request is, and what it is about
    started,        \* number of requests that began
    crossed,        \* history: additions under way together with the deletion
                    \* of their playlist
    stray           \* history: items inserted by crossed requests or kept
                    \* because their deletion failed

roomVars == <<playlists, lastPlaylist, items, rooms, step, task, started, crossed,
              stray>>
vars == <<shareVars, roomVars>>

PlaylistIds == 1..MaxPlaylists
PlaylistTypes == {"video", "image"}
Playlists == [by: Users, type: PlaylistTypes]
RoomRows == [code: Codes, host: Users, playlist: PlaylistIds, expired: BOOLEAN]
NoFile == "none"
Tasks == [op: {"none", "add", "remove", "delete", "retype", "room"},
          by: Users \union {Anyone}, playlist: 0..MaxPlaylists,
          file: Files \union {NoFile}]

VipLike(u) == Level[u] \in {"vip", "svip"}

Owned(u, p) == p \in DOMAIN playlists /\ playlists[p].by = u

-----------------------------------------------------------------------------
(***************************************************************************)
(* Who opens a file, and in whose right.  Without a right of his own a VIP *)
(* user opens it in the right of the host of a room (handleFileDownload);  *)
(* whoever has no account opens it in that of the owner, by a link         *)
(* (handleShareInfo, handleShareVerify).  A grant to a user does not       *)
(* expire (handleListSharedWithMe shows it as well).                       *)
(***************************************************************************)
RoomShows(room, f) == ~room.expired /\ <<room.playlist, f>> \in items

\* fileAccessible, with a room code or with none.
Accessible(u, f, codes) ==
    /\ trash[f] = 0
    /\ \/ Owner[f] = u
       \/ SharedWith(u, f)
       \/ \E room \in rooms : room.code \in codes /\ RoomShows(room, f)

OpensInRightOf(u, f) ==
    IF trash[f] # 0 THEN {}
    ELSE IF u = Anyone
      THEN {Owner[f] : row \in {r \in shares : /\ r.of.file = f
                                               /\ r.of.kind # "specific"
                                               /\ ~r.expired}}
    ELSE IF Owner[f] = u \/ SharedWith(u, f) THEN {u}
    ELSE {room.host : room \in {r \in rooms : VipLike(u) /\ RoomShows(r, f)}}

-----------------------------------------------------------------------------
RoomsTypeOK ==
    /\ DOMAIN playlists \subseteq 1..lastPlaylist
    /\ \A p \in DOMAIN playlists : playlists[p] \in Playlists
    /\ lastPlaylist \in 0..MaxPlaylists
    /\ items \subseteq PlaylistIds \X Files
    /\ rooms \subseteq RoomRows
    /\ step \in [Hosts -> {"idle", "access", "type", "insert", "remove", "items",
                           "playlist", "retype", "roomtype", "room"}]
    /\ task \in [Hosts -> Tasks]
    /\ started \in 0..MaxRequests
    /\ crossed \subseteq Hosts
    /\ stray \subseteq items

TypeOK == SharingTypeOK /\ RoomsTypeOK

NoTask == [op |-> "none", by |-> Anyone, playlist |-> 0, file |-> NoFile]

Init ==
    /\ SharingInit
    /\ playlists = << >> /\ lastPlaylist = 0
    /\ items = {} /\ rooms = {}
    /\ step = [t \in Hosts |-> "idle"]
    /\ task = [t \in Hosts |-> NoTask]
    /\ started = 0
    /\ crossed = {} /\ stray = {}

Goto(t, where) == step' = [step EXCEPT ![t] = where]

Done(t) ==
    /\ Goto(t, "idle")
    /\ task' = [task EXCEPT ![t] = NoTask]
    /\ crossed' = crossed \ {t}

Busy(op, p) == {t \in Hosts : task[t].op = op /\ task[t].playlist = p}

(***************************************************************************)
(* A request about a playlist (handlePlaylists, and handleRooms for a new  *)
(* room) begins with playlistOwned and ends there when it says no.         *)
(***************************************************************************)
Start(t, op, u, p, f, where) ==
    /\ step[t] = "idle"
    /\ started < MaxRequests
    /\ started' = started + 1
    /\ VipLike(u) /\ Owned(u, p)
    /\ task' = [task EXCEPT ![t] = [op |-> op, by |-> u, playlist |-> p, file |-> f]]
    /\ Goto(t, where)
    /\ crossed' = IF op = "delete" THEN crossed \union Busy("add", p)
                  ELSE IF op = "add" /\ Busy("delete", p) # {} THEN crossed \union {t}
                  ELSE crossed
    /\ UNCHANGED <<playlists, lastPlaylist, items, rooms, stray>>

CreatePlaylist(u, type) ==
    LET p == lastPlaylist + 1 IN
    /\ VipLike(u)
    /\ p <= MaxPlaylists
    /\ lastPlaylist' = p
    /\ playlists' = [q \in DOMAIN playlists \union {p} |->
            IF q = p THEN [by |-> u, type |-> type] ELSE playlists[q]]
    /\ UNCHANGED <<items, rooms, step, task, crossed, stray, started>>

(***************************************************************************)
(* add_item: the file must be the user's or shared with him, and of the    *)
(* type of the playlist, which counts as "video" when its row is not found *)
(* or the query fails.                                                     *)
(***************************************************************************)
\* Mutant of CheckAccess: a room that shows the file will do.
CheckAccessWithCode(t) ==
    /\ step[t] = "access"
    /\ \/ /\ Accessible(task[t].by, task[t].file, Codes)
          /\ Media[task[t].file] # "other"
          /\ Goto(t, "type")
          /\ UNCHANGED <<task, crossed>>
       \/ Done(t)
    /\ UNCHANGED <<playlists, lastPlaylist, items, rooms, stray, started>>

CheckAccess(t) ==
    /\ step[t] = "access"
    /\ \/ /\ Accessible(task[t].by, task[t].file, {})
          /\ Media[task[t].file] # "other"
          /\ Goto(t, "type")
          /\ UNCHANGED <<task, crossed>>
       \/ Done(t)
    /\ UNCHANGED <<playlists, lastPlaylist, items, rooms, stray, started>>

TypeRead(t) ==
    LET p == task[t].playlist IN
    {"video"} \union {playlists[q].type : q \in {p} \intersect DOMAIN playlists}

CheckType(t) ==
    /\ step[t] = "type"
    /\ \E type \in TypeRead(t) :
        \/ Media[task[t].file] = type /\ Goto(t, "insert") /\ UNCHANGED <<task, crossed>>
        \/ Media[task[t].file] # type /\ Done(t)
    /\ UNCHANGED <<playlists, lastPlaylist, items, rooms, stray, started>>

InsertItem(t) ==
    LET item == <<task[t].playlist, task[t].file>> IN
    /\ step[t] = "insert"
    /\ items' = items \union {item}
    /\ stray' = IF t \in crossed /\ item \notin items THEN stray \union {item}
                ELSE stray
    /\ Done(t)
    /\ UNCHANGED <<playlists, lastPlaylist, rooms, started>>

\* remove_item
RemoveItem(t) ==
    LET item == <<task[t].playlist, task[t].file>> IN
    /\ step[t] = "remove"
    /\ items' = items \ {item}
    /\ stray' = stray \ {item}
    /\ Done(t)
    /\ UNCHANGED <<playlists, lastPlaylist, rooms, started>>

\* update_playlist
ChangeType(t, type) ==
    LET p == task[t].playlist IN
    /\ step[t] = "retype"
    /\ playlists' = [q \in DOMAIN playlists |->
            IF q = p THEN [playlists[q] EXCEPT !.type = type] ELSE playlists[q]]
    /\ Done(t)
    /\ UNCHANGED <<lastPlaylist, items, rooms, stray, started>>

(***************************************************************************)
(* delete: the items and then the playlist, whether or not the first       *)
(* deletion succeeds.                                                      *)
(***************************************************************************)
\* Mutant of DeleteItems: the items are left to be deleted with the playlist.
DeleteItemsLater(t) ==
    /\ step[t] = "items"
    /\ Goto(t, "playlist")
    /\ UNCHANGED <<playlists, lastPlaylist, items, rooms, task, crossed, stray, started>>

DeleteItems(t) ==
    LET its == {task[t].playlist} \X Files IN
    /\ step[t] = "items"
    /\ Goto(t, "playlist")
    /\ \/ items' = items \ its /\ stray' = stray \ its
       \/ items' = items /\ stray' = stray \union (items \intersect its)
    /\ UNCHANGED <<playlists, lastPlaylist, rooms, task, crossed, started>>

DeletePlaylist(t) ==
    LET rest == DOMAIN playlists \ {task[t].playlist} IN
    /\ step[t] = "playlist"
    /\ playlists' = [q \in rest |-> playlists[q]]
    /\ Done(t)
    /\ UNCHANGED <<lastPlaylist, items, rooms, stray, started>>

\* A statement of these requests fails.
GiveUp(t) ==
    /\ step[t] \in {"insert", "remove", "retype", "playlist", "room"}
    /\ Done(t)
    /\ UNCHANGED <<playlists, lastPlaylist, items, rooms, stray, started>>

-----------------------------------------------------------------------------
(***************************************************************************)
(* Rooms (handleRooms).  Only a video playlist gets one.  The row is       *)
(* inserted with a code that no row has, at the first or second try; when  *)
(* both codes are taken there is no new room.  Deleting the playlist does  *)
(* not delete its rooms, and rooms that have expired keep their rows.      *)
(***************************************************************************)
StartRoom(t, u, p) ==
    /\ Level[u] = "svip"
    /\ Start(t, "room", u, p, NoFile, "roomtype")

CheckRoomType(t) ==
    /\ step[t] = "roomtype"
    /\ \E type \in TypeRead(t) :
        \/ type = "video" /\ Goto(t, "room") /\ UNCHANGED <<task, crossed>>
        \/ type # "video" /\ Done(t)
    /\ UNCHANGED <<playlists, lastPlaylist, items, rooms, stray, started>>

InsertRoom(t, code) ==
    /\ step[t] = "room"
    /\ \A room \in rooms : room.code # code
    /\ rooms' = rooms \union
          {[code |-> code, host |-> task[t].by, playlist |-> task[t].playlist,
            expired |-> FALSE]}
    /\ Done(t)
    /\ UNCHANGED <<playlists, lastPlaylist, items, stray, started>>

DeleteRoom(room) ==
    /\ rooms' = rooms \ {room}
    /\ UNCHANGED <<playlists, lastPlaylist, items, step, task, crossed, stray, started>>

\* Six hours after it was created.
RoomExpires(room) ==
    /\ ~room.expired
    /\ rooms' = (rooms \ {room}) \union {[room EXCEPT !.expired = TRUE]}
    /\ UNCHANGED <<playlists, lastPlaylist, items, step, task, crossed, stray, started>>

RoomsNext ==
    \/ \E u \in Users, type \in PlaylistTypes : CreatePlaylist(u, type)
    \/ \E t \in Hosts :
        \/ \E u \in Users, p \in DOMAIN playlists :
            \/ \E f \in Files : \/ Start(t, "add", u, p, f, "access")
                                \/ Start(t, "remove", u, p, f, "remove")
            \/ Start(t, "delete", u, p, NoFile, "items")
            \/ Start(t, "retype", u, p, NoFile, "retype")
            \/ StartRoom(t, u, p)
        \/ CheckAccess(t) \/ CheckType(t) \/ InsertItem(t)
        \/ RemoveItem(t)
        \/ \E type \in PlaylistTypes : ChangeType(t, type)
        \/ DeleteItems(t) \/ DeletePlaylist(t)
        \/ CheckRoomType(t)
        \/ \E code \in Codes : InsertRoom(t, code)
        \/ GiveUp(t)
    \/ \E room \in rooms : DeleteRoom(room) \/ RoomExpires(room)

Next ==
    \/ SharingNext /\ UNCHANGED roomVars
    \/ RoomsNext /\ UNCHANGED shareVars

Spec == Init /\ [][Next]_vars

-----------------------------------------------------------------------------
(***************************************************************************)
(* Rooms do not widen what a share allows: whoever opens a file does so in *)
(* the right of a user who owns it or whom the owner shared it with at     *)
(* some time (handleFileDownload: a room code is a temporary grant).  What *)
(* a room shows cannot be added to another playlist by the one who only    *)
(* sees it there.  That the share may since have been cancelled is in the  *)
(* words "at some time": the item stays in the playlist.                   *)
(***************************************************************************)
HasRight(u, f) == u = Owner[f] \/ <<f, u>> \in granted

RightsReachOwner ==
    /\ \A f \in Files, u \in Users \union {Anyone} :
            \A h \in OpensInRightOf(u, f) : HasRight(h, f)
    /\ \A item \in items :
            item[1] \in DOMAIN playlists => HasRight(playlists[item[1]].by, item[2])

(***************************************************************************)
(* When a playlist has been deleted its rooms show nothing any more,       *)
(* except items that were being added meanwhile or whose deletion failed:  *)
(* those nobody can remove (handlePlaylists asks for the playlist first).  *)
(***************************************************************************)
RoomsShowPlaylists ==
    \A room \in rooms, f \in Files :
        RoomShows(room, f) =>
            room.playlist \in DOMAIN playlists \/ <<room.playlist, f>> \in stray
=============================================================================
