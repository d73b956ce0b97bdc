-------------------------------- MODULE Requests --------------------------------
(***************************************************************************)
(* The requests of all users about shares, playlists, rooms and their      *)
(* progress in a video, over the same shares and the same recycle bin.     *)
(***************************************************************************)
EXTENDS Rooms, Learning

requestVars == <<vars, learningVars>>

RequestsInit == Init /\ LearningInit

RequestsNext ==
    \/ LearningNext /\ UNCHANGED roomVars
    \/ RoomsNext /\ UNCHANGED <<shareVars, learningVars>>

RequestsSpec == RequestsInit /\ [][RequestsNext]_requestVars

=============================================================================
