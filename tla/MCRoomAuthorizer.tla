-------------------------- MODULE MCRoomAuthorizer --------------------------
(* Instances of RoomAuthorizer for TLC: a moderator and a user acted upon. *)
EXTENDS RoomAuthorizer

MCInitRole == [u \in User |-> IF u \in Target THEN "member" ELSE "moderator"]

(* The user acted upon joins, sends, reacts and, when promoted, moderates. *)
(* Where rooms are in the default project, kicking takes the steps of      *)
(* "moderate", and pinning those of "react".                               *)
MCOffered == [u \in User |-> IF u \in Target THEN {"join", "send", "react", "moderate"}
                             ELSE {"setRole", "ban", "unban", "mute", "unmute"}]
=============================================================================
