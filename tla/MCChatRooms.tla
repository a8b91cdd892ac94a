---------------------------- MODULE MCChatRooms ----------------------------
(* Instances of ChatRooms for TLC. *)
EXTENDS ChatRooms, TLC

CONSTANTS s1, s2, s3, u1, u2

(* One user has two sockets. *)
MCUserOf == (s1 :> u1) @@ (s2 :> u2) @@ (s3 :> u2)

MCNoRoom == {"no room"}

Symmetric == Permutations(Request) \cup Permutations(Message) \cup Permutations({s2, s3})
=============================================================================
