---------------------------- MODULE MCChatRooms ----------------------------
(* Instances of ChatRooms for TLC. *)
EXTENDS ChatRooms

CONSTANTS r1, k1, k2
=============================================================================
