----------------------------- MODULE MCChatTurns ----------------------------
(* Instances of ChatTurns for TLC. *)
EXTENDS ChatTurns

CONSTANTS q1, q2, w1, w2, w3, c1, c2
=============================================================================
