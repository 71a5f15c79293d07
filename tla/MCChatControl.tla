----------------------------- MODULE MCChatControl -----------------------------
(* ChatControl with two chats that take turns on one run at a time.           *)
EXTENDS ChatControl, TLC

CONSTANTS here, there

ChatSymmetry == Permutations({here, there})
================================================================================
