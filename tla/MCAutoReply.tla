------------------------------ MODULE MCAutoReply ------------------------------
(* Small instances of AutoReply: two private chats and flight mode.          *)
EXTENDS AutoReply, TLC

CONSTANTS friend, other

ChatSymmetry == Permutations({friend, other})
=============================================================================
