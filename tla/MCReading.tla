-------------------------------- MODULE MCReading -------------------------------
(* Two readers, two chats (the third message is in the other one) and two       *)
(* searches; the memory holds two cursors.                                     *)
EXTENDS Reading, TLC

CONSTANTS r1, r2, home, away, s1, s2

MCChat == [m \in 1..MaxMessages |-> IF m = 3 THEN away ELSE home]
MCReads == [kind : {"back", "forth", "since"}, of : {home}]
MCSearches == [kind : {"global"}, of : {s1, s2}]
MCWalks == MCReads \cup MCSearches
MCAsked == r1 :> MCWalks @@ r2 :> MCSearches
Symmetry == Permutations({s1, s2})
================================================================================
