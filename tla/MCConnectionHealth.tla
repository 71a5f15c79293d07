--------------------------- MODULE MCConnectionHealth ---------------------------
(* ConnectionHealth with a probe after two quiet ticks, at most two failed    *)
(* rebuilds and three mishaps of the network: enough for a socket to go silent *)
(* and the network to fail under two rebuilds.                          *)
EXTENDS ConnectionHealth
================================================================================
