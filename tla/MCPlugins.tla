------------------------------- MODULE MCPlugins -------------------------------
(* A shipped plugin, and one that is installed and may want its tool's name.   *)
EXTENDS Plugins, TLC

CONSTANTS web, alpha, v1, v2, send, search, extra

MCOrder == <<web, alpha>>
MCOffers ==
    web :> [c \in Codes |-> IF c = Shipped THEN {search} ELSE {extra}] @@
    alpha :> [c \in Codes |-> IF c = v1 THEN {send, extra} ELSE {extra, search}]
===============================================================================
