---------------------------- MODULE MCTaskScheduler ----------------------------
(* A small instance of TaskScheduler: a task that recurs and one that fires once. *)
EXTENDS TaskScheduler, TLC

CONSTANTS hourly, oneOff, p1

MCCron == hourly :> [kind |-> "cron", n |-> 1] @@ oneOff :> [kind |-> "once", n |-> 2]
=============================================================================
