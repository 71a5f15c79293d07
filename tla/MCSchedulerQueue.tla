--------------------------- MODULE MCSchedulerQueue ---------------------------
(* A task that fires once and two that come round at every tick, of which     *)
(* one tick takes two.                                                        *)
EXTENDS SchedulerQueue, TLC

CONSTANTS hourly, daily, oneOff, p1, p2

Every == [kind |-> "interval", n |-> 1]
MCSchedule == hourly :> Every @@ daily :> Every
                @@ oneOff :> [kind |-> "once", n |-> 2]

ProcSymmetry == Permutations({p1, p2})

Up == {p \in Procs : mode[p] # "down"}

\* The bound: a second process at work, or a third task beside it, but not both;
\* and not both a third task and a second mishap.  Nothing is promised once a
\* scheduler has started beside unfinished work, and racy never resets.
Small ==
    /\ ~racy
    /\ life[daily] = "unborn" \/ (Cardinality(Up) < 2 /\ trouble < 2)
=============================================================================
