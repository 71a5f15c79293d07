---------------------------- MODULE SchedulerQueue ----------------------------
(***************************************************************************)
(* Who is served first.  TaskScheduler with a history of overtaking: one   *)
(* tick takes at most twice the concurrency limit, so the rows that come   *)
(* round again compete with the rows still waiting, and only the order of  *)
(* due() and of the loop over its rows keeps a slow row from being passed  *)
(* by a fast one for ever.                                                 *)
(***************************************************************************)
EXTENDS TaskScheduler

VARIABLE passed   \* history: <<t, u>> when u was claimed while t was due,
                  \* for as long as t stays due

queueVars == <<vars, passed>>

PassedType == passed \in SUBSET (Tasks \X Tasks)

\* The task this step claims, if it is the step of a claim.
Claiming(u) == \E e \in execs' \ execs : e.pc = "claimed" /\ e.task = u

QueueInit == Init /\ passed = {}

QueueNext ==
    /\ Next
    /\ passed' = {w \in Tasks \X Tasks :
                     /\ Due(w[1]) /\ Due(w[1])'
                     /\ w \in passed \/ Claiming(w[2])}

QueueSpec == QueueInit /\ [][QueueNext]_queueVars

-----------------------------------------------------------------------------
(* Properties.                                                             *)

\* However long a due task has to wait, no other task is claimed twice before
\* it: a task that was served goes to the back, because its next slot lies
\* after the slot of the one it passed and due() and the loop take the oldest
\* slots first.  The first time is no fault: a row inserted already overdue
\* (the grants were asked for in between) is not in the batch of a tick that
\* has begun.  A scheduler that starts beside unfinished work voids this.
PassedOnce ==
    [][\A w \in passed : racy \/ ~Claiming(w[2])]_queueVars
=============================================================================
