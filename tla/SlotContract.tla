------------------------------ MODULE SlotContract ------------------------------
(***************************************************************************)
(* What the scheduler promises about one task, whoever runs it: a task is  *)
(* armed for a slot, the slot is fired at most once, and while the task is *)
(* busy with it nothing arms or fires it again.  Slots of a task only grow.*)
(***************************************************************************)
EXTENDS Integers

CONSTANT Tasks
VARIABLES
    armed,   \* the slot a task will fire at, or Unarmed
    busy,    \* is an execution of the task in flight?
    fired    \* the latest slot that was fired

Unarmed == -1
vars == <<armed, busy, fired>>

Init == /\ armed = [t \in Tasks |-> Unarmed]
        /\ busy = [t \in Tasks |-> FALSE]
        /\ fired = [t \in Tasks |-> Unarmed]

\* A fresh slot, or none.
Rearmed(t) == armed'[t] = Unarmed \/ armed'[t] > fired[t]

Arm(t) == /\ ~busy[t] /\ ~busy'[t]
          /\ fired'[t] = fired[t]
          /\ Rearmed(t)

Fire(t) == /\ ~busy[t] /\ busy'[t]
           /\ armed[t] # Unarmed /\ armed'[t] = Unarmed
           /\ fired'[t] = armed[t]

End(t) == /\ busy[t] /\ ~busy'[t]
          /\ fired'[t] = fired[t]
          /\ Rearmed(t)

Idle(t) == /\ busy'[t] = busy[t]
           /\ fired'[t] = fired[t]
           /\ armed'[t] = armed[t]

\* A crash ends the executions of several tasks in one step.
Next == \A t \in Tasks : Arm(t) \/ Fire(t) \/ End(t) \/ Idle(t)

Spec == Init /\ [][Next]_vars
=============================================================================
