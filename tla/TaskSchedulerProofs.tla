-------------------------- MODULE TaskSchedulerProofs --------------------------
(***************************************************************************)
(* Theorems of TaskScheduler, for any number of processes, tasks and       *)
(* schedules and whatever the bounds are.                                  *)
(***************************************************************************)
EXTENDS SchedulerQueue, TLAPS

-----------------------------------------------------------------------------
(* What the helpers return.                                                *)

\* next_run_after computes a time strictly after the one it is given, or none.
LEMMA NextRunIsLater ==
    ASSUME NEW t \in Tasks, NEW after \in Nat
    PROVE  /\ NextRunAfter(t, after) \in Nat \cup {Never}
           /\ NextRunAfter(t, after) = Never \/ NextRunAfter(t, after) > after
<1> DEFINE n == Schedule[t].n
<1>1. n \in Nat /\ n > 0 /\ Schedule[t].kind \in Kinds
  BY ScheduleAssumption DEF Kinds
<1>2. after % n \in Nat /\ after % n < n
  BY <1>1
<1> QED
  BY <1>1, <1>2 DEF NextRunAfter, Kinds, Never

\* A task that recurs always has a next run.
LEMMA RecurringHasNext ==
    ASSUME NEW t \in Tasks, NEW after \in Nat, Schedule[t].kind # "once"
    PROVE  NextRunAfter(t, after) # Never
<1> DEFINE n == Schedule[t].n
<1>1. n \in Nat /\ n > 0 /\ Schedule[t].kind \in Kinds
  BY ScheduleAssumption DEF Kinds
<1>2. after % n \in Nat /\ after % n < n
  BY <1>1
<1> QED
  BY <1>1, <1>2 DEF NextRunAfter, Kinds, Never

\* The row _finish writes is a row, disarmed or armed for a slot after `stamp`
\* if the row it was computed from was disarmed.
LEMMA FinishRowIsLater ==
    ASSUME NEW t \in Tasks, NEW row \in Row, NEW how \in Ending,
           NEW stamp \in Nat
    PROVE  /\ FinishRow(t, row, how, stamp) \in Row
           /\ row.next = Never =>
                 \/ FinishRow(t, row, how, stamp).next = Never
                 \/ FinishRow(t, row, how, stamp).next > stamp
<1>1. StatusOf(how) \in {"succeeded", "failed", "skipped"}
  BY DEF StatusOf, Ending
<1>2. row.enabled \in BOOLEAN /\ row.ran \in BOOLEAN
      /\ row.next \in Nat \cup {Never}
  BY DEF Row
<1>3. FinishRow(t, row, how, stamp).next
         \in {Never, NextRunAfter(t, stamp), row.next}
  BY DEF FinishRow
<1>4. FinishRow(t, row, how, stamp) \in Row
  BY <1>1, <1>2, <1>3, NextRunIsLater DEF FinishRow, Row
<1> QED
  BY <1>3, <1>4, NextRunIsLater

\* Ending a run, or reading the row to write, keeps an execution's type.
LEMMA EndedType ==
    ASSUME NEW e \in Exec, NEW how \in Ending
    PROVE  [e EXCEPT !.pc = "finish", !.how = how] \in Exec
  BY DEF Exec

LEMMA FinishingTask ==
    ASSUME NEW e \in Exec, NEW how
    PROVE  [e EXCEPT !.pc = "finish", !.how = how].task = e.task
  BY DEF Exec

LEMMA WritingType ==
    ASSUME NEW e \in Exec, NEW row \in Row
    PROVE  [e EXCEPT !.pc = "write", !.row = row] \in Exec
  BY DEF Exec

-----------------------------------------------------------------------------
(* Type correctness.                                                       *)

LEMMA TypeInit == Init => TypeOK
<1> SUFFICES ASSUME Init PROVE TypeOK
  OBVIOUS
<1>1. db \in [Tasks -> Row]
  BY DEF Init, Row, Never
<1>2. batch \in [Procs -> SUBSET Snapshot]
  BY DEF Init
<1>3. execs \in SUBSET Exec /\ edit \in SUBSET Snapshot
  BY DEF Init
<1> QED
  BY <1>1, <1>2, <1>3 DEF Init, TypeOK

LEMMA UpdateType ==
    ASSUME TypeOK, NEW t \in Tasks, NEW row \in Row, Update(t, row)
    PROVE  db' \in [Tasks -> Row]
  BY DEF TypeOK, Update, Stored

LEMMA TypeStep == TypeOK /\ [Next]_vars => TypeOK'
<1> SUFFICES ASSUME TypeOK, [Next]_vars PROVE TypeOK'
  OBVIOUS
<1> USE BoundsAssumption
<1>a. CASE UNCHANGED vars
  BY <1>a DEF TypeOK, vars
<1>b. CASE Clock
  BY <1>b DEF Clock, TypeOK, history, procVars
<1>c. CASE DisableWrite
  <2>1. PICK s \in edit :
           Update(s.task, [s.row EXCEPT !.enabled = FALSE, !.next = Never])
    BY <1>c DEF DisableWrite
  <2>2. s.task \in Tasks /\ s.row \in Row
    BY DEF TypeOK, Snapshot
  <2>3. [s.row EXCEPT !.enabled = FALSE, !.next = Never] \in Row
    BY <2>2 DEF Row
  <2>4. db' \in [Tasks -> Row]
    BY <2>1, <2>2, <2>3, UpdateType
  <2> QED
    BY <1>c, <2>4 DEF DisableWrite, TypeOK, history, procVars
<1>d. ASSUME NEW t \in Tasks, Create(t) PROVE TypeOK'
  <2>1. PICK computed \in 0..now :
           db' = [db EXCEPT ![t] = [enabled |-> TRUE, ran |-> FALSE,
                                    next |-> NextRunAfter(t, computed),
                                    status |-> "none"]]
    BY <1>d DEF Create
  <2>2. NextRunAfter(t, computed) \in Nat \cup {Never}
    BY NextRunIsLater DEF TypeOK
  <2>3. db' \in [Tasks -> Row]
    BY <2>1, <2>2 DEF TypeOK, Row
  <2> QED
    BY <1>d, <2>3 DEF Create, TypeOK, history, procVars
<1>e. ASSUME NEW t \in Tasks, Delete(t) \/ DisableRead(t) PROVE TypeOK'
  <2>1. RowOf(t) \in Snapshot
    BY DEF TypeOK, RowOf, Snapshot
  <2> QED
    BY <1>e, <2>1 DEF Delete, DisableRead, TypeOK, history, procVars
<1>f. ASSUME NEW p \in Procs, Start(p) PROVE TypeOK'
  <2>1. \A t \in Tasks : RowOf(t) \in Snapshot
    BY DEF TypeOK, RowOf, Snapshot
  <2>2. batch' \in [Procs -> SUBSET Snapshot]
    BY <1>f, <2>1 DEF Start, TypeOK
  <2> QED
    BY <1>f, <2>2 DEF Start, TypeOK
<1>g. ASSUME NEW p \in Procs, Reconcile(p) PROVE TypeOK'
  <2>1. PICK s \in batch[p] :
           /\ Update(s.task, [s.row EXCEPT
                 !.next = NextRunAfter(s.task, at[p]),
                 !.enabled = (NextRunAfter(s.task, at[p]) # Never)])
           /\ batch' = [batch EXCEPT ![p] = @ \ {s}]
    BY <1>g DEF Reconcile
  <2>2. s.task \in Tasks /\ s.row \in Row
    BY DEF TypeOK, Snapshot
  <2>3. NextRunAfter(s.task, at[p]) \in Nat \cup {Never}
    BY <2>2, NextRunIsLater DEF TypeOK
  <2>4. [s.row EXCEPT !.next = NextRunAfter(s.task, at[p]),
                      !.enabled = (NextRunAfter(s.task, at[p]) # Never)] \in Row
    BY <2>2, <2>3 DEF Row
  <2>5. db' \in [Tasks -> Row]
    BY <2>1, <2>2, <2>4, UpdateType
  <2>6. batch' \in [Procs -> SUBSET Snapshot]
    BY <2>1 DEF TypeOK
  <2> QED
    BY <1>g, <2>5, <2>6 DEF Reconcile, TypeOK, history
<1>h. ASSUME NEW p \in Procs, Started(p) \/ Stopped(p) PROVE TypeOK'
  BY <1>h DEF Started, Stopped, TypeOK, history
<1>i. ASSUME NEW p \in Procs, Query(p) PROVE TypeOK'
  <2>1. \A t \in Tasks : RowOf(t) \in Snapshot
    BY DEF TypeOK, RowOf, Snapshot
  <2>2. PICK due \in SUBSET Tasks :
           batch' = [batch EXCEPT ![p] = {RowOf(t) : t \in due}]
    BY <1>i DEF Query
  <2>3. batch' \in [Procs -> SUBSET Snapshot]
    BY <2>1, <2>2 DEF TypeOK
  <2> QED
    BY <1>i, <2>3 DEF Query, TypeOK, history
<1>j. ASSUME NEW p \in Procs, Claim(p) PROVE TypeOK'
  <2> DEFINE h == CHOOSE x \in FreeHandles : TRUE
  <2>1. PICK s \in batch[p] :
           /\ Visit(p, s)
           /\ Claimable(s.task, at[p])
           /\ db' = [db EXCEPT ![s.task] = Disarm(@)]
           /\ last' = [last EXCEPT ![s.task] = db[s.task].next]
           /\ execs' = execs \cup
                {[id |-> h, proc |-> p, task |-> s.task, row |-> s.row,
                  how |-> "none", pc |-> "claimed"]}
    BY <1>j DEF Claim
  <2>2. h \in Handles
    BY <1>j DEF Claim, FreeHandles
  <2>3. s.task \in Tasks /\ s.row \in Row
    BY DEF TypeOK, Snapshot
  <2>4. db' \in [Tasks -> Row] /\ last' \in [Tasks -> Nat \cup {Never}]
    BY <2>1, <2>3 DEF TypeOK, Row, Disarm
  <2>5. [id |-> h, proc |-> p, task |-> s.task, row |-> s.row,
         how |-> "none", pc |-> "claimed"] \in Exec
    <3> HIDE DEF h
    <3> QED
      BY <2>2, <2>3 DEF Exec, Ending
  <2>6. batch' \in [Procs -> SUBSET Snapshot]
    BY <2>1 DEF Visit, TypeOK
  <2> QED
    BY <1>j, <2>1, <2>4, <2>5, <2>6 DEF Claim, TypeOK
<1>k. ASSUME NEW p \in Procs, ClaimLost(p) PROVE TypeOK'
  <2>1. PICK s \in batch[p] : Visit(p, s)
    BY <1>k DEF ClaimLost
  <2>2. batch' \in [Procs -> SUBSET Snapshot]
    BY <2>1 DEF Visit, TypeOK
  <2> QED
    BY <1>k, <2>2 DEF ClaimLost, TypeOK, history
<1>l. ASSUME NEW p \in Procs, Stop(p) \/ Crash(p) PROVE TypeOK'
  <2>1. batch' \in [Procs -> SUBSET Snapshot]
    BY <1>l DEF Stop, Crash, TypeOK
  <2> QED
    BY <1>l, <2>1 DEF Stop, Crash, TypeOK, history
<1>m. ASSUME NEW p \in Procs, DrainTimeout(p) PROVE TypeOK'
  <2>1. ASSUME NEW e \in execs
        PROVE  [e EXCEPT !.pc = "finish", !.how = "cutoff"] \in Exec
    BY EndedType DEF TypeOK, Ending
  <2>2. execs' = (execs \ ExecsOf(p)) \cup
          {[e EXCEPT !.pc = "finish", !.how = "cutoff"] :
              e \in {x \in ExecsOf(p) : x.pc = "running"}}
    BY <1>m DEF DrainTimeout
  <2>3. execs' \in SUBSET Exec
    BY <2>1, <2>2, ExecsOf(p) \subseteq execs DEF TypeOK, ExecsOf
  <2> QED
    BY <1>m, <2>3 DEF DrainTimeout, TypeOK, history
<1>n. ASSUME NEW e \in execs, Misfire(e) \/ RunnerEnds(e) PROVE TypeOK'
  <2>1. e \in Exec
    BY DEF TypeOK
  <2>2. PICK how \in Ending :
           execs' = (execs \ {e}) \cup {[e EXCEPT !.pc = "finish", !.how = how]}
    BY <1>n DEF Misfire, RunnerEnds, Ending
  <2>3. [e EXCEPT !.pc = "finish", !.how = how] \in Exec
    BY <2>1, EndedType
  <2> QED
    BY <1>n, <2>2, <2>3 DEF Misfire, RunnerEnds, TypeOK, history, procVars
<1>o. ASSUME NEW e \in execs, Spawn(e) \/ Begin(e) PROVE TypeOK'
  <2>1. e \in Exec
    BY DEF TypeOK
  <2>2. PICK pc \in {"queued", "running"} :
           execs' = (execs \ {e}) \cup {[e EXCEPT !.pc = pc]}
    BY <1>o DEF Spawn, Begin, Advance
  <2>3. [e EXCEPT !.pc = pc] \in Exec
    BY <2>1 DEF Exec
  <2> QED
    BY <1>o, <2>2, <2>3 DEF Spawn, Begin, TypeOK, history, procVars
<1>p. ASSUME NEW e \in execs, FinishRead(e) PROVE TypeOK'
  <2> DEFINE current == IF Stored(e.task) THEN db[e.task] ELSE e.row
             row == FinishRow(e.task, current, e.how, now)
  <2>1. e \in Exec /\ e.task \in Tasks /\ e.how \in Ending /\ current \in Row
    BY DEF TypeOK, Exec
  <2>2. row \in Row
    BY <2>1, FinishRowIsLater DEF TypeOK
  <2>3. execs' \in SUBSET Exec
    <3>1. execs' = (execs \ {e}) \cup {[e EXCEPT !.pc = "write", !.row = row]}
      BY <1>p DEF FinishRead
    <3> HIDE DEF row
    <3> QED
      BY <2>1, <2>2, <3>1, WritingType DEF TypeOK
  <2> QED
    BY <1>p, <2>3 DEF FinishRead, TypeOK, history, procVars
<1>q. ASSUME NEW e \in execs, FinishWrite(e) PROVE TypeOK'
  <2>1. e.task \in Tasks /\ e.row \in Row /\ e.how \in Ending
    BY DEF TypeOK, Exec
  <2>2. db' \in [Tasks -> Row]
    BY <1>q, <2>1, UpdateType DEF FinishWrite
  <2> QED
    BY <1>q, <2>1, <2>2 DEF FinishWrite, TypeOK, procVars
<1>r. ASSUME NEW e \in execs, FinishFails(e) PROVE TypeOK'
  <2>1. batch' \in [Procs -> SUBSET Snapshot]
    BY <1>r DEF FinishFails, TypeOK
  <2> QED
    BY <1>r, <2>1 DEF FinishFails, TypeOK
<1> QED
  BY <1>a, <1>b, <1>c, <1>d, <1>e, <1>f, <1>g, <1>h, <1>i, <1>j, <1>k, <1>l,
     <1>m, <1>n, <1>o, <1>p, <1>q, <1>r
     DEF Next, ExecStep, ProcStep

\* Every variable keeps its type, under any number of processes and any bounds.
THEOREM TypeCorrect == Spec => []TypeOK
  BY TypeInit, TypeStep, PTL DEF Spec

-----------------------------------------------------------------------------
(* The inductive invariant.  Unless a scheduler started beside unfinished   *)
(* work, the row of a task in flight is disarmed, so neither a second claim *)
(* nor a second reconcile can reach it.                                     *)

\* A task in flight has one execution, its row is not armed, and the row the
\* execution is about to write arms it for a later slot or not at all.
InFlight ==
    \A e \in execs :
        /\ \A f \in execs : e.task = f.task => e = f
        /\ Stored(e.task) => db[e.task].next = Never
        /\ e.pc = "write" /\ Stored(e.task) =>
               e.row.next = Never \/ e.row.next > last[e.task]

\* A row that a reconcile has still to rewrite is disarmed and not in flight,
\* its slots lie in the past, and only one process is reconciling.
Reconciling ==
    \A p \in Procs : mode[p] = "reconciling" =>
        /\ \A q \in Procs : mode[q] = "reconciling" => q = p
        /\ \A s \in batch[p] :
             /\ \A u \in batch[p] : u.task = s.task => u = s
             /\ \A e \in execs : e.task # s.task
             /\ Stored(s.task) => db[s.task].next = Never
             /\ last[s.task] <= at[p]
             /\ life[s.task] # "unborn"

\* Nobody is ahead of the clock, and nothing happened to an id before its row.
Clocks ==
    /\ \A p \in Procs : at[p] <= now
    /\ \A t \in Tasks : last[t] <= now
    /\ \A t \in Tasks : life[t] = "unborn" =>
           last[t] = Never /\ \A e \in execs : e.task # t

Quiet == InFlight /\ Reconciling /\ ArmedIsFresh

IInv == /\ TypeOK
        /\ Clocks
        /\ racy \/ Quiet

-----------------------------------------------------------------------------
LEMMA IInvInit == Init => IInv
<1> SUFFICES ASSUME Init PROVE IInv
  OBVIOUS
<1>1. Clocks
  BY DEF Init, Clocks, Never
<1>2. InFlight /\ Reconciling /\ ArmedIsFresh
  BY DEF Init, InFlight, Reconciling, ArmedIsFresh, Stored
<1> QED
  BY <1>1, <1>2, TypeInit DEF IInv, Quiet

\* The tasks in flight after a step were in flight before it.
SameFlights == \A f \in execs' : \E e \in execs : f.task = e.task

LEMMA SameFlightsOfDrain ==
    ASSUME TypeOK, NEW p \in Procs, DrainTimeout(p)
    PROVE  SameFlights
<1> SUFFICES ASSUME NEW f \in execs'
             PROVE  \E e \in execs : f.task = e.task
  BY DEF SameFlights
<1>1. CASE f \in execs
  BY <1>1
<1>2. CASE f \notin execs
  <2> DEFINE Ended(e) == [e EXCEPT !.pc = "finish", !.how = "cutoff"]
             Cut == {x \in ExecsOf(p) : x.pc = "running"}
  <2>a. f \in {Ended(e) : e \in Cut}
    BY <1>2 DEF DrainTimeout, ExecsOf
  <2>1. PICK e \in ExecsOf(p) : f = Ended(e)
    <3> HIDE DEF Ended
    <3> QED
      BY <2>a
  <2>2. e \in execs /\ e \in Exec
    BY DEF ExecsOf, TypeOK
  <2> QED
    BY <2>1, <2>2, FinishingTask
<1> QED
  BY <1>1, <1>2

LEMMA SameFlightsOfExec ==
    ASSUME TypeOK, NEW e \in execs, ExecStep(e) \/ FinishFails(e)
    PROVE  SameFlights
<1>1. e \in Exec
  BY DEF TypeOK
<1>2. CASE FinishWrite(e) \/ FinishFails(e)
  BY <1>2 DEF FinishWrite, FinishFails, SameFlights
<1>3. CASE Misfire(e) \/ RunnerEnds(e)
  <2>1. PICK how : execs' = (execs \ {e})
                     \cup {[e EXCEPT !.pc = "finish", !.how = how]}
    BY <1>3 DEF Misfire, RunnerEnds
  <2>2. [e EXCEPT !.pc = "finish", !.how = how].task = e.task
    BY <1>1, FinishingTask
  <2> QED
    BY <2>1, <2>2 DEF SameFlights
<1>4. CASE Spawn(e) \/ Begin(e)
  <2>1. PICK pc : execs' = (execs \ {e}) \cup {[e EXCEPT !.pc = pc]}
    BY <1>4 DEF Spawn, Begin, Advance
  <2>2. [e EXCEPT !.pc = pc].task = e.task
    BY <1>1 DEF Exec
  <2> QED
    BY <2>1, <2>2 DEF SameFlights
<1>5. CASE FinishRead(e)
  <2>1. PICK row : execs' = (execs \ {e})
                     \cup {[e EXCEPT !.pc = "write", !.row = row]}
    BY <1>5 DEF FinishRead
  <2>2. [e EXCEPT !.pc = "write", !.row = row].task = e.task
    BY <1>1 DEF Exec
  <2> QED
    BY <2>1, <2>2 DEF SameFlights
<1> QED
  BY <1>2, <1>3, <1>4, <1>5 DEF ExecStep

LEMMA ClocksKept ==
    ASSUME TypeOK, Clocks, SameFlights, UNCHANGED <<now, life, last>>,
           \A p \in Procs : at'[p] = at[p] \/ at'[p] = now
    PROVE  Clocks'
  BY DEF Clocks, SameFlights, TypeOK

\* Time only grows, and only a claim moves `last`, up to a slot already due.
LEMMA ClocksStep == TypeOK /\ Clocks /\ [Next]_vars => Clocks'
<1> SUFFICES ASSUME TypeOK, Clocks, [Next]_vars PROVE Clocks'
  OBVIOUS
<1>a. CASE UNCHANGED vars
  BY <1>a DEF Clocks, vars
<1>b. CASE Clock
  BY <1>b DEF Clock, Clocks, TypeOK, history, procVars, Never
<1>c. CASE DisableWrite
  BY <1>c DEF DisableWrite, Clocks, history, procVars
<1>d. ASSUME NEW t \in Tasks, Create(t) \/ Delete(t) \/ DisableRead(t)
      PROVE  Clocks'
  BY <1>d DEF Create, Delete, DisableRead, Clocks, Stored, TypeOK, history,
              procVars
<1>e. ASSUME NEW p \in Procs,
             \/ Start(p) \/ Reconcile(p) \/ Started(p) \/ Query(p)
             \/ ClaimLost(p) \/ Stopped(p) \/ Stop(p) \/ Crash(p)
      PROVE  Clocks'
  <2>1. UNCHANGED <<now, life, last>> /\ execs' \subseteq execs
    BY <1>e DEF Start, Reconcile, Started, Query, ClaimLost, Stopped, Stop,
                Crash, history
  <2>2. \A q \in Procs : at'[q] = at[q] \/ at'[q] = now
    BY <1>e DEF Start, Reconcile, Started, Query, ClaimLost, Stopped, Stop,
                Crash, TypeOK
  <2> QED
    BY <2>1, <2>2, ClocksKept DEF SameFlights
<1>f. ASSUME NEW p \in Procs, Claim(p) PROVE Clocks'
  <2>1. PICK s \in batch[p] :
           /\ Claimable(s.task, at[p])
           /\ last' = [last EXCEPT ![s.task] = db[s.task].next]
           /\ execs' = execs \cup
                {[id |-> CHOOSE h \in FreeHandles : TRUE, proc |-> p,
                  task |-> s.task, row |-> s.row, how |-> "none",
                  pc |-> "claimed"]}
    BY <1>f DEF Claim
  <2>2. s.task \in Tasks /\ db[s.task] \in Row
    BY DEF TypeOK, Snapshot
  <2>3. db[s.task].next <= now /\ life[s.task] = "stored"
    BY <2>1, <2>2 DEF Claimable, Stored, Clocks, TypeOK, Row, Never
  <2>4. \A f \in execs' : f \in execs \/ f.task = s.task
    BY <2>1
  <2>5. UNCHANGED <<now, life, at>>
    BY <1>f DEF Claim
  <2> QED
    BY <2>1, <2>2, <2>3, <2>4, <2>5 DEF Clocks, TypeOK
<1>g. ASSUME NEW p \in Procs, DrainTimeout(p) PROVE Clocks'
  BY <1>g, SameFlightsOfDrain, ClocksKept DEF DrainTimeout, history
<1>h. ASSUME NEW e \in execs, ExecStep(e) \/ FinishFails(e) PROVE Clocks'
  <2>1. UNCHANGED <<now, life, last, at>>
    BY <1>h DEF ExecStep, Misfire, Spawn, Begin, RunnerEnds, FinishRead,
                FinishWrite, FinishFails, history, procVars
  <2> QED
    BY <1>h, <2>1, SameFlightsOfExec, ClocksKept
<1> QED
  BY <1>a, <1>b, <1>c, <1>d, <1>e, <1>f, <1>g, <1>h DEF Next, ProcStep

-----------------------------------------------------------------------------
(* Executions that move on or end, with the rows as they were.             *)

LEMMA MovedInFlight ==
    ASSUME TypeOK, InFlight, NEW e \in execs, NEW f,
           execs' = (execs \ {e}) \cup {f},
           f.task = e.task,
           f.pc = "write" /\ Stored(e.task) =>
               f.row.next = Never \/ f.row.next > last[e.task],
           UNCHANGED <<db, life, last>>
    PROVE  InFlight'
  BY DEF InFlight, Stored

LEMMA FewerInFlight ==
    ASSUME InFlight, execs' \subseteq execs, UNCHANGED <<db, life, last>>
    PROVE  InFlight'
  BY DEF InFlight, Stored

LEMMA MovedReconciling ==
    ASSUME Reconciling,
           \A f \in execs' : \E e \in execs : f.task = e.task,
           UNCHANGED <<db, life, last, mode, at, batch>>
    PROVE  Reconciling'
  BY DEF Reconciling, Stored

LEMMA SameRowsFresh ==
    ASSUME ArmedIsFresh, UNCHANGED <<db, life, last>>
    PROVE  ArmedIsFresh'
  BY DEF ArmedIsFresh, Stored

\* Executions move on without touching the rows: what a step of an execution
\* that does not write, and every step that only ends executions, preserves.
LEMMA QuietKept ==
    ASSUME Quiet, SameFlights, InFlight',
           UNCHANGED <<db, life, last, mode, at, batch>>
    PROVE  Quiet'
  BY MovedReconciling, SameRowsFresh DEF Quiet, SameFlights

\* One step of the scheduler, the tools or a failure.  `racy` is excluded
\* afterwards: only Start changes it, and it is never reset.
LEMMA QuietStep == IInv /\ [Next]_vars => (racy \/ Quiet)'
<1> SUFFICES ASSUME IInv, [Next]_vars, ~racy' PROVE Quiet'
  OBVIOUS
<1> USE DEF IInv
<1>0. Quiet
  BY DEF Next, vars, ProcStep, ExecStep, Start, Reconcile, Started, Query,
         Claim, ClaimLost, Stopped, Stop, DrainTimeout, Crash, Misfire, Spawn,
         Begin, RunnerEnds, FinishRead, FinishWrite, FinishFails, Create,
         Delete, DisableRead, DisableWrite, Clock, history
<1>a. CASE UNCHANGED vars
  BY <1>0, <1>a DEF Quiet, InFlight, Reconciling, ArmedIsFresh, Stored, vars
<1>b. CASE Clock
  BY <1>0, <1>b DEF Clock, Quiet, InFlight, Reconciling, ArmedIsFresh, Stored,
                    history, procVars
<1>c. CASE DisableWrite
  <2>1. PICK s \in edit :
           Update(s.task, [s.row EXCEPT !.enabled = FALSE, !.next = Never])
    BY <1>c DEF DisableWrite
  <2>2. s.task \in Tasks /\ s.row \in Row
    BY DEF TypeOK, Snapshot
  <2>3. [s.row EXCEPT !.enabled = FALSE, !.next = Never].next = Never
    BY <2>2 DEF Row
  <2>4. \A t \in Tasks : db'[t] = db[t] \/ db'[t].next = Never
    BY <2>1, <2>2, <2>3 DEF Update, TypeOK
  <2>5. UNCHANGED <<life, last, execs, mode, at, batch>>
    BY <1>c DEF DisableWrite, history, procVars
  <2> QED
    BY <1>0, <2>4, <2>5
       DEF Quiet, InFlight, Reconciling, ArmedIsFresh, Stored, TypeOK, Exec,
           Snapshot
<1>d. ASSUME NEW t \in Tasks, Create(t) PROVE Quiet'
  <2>1. db' = [db EXCEPT ![t] = db'[t]] /\ db'[t].next \in Nat \cup {Never}
    <3>1. PICK computed \in 0..now :
             db' = [db EXCEPT ![t] = [enabled |-> TRUE, ran |-> FALSE,
                                      next |-> NextRunAfter(t, computed),
                                      status |-> "none"]]
      BY <1>d DEF Create
    <3> QED
      BY <3>1, NextRunIsLater DEF TypeOK
  <2>2. life' = [life EXCEPT ![t] = "stored"] /\ life[t] = "unborn"
    BY <1>d DEF Create
  <2>3. last[t] = Never /\ \A e \in execs : e.task # t
    BY <2>2 DEF Clocks
  <2>4. UNCHANGED <<last, execs, mode, at, batch>>
    BY <1>d DEF Create, history, procVars
  <2>5. InFlight'
    BY <1>0, <2>1, <2>2, <2>3, <2>4 DEF Quiet, InFlight, Stored, TypeOK, Exec
  <2>6. Reconciling'
    BY <1>0, <2>1, <2>2, <2>3, <2>4
       DEF Quiet, Reconciling, Stored, TypeOK, Snapshot
  <2>7. ArmedIsFresh'
    BY <1>0, <2>1, <2>2, <2>3, <2>4
       DEF Quiet, ArmedIsFresh, Stored, TypeOK, Never
  <2> QED
    BY <2>5, <2>6, <2>7 DEF Quiet
<1>e. ASSUME NEW t \in Tasks, Delete(t) \/ DisableRead(t) PROVE Quiet'
  <2>1. UNCHANGED <<db, last, execs, mode, at, batch>>
    BY <1>e DEF Delete, DisableRead, history, procVars
  <2>2. life' = life \/ life' = [life EXCEPT ![t] = "deleted"]
    BY <1>e DEF Delete, DisableRead
  <2> QED
    BY <1>0, <2>1, <2>2
       DEF Quiet, InFlight, Reconciling, ArmedIsFresh, Stored, TypeOK, Exec,
           Snapshot
<1>f. ASSUME NEW p \in Procs, Start(p) PROVE Quiet'
  <2>1. execs = {} /\ \A q \in Procs \ {p} : mode[q] # "reconciling"
    BY <1>f DEF Start
  <2>2. UNCHANGED <<db, life, last, execs>>
    BY <1>f DEF Start
  <2>3. \A q \in Procs : mode'[q] = "reconciling" => q = p
    BY <1>f, <2>1 DEF Start, TypeOK
  <2>4. at'[p] = now
    BY <1>f DEF Start, TypeOK
  <2>5. \A s \in batch'[p] : \E t \in Tasks :
           s = RowOf(t) /\ Stored(t) /\ db[t].next = Never
    BY <1>f DEF Start, TypeOK
  <2>6. Reconciling'
    BY <2>1, <2>2, <2>3, <2>4, <2>5
       DEF Reconciling, RowOf, Clocks, Stored, TypeOK
  <2> QED
    BY <1>0, <2>2, <2>6, FewerInFlight, SameRowsFresh DEF Quiet
<1>g. ASSUME NEW p \in Procs, Reconcile(p) PROVE Quiet'
  <2> DEFINE Fixed(s) == [s.row EXCEPT
                 !.next = NextRunAfter(s.task, at[p]),
                 !.enabled = (NextRunAfter(s.task, at[p]) # Never)]
  <2>1. PICK s \in batch[p] : Update(s.task, Fixed(s))
                              /\ batch' = [batch EXCEPT ![p] = @ \ {s}]
    BY <1>g DEF Reconcile
  <2>2. s.task \in Tasks /\ s.row \in Row
    BY DEF TypeOK, Snapshot
  <2>3. Fixed(s).next = NextRunAfter(s.task, at[p])
    BY <2>2 DEF Row
  <2>4. /\ \A q \in Procs : mode[q] = "reconciling" => q = p
        /\ \A u \in batch[p] : u.task = s.task => u = s
        /\ \A e \in execs : e.task # s.task
        /\ last[s.task] <= at[p]
    BY <1>0, <1>g, <2>1 DEF Reconcile, Quiet, Reconciling
  <2>5. \A t \in Tasks : t # s.task => db'[t] = db[t]
    BY <2>1, <2>2 DEF Update, TypeOK
  <2>6. Stored(s.task) => db'[s.task].next = Never
                          \/ db'[s.task].next > last[s.task]
    <3>1. \/ NextRunAfter(s.task, at[p]) = Never
          \/ NextRunAfter(s.task, at[p]) > last[s.task]
      BY <2>2, <2>4, NextRunIsLater DEF TypeOK, Never
    <3>2. Stored(s.task) => db' = [db EXCEPT ![s.task] = Fixed(s)]
      BY <2>1 DEF Update
    <3> HIDE DEF Fixed
    <3> QED
      BY <2>2, <2>3, <3>1, <3>2 DEF TypeOK
  <2>7. UNCHANGED <<life, last, execs, mode, at>>
    BY <1>g DEF Reconcile, history
  <2>8. InFlight'
    BY <1>0, <2>4, <2>5, <2>7 DEF Quiet, InFlight, Stored, TypeOK, Exec
  <2>9. Reconciling'
    <3>1. \A u \in batch'[p] : u \in batch[p] /\ u.task # s.task
      BY <2>1, <2>4 DEF TypeOK
    <3> QED
      BY <1>0, <2>4, <2>5, <2>7, <3>1
         DEF Quiet, Reconciling, Stored, TypeOK, Snapshot
  <2>10. ArmedIsFresh'
    BY <1>0, <2>5, <2>6, <2>7 DEF Quiet, ArmedIsFresh, Stored
  <2> QED
    BY <2>8, <2>9, <2>10 DEF Quiet
<1>h. ASSUME NEW p \in Procs,
             \/ Started(p) \/ Query(p) \/ ClaimLost(p)
             \/ Stopped(p) \/ Stop(p) \/ Crash(p)
      PROVE  Quiet'
  <2>1. UNCHANGED <<db, life, last>> /\ execs' \subseteq execs
    BY <1>h DEF Started, Query, ClaimLost, Stopped, Stop, Crash, history
  <2>2. \A q \in Procs : mode'[q] = "reconciling" =>
           q # p /\ mode[q] = "reconciling"
    BY <1>h DEF Started, Query, ClaimLost, Visit, Stopped, Stop, Crash, TypeOK
  <2>3. \A q \in Procs : q # p => batch'[q] = batch[q] /\ at'[q] = at[q]
    BY <1>h DEF Started, Query, ClaimLost, Visit, Stopped, Stop, Crash, TypeOK
  <2>4. Reconciling'
    BY <1>0, <2>1, <2>2, <2>3 DEF Quiet, Reconciling, Stored
  <2> QED
    BY <1>0, <2>1, <2>4, FewerInFlight, SameRowsFresh DEF Quiet
<1>i. ASSUME NEW p \in Procs, Claim(p) PROVE Quiet'
  <2>1. PICK s \in batch[p] :
           /\ Visit(p, s)
           /\ Claimable(s.task, at[p])
           /\ db' = [db EXCEPT ![s.task] = Disarm(@)]
           /\ last' = [last EXCEPT ![s.task] = db[s.task].next]
           /\ execs' = execs \cup
                {[id |-> CHOOSE h \in FreeHandles : TRUE, proc |-> p,
                  task |-> s.task, row |-> s.row, how |-> "none",
                  pc |-> "claimed"]}
    BY <1>i DEF Claim
  <2> DEFINE t == s.task
             f == [id |-> CHOOSE h \in FreeHandles : TRUE, proc |-> p,
                   task |-> s.task, row |-> s.row, how |-> "none",
                   pc |-> "claimed"]
  <2>2. t \in Tasks /\ db[t] \in Row /\ Stored(t) /\ db[t].next # Never
    BY <2>1 DEF TypeOK, Snapshot, Claimable
  <2>3. \A e \in execs : e.task # t
    BY <1>0, <2>2 DEF Quiet, InFlight
  <2>4. execs' = execs \cup {f} /\ f.task = t /\ f.pc = "claimed"
    BY <2>1
  <2>5. db'[t].next = Never /\ \A u \in Tasks : u # t => db'[u] = db[u]
    BY <2>1, <2>2 DEF Disarm, TypeOK, Row
  <2>6. \A u \in Tasks : u # t => last'[u] = last[u]
    BY <2>1, <2>2 DEF TypeOK
  <2>7. UNCHANGED <<life, mode, at>>
    BY <1>i DEF Claim
  <2>8. mode[p] = "up" /\ \A q \in Procs : q # p => batch'[q] = batch[q]
    BY <2>1 DEF Visit, TypeOK
  <2> HIDE DEF t, f
  <2>9. InFlight'
    BY <1>0, <2>2, <2>3, <2>4, <2>5, <2>6, <2>7
       DEF Quiet, InFlight, Stored, TypeOK, Exec
  <2>10. Reconciling'
    BY <1>0, <2>2, <2>4, <2>5, <2>6, <2>7, <2>8
       DEF Quiet, Reconciling, Stored, TypeOK, Snapshot
  <2>11. ArmedIsFresh'
    BY <1>0, <2>5, <2>6, <2>7 DEF Quiet, ArmedIsFresh, Stored
  <2> QED
    BY <2>9, <2>10, <2>11 DEF Quiet
<1>j. ASSUME NEW p \in Procs, DrainTimeout(p) PROVE Quiet'
  <2>1. UNCHANGED <<db, life, last, at, batch>>
    BY <1>j DEF DrainTimeout, history
  <2>2. \A f \in execs' : f \in execs \/ \E e \in execs :
           e.proc = p /\ f = [e EXCEPT !.pc = "finish", !.how = "cutoff"]
    BY <1>j DEF DrainTimeout, ExecsOf
  <2> DEFINE Old(f, e) == f.task = e.task /\ (f.pc = "write" => f = e)
  <2>3. ASSUME NEW f \in execs'
        PROVE  \E e \in execs : e.task = f.task /\ (f.pc = "write" => f = e)
    <3>1. CASE f \in execs
      BY <3>1
    <3>2. CASE f \notin execs
      <4>1. PICK e \in execs : f = [e EXCEPT !.pc = "finish", !.how = "cutoff"]
        BY <2>2, <3>2
      <4>2. e \in Exec
        BY DEF TypeOK
      <4>3. f.task = e.task /\ f.pc = "finish"
        BY <4>1, <4>2 DEF Exec
      <4> QED
        BY <4>3
    <3> QED
      BY <3>1, <3>2
  <2>4. ASSUME NEW f \in execs', NEW g \in execs', f.task = g.task
        PROVE  f = g
    <3> DEFINE Ended(e) == [e EXCEPT !.pc = "finish", !.how = "cutoff"]
    <3>1. \A x \in execs' : \/ x \in execs /\ x.proc # p
                            \/ \E e \in execs : e.proc = p /\ x = Ended(e)
      BY <1>j DEF DrainTimeout, ExecsOf
    <3>2. \A e \in execs : Ended(e).task = e.task
      BY FinishingTask DEF TypeOK
    <3>3. \A c, d \in execs : c.task = d.task => c = d
      BY <1>0 DEF Quiet, InFlight
    <3> HIDE DEF Ended
    <3> QED
      BY <2>4, <3>1, <3>2, <3>3
  <2>5. InFlight'
    BY <1>0, <2>1, <2>3, <2>4 DEF Quiet, InFlight, Stored
  <2>6. \A q \in Procs : mode'[q] = "reconciling" => mode[q] = "reconciling"
    BY <1>j DEF DrainTimeout, TypeOK
  <2>7. Reconciling'
    BY <1>0, <2>1, <2>3, <2>6 DEF Quiet, Reconciling, Stored
  <2> QED
    BY <1>0, <2>1, <2>5, <2>7, SameRowsFresh DEF Quiet
<1>k. ASSUME NEW e \in execs, Misfire(e) \/ RunnerEnds(e) PROVE Quiet'
  <2>1. PICK how : execs' = (execs \ {e})
                     \cup {[e EXCEPT !.pc = "finish", !.how = how]}
    BY <1>k DEF Misfire, RunnerEnds
  <2> DEFINE f == [e EXCEPT !.pc = "finish", !.how = how]
  <2>2. e \in Exec
    BY DEF TypeOK
  <2>3. f.task = e.task /\ f.pc = "finish"
    BY <2>2 DEF Exec
  <2>4. UNCHANGED <<db, life, last, mode, at, batch>>
    BY <1>k DEF Misfire, RunnerEnds, history, procVars
  <2> HIDE DEF f
  <2>5. InFlight'
    BY <1>0, <2>1, <2>3, <2>4, MovedInFlight DEF Quiet, f
  <2> QED
    BY <1>0, <1>k, <2>4, <2>5, SameFlightsOfExec, QuietKept DEF ExecStep
<1>l. ASSUME NEW e \in execs, Spawn(e) \/ Begin(e) PROVE Quiet'
  <2>1. PICK pc \in {"queued", "running"} :
           execs' = (execs \ {e}) \cup {[e EXCEPT !.pc = pc]}
    BY <1>l DEF Spawn, Begin, Advance
  <2> DEFINE f == [e EXCEPT !.pc = pc]
  <2>2. e \in Exec
    BY DEF TypeOK
  <2>3. f.task = e.task /\ f.pc # "write"
    BY <2>1, <2>2 DEF Exec
  <2>4. UNCHANGED <<db, life, last, mode, at, batch>>
    BY <1>l DEF Spawn, Begin, history, procVars
  <2> HIDE DEF f
  <2>5. InFlight'
    BY <1>0, <2>1, <2>3, <2>4, MovedInFlight DEF Quiet, f
  <2> QED
    BY <1>0, <1>l, <2>4, <2>5, SameFlightsOfExec, QuietKept DEF ExecStep
<1>m. ASSUME NEW e \in execs, FinishRead(e) PROVE Quiet'
  <2> DEFINE current == IF Stored(e.task) THEN db[e.task] ELSE e.row
             row == FinishRow(e.task, current, e.how, now)
             f == [e EXCEPT !.pc = "write", !.row = row]
  <2>1. execs' = (execs \ {e}) \cup {f}
    BY <1>m DEF FinishRead
  <2>2. e \in Exec /\ e.task \in Tasks /\ e.how \in Ending /\ current \in Row
    BY DEF TypeOK, Exec
  <2>3. f.task = e.task /\ f.row = row
    BY <2>2 DEF Exec
  <2>4. row \in Row /\ (current.next = Never =>
           row.next = Never \/ row.next > now)
    BY <2>2, FinishRowIsLater DEF TypeOK
  <2>5. Stored(e.task) => current.next = Never
    BY <1>0 DEF Quiet, InFlight
  <2>6. last[e.task] <= now /\ last[e.task] \in Int /\ now \in Int
    BY <2>2 DEF Clocks, TypeOK, Never
  <2>7. UNCHANGED <<db, life, last, mode, at, batch>>
    BY <1>m DEF FinishRead, history, procVars
  <2> HIDE DEF current, row, f
  <2>8. Stored(e.task) => f.row.next = Never \/ f.row.next > last[e.task]
    BY <2>3, <2>4, <2>5, <2>6 DEF Row
  <2>9. InFlight'
    BY <1>0, <2>1, <2>3, <2>7, <2>8, MovedInFlight DEF Quiet
  <2> QED
    BY <1>0, <1>m, <2>7, <2>9, SameFlightsOfExec, QuietKept DEF ExecStep
<1>n. ASSUME NEW e \in execs, FinishWrite(e) PROVE Quiet'
  <2>1. e.task \in Tasks /\ e.row \in Row
    BY DEF TypeOK, Exec
  <2>2. execs' = execs \ {e} /\ UNCHANGED <<life, last, mode, at, batch>>
    BY <1>n DEF FinishWrite, procVars
  <2>3. Update(e.task, e.row) /\ e.pc = "write"
    BY <1>n DEF FinishWrite
  <2>4. \A t \in Tasks : t # e.task => db'[t] = db[t]
    BY <2>1, <2>3 DEF Update, TypeOK
  <2>5. Stored(e.task) => db'[e.task].next = Never
                          \/ db'[e.task].next > last[e.task]
    BY <1>0, <2>1, <2>3 DEF Quiet, InFlight, Update, TypeOK
  <2>6. \A f \in execs' : f.task # e.task
    BY <1>0, <2>2 DEF Quiet, InFlight
  <2>7. InFlight'
    BY <1>0, <2>2, <2>4, <2>6 DEF Quiet, InFlight, Stored, TypeOK, Exec
  <2>8. Reconciling'
    BY <1>0, <2>2, <2>4 DEF Quiet, Reconciling, Stored, TypeOK, Snapshot
  <2>9. ArmedIsFresh'
    BY <1>0, <2>2, <2>4, <2>5 DEF Quiet, ArmedIsFresh, Stored
  <2> QED
    BY <2>7, <2>8, <2>9 DEF Quiet
<1>o. ASSUME NEW e \in execs, FinishFails(e) PROVE Quiet'
  <2>1. execs' \subseteq execs /\ UNCHANGED <<db, life, last, mode, at>>
    BY <1>o DEF FinishFails
  <2>2. \A q \in Procs : batch'[q] \subseteq batch[q]
    BY <1>o DEF FinishFails, TypeOK
  <2>3. Reconciling'
    BY <1>0, <2>1, <2>2 DEF Quiet, Reconciling, Stored
  <2> QED
    BY <1>0, <2>1, <2>3, FewerInFlight, SameRowsFresh DEF Quiet
<1> QED
  BY <1>a, <1>b, <1>c, <1>d, <1>e, <1>f, <1>g, <1>h, <1>i, <1>j, <1>k, <1>l,
     <1>m, <1>n, <1>o DEF Next, ProcStep, ExecStep

\* The strengthening is an invariant of the scheduler.
THEOREM Inductive == Spec => []IInv
<1>1. IInv /\ [Next]_vars => IInv'
  BY TypeStep, ClocksStep, QuietStep DEF IInv
<1> QED
  BY IInvInit, <1>1, PTL DEF Spec

\* Unless a scheduler starts beside unfinished work, no task ever runs beside
\* itself, for any number of processes: `await self._tasks.claim(...)` is what
\* keeps two of them from executing one row together.
THEOREM NeverOverlaps == Spec => []NoOverlap
<1>1. IInv => NoOverlap
  BY DEF IInv, Quiet, InFlight, NoOverlap
<1> QED
  BY Inductive, <1>1, PTL

\* Under the same condition every armed slot is later than every claimed one,
\* so no slot is ever fired twice.
THEOREM NeverFiresTwice == Spec => []SlotsFireOnce
<1>1. IInv => SlotsFireOnce
  BY DEF IInv, Quiet, SlotsFireOnce
<1> QED
  BY Inductive, <1>1, PTL

-----------------------------------------------------------------------------
(* The scheduler implements SlotContract.                                  *)

\* The slot of a task as the contract sees it, and whether it is in flight.
Slot(t) == IF Stored(t) THEN db[t].next ELSE Never
Flying(t) == \E e \in execs : e.task = t

\* A task in flight is not armed; any slot it is armed for is a fresh one.
LEMMA SlotIsFresh ==
    ASSUME Quiet, NEW t \in Tasks
    PROVE  /\ Slot(t) = Never \/ Slot(t) > last[t]
           /\ Flying(t) => Slot(t) = Never
  BY DEF Quiet, InFlight, ArmedIsFresh, Slot, Flying

\* A step that starts no execution and claims no slot may arm an idle task or
\* disarm it, or end its execution: each is a step of the contract.
LEMMA NoNewFlight ==
    ASSUME Quiet, Quiet', SameFlights, UNCHANGED last
    PROVE  Contract!Next
<1> SUFFICES ASSUME NEW t \in Tasks
             PROVE  Contract!Arm(t) \/ Contract!End(t) \/ Contract!Idle(t)
  BY DEF Contract!Next
<1>1. (Slot(t))' = Never \/ (Slot(t))' > last'[t]
  BY DEF Quiet, ArmedIsFresh, Slot, Stored
<1>2. Flying(t) => Slot(t) = Never
  BY SlotIsFresh
<1>3. (Flying(t))' => (Slot(t))' = Never
  BY DEF Quiet, InFlight, Slot, Flying, Stored
<1>4. (Flying(t))' => Flying(t)
  BY DEF SameFlights, Flying
<1>5. last'[t] = last[t]
  OBVIOUS
<1>6. /\ Contract!Arm(t) <=>
           /\ ~Flying(t) /\ ~(Flying(t))'
           /\ last'[t] = last[t]
           /\ (Slot(t))' = Never \/ (Slot(t))' > last[t]
      /\ Contract!End(t) <=>
           /\ Flying(t) /\ ~(Flying(t))'
           /\ last'[t] = last[t]
           /\ (Slot(t))' = Never \/ (Slot(t))' > last[t]
      /\ Contract!Idle(t) <=>
           /\ (Flying(t))' = Flying(t)
           /\ last'[t] = last[t]
           /\ (Slot(t))' = Slot(t)
  BY DEF Contract!Arm, Contract!End, Contract!Idle, Contract!Rearmed,
         Contract!Unarmed, Never, Slot, Flying, Stored
<1> QED
  BY <1>1, <1>2, <1>3, <1>4, <1>5, <1>6

\* A claim fires the slot of the one task it starts; nothing happens to others.
LEMMA ClaimFires ==
    ASSUME TypeOK, Quiet, NEW p \in Procs, Claim(p)
    PROVE  Contract!Next
<1>1. PICK s \in batch[p] :
         /\ Claimable(s.task, at[p])
         /\ db' = [db EXCEPT ![s.task] = Disarm(@)]
         /\ last' = [last EXCEPT ![s.task] = db[s.task].next]
         /\ execs' = execs \cup
              {[id |-> CHOOSE h \in FreeHandles : TRUE, proc |-> p,
                task |-> s.task, row |-> s.row, how |-> "none",
                pc |-> "claimed"]}
  BY DEF Claim
<1> DEFINE u == s.task
           f == [id |-> CHOOSE h \in FreeHandles : TRUE, proc |-> p,
                 task |-> s.task, row |-> s.row, how |-> "none",
                 pc |-> "claimed"]
<1>2. u \in Tasks /\ db[u] \in Row /\ Stored(u) /\ db[u].next # Never
  BY <1>1 DEF TypeOK, Snapshot, Claimable
<1>3. db'[u].next = Never /\ \A t \in Tasks : t # u => db'[t] = db[t]
  BY <1>1, <1>2 DEF Disarm, TypeOK, Row
<1>4. /\ last'[u] = db[u].next
      /\ \A t \in Tasks : t # u => last'[t] = last[t]
  BY <1>1, <1>2 DEF TypeOK
<1>5. execs' = execs \cup {f} /\ f.task = u /\ life' = life
  BY <1>1 DEF Claim
<1> HIDE DEF u, f
<1>6. SUFFICES ASSUME NEW t \in Tasks
               PROVE  Contract!Fire(t) \/ Contract!Idle(t)
  BY DEF Contract!Next
<1>7. CASE t = u
  <2>1. ~Flying(t) /\ Slot(t) # Never
    BY <1>2, <1>7, SlotIsFresh DEF Slot
  <2>2. (Flying(t))' /\ (Slot(t))' = Never /\ last'[t] = Slot(t)
    BY <1>2, <1>3, <1>4, <1>5, <1>7 DEF Flying, Slot, Stored
  <2>3. Contract!Fire(t) <=>
            /\ ~Flying(t) /\ (Flying(t))'
            /\ Slot(t) # Never /\ (Slot(t))' = Never
            /\ last'[t] = Slot(t)
    BY DEF Contract!Fire, Contract!Unarmed, Never, Slot, Flying, Stored
  <2> QED
    BY <2>1, <2>2, <2>3
<1>8. CASE t # u
  <2>1. (Flying(t))' = Flying(t)
    BY <1>5, <1>8 DEF Flying
  <2>2. (Slot(t))' = Slot(t) /\ last'[t] = last[t]
    BY <1>3, <1>4, <1>5, <1>8 DEF Slot, Stored
  <2>3. Contract!Idle(t) <=>
            /\ (Flying(t))' = Flying(t)
            /\ last'[t] = last[t]
            /\ (Slot(t))' = Slot(t)
    BY DEF Contract!Idle, Slot, Flying, Stored
  <2> QED
    BY <2>1, <2>2, <2>3
<1> QED
  BY <1>7, <1>8

\* Every step is one the contract allows, unless a scheduler has started beside
\* unfinished work.
LEMMA ContractStep ==
    ASSUME IInv, IInv', [Next]_vars, ~racy'
    PROVE  [Contract!Next]_(Contract!vars)
<1> USE DEF IInv
<1>0. Quiet /\ Quiet'
  BY DEF Next, vars, ProcStep, ExecStep, Start, Reconcile, Started, Query,
         Claim, ClaimLost, Stopped, Stop, DrainTimeout, Crash, Misfire, Spawn,
         Begin, RunnerEnds, FinishRead, FinishWrite, FinishFails, Create,
         Delete, DisableRead, DisableWrite, Clock, history
<1>1. CASE UNCHANGED vars
  BY <1>1 DEF vars, Contract!vars, Stored
<1>2. ASSUME NEW p \in Procs, Claim(p) PROVE Contract!Next
  BY <1>0, <1>2, ClaimFires
<1>3. ASSUME NEW p \in Procs, DrainTimeout(p) PROVE Contract!Next
  BY <1>0, <1>3, SameFlightsOfDrain, NoNewFlight DEF DrainTimeout, history
<1>4. ASSUME NEW p \in Procs,
             \/ Start(p) \/ Reconcile(p) \/ Started(p) \/ Query(p)
             \/ ClaimLost(p) \/ Stopped(p) \/ Stop(p) \/ Crash(p)
      PROVE  Contract!Next
  <2>1. last' = last /\ execs' \subseteq execs
    BY <1>4 DEF Start, Reconcile, Started, Query, ClaimLost, Stopped, Stop,
                Crash, history
  <2> QED
    BY <1>0, <2>1, NoNewFlight DEF SameFlights
<1>5. ASSUME NEW e \in execs, ExecStep(e) \/ FinishFails(e)
      PROVE  Contract!Next
  <2>1. last' = last
    BY <1>5 DEF ExecStep, Misfire, Spawn, Begin, RunnerEnds, FinishRead,
                FinishWrite, FinishFails, history
  <2> QED
    BY <1>0, <1>5, <2>1, SameFlightsOfExec, NoNewFlight
<1>6. ASSUME \/ \E t \in Tasks : Create(t) \/ Delete(t) \/ DisableRead(t)
             \/ DisableWrite \/ Clock
      PROVE  Contract!Next
  <2>1. last' = last /\ execs' = execs
    BY <1>6 DEF Create, Delete, DisableRead, DisableWrite, Clock, history
  <2> QED
    BY <1>0, <2>1, NoNewFlight DEF SameFlights
<1> QED
  BY <1>1, <1>2, <1>3, <1>4, <1>5, <1>6 DEF Next, ProcStep

LEMMA ContractInit == Init => Contract!Init
  BY DEF Init, Contract!Init, Contract!Unarmed, Never, Stored

\* Until a scheduler starts beside unfinished work, the tick loops of any number
\* of processes, the tools that edit rows, shutdowns and crashes together do
\* only what SlotContract allows: a slot is fired at most once, while the task
\* is idle, and only the end of the run arms the task again.
THEOREM ImplementsContract == Spec /\ [](~racy) => KeepsContract
<1>1. /\ IInv /\ ~racy /\ [Next]_vars /\ IInv' /\ (~racy)'
      => [Contract!Next]_(Contract!vars)
  BY ContractStep
<1> QED
  BY <1>1, Inductive, ContractInit, PTL DEF Spec, KeepsContract, Contract!Spec

-----------------------------------------------------------------------------
(* A process that runs alone.                                              *)

\* A process is down only when none of its executions is left.
DownIsIdle == \A p \in Procs : mode[p] = "down" => ExecsOf(p) = {}

\* Executions keep to processes that had some, and one that is not down.
LEMMA DownIsIdleStep ==
    ASSUME TypeOK, DownIsIdle, [Next]_vars
    PROVE  DownIsIdle'
<1> DEFINE Stays == \A f \in execs' : \E e \in execs : f.proc = e.proc
<1>1. ASSUME Stays, \A p \in Procs : mode'[p] = "down" => mode[p] = "down"
      PROVE  DownIsIdle'
  BY <1>1 DEF DownIsIdle, ExecsOf
<1>2. CASE UNCHANGED vars
  BY <1>2 DEF vars, DownIsIdle, ExecsOf
<1>3. CASE \/ \E t \in Tasks : Create(t) \/ Delete(t) \/ DisableRead(t)
           \/ DisableWrite \/ Clock
  <2>1. execs' = execs /\ mode' = mode
    BY <1>3 DEF Create, Delete, DisableRead, DisableWrite, Clock, procVars
  <2> QED
    BY <1>1, <2>1
<1>4. ASSUME NEW p \in Procs,
             \/ Start(p) \/ Reconcile(p) \/ Started(p) \/ Query(p)
             \/ ClaimLost(p) \/ Stop(p)
      PROVE  DownIsIdle'
  <2>1. execs' \subseteq execs
    BY <1>4 DEF Start, Reconcile, Started, Query, ClaimLost, Stop
  <2>2. \A q \in Procs : mode'[q] = "down" => mode[q] = "down"
    BY <1>4 DEF Start, Reconcile, Started, Query, ClaimLost, Stop, TypeOK
  <2> QED
    BY <1>1, <2>1, <2>2
<1>5. ASSUME NEW p \in Procs, Stopped(p) \/ Crash(p) PROVE DownIsIdle'
  <2>1. execs' \subseteq execs /\ \A f \in execs' : f.proc # p
    BY <1>5 DEF Stopped, Crash, ExecsOf
  <2>2. \A q \in Procs : q # p => mode'[q] = mode[q]
    BY <1>5 DEF Stopped, Crash, TypeOK
  <2> QED
    BY <2>1, <2>2 DEF DownIsIdle, ExecsOf
<1>6. ASSUME NEW p \in Procs, Claim(p) PROVE DownIsIdle'
  <2>1. mode[p] = "up" /\ mode' = mode
    BY <1>6 DEF Claim, Visit
  <2>2. \A f \in execs' : f \in execs \/ f.proc = p
    BY <1>6 DEF Claim
  <2> QED
    BY <2>1, <2>2 DEF DownIsIdle, ExecsOf
<1>7. ASSUME NEW p \in Procs, DrainTimeout(p) PROVE DownIsIdle'
  <2>1. \A q \in Procs : mode'[q] = "down" => mode[q] = "down"
    BY <1>7 DEF DrainTimeout, TypeOK
  <2>2. ASSUME NEW f \in execs' PROVE \E e \in execs : f.proc = e.proc
    <3> DEFINE Ended(e) == [e EXCEPT !.pc = "finish", !.how = "cutoff"]
    <3>1. f \in execs \/ \E e \in execs : f = Ended(e)
      BY <1>7 DEF DrainTimeout, ExecsOf
    <3>2. \A e \in execs : Ended(e).proc = e.proc
      BY DEF TypeOK, Exec
    <3> HIDE DEF Ended
    <3> QED
      BY <3>1, <3>2
  <2> QED
    BY <1>1, <2>1, <2>2
<1>8. ASSUME NEW e \in execs, ExecStep(e) \/ FinishFails(e)
      PROVE  DownIsIdle'
  <2>1. mode' = mode
    BY <1>8 DEF ExecStep, Misfire, Spawn, Begin, RunnerEnds, FinishRead,
                FinishWrite, FinishFails, procVars
  <2>2. \A f \in execs' : f \in execs \/ f.proc = e.proc
    <3>1. e \in Exec
      BY DEF TypeOK
    <3>2. CASE FinishWrite(e) \/ FinishFails(e)
      BY <3>2 DEF FinishWrite, FinishFails
    <3>3. CASE Misfire(e) \/ RunnerEnds(e)
      <4>1. PICK how : execs' = (execs \ {e})
                         \cup {[e EXCEPT !.pc = "finish", !.how = how]}
        BY <3>3 DEF Misfire, RunnerEnds
      <4>2. [e EXCEPT !.pc = "finish", !.how = how].proc = e.proc
        BY <3>1 DEF Exec
      <4> QED
        BY <4>1, <4>2
    <3>4. CASE Spawn(e) \/ Begin(e)
      <4>1. PICK pc : execs' = (execs \ {e}) \cup {[e EXCEPT !.pc = pc]}
        BY <3>4 DEF Spawn, Begin, Advance
      <4>2. [e EXCEPT !.pc = pc].proc = e.proc
        BY <3>1 DEF Exec
      <4> QED
        BY <4>1, <4>2
    <3>5. CASE FinishRead(e)
      <4>1. PICK row : execs' = (execs \ {e})
                         \cup {[e EXCEPT !.pc = "write", !.row = row]}
        BY <3>5 DEF FinishRead
      <4>2. [e EXCEPT !.pc = "write", !.row = row].proc = e.proc
        BY <3>1 DEF Exec
      <4> QED
        BY <4>1, <4>2
    <3> QED
      BY <1>8, <3>2, <3>3, <3>4, <3>5 DEF ExecStep
  <2> QED
    BY <1>1, <2>1, <2>2
<1> QED
  BY <1>2, <1>3, <1>4, <1>5, <1>6, <1>7, <1>8 DEF Next, ProcStep

\* stop() returns, and a process dies, with no execution of its own left, so a
\* process that is the only one never starts beside unfinished work.
LEMMA NeverRacyStep ==
    ASSUME TypeOK, DownIsIdle, ~racy, [Next]_vars, \A p, q \in Procs : p = q
    PROVE  ~racy'
<1>1. ASSUME NEW p \in Procs, Start(p) PROVE ~racy'
  <2>1. ExecsOf(p) = {}
    BY <1>1 DEF Start, DownIsIdle
  <2>2. execs = {}
    BY <2>1 DEF ExecsOf, TypeOK, Exec
  <2> QED
    BY <1>1, <2>2 DEF Start
<1> QED
  BY <1>1 DEF Next, vars, ProcStep, ExecStep, Reconcile, Started, Query,
         Claim, ClaimLost, Stopped, Stop, DrainTimeout, Crash, Misfire, Spawn,
         Begin, RunnerEnds, FinishRead, FinishWrite, FinishFails, Create,
         Delete, DisableRead, DisableWrite, Clock, history

\* One process on its database keeps the contract without a proviso, through
\* every stop, cut drain, crash and restart.
THEOREM AloneKeepsContract ==
    ASSUME \A p, q \in Procs : p = q
    PROVE  Spec => KeepsContract
<1> DEFINE Alone == DownIsIdle /\ ~racy
<1>1. Init => Alone
  BY DEF Init, DownIsIdle, ExecsOf
<1>2. IInv /\ Alone /\ [Next]_vars => Alone'
  BY DownIsIdleStep, NeverRacyStep DEF IInv
<1>3. Alone => ~racy
  OBVIOUS
<1> HIDE DEF Alone
<1> QED
  BY <1>1, <1>2, <1>3, Inductive, ImplementsContract, PTL DEF Spec
-----------------------------------------------------------------------------
(* No task is passed twice by the same one.                                *)

\* Whatever may still write the row of u arms it after x, or not at all.
Behind(u, x) ==
    /\ life[u] # "unborn"
    /\ \A e \in execs : e.task = u /\ e.pc = "write" /\ Stored(u) =>
           e.row.next = Never \/ e.row.next > x
    /\ \A q \in Procs : mode[q] = "reconciling"
                          /\ (\E r \in batch[q] : r.task = u) => x <= at[q]

\* A row that a tick has still to visit was armed when it was read: by now it
\* has the slot it had, or none, or one this tick does not take.
Visits ==
    \A p \in Procs : mode[p] = "up" => \A s \in batch[p] :
        /\ s.row.next # Never
        /\ Behind(s.task, at[p])
        /\ db[s.task].next \in {Never, s.row.next} \/ db[s.task].next > at[p]

\* u passed t: it stays behind the slot of t, and a tick that could take it has
\* the row of t before it.
Overtaken(t, u) ==
    /\ Due(t)
    /\ Behind(u, db[t].next)
    /\ db[u].next = Never \/ db[u].next > db[t].next
    /\ \A p \in Procs : mode[p] = "up" => \A s \in batch[p] :
         s.task = u /\ db[u].next # Never /\ db[u].next <= at[p] =>
             \E r \in batch[p] : r.task = t /\ r.row.next = db[t].next

QInv == /\ passed \subseteq Tasks \X Tasks
        /\ racy \/ (Visits /\ \A w \in passed : Overtaken(w[1], w[2]))

\* What one step of the specification is given.
Stepping == IInv /\ IInv' /\ [Next]_vars /\ ~racy /\ Quiet /\ ~racy'

\* Nothing in flight and no reconcile can reach an armed row.
LEMMA ArmedBehind ==
    ASSUME Quiet, NEW u \in Tasks, Stored(u), db[u].next # Never, NEW x
    PROVE  Behind(u, x)
  BY DEF Quiet, InFlight, Reconciling, Behind, Stored

\* The executions after a step: those before it, moved on, or a new claim.
LEMMA Moved ==
    ASSUME TypeOK, [Next]_vars
    PROVE  \A f \in execs' :
             \/ f \in execs
             \/ f.pc \in {"queued", "running", "finish"}
             \/ \E e \in execs : FinishRead(e) /\ f.task = e.task
                  /\ f.pc = "write"
                  /\ f.row = FinishRow(e.task, IF Stored(e.task) THEN db[e.task]
                                               ELSE e.row, e.how, now)
             \/ f.pc = "claimed" /\ \E p \in Procs : Claim(p)
<1> DEFINE Read(f) == \E e \in execs : FinishRead(e) /\ f.task = e.task
                        /\ f.pc = "write"
                        /\ f.row = FinishRow(e.task,
                               IF Stored(e.task) THEN db[e.task]
                               ELSE e.row, e.how, now)
           Known(f) == \/ f \in execs
                       \/ f.pc \in {"queued", "running", "finish"}
                       \/ Read(f)
                       \/ f.pc = "claimed" /\ \E p \in Procs : Claim(p)
           Goal == \A f \in execs' : Known(f)
<1>1. ASSUME NEW p \in Procs, DrainTimeout(p) PROVE Goal
  <2> DEFINE Ended(e) == [e EXCEPT !.pc = "finish", !.how = "cutoff"]
  <2>1. ASSUME NEW f \in execs' PROVE f \in execs \/ \E e \in execs : f = Ended(e)
    BY <1>1 DEF DrainTimeout, ExecsOf
  <2>2. \A e \in execs : Ended(e).pc = "finish"
    BY DEF TypeOK, Exec
  <2> HIDE DEF Ended
  <2> QED
    BY <2>1, <2>2
<1>2. ASSUME NEW p \in Procs, Claim(p) PROVE Goal
  <2>1. \A f \in execs' : f \in execs \/ f.pc = "claimed"
    BY <1>2 DEF Claim
  <2> QED
    BY <1>2, <2>1
<1>3. ASSUME NEW e \in execs, Misfire(e) \/ RunnerEnds(e) PROVE Goal
  <2>1. PICK how : execs' = (execs \ {e})
                     \cup {[e EXCEPT !.pc = "finish", !.how = how]}
    BY <1>3 DEF Misfire, RunnerEnds
  <2>2. [e EXCEPT !.pc = "finish", !.how = how].pc = "finish"
    BY DEF TypeOK, Exec
  <2> QED
    BY <2>1, <2>2
<1>4. ASSUME NEW e \in execs, Spawn(e) \/ Begin(e) PROVE Goal
  <2>1. PICK pc \in {"queued", "running"} :
           execs' = (execs \ {e}) \cup {[e EXCEPT !.pc = pc]}
    BY <1>4 DEF Spawn, Begin, Advance
  <2>2. [e EXCEPT !.pc = pc].pc = pc
    BY DEF TypeOK, Exec
  <2> QED
    BY <2>1, <2>2
<1>5. ASSUME NEW e \in execs, FinishRead(e) PROVE Goal
  <2> DEFINE row == FinishRow(e.task, IF Stored(e.task) THEN db[e.task]
                                      ELSE e.row, e.how, now)
             g == [e EXCEPT !.pc = "write", !.row = row]
  <2>1. execs' = (execs \ {e}) \cup {g}
    BY <1>5 DEF FinishRead
  <2> HIDE DEF row
  <2>2. e \in Exec
    BY DEF TypeOK
  <2>3. g.task = e.task /\ g.pc = "write" /\ g.row = row
    BY <2>2 DEF Exec
  <2> HIDE DEF g
  <2>4. Read(g)
    BY <1>5, <2>3 DEF row
  <2> HIDE DEF Read
  <2> QED
    BY <2>1, <2>4
<1>6. ASSUME execs' \subseteq execs PROVE Goal
  BY <1>6
<1> HIDE DEF Goal, Known, Read
<1>7. Goal
  <2>1. ASSUME NEW p \in Procs,
               \/ Start(p) \/ Reconcile(p) \/ Started(p) \/ Query(p)
               \/ ClaimLost(p) \/ Stopped(p) \/ Stop(p) \/ Crash(p)
        PROVE  Goal
    BY <1>6, <2>1 DEF Start, Reconcile, Started, Query, ClaimLost, Stopped,
                      Stop, Crash
  <2>2. ASSUME NEW e \in execs, FinishWrite(e) \/ FinishFails(e) PROVE Goal
    BY <1>6, <2>2 DEF FinishWrite, FinishFails
  <2>3. CASE \/ \E t \in Tasks : Create(t) \/ Delete(t) \/ DisableRead(t)
             \/ DisableWrite \/ Clock
    BY <1>6, <2>3 DEF Create, Delete, DisableRead, DisableWrite, Clock
  <2>4. CASE UNCHANGED vars
    BY <1>6, <2>4 DEF vars
  <2> QED
    BY <1>1, <1>2, <1>3, <1>4, <1>5, <2>1, <2>2, <2>3, <2>4
       DEF Next, ProcStep, ExecStep
<1> QED
  BY <1>7 DEF Goal, Known, Read

\* The batch of a ticking process after a step: none, the rows of a query, or
\* what was left of it, less the row the tick visits.
LEMMA BatchMoves ==
    ASSUME TypeOK, [Next]_vars, NEW p \in Procs, mode'[p] = "up"
    PROVE  \/ batch'[p] = {}
           \/ Query(p)
           \/ /\ mode[p] = "up" /\ at'[p] = at[p]
              /\ \/ batch'[p] = batch[p]
                 \/ \E s \in batch[p] : /\ batch'[p] = batch[p] \ {s}
                                        /\ \/ ~Claimable(s.task, at[p])
                                           \/ db'[s.task].next = Never
<1> DEFINE Goal == \/ batch'[p] = {}
                   \/ Query(p)
                   \/ /\ mode[p] = "up" /\ at'[p] = at[p]
                      /\ \/ batch'[p] = batch[p]
                         \/ \E s \in batch[p] :
                              /\ batch'[p] = batch[p] \ {s}
                              /\ \/ ~Claimable(s.task, at[p])
                                 \/ db'[s.task].next = Never
<1>1. ASSUME NEW q \in Procs, Claim(q) PROVE Goal
  <2>1. PICK s \in batch[q] : Visit(q, s)
                              /\ db' = [db EXCEPT ![s.task] = Disarm(@)]
    BY <1>1 DEF Claim
  <2>2. s.task \in Tasks /\ db[s.task] \in Row
    BY DEF TypeOK, Snapshot
  <2>3. db'[s.task].next = Never
    BY <2>1, <2>2 DEF Disarm, TypeOK, Row
  <2>4. at' = at /\ mode' = mode
    BY <1>1 DEF Claim
  <2> QED
    BY <2>1, <2>3, <2>4 DEF Visit, TypeOK
<1>2. ASSUME NEW q \in Procs, ClaimLost(q) PROVE Goal
  <2>1. PICK s \in batch[q] : Visit(q, s) /\ ~Claimable(s.task, at[q])
    BY <1>2 DEF ClaimLost
  <2>2. at' = at /\ mode' = mode
    BY <1>2 DEF ClaimLost
  <2> QED
    BY <2>1, <2>2 DEF Visit, TypeOK
<1>3. ASSUME NEW q \in Procs,
             \/ Start(q) \/ Reconcile(q) \/ Started(q) \/ Query(q)
             \/ Stop(q) \/ Crash(q) \/ Stopped(q) \/ DrainTimeout(q)
      PROVE  Goal
  BY <1>3 DEF Start, Reconcile, Started, Query, Stop, Crash, Stopped,
              DrainTimeout, TypeOK
<1>4. ASSUME NEW e \in execs, FinishFails(e) PROVE Goal
  BY <1>4 DEF FinishFails, TypeOK
<1>5. ASSUME UNCHANGED <<mode, at, batch>> PROVE Goal
  BY <1>5
<1> HIDE DEF Goal
<1>6. Goal
  <2>1. ASSUME NEW e \in execs, ExecStep(e) PROVE Goal
    BY <1>5, <2>1 DEF ExecStep, Misfire, Spawn, Begin, RunnerEnds, FinishRead,
                      FinishWrite, procVars
  <2>2. CASE \/ \E t \in Tasks : Create(t) \/ Delete(t) \/ DisableRead(t)
             \/ DisableWrite \/ Clock
    BY <1>5, <2>2 DEF Create, Delete, DisableRead, DisableWrite, Clock, procVars
  <2>3. CASE UNCHANGED vars
    BY <1>5, <2>3 DEF vars
  <2> QED
    BY <1>1, <1>2, <1>3, <1>4, <2>1, <2>2, <2>3 DEF Next, ProcStep
<1> QED
  BY <1>6 DEF Goal

-----------------------------------------------------------------------------

\* A step may arm a row only behind what it was behind, or disarm it.
LEMMA RowStep ==
    ASSUME Stepping, NEW u \in Tasks, NEW x \in Nat, Behind(u, x)
    PROVE  \/ db'[u].next = db[u].next
           \/ db'[u].next = Never
           \/ db'[u].next > x
<1> USE DEF Stepping, IInv
<1>1. ASSUME NEW e \in execs, FinishWrite(e), e.task = u, Stored(u)
      PROVE  db'[u].next = Never \/ db'[u].next > x
  <2>1. db'[u] = e.row /\ e.pc = "write"
    BY <1>1 DEF FinishWrite, Update, TypeOK
  <2> QED
    BY <1>1, <2>1 DEF Behind
<1>2. ASSUME NEW p \in Procs, Reconcile(p)
      PROVE  db'[u] = db[u] \/ db'[u].next = Never \/ db'[u].next > x
  <2> DEFINE Fixed(s) == [s.row EXCEPT
                 !.next = NextRunAfter(s.task, at[p]),
                 !.enabled = (NextRunAfter(s.task, at[p]) # Never)]
  <2>1. PICK s \in batch[p] : Update(s.task, Fixed(s))
                              /\ batch' = [batch EXCEPT ![p] = @ \ {s}]
    BY <1>2 DEF Reconcile
  <2>2. s.task \in Tasks /\ s.row \in Row
    BY DEF TypeOK, Snapshot
  <2>3. Fixed(s).next = NextRunAfter(s.task, at[p])
    BY <2>2 DEF Row
  <2> HIDE DEF Fixed
  <2>4. db'[u] = db[u] \/ (s.task = u /\ db'[u] = Fixed(s))
    BY <2>1, <2>2 DEF Update, TypeOK
  <2>5. s.task = u => x <= at[p]
    BY <1>2 DEF Reconcile, Behind
  <2>6. at[p] \in Nat
    BY DEF TypeOK
  <2>7. s.task = u => \/ NextRunAfter(u, at[p]) = Never
                      \/ /\ NextRunAfter(u, at[p]) \in Nat
                         /\ NextRunAfter(u, at[p]) > at[p]
    BY <2>6, NextRunIsLater DEF Never
  <2> QED
    BY <2>3, <2>4, <2>5, <2>6, <2>7
<1>3. CASE DisableWrite
  <2>1. PICK s \in edit :
           Update(s.task, [s.row EXCEPT !.enabled = FALSE, !.next = Never])
    BY <1>3 DEF DisableWrite
  <2>2. s.task \in Tasks /\ s.row \in Row
    BY DEF TypeOK, Snapshot
  <2>3. [s.row EXCEPT !.enabled = FALSE, !.next = Never].next = Never
    BY <2>2 DEF Row
  <2> QED
    BY <2>1, <2>2, <2>3 DEF Update, TypeOK
<1>4. ASSUME NEW t \in Tasks, Create(t) PROVE db'[u] = db[u]
  BY <1>4 DEF Create, Behind, TypeOK
<1>5. ASSUME NEW p \in Procs, Claim(p) PROVE db'[u] = db[u] \/ db'[u].next = Never
  <2>1. PICK s \in batch[p] : db' = [db EXCEPT ![s.task] = Disarm(@)]
    BY <1>5 DEF Claim
  <2>2. s.task \in Tasks /\ db[s.task] \in Row
    BY DEF TypeOK, Snapshot
  <2> QED
    BY <2>1, <2>2 DEF Disarm, TypeOK, Row
<1>6. ASSUME NEW e \in execs, FinishWrite(e), e.task # u \/ ~Stored(u)
      PROVE  db'[u] = db[u]
  <2>1. e.task \in Tasks
    BY DEF TypeOK, Exec
  <2> QED
    BY <1>6, <2>1 DEF FinishWrite, Update, TypeOK
<1>7. CASE UNCHANGED db
  BY <1>7
<1> QED
  BY <1>1, <1>2, <1>3, <1>4, <1>5, <1>6, <1>7
     DEF Next, vars, ProcStep, ExecStep, Start, Started, Query, ClaimLost,
         Stopped, Stop, DrainTimeout, Crash, Misfire, Spawn, Begin, RunnerEnds,
         FinishRead, FinishFails, Delete, DisableRead, Clock

\* Nobody gets ahead: executions compute slots after now, and so do starts.
LEMMA BehindStep ==
    ASSUME Stepping, NEW u \in Tasks, NEW x \in Nat, x <= now, Behind(u, x)
    PROVE  Behind(u, x)'
<1> USE DEF Stepping, IInv
<1>1. life'[u] # "unborn" /\ (Stored(u)' => Stored(u))
  BY DEF Behind, Next, vars, ProcStep, ExecStep, Start, Reconcile, Started,
         Query, Claim, ClaimLost, Stopped, Stop, DrainTimeout, Crash, Misfire,
         Spawn, Begin, RunnerEnds, FinishRead, FinishWrite, FinishFails,
         Create, Delete, DisableRead, DisableWrite, Clock, history, TypeOK,
         Stored
<1>2. ASSUME NEW f \in execs', f.task = u, f.pc = "write", Stored(u)'
      PROVE  f.row.next = Never \/ f.row.next > x
  <2>1. CASE f \in execs
    BY <1>1, <1>2, <2>1 DEF Behind
  <2>2. CASE f \notin execs
    <3> DEFINE row(e) == FinishRow(e.task, IF Stored(e.task) THEN db[e.task]
                                           ELSE e.row, e.how, now)
    <3>1. \E e \in execs : f.task = e.task /\ f.row = row(e)
      BY <1>2, <2>2, Moved
    <3>2. PICK e \in execs : f.task = e.task /\ f.row = row(e)
      <4> HIDE DEF row
      <4> QED
        BY <3>1
    <3>3. e \in Exec /\ e.how \in Ending /\ Stored(u) /\ e.task = u
      BY <1>1, <1>2, <3>2 DEF TypeOK, Exec
    <3>4. db[u] \in Row /\ db[u].next = Never /\ now \in Nat
      BY <3>3 DEF TypeOK, Quiet, InFlight
    <3>5. f.row = FinishRow(u, db[u], e.how, now)
      BY <3>2, <3>3
    <3>6. f.row \in Row /\ (f.row.next = Never \/ f.row.next > now)
      BY <3>3, <3>4, <3>5, FinishRowIsLater
    <3>7. f.row.next \in Nat \cup {Never}
      BY <3>6 DEF Row
    <3> QED
      BY <3>4, <3>6, <3>7 DEF Never
  <2> QED
    BY <2>1, <2>2
<1>3. ASSUME NEW q \in Procs, mode'[q] = "reconciling",
             NEW r \in batch'[q], r.task = u
      PROVE  x <= at'[q]
  <2> DEFINE Same == /\ mode[q] = "reconciling" /\ at'[q] = at[q]
                     /\ r \in batch[q]
  <2>1. CASE Start(q)
    BY <2>1 DEF Start, TypeOK
  <2>2. ASSUME Same PROVE x <= at'[q]
    BY <1>3, <2>2 DEF Behind
  <2>3. ASSUME NEW p \in Procs, p # q, Start(p) PROVE Same
    BY <1>3, <2>3 DEF Start, TypeOK
  <2>4. ASSUME NEW p \in Procs,
               \/ Reconcile(p) \/ Started(p) \/ Query(p)
               \/ Stop(p) \/ Crash(p) \/ Stopped(p) \/ DrainTimeout(p)
        PROVE  Same
    BY <1>3, <2>4 DEF Reconcile, Started, Query, Stop, Crash, Stopped,
                      DrainTimeout, TypeOK
  <2>5. ASSUME NEW p \in Procs, Claim(p) \/ ClaimLost(p) PROVE Same
    <3>1. PICK s \in batch[p] : Visit(p, s)
      BY <2>5 DEF Claim, ClaimLost
    <3>2. at' = at /\ mode' = mode
      BY <2>5 DEF Claim, ClaimLost
    <3> QED
      BY <1>3, <3>1, <3>2 DEF Visit, TypeOK
  <2>6. ASSUME NEW e \in execs, FinishFails(e) PROVE Same
    BY <1>3, <2>6 DEF FinishFails, TypeOK
  <2>7. ASSUME UNCHANGED <<mode, at, batch>> PROVE Same
    BY <1>3, <2>7
  <2> HIDE DEF Same
  <2>8. ASSUME NEW e \in execs, ExecStep(e) PROVE Same
    BY <2>7, <2>8 DEF ExecStep, Misfire, Spawn, Begin, RunnerEnds, FinishRead,
                      FinishWrite, procVars
  <2>9. CASE \/ \E t \in Tasks : Create(t) \/ Delete(t) \/ DisableRead(t)
             \/ DisableWrite \/ Clock
    BY <2>2, <2>7, <2>9 DEF Create, Delete, DisableRead, DisableWrite, Clock,
                            procVars
  <2>10. CASE UNCHANGED vars
    BY <2>2, <2>7, <2>10 DEF vars
  <2> QED
    BY <2>1, <2>2, <2>3, <2>4, <2>5, <2>6, <2>8, <2>9, <2>10
       DEF Next, ProcStep
<1> QED
  BY <1>1, <1>2, <1>3 DEF Behind

\* A row that stays due keeps its slot.
LEMMA DueKept ==
    ASSUME Stepping, NEW t \in Tasks, Due(t), Due(t)'
    PROVE  db'[t].next = db[t].next
<1> USE DEF Stepping, IInv
<1>1. now \in Nat /\ now' \in Nat
  BY DEF TypeOK
<1>2. Behind(t, now)
  BY ArmedBehind DEF Due
<1>3. \/ db'[t].next = db[t].next
      \/ db'[t].next = Never
      \/ db'[t].next > now
  BY <1>1, <1>2, RowStep
<1>4. CASE Clock
  BY <1>4 DEF Clock
<1>5. CASE ~Clock
  <2>1. now' = now
    BY <1>5
       DEF Next, vars, ProcStep, ExecStep, Start, Reconcile, Started,
         Query, Claim, ClaimLost, Stopped, Stop, DrainTimeout, Crash,
         Misfire, Spawn, Begin, RunnerEnds, FinishRead, FinishWrite,
         FinishFails, Create, Delete, DisableRead, DisableWrite
  <2>2. db'[t].next # Never /\ db'[t].next <= now
    BY <2>1 DEF Due
  <2>3. db'[t].next \in Nat
    BY <2>2 DEF TypeOK, Row, Never
  <2> QED
    BY <1>1, <1>3, <2>2, <2>3
<1> QED
  BY <1>4, <1>5

LEMMA VisitsStep == ASSUME Stepping, Visits PROVE Visits'
<1> USE DEF Stepping, IInv
<1> SUFFICES ASSUME NEW p \in Procs, mode'[p] = "up", NEW s \in batch'[p]
             PROVE  /\ s.row.next # Never
                    /\ Behind(s.task, at[p])'
                    /\ \/ db'[s.task].next \in {Never, s.row.next}
                       \/ db'[s.task].next > at'[p]
  BY DEF Visits
<1>1. s.task \in Tasks /\ at[p] \in Nat /\ at'[p] \in Nat
  BY DEF TypeOK, Snapshot
<1>2. CASE Query(p)
  <2>1. PICK due \in SUBSET {t \in Tasks : Due(t)} :
           batch' = [batch EXCEPT ![p] = {RowOf(t) : t \in due}]
    BY <1>2 DEF Query
  <2>2. PICK t \in due : s = RowOf(t)
    BY <2>1 DEF TypeOK
  <2>3. t \in Tasks /\ Due(t) /\ s.task = t /\ s.row = db[t]
    BY <2>1, <2>2 DEF RowOf
  <2>4. Behind(t, now)
    BY <2>3, ArmedBehind DEF Due
  <2>5. at'[p] = now /\ db' = db /\ now \in Nat
    BY <1>2 DEF Query, TypeOK
  <2>6. Behind(s.task, at[p])'
    BY <1>2, <2>3, <2>4, <2>5 DEF Query, Behind, Stored
  <2> QED
    BY <2>3, <2>5, <2>6 DEF Due
<1>3. CASE ~Query(p)
  <2>1. mode[p] = "up" /\ at'[p] = at[p] /\ s \in batch[p]
    BY <1>3, BatchMoves
  <2>2. /\ s.row.next # Never
        /\ Behind(s.task, at[p])
        /\ \/ db[s.task].next \in {Never, s.row.next}
           \/ db[s.task].next > at[p]
    BY <2>1 DEF Visits
  <2>3. at[p] <= now
    BY DEF Clocks
  <2>4. \/ db'[s.task].next = db[s.task].next
        \/ db'[s.task].next = Never
        \/ db'[s.task].next > at[p]
    BY <1>1, <2>2, RowStep
  <2>5. \A x \in Nat : x <= now /\ Behind(s.task, x) => Behind(s.task, x)'
    BY <1>1, BehindStep
  <2>6. Behind(s.task, at[p])'
    BY <1>1, <2>1, <2>2, <2>3, <2>5 DEF Behind
  <2> QED
    BY <2>1, <2>2, <2>4, <2>6
<1> QED
  BY <1>2, <1>3

\* A query that takes a row takes every due row with an earlier slot: LIMIT cuts
\* the rows off from the latest slots.
LEMMA QueryTakesOldest ==
    ASSUME TypeOK, NEW p \in Procs, Query(p), NEW t \in Tasks, NEW u \in Tasks,
           Due(t), db[t].next < db[u].next, NEW s \in batch'[p], s.task = u
    PROVE  \E r \in batch'[p] : r.task = t /\ r.row.next = db[t].next
<1>1. PICK due \in SUBSET {v \in Tasks : Due(v)} :
         /\ \A v \in due, w \in {x \in Tasks : Due(x)} \ due :
               db[v].next <= db[w].next
         /\ batch' = [batch EXCEPT ![p] = {RowOf(v) : v \in due}]
  BY DEF Query
<1>2. batch'[p] = {RowOf(v) : v \in due}
  BY <1>1 DEF TypeOK
<1>3. u \in due
  BY <1>2 DEF RowOf
<1>4. db[t].next \in Int /\ db[u].next \in Int
  BY DEF TypeOK, Row, Never
<1>5. t \in due
  BY <1>1, <1>3, <1>4
<1>6. RowOf(t) \in batch'[p] /\ RowOf(t).task = t /\ RowOf(t).row = db[t]
  BY <1>2, <1>5 DEF RowOf
<1> QED
  BY <1>6

\* A task that was passed, and is due still, stays ahead of the one it let pass.
LEMMA OvertakenStep ==
    ASSUME Stepping, Visits, NEW t \in Tasks, NEW u \in Tasks,
           Overtaken(t, u), Due(t)'
    PROVE  Overtaken(t, u)'
<1> USE DEF Stepping, IInv
<1>1. Due(t) /\ db[t].next \in Nat /\ db[t].next <= now /\ now \in Nat
  BY DEF Overtaken, Due, TypeOK, Row, Never
<1>2. db'[t].next = db[t].next
  BY <1>1, DueKept
<1>3. Behind(u, db[t].next)
  BY DEF Overtaken
<1>4. Behind(u, db[t].next)'
  <2>1. \A x \in Nat : x <= now /\ Behind(u, x) => Behind(u, x)'
    BY BehindStep
  <2> QED
    BY <1>1, <1>2, <1>3, <2>1 DEF Behind
<1>5. db'[u].next = Never \/ db'[u].next > db'[t].next
  BY <1>1, <1>2, <1>3, RowStep DEF Overtaken
<1>6. ASSUME NEW p \in Procs, mode'[p] = "up", NEW s \in batch'[p],
             s.task = u, db'[u].next # Never, db'[u].next <= at'[p]
      PROVE  \E r \in batch'[p] : r.task = t /\ r.row.next = db'[t].next
  <2>1. CASE Query(p)
    <3>1. db' = db
      BY <2>1 DEF Query
    <3> QED
      BY <1>1, <1>5, <1>6, <2>1, <3>1, QueryTakesOldest
  <2>2. CASE ~Query(p)
    <3>1. mode[p] = "up" /\ at'[p] = at[p] /\ s \in batch[p]
      BY <1>6, <2>2, BatchMoves
    <3>2. at[p] \in Nat /\ db[u].next \in Int /\ db'[u].next \in Int
      BY DEF TypeOK, Row, Never
    <3>3. Behind(u, at[p])
      BY <1>6, <3>1 DEF Visits
    <3>4. db'[u].next = db[u].next
      BY <1>6, <3>1, <3>2, <3>3, RowStep
    <3>5. PICK r \in batch[p] : r.task = t /\ r.row.next = db[t].next
      BY <1>6, <3>1, <3>4 DEF Overtaken
    <3>6. Claimable(t, at[p])
      <4>1. db[t].next < db[u].next
        BY <1>1, <1>6, <3>4 DEF Overtaken
      <4> QED
        BY <1>1, <1>6, <3>1, <3>2, <3>4, <4>1 DEF Claimable, Due
    <3>7. db'[t].next # Never
      BY DEF Due
    <3>8. r \in batch'[p]
      BY <1>6, <2>2, <3>5, <3>6, <3>7, BatchMoves
    <3> QED
      BY <1>2, <3>5, <3>8
  <2> QED
    BY <2>1, <2>2
<1> QED
  BY <1>4, <1>5, <1>6 DEF Overtaken

\* A claim that passes a due task: the row it took is behind it from then on.
LEMMA NewlyOvertaken ==
    ASSUME Stepping, Visits, NEW t \in Tasks, NEW u \in Tasks,
           Due(t), Due(t)', Claiming(u)
    PROVE  Overtaken(t, u)'
<1> USE DEF Stepping, IInv
<1>1. PICK p \in Procs : Claim(p)
  BY Moved DEF Claiming
<1>2. PICK s \in batch[p] :
         /\ Claimable(s.task, at[p])
         /\ db' = [db EXCEPT ![s.task] = Disarm(@)]
         /\ execs' = execs \cup
              {[id |-> CHOOSE h \in FreeHandles : TRUE, proc |-> p,
                task |-> s.task, row |-> s.row, how |-> "none",
                pc |-> "claimed"]}
  BY <1>1 DEF Claim
<1>3. s.task = u /\ Stored(u) /\ db[u].next # Never /\ db[u] \in Row
  BY <1>2 DEF Claiming, Claimable, TypeOK
<1>4. db'[u].next = Never
  BY <1>2, <1>3 DEF Disarm, TypeOK, Row
<1>5. db[t].next \in Nat /\ db[t].next <= now /\ db'[t].next = db[t].next
  BY DueKept DEF Due, TypeOK, Row, Never
<1>6. Behind(u, db[t].next)'
  <2>1. Behind(u, db[t].next)
    BY <1>3, ArmedBehind
  <2>2. \A x \in Nat : x <= now /\ Behind(u, x) => Behind(u, x)'
    BY BehindStep
  <2> QED
    BY <1>5, <2>1, <2>2 DEF Behind
<1> QED
  BY <1>4, <1>6 DEF Overtaken

\* A task that passed a due one is not claimed again before it.
LEMMA NotPassedTwice ==
    ASSUME Stepping, Visits, NEW t \in Tasks, NEW u \in Tasks, Overtaken(t, u)
    PROVE  ~Claiming(u)
<1> USE DEF Stepping, IInv
<1> SUFFICES ASSUME Claiming(u) PROVE FALSE
  OBVIOUS
<1>1. PICK p \in Procs : Claim(p)
  BY Moved DEF Claiming
<1>2. PICK s \in batch[p] :
         /\ Visit(p, s)
         /\ Claimable(s.task, at[p])
         /\ execs' = execs \cup
              {[id |-> CHOOSE h \in FreeHandles : TRUE, proc |-> p,
                task |-> s.task, row |-> s.row, how |-> "none",
                pc |-> "claimed"]}
  BY <1>1 DEF Claim
<1>3. s.task = u /\ db[u].next # Never /\ db[u].next <= at[p] /\ mode[p] = "up"
  BY <1>2 DEF Claiming, Claimable, Visit
<1>4. PICK r \in batch[p] : r.task = t /\ r.row.next = db[t].next
  BY <1>3 DEF Overtaken
<1>5. s.row.next <= r.row.next
  BY <1>2 DEF Visit
<1>6. db[t].next < db[u].next /\ db[u].next \in Int /\ db[t].next \in Int
      /\ at[p] \in Int
  BY <1>3 DEF Overtaken, TypeOK, Row, Never
<1>7. db[u].next = s.row.next
  BY <1>3, <1>6 DEF Visits
<1> QED
  BY <1>4, <1>5, <1>6, <1>7

\* Only a start makes the history racy, and nothing makes it quiet again.
LEMMA SteppingIs ==
    ASSUME IInv, IInv', [Next]_vars, ~racy'
    PROVE  Stepping
<1>1. ~racy
  BY DEF Next, vars, ProcStep, ExecStep, Start, Reconcile, Started, Query,
         Claim, ClaimLost, Stopped, Stop, DrainTimeout, Crash, Misfire, Spawn,
         Begin, RunnerEnds, FinishRead, FinishWrite, FinishFails, Create,
         Delete, DisableRead, DisableWrite, Clock, history
<1> QED
  BY <1>1 DEF Stepping, IInv

LEMMA QInvStep ==
    ASSUME IInv, IInv', QInv, [QueueNext]_queueVars
    PROVE  QInv'
<1>1. [Next]_vars
  BY DEF QueueNext, queueVars
<1>2. passed' \subseteq Tasks \X Tasks
  BY DEF QInv, QueueNext, queueVars
<1>3. ASSUME ~racy' PROVE Visits' /\ \A w \in passed' : Overtaken(w[1], w[2])'
  <2>1. Stepping /\ ~racy
    BY <1>1, <1>3, SteppingIs DEF Stepping
  <2>2. Visits /\ \A w \in passed : Overtaken(w[1], w[2])
    BY <2>1 DEF QInv
  <2>3. ASSUME NEW w \in passed' PROVE Overtaken(w[1], w[2])'
    <3>1. w[1] \in Tasks /\ w[2] \in Tasks
      BY <1>2
    <3>2. CASE QueueNext
      <4>1. Due(w[1]) /\ Due(w[1])' /\ (w \in passed \/ Claiming(w[2]))
        BY <3>2 DEF QueueNext
      <4>2. CASE w \in passed
        BY <2>1, <2>2, <3>1, <4>1, <4>2, OvertakenStep
      <4>3. CASE Claiming(w[2])
        BY <2>1, <2>2, <3>1, <4>1, <4>3, NewlyOvertaken
      <4> QED
        BY <4>1, <4>2, <4>3
    <3>3. CASE UNCHANGED queueVars
      <4>1. w \in passed /\ UNCHANGED vars
        BY <3>3 DEF queueVars
      <4>2. Overtaken(w[1], w[2]) /\ Due(w[1])'
        BY <2>2, <4>1 DEF Overtaken, Due, Stored, vars
      <4> QED
        BY <2>1, <2>2, <3>1, <4>2, OvertakenStep
    <3> QED
      BY <3>2, <3>3
  <2> QED
    BY <2>1, <2>2, <2>3, VisitsStep
<1> QED
  BY <1>2, <1>3 DEF QInv

\* No due task is passed twice by the same other task, for any number of tasks
\* and processes and any concurrency limit, unless a scheduler starts beside
\* unfinished work: LIMIT keeps the oldest slots, the loop visits them in order,
\* and every task that was served gets a slot behind the ones that waited.
THEOREM NeverPassedTwice == QueueSpec => PassedOnce
<1>1. Init /\ passed = {} => QInv
  BY DEF Init, QInv, Visits
<1>2. IInv /\ IInv' /\ QInv /\ [QueueNext]_queueVars => QInv'
  BY QInvStep
<1>3. IInv /\ IInv' /\ QInv /\ [QueueNext]_queueVars
      => [\A w \in passed : racy \/ ~Claiming(w[2])]_queueVars
  <2> SUFFICES ASSUME IInv, IInv', QInv, QueueNext, ~racy, NEW w \in passed
               PROVE  ~Claiming(w[2])
    OBVIOUS
  <2>1. w[1] \in Tasks /\ w[2] \in Tasks /\ Visits /\ Overtaken(w[1], w[2])
    BY DEF QInv
  <2>2. [Next]_vars
    BY DEF QueueNext
  <2>3. CASE ~racy'
    BY <2>1, <2>2, <2>3, SteppingIs, NotPassedTwice
  <2>4. CASE racy'
    <3>1. \E p \in Procs : Start(p)
      BY <2>2, <2>4
         DEF Next, vars, ProcStep, ExecStep, Reconcile, Started, Query, Claim,
         ClaimLost, Stopped, Stop, DrainTimeout, Crash, Misfire, Spawn, Begin,
         RunnerEnds, FinishRead, FinishWrite, FinishFails, Create, Delete,
         DisableRead, DisableWrite, Clock, history
    <3> QED
      BY <3>1 DEF Start, Claiming
  <2> QED
    BY <2>3, <2>4
<1>4. QueueInit => Init /\ passed = {}
  BY DEF QueueInit
<1>5. [QueueNext]_queueVars => [Next]_vars
  BY DEF QueueNext, queueVars
<1>6. IInv /\ [Next]_vars => IInv'
  BY TypeStep, ClocksStep, QuietStep DEF IInv
<1> QED
  BY <1>1, <1>2, <1>3, <1>4, <1>5, <1>6, IInvInit, PTL
     DEF QueueSpec, PassedOnce
=============================================================================
