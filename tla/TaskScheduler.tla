----------------------------- MODULE TaskScheduler -----------------------------
(***************************************************************************)
(* The task scheduler of TGAGENT: the tick loop of scheduler/scheduler.py, *)
(* the scheduled_tasks table it shares with other processes, and the chat  *)
(* tools and CLI commands that create, disable and delete rows.            *)
(*                                                                         *)
(* An await is an interleaving point.  A row is therefore read in one      *)
(* action and written, whole, in a later one, exactly where the code       *)
(* awaits between the SELECT and the UPDATE.  Only Claim is a compare and   *)
(* swap in the database.                                                   *)
(***************************************************************************)
EXTENDS Integers, FiniteSets

CONSTANTS
    Tasks,          \* row ids of scheduled_tasks
    Procs,          \* processes running a Scheduler on the one database
    Handles,        \* names for executions in flight (bounds how many)
    Schedule,       \* kind and parameter of each task's schedule
    MaxConcurrent,  \* scheduler.max_concurrent_tasks
    Grace,          \* scheduler.misfire_grace; 0 switches the check off
    MaxTime,        \* bound: last value of the clock
    MaxTrouble      \* bound: shutdowns, crashes, storage errors while an
                    \* outcome is recorded, operator disables and deletions

Kinds == {"cron", "interval", "once"}

ASSUME ScheduleAssumption ==
    Schedule \in [Tasks -> [kind : Kinds, n : Nat \ {0}]]

ASSUME BoundsAssumption ==
    /\ MaxConcurrent \in Nat \ {0}
    /\ {Grace, MaxTime, MaxTrouble} \subseteq Nat

Never == -1     \* next_run_at IS NULL

VARIABLES
    now,      \* the clock all processes read
    life,     \* per id: not yet inserted, stored, or deleted
    db,       \* the stored row of each id
    last,     \* history: the latest slot of each task that was claimed
    mode,     \* per process: where Scheduler.start / _loop / stop is
    at,       \* per process: `now` of the reconcile or tick in progress
    batch,    \* per process: the snapshots its for-loop has still to visit
    execs,    \* executions in flight, from claim to recorded outcome
    edit,     \* the snapshot a chat tool is about to write back
    racy,     \* history: a scheduler started beside unfinished work
    failed,   \* history: recording an outcome failed
    trouble   \* how much of MaxTrouble is used

procVars == <<mode, at, batch>>
history == <<last, racy, failed>>
vars == <<now, life, db, last, racy, failed, mode, at, batch, execs, edit,
          trouble>>

Row == [enabled : BOOLEAN, next : Nat \cup {Never}, ran : BOOLEAN,
        status : {"none", "running", "succeeded", "failed", "skipped"}]
Snapshot == [task : Tasks, row : Row]
Ending == {"none", "answered", "raised", "cutoff", "skipped"}
Exec == [id : Handles, proc : Procs, task : Tasks, row : Row, how : Ending,
         pc : {"claimed", "queued", "running", "finish", "write"}]

-----------------------------------------------------------------------------
(* Schedules and rows.                                                     *)

\* Mutant: a slot that starts at `after` itself counts as the next one.
NextRunNotBefore(t, after) ==
    LET n == Schedule[t].n IN
    CASE Schedule[t].kind = "cron"     -> after - (after % n)
      [] Schedule[t].kind = "interval" -> after + n
      [] Schedule[t].kind = "once"     -> IF n >= after THEN n ELSE Never

\* The next fire time strictly after `after`, or Never.
NextRunAfter(t, after) ==
    LET n == Schedule[t].n IN
    CASE Schedule[t].kind = "cron"     -> after + (n - (after % n))
      [] Schedule[t].kind = "interval" -> after + n
      [] Schedule[t].kind = "once"     -> IF n > after THEN n ELSE Never

Stored(t) == life[t] = "stored"
RowOf(t) == [task |-> t, row |-> db[t]]

\* UPDATE scheduled_tasks SET <every column> WHERE id = t.
Update(t, row) == db' = IF Stored(t) THEN [db EXCEPT ![t] = row] ELSE db

Due(t) == /\ Stored(t)
          /\ db[t].enabled
          /\ db[t].next # Never
          /\ db[t].next <= now

\* WHERE enabled = 1 AND next_run_at IS NOT NULL AND next_run_at <= stamp
Claimable(t, stamp) == /\ Stored(t)
                       /\ db[t].enabled
                       /\ db[t].next # Never
                       /\ db[t].next <= stamp

\* Mutant: the claim leaves next_run_at alone.
KeepArmed(row) == [row EXCEPT !.status = "running"]

\* SET last_status = 'running', next_run_at = NULL
Disarm(row) == [row EXCEPT !.next = Never, !.status = "running"]

IsMisfire(row, stamp) == /\ Grace > 0
                         /\ row.next # Never
                         /\ stamp - row.next > Grace

-----------------------------------------------------------------------------
(* Executions.                                                             *)

ExecsOf(p) == {e \in execs : e.proc = p}

\* What the tick loop itself is awaiting: the result of a claim, or the
\* recording of a misfire.  Neither runs in a task of its own.
InTick(e) == e.pc = "claimed" \/ e.how = "skipped"
TickBusy(p) == \E e \in ExecsOf(p) : InTick(e)

\* Holders of the semaphore.
Holding(p) == {e \in ExecsOf(p) :
                  e.pc \in {"running", "finish", "write"} /\ e.how # "skipped"}

\* The status _execute records for the way a run ended.  AgentRuntime.run turns
\* a cancellation, a time-out and a provider error into an ordinary answer, so
\* only an exception that escapes the run reaches `except Exception`.
StatusOf(how) == CASE how = "skipped" -> "skipped"
                   [] how = "raised"  -> "failed"
                   [] OTHER           -> "succeeded"

\* Mutant: a recurring row keeps the next_run_at it was read with.
FinishUnarmed(t, row, how, stamp) ==
    [enabled |-> row.enabled /\ Schedule[t].kind # "once",
     next    |-> row.next,
     ran     |-> row.ran \/ how # "skipped",
     status  |-> StatusOf(how)]

\* The row _finish writes, from the row it has just read.
FinishRow(t, row, how, stamp) ==
    [enabled |-> row.enabled /\ Schedule[t].kind # "once",
     next    |-> CASE Schedule[t].kind = "once" -> Never
                   [] row.enabled /\ Schedule[t].kind # "once" ->
                          NextRunAfter(t, stamp)
                   [] OTHER -> row.next,
     ran     |-> row.ran \/ how # "skipped",
     status  |-> StatusOf(how)]

Advance(e, pc) == execs' = (execs \ {e}) \cup {[e EXCEPT !.pc = pc]}

-----------------------------------------------------------------------------
TypeOK ==
    /\ now \in Nat
    /\ life \in [Tasks -> {"unborn", "stored", "deleted"}]
    /\ db \in [Tasks -> Row]
    /\ last \in [Tasks -> Nat \cup {Never}]
    /\ mode \in [Procs -> {"down", "reconciling", "up", "stopping", "cancelled"}]
    /\ at \in [Procs -> Nat]
    /\ batch \in [Procs -> SUBSET Snapshot]
    /\ execs \in SUBSET Exec
    /\ edit \in SUBSET Snapshot
    /\ racy \in BOOLEAN /\ failed \in BOOLEAN
    /\ trouble \in Nat

Init ==
    /\ now = 0
    /\ life = [t \in Tasks |-> "unborn"]
    /\ db = [t \in Tasks |-> [enabled |-> FALSE, next |-> Never, ran |-> FALSE,
                              status |-> "none"]]
    /\ last = [t \in Tasks |-> Never]
    /\ mode = [p \in Procs |-> "down"]
    /\ at = [p \in Procs |-> 0]
    /\ batch = [p \in Procs |-> {}]
    /\ execs = {}
    /\ edit = {}
    /\ racy = FALSE /\ failed = FALSE
    /\ trouble = 0

-----------------------------------------------------------------------------
(* start(): reconcile, then the loop.                                      *)

\* list_all(enabled_only=True), kept to the rows the loop will rewrite.
Start(p) ==
    /\ mode[p] = "down"
    /\ mode' = [mode EXCEPT ![p] = "reconciling"]
    /\ at' = [at EXCEPT ![p] = now]
    /\ batch' = [batch EXCEPT ![p] =
           {RowOf(t) : t \in {u \in Tasks :
               /\ Stored(u) /\ db[u].enabled /\ db[u].next = Never
               /\ ~(Schedule[u].kind = "once" /\ db[u].ran)}}]
    /\ racy' = (racy \/ execs # {} \/ \E q \in Procs \ {p} : mode[q] = "reconciling")
    /\ UNCHANGED <<now, life, db, last, failed, execs, edit, trouble>>

\* One iteration: next_run_at from the snapshot, then the whole-row update.
Reconcile(p) ==
    /\ mode[p] = "reconciling"
    /\ \E s \in batch[p] :
         LET next == NextRunAfter(s.task, at[p]) IN
         /\ Update(s.task, [s.row EXCEPT !.next = next,
                                         !.enabled = (next # Never)])
         /\ batch' = [batch EXCEPT ![p] = @ \ {s}]
    /\ UNCHANGED <<now, life, history, mode, at, execs, edit, trouble>>

Started(p) ==
    /\ mode[p] = "reconciling" /\ batch[p] = {}
    /\ mode' = [mode EXCEPT ![p] = "up"]
    /\ UNCHANGED <<now, life, db, history, at, batch, execs, edit, trouble>>

-----------------------------------------------------------------------------
(* tick().                                                                 *)

\* Mutant: due() without ORDER BY next_run_at.
QueryAnyOrder(p) ==
    /\ mode[p] = "up" /\ batch[p] = {} /\ ~TickBusy(p)
    /\ LET all == {t \in Tasks : Due(t)}
           limit == 2 * MaxConcurrent
       IN \E due \in SUBSET all :
            /\ due # {}
            /\ \/ due = all /\ Cardinality(all) <= limit
               \/ Cardinality(due) = limit
            /\ batch' = [batch EXCEPT ![p] = {RowOf(t) : t \in due}]
    /\ at' = [at EXCEPT ![p] = now]
    /\ UNCHANGED <<now, life, db, history, mode, execs, edit, trouble>>

\* due(now, limit = 2 * max_concurrent), ordered by next_run_at.
Query(p) ==
    /\ mode[p] = "up" /\ batch[p] = {} /\ ~TickBusy(p)
    /\ LET all == {t \in Tasks : Due(t)}
           limit == 2 * MaxConcurrent
       IN \E due \in SUBSET all :
            /\ due # {}
            /\ \/ due = all /\ Cardinality(all) <= limit
               \/ Cardinality(due) = limit
            /\ \A t \in due, u \in all \ due : db[t].next <= db[u].next
            /\ batch' = [batch EXCEPT ![p] = {RowOf(t) : t \in due}]
    /\ at' = [at EXCEPT ![p] = now]
    /\ UNCHANGED <<now, life, db, history, mode, execs, edit, trouble>>

\* The next snapshot of the for-loop, in the order the query returned them.
Visit(p, s) ==
    /\ mode[p] = "up" /\ ~TickBusy(p)
    /\ s \in batch[p]
    /\ \A u \in batch[p] : s.row.next <= u.row.next
    /\ batch' = [batch EXCEPT ![p] = @ \ {s}]

FreeHandles == Handles \ {e.id : e \in execs}

\* claim() won: the row is marked running and disarmed in one statement.
Claim(p) ==
    /\ FreeHandles # {}
    /\ \E s \in batch[p] :
         /\ Visit(p, s)
         /\ Claimable(s.task, at[p])
         /\ db' = [db EXCEPT ![s.task] = Disarm(@)]
         /\ last' = [last EXCEPT ![s.task] = db[s.task].next]
         /\ execs' = execs \cup
              {[id |-> CHOOSE h \in FreeHandles : TRUE, proc |-> p,
                task |-> s.task, row |-> s.row, how |-> "none",
                pc |-> "claimed"]}
    /\ UNCHANGED <<now, life, racy, failed, mode, at, edit, trouble>>

\* claim() lost: another scheduler took it, or it was disabled or deleted.
ClaimLost(p) ==
    /\ \E s \in batch[p] : Visit(p, s) /\ ~Claimable(s.task, at[p])
    /\ UNCHANGED <<now, life, db, history, mode, at, execs, edit, trouble>>

\* Too late: _finish(SKIPPED), inside the tick.
Misfire(e) ==
    /\ e.pc = "claimed" /\ IsMisfire(e.row, at[e.proc])
    /\ execs' = (execs \ {e})
                  \cup {[e EXCEPT !.pc = "finish", !.how = "skipped"]}
    /\ UNCHANGED <<now, life, db, history, procVars, edit, trouble>>

\* create_task(self._execute(task)).
Spawn(e) ==
    /\ e.pc = "claimed" /\ ~IsMisfire(e.row, at[e.proc])
    /\ Advance(e, "queued")
    /\ UNCHANGED <<now, life, db, history, procVars, edit, trouble>>

-----------------------------------------------------------------------------
(* _execute() and _finish().                                               *)

\* async with self._semaphore
Begin(e) ==
    /\ e.pc = "queued"
    /\ Cardinality(Holding(e.proc)) < MaxConcurrent
    /\ Advance(e, "running")
    /\ UNCHANGED <<now, life, db, history, procVars, edit, trouble>>

\* await self._runner(task)
RunnerEnds(e) ==
    /\ e.pc = "running"
    /\ \E how \in {"answered", "raised"} :
         execs' = (execs \ {e}) \cup {[e EXCEPT !.pc = "finish", !.how = how]}
    /\ UNCHANGED <<now, life, db, history, procVars, edit, trouble>>

\* current = await self._tasks.get(task.id) or task, and the edits made to it.
FinishRead(e) ==
    /\ e.pc = "finish"
    /\ LET current == IF Stored(e.task) THEN db[e.task] ELSE e.row IN
       execs' = (execs \ {e}) \cup
          {[e EXCEPT !.pc = "write",
                     !.row = FinishRow(e.task, current, e.how, now)]}
    /\ UNCHANGED <<now, life, db, history, procVars, edit, trouble>>

\* await self._tasks.update(current)
FinishWrite(e) ==
    /\ e.pc = "write"
    /\ Update(e.task, e.row)
    /\ execs' = execs \ {e}
    /\ UNCHANGED <<now, life, last, racy, failed, procVars, edit, trouble>>

\* _finish raised: suppressed in _execute, and ends the tick in tick().
FinishFails(e) ==
    /\ e.pc \in {"finish", "write"}
    /\ trouble < MaxTrouble
    /\ trouble' = trouble + 1
    /\ failed' = TRUE
    /\ execs' = execs \ {e}
    /\ batch' = IF e.how = "skipped" THEN [batch EXCEPT ![e.proc] = {}]
                                     ELSE batch
    /\ UNCHANGED <<now, life, db, last, racy, mode, at, edit>>

-----------------------------------------------------------------------------
(* stop(), and the process dying.                                          *)

\* The loop is cancelled wherever it awaits; executions are left to drain.
Stop(p) ==
    /\ mode[p] \in {"reconciling", "up"}
    /\ trouble < MaxTrouble
    /\ trouble' = trouble + 1
    /\ mode' = [mode EXCEPT ![p] = "stopping"]
    /\ batch' = [batch EXCEPT ![p] = {}]
    /\ execs' = execs \ {e \in ExecsOf(p) : InTick(e)}
    /\ UNCHANGED <<now, life, db, history, at, edit>>

\* The drain budget is spent: every pending execution is cancelled.  One that
\* waits for the semaphore, or is already recording, just ends; a run turns the
\* cancellation into an answer and goes on to _finish.
DrainTimeout(p) ==
    /\ mode[p] = "stopping" /\ ExecsOf(p) # {}
    /\ mode' = [mode EXCEPT ![p] = "cancelled"]
    /\ execs' = (execs \ ExecsOf(p)) \cup
          {[e EXCEPT !.pc = "finish", !.how = "cutoff"] :
              e \in {x \in ExecsOf(p) : x.pc = "running"}}
    /\ UNCHANGED <<now, life, db, history, at, batch, edit, trouble>>

Stopped(p) ==
    /\ mode[p] \in {"stopping", "cancelled"} /\ ExecsOf(p) = {}
    /\ mode' = [mode EXCEPT ![p] = "down"]
    /\ UNCHANGED <<now, life, db, history, at, batch, execs, edit, trouble>>

Crash(p) ==
    /\ mode[p] # "down"
    /\ trouble < MaxTrouble
    /\ trouble' = trouble + 1
    /\ mode' = [mode EXCEPT ![p] = "down"]
    /\ batch' = [batch EXCEPT ![p] = {}]
    /\ execs' = execs \ ExecsOf(p)
    /\ UNCHANGED <<now, life, db, history, at, edit>>

-----------------------------------------------------------------------------
(* schedule_create, schedule_delete and `tgagent tasks`.                   *)

\* next_run_at is computed before the operator is asked for grants, so the row
\* may be inserted later than the moment it was computed for.
Create(t) ==
    /\ life[t] = "unborn"
    /\ life' = [life EXCEPT ![t] = "stored"]
    /\ \E computed \in 0..now :
         db' = [db EXCEPT ![t] = [enabled |-> TRUE, ran |-> FALSE,
                                  next |-> NextRunAfter(t, computed),
                                  status |-> "none"]]
    /\ UNCHANGED <<now, history, procVars, execs, edit, trouble>>

Delete(t) ==
    /\ Stored(t) /\ trouble < MaxTrouble
    /\ trouble' = trouble + 1
    /\ life' = [life EXCEPT ![t] = "deleted"]
    /\ UNCHANGED <<now, db, history, procVars, execs, edit>>

\* schedule_delete with disable_only: get_by_name, then a whole-row update.
DisableRead(t) ==
    /\ Stored(t) /\ edit = {} /\ trouble < MaxTrouble
    /\ trouble' = trouble + 1
    /\ edit' = {RowOf(t)}
    /\ UNCHANGED <<now, life, db, history, procVars, execs>>

DisableWrite ==
    /\ \E s \in edit :
         Update(s.task, [s.row EXCEPT !.enabled = FALSE, !.next = Never])
    /\ edit' = {}
    /\ UNCHANGED <<now, life, history, procVars, execs, trouble>>

Clock ==
    /\ now < MaxTime
    /\ now' = now + 1
    /\ UNCHANGED <<life, db, history, procVars, execs, edit, trouble>>

-----------------------------------------------------------------------------
ExecStep(e) ==
    \/ Misfire(e) \/ Spawn(e) \/ Begin(e) \/ RunnerEnds(e)
    \/ FinishRead(e) \/ FinishWrite(e)

ProcStep(p) ==
    \/ Start(p) \/ Reconcile(p) \/ Started(p)
    \/ Query(p) \/ Claim(p) \/ ClaimLost(p)
    \/ Stopped(p)

Next ==
    \/ \E p \in Procs : ProcStep(p) \/ Stop(p) \/ DrainTimeout(p) \/ Crash(p)
    \/ \E e \in execs : ExecStep(e) \/ FinishFails(e)
    \/ \E t \in Tasks : Create(t) \/ Delete(t) \/ DisableRead(t)
    \/ DisableWrite
    \/ Clock

\* A process keeps running its event loop, the service manager restarts one
\* that ended, every agent run ends (agent.run_timeout) and the clock advances.
Fairness ==
    /\ \A p \in Procs : WF_vars(ProcStep(p))
    /\ \A t \in Tasks : WF_vars(\E e \in execs : e.task = t /\ ExecStep(e))
    /\ WF_vars(Clock)

Spec == Init /\ [][Next]_vars /\ Fairness

-----------------------------------------------------------------------------
(* Properties.                                                             *)

\* No task runs beside itself, however long a run takes and however many
\* processes tick: the claim disarms the row and only the end of the execution
\* arms it again.  A scheduler that starts beside unfinished work voids this.
NoOverlap == racy \/ \A e, f \in execs : e.task = f.task => e = f

\* An armed slot lies after every slot that was ever claimed, so no slot can be
\* fired a second time by any process.
ArmedIsFresh ==
    \A t \in Tasks : Stored(t) /\ db[t].next # Never => db[t].next > last[t]

SlotsFireOnce == racy \/ ArmedIsFresh

\* A recurring task that is enabled and disarmed is armed again, whatever
\* interrupted its run: a misfire, a shutdown, a crash.  (Not when the database
\* refuses the outcome: such a row waits for the next start.)
Rearmed ==
    \A t \in Tasks :
        (Schedule[t].kind # "once" /\ Stored(t) /\ db[t].enabled
            /\ db[t].next = Never)
          ~> (\/ ~Stored(t) \/ ~db[t].enabled \/ db[t].next # Never
              \/ failed)

\* What docs/scheduling.md says of two processes on one database, without the
\* proviso of NoOverlap: a task is never executed twice at a time.  The code
\* does not keep it: reconcile() rewrites rows from a list it read before.
NeverDoubled == \A e, f \in execs : e.task = f.task => e = f

\* What the comment in _finish says: an edit made while the task was running
\* wins, so a row that was disabled is not enabled again.  The code does not
\* keep it: the row is read, awaited over, and written whole.
DisableWins ==
    [][\A t \in Tasks : Stored(t) /\ ~db[t].enabled => ~db'[t].enabled]_vars

\* The abstract view of a task: its stored slot, and whether it is executing.
Contract == INSTANCE SlotContract WITH
    armed <- [t \in Tasks |-> IF Stored(t) THEN db[t].next ELSE Never],
    busy  <- [t \in Tasks |-> \E e \in execs : e.task = t],
    fired <- last

\* Every step of the scheduler, the tools and a crash is one the contract allows.
KeepsContract == Contract!Spec
=============================================================================
