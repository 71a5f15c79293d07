------------------------------- MODULE AutoReply -------------------------------
(***************************************************************************)
(* Answering chats on the owner's behalf: interfaces/autoreply.py (which    *)
(* messages fire a watch, what stops one), the handlers and runs of         *)
(* interfaces/telegram_control.py, the chat_watches table and the tools     *)
(* and commands that start and stop watches.                               *)
(*                                                                         *)
(* A message handler and the run it may start are one job.  The row it      *)
(* matched travels with it, and whole rows are written back from that copy. *)
(***************************************************************************)
EXTENDS Integers, FiniteSets, FiniteSetsExt

CONSTANTS
    Chats,        \* watched chats
    Private,      \* those of them that are one-to-one
    MaxReplies,   \* autoreply.max_replies_per_watch
    MaxWatches,   \* autoreply.max_watches
    PerHour,      \* autoreply.max_replies_per_hour
    Hour,         \* length of the rolling window
    Cooldown,     \* autoreply.cooldown_seconds; 0 switches it off
    Life,         \* autoreply.max_ttl_minutes
    DefaultLife,  \* autoreply.default_ttl_minutes
    MaxRuns,      \* control.max_concurrent_runs
    MaxRows,      \* bound: rows ever created in chat_watches
    MaxMessages,  \* bound: messages that arrive
    MaxTime,      \* bound: last value of the clock
    MaxTrouble    \* bound: stops, cancellations, crashes, storage errors

AnyPrivateChat == "any private chat"    \* flight mode: chat_id 0
Never == -1

ASSUME ChatsAssumption == Private \subseteq Chats /\ AnyPrivateChat \notin Chats

ASSUME BoundsAssumption ==
    /\ {MaxReplies, MaxWatches, PerHour, MaxRuns, Life, DefaultLife}
         \subseteq Nat \ {0}
    /\ {Hour, Cooldown, MaxRows, MaxMessages, MaxTime, MaxTrouble} \subseteq Nat

\* Ids are fresh: rows and messages are numbered as they come.
Watches == 1..MaxRows
Messages == 1..MaxMessages

VARIABLES
    now,      \* the clock
    db,       \* chat_watches
    jobs,     \* messages being handled, and the runs they started
    seen,     \* how many messages arrived
    active,   \* chats whose one run slot is taken (_active)
    replies,  \* when replies went out (_replies), and to which message
    edit,     \* the row a stop command has read and is about to switch off
    sent,     \* history: replies really sent under each watch
    halted,   \* history: watches the operator stopped
    carried,  \* history: those of them a job had in hand at that moment
    raced,    \* history: a run started from an outdated row, or a count was lost
    trouble

stopVars == <<halted, carried>>
vars == <<now, db, jobs, seen, active, replies, edit, sent, halted,
          carried, raced, trouble>>

Watch == [life : {"unborn", "allowed", "cleared", "stored", "gone"},
          chat : Chats \cup {AnyPrivateChat}, on : BOOLEAN, expires : Nat,
          max : 0..MaxReplies, count : 0..MaxReplies,
          lastAt : Nat \cup {Never}]
Job == [msg : Messages, chat : Chats, watch : Watches, row : Watch,
        pc : {"matched", "retiring", "resolving", "queued", "writing",
              "sending", "counting", "closing"},
        cancelled : BOOLEAN]

-----------------------------------------------------------------------------
(* Watches.                                                                *)

Gone(row) == [row EXCEPT !.life = "gone", !.on = FALSE]

Live(w) == db[w].life = "stored" /\ db[w].on
LiveFor(c) == {w \in Watches : Live(w) /\ db[w].chat = c}

\* for_chat: the chat's own watch, or else flight mode.
ForChat(c) == IF LiveFor(c) # {} THEN LiveFor(c) ELSE LiveFor(AnyPrivateChat)

\* UPDATE chat_watches SET <every column> WHERE id = w.
Update(w, row) == db' = IF db[w].life = "stored" THEN [db EXCEPT ![w] = row]
                                                 ELSE db

Exhausted(row) == row.count >= row.max

Expired(row) == now >= row.expires

\* _expire_reply_window, then the length of what is left.
InWindow == Cardinality({reply \in replies : reply.at >= now - Hour})

\* Mutant: the ceiling is reached one reply later.
CeilingReachedLate == InWindow > PerHour
CeilingReached == InWindow >= PerHour

Refused(row) ==
    \/ Cooldown > 0 /\ row.lastAt # Never /\ now - row.lastAt < Cooldown
    \/ CeilingReached

\* record_reply: one more, and the last one ends the watch.
Counted(row) ==
    LET one == [row EXCEPT !.count = row.count + 1, !.lastAt = now] IN
    [one EXCEPT !.on = row.on /\ ~Exhausted(one)]

-----------------------------------------------------------------------------
(* Jobs.                                                                   *)

IsRun(j) == j.pc \in {"queued", "writing", "sending", "counting", "closing"}
Runs == {j \in jobs : IsRun(j)}

\* Holders of the bridge's semaphore.
Holding == {j \in Runs : j.pc # "queued"}

Becomes(j, k) == jobs' = (jobs \ {j}) \cup {k}
Moves(j, pc) == Becomes(j, [j EXCEPT !.pc = pc])
Ends(j) == jobs' = jobs \ {j}

\* What a run starting now from j's copy of the row does not know.
OutOfDate(j) == db[j.watch] # j.row \/ Runs # {} \/ CeilingReached

-----------------------------------------------------------------------------
TypeOK ==
    /\ now \in 0..MaxTime
    /\ db \in [Watches -> Watch]
    /\ jobs \in SUBSET Job
    /\ seen \in 0..MaxMessages
    /\ active \in SUBSET Chats
    /\ replies \in SUBSET [at : 0..MaxTime, msg : Messages]
    /\ edit \in SUBSET [watch : Watches, row : Watch]
    /\ sent \in [Watches -> Nat]
    /\ halted \in SUBSET Watches /\ carried \in SUBSET halted
    /\ raced \in BOOLEAN
    /\ trouble \in Nat

Init ==
    /\ now = 0
    /\ db = [w \in Watches |-> [life |-> "unborn", chat |-> AnyPrivateChat,
                                on |-> FALSE, expires |-> 0, max |-> 0,
                                count |-> 0, lastAt |-> Never]]
    /\ jobs = {} /\ seen = 0 /\ active = {}
    /\ replies = {} /\ edit = {}
    /\ sent = [w \in Watches |-> 0]
    /\ halted = {} /\ carried = {} /\ raced = FALSE
    /\ trouble = 0

-----------------------------------------------------------------------------
(* A message arrives: _maybe_autoreply, match and refuse.                   *)

Arrive(c) ==
    /\ seen < MaxMessages
    /\ \E w \in ForChat(c) :
         /\ db[w].chat = AnyPrivateChat => c \in Private
         /\ jobs' = jobs \cup
              {[msg |-> seen + 1, chat |-> c, watch |-> w, row |-> db[w],
                pc |-> "matched", cancelled |-> FALSE]}
    /\ seen' = seen + 1
    /\ UNCHANGED <<now, db, active, replies, edit, sent, stopVars, raced,
                   trouble>>

Retire(j) ==
    /\ j.pc = "matched" /\ (Expired(j.row) \/ Exhausted(j.row))
    /\ Moves(j, "retiring")
    /\ UNCHANGED <<now, db, seen, active, replies, edit, sent, stopVars,
                   raced, trouble>>

RetireWrite(j) ==
    /\ j.pc = "retiring"
    /\ Update(j.watch, [j.row EXCEPT !.on = FALSE])
    /\ Ends(j)
    /\ UNCHANGED <<now, seen, active, replies, edit, sent, stopVars, raced,
                   trouble>>

\* The watch does not name this sender, or refuse() says not right now.
Defer(j) ==
    /\ j.pc = "matched" /\ ~Expired(j.row) /\ ~Exhausted(j.row)
    /\ Ends(j)
    /\ UNCHANGED <<now, db, seen, active, replies, edit, sent, stopVars,
                   raced, trouble>>

\* On to `await _input_peer(event)`.
Accept(j) ==
    /\ j.pc = "matched" /\ ~Expired(j.row) /\ ~Exhausted(j.row)
    /\ ~Refused(j.row)
    /\ Moves(j, "resolving")
    /\ UNCHANGED <<now, db, seen, active, replies, edit, sent, stopVars,
                   raced, trouble>>

\* Mutant: the slot was looked at before the peer was resolved.
LaunchUnchecked(j) ==
    /\ j.pc = "resolving"
    /\ Moves(j, "queued")
    /\ active' = active \cup {j.chat}
    /\ raced' = (raced \/ OutOfDate(j))
    /\ UNCHANGED <<now, db, seen, replies, edit, sent, stopVars, trouble>>

Launch(j) ==
    /\ j.pc = "resolving" /\ j.chat \notin active
    /\ Moves(j, "queued")
    /\ active' = active \cup {j.chat}
    /\ raced' = (raced \/ OutOfDate(j))
    /\ UNCHANGED <<now, db, seen, replies, edit, sent, stopVars, trouble>>

Busy(j) ==
    /\ j.pc = "resolving" /\ j.chat \in active
    /\ Ends(j)
    /\ UNCHANGED <<now, db, seen, active, replies, edit, sent, stopVars,
                   raced, trouble>>

-----------------------------------------------------------------------------
(* The run: _run_autoreply.                                                *)

Begin(j) ==
    /\ j.pc = "queued" /\ Cardinality(Holding) < MaxRuns
    /\ Moves(j, IF j.cancelled THEN "closing" ELSE "writing")
    /\ UNCHANGED <<now, db, seen, active, replies, edit, sent, stopVars,
                   raced, trouble>>

\* runtime.run returns.  A provider error, a time-out and a cancellation come
\* back as an answer like any other, and render_reply lets it through.
Written(j) ==
    /\ j.pc = "writing"
    /\ Moves(j, "sending")
    /\ UNCHANGED <<now, db, seen, active, replies, edit, sent, stopVars,
                   raced, trouble>>

\* NO_REPLY, or an exception out of the run.
SaysNothing(j) ==
    /\ j.pc = "writing"
    /\ Moves(j, "closing")
    /\ UNCHANGED <<now, db, seen, active, replies, edit, sent, stopVars,
                   raced, trouble>>

\* The message is out, and the synchronous part of record_reply.
Sent(j) ==
    /\ j.pc = "sending"
    /\ Becomes(j, [j EXCEPT !.pc = "counting", !.row = Counted(j.row)])
    /\ replies' = replies \cup {[at |-> now, msg |-> j.msg]}
    /\ sent' = [sent EXCEPT ![j.watch] = @ + 1]
    /\ UNCHANGED <<now, db, seen, active, edit, stopVars, raced, trouble>>

SendFails(j) ==
    /\ j.pc = "sending" /\ trouble < MaxTrouble
    /\ trouble' = trouble + 1
    /\ Moves(j, "closing")
    /\ UNCHANGED <<now, db, seen, active, replies, edit, sent, stopVars,
                   raced>>

\* await self._watches.update(watch)
CountWrite(j) ==
    /\ j.pc = "counting"
    /\ Update(j.watch, j.row)
    /\ Moves(j, "closing")
    /\ UNCHANGED <<now, seen, active, replies, edit, sent, stopVars, raced,
                   trouble>>

CountFails(j) ==
    /\ j.pc = "counting" /\ trouble < MaxTrouble
    /\ trouble' = trouble + 1
    /\ raced' = TRUE
    /\ Moves(j, "closing")
    /\ UNCHANGED <<now, db, seen, active, replies, edit, sent, stopVars>>

\* finally: self._active.pop(source.key)
Close(j) ==
    /\ j.pc = "closing"
    /\ Ends(j)
    /\ active' = active \ {j.chat}
    /\ UNCHANGED <<now, db, seen, replies, edit, sent, stopVars, raced,
                   trouble>>

-----------------------------------------------------------------------------
(* The operator.                                                           *)

\* The tool clamps what it is asked for.
Budgets == {Max({1, Min({asked, MaxReplies})}) : asked \in 0..(MaxReplies + 1)}

\* _split_hours: how long a command asks for.  Zero for no number, for one that is
\* not positive, and for less than a minute.
Durations == 0..(Life + 1)

\* ttl_for.  Expiries past the last value of the clock are all one.
TtlFor(minutes) ==
    LET requested == IF minutes <= 0 THEN DefaultLife ELSE minutes IN
    Min({now + Min({requested, Life}), MaxTime + 1})

Allowed(w, c, expires, max) ==
    /\ db[w].life = "unborn" /\ \A v \in 1..(w - 1) : db[v].life # "unborn"
    /\ db' = [db EXCEPT ![w] = [db[w] EXCEPT !.life = "allowed", !.chat = c,
                                             !.expires = expires, !.max = max]]
    /\ UNCHANGED <<now, jobs, seen, active, replies, edit, sent, stopVars,
                   raced, trouble>>

\* The tool autoreply_start.
Request(w, c) ==
    /\ \/ LiveFor(c) # {}
       \/ Cardinality({v \in Watches : Live(v)}) < MaxWatches
    /\ \E minutes \in Durations, max \in Budgets :
         Allowed(w, c, TtlFor(minutes), max)

\* start_flight_mode asks for no room and takes the whole budget.
FlightOn(w) ==
    \E minutes \in Durations :
        Allowed(w, AnyPrivateChat, TtlFor(minutes), MaxReplies)

\* create: DELETE the chat's row ...
CreateDelete(w) ==
    /\ db[w].life = "allowed"
    /\ db' = [v \in Watches |->
                CASE v = w -> [db[v] EXCEPT !.life = "cleared"]
                  [] db[v].life = "stored" /\ db[v].chat = db[w].chat ->
                         Gone(db[v])
                  [] OTHER -> db[v]]
    /\ UNCHANGED <<now, jobs, seen, active, replies, edit, sent, stopVars,
                   raced, trouble>>

\* ... then INSERT; chat_id is UNIQUE, so of two that race the second fails.
CreateInsert(w) ==
    /\ db[w].life = "cleared"
    /\ db' = IF \E v \in Watches : db[v].life = "stored"
                                   /\ db[v].chat = db[w].chat
             THEN [db EXCEPT ![w] = Gone(db[w])]
             ELSE [db EXCEPT ![w] = [db[w] EXCEPT !.life = "stored", !.on = TRUE]]
    /\ UNCHANGED <<now, jobs, seen, active, replies, edit, sent, stopVars,
                   raced, trouble>>

InHand(ws) == {w \in ws : \E j \in jobs : j.watch = w}

\* Mutant: the kill switch forgets flight mode.
UnwatchNamed ==
    LET live == {w \in Watches : Live(w)} IN
    /\ live # {} /\ trouble < MaxTrouble
    /\ trouble' = trouble + 1
    /\ db' = [w \in Watches |->
                [db[w] EXCEPT !.on = @ /\ db[w].chat = AnyPrivateChat]]
    /\ halted' = halted \cup live
    /\ carried' = carried \cup InHand(live)
    /\ UNCHANGED <<now, jobs, seen, active, replies, edit, sent, raced>>

\* `agent unwatch`, autoreply_stop all: one statement over every enabled row.
Unwatch ==
    LET live == {w \in Watches : Live(w)} IN
    /\ live # {} /\ trouble < MaxTrouble
    /\ trouble' = trouble + 1
    /\ db' = [w \in Watches |-> [db[w] EXCEPT !.on = db[w].on /\ w \notin live]]
    /\ halted' = halted \cup live
    /\ carried' = carried \cup InHand(live)
    /\ UNCHANGED <<now, jobs, seen, active, replies, edit, sent, raced>>

\* autoreply_stop and `tgagent autoreply stop <chat>`, which stop flight mode if
\* the chat has no watch of its own.
StopRead(c) ==
    /\ edit = {} /\ trouble < MaxTrouble
    /\ trouble' = trouble + 1
    /\ \E w \in ForChat(c) : edit' = {[watch |-> w, row |-> db[w]]}
    /\ UNCHANGED <<now, db, jobs, seen, active, replies, sent, stopVars,
                   raced>>

\* `flight off`: stop_flight_mode reads the row that retire writes back.
FlightOff == StopRead(AnyPrivateChat)

\* `agent flight`: a word that it does not know, "off!" included, is taken for the
\* instruction to go on with; none and "status" only look.
Flight(w) == FlightOn(w) \/ FlightOff

StopWrite ==
    /\ \E s \in edit :
         /\ Update(s.watch, [s.row EXCEPT !.on = FALSE])
         /\ halted' = halted \cup {s.watch}
         /\ carried' = carried \cup InHand({s.watch})
         \* The copy's reply count is written back with it.
         /\ raced' = (raced \/ db[s.watch].count # s.row.count)
    /\ edit' = {}
    /\ UNCHANGED <<now, jobs, seen, active, replies, sent, trouble>>

\* `agent stop` in the watched chat.
Cancel(c) ==
    /\ trouble < MaxTrouble
    /\ trouble' = trouble + 1
    /\ \E j \in Runs : j.chat = c /\ ~j.cancelled
                       /\ Becomes(j, [j EXCEPT !.cancelled = TRUE])
    /\ UNCHANGED <<now, db, seen, active, replies, edit, sent, stopVars,
                   raced>>

\* The listener dies and comes back: only the table survives.
Restart ==
    /\ trouble < MaxTrouble
    /\ trouble' = trouble + 1
    /\ jobs' = {} /\ active' = {} /\ edit' = {} /\ replies' = {}
    /\ raced' = (raced \/ \E j \in jobs : j.pc = "counting")
    /\ UNCHANGED <<now, db, seen, sent, stopVars>>

Clock ==
    /\ now < MaxTime
    /\ now' = now + 1
    /\ UNCHANGED <<db, jobs, seen, active, replies, edit, sent, stopVars,
                   raced, trouble>>

-----------------------------------------------------------------------------
HandlerStep(j) == Retire(j) \/ RetireWrite(j) \/ Defer(j) \/ Accept(j)
                  \/ Launch(j) \/ Busy(j)
RunStep(j) == Begin(j) \/ Written(j) \/ SaysNothing(j) \/ Sent(j)
              \/ CountWrite(j) \/ Close(j)

Next ==
    \/ \E c \in Chats : Arrive(c)
    \/ \E j \in jobs : \/ HandlerStep(j) \/ RunStep(j)
                       \/ SendFails(j) \/ CountFails(j)
    \/ \E w \in Watches :
         \/ \E c \in Chats : Request(w, c)
         \/ Flight(w)
         \/ CreateDelete(w) \/ CreateInsert(w)
    \/ \E c \in Chats : StopRead(c) \/ Cancel(c)
    \/ Unwatch \/ StopWrite \/ Restart \/ Clock

Spec == Init /\ [][Next]_vars

-----------------------------------------------------------------------------
(* Properties.                                                             *)

\* One chat runs one thing at a time, although the slot is taken several awaits
\* after the message arrived.
OneRunPerChat == \A j, k \in Runs : j.chat = k.chat => j = k

\* A chat's slot is taken exactly while one run of that chat is there to give it
\* back, through cancellations, failed sends and a run that says nothing.
SlotsAreHeld == TypeOK /\ OneRunPerChat /\ active = {j.chat : j \in Runs}

\* A stored count never claims a reply that was not sent, through failed sends,
\* stale rows and re-created watches.
CountIsEarned == \A w \in Watches : db[w].count <= sent[w]

\* A watch sends at most its budget, if no run ever started from an outdated row or
\* beside another and no count was lost.
BudgetIsKept == raced \/ \A w \in Watches : sent[w] <= db[w].max

\* Both, and under the same condition all watches together send at most the hourly
\* ceiling.
WithinLimits == CountIsEarned /\ BudgetIsKept /\ (raced \/ InWindow <= PerHour)

\* A watch the operator stopped while no job had its row in hand stays stopped.
QuietStopHolds == \A w \in halted \ carried : ~Live(w)

\* "An hourly ceiling: max_replies_per_hour (30) across every watch" (docs/autoreply.md:88).
\* It is not so: the ceiling is looked at when a message is accepted, and counts what went
\* out.
CeilingHolds == InWindow <= PerHour

\* The kill switch stops a watch "within a message": "disabling the row stops it"
\* (cli.py:625-627). It is not so: a reply in flight writes its row back.
StopHolds == \A w \in halted : ~Live(w)
=============================================================================
