------------------------------ MODULE ChatControl ------------------------------
(***************************************************************************)
(* Commands typed into a chat, the runs they start and the confirmations    *)
(* those runs ask for: interfaces/telegram_control.py and the time-out of   *)
(* security/confirm.py.                                                     *)
(*                                                                         *)
(* Telethon starts a handler per message, and a handler suspends several    *)
(* times before it acts. A command and the run it starts carry the number  *)
(* of their message; the tool calls of one run ask in parallel. A step is   *)
(* what the event loop runs between two awaits.                             *)
(***************************************************************************)
EXTENDS Naturals, FiniteSets

CONSTANTS
    Chats,
    GlobalScope,    \* control.conversation_scope = "global"
    MaxConcurrent,  \* control.max_concurrent_runs
    PerMinute,      \* control.max_commands_per_minute
    MaxMessages,    \* bound: messages that matter
    MaxAsks         \* bound: confirmations asked for

Messages == 1..MaxMessages
Asks == 1..MaxAsks
None == 0
Nowhere == "nowhere"

ASSUME ChatControlAssumption ==
    /\ GlobalScope \in BOOLEAN
    /\ {MaxConcurrent, PerMinute} \subseteq Nat \ {0}
    /\ {MaxMessages, MaxAsks} \subseteq Nat
    /\ {"global", Nowhere} \cap Chats = {}

VARIABLES
    up,        \* the bridge: "listening", "stopping", "stopped"
    cmd,       \* every message: its handler, and then its run
    slot,      \* _active, per chat
    ask,       \* every confirmation: its coroutine and its future
    pending,   \* _pending_confirmations, per chat
    pointer,   \* _conversations, per key; 0 is the derived default
    accepted,  \* _accepted: commands of the last minute
    resets,    \* history: conversations begun by a reset, per key
    crossed,   \* history: keys reset while a run was in its conversation
    said,      \* history: prompts somebody who may command the agent said yes
               \*   to while they were open
    overlapped \* history: a prompt was registered over one that was answered
               \*   and whose coroutine had not been resumed yet

history == <<resets, crossed, said, overlapped>>
vars == <<up, cmd, slot, ask, pending, pointer, accepted, history>>

Answers == {"yes", "no"}
Words == {"do", "stop", "reset", "look"} \cup Answers
HandlerStages == {"answering", "authorising", "recording"}
RunStages == {"opening", "waiting", "working", "finishing", "closing"}

Command == [pc : {"unsent", "done"} \cup HandlerStages \cup RunStages,
            chat : Chats \cup {Nowhere}, word : Words,
            trusted : BOOLEAN,        \* its sender may command the agent
            about : Asks \cup {None}, \* the prompt an answer found open
            cancel : BOOLEAN,         \* the run's cancel event
            killed : BOOLEAN,         \* task.cancel() is on its way
            conv : Nat,               \* conversation of the run
            late : BOOLEAN]           \* history: in a handler when stop() began
Confirmation == [pc : {"unborn", "prompting", "waiting", "over"},
                 run : Messages \cup {None},
                 fut : {"open", "cancelled"} \cup Answers,
                 allowed : BOOLEAN]

\* A message of which nothing is left in memory, or nothing yet.
Blank(pc) == [pc |-> pc, chat |-> Nowhere, word |-> "do", trusted |-> FALSE,
              about |-> None, cancel |-> FALSE, killed |-> FALSE, conv |-> 0,
              late |-> FALSE]

Keys == IF GlobalScope THEN {"global"} ELSE Chats
KeyOf(c) == IF GlobalScope THEN "global" ELSE c

Running(m) == cmd[m].pc \in RunStages
Holding == {m \in Messages : cmd[m].pc \in {"working", "finishing"}}

Live(a) == ask[a].pc \in {"prompting", "waiting"}
AsksOf(m) == {a \in Asks : ask[a].run = m /\ Live(a)}
ChatOf(a) == cmd[ask[a].run].chat

Goes(m, pc) == cmd' = [cmd EXCEPT ![m].pc = pc]
Over(m) == cmd' = [cmd EXCEPT ![m] = Blank("done")]
\* A confirmation whose coroutine has ended: nobody reads its future any more.
Ended(allowed) == [pc |-> "over", run |-> None, fut |-> "cancelled",
                      allowed |-> allowed]

TypeOK ==
    /\ up \in {"listening", "stopping", "stopped"}
    /\ cmd \in [Messages -> Command]
    /\ slot \in [Chats -> Messages \cup {None}]
    /\ ask \in [Asks -> Confirmation]
    /\ pending \in [Chats -> Asks \cup {None}]
    /\ pointer \in [Keys -> Nat]
    /\ accepted \in 0..PerMinute
    /\ resets \in [Keys -> Nat]
    /\ crossed \in SUBSET Keys
    /\ said \in SUBSET Asks
    /\ overlapped \in BOOLEAN

Init ==
    /\ up = "listening"
    /\ cmd = [m \in Messages |-> Blank("unsent")]
    /\ slot = [c \in Chats |-> None]
    /\ ask = [a \in Asks |-> [pc |-> "unborn", run |-> None, fut |-> "open",
                              allowed |-> FALSE]]
    /\ pending = [c \in Chats |-> None]
    /\ pointer = [k \in Keys |-> 0]
    /\ accepted = 0
    /\ resets = [k \in Keys |-> 0] /\ crossed = {}
    /\ said = {} /\ overlapped = FALSE

--------------------------------------------------------------------------------
(* handle_event: an answer to an open confirmation, or a command.           *)

Open(c) == pending[c] # None /\ ask[pending[c]].fut = "open"

\* A bare "yes" or "no" matters only while a prompt of that chat is open.
Arrive(m, c, word, trusted) ==
    /\ up = "listening"
    /\ cmd[m].pc = "unsent" /\ \A n \in 1..(m - 1) : cmd[n].pc # "unsent"
    /\ word \in Answers => Open(c)
    /\ cmd' = [cmd EXCEPT ![m] =
                 [cmd[m] EXCEPT !.pc = IF word \in Answers THEN "answering"
                                                           ELSE "authorising",
                                !.chat = c, !.word = word, !.trusted = trusted,
                                !.about = IF word \in Answers THEN pending[c]
                                                              ELSE None]]
    /\ said' = IF trusted /\ word = "yes" THEN said \cup {pending[c]} ELSE said
    /\ UNCHANGED <<up, slot, ask, pending, pointer, accepted, resets, crossed,
                   overlapped>>

\* Mutant: whoever answers is not looked at.
AnswerUnchecked(m) ==
    /\ cmd[m].pc = "answering"
    /\ Over(m)
    /\ ask' = IF ask[cmd[m].about].fut = "open"
              THEN [ask EXCEPT ![cmd[m].about].fut = cmd[m].word] ELSE ask
    /\ UNCHANGED <<up, slot, pending, pointer, accepted, history>>

\* The prompt found on arrival may be decided by now; set_result then raises,
\* and the answer is lost.
Answer(m) ==
    /\ cmd[m].pc = "answering"
    /\ Over(m)
    /\ ask' = IF cmd[m].trusted /\ ask[cmd[m].about].fut = "open"
              THEN [ask EXCEPT ![cmd[m].about].fut = cmd[m].word] ELSE ask
    /\ UNCHANGED <<up, slot, pending, pointer, accepted, history>>

Refuse(m) ==
    /\ cmd[m].pc = "authorising"
    /\ ~cmd[m].trusted \/ accepted >= PerMinute
    /\ Over(m)
    /\ UNCHANGED <<up, slot, ask, pending, pointer, accepted, history>>

Accept(m) ==
    /\ cmd[m].pc = "authorising" /\ cmd[m].trusted /\ accepted < PerMinute
    /\ accepted' = accepted + 1
    /\ Goes(m, "recording")
    /\ UNCHANGED <<up, slot, ask, pending, pointer, history>>

\* The oldest accepted command is a minute old.
WindowSlides ==
    /\ accepted > 0
    /\ accepted' = accepted - 1
    /\ UNCHANGED <<up, cmd, slot, ask, pending, pointer, history>>

--------------------------------------------------------------------------------
(* _dispatch, once the audit entry is written.                              *)

Dispatched(m, word) == cmd[m].pc = "recording" /\ cmd[m].word = word

\* Ping, help, the watches, flight mode and administration are answered at once,
\* whatever runs. What they change is in AutoReply, Policy, Plugins and
\* LanguageModel.
Look(m) ==
    /\ Dispatched(m, "look")
    /\ Over(m)
    /\ UNCHANGED <<up, slot, ask, pending, pointer, accepted, history>>

StopRun(m) ==
    /\ Dispatched(m, "stop")
    /\ LET r == slot[cmd[m].chat] IN
       cmd' = [n \in Messages |->
                 CASE n = m -> Blank("done")
                   [] n = r /\ n # m -> [cmd[n] EXCEPT !.cancel = TRUE]
                   [] OTHER -> cmd[n]]
    /\ UNCHANGED <<up, slot, ask, pending, pointer, accepted, history>>

\* Mutant: the entry is deleted, and the default id is derived again.
ResetDeletes(m) ==
    /\ Dispatched(m, "reset")
    /\ LET k == KeyOf(cmd[m].chat) IN
       /\ resets' = [resets EXCEPT ![k] = @ + 1]
       /\ pointer' = [pointer EXCEPT ![k] = 0]
       /\ crossed' = IF \E n \in Messages : cmd[n].pc = "working"
                                            /\ KeyOf(cmd[n].chat) = k
                     THEN crossed \cup {k} ELSE crossed
    /\ Over(m)
    /\ UNCHANGED <<up, slot, ask, pending, accepted, said, overlapped>>

Reset(m) ==
    /\ Dispatched(m, "reset")
    /\ LET k == KeyOf(cmd[m].chat) IN
       /\ resets' = [resets EXCEPT ![k] = @ + 1]
       /\ pointer' = [pointer EXCEPT ![k] = resets[k] + 1]
       /\ crossed' = IF \E n \in Messages : cmd[n].pc = "working"
                                            /\ KeyOf(cmd[n].chat) = k
                     THEN crossed \cup {k} ELSE crossed
    /\ Over(m)
    /\ UNCHANGED <<up, slot, ask, pending, accepted, said, overlapped>>

Busy(m) ==
    /\ Dispatched(m, "do") /\ slot[cmd[m].chat] # None
    /\ Over(m)
    /\ UNCHANGED <<up, slot, ask, pending, pointer, accepted, history>>

Launch(m) ==
    /\ Dispatched(m, "do") /\ slot[cmd[m].chat] = None
    /\ Goes(m, "opening")
    /\ slot' = [slot EXCEPT ![cmd[m].chat] = m]
    /\ UNCHANGED <<up, ask, pending, pointer, accepted, history>>

--------------------------------------------------------------------------------
(* _run_command and _execute.                                               *)

At(m, pc) == cmd[m].pc = pc /\ ~cmd[m].killed

Opened(m) ==
    /\ At(m, "opening")
    /\ Goes(m, "waiting")
    /\ UNCHANGED <<up, slot, ask, pending, pointer, accepted, history>>

\* A run that was cancelled in the queue writes "Cancelled." and leaves.
Begin(m) ==
    /\ At(m, "waiting") /\ Cardinality(Holding) < MaxConcurrent
    /\ cmd' = [cmd EXCEPT ![m] =
                 IF cmd[m].cancel THEN [cmd[m] EXCEPT !.pc = "finishing"]
                 ELSE [cmd[m] EXCEPT !.pc = "working",
                                     !.conv = pointer[KeyOf(cmd[m].chat)]]]
    /\ UNCHANGED <<up, slot, ask, pending, pointer, accepted, history>>

\* runtime.run returns: the conversation it was in becomes the chat's.
Finished(m) ==
    /\ At(m, "working") /\ AsksOf(m) = {}
    /\ Goes(m, "finishing")
    /\ pointer' = [pointer EXCEPT ![KeyOf(cmd[m].chat)] = cmd[m].conv]
    /\ UNCHANGED <<up, slot, ask, pending, accepted, history>>

RunFails(m) ==
    /\ At(m, "working") /\ AsksOf(m) = {}
    /\ Goes(m, "closing")
    /\ UNCHANGED <<up, slot, ask, pending, pointer, accepted, history>>

Delivered(m) ==
    /\ At(m, "finishing")
    /\ Goes(m, "closing")
    /\ UNCHANGED <<up, slot, ask, pending, pointer, accepted, history>>

\* Mutant: a cancelled run keeps its chat.
ClosedKeepingSlot(m) ==
    /\ At(m, "closing")
    /\ Over(m)
    /\ slot' = IF cmd[m].cancel THEN slot
               ELSE [slot EXCEPT ![cmd[m].chat] = None]
    /\ UNCHANGED <<up, ask, pending, pointer, accepted, history>>

Closed(m) ==
    /\ At(m, "closing")
    /\ Over(m)
    /\ slot' = [slot EXCEPT ![cmd[m].chat] = None]
    /\ UNCHANGED <<up, ask, pending, pointer, accepted, history>>

\* CancelledError reaches a run outside the runtime, in the typing indicator of
\* the working one too ...
KillLands(m) ==
    /\ cmd[m].killed /\ AsksOf(m) = {}
    /\ cmd' = [cmd EXCEPT ![m].pc = "closing", ![m].killed = FALSE]
    /\ UNCHANGED <<up, slot, ask, pending, pointer, accepted, history>>

\* ... or before its first step or in the last await of its finally, and the
\* statements that free the chat never run ...
KillAbandons(m) ==
    /\ cmd[m].killed /\ cmd[m].pc \in {"opening", "closing"}
    /\ Over(m)
    /\ UNCHANGED <<up, slot, ask, pending, pointer, accepted, history>>

\* ... or in the runtime, which ends every tool call and returns a result.
KillSwallowed(m) ==
    /\ cmd[m].killed /\ cmd[m].pc = "working"
    /\ cmd' = [cmd EXCEPT ![m].pc = "finishing", ![m].killed = FALSE]
    /\ ask' = [a \in Asks |-> IF a \in AsksOf(m)
                              THEN Ended(FALSE) ELSE ask[a]]
    /\ pending' = IF AsksOf(m) = {} THEN pending
                  ELSE [pending EXCEPT ![cmd[m].chat] = None]
    /\ pointer' = [pointer EXCEPT ![KeyOf(cmd[m].chat)] = cmd[m].conv]
    /\ UNCHANGED <<up, slot, accepted, history>>

--------------------------------------------------------------------------------
(* ask_in_chat, under the time-out of CallbackConfirmation and of the tool. *)

\* Mutant: a prompt that is still open does not keep the next one out.
AskAnyway(a, m) ==
    /\ At(m, "working")
    /\ ask[a].pc = "unborn" /\ \A b \in 1..(a - 1) : ask[b].pc # "unborn"
    /\ ask' = [ask EXCEPT ![a] = [ask[a] EXCEPT !.pc = "prompting", !.run = m]]
    /\ pending' = [pending EXCEPT ![cmd[m].chat] = a]
    /\ UNCHANGED <<up, cmd, slot, pointer, accepted, history>>

\* While a prompt of the chat is open another is refused at once, which changes
\* nothing here.
Ask(a, m) ==
    /\ At(m, "working") /\ ~Open(cmd[m].chat)
    /\ ask[a].pc = "unborn" /\ \A b \in 1..(a - 1) : ask[b].pc # "unborn"
    /\ ask' = [ask EXCEPT ![a] = [ask[a] EXCEPT !.pc = "prompting", !.run = m]]
    /\ pending' = [pending EXCEPT ![cmd[m].chat] = a]
    /\ overlapped' = (overlapped \/ pending[cmd[m].chat] # None)
    /\ UNCHANGED <<up, cmd, slot, pointer, accepted, resets, crossed,
                   said>>

Prompted(a) ==
    /\ ask[a].pc = "prompting"
    /\ ask' = [ask EXCEPT ![a].pc = "waiting"]
    /\ UNCHANGED <<up, cmd, slot, pending, pointer, accepted, history>>

\* The coroutine is resumed, and pops whatever prompt its chat has.
Resolve(a) ==
    /\ ask[a].pc = "waiting" /\ ask[a].fut # "open"
    /\ ask' = [ask EXCEPT ![a] = Ended(ask[a].fut = "yes")]
    /\ pending' = [pending EXCEPT ![ChatOf(a)] = None]
    /\ UNCHANGED <<up, cmd, slot, pointer, accepted, history>>

\* A time-out cancels the future the coroutine awaits ...
TimesOut(a) ==
    /\ ask[a].pc = "waiting" /\ ask[a].fut = "open"
    /\ ask' = [ask EXCEPT ![a].fut = "cancelled"]
    /\ UNCHANGED <<up, cmd, slot, pending, pointer, accepted, history>>

\* ... or ends it where it is: the prompt could not be sent, or not in time, or
\* the answer came too late to be read.
GivesUp(a) ==
    /\ ask[a].pc = "prompting" \/ (ask[a].pc = "waiting" /\ ask[a].fut = "yes")
    /\ ask' = [ask EXCEPT ![a] = Ended(FALSE)]
    /\ pending' = [pending EXCEPT ![ChatOf(a)] = None]
    /\ UNCHANGED <<up, cmd, slot, pointer, accepted, history>>

--------------------------------------------------------------------------------
(* The end of the bridge.                                                   *)

\* Mutant: the prompts are forgotten, and their futures left open.
StopKeepsPrompts ==
    /\ up = "listening"
    /\ up' = "stopping"
    /\ pending' = [c \in Chats |-> None]
    /\ cmd' = [m \in Messages |->
                 IF \E c \in Chats : slot[c] = m
                 THEN [cmd[m] EXCEPT !.cancel = TRUE, !.killed = TRUE]
                 ELSE [cmd[m] EXCEPT !.late = cmd[m].pc \in HandlerStages]]
    /\ UNCHANGED <<slot, ask, pointer, accepted, history>>

Stop ==
    /\ up = "listening"
    /\ up' = "stopping"
    /\ ask' = [a \in Asks |->
                 IF \E c \in Chats : pending[c] = a /\ ask[a].fut = "open"
                 THEN [ask[a] EXCEPT !.fut = "no"] ELSE ask[a]]
    /\ pending' = [c \in Chats |-> None]
    /\ cmd' = [m \in Messages |->
                 IF \E c \in Chats : slot[c] = m
                 THEN [cmd[m] EXCEPT !.cancel = TRUE, !.killed = TRUE]
                 ELSE [cmd[m] EXCEPT !.late = cmd[m].pc \in HandlerStages]]
    /\ UNCHANGED <<slot, pointer, accepted, history>>

\* The runs that were active when stop() gathered them are over.
Stopped ==
    /\ up = "stopping" /\ \A m \in Messages : Running(m) => cmd[m].late
    /\ up' = "stopped"
    /\ slot' = [c \in Chats |-> None]
    /\ UNCHANGED <<cmd, ask, pending, pointer, accepted, history>>

--------------------------------------------------------------------------------
Handler(m) == \/ Answer(m) \/ Refuse(m) \/ Accept(m)
              \/ Look(m) \/ StopRun(m) \/ Reset(m) \/ Busy(m) \/ Launch(m)
Run(m) == \/ Opened(m) \/ Begin(m) \/ Finished(m) \/ RunFails(m)
          \/ Delivered(m) \/ Closed(m)
          \/ KillLands(m) \/ KillAbandons(m) \/ KillSwallowed(m)
          \/ \E a \in Asks : Ask(a, m)
Prompt(a) == Prompted(a) \/ Resolve(a) \/ TimesOut(a) \/ GivesUp(a)

Next ==
    \/ \E m \in Messages :
         \/ \E c \in Chats, w \in Words, t \in BOOLEAN : Arrive(m, c, w, t)
         \/ Handler(m) \/ Run(m)
    \/ \E a \in Asks : Prompt(a)
    \/ WindowSlides \/ Stop \/ Stopped

Spec == Init /\ [][Next]_vars

--------------------------------------------------------------------------------
(* Properties.                                                              *)

\* "One chat runs one command at a time", although each command is described,
\* authorised and audited before it looks at the slot.
OneRunPerChat ==
    up # "stopped" => \A m, n \in Messages :
        Running(m) /\ Running(n) /\ cmd[m].chat = cmd[n].chat => m = n

\* A chat is busy exactly while its one run is there to free it, through a
\* cancellation in the queue and a failed run; while stop() kills the runs one
\* may leave its chat busy, but no chat is free while its run goes on.
SlotIsHeld ==
    /\ TypeOK
    /\ OneRunPerChat
    /\ up # "stopped" => \A c \in Chats :
         IF slot[c] = None THEN \A m \in Messages : Running(m) => cmd[m].chat # c
         ELSE up = "listening" => Running(slot[c]) /\ cmd[slot[c]].chat = c

\* Once stop() has begun nothing is approved any more: not by an answer whose
\* sender was still being looked up when stop() refused its prompt, and not for
\* a run that a suspended handler starts behind it. (The exception is that of
\* Answerable: stop() does not find a prompt whose entry was removed.)
StopRefuses ==
    [][up = "listening" \/ overlapped \/
       \A a \in Asks : ask[a].fut = "open" => ask'[a].fut # "yes"]_vars

\* What the comment in stop() says: it waits for the runs, so that the client is
\* not torn out from under a reply. The code does not keep it: a handler that
\* was suspended when stop() gathered the runs starts another one.
StopWaits == up = "stopped" => \A m \in Messages : ~Running(m)

\* A prompt that waits for its answer is the one an answer in its chat finds,
\* unless a prompt was registered over an answered one not yet resumed: the
\* coroutine resumed then removes the entry of the other.
Answerable ==
    overlapped \/ \A a \in Asks :
        ask[a].pc = "waiting" /\ ask[a].fut = "open" => pending[ChatOf(a)] = a

\* What the prompt says: "Reply yes to allow or no to refuse". The code does not
\* keep it: a prompt registered over an answered one loses its entry to the
\* finally of the other, and no reply reaches it.
EveryPromptAnswerable ==
    \A a \in Asks :
        ask[a].pc = "waiting" /\ ask[a].fut = "open" => pending[ChatOf(a)] = a

\* An operation is approved only if somebody who may command the agent said yes
\* while its own prompt was open, whatever else was said or timed out meanwhile.
ApprovedByOwner ==
    \A a \in Asks : ask[a].allowed => a \in said

\* A chat that was asked to start afresh stays in the new conversation, if no
\* run was in the old one at that moment.
QuietResetHolds ==
    \A k \in Keys \ crossed : pointer[k] = resets[k]

\* What docs/telegram-control.md says of `agent reset`, without the proviso. The
\* code does not keep it: a run writes back the conversation it began in.
ResetIsKept == \A k \in Keys : pointer[k] = resets[k]
================================================================================
