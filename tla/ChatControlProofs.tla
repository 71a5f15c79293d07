--------------------------- MODULE ChatControlProofs ---------------------------
(***************************************************************************)
(* That a chat runs one command at a time, that only the owner's own yes    *)
(* approves, that prompts can be answered, that a reset holds and that a    *)
(* stopped bridge approves nothing: for any number of chats, messages and   *)
(* prompts.                                                                 *)
(***************************************************************************)
EXTENDS ChatControl, TLAPS

\* What is known of a message at every await of its handler and of its run.
Proper(q, u) ==
    /\ q.pc \in HandlerStages \cup RunStages => q.chat \in Chats
    /\ q.pc = "answering" => q.word \in Answers /\ q.about \in Asks
    /\ q.killed => q.pc \in RunStages /\ ~q.late
    /\ u = "listening" => ~q.killed /\ ~q.late
    /\ u # "listening" /\ q.pc \in HandlerStages => q.late
    /\ u = "stopped" /\ q.pc \in RunStages => q.late

AllProper == \A m \in Messages : Proper(cmd[m], up)

\* Who has said yes to what.
Vouched ==
    /\ \A a \in Asks : ask[a].fut = "yes" \/ ask[a].allowed => a \in said
    /\ \A m \in Messages :
         cmd[m].pc = "answering" /\ cmd[m].trusted /\ cmd[m].word = "yes" => cmd[m].about \in said

\* A prompt belongs to a run that is at work.
Owned == \A a \in Asks : Live(a) => ask[a].run \in Messages /\ cmd[ask[a].run].pc = "working"

\* A prompt that is not over is the one its chat knows, or it was answered by stop().
Known(a) ==
    \/ pending[ChatOf(a)] = a
    \/ /\ pending[ChatOf(a)] = None /\ ask[a].fut # "open"
       /\ cmd[ask[a].run].killed
AllKnown == overlapped \/ \A a \in Asks : Live(a) => Known(a)

\* A run at work is in the conversation that its chat began last.
InNewest(q) ==
    q.pc = "working" /\ KeyOf(q.chat) \notin crossed => q.conv = resets[KeyOf(q.chat)]
AllInNewest == \A m \in Messages : InNewest(cmd[m])

Inv == /\ SlotIsHeld /\ AllProper
       /\ Vouched /\ Owned /\ AllKnown
       /\ QuietResetHolds /\ AllInNewest

--------------------------------------------------------------------------------
(* Constants, types, and what a step leaves as it was.                       *)

LEMMA Numbers ==
    /\ None \notin Messages /\ None \notin Asks
    /\ Nowhere \notin Chats /\ "global" \notin Chats
BY ChatControlAssumption DEF ChatControlAssumption, None, Messages, Asks

LEMMA BlankIsCommand == \A pc \in {"unsent", "done"} : Blank(pc) \in Command
BY DEF Blank, Command, Words, Answers

LEMMA MovedIsCommand ==
    ASSUME NEW x \in Command, NEW pc \in {"done"} \cup HandlerStages \cup RunStages
    PROVE  /\ [x EXCEPT !.pc = pc] \in Command /\ [x EXCEPT !.pc = pc].pc = pc
           /\ [x EXCEPT !.pc = pc].chat = x.chat /\ [x EXCEPT !.pc = pc].conv = x.conv
           /\ [x EXCEPT !.pc = pc].killed = x.killed /\ [x EXCEPT !.pc = pc].late = x.late
BY DEF Command

LEMMA LateIsCommand ==
    ASSUME NEW x \in Command, NEW late \in BOOLEAN
    PROVE  LET y == [x EXCEPT !.late = late] IN
           /\ y \in Command /\ y.pc = x.pc /\ y.chat = x.chat
           /\ y.word = x.word /\ y.trusted = x.trusted /\ y.about = x.about
           /\ y.conv = x.conv /\ y.killed = x.killed /\ y.late = late
BY DEF Command

LEMMA KeyIsKey == \A c \in Chats : KeyOf(c) \in Keys
BY DEF KeyOf, Keys

LEMMA Initially == Init => Inv
<1> SUFFICES ASSUME Init PROVE Inv
    OBVIOUS
<1>1. TypeOK
    <2>1. accepted \in 0..PerMinute
        BY ChatControlAssumption DEF Init, ChatControlAssumption
    <2> QED
        BY <2>1, BlankIsCommand DEF Init, TypeOK, Confirmation
<1>2. \A m \in Messages : cmd[m].pc = "unsent" /\ ~cmd[m].killed /\ ~cmd[m].late
    BY DEF Init, Blank
<1>3. SlotIsHeld
    BY <1>1, <1>2 DEF Init, SlotIsHeld, OneRunPerChat, Running, RunStages
<1>4. AllProper
    BY <1>2 DEF Init, AllProper, Proper, HandlerStages, RunStages
<1>5. Vouched
    BY <1>2 DEF Init, Vouched
<1>6. Owned /\ AllKnown
    BY DEF Init, Owned, AllKnown, Live
<1>7. QuietResetHolds /\ AllInNewest
    BY <1>2 DEF Init, QuietResetHolds, AllInNewest, InNewest
<1> QED
    BY <1>3, <1>4, <1>5, <1>6, <1>7 DEF Inv

\* The message that a step is about, and the others.
LEMMA OneChanges ==
    ASSUME TypeOK, NEW m \in Messages, NEW q \in Command, cmd' = [cmd EXCEPT ![m] = q]
    PROVE  /\ cmd' \in [Messages -> Command]
           /\ cmd'[m] = q /\ \A n \in Messages \ {m} : cmd'[n] = cmd[n]
BY DEF TypeOK

LEMMA VouchedStays ==
    ASSUME Inv, UNCHANGED ask, said \subseteq said',
           \A m \in Messages : cmd'[m].pc = "answering" => cmd'[m] = cmd[m]
    PROVE  Vouched'
BY DEF Inv, Vouched

\* A step that leaves the prompts, and the runs that have asked, as they were.
LEMMA PromptsStay ==
    ASSUME Inv, UNCHANGED <<ask, pending, overlapped>>,
           \A a \in Asks : Live(a) => cmd'[ask[a].run] = cmd[ask[a].run]
    PROVE  Owned' /\ AllKnown'
<1>1. \A a \in Asks : Live(a)' <=> Live(a)
    BY DEF Live
<1>2. Owned'
    BY <1>1 DEF Inv, Owned
<1>3. AllKnown'
    BY <1>1 DEF Inv, AllKnown, Known, ChatOf
<1> QED
    BY <1>2, <1>3

LEMMA OnlyWorkersAsk ==
    ASSUME Inv, NEW m \in Messages, cmd[m].pc # "working"
    PROVE  AsksOf(m) = {}
BY DEF Inv, Owned, AsksOf

\* A step that leaves the conversations as they were, and starts no run in one.
LEMMA ConversationsStay ==
    ASSUME Inv, UNCHANGED <<pointer, resets, crossed>>,
           \A m \in Messages : cmd'[m].pc = "working" =>
              cmd[m].pc = "working" /\ cmd'[m].chat = cmd[m].chat /\ cmd'[m].conv = cmd[m].conv
    PROVE  QuietResetHolds' /\ AllInNewest'
BY DEF Inv, QuietResetHolds, AllInNewest, InNewest

\* A step after which the same runs hold the same chats.
LEMMA SlotsStay ==
    ASSUME Inv, TypeOK', UNCHANGED <<up, slot>>,
           \A m \in Messages : /\ cmd'[m].pc \in RunStages <=> cmd[m].pc \in RunStages
                               /\ cmd[m].pc \in RunStages => cmd'[m].chat = cmd[m].chat
    PROVE  SlotIsHeld'
<1>1. \A m \in Messages : /\ Running(m)' <=> Running(m)
                          /\ Running(m) => cmd'[m].chat = cmd[m].chat
    BY DEF Running
<1>2. OneRunPerChat'
    BY <1>1 DEF Inv, SlotIsHeld, OneRunPerChat
<1>3. ASSUME up # "stopped", NEW c \in Chats
      PROVE  IF slot[c] = None THEN \A m \in Messages : Running(m)' => cmd'[m].chat # c
             ELSE up = "listening" => Running(slot[c])' /\ cmd'[slot[c]].chat = c
    <2>1. slot[c] # None => slot[c] \in Messages
        BY DEF Inv, SlotIsHeld, TypeOK
    <2> QED
        BY <1>1, <1>3, <2>1 DEF Inv, SlotIsHeld
<1> QED
    BY <1>2, <1>3 DEF SlotIsHeld

\* A run that ends gives its chat back.
LEMMA SlotFreed ==
    ASSUME Inv, TypeOK', NEW m \in Messages, Running(m), ~Running(m)',
           UNCHANGED up, slot' = [slot EXCEPT ![cmd[m].chat] = None],
           \A n \in Messages \ {m} : cmd'[n] = cmd[n]
    PROVE  SlotIsHeld'
<1>1. \A n \in Messages : Running(n)' => n # m /\ Running(n) /\ cmd'[n].chat = cmd[n].chat
    BY DEF Running
<1>2. OneRunPerChat'
    BY <1>1 DEF Inv, SlotIsHeld, OneRunPerChat
<1>3. ASSUME up # "stopped", NEW c \in Chats
      PROVE  IF slot'[c] = None THEN \A n \in Messages : Running(n)' => cmd'[n].chat # c
             ELSE up = "listening" => cmd'[slot'[c]].pc \in RunStages /\ cmd'[slot'[c]].chat = c
    <2>1. CASE c = cmd[m].chat
        BY <1>1, <1>3, <2>1 DEF Inv, SlotIsHeld, OneRunPerChat, TypeOK
    <2>2. CASE c # cmd[m].chat
        <3>1. slot'[c] = slot[c] /\ (slot[c] # None => slot[c] \in Messages)
            BY <2>2 DEF Inv, SlotIsHeld, TypeOK
        <3>2. slot[c] # None /\ up = "listening" =>
                 Running(slot[c]) /\ cmd[slot[c]].chat = c /\ slot[c] # m
            BY <1>3, <2>2, <3>1 DEF Inv, SlotIsHeld
        <3>3. slot[c] # None /\ up = "listening" => cmd'[slot[c]] = cmd[slot[c]]
            BY <3>1, <3>2
        <3> QED
            BY <1>1, <1>3, <3>1, <3>2, <3>3 DEF Inv, SlotIsHeld, Running
    <2> QED
        BY <2>1, <2>2
<1> QED
    BY <1>2, <1>3 DEF SlotIsHeld, Running

--------------------------------------------------------------------------------
(* The handlers.                                                             *)

LEMMA ArriveKeeps ==
    ASSUME Inv, NEW m \in Messages, NEW c \in Chats, NEW w \in Words, NEW t \in BOOLEAN,
           Arrive(m, c, w, t)
    PROVE  Inv'
<1>0. TypeOK /\ Proper(cmd[m], up)
    BY DEF Inv, SlotIsHeld, AllProper
<1>1. up = "listening" /\ cmd[m].pc = "unsent"
      /\ UNCHANGED <<up, slot, ask, pending, pointer, accepted, resets, crossed, overlapped>>
    BY DEF Arrive
<1>2. w \in Answers => pending[c] \in Asks
    BY <1>0 DEF Arrive, Open, TypeOK
<1>3. PICK q \in Command :
          /\ cmd' = [cmd EXCEPT ![m] = q]
          /\ q.pc \in {"answering", "authorising"} /\ q.chat = c /\ q.word = w /\ q.trusted = t
          /\ q.killed = cmd[m].killed /\ q.late = cmd[m].late
          /\ q.pc = "answering" => w \in Answers /\ q.about = pending[c]
    <2> DEFINE pc == IF w \in Answers THEN "answering" ELSE "authorising"
               about == IF w \in Answers THEN pending[c] ELSE None
               x == [cmd[m] EXCEPT !.pc = pc, !.chat = c, !.word = w, !.trusted = t,
                                   !.about = about]
    <2>1. cmd' = [cmd EXCEPT ![m] = x]
        BY DEF Arrive
    <2>2. /\ pc \in {"answering", "authorising"} /\ about \in Asks \cup {None}
          /\ pc = "answering" => w \in Answers /\ about = pending[c]
        BY <1>2
    <2> HIDE DEF pc, about
    <2>3. cmd[m] \in Command
        BY <1>0 DEF TypeOK
    <2>4. /\ x \in Command
          /\ x.pc = pc /\ x.chat = c /\ x.word = w /\ x.trusted = t /\ x.about = about
          /\ x.killed = cmd[m].killed /\ x.late = cmd[m].late
        BY <2>2, <2>3 DEF Command, HandlerStages
    <2> HIDE DEF x
    <2> QED
        BY <2>1, <2>2, <2>4
<1>5. /\ cmd' \in [Messages -> Command]
      /\ cmd'[m] = q /\ \A n \in Messages \ {m} : cmd'[n] = cmd[n]
    BY <1>0, <1>3, OneChanges
<1>6. said' = IF t /\ w = "yes" THEN said \cup {pending[c]} ELSE said
    BY DEF Arrive
<1>7. TypeOK'
    BY <1>0, <1>1, <1>2, <1>5, <1>6 DEF TypeOK, Answers
<1>8. SlotIsHeld'
    BY <1>1, <1>3, <1>5, <1>7, SlotsStay DEF RunStages
<1>9. AllProper'
    <2>1. Proper(q, up)
        BY <1>0, <1>1, <1>2, <1>3 DEF Proper, HandlerStages, RunStages
    <2> QED
        BY <1>1, <1>5, <2>1 DEF Inv, AllProper, Proper
<1>10. Vouched'
    BY <1>1, <1>3, <1>5, <1>6 DEF Inv, Vouched
<1>11. Owned' /\ AllKnown'
    <2>1. AsksOf(m) = {}
        BY <1>1, OnlyWorkersAsk
    <2> QED
        BY <1>1, <1>5, <2>1, PromptsStay DEF Inv, Owned, AsksOf
<1>12. QuietResetHolds' /\ AllInNewest'
    BY <1>1, <1>3, <1>5, ConversationsStay
<1> QED
    BY <1>8, <1>9, <1>10, <1>11, <1>12 DEF Inv

\* A handler goes on to another stage or ends, and changes at most its own message and
\* the conversation of its chat.
LEMMA HandlerMoves ==
    ASSUME Inv, NEW m \in Messages, NEW q \in Command,
           cmd[m].pc \in HandlerStages, cmd' = [cmd EXCEPT ![m] = q],
           q = Blank("done") \/ q = [cmd[m] EXCEPT !.pc = "recording"],
           UNCHANGED <<up, slot, ask, pending, said, overlapped>>,
           pointer' \in [Keys -> Nat], resets' \in [Keys -> Nat], crossed' \in SUBSET Keys,
           accepted' \in 0..PerMinute
    PROVE  /\ SlotIsHeld' /\ AllProper' /\ Vouched' /\ Owned' /\ AllKnown'
           /\ \A n \in Messages : cmd'[n].pc = "working" => cmd'[n] = cmd[n]
<1>0. TypeOK
    BY DEF Inv, SlotIsHeld
<1>1. /\ cmd' \in [Messages -> Command]
      /\ cmd'[m] = q /\ \A n \in Messages \ {m} : cmd'[n] = cmd[n]
    BY <1>0, OneChanges
<1>2. /\ q.pc \in {"done", "recording"}
      /\ q.pc = "recording" => /\ q.chat = cmd[m].chat
                               /\ q.killed = cmd[m].killed /\ q.late = cmd[m].late
      /\ q.pc = "done" => ~q.killed /\ ~q.late
    BY <1>0 DEF TypeOK, Command, Blank
<1>3. TypeOK'
    BY <1>0, <1>1 DEF TypeOK
<1>4. SlotIsHeld'
    BY <1>1, <1>2, <1>3, SlotsStay DEF HandlerStages, RunStages
<1>5. AllProper'
    <2>1. Proper(cmd[m], up)
        BY DEF Inv, AllProper
    <2>2. Proper(q, up)
        BY <1>2, <2>1 DEF Proper, HandlerStages, RunStages
    <2> QED
        BY <1>1, <2>2 DEF Inv, AllProper, Proper
<1>6. Vouched'
    BY <1>1, <1>2, VouchedStays
<1>7. AsksOf(m) = {}
    BY OnlyWorkersAsk DEF HandlerStages
<1>8. Owned' /\ AllKnown'
    BY <1>1, <1>7, PromptsStay DEF Inv, Owned, AsksOf
<1> QED
    BY <1>1, <1>2, <1>4, <1>5, <1>6, <1>8

LEMMA ReplyKeeps ==
    ASSUME Inv, NEW m \in Messages, Refuse(m) \/ Accept(m) \/ Look(m) \/ Busy(m)
    PROVE  Inv'
<1>0. TypeOK
    BY DEF Inv, SlotIsHeld
<1>1. /\ cmd[m].pc \in HandlerStages
      /\ UNCHANGED <<up, slot, ask, pending, pointer, history>>
    BY DEF Refuse, Accept, Look, Busy, Dispatched, HandlerStages
<1>2. PICK q \in Command :
          /\ cmd' = [cmd EXCEPT ![m] = q]
          /\ q = Blank("done") \/ q = [cmd[m] EXCEPT !.pc = "recording"]
    <2>1. [cmd[m] EXCEPT !.pc = "recording"] \in Command
        BY <1>0 DEF TypeOK, Command, HandlerStages
    <2>2. \/ cmd' = [cmd EXCEPT ![m] = Blank("done")]
          \/ cmd' = [cmd EXCEPT ![m] = [cmd[m] EXCEPT !.pc = "recording"]]
        BY DEF Refuse, Accept, Look, Busy, Over, Goes
    <2> QED
        BY <2>1, <2>2, BlankIsCommand
<1>3. accepted' \in 0..PerMinute
    <2>1. PerMinute \in Nat /\ accepted \in 0..PerMinute
        BY <1>0, ChatControlAssumption DEF ChatControlAssumption, TypeOK
    <2>2. accepted' = accepted \/ (accepted < PerMinute /\ accepted' = accepted + 1)
        BY DEF Refuse, Accept, Look, Busy
    <2> QED
        BY <2>1, <2>2
<1>4. pointer' \in [Keys -> Nat] /\ resets' \in [Keys -> Nat] /\ crossed' \in SUBSET Keys
    BY <1>0, <1>1 DEF TypeOK, history
<1>5. /\ SlotIsHeld' /\ AllProper' /\ Vouched' /\ Owned' /\ AllKnown'
      /\ \A n \in Messages : cmd'[n].pc = "working" => cmd'[n] = cmd[n]
    BY <1>1, <1>2, <1>3, <1>4, HandlerMoves DEF history
<1>6. QuietResetHolds' /\ AllInNewest'
    BY <1>1, <1>5, ConversationsStay DEF history
<1> QED
    BY <1>5, <1>6 DEF Inv

LEMMA AnswerKeeps ==
    ASSUME Inv, NEW m \in Messages, Answer(m)
    PROVE  Inv'
<1>0. TypeOK /\ Proper(cmd[m], up)
    BY DEF Inv, SlotIsHeld, AllProper
<1> DEFINE b == cmd[m].about
<1>1. /\ cmd[m].pc = "answering" /\ cmd' = [cmd EXCEPT ![m] = Blank("done")]
      /\ UNCHANGED <<up, slot, pending, pointer, accepted, history>>
    BY DEF Answer, Over
<1>2. b \in Asks /\ cmd[m].word \in Answers
    BY <1>0, <1>1 DEF Proper
<1>3. /\ cmd' \in [Messages -> Command]
      /\ cmd'[m] = Blank("done") /\ \A n \in Messages \ {m} : cmd'[n] = cmd[n]
    BY <1>0, <1>1, OneChanges, BlankIsCommand
<1>4. /\ Blank("done").pc = "done" /\ ~Blank("done").killed /\ ~Blank("done").late
    BY DEF Blank
<1>5. \/ ask' = ask
      \/ /\ cmd[m].trusted /\ ask[b].fut = "open"
         /\ ask' = [ask EXCEPT ![b] = [ask[b] EXCEPT !.fut = cmd[m].word]]
    BY DEF Answer
<1>6. /\ ask' \in [Asks -> Confirmation]
      /\ \A a \in Asks : /\ ask'[a].pc = ask[a].pc /\ ask'[a].run = ask[a].run
                         /\ ask'[a].allowed = ask[a].allowed
                         /\ \/ ask'[a].fut = ask[a].fut
                            \/ /\ a = b /\ cmd[m].trusted
                               /\ ask'[a].fut = cmd[m].word
    BY <1>0, <1>2, <1>5 DEF TypeOK, Confirmation, Answers
<1>7. TypeOK'
    BY <1>0, <1>1, <1>3, <1>6 DEF TypeOK, history
<1>8. SlotIsHeld'
    BY <1>1, <1>3, <1>4, <1>7, SlotsStay DEF RunStages
<1>9. AllProper'
    BY <1>1, <1>3, <1>4 DEF Inv, AllProper, Proper, HandlerStages, RunStages
<1>10. Vouched'
    BY <1>1, <1>3, <1>4, <1>6 DEF Inv, Vouched, history
<1>11. \A a \in Asks : /\ Live(a)' <=> Live(a)
                       /\ Live(a) => cmd'[ask[a].run] = cmd[ask[a].run]
    BY <1>1, <1>3, <1>6 DEF Inv, Owned, Live
<1>12. Owned'
    BY <1>6, <1>11 DEF Inv, Owned
<1>13. AllKnown'
    <2>1. ASSUME ~overlapped, NEW a \in Asks, Live(a) PROVE Known(a)'
        <3>1. Known(a) /\ ask'[a].run = ask[a].run /\ cmd'[ask[a].run] = cmd[ask[a].run]
            BY <1>6, <1>11, <2>1 DEF Inv, AllKnown
        <3>2. ask[a].fut # "open" => ask'[a].fut # "open"
            BY <1>2, <1>6 DEF Answers
        <3> QED
            BY <1>1, <3>1, <3>2 DEF Known, ChatOf
    <2> QED
        BY <1>1, <1>11, <2>1 DEF AllKnown, history
<1>14. QuietResetHolds' /\ AllInNewest'
    BY <1>1, <1>3, <1>4, ConversationsStay DEF history
<1> QED
    BY <1>8, <1>9, <1>10, <1>12, <1>13, <1>14 DEF Inv

LEMMA StopRunKeeps ==
    ASSUME Inv, NEW m \in Messages, StopRun(m)
    PROVE  Inv'
<1>0. TypeOK
    BY DEF Inv, SlotIsHeld
<1> DEFINE r == slot[cmd[m].chat]
<1>1. /\ cmd[m].pc = "recording"
      /\ cmd' = [n \in Messages |-> CASE n = m -> Blank("done")
                                      [] n = r /\ n # m -> [cmd[n] EXCEPT !.cancel = TRUE]
                                      [] OTHER -> cmd[n]]
      /\ UNCHANGED <<up, slot, ask, pending, pointer, accepted, history>>
    BY DEF StopRun, Dispatched
<1>2. cmd'[m] = Blank("done")
      /\ \A n \in Messages \ {m} : cmd'[n] = cmd[n] \/ cmd'[n] = [cmd[n] EXCEPT !.cancel = TRUE]
    BY <1>1
<1>3. /\ Blank("done").pc = "done" /\ ~Blank("done").killed /\ ~Blank("done").late
    BY DEF Blank
<1>4. cmd' \in [Messages -> Command]
      /\ \A n \in Messages \ {m} :
           /\ cmd'[n].pc = cmd[n].pc /\ cmd'[n].chat = cmd[n].chat /\ cmd'[n].word = cmd[n].word
           /\ cmd'[n].trusted = cmd[n].trusted /\ cmd'[n].about = cmd[n].about
           /\ cmd'[n].killed = cmd[n].killed /\ cmd'[n].late = cmd[n].late
           /\ cmd'[n].conv = cmd[n].conv
    <2>1. ASSUME NEW n \in Messages \ {m}
          PROVE
             /\ cmd'[n] \in Command
             /\ cmd'[n].pc = cmd[n].pc /\ cmd'[n].chat = cmd[n].chat /\ cmd'[n].word = cmd[n].word
             /\ cmd'[n].trusted = cmd[n].trusted /\ cmd'[n].about = cmd[n].about
             /\ cmd'[n].killed = cmd[n].killed /\ cmd'[n].late = cmd[n].late
             /\ cmd'[n].conv = cmd[n].conv
        <3>1. cmd[n] \in Command /\ (cmd'[n] = cmd[n] \/ cmd'[n] = [cmd[n] EXCEPT !.cancel = TRUE])
            BY <1>0, <1>2 DEF TypeOK
        <3> QED
            BY <3>1 DEF Command
    <2>2. cmd'[m] \in Command
        BY <1>2, BlankIsCommand
    <2> QED
        BY <1>1, <2>1, <2>2
<1>5. TypeOK'
    BY <1>0, <1>1, <1>4 DEF TypeOK, history
<1>6. SlotIsHeld'
    BY <1>1, <1>2, <1>3, <1>4, <1>5, SlotsStay DEF RunStages
<1>7. AllProper'
    BY <1>1, <1>2, <1>3, <1>4 DEF Inv, AllProper, Proper, HandlerStages, RunStages
<1>8. Vouched'
    BY <1>1, <1>2, <1>3, <1>4 DEF Inv, Vouched, history
<1>9. \A a \in Asks : /\ Live(a)' <=> Live(a)
                      /\ Live(a) => ask[a].run \in Messages \ {m}
    BY <1>1 DEF Inv, Owned, Live
<1>10. Owned' /\ AllKnown'
    <2>1. Owned'
        BY <1>1, <1>4, <1>9 DEF Inv, Owned
    <2>2. ASSUME ~overlapped, NEW a \in Asks, Live(a) PROVE Known(a)'
        <3>1. Known(a)
            BY <2>2 DEF Inv, AllKnown
        <3>2. /\ cmd'[ask[a].run].chat = cmd[ask[a].run].chat
              /\ cmd'[ask[a].run].killed = cmd[ask[a].run].killed
            BY <1>4, <1>9, <2>2
        <3> QED
            BY <1>1, <3>1, <3>2 DEF Known, ChatOf
    <2> QED
        BY <1>1, <1>9, <2>1, <2>2 DEF AllKnown, history
<1>11. QuietResetHolds' /\ AllInNewest'
    BY <1>1, <1>2, <1>3, <1>4, ConversationsStay DEF history
<1> QED
    BY <1>6, <1>7, <1>8, <1>10, <1>11 DEF Inv

LEMMA ResetKeeps ==
    ASSUME Inv, NEW m \in Messages, Reset(m)
    PROVE  Inv'
<1>0. TypeOK /\ Proper(cmd[m], up)
    BY DEF Inv, SlotIsHeld, AllProper
<1> DEFINE k == KeyOf(cmd[m].chat)
<1>1. /\ cmd[m].pc = "recording" /\ cmd' = [cmd EXCEPT ![m] = Blank("done")]
      /\ resets' = [resets EXCEPT ![k] = @ + 1]
      /\ pointer' = [pointer EXCEPT ![k] = resets[k] + 1]
      /\ crossed' = IF \E n \in Messages : cmd[n].pc = "working" /\ KeyOf(cmd[n].chat) = k
                    THEN crossed \cup {k} ELSE crossed
      /\ UNCHANGED <<up, slot, ask, pending, accepted, said, overlapped>>
    BY DEF Reset, Dispatched, Over
<1>2. k \in Keys
    BY <1>0, <1>1, KeyIsKey DEF Proper, HandlerStages
<1>3. /\ pointer' \in [Keys -> Nat] /\ resets' \in [Keys -> Nat] /\ crossed' \in SUBSET Keys
      /\ accepted' \in 0..PerMinute
    BY <1>0, <1>1, <1>2 DEF TypeOK
<1>4. /\ SlotIsHeld' /\ AllProper' /\ Vouched' /\ Owned' /\ AllKnown'
      /\ \A n \in Messages : cmd'[n].pc = "working" => cmd'[n] = cmd[n]
    BY <1>1, <1>3, BlankIsCommand, HandlerMoves DEF HandlerStages
<1>5. QuietResetHolds'
    BY <1>0, <1>1, <1>2 DEF Inv, QuietResetHolds, TypeOK
<1>6. AllInNewest'
    <2> SUFFICES ASSUME NEW n \in Messages, cmd'[n].pc = "working",
                        KeyOf(cmd'[n].chat) \notin crossed'
                 PROVE  cmd'[n].conv = resets'[KeyOf(cmd'[n].chat)]
        BY DEF AllInNewest, InNewest, KeyOf
    <2>1. cmd'[n] = cmd[n] /\ KeyOf(cmd[n].chat) # k /\ KeyOf(cmd[n].chat) \notin crossed
        BY <1>1, <1>4
    <2>2. resets'[KeyOf(cmd[n].chat)] = resets[KeyOf(cmd[n].chat)]
        BY <1>0, <1>1, <2>1 DEF TypeOK
    <2> QED
        BY <2>1, <2>2 DEF Inv, AllInNewest, InNewest
<1> QED
    BY <1>4, <1>5, <1>6 DEF Inv

LEMMA LaunchKeeps ==
    ASSUME Inv, NEW m \in Messages, Launch(m)
    PROVE  Inv'
<1>0. TypeOK /\ Proper(cmd[m], up)
    BY DEF Inv, SlotIsHeld, AllProper
<1>1. /\ cmd[m].pc = "recording" /\ slot[cmd[m].chat] = None
      /\ slot' = [slot EXCEPT ![cmd[m].chat] = m]
      /\ UNCHANGED <<up, ask, pending, pointer, accepted, history>>
    BY DEF Launch, Dispatched
<1>2. PICK q \in Command : /\ cmd' = [cmd EXCEPT ![m] = q]
                           /\ q.pc = "opening" /\ q.chat = cmd[m].chat
                           /\ q.killed = cmd[m].killed /\ q.late = cmd[m].late
    <2>1. [cmd[m] EXCEPT !.pc = "opening"] \in Command
        BY <1>0 DEF TypeOK, Command, RunStages
    <2>2. cmd' = [cmd EXCEPT ![m] = [cmd[m] EXCEPT !.pc = "opening"]]
        BY DEF Launch, Goes
    <2> QED
        BY <1>0, <2>1, <2>2 DEF TypeOK, Command
<1>3. /\ cmd' \in [Messages -> Command]
      /\ cmd'[m] = q /\ \A n \in Messages \ {m} : cmd'[n] = cmd[n]
    BY <1>0, <1>2, OneChanges
<1>4. cmd[m].chat \in Chats
    BY <1>0, <1>1 DEF Proper, HandlerStages
<1>5. TypeOK'
    BY <1>0, <1>1, <1>3, <1>4 DEF TypeOK, history
<1>6. SlotIsHeld'
    <2>1. up # "stopped" => \A n \in Messages : Running(n) => cmd[n].chat # cmd[m].chat
        BY <1>1, <1>4 DEF Inv, SlotIsHeld
    <2>2. \A n \in Messages \ {m} : (Running(n)' <=> Running(n)) /\ cmd'[n].chat = cmd[n].chat
        BY <1>3 DEF Running
    <2>3. OneRunPerChat'
        BY <1>1, <1>2, <1>3, <2>1, <2>2 DEF Inv, SlotIsHeld, OneRunPerChat
    <2>4. ASSUME up # "stopped", NEW c \in Chats
          PROVE  IF slot'[c] = None THEN \A n \in Messages : Running(n)' => cmd'[n].chat # c
                 ELSE up = "listening" => /\ cmd'[slot'[c]].pc \in RunStages
                                          /\ cmd'[slot'[c]].chat = c
        <3>1. CASE c = cmd[m].chat
            BY <1>0, <1>2, <1>3, <1>1, <3>1, Numbers DEF TypeOK, RunStages
        <3>2. CASE c # cmd[m].chat
            <4>1. slot'[c] = slot[c] /\ (slot[c] # None => slot[c] \in Messages)
                BY <1>0, <1>1, <3>2 DEF TypeOK
            <4>2. CASE slot[c] = None
                BY <1>2, <1>3, <2>2, <2>4, <3>2, <4>1, <4>2 DEF Inv, SlotIsHeld
            <4>3. CASE slot[c] # None
                <5>1. up = "listening" => Running(slot[c]) /\ cmd[slot[c]].chat = c
                    BY <2>4, <4>3 DEF Inv, SlotIsHeld
                <5>2. up = "listening" => slot[c] # m
                    BY <1>1, <5>1 DEF Running, RunStages
                <5> QED
                    BY <1>3, <4>1, <4>3, <5>1, <5>2 DEF Running
            <4> QED
                BY <4>2, <4>3
        <3> QED
            BY <3>1, <3>2
    <2> QED
        BY <1>1, <1>5, <2>3, <2>4 DEF SlotIsHeld, Running
<1>7. AllProper'
    <2>1. Proper(q, up)
        BY <1>0, <1>1, <1>2 DEF Proper, HandlerStages, RunStages
    <2> QED
        BY <1>1, <1>3, <2>1 DEF Inv, AllProper
<1>8. Vouched'
    BY <1>1, <1>2, <1>3, VouchedStays DEF history
<1>9. AsksOf(m) = {}
    BY <1>1, OnlyWorkersAsk
<1>10. Owned' /\ AllKnown'
    BY <1>1, <1>3, <1>9, PromptsStay DEF Inv, Owned, AsksOf, history
<1>11. QuietResetHolds' /\ AllInNewest'
    BY <1>1, <1>2, <1>3, ConversationsStay DEF history
<1> QED
    BY <1>6, <1>7, <1>8, <1>10, <1>11 DEF Inv

--------------------------------------------------------------------------------
(* The runs.                                                                 *)

\* A run that has no prompt open goes on to another stage.
LEMMA RunMoves ==
    ASSUME Inv, NEW m \in Messages, NEW q \in Command,
           cmd[m].pc \in RunStages, q.pc \in RunStages, AsksOf(m) = {},
           cmd' = [cmd EXCEPT ![m] = q],
           q.chat = cmd[m].chat, q.late = cmd[m].late, q.killed => cmd[m].killed,
           UNCHANGED <<up, slot, ask, pending, accepted, history>>,
           pointer' \in [Keys -> Nat]
    PROVE  /\ SlotIsHeld' /\ AllProper' /\ Vouched' /\ Owned' /\ AllKnown'
           /\ cmd'[m] = q /\ \A n \in Messages \ {m} : cmd'[n] = cmd[n]
<1>0. TypeOK
    BY DEF Inv, SlotIsHeld
<1>1. /\ cmd' \in [Messages -> Command]
      /\ cmd'[m] = q /\ \A n \in Messages \ {m} : cmd'[n] = cmd[n]
    BY <1>0, OneChanges
<1>2. TypeOK'
    BY <1>0, <1>1 DEF TypeOK, history
<1>3. SlotIsHeld'
    BY <1>1, <1>2, SlotsStay
<1>4. AllProper'
    <2>1. Proper(cmd[m], up)
        BY DEF Inv, AllProper
    <2>2. Proper(q, up)
        BY <2>1 DEF Proper, HandlerStages, RunStages
    <2> QED
        BY <1>1, <2>2 DEF Inv, AllProper
<1>5. Vouched'
    BY <1>1, VouchedStays DEF RunStages, history
<1>6. Owned' /\ AllKnown'
    BY <1>1, PromptsStay DEF Inv, Owned, AsksOf, history
<1> QED
    BY <1>1, <1>3, <1>4, <1>5, <1>6

\* A run opens its conversation, waits for the semaphore, fails, delivers its answer, or
\* is killed between these.
LEMMA StageKeeps ==
    ASSUME Inv, NEW m \in Messages,
           Opened(m) \/ Begin(m) \/ RunFails(m) \/ Delivered(m) \/ KillLands(m)
    PROVE  Inv'
<1>0. TypeOK /\ Proper(cmd[m], up)
    BY DEF Inv, SlotIsHeld, AllProper
<1>1. /\ cmd[m].pc \in RunStages /\ AsksOf(m) = {}
      /\ UNCHANGED <<up, slot, ask, pending, pointer, accepted, history>>
    BY <1>0, OnlyWorkersAsk
       DEF Opened, Begin, RunFails, Delivered, KillLands, At, RunStages, Proper
<1>2. PICK q \in Command :
          /\ cmd' = [cmd EXCEPT ![m] = q]
          /\ q.pc \in RunStages /\ q.chat = cmd[m].chat /\ q.late = cmd[m].late
          /\ q.killed => cmd[m].killed
          /\ q.pc = "working" => q.conv = pointer[KeyOf(cmd[m].chat)]
    <2>0. cmd[m] \in Command
        BY <1>0 DEF TypeOK
    <2>1. ASSUME NEW pc \in {"waiting", "finishing", "closing"},
                 cmd' = [cmd EXCEPT ![m] = [cmd[m] EXCEPT !.pc = pc]]
          PROVE  \E q \in Command : /\ cmd' = [cmd EXCEPT ![m] = q]
                                    /\ q.pc = pc /\ q.chat = cmd[m].chat
                                    /\ q.late = cmd[m].late /\ q.killed = cmd[m].killed
        <3> DEFINE x == [cmd[m] EXCEPT !.pc = pc]
        <3>1. /\ x \in Command /\ x.pc = pc /\ x.chat = cmd[m].chat
              /\ x.late = cmd[m].late /\ x.killed = cmd[m].killed
            BY <2>0, MovedIsCommand DEF RunStages
        <3>2. cmd' = [cmd EXCEPT ![m] = x]
            BY <2>1
        <3> HIDE DEF x
        <3> QED
            BY <3>1, <3>2
    <2>2. CASE Opened(m) \/ RunFails(m) \/ Delivered(m) \/ (Begin(m) /\ cmd[m].cancel)
        <3>1. PICK pc \in {"waiting", "finishing", "closing"} :
                  cmd' = [cmd EXCEPT ![m] = [cmd[m] EXCEPT !.pc = pc]]
            BY <2>2 DEF Opened, RunFails, Delivered, Begin, Goes
        <3> QED
            BY <2>1, <3>1 DEF RunStages
    <2>3. CASE KillLands(m)
        <3> DEFINE x == [cmd[m] EXCEPT !.pc = "closing", !.killed = FALSE]
        <3>1. cmd' = [cmd EXCEPT ![m] = x]
            BY <1>0, <2>3 DEF KillLands, TypeOK, Command
        <3>2. /\ x \in Command /\ x.pc = "closing" /\ x.chat = cmd[m].chat
              /\ x.late = cmd[m].late /\ ~x.killed
            BY <2>0 DEF Command, RunStages
        <3> HIDE DEF x
        <3> QED
            BY <3>1, <3>2 DEF RunStages
    <2>4. CASE Begin(m) /\ ~cmd[m].cancel
        <3> DEFINE conv == pointer[KeyOf(cmd[m].chat)]
                   x == [cmd[m] EXCEPT !.pc = "working", !.conv = conv]
        <3>1. conv \in Nat
            BY <1>0, <1>1, KeyIsKey DEF Proper, TypeOK
        <3>2. cmd' = [cmd EXCEPT ![m] = x]
            BY <2>4 DEF Begin
        <3> HIDE DEF conv
        <3>3. /\ x \in Command /\ x.pc = "working" /\ x.chat = cmd[m].chat /\ x.conv = conv
              /\ x.late = cmd[m].late /\ x.killed = cmd[m].killed
            BY <2>0, <3>1 DEF Command, RunStages
        <3> HIDE DEF x
        <3> QED
            BY <3>2, <3>3 DEF RunStages, conv
    <2> QED
        BY <2>2, <2>3, <2>4
<1>3. pointer' \in [Keys -> Nat]
    BY <1>0, <1>1 DEF TypeOK
<1>4. /\ SlotIsHeld' /\ AllProper' /\ Vouched' /\ Owned' /\ AllKnown'
      /\ cmd'[m] = q /\ \A n \in Messages \ {m} : cmd'[n] = cmd[n]
    BY <1>1, <1>2, <1>3, RunMoves
<1>5. QuietResetHolds'
    BY <1>1 DEF Inv, QuietResetHolds, history
<1>6. AllInNewest'
    <2>1. KeyOf(cmd[m].chat) \in Keys
        BY <1>0, <1>1, KeyIsKey DEF Proper
    <2>2. InNewest(q)
        BY <1>2, <2>1 DEF Inv, QuietResetHolds, InNewest
    <2> QED
        BY <1>1, <1>4, <2>2 DEF Inv, AllInNewest, InNewest, history
<1> QED
    BY <1>4, <1>5, <1>6 DEF Inv

LEMMA FinishedKeeps ==
    ASSUME Inv, NEW m \in Messages, Finished(m)
    PROVE  Inv'
<1>0. TypeOK /\ Proper(cmd[m], up)
    BY DEF Inv, SlotIsHeld, AllProper
<1> DEFINE k == KeyOf(cmd[m].chat)
           x == [cmd[m] EXCEPT !.pc = "finishing"]
<1>1. /\ cmd[m].pc = "working" /\ AsksOf(m) = {} /\ cmd' = [cmd EXCEPT ![m] = x]
      /\ pointer' = [pointer EXCEPT ![k] = cmd[m].conv]
      /\ UNCHANGED <<up, slot, ask, pending, accepted, history>>
    BY DEF Finished, At, Goes
<1>2. cmd[m] \in Command /\ cmd[m].conv \in Nat /\ k \in Keys
    BY <1>0, <1>1, KeyIsKey DEF TypeOK, Command, Proper, RunStages
<1>3. PICK q \in Command : /\ q = x /\ q.pc = "finishing" /\ q.chat = cmd[m].chat
                           /\ q.late = cmd[m].late /\ q.killed = cmd[m].killed
    BY <1>2, MovedIsCommand DEF RunStages
<1>4. pointer' \in [Keys -> Nat]
    BY <1>0, <1>1, <1>2 DEF TypeOK
<1>5. /\ SlotIsHeld' /\ AllProper' /\ Vouched' /\ Owned' /\ AllKnown'
      /\ cmd'[m] = q /\ \A n \in Messages \ {m} : cmd'[n] = cmd[n]
    <2> HIDE DEF x, k
    <2> QED
        BY <1>1, <1>3, <1>4, RunMoves DEF RunStages
<1>6. QuietResetHolds'
    <2>1. k \notin crossed => cmd[m].conv = resets[k]
        BY <1>1 DEF Inv, AllInNewest, InNewest
    <2> HIDE DEF k
    <2> QED
        BY <1>0, <1>1, <1>2, <2>1 DEF Inv, QuietResetHolds, TypeOK, history
<1>7. AllInNewest'
    BY <1>1, <1>3, <1>5 DEF Inv, AllInNewest, InNewest, history
<1> QED
    BY <1>5, <1>6, <1>7 DEF Inv

\* A run is over.
LEMMA ClosedKeeps ==
    ASSUME Inv, NEW m \in Messages, Closed(m) \/ KillAbandons(m)
    PROVE  Inv'
<1>0. TypeOK /\ Proper(cmd[m], up)
    BY DEF Inv, SlotIsHeld, AllProper
<1>1. /\ cmd[m].pc \in {"opening", "closing"} /\ cmd' = [cmd EXCEPT ![m] = Blank("done")]
      /\ UNCHANGED <<up, ask, pending, pointer, accepted, history>>
    BY DEF Closed, KillAbandons, At, Over
<1>2. /\ cmd' \in [Messages -> Command]
      /\ cmd'[m] = Blank("done") /\ \A n \in Messages \ {m} : cmd'[n] = cmd[n]
    BY <1>0, <1>1, OneChanges, BlankIsCommand
<1>3. Blank("done").pc = "done" /\ ~Blank("done").killed /\ ~Blank("done").late
    BY DEF Blank
<1>4. Running(m) /\ ~Running(m)' /\ cmd[m].chat \in Chats
    BY <1>0, <1>1, <1>2, <1>3 DEF Running, RunStages, Proper
<1>5. SlotIsHeld'
    <2>1. CASE Closed(m)
        <3>1. slot' = [slot EXCEPT ![cmd[m].chat] = None]
            BY <2>1 DEF Closed
        <3>2. TypeOK'
            BY <1>0, <1>1, <1>2, <3>1 DEF TypeOK, history
        <3> QED
            BY <1>1, <1>2, <1>4, <3>1, <3>2, SlotFreed
    <2>2. CASE KillAbandons(m)
        <3>1. UNCHANGED slot /\ up # "listening"
            BY <1>0, <2>2 DEF KillAbandons, Proper
        <3>2. TypeOK'
            BY <1>0, <1>1, <1>2, <3>1 DEF TypeOK, history
        <3>3. \A n \in Messages : Running(n)' => Running(n) /\ cmd'[n] = cmd[n]
            BY <1>2, <1>4 DEF Running
        <3>4. OneRunPerChat'
            BY <1>1, <3>3 DEF Inv, SlotIsHeld, OneRunPerChat
        <3> QED
            BY <1>1, <3>1, <3>2, <3>3, <3>4 DEF Inv, SlotIsHeld
    <2> QED
        BY <2>1, <2>2
<1>6. AllProper'
    BY <1>1, <1>2, <1>3 DEF Inv, AllProper, Proper, HandlerStages, RunStages
<1>7. Vouched'
    BY <1>1, <1>2, <1>3, VouchedStays DEF history
<1>8. Owned' /\ AllKnown'
    <2>1. AsksOf(m) = {}
        BY <1>1, OnlyWorkersAsk
    <2> QED
        BY <1>1, <1>2, <2>1, PromptsStay DEF Inv, Owned, AsksOf, history
<1>9. QuietResetHolds' /\ AllInNewest'
    BY <1>1, <1>2, <1>3, ConversationsStay DEF history
<1> QED
    BY <1>5, <1>6, <1>7, <1>8, <1>9 DEF Inv

LEMMA KillSwallowedKeeps ==
    ASSUME Inv, NEW m \in Messages, KillSwallowed(m)
    PROVE  Inv'
<1>0. TypeOK /\ Proper(cmd[m], up)
    BY DEF Inv, SlotIsHeld, AllProper
<1> DEFINE k == KeyOf(cmd[m].chat)
           x == [cmd[m] EXCEPT !.pc = "finishing", !.killed = FALSE]
<1>1. /\ cmd[m].pc = "working" /\ cmd[m].killed
      /\ ask' = [a \in Asks |-> IF a \in AsksOf(m) THEN Ended(FALSE) ELSE ask[a]]
      /\ pending' = IF AsksOf(m) = {} THEN pending ELSE [pending EXCEPT ![cmd[m].chat] = None]
      /\ pointer' = [pointer EXCEPT ![k] = cmd[m].conv]
      /\ UNCHANGED <<up, slot, accepted, history>>
    BY DEF KillSwallowed
<1>2. cmd[m] \in Command /\ cmd[m].conv \in Nat /\ k \in Keys /\ cmd[m].chat \in Chats
    BY <1>0, <1>1, KeyIsKey DEF TypeOK, Command, Proper, RunStages
<1>3. cmd' = [cmd EXCEPT ![m] = x]
    BY <1>0 DEF KillSwallowed, TypeOK, Command
<1>4. /\ x \in Command /\ x.pc = "finishing" /\ x.chat = cmd[m].chat /\ ~x.killed
      /\ x.late = cmd[m].late
    BY <1>2 DEF Command, RunStages
<1>5. /\ cmd' \in [Messages -> Command]
      /\ cmd'[m] = x /\ \A n \in Messages \ {m} : cmd'[n] = cmd[n]
    BY <1>0, <1>3, <1>4, OneChanges
<1> HIDE DEF x
<1>6. /\ ask' \in [Asks -> Confirmation]
      /\ \A a \in Asks : /\ Live(a)' => Live(a) /\ ask'[a] = ask[a] /\ ask[a].run # m
                         /\ ask'[a] = ask[a] \/ ask'[a] = Ended(FALSE)
    <2>1. Ended(FALSE) \in Confirmation
        BY DEF Ended, Confirmation
    <2> QED
        BY <1>0, <1>1, <2>1 DEF TypeOK, AsksOf, Live, Ended
<1>7. pending' \in [Chats -> Asks \cup {None}] /\ pointer' \in [Keys -> Nat]
    BY <1>0, <1>1, <1>2 DEF TypeOK
<1>8. TypeOK'
    BY <1>0, <1>1, <1>5, <1>6, <1>7 DEF TypeOK, history
<1>9. SlotIsHeld'
    BY <1>1, <1>4, <1>5, <1>8, SlotsStay DEF RunStages
<1>10. AllProper'
    <2>1. Proper(x, up)
        BY <1>0, <1>1, <1>4 DEF Proper, HandlerStages, RunStages
    <2> QED
        BY <1>1, <1>5, <2>1 DEF Inv, AllProper
<1>11. Vouched'
    <2>1. Ended(FALSE).fut # "yes" /\ ~Ended(FALSE).allowed
        BY DEF Ended
    <2> QED
        BY <1>1, <1>4, <1>5, <1>6, <2>1 DEF Inv, Vouched, history
<1>12. Owned'
    BY <1>5, <1>6 DEF Inv, Owned
<1>13. AllKnown'
    <2>1. ASSUME ~overlapped, NEW a \in Asks, Live(a)' PROVE Known(a)'
        <3>1. /\ Live(a) /\ ask'[a] = ask[a] /\ ask[a].run \in Messages \ {m} /\ Known(a)
              /\ cmd'[ask[a].run] = cmd[ask[a].run] /\ cmd[ask[a].run].pc = "working"
            BY <1>5, <1>6, <2>1 DEF Inv, Owned, AllKnown
        <3>2. ChatOf(a) # cmd[m].chat
            \* Both runs would hold the chat: after the end of the bridge no killed run is left.
            <4>1. up # "stopped"
                BY <1>0, <1>1 DEF Proper, RunStages
            <4> QED
                BY <1>1, <3>1, <4>1 DEF Inv, SlotIsHeld, OneRunPerChat, Running, RunStages, ChatOf
        <3>3. pending'[ChatOf(a)] = pending[ChatOf(a)] /\ ChatOf(a)' = ChatOf(a)
            <4>1. ChatOf(a)' = ChatOf(a)
                BY <3>1 DEF ChatOf
            <4>2. ChatOf(a) \in Chats
                BY <3>1 DEF Inv, AllProper, Proper, RunStages, ChatOf
            <4>3. \A c \in Chats \ {cmd[m].chat} : pending'[c] = pending[c]
                BY <1>0, <1>1 DEF TypeOK
            <4> QED
                BY <3>2, <4>1, <4>2, <4>3
        <3> QED
            BY <3>1, <3>3 DEF Known
    <2> QED
        BY <1>1, <2>1 DEF AllKnown, history
<1>14. QuietResetHolds'
    <2>1. k \notin crossed => cmd[m].conv = resets[k]
        BY <1>1 DEF Inv, AllInNewest, InNewest
    <2> HIDE DEF k
    <2> QED
        BY <1>0, <1>1, <1>2, <2>1 DEF Inv, QuietResetHolds, TypeOK, history
<1>15. AllInNewest'
    BY <1>1, <1>4, <1>5 DEF Inv, AllInNewest, InNewest, history
<1> QED
    BY <1>9, <1>10, <1>11, <1>12, <1>13, <1>14, <1>15 DEF Inv

--------------------------------------------------------------------------------
(* The prompts.                                                              *)

\* A step that leaves the messages as they were, and has made sure of the prompts.
LEMMA OnlyPrompts ==
    ASSUME Inv, UNCHANGED <<up, cmd, slot, pointer, accepted, resets, crossed, said>>,
           ask' \in [Asks -> Confirmation], pending' \in [Chats -> Asks \cup {None}],
           overlapped' \in BOOLEAN,
           \A a \in Asks : ask'[a].fut = "yes" \/ ask'[a].allowed => a \in said,
           Owned', AllKnown'
    PROVE  Inv'
<1>1. TypeOK'
    BY DEF Inv, SlotIsHeld, TypeOK
<1>2. SlotIsHeld' /\ AllProper'
    BY <1>1, SlotsStay DEF Inv, AllProper
<1>3. Vouched'
    BY DEF Inv, Vouched
<1>4. QuietResetHolds' /\ AllInNewest'
    BY ConversationsStay
<1> QED
    BY <1>2, <1>3, <1>4 DEF Inv

LEMMA AskKeeps ==
    ASSUME Inv, NEW m \in Messages, NEW a \in Asks, Ask(a, m)
    PROVE  Inv'
<1>0. TypeOK /\ Proper(cmd[m], up)
    BY DEF Inv, SlotIsHeld, AllProper
<1> DEFINE c == cmd[m].chat
           x == [ask[a] EXCEPT !.pc = "prompting", !.run = m]
<1>1. /\ cmd[m].pc = "working" /\ ~cmd[m].killed /\ ~Open(c) /\ ask[a].pc = "unborn"
      /\ ask' = [ask EXCEPT ![a] = x]
      /\ pending' = [pending EXCEPT ![c] = a]
      /\ overlapped' = (overlapped \/ pending[c] # None)
      /\ UNCHANGED <<up, cmd, slot, pointer, accepted, resets, crossed, said>>
    BY DEF Ask, At
<1>2. c \in Chats /\ ask[a] \in Confirmation
    BY <1>0, <1>1 DEF Proper, RunStages, TypeOK
<1>3. /\ x \in Confirmation /\ x.pc = "prompting" /\ x.run = m
      /\ x.fut = ask[a].fut /\ x.allowed = ask[a].allowed
    BY <1>2 DEF Confirmation
<1> HIDE DEF x
<1>4. /\ ask' \in [Asks -> Confirmation] /\ ask'[a] = x
      /\ \A b \in Asks \ {a} : ask'[b] = ask[b]
      /\ pending' \in [Chats -> Asks \cup {None}] /\ overlapped' \in BOOLEAN
      /\ pending'[c] = a /\ \A d \in Chats \ {c} : pending'[d] = pending[d]
    BY <1>0, <1>1, <1>2, <1>3 DEF TypeOK
<1>5. \A b \in Asks : ask'[b].fut = "yes" \/ ask'[b].allowed => b \in said
    BY <1>3, <1>4 DEF Inv, Vouched
<1>6. Owned'
    BY <1>1, <1>3, <1>4 DEF Inv, Owned, Live
<1>7. AllKnown'
    <2>1. ASSUME ~overlapped', NEW b \in Asks, Live(b)' PROVE Known(b)'
        <3>1. ~overlapped /\ pending[c] = None
            BY <1>1, <2>1
        <3>2. CASE b = a
            BY <1>1, <1>3, <1>4, <3>2 DEF Known, ChatOf
        <3>3. CASE b # a
            <4>1. ask'[b] = ask[b] /\ Live(b) /\ Known(b)
                BY <1>4, <2>1, <3>1, <3>3 DEF Inv, AllKnown, Live
            <4>2. ask[b].run \in Messages /\ cmd[ask[b].run].pc = "working"
                BY <4>1 DEF Inv, Owned
            <4>3. ChatOf(b) # c
                \* Otherwise the run of b was killed, and holds the chat of m.
                <5>1. ASSUME ChatOf(b) = c PROVE FALSE
                    <6>1. cmd[ask[b].run].killed
                        BY <3>1, <4>1, <5>1, Numbers DEF Known
                    <6>2. up # "stopped"
                        BY <4>2, <6>1 DEF Inv, AllProper, Proper, RunStages
                    <6>3. ask[b].run = m
                        BY <1>1, <4>2, <5>1, <6>2
                           DEF Inv, SlotIsHeld, OneRunPerChat, Running, RunStages, ChatOf
                    <6> QED
                        BY <1>1, <6>1, <6>3
                <5> QED
                    BY <5>1
            <4>4. ChatOf(b) \in Chats
                BY <4>2 DEF Inv, AllProper, Proper, RunStages, ChatOf
            <4>5. pending'[ChatOf(b)] = pending[ChatOf(b)] /\ ChatOf(b)' = ChatOf(b)
                BY <1>1, <1>4, <4>1, <4>3, <4>4 DEF ChatOf
            <4> QED
                BY <1>1, <4>1, <4>5 DEF Known
        <3> QED
            BY <3>2, <3>3
    <2> QED
        BY <2>1 DEF AllKnown
<1> QED
    BY <1>1, <1>4, <1>5, <1>6, <1>7, OnlyPrompts

\* A prompt is sent, or its future is cancelled.
LEMMA PromptGoesOn ==
    ASSUME Inv, NEW a \in Asks, Prompted(a) \/ TimesOut(a)
    PROVE  Inv'
<1>0. TypeOK /\ ask[a] \in Confirmation
    BY DEF Inv, SlotIsHeld, TypeOK
<1>1. UNCHANGED <<up, cmd, slot, pending, pointer, accepted, history>>
    BY DEF Prompted, TimesOut
<1>2. PICK x \in Confirmation :
          /\ ask' = [ask EXCEPT ![a] = x]
          /\ x.pc = "waiting" /\ x.run = ask[a].run /\ x.allowed = ask[a].allowed
          /\ x.fut = ask[a].fut \/ x.fut = "cancelled"
    <2>1. CASE Prompted(a)
        <3> DEFINE y == [ask[a] EXCEPT !.pc = "waiting"]
        <3>1. /\ y \in Confirmation /\ y.pc = "waiting" /\ y.run = ask[a].run
              /\ y.allowed = ask[a].allowed /\ y.fut = ask[a].fut
            BY <1>0 DEF Confirmation
        <3>2. ask' = [ask EXCEPT ![a] = y]
            BY <2>1 DEF Prompted
        <3> HIDE DEF y
        <3> QED
            BY <3>1, <3>2
    <2>2. CASE TimesOut(a)
        <3> DEFINE y == [ask[a] EXCEPT !.fut = "cancelled"]
        <3>1. /\ y \in Confirmation /\ y.pc = "waiting" /\ y.run = ask[a].run
              /\ y.allowed = ask[a].allowed /\ y.fut = "cancelled"
            BY <1>0, <2>2 DEF Confirmation, TimesOut
        <3>2. ask' = [ask EXCEPT ![a] = y]
            BY <2>2 DEF TimesOut
        <3> HIDE DEF y
        <3> QED
            BY <3>1, <3>2
    <2> QED
        BY <2>1, <2>2
<1>3. /\ ask' \in [Asks -> Confirmation] /\ ask'[a] = x
      /\ \A b \in Asks \ {a} : ask'[b] = ask[b]
    BY <1>0, <1>2 DEF TypeOK
<1>4. Live(a)
    BY DEF Prompted, TimesOut, Live
<1>5. \A b \in Asks : /\ Live(b)' <=> Live(b)
                      /\ ask'[b].run = ask[b].run /\ ask'[b].allowed = ask[b].allowed
                      /\ ask'[b].fut = ask[b].fut \/ ask'[b].fut = "cancelled"
    BY <1>2, <1>3, <1>4 DEF Live
<1>6. \A b \in Asks : ask'[b].fut = "yes" \/ ask'[b].allowed => b \in said
    BY <1>5 DEF Inv, Vouched
<1>7. Owned'
    BY <1>1, <1>5 DEF Inv, Owned
<1>8. AllKnown'
    BY <1>1, <1>5 DEF Inv, AllKnown, Known, ChatOf, history
<1>9. pending' \in [Chats -> Asks \cup {None}] /\ overlapped' \in BOOLEAN
    BY <1>0, <1>1 DEF TypeOK, history
<1> QED
    BY <1>1, <1>3, <1>6, <1>7, <1>8, <1>9, OnlyPrompts DEF history

\* A prompt is over, and its chat knows none.
LEMMA PromptEnds ==
    ASSUME Inv, NEW a \in Asks, Resolve(a) \/ GivesUp(a)
    PROVE  Inv'
<1>0. TypeOK
    BY DEF Inv, SlotIsHeld
<1> DEFINE c == ChatOf(a)
<1>1. /\ Live(a) /\ pending' = [pending EXCEPT ![c] = None]
      /\ UNCHANGED <<up, cmd, slot, pointer, accepted, history>>
    BY DEF Resolve, GivesUp, Live
<1>2. PICK yes \in BOOLEAN : ask' = [ask EXCEPT ![a] = Ended(yes)] /\ (yes => ask[a].fut = "yes")
    BY DEF Resolve, GivesUp
<1>3. /\ Ended(yes) \in Confirmation /\ Ended(yes).pc = "over" /\ Ended(yes).fut # "yes"
      /\ Ended(yes).allowed = yes
    BY DEF Ended, Confirmation
<1>4. /\ ask' \in [Asks -> Confirmation] /\ ask'[a] = Ended(yes)
      /\ \A b \in Asks \ {a} : ask'[b] = ask[b]
      /\ pending' \in [Chats -> Asks \cup {None}] /\ overlapped' \in BOOLEAN
    BY <1>0, <1>1, <1>2, <1>3 DEF TypeOK, history
<1>5. \A b \in Asks : ask'[b].fut = "yes" \/ ask'[b].allowed => b \in said
    BY <1>2, <1>3, <1>4 DEF Inv, Vouched
<1>6. \A b \in Asks : Live(b)' => b # a /\ Live(b) /\ ask'[b] = ask[b]
    BY <1>3, <1>4 DEF Live
<1>7. Owned'
    BY <1>1, <1>6 DEF Inv, Owned
<1>8. AllKnown'
    <2>1. ASSUME ~overlapped, NEW b \in Asks, Live(b)' PROVE Known(b)'
        <3>1. b # a /\ Live(b) /\ ask'[b] = ask[b] /\ Known(b) /\ Known(a)
            BY <1>1, <1>6, <2>1 DEF Inv, AllKnown
        <3>2. ChatOf(b)' = ChatOf(b) /\ ChatOf(b) \in Chats
            BY <1>1, <3>1 DEF Inv, Owned, AllProper, Proper, RunStages, ChatOf
        <3>3. CASE ChatOf(b) = c
            BY <1>0, <1>1, <3>1, <3>2, <3>3, Numbers DEF Known, TypeOK
        <3>4. CASE ChatOf(b) # c
            BY <1>0, <1>1, <3>1, <3>2, <3>4 DEF Known, TypeOK
        <3> QED
            BY <3>3, <3>4
    <2> QED
        BY <1>1, <2>1 DEF AllKnown, history
<1> QED
    BY <1>1, <1>4, <1>5, <1>7, <1>8, OnlyPrompts DEF history

LEMMA WindowKeeps == ASSUME Inv, WindowSlides PROVE Inv'
<1>0. TypeOK
    BY DEF Inv, SlotIsHeld
<1>1. accepted > 0 /\ accepted' = accepted - 1
      /\ UNCHANGED <<up, cmd, slot, ask, pending, pointer, history>>
    BY DEF WindowSlides
<1>2. accepted' \in 0..PerMinute
    <2>1. PerMinute \in Nat /\ accepted \in 0..PerMinute
        BY <1>0, ChatControlAssumption DEF ChatControlAssumption, TypeOK
    <2> QED
        BY <1>1, <2>1
<1>3. TypeOK'
    BY <1>0, <1>1, <1>2 DEF TypeOK, history
<1>4. SlotIsHeld' /\ AllProper'
    BY <1>1, <1>3, SlotsStay DEF Inv, AllProper
<1>5. Vouched' /\ Owned' /\ AllKnown'
    BY <1>1, VouchedStays, PromptsStay DEF history
<1>6. QuietResetHolds' /\ AllInNewest'
    BY <1>1, ConversationsStay DEF history
<1> QED
    BY <1>4, <1>5, <1>6 DEF Inv

--------------------------------------------------------------------------------
(* The end of the bridge.                                                    *)

LEMMA StopKeeps == ASSUME Inv, Stop PROVE Inv'
<1>0. TypeOK
    BY DEF Inv, SlotIsHeld
<1>1. /\ up = "listening" /\ up' = "stopping"
      /\ ask' = [a \in Asks |-> IF \E c \in Chats : pending[c] = a /\ ask[a].fut = "open"
                               THEN [ask[a] EXCEPT !.fut = "no"] ELSE ask[a]]
      /\ pending' = [c \in Chats |-> None]
      /\ UNCHANGED <<slot, pointer, accepted, history>>
    BY DEF Stop
<1> DEFINE held(m) == \E c \in Chats : slot[c] = m
<1>2. /\ cmd' \in [Messages -> Command]
      /\ \A m \in Messages :
           /\ cmd'[m].pc = cmd[m].pc /\ cmd'[m].chat = cmd[m].chat /\ cmd'[m].word = cmd[m].word
           /\ cmd'[m].trusted = cmd[m].trusted /\ cmd'[m].about = cmd[m].about
           /\ cmd'[m].conv = cmd[m].conv
           /\ held(m) => cmd'[m].killed /\ cmd'[m].late = cmd[m].late
           /\ ~held(m) => /\ cmd'[m].killed = cmd[m].killed
                          /\ cmd'[m].late = (cmd[m].pc \in HandlerStages)
    <2>1. cmd' = [m \in Messages |->
                    IF held(m) THEN [cmd[m] EXCEPT !.cancel = TRUE, !.killed = TRUE]
                    ELSE [cmd[m] EXCEPT !.late = cmd[m].pc \in HandlerStages]]
        BY DEF Stop
    <2>2. ASSUME NEW m \in Messages
          PROVE  LET x == [cmd[m] EXCEPT !.cancel = TRUE, !.killed = TRUE] IN
                 /\ x \in Command /\ x.pc = cmd[m].pc /\ x.chat = cmd[m].chat
                 /\ x.word = cmd[m].word /\ x.trusted = cmd[m].trusted /\ x.about = cmd[m].about
                 /\ x.conv = cmd[m].conv /\ x.killed /\ x.late = cmd[m].late
        <3>1. cmd[m] \in Command
            BY <1>0 DEF TypeOK
        <3> QED
            BY <3>1 DEF Command
    <2>3. ASSUME NEW m \in Messages
          PROVE  LET x == [cmd[m] EXCEPT !.late = cmd[m].pc \in HandlerStages] IN
                 /\ x \in Command /\ x.pc = cmd[m].pc /\ x.chat = cmd[m].chat
                 /\ x.word = cmd[m].word /\ x.trusted = cmd[m].trusted /\ x.about = cmd[m].about
                 /\ x.conv = cmd[m].conv /\ x.killed = cmd[m].killed
                 /\ x.late = (cmd[m].pc \in HandlerStages)
        <3>1. cmd[m] \in Command /\ (cmd[m].pc \in HandlerStages) \in BOOLEAN
            BY <1>0 DEF TypeOK
        <3> QED
            BY <3>1, LateIsCommand
    <2> HIDE DEF held
    <2> QED
        BY <2>1, <2>2, <2>3
<1>3. \A m \in Messages : (Running(m) <=> held(m)) /\ (Running(m)' <=> Running(m))
    <2>1. \A m \in Messages : held(m) => Running(m)
        BY <1>1, Numbers DEF Inv, SlotIsHeld
    <2>2. ASSUME NEW m \in Messages, Running(m) PROVE held(m)
        <3>1. cmd[m].chat \in Chats
            BY <2>2 DEF Inv, AllProper, Proper, Running
        <3>2. slot[cmd[m].chat] # None /\ slot[cmd[m].chat] \in Messages
            BY <1>0, <1>1, <2>2, <3>1 DEF Inv, SlotIsHeld, TypeOK
        <3>3. Running(slot[cmd[m].chat]) /\ cmd[slot[cmd[m].chat]].chat = cmd[m].chat
            BY <1>1, <3>1, <3>2 DEF Inv, SlotIsHeld
        <3>4. slot[cmd[m].chat] = m
            BY <1>1, <2>2, <3>2, <3>3 DEF Inv, SlotIsHeld, OneRunPerChat
        <3> QED
            BY <3>1, <3>4
    <2>3. \A m \in Messages : Running(m)' <=> Running(m)
        BY <1>2 DEF Running
    <2> QED
        BY <2>1, <2>2, <2>3
<1> HIDE DEF held
<1>4. /\ ask' \in [Asks -> Confirmation]
      /\ \A a \in Asks : /\ ask'[a].pc = ask[a].pc /\ ask'[a].run = ask[a].run
                         /\ ask'[a].allowed = ask[a].allowed
                         /\ ask'[a].fut = ask[a].fut \/ ask'[a].fut = "no"
                         /\ (\E c \in Chats : pending[c] = a) => ask'[a].fut # "open"
    <2>1. ASSUME NEW a \in Asks
          PROVE  LET x == [ask[a] EXCEPT !.fut = "no"] IN
                 /\ x \in Confirmation /\ x.pc = ask[a].pc /\ x.run = ask[a].run
                 /\ x.allowed = ask[a].allowed /\ x.fut = "no"
        <3>1. ask[a] \in Confirmation
            BY <1>0 DEF TypeOK
        <3> QED
            BY <3>1 DEF Confirmation, Answers
    <2>2. \A a \in Asks : ask[a] \in Confirmation
        BY <1>0 DEF TypeOK
    <2> QED
        BY <1>1, <2>1, <2>2
<1>5. TypeOK'
    BY <1>0, <1>1, <1>2, <1>4 DEF TypeOK, history
<1>6. SlotIsHeld'
    <2>1. OneRunPerChat'
        BY <1>1, <1>2, <1>3 DEF Inv, SlotIsHeld, OneRunPerChat
    <2>2. \A c \in Chats : slot[c] = None => \A m \in Messages : Running(m)' => cmd'[m].chat # c
        BY <1>1, <1>2, <1>3 DEF Inv, SlotIsHeld
    <2> QED
        BY <1>1, <1>5, <2>1, <2>2 DEF SlotIsHeld
<1>7. AllProper'
    <2> SUFFICES ASSUME NEW m \in Messages PROVE Proper(cmd'[m], "stopping")
        BY <1>1 DEF AllProper
    <2>1. Proper(cmd[m], "listening")
        BY <1>1 DEF Inv, AllProper
    <2>2. cmd[m].pc \in HandlerStages => ~Running(m)
        BY DEF Running, HandlerStages, RunStages
    <2> QED
        BY <1>2, <1>3, <2>1, <2>2 DEF Proper, Running
<1>8. Vouched'
    BY <1>1, <1>2, <1>4 DEF Inv, Vouched, history
<1>9. \A a \in Asks : Live(a)' <=> Live(a)
    BY <1>4 DEF Live
<1>10. Owned'
    BY <1>2, <1>4, <1>9 DEF Inv, Owned
<1>11. AllKnown'
    <2>1. ASSUME ~overlapped, NEW a \in Asks, Live(a) PROVE Known(a)'
        <3>1. Known(a) /\ ask[a].run \in Messages /\ cmd[ask[a].run].pc = "working"
            BY <2>1 DEF Inv, AllKnown, Owned
        <3>2. Running(ask[a].run) /\ ChatOf(a) \in Chats
            BY <3>1 DEF Inv, AllProper, Proper, Running, RunStages, ChatOf
        <3>3. cmd'[ask[a].run].killed /\ ChatOf(a)' = ChatOf(a)
            BY <1>2, <1>3, <1>4, <3>1, <3>2 DEF ChatOf
        <3>4. ask'[a].fut # "open"
            BY <1>4, <3>1, <3>2 DEF Known
        <3> QED
            BY <1>1, <1>4, <3>2, <3>3, <3>4 DEF Known
    <2> QED
        BY <1>1, <1>9, <2>1 DEF AllKnown, history
<1>12. QuietResetHolds' /\ AllInNewest'
    BY <1>1, <1>2, ConversationsStay DEF history
<1> QED
    BY <1>6, <1>7, <1>8, <1>10, <1>11, <1>12 DEF Inv

LEMMA StoppedKeeps == ASSUME Inv, Stopped PROVE Inv'
<1>0. TypeOK
    BY DEF Inv, SlotIsHeld
<1>1. /\ up = "stopping" /\ \A m \in Messages : Running(m) => cmd[m].late
      /\ up' = "stopped" /\ slot' = [c \in Chats |-> None]
      /\ UNCHANGED <<cmd, ask, pending, pointer, accepted, history>>
    BY DEF Stopped
<1>2. TypeOK'
    BY <1>0, <1>1 DEF TypeOK, history
<1>3. SlotIsHeld'
    BY <1>1, <1>2 DEF SlotIsHeld, OneRunPerChat
<1>4. AllProper'
    BY <1>1 DEF Inv, AllProper, Proper, Running
<1>5. Vouched' /\ Owned' /\ AllKnown'
    BY <1>1, VouchedStays, PromptsStay DEF history
<1>6. QuietResetHolds' /\ AllInNewest'
    BY <1>1, ConversationsStay DEF history
<1> QED
    BY <1>3, <1>4, <1>5, <1>6 DEF Inv

--------------------------------------------------------------------------------
LEMMA InvStays == ASSUME Inv, [Next]_vars PROVE Inv'
<1>1. ASSUME NEW m \in Messages, NEW c \in Chats, NEW w \in Words, NEW t \in BOOLEAN,
             Arrive(m, c, w, t)
      PROVE  Inv'
    BY <1>1, ArriveKeeps
<1>2. ASSUME NEW m \in Messages, Handler(m) PROVE Inv'
    BY <1>2, AnswerKeeps, ReplyKeeps, StopRunKeeps, ResetKeeps, LaunchKeeps DEF Handler
<1>3. ASSUME NEW m \in Messages, Run(m) PROVE Inv'
    BY <1>3, StageKeeps, FinishedKeeps, ClosedKeeps, KillSwallowedKeeps, AskKeeps DEF Run
<1>4. ASSUME NEW a \in Asks, Prompt(a) PROVE Inv'
    BY <1>4, PromptGoesOn, PromptEnds DEF Prompt
<1>5. CASE UNCHANGED vars
    <2>1. TypeOK' /\ UNCHANGED <<up, cmd, slot, ask, pending, pointer, history>>
        BY <1>5 DEF vars, history, Inv, SlotIsHeld, TypeOK
    <2>2. SlotIsHeld' /\ AllProper'
        BY <2>1, SlotsStay DEF Inv, AllProper
    <2>3. Vouched' /\ Owned' /\ AllKnown'
        BY <2>1, VouchedStays, PromptsStay DEF history
    <2>4. QuietResetHolds' /\ AllInNewest'
        BY <2>1, ConversationsStay DEF history
    <2> QED
        BY <2>2, <2>3, <2>4 DEF Inv
<1> QED
    BY <1>1, <1>2, <1>3, <1>4, <1>5, WindowKeeps, StopKeeps, StoppedKeeps DEF Next

\* Inv is an invariant.
THEOREM InvHolds == Spec => []Inv
<1>1. Inv /\ [Next]_vars => Inv'
    BY InvStays
<1> QED
    BY Initially, <1>1, PTL DEF Spec

\* SlotIsHeld, for every instance: one run per chat, and a chat is busy exactly while its
\* run is there to free it (_dispatch, _run_command and its finally).
THEOREM SlotIsAlwaysHeld == Spec => []SlotIsHeld
<1>1. Inv => SlotIsHeld
    BY DEF Inv
<1> QED
    BY <1>1, InvHolds, PTL

\* ApprovedByOwner, for every instance: an operation is approved only by a yes of somebody
\* who may command the agent, said while its own prompt was open (_try_answer).
THEOREM OnlyOwnerApproves == Spec => []ApprovedByOwner
<1>1. Inv => ApprovedByOwner
    BY DEF Inv, Vouched, ApprovedByOwner
<1> QED
    BY <1>1, InvHolds, PTL

\* Answerable, for every instance: a prompt that waits is the one an answer in its chat
\* finds, unless one was registered over an answered one (ask_in_chat).
THEOREM AlwaysAnswerable == Spec => []Answerable
<1>1. Inv => Answerable
    BY DEF Inv, AllKnown, Known, Live, Answerable
<1> QED
    BY <1>1, InvHolds, PTL

\* QuietResetHolds, for every instance: a chat that was asked to start afresh stays in its
\* new conversation, if no run was in the old one.
THEOREM ResetHolds == Spec => []QuietResetHolds
<1>1. Inv => QuietResetHolds
    BY DEF Inv
<1> QED
    BY <1>1, InvHolds, PTL

--------------------------------------------------------------------------------
(* Nothing is approved once stop() has begun: every answer that was found     *)
(* before it is about a prompt that it has refused.                           *)

\* A prompt that an answer or an entry of a chat is about was asked, and one that is over
\* is decided.
Asked ==
    /\ \A c \in Chats : pending[c] # None => ask[pending[c]].pc # "unborn"
    /\ \A m \in Messages : cmd[m].pc = "answering" => ask[cmd[m].about].pc # "unborn"
    /\ \A a \in Asks : ask[a].pc = "over" => ask[a].fut # "open"

\* Once stop() has begun no answer that is on its way finds its prompt open.
Decided ==
    \/ up = "listening" \/ overlapped
    \/ \A m \in Messages : cmd[m].pc = "answering" => ask[cmd[m].about].fut # "open"

\* What a step may make of a confirmation ...
Ages(a) == /\ ask'[a].pc = "unborn" => ask[a].pc = "unborn"
           /\ ask'[a].fut = "open" => ask[a].fut = "open"
           /\ ask'[a].pc = "over" => ask'[a].fut # "open" \/ ask[a].pc = "over"
\* ... of an answer that is on its way ...
Found(m) == cmd'[m].pc = "answering" =>
    \/ cmd[m].pc = "answering" /\ cmd'[m].about = cmd[m].about
    \/ up' = "listening" /\ \E c \in Chats : pending[c] # None /\ cmd'[m].about = pending[c]
\* ... and of the entry of a chat.
Registered(c) == \/ pending'[c] \in {pending[c], None}
                 \/ pending'[c] \in Asks /\ ask'[pending'[c]].pc # "unborn"

LEMMA ConfirmationsAge ==
    ASSUME NEW x \in Confirmation, NEW y,
           \/ y = x
           \/ \E f \in {"yes", "no", "cancelled"} : y = [x EXCEPT !.fut = f]
           \/ x.pc = "prompting" /\ y = [x EXCEPT !.pc = "waiting"]
           \/ \E m \in Messages : y = [x EXCEPT !.pc = "prompting", !.run = m]
           \/ \E b \in BOOLEAN : y = Ended(b)
    PROVE  /\ y.pc = "unborn" => x.pc = "unborn"
           /\ y.fut = "open" => x.fut = "open"
           /\ y.pc = "over" => y.fut # "open" \/ x.pc = "over"
<1>1. CASE \E f \in {"yes", "no", "cancelled"} : y = [x EXCEPT !.fut = f]
    BY <1>1 DEF Confirmation
<1>2. CASE \E m \in Messages : y = [x EXCEPT !.pc = "prompting", !.run = m]
    BY <1>2 DEF Confirmation
<1>3. CASE x.pc = "prompting" /\ y = [x EXCEPT !.pc = "waiting"]
    BY <1>3 DEF Confirmation
<1>4. CASE \E b \in BOOLEAN : y = Ended(b)
    <2>1. \A b \in BOOLEAN : Ended(b).pc = "over" /\ Ended(b).fut = "cancelled"
        BY DEF Ended
    <2>2. y.pc = "over" /\ y.fut = "cancelled"
        BY <1>4, <2>1, Zenon
    <2> QED
        BY <2>2
<1> QED
    BY <1>1, <1>2, <1>3, <1>4

LEMMA AllAge == ASSUME Inv, [Next]_vars PROVE \A a \in Asks : Ages(a)
<1>0. TypeOK /\ AllProper
    BY DEF Inv, SlotIsHeld
<1> DEFINE Step(x, y) ==
               \/ y = x
               \/ \E f \in {"yes", "no", "cancelled"} : y = [x EXCEPT !.fut = f]
               \/ x.pc = "prompting" /\ y = [x EXCEPT !.pc = "waiting"]
               \/ \E m \in Messages : y = [x EXCEPT !.pc = "prompting", !.run = m]
               \/ \E b \in BOOLEAN : y = Ended(b)
           Goal == \A a \in Asks : Step(ask[a], ask'[a])
<1>1. ask' = ask => Goal
    OBVIOUS
<1>2. ASSUME NEW m \in Messages, Answer(m) PROVE Goal
    <2>1. cmd[m].about \in Asks /\ cmd[m].word \in {"yes", "no", "cancelled"}
        BY <1>0, <1>2 DEF Answer, AllProper, Proper, Answers
    <2>2. \/ ask' = ask
          \/ ask' = [ask EXCEPT ![cmd[m].about] = [ask[cmd[m].about] EXCEPT !.fut = cmd[m].word]]
        BY <1>2 DEF Answer
    <2> QED
        BY <1>0, <2>1, <2>2 DEF TypeOK
<1>3. ASSUME NEW m \in Messages, KillSwallowed(m) PROVE Goal
    BY <1>3 DEF KillSwallowed
<1>4. ASSUME NEW m \in Messages, NEW a \in Asks, Ask(a, m) PROVE Goal
    BY <1>0, <1>4 DEF Ask, TypeOK
<1>5. ASSUME NEW a \in Asks, Prompted(a) PROVE Goal
    <2>1. ask[a].pc = "prompting" /\ ask' = [ask EXCEPT ![a] = [ask[a] EXCEPT !.pc = "waiting"]]
        BY <1>5 DEF Prompted
    <2> QED
        BY <1>0, <2>1 DEF TypeOK
<1>6. ASSUME NEW a \in Asks, TimesOut(a) PROVE Goal
    <2>1. ask' = [ask EXCEPT ![a] = [ask[a] EXCEPT !.fut = "cancelled"]]
        BY <1>6 DEF TimesOut
    <2> QED
        BY <1>0, <2>1 DEF TypeOK
<1>7. ASSUME NEW a \in Asks, Resolve(a) \/ GivesUp(a) PROVE Goal
    <2>1. \E b \in BOOLEAN : ask' = [ask EXCEPT ![a] = Ended(b)]
        BY <1>7 DEF Resolve, GivesUp
    <2> QED
        BY <1>0, <2>1 DEF TypeOK
<1>8. ASSUME Stop PROVE Goal
    <2>1. \A a \in Asks : ask'[a] = ask[a] \/ ask'[a] = [ask[a] EXCEPT !.fut = "no"]
        BY <1>8 DEF Stop
    <2> QED
        BY <2>1
<1> HIDE DEF Goal
<1>9. ASSUME NEW m \in Messages, Handler(m) \/ Run(m) PROVE Goal
    BY <1>1, <1>2, <1>3, <1>4, <1>9
    DEF Handler, Refuse, Accept, Look, StopRun, Reset, Busy, Launch, Run, Opened, Begin, Finished,
        RunFails, Delivered, Closed, KillLands, KillAbandons
<1>10. ASSUME NEW a \in Asks, Prompt(a) PROVE Goal
    BY <1>5, <1>6, <1>7, <1>10 DEF Prompt
<1>11. Goal
    BY <1>1, <1>8, <1>9, <1>10 DEF Next, Arrive, WindowSlides, Stopped, vars
<1>12. \A a \in Asks : ask[a] \in Confirmation
    BY <1>0 DEF TypeOK
<1> QED
    BY <1>11, <1>12, ConfirmationsAge DEF Goal, Ages

LEMMA AllFound == ASSUME Inv, [Next]_vars PROVE \A m \in Messages : Found(m)
<1>0. TypeOK
    BY DEF Inv, SlotIsHeld
<1> DEFINE Goal == \A n \in Messages : Found(n)
<1>1. cmd' = cmd => Goal
    BY DEF Found
<1>2. ASSUME NEW m \in Messages, NEW c \in Chats, NEW w \in Words, NEW t \in BOOLEAN,
             Arrive(m, c, w, t)
      PROVE  Goal
    <2>1. up' = "listening" /\ (w \in Answers => pending[c] # None)
        BY <1>2 DEF Arrive, Open
    <2> DEFINE x == [cmd[m] EXCEPT !.pc = IF w \in Answers THEN "answering" ELSE "authorising",
                                   !.chat = c, !.word = w, !.trusted = t,
                                   !.about = IF w \in Answers THEN pending[c] ELSE None]
    <2>2. cmd' = [cmd EXCEPT ![m] = x]
        BY <1>2 DEF Arrive
    <2>3. x.pc = "answering" => w \in Answers /\ x.about = pending[c]
        BY <1>0 DEF TypeOK, Command
    <2> HIDE DEF x
    <2>4. cmd'[m] = x /\ \A n \in Messages \ {m} : cmd'[n] = cmd[n]
        BY <1>0, <2>2 DEF TypeOK
    <2> QED
        BY <2>1, <2>3, <2>4 DEF Found
<1>3. ASSUME NEW m \in Messages, Over(m) PROVE Goal
    BY <1>0, <1>3 DEF Over, Blank, TypeOK, Found
<1>4. ASSUME NEW m \in Messages, NEW pc \in RunStages \cup {"recording"}, Goes(m, pc) PROVE Goal
    <2>1. cmd'[m].pc = pc /\ \A n \in Messages \ {m} : cmd'[n] = cmd[n]
        BY <1>0, <1>4 DEF Goes, TypeOK, Command
    <2> QED
        BY <2>1 DEF Found, RunStages
<1>5. ASSUME NEW m \in Messages, StopRun(m) PROVE Goal
    <2> DEFINE r == slot[cmd[m].chat]
    <2>1. cmd' = [n \in Messages |-> CASE n = m -> Blank("done")
                                       [] n = r /\ n # m -> [cmd[n] EXCEPT !.cancel = TRUE]
                                       [] OTHER -> cmd[n]]
        BY <1>5 DEF StopRun
    <2> HIDE DEF r
    <2>2. cmd'[m] = Blank("done")
          /\ \A n \in Messages \ {m} : cmd'[n] = cmd[n] \/ cmd'[n] = [cmd[n] EXCEPT !.cancel = TRUE]
        BY <2>1
    <2>3. \A n \in Messages : cmd[n] \in Command
        BY <1>0 DEF TypeOK
    <2>4. \A n \in Messages \ {m} : cmd'[n].pc = cmd[n].pc /\ cmd'[n].about = cmd[n].about
        BY <2>2, <2>3 DEF Command
    <2>5. Blank("done").pc = "done"
        BY DEF Blank
    <2> QED
        BY <2>2, <2>4, <2>5 DEF Found
<1>6. ASSUME NEW m \in Messages, NEW q, q.pc # "answering", cmd' = [cmd EXCEPT ![m] = q]
      PROVE  Goal
    BY <1>0, <1>6 DEF TypeOK, Found
<1>7. \A m \in Messages : cmd[m] \in Command
    BY <1>0 DEF TypeOK
<1> HIDE DEF Goal
<1>8. ASSUME NEW m \in Messages, Begin(m) PROVE Goal
    <2>1. CASE cmd[m].cancel
        <3> DEFINE q == [cmd[m] EXCEPT !.pc = "finishing"]
        <3>1. cmd' = [cmd EXCEPT ![m] = q]
            BY <1>8, <2>1 DEF Begin
        <3>2. q.pc # "answering"
            BY <1>7 DEF Command
        <3> QED
            BY <1>6, <3>1, <3>2
    <2>2. CASE ~cmd[m].cancel
        <3> DEFINE q == [cmd[m] EXCEPT !.pc = "working", !.conv = pointer[KeyOf(cmd[m].chat)]]
        <3>1. cmd' = [cmd EXCEPT ![m] = q]
            BY <1>8, <2>2 DEF Begin
        <3>2. q.pc # "answering"
            BY <1>7 DEF Command
        <3> QED
            BY <1>6, <3>1, <3>2
    <2> QED
        BY <2>1, <2>2
<1>9. ASSUME NEW m \in Messages, KillLands(m) \/ KillSwallowed(m) PROVE Goal
    <2>1. PICK pc \in {"closing", "finishing"} :
              cmd' = [cmd EXCEPT ![m] = [cmd[m] EXCEPT !.pc = pc, !.killed = FALSE]]
        BY <1>9 DEF KillLands, KillSwallowed
    <2>2. [cmd[m] EXCEPT !.pc = pc, !.killed = FALSE].pc # "answering"
        BY <1>7, <2>1 DEF Command
    <2> QED
        BY <1>6, <2>1, <2>2
<1>10. ASSUME NEW m \in Messages, Begin(m) \/ KillLands(m) \/ KillSwallowed(m) PROVE Goal
    BY <1>10, <1>8, <1>9
<1> USE DEF Goal
<1>11. ASSUME Stop PROVE Goal
    <2>1. \A n \in Messages :
             \/ cmd'[n] = [cmd[n] EXCEPT !.cancel = TRUE, !.killed = TRUE]
             \/ cmd'[n] = [cmd[n] EXCEPT !.late = cmd[n].pc \in HandlerStages]
        BY <1>11 DEF Stop
    <2>2. \A n \in Messages : cmd[n] \in Command
        BY <1>0 DEF TypeOK
    <2> QED
        BY <2>1, <2>2 DEF Command, Found
<1> HIDE DEF Goal
<1>12. ASSUME NEW m \in Messages, Handler(m) PROVE Goal
    BY <1>3, <1>4, <1>5, <1>12
    DEF Handler, Answer, Refuse, Accept, Look, Reset, Busy, Launch, RunStages
<1>13. ASSUME NEW m \in Messages, Run(m) PROVE Goal
    BY <1>1, <1>3, <1>4, <1>10, <1>13
    DEF Run, Opened, Finished, RunFails, Delivered, Closed, KillAbandons, Ask, RunStages
<1>14. ASSUME NEW a \in Asks, Prompt(a) PROVE Goal
    BY <1>1, <1>14 DEF Prompt, Prompted, Resolve, TimesOut, GivesUp
<1>15. Goal
    BY <1>1, <1>2, <1>11, <1>12, <1>13, <1>14 DEF Next, WindowSlides, Stopped, vars
<1> QED
    BY <1>15 DEF Goal

LEMMA AllRegistered == ASSUME Inv, [Next]_vars PROVE \A c \in Chats : Registered(c)
<1>0. TypeOK
    BY DEF Inv, SlotIsHeld
<1> DEFINE Goal == \A c \in Chats : Registered(c)
<1>1. pending' = pending => Goal
    BY DEF Registered
<1>2. ASSUME NEW m \in Messages, NEW a \in Asks, Ask(a, m) PROVE Goal
    <2>1. ask'[a].pc = "prompting"
        BY <1>0, <1>2 DEF Ask, TypeOK, Confirmation
    <2>2. \A c \in Chats : pending'[c] \in {pending[c], a}
        BY <1>0, <1>2 DEF Ask, TypeOK
    <2> QED
        BY <2>1, <2>2 DEF Registered
<1>3. ASSUME NEW m \in Messages, KillSwallowed(m) PROVE Goal
    BY <1>0, <1>3 DEF KillSwallowed, TypeOK, Registered
<1>4. ASSUME NEW a \in Asks, Resolve(a) \/ GivesUp(a) PROVE Goal
    BY <1>0, <1>4 DEF Resolve, GivesUp, TypeOK, Registered
<1>5. Stop => Goal
    BY DEF Stop, Registered
<1> HIDE DEF Goal
<1>6. ASSUME NEW m \in Messages, Handler(m) \/ Run(m) PROVE Goal
    BY <1>1, <1>2, <1>3, <1>6
    DEF Handler, Answer, Refuse, Accept, Look, StopRun, Reset, Busy, Launch, Run, Opened, Begin,
        Finished, RunFails, Delivered, Closed, KillLands, KillAbandons
<1>7. ASSUME NEW a \in Asks, Prompt(a) PROVE Goal
    BY <1>1, <1>4, <1>7 DEF Prompt, Prompted, TimesOut
<1>8. Goal
    BY <1>1, <1>5, <1>6, <1>7 DEF Next, Arrive, WindowSlides, Stopped, vars
<1> QED
    BY <1>8 DEF Goal

LEMMA AskedStays == ASSUME Inv, Asked, [Next]_vars PROVE Asked'
<1>0. TypeOK /\ TypeOK' /\ AllProper'
    <2>1. Inv'
        BY InvStays
    <2> QED
        BY <2>1 DEF Inv, SlotIsHeld
<1>1. ASSUME NEW c \in Chats, pending'[c] # None PROVE ask'[pending'[c]].pc # "unborn"
    <2>1. Registered(c) /\ pending'[c] \in Asks
        BY <1>0, <1>1, AllRegistered DEF TypeOK
    <2>2. Ages(pending'[c])
        BY <2>1, AllAge
    <2> QED
        BY <1>1, <2>1, <2>2 DEF Registered, Asked, Ages
<1>2. ASSUME NEW m \in Messages, cmd'[m].pc = "answering"
      PROVE  ask'[cmd'[m].about].pc # "unborn"
    <2>1. Found(m) /\ cmd'[m].about \in Asks
        BY <1>0, <1>2, AllFound DEF AllProper, Proper
    <2>2. Ages(cmd'[m].about)
        BY <2>1, AllAge
    <2> QED
        BY <1>2, <2>1, <2>2 DEF Found, Asked, Ages
<1>3. ASSUME NEW a \in Asks, ask'[a].pc = "over" PROVE ask'[a].fut # "open"
    BY <1>3, AllAge DEF Asked, Ages
<1> QED
    BY <1>1, <1>2, <1>3 DEF Asked

LEMMA StopDecides == ASSUME Inv, Asked, Stop PROVE Decided'
<1>0. TypeOK /\ AllProper /\ Owned /\ AllKnown
    BY DEF Inv, SlotIsHeld
<1>1. [Next]_vars /\ overlapped' = overlapped
    BY DEF Next, Stop, history
<1> SUFFICES ASSUME ~overlapped, NEW m \in Messages, cmd'[m].pc = "answering"
             PROVE  ask'[cmd'[m].about].fut # "open"
    BY <1>1 DEF Decided
<1>2. cmd[m].pc = "answering" /\ cmd'[m].about = cmd[m].about
    <2>1. Found(m) /\ up' = "stopping"
        BY <1>1, AllFound DEF Stop
    <2> QED
        BY <2>1 DEF Found
<1> DEFINE a == cmd[m].about
<1>3. a \in Asks /\ ask[a].pc # "unborn"
    BY <1>0, <1>2 DEF AllProper, Proper, Asked
<1> HIDE DEF a
<1>4. Ages(a) /\ ask[a] \in Confirmation
    BY <1>0, <1>1, <1>3, AllAge DEF TypeOK
<1>5. CASE Live(a)
    <2>1. Known(a) /\ ask[a].run \in Messages /\ cmd[ask[a].run].pc = "working"
        BY <1>0, <1>3, <1>5 DEF AllKnown, Owned
    <2>2. ChatOf(a) \in Chats
        BY <1>0, <2>1 DEF AllProper, Proper, RunStages, ChatOf
    <2>3. ask[a].fut = "open" => \E c \in Chats : pending[c] = a /\ ask[a].fut = "open"
        BY <2>1, <2>2 DEF Known
    <2>4. ask[a].fut = "open" => ask'[a] = [ask[a] EXCEPT !.fut = "no"]
        BY <1>3, <2>3 DEF Stop
    <2>5. ask[a].fut = "open" => ask'[a].fut = "no"
        BY <1>4, <2>4 DEF Confirmation
    <2> QED
        BY <1>2, <1>4, <2>5 DEF Ages, a
<1>6. CASE ~Live(a)
    BY <1>2, <1>3, <1>4, <1>6 DEF Live, Confirmation, Asked, Ages, a
<1> QED
    BY <1>5, <1>6

LEMMA DecidedStays == ASSUME Inv, Asked, Decided, [Next]_vars PROVE Decided'
<1>1. CASE Stop
    BY <1>1, StopDecides
<1>2. CASE ~Stop
    <2>1. up' = up \/ up # "listening"
        <3>1. ASSUME NEW m \in Messages, Handler(m) \/ Run(m) PROVE up' = up
            BY <3>1
            DEF Handler, Answer, Refuse, Accept, Look, StopRun, Reset, Busy, Launch, Run, Opened,
                Begin, Finished, RunFails, Delivered, Closed, KillLands, KillAbandons,
                KillSwallowed, Ask
        <3>2. ASSUME NEW a \in Asks, Prompt(a) PROVE up' = up
            BY <3>2 DEF Prompt, Prompted, Resolve, TimesOut, GivesUp
        <3> QED
            BY <1>2, <3>1, <3>2 DEF Next, Arrive, WindowSlides, Stopped, vars
    <2>2. overlapped => overlapped'
        <3>1. ASSUME NEW m \in Messages, Handler(m) \/ Run(m), overlapped PROVE overlapped'
            BY <3>1
            DEF Handler, Answer, Refuse, Accept, Look, StopRun, Reset, Busy, Launch, Run, Opened,
                Begin, Finished, RunFails, Delivered, Closed, KillLands, KillAbandons,
                KillSwallowed, Ask, history
        <3>2. ASSUME NEW a \in Asks, Prompt(a) PROVE overlapped' = overlapped
            BY <3>2 DEF Prompt, Prompted, Resolve, TimesOut, GivesUp, history
        <3> QED
            BY <1>2, <3>1, <3>2 DEF Next, Arrive, WindowSlides, Stopped, vars, history
    <2> SUFFICES ASSUME up' # "listening", ~overlapped', NEW m \in Messages,
                        cmd'[m].pc = "answering"
                 PROVE  ask'[cmd'[m].about].fut # "open"
        BY DEF Decided
    <2>3. cmd[m].pc = "answering" /\ cmd'[m].about = cmd[m].about
        BY AllFound DEF Found
    <2>4. cmd[m].about \in Asks /\ ask[cmd[m].about].fut # "open"
        BY <2>1, <2>2, <2>3 DEF Inv, AllProper, Proper, Decided
    <2> QED
        BY <2>3, <2>4, AllAge DEF Ages
<1> QED
    BY <1>1, <1>2

\* Only the answer that was found for it says yes to a prompt.
LEMMA OnlyAnswersApprove ==
    ASSUME Inv, [Next]_vars, NEW a \in Asks, ask[a].fut = "open", ask'[a].fut = "yes"
    PROVE  \E m \in Messages : cmd[m].pc = "answering" /\ cmd[m].about = a
<1>0. TypeOK /\ AllProper
    BY DEF Inv, SlotIsHeld
<1>1. ask[a] \in Confirmation /\ ask' # ask
    BY <1>0 DEF TypeOK
<1>2. ASSUME NEW m \in Messages, Answer(m)
      PROVE  cmd[m].pc = "answering" /\ cmd[m].about = a
    BY <1>0, <1>1, <1>2 DEF Answer, TypeOK
<1>3. ASSUME NEW m \in Messages, KillSwallowed(m) PROVE FALSE
    BY <1>1, <1>3 DEF KillSwallowed, Ended
<1>4. ASSUME NEW m \in Messages, NEW b \in Asks, Ask(b, m) PROVE FALSE
    BY <1>0, <1>1, <1>4 DEF Ask, TypeOK, Confirmation
<1>5. ASSUME NEW b \in Asks, Prompt(b) PROVE FALSE
    BY <1>0, <1>1, <1>5 DEF Prompt, Prompted, Resolve, TimesOut, GivesUp, Ended, TypeOK, Confirmation
<1>6. ASSUME Stop PROVE FALSE
    <2>1. ask'[a] = ask[a] \/ ask'[a] = [ask[a] EXCEPT !.fut = "no"]
        BY <1>6 DEF Stop
    <2> QED
        BY <1>1, <2>1 DEF Confirmation
<1>7. ASSUME NEW m \in Messages, Handler(m) \/ Run(m)
      PROVE  Answer(m)
    BY <1>1, <1>3, <1>4, <1>7
    DEF Handler, Refuse, Accept, Look, StopRun, Reset, Busy, Launch, Run, Opened, Begin, Finished,
        RunFails, Delivered, Closed, KillLands, KillAbandons
<1> QED
    BY <1>1, <1>2, <1>5, <1>6, <1>7 DEF Next, Arrive, WindowSlides, Stopped, vars

\* StopRefuses, for every instance: once stop() has begun nothing is approved any more, not
\* by an answer whose sender was being looked up (_try_answer, stop).
THEOREM StoppedRefuses == Spec => StopRefuses
<1>1. Init => Asked /\ Decided
    BY DEF Init, Blank, Asked, Decided
<1>2. Inv /\ Asked /\ Decided /\ [Next]_vars => Asked' /\ Decided'
    BY AskedStays, DecidedStays
<1>3. Inv /\ Asked /\ Decided /\ [Next]_vars =>
        \/ up = "listening" \/ overlapped
        \/ \A a \in Asks : ask[a].fut = "open" => ask'[a].fut # "yes"
    <2> SUFFICES ASSUME Inv, Asked, Decided, [Next]_vars, up # "listening", ~overlapped,
                        NEW a \in Asks, ask[a].fut = "open", ask'[a].fut = "yes"
                 PROVE  FALSE
        OBVIOUS
    <2>1. PICK m \in Messages : cmd[m].pc = "answering" /\ cmd[m].about = a
        BY OnlyAnswersApprove
    <2> QED
        BY <2>1 DEF Decided
<1> QED
    BY <1>1, <1>2, <1>3, InvHolds, PTL DEF Spec, StopRefuses
===============================================================================
