----------------------------- MODULE AutoReplyProofs ----------------------------
(***************************************************************************)
(* That a chat's slot is given back, that no count claims a reply that was  *)
(* not sent, that a watch keeps to its budget and that a watch which was    *)
(* stopped stays stopped: for any chats, watches, messages and limits.      *)
(***************************************************************************)
EXTENDS AutoReply, FiniteSetTheorems, TLAPS

\* The stages of a job before its reply is out, those after the budget of its row was
\* looked at, and those of a run whose row says how much was sent.
Ready == {"matched", "resolving", "queued", "writing", "sending"}
Afforded == {"resolving", "queued", "writing", "sending"}
Charging == {"queued", "writing", "sending", "counting"}

\* A copy of a row, in the hands of a job or of a command that stops the watch.
RowFits(w, row) ==
    /\ row.life = "stored" /\ db[w].life \in {"stored", "gone"}
    /\ row.count <= sent[w] /\ row.max = db[w].max

JobFits(j) ==
    /\ RowFits(j.watch, j.row)
    /\ j.pc \in Ready => j.row.on
    /\ j.pc \in Afforded => j.row.count < j.row.max
    /\ j.pc = "counting" => j.row.count <= j.row.max
    /\ ~raced /\ j.pc \in Charging => sent[j.watch] = j.row.count

InHandFits == (\A j \in jobs : JobFits(j)) /\ (\A s \in edit : RowFits(s.watch, s.row))

\* Nothing was sent under a watch that was not yet stored, and nobody has stopped it.
AllFresh == \A w \in Watches :
    db[w].life \in {"unborn", "allowed", "cleared"} =>
        db[w].count = 0 /\ sent[w] = 0 /\ w \notin halted

\* Unless runs have raced, there is one, and a live watch is charged for every reply but
\* for the one that is being recorded.
Alone == raced \/ \A j, k \in Runs : j = k
Counting(w) == \E j \in jobs : j.pc = "counting" /\ j.watch = w
AllCharged == \A w \in Watches : ~raced /\ Live(w) => db[w].count = sent[w] \/ Counting(w)

\* Nobody holds the row of a watch that was stopped while nobody held it.
Held(w) == \E j \in jobs : j.watch = w
StoppedIsStopped == \A w \in halted \ carried : ~Live(w) /\ ~Held(w)

Inv == /\ SlotsAreHeld
       /\ InHandFits /\ AllFresh /\ CountIsEarned
       /\ Alone /\ AllCharged /\ BudgetIsKept
       /\ StoppedIsStopped

--------------------------------------------------------------------------------
(* Constants and types.                                                      *)

LEMMA Numbers ==
    /\ MaxReplies \in Nat /\ MaxReplies > 0 /\ MaxTime \in Nat /\ MaxMessages \in Nat
    /\ Life \in Nat /\ DefaultLife \in Nat /\ MaxRows \in Nat
BY BoundsAssumption DEF BoundsAssumption

LEMMA OffIsWatch ==
    ASSUME NEW row \in Watch
    PROVE  LET off == [row EXCEPT !.on = FALSE] IN
           /\ off \in Watch /\ ~off.on /\ off.life = row.life
           /\ off.max = row.max /\ off.count = row.count
BY DEF Watch

LEMMA GoneIsWatch ==
    ASSUME NEW row \in Watch
    PROVE  /\ Gone(row) \in Watch /\ Gone(row).life = "gone" /\ ~Gone(row).on
           /\ Gone(row).max = row.max /\ Gone(row).count = row.count
BY DEF Watch, Gone

LEMMA CountedIsWatch ==
    ASSUME NEW row \in Watch, row.count < row.max, now \in Nat
    PROVE  /\ Counted(row) \in Watch /\ Counted(row).life = row.life
           /\ Counted(row).max = row.max /\ Counted(row).count = row.count + 1
<1> DEFINE one == [row EXCEPT !.count = row.count + 1, !.lastAt = now]
           ends == row.on /\ ~Exhausted(one)
<1>1. /\ row.count \in 0..MaxReplies /\ row.max \in 0..MaxReplies
      /\ row.count + 1 \in 0..MaxReplies
    BY Numbers DEF Watch
<1>2. /\ one \in Watch /\ one.life = row.life /\ one.max = row.max
      /\ one.count = row.count + 1
    BY <1>1 DEF Watch
<1>3. ends \in BOOLEAN
    BY <1>2 DEF Watch
<1>4. Counted(row) = [one EXCEPT !.on = ends]
    BY DEF Counted
<1> HIDE DEF one, ends
<1> QED
    BY <1>2, <1>3, <1>4 DEF Watch

LEMMA MovedIsJob ==
    ASSUME NEW j \in Job, NEW pc \in {"matched", "retiring", "resolving", "queued", "writing",
                                      "sending", "counting", "closing"}
    PROVE  LET k == [j EXCEPT !.pc = pc] IN
           /\ k \in Job /\ k.pc = pc /\ k.chat = j.chat /\ k.watch = j.watch /\ k.row = j.row
BY DEF Job

LEMMA JobsAre ==
    ASSUME TypeOK, NEW j \in jobs
    PROVE  j \in Job /\ j.watch \in Watches /\ j.row \in Watch /\ j.chat \in Chats
BY DEF TypeOK, Job

LEMMA EditsAre ==
    ASSUME TypeOK, NEW s \in edit
    PROVE  s.watch \in Watches /\ s.row \in Watch
<1>1. s \in [watch : Watches, row : Watch]
    BY DEF TypeOK
<1> QED
    BY <1>1

LEMMA RowsAre ==
    ASSUME TypeOK, NEW w \in Watches
    PROVE  /\ db[w] \in Watch /\ db[w].count \in Nat /\ db[w].max \in Nat /\ sent[w] \in Nat
           /\ db[w].on \in BOOLEAN
BY DEF TypeOK, Watch

LEMMA Initially == Init => Inv
<1> SUFFICES ASSUME Init PROVE Inv
    OBVIOUS
<1>1. db \in [Watches -> Watch]
    BY Numbers DEF Init, Watch
<1>2. TypeOK
    <2>1. now \in 0..MaxTime /\ seen \in 0..MaxMessages /\ trouble \in Nat
        BY Numbers DEF Init
    <2>2. jobs \in SUBSET Job /\ active \in SUBSET Chats
          /\ edit \in SUBSET [watch : Watches, row : Watch]
        BY DEF Init
    <2>3. replies \in SUBSET [at : 0..MaxTime, msg : Messages] /\ sent \in [Watches -> Nat]
        BY DEF Init
    <2>4. halted \in SUBSET Watches /\ carried \in SUBSET halted /\ raced \in BOOLEAN
        BY DEF Init
    <2> QED
        BY <1>1, <2>1, <2>2, <2>3, <2>4 DEF TypeOK
<1>3. SlotsAreHeld
    BY <1>2 DEF Init, SlotsAreHeld, OneRunPerChat, Runs
<1>4. InHandFits /\ AllFresh /\ CountIsEarned
    BY DEF Init, InHandFits, AllFresh, CountIsEarned
<1>5. Alone /\ AllCharged /\ StoppedIsStopped
    BY DEF Init, Alone, AllCharged, StoppedIsStopped, Runs, Live
<1>6. BudgetIsKept
    BY DEF Init, BudgetIsKept
<1> QED
    BY <1>2, <1>3, <1>4, <1>5, <1>6 DEF Inv

--------------------------------------------------------------------------------
(* Jobs that go on while the table is left alone.                            *)

\* A job becomes another with the same chat that is a run if and only if it was one.
LEMMA SlotsStay ==
    ASSUME SlotsAreHeld, TypeOK', NEW j \in jobs, NEW k,
           jobs' = (jobs \ {j}) \cup {k}, k.chat = j.chat, IsRun(k) <=> IsRun(j),
           UNCHANGED active
    PROVE  SlotsAreHeld'
<1>1. Runs' = IF IsRun(j) THEN (Runs \ {j}) \cup {k} ELSE Runs
    BY DEF Runs, IsRun
<1>2. OneRunPerChat'
    BY <1>1 DEF SlotsAreHeld, OneRunPerChat, Runs
<1>3. {r.chat : r \in Runs'} = {r.chat : r \in Runs}
    BY <1>1 DEF Runs
<1> QED
    BY <1>2, <1>3 DEF SlotsAreHeld

LEMMA JobGoesOn ==
    ASSUME Inv, TypeOK', NEW j \in jobs, NEW k \in Job, jobs' = (jobs \ {j}) \cup {k},
           k.chat = j.chat, k.watch = j.watch, k.row = j.row, IsRun(k) <=> IsRun(j),
           k.pc \in Ready => j.pc \in Ready,
           k.pc \in Afforded => j.pc \in Afforded \/ j.row.count < j.row.max,
           k.pc \in Charging => j.pc \in Charging,
           k.pc = "counting" => j.pc = "counting",
           j.pc = "counting" /\ k.pc # "counting" => raced', raced => raced',
           UNCHANGED <<db, active, edit, sent, stopVars>>
    PROVE  Inv'
<1>0. TypeOK
    BY DEF Inv, SlotsAreHeld
<1>1. SlotsAreHeld'
    BY SlotsStay DEF Inv
<1>2. InHandFits'
    <2>1. JobFits(k)'
        BY DEF Inv, InHandFits, JobFits, RowFits
    <2>2. \A i \in jobs : JobFits(i)'
        BY DEF Inv, InHandFits, JobFits, RowFits
    <2>3. \A s \in edit : RowFits(s.watch, s.row)'
        BY DEF Inv, InHandFits, RowFits
    <2> QED
        BY <2>1, <2>2, <2>3 DEF InHandFits
<1>3. AllFresh' /\ CountIsEarned' /\ BudgetIsKept'
    BY DEF Inv, AllFresh, CountIsEarned, BudgetIsKept, stopVars
<1>4. Alone'
    <2>1. Runs' = IF IsRun(j) THEN (Runs \ {j}) \cup {k} ELSE Runs
        BY DEF Runs, IsRun
    <2> QED
        BY <2>1 DEF Inv, Alone, Runs
<1>5. AllCharged'
    <2>1. ASSUME ~raced', NEW w \in Watches, Counting(w) PROVE Counting(w)'
        BY <2>1 DEF Counting
    <2> QED
        BY <2>1 DEF Inv, AllCharged, Live
<1>6. StoppedIsStopped'
    <2>1. \A w : Held(w)' => Held(w)
        BY DEF Held
    <2> QED
        BY <2>1 DEF Inv, StoppedIsStopped, Live, stopVars
<1> QED
    BY <1>1, <1>2, <1>3, <1>4, <1>5, <1>6 DEF Inv

\* A job that is no run ends.
LEMMA JobEnds ==
    ASSUME Inv, TypeOK', NEW j \in jobs, ~IsRun(j), jobs' = jobs \ {j},
           UNCHANGED <<db, active, edit, sent, stopVars, raced>>
    PROVE  Inv'
<1>1. Runs' = Runs
    BY DEF Runs, IsRun
<1>2. SlotsAreHeld'
    BY <1>1 DEF Inv, SlotsAreHeld, OneRunPerChat
<1>3. InHandFits'
    BY DEF Inv, InHandFits, JobFits, RowFits
<1>4. AllFresh' /\ CountIsEarned' /\ BudgetIsKept' /\ Alone'
    BY <1>1 DEF Inv, AllFresh, CountIsEarned, BudgetIsKept, Alone, stopVars
<1>5. AllCharged'
    <2>1. j.pc # "counting"
        BY DEF IsRun
    <2>2. \A w : Counting(w)' <=> Counting(w)
        BY <2>1 DEF Counting
    <2> QED
        BY <2>2 DEF Inv, AllCharged, Live
<1>6. StoppedIsStopped'
    <2>1. \A w : Held(w)' => Held(w)
        BY DEF Held
    <2> QED
        BY <2>1 DEF Inv, StoppedIsStopped, Live, stopVars
<1> QED
    BY <1>2, <1>3, <1>4, <1>5, <1>6 DEF Inv

--------------------------------------------------------------------------------
(* The handler of a message.                                                 *)

LEMMA ArriveKeeps ==
    ASSUME Inv, NEW c \in Chats, Arrive(c)
    PROVE  Inv'
<1>0. TypeOK
    BY DEF Inv, SlotsAreHeld
<1>1. PICK w \in Watches :
          /\ Live(w)
          /\ jobs' = jobs \cup {[msg |-> seen + 1, chat |-> c, watch |-> w, row |-> db[w],
                                 pc |-> "matched", cancelled |-> FALSE]}
    BY DEF Arrive, ForChat, LiveFor
<1>2. /\ seen' = seen + 1 /\ seen < MaxMessages
      /\ UNCHANGED <<now, db, active, replies, edit, sent, stopVars, raced, trouble>>
    BY DEF Arrive
<1>3. PICK k \in Job : /\ jobs' = jobs \cup {k}
                       /\ k.watch = w /\ k.row = db[w] /\ k.pc = "matched"
    <2>1. seen + 1 \in Messages /\ db[w] \in Watch
        BY <1>0, <1>2, Numbers DEF TypeOK, Messages
    <2> DEFINE x == [msg |-> seen + 1, chat |-> c, watch |-> w, row |-> db[w],
                     pc |-> "matched", cancelled |-> FALSE]
    <2>2. x \in Job /\ x.watch = w /\ x.row = db[w] /\ x.pc = "matched"
        BY <2>1 DEF Job
    <2>3. jobs' = jobs \cup {x}
        BY <1>1
    <2> HIDE DEF x
    <2> QED
        BY <2>2, <2>3
<1>4. TypeOK'
    <2>1. seen' \in 0..MaxMessages
        BY <1>0, <1>2, Numbers DEF TypeOK
    <2> QED
        BY <1>0, <1>2, <1>3, <2>1 DEF TypeOK, stopVars
<1>5. Runs' = Runs
    BY <1>3 DEF Runs, IsRun
<1>6. SlotsAreHeld'
    BY <1>2, <1>4, <1>5 DEF Inv, SlotsAreHeld, OneRunPerChat
<1>7. InHandFits'
    <2>1. JobFits(k)'
        BY <1>0, <1>1, <1>2, <1>3 DEF Inv, CountIsEarned, JobFits, RowFits, Live,
                                      Ready, Afforded, Charging
    <2> QED
        BY <1>2, <1>3, <2>1 DEF Inv, InHandFits, JobFits, RowFits
<1>8. AllFresh' /\ CountIsEarned' /\ BudgetIsKept' /\ Alone'
    BY <1>2, <1>5 DEF Inv, AllFresh, CountIsEarned, BudgetIsKept, Alone, stopVars
<1>9. AllCharged'
    <2>1. \A v : Counting(v) => Counting(v)'
        BY <1>3 DEF Counting
    <2> QED
        BY <1>2, <2>1 DEF Inv, AllCharged, Live
<1>10. StoppedIsStopped'
    <2>1. \A v : Held(v)' => Held(v) \/ v = w
        BY <1>3 DEF Held
    <2> QED
        BY <1>1, <1>2, <2>1 DEF Inv, StoppedIsStopped, Live, stopVars
<1> QED
    BY <1>6, <1>7, <1>8, <1>9, <1>10 DEF Inv

\* The steps in which a job only goes on to another stage.
LEMMA StageKeeps ==
    ASSUME Inv, NEW j \in jobs,
           \/ Retire(j) \/ Accept(j) \/ Begin(j) \/ Written(j) \/ SaysNothing(j)
           \/ SendFails(j) \/ CountFails(j)
    PROVE  Inv'
<1>0. TypeOK /\ j \in Job /\ j.row \in Watch
    BY JobsAre DEF Inv, SlotsAreHeld
<1>1. PICK pc \in {"retiring", "resolving", "writing", "sending", "closing"} :
          /\ Moves(j, pc)
          /\ \/ j.pc = "matched" /\ pc = "retiring"
             \/ j.pc = "matched" /\ pc = "resolving" /\ ~Exhausted(j.row)
             \/ j.pc = "queued" /\ pc \in {"writing", "closing"}
             \/ j.pc = "writing" /\ pc \in {"sending", "closing"}
             \/ j.pc = "sending" /\ pc = "closing"
             \/ j.pc = "counting" /\ pc = "closing" /\ raced'
    BY DEF Retire, Accept, Begin, Written, SaysNothing, SendFails, CountFails
<1>2. /\ UNCHANGED <<now, db, seen, active, replies, edit, sent, stopVars>>
      /\ raced' \in BOOLEAN /\ (raced => raced')
      /\ trouble' \in Nat
    <2>1. UNCHANGED <<now, db, seen, active, replies, edit, sent, stopVars>>
        BY DEF Retire, Accept, Begin, Written, SaysNothing, SendFails, CountFails
    <2>2. (raced' = raced \/ raced' = TRUE) /\ raced \in BOOLEAN
        BY <1>0 DEF Retire, Accept, Begin, Written, SaysNothing, SendFails, CountFails, TypeOK
    <2>3. (trouble' = trouble \/ trouble' = trouble + 1) /\ trouble \in Nat
        BY <1>0 DEF Retire, Accept, Begin, Written, SaysNothing, SendFails, CountFails, TypeOK
    <2>4. raced' \in BOOLEAN
        BY <2>2
    <2>5. raced => raced'
        BY <2>2
    <2>6. trouble' \in Nat
        BY <2>3
    <2> QED
        BY <2>1, <2>4, <2>5, <2>6
<1> DEFINE k == [j EXCEPT !.pc = pc]
<1>3. /\ k \in Job /\ k.pc = pc /\ k.chat = j.chat /\ k.watch = j.watch /\ k.row = j.row
    <2>1. pc \in {"matched", "retiring", "resolving", "queued", "writing", "sending",
                  "counting", "closing"}
        OBVIOUS
    <2> QED
        BY <1>0, <2>1, MovedIsJob
<1>4. jobs' = (jobs \ {j}) \cup {k}
    BY <1>1 DEF Moves, Becomes
<1> HIDE DEF k
<1>5. TypeOK'
    BY <1>0, <1>2, <1>3, <1>4 DEF TypeOK, stopVars
<1>6. IsRun(k) <=> IsRun(j)
    BY <1>1, <1>3 DEF IsRun
<1>7. /\ k.pc \in Ready => j.pc \in Ready
      /\ k.pc \in Afforded => j.pc \in Afforded \/ ~Exhausted(j.row)
      /\ k.pc \in Charging => j.pc \in Charging
      /\ k.pc # "counting" /\ (j.pc = "counting" => raced')
    BY <1>1, <1>3 DEF Ready, Afforded, Charging
<1>8. ~Exhausted(j.row) => j.row.count < j.row.max
    <2>1. j.row.count \in Nat /\ j.row.max \in Nat
        BY <1>0 DEF Watch
    <2> QED
        BY <2>1 DEF Exhausted
<1> QED
    BY <1>2, <1>3, <1>4, <1>5, <1>6, <1>7, <1>8, JobGoesOn

LEMMA CancelKeeps ==
    ASSUME Inv, NEW c \in Chats, Cancel(c)
    PROVE  Inv'
<1>0. TypeOK
    BY DEF Inv, SlotsAreHeld
<1>1. PICK j \in jobs : jobs' = (jobs \ {j}) \cup {[j EXCEPT !.cancelled = TRUE]}
    BY DEF Cancel, Becomes, Runs
<1>2. /\ UNCHANGED <<now, db, seen, active, replies, edit, sent, stopVars, raced>>
      /\ trouble' \in Nat
    BY <1>0 DEF Cancel, TypeOK
<1> DEFINE k == [j EXCEPT !.cancelled = TRUE]
<1>3. /\ k \in Job /\ k.pc = j.pc /\ k.chat = j.chat /\ k.watch = j.watch /\ k.row = j.row
    <2>1. j \in Job
        BY <1>0, JobsAre
    <2> QED
        BY <2>1 DEF Job
<1>4. jobs' = (jobs \ {j}) \cup {k}
    BY <1>1
<1> HIDE DEF k
<1>5. TypeOK'
    BY <1>0, <1>2, <1>3, <1>4 DEF TypeOK, stopVars
<1> QED
    BY <1>2, <1>3, <1>4, <1>5, JobGoesOn DEF IsRun

LEMMA LeaveKeeps ==
    ASSUME Inv, NEW j \in jobs, Defer(j) \/ Busy(j)
    PROVE  Inv'
<1>1. /\ ~IsRun(j) /\ jobs' = jobs \ {j}
      /\ UNCHANGED <<now, db, seen, active, replies, edit, sent, stopVars, raced, trouble>>
    BY DEF Defer, Busy, Ends, IsRun
<1>2. TypeOK'
    BY <1>1 DEF Inv, SlotsAreHeld, TypeOK, stopVars
<1> QED
    BY <1>1, <1>2, JobEnds

LEMMA LaunchKeeps ==
    ASSUME Inv, NEW j \in jobs, Launch(j)
    PROVE  Inv'
<1>0. TypeOK /\ j \in Job /\ j.watch \in Watches /\ j.chat \in Chats
    BY JobsAre DEF Inv, SlotsAreHeld
<1>1. /\ j.pc = "resolving" /\ j.chat \notin active /\ active' = active \cup {j.chat}
      /\ raced' = (raced \/ OutOfDate(j))
      /\ UNCHANGED <<now, db, seen, replies, edit, sent, stopVars, trouble>>
    BY DEF Launch
<1> DEFINE k == [j EXCEPT !.pc = "queued"]
<1>2. /\ k \in Job /\ k.pc = "queued" /\ k.chat = j.chat /\ k.watch = j.watch /\ k.row = j.row
    BY <1>0, MovedIsJob
<1>3. jobs' = (jobs \ {j}) \cup {k}
    BY DEF Launch, Moves, Becomes
<1> HIDE DEF k
<1>4. TypeOK'
    <2>1. raced' \in BOOLEAN
        BY <1>1
    <2> QED
        BY <1>0, <1>1, <1>2, <1>3, <2>1 DEF TypeOK, stopVars
<1>5. Runs' = Runs \cup {k}
    BY <1>1, <1>2, <1>3 DEF Runs, IsRun
<1>6. SlotsAreHeld'
    BY <1>1, <1>2, <1>4, <1>5 DEF Inv, SlotsAreHeld, OneRunPerChat
<1>7. ~raced' => /\ ~raced /\ Runs = {}
                 /\ db[j.watch] = j.row /\ sent[j.watch] = j.row.count
    <2>1. ASSUME ~raced' PROVE ~raced /\ Runs = {} /\ db[j.watch] = j.row
        BY <1>1, <2>1 DEF OutOfDate
    <2>2. ASSUME ~raced' PROVE sent[j.watch] = j.row.count
        <3>1. Live(j.watch)
            BY <1>1, <2>1, <2>2 DEF Inv, InHandFits, JobFits, RowFits, Ready, Live
        <3>2. ~Counting(j.watch)
            BY <2>1, <2>2 DEF Counting, Runs, IsRun
        <3> QED
            BY <1>0, <2>1, <2>2, <3>1, <3>2 DEF Inv, AllCharged
    <2> QED
        BY <2>1, <2>2
<1>8. InHandFits'
    <2>1. JobFits(k)'
        BY <1>1, <1>2, <1>7 DEF Inv, InHandFits, JobFits, RowFits, Ready, Afforded, Charging
    <2>2. \A i \in jobs : JobFits(i)'
        BY <1>1, <1>7 DEF Inv, InHandFits, JobFits, RowFits
    <2>3. \A s \in edit : RowFits(s.watch, s.row)'
        BY <1>1 DEF Inv, InHandFits, RowFits
    <2> QED
        BY <1>1, <1>3, <2>1, <2>2, <2>3 DEF InHandFits
<1>9. AllFresh' /\ CountIsEarned' /\ BudgetIsKept'
    BY <1>1, <1>7 DEF Inv, AllFresh, CountIsEarned, BudgetIsKept, stopVars
<1>10. Alone'
    BY <1>5, <1>7 DEF Alone
<1>11. AllCharged'
    <2>1. \A v : Counting(v) => Counting(v)'
        BY <1>1, <1>3 DEF Counting
    <2> QED
        BY <1>1, <1>7, <2>1 DEF Inv, AllCharged, Live
<1>12. StoppedIsStopped'
    <2>1. \A v : Held(v)' => Held(v)
        BY <1>2, <1>3 DEF Held
    <2> QED
        BY <1>1, <2>1 DEF Inv, StoppedIsStopped, Live, stopVars
<1> QED
    BY <1>6, <1>8, <1>9, <1>10, <1>11, <1>12 DEF Inv

--------------------------------------------------------------------------------
(* The run, its reply and its slot.                                          *)

LEMMA SentKeeps ==
    ASSUME Inv, NEW j \in jobs, Sent(j)
    PROVE  Inv'
<1>0. TypeOK /\ j \in Job /\ j.watch \in Watches /\ j.row \in Watch /\ JobFits(j)
    BY JobsAre DEF Inv, SlotsAreHeld, InHandFits
<1>15. PICK w \in Watches : w = j.watch
    BY <1>0
<1>1. /\ j.pc = "sending"
      /\ jobs' = (jobs \ {j}) \cup {[j EXCEPT !.pc = "counting", !.row = Counted(j.row)]}
      /\ replies' = replies \cup {[at |-> now, msg |-> j.msg]}
      /\ sent' = [sent EXCEPT ![w] = @ + 1]
      /\ UNCHANGED <<now, db, seen, active, edit, stopVars, raced, trouble>>
    BY <1>15 DEF Sent, Becomes
<1>2. /\ Counted(j.row) \in Watch /\ Counted(j.row).life = j.row.life
      /\ Counted(j.row).max = j.row.max /\ Counted(j.row).count = j.row.count + 1
      /\ j.row.count \in Nat /\ j.row.max \in Nat /\ j.row.count < j.row.max
    <2>1. j.row.count < j.row.max /\ now \in Nat
        BY <1>0, <1>1, Numbers DEF JobFits, Afforded, TypeOK
    <2>2. j.row.count \in Nat /\ j.row.max \in Nat
        BY <1>0 DEF Watch
    <2> QED
        BY <1>0, <2>1, <2>2, CountedIsWatch
<1>3. PICK k \in Job : /\ jobs' = (jobs \ {j}) \cup {k}
                       /\ k.pc = "counting" /\ k.chat = j.chat /\ k.watch = w
                       /\ k.row = Counted(j.row)
    <2> DEFINE x == [j EXCEPT !.pc = "counting", !.row = Counted(j.row)]
    <2>1. /\ x \in Job /\ x.pc = "counting" /\ x.chat = j.chat /\ x.watch = w
          /\ x.row = Counted(j.row)
        BY <1>0, <1>2, <1>15 DEF Job
    <2>2. jobs' = (jobs \ {j}) \cup {x}
        BY <1>1
    <2> HIDE DEF x
    <2> QED
        BY <2>1, <2>2
<1>4. /\ sent' \in [Watches -> Nat] /\ sent'[w] = sent[w] + 1 /\ sent[w] \in Nat
      /\ \A v \in Watches \ {w} : sent'[v] = sent[v]
    BY <1>0, <1>1 DEF TypeOK
<1>14. \A v \in Watches : sent[v] \in Nat /\ sent'[v] \in Nat /\ sent[v] <= sent'[v]
    <2>1. ASSUME NEW v \in Watches PROVE sent[v] \in Nat /\ sent'[v] \in Nat /\ sent[v] <= sent'[v]
        <3>1. sent[v] \in Nat /\ sent'[v] \in Nat
            BY <1>0, <1>4 DEF TypeOK
        <3>2. v = w \/ sent'[v] = sent[v]
            BY <1>4
        <3> QED
            BY <1>4, <3>1, <3>2
    <2> QED
        BY <2>1
<1>5. TypeOK'
    <2>1. replies' \in SUBSET [at : 0..MaxTime, msg : Messages]
        BY <1>0, <1>1 DEF TypeOK, Job
    <2> QED
        BY <1>0, <1>1, <1>3, <1>4, <2>1 DEF TypeOK, stopVars
<1>6. SlotsAreHeld'
    BY <1>1, <1>3, <1>5, SlotsStay DEF Inv, IsRun
<1>7. InHandFits'
    <2>1. \A i \in jobs : RowFits(i.watch, i.row)'
        <3>1. ASSUME NEW i \in jobs PROVE RowFits(i.watch, i.row)'
            <4>1. i.watch \in Watches /\ i.row.count \in Nat
                BY <1>0, JobsAre DEF Watch
            <4>2. sent[i.watch] \in Nat /\ sent[i.watch] <= sent'[i.watch]
                BY <1>14, <4>1
            <4> QED
                BY <1>1, <4>1, <4>2 DEF Inv, InHandFits, JobFits, RowFits
        <3> QED
            BY <3>1
    <2>2. \A s \in edit : RowFits(s.watch, s.row)'
        <3>1. ASSUME NEW s \in edit PROVE RowFits(s.watch, s.row)'
            <4>1. s.watch \in Watches /\ s.row.count \in Nat
                BY <1>0, EditsAre DEF Watch
            <4>2. sent[s.watch] \in Nat /\ sent[s.watch] <= sent'[s.watch]
                BY <1>14, <4>1
            <4> QED
                BY <1>1, <4>1, <4>2 DEF Inv, InHandFits, RowFits
        <3> QED
            BY <3>1
    <2>3. JobFits(k)'
        <3>1. RowFits(w, j.row) /\ (~raced => sent[w] = j.row.count)
            BY <1>0, <1>1, <1>15 DEF JobFits, Charging
        <3>2. RowFits(w, k.row)'
            BY <1>1, <1>2, <1>3, <1>4, <3>1 DEF RowFits
        <3>3. ~raced => sent'[w] = k.row.count
            BY <1>2, <1>3, <1>4, <3>1
        <3>4. k.row.count <= k.row.max
            BY <1>2, <1>3
        <3> QED
            BY <1>1, <1>3, <3>2, <3>3, <3>4 DEF JobFits, Ready, Afforded
    <2>4. ASSUME NEW i \in jobs \ {j} PROVE JobFits(i)'
        <3>1. ~raced => i.pc \notin Charging
            BY <1>1, <2>4 DEF Inv, Alone, Runs, IsRun, Charging
        <3> QED
            BY <1>1, <2>1, <3>1 DEF Inv, InHandFits, JobFits
    <2> QED
        BY <1>1, <1>3, <2>2, <2>3, <2>4 DEF InHandFits
<1>8. AllFresh'
    <2>1. db[w].life \in {"stored", "gone"}
        BY <1>0, <1>15 DEF JobFits, RowFits
    <2> QED
        BY <1>1, <1>4, <2>1 DEF Inv, AllFresh, stopVars
<1>9. CountIsEarned'
    <2>1. \A v \in Watches : db[v].count \in Nat
        BY <1>0, RowsAre
    <2> QED
        BY <1>1, <1>14, <2>1 DEF Inv, CountIsEarned
<1>10. BudgetIsKept'
    <2>1. ~raced => sent[w] = j.row.count /\ j.row.max = db[w].max
        BY <1>0, <1>1, <1>15 DEF JobFits, RowFits, Charging
    <2> QED
        BY <1>1, <1>2, <1>4, <2>1 DEF Inv, BudgetIsKept
<1>11. Alone'
    <2>1. Runs' = (Runs \ {j}) \cup {k} /\ j \in Runs
        BY <1>1, <1>3 DEF Runs, IsRun
    <2> QED
        BY <1>1, <2>1 DEF Inv, Alone
<1>12. AllCharged'
    <2>1. Counting(w)' /\ \A v : Counting(v) => Counting(v)'
        BY <1>1, <1>3 DEF Counting
    <2> QED
        BY <1>1, <1>4, <2>1 DEF Inv, AllCharged, Live
<1>13. StoppedIsStopped'
    <2>1. \A v : Held(v)' => Held(v)
        BY <1>3, <1>15 DEF Held
    <2> QED
        BY <1>1, <2>1 DEF Inv, StoppedIsStopped, Live, stopVars
<1> QED
    BY <1>6, <1>7, <1>8, <1>9, <1>10, <1>11, <1>12, <1>13 DEF Inv

LEMMA CloseKeeps ==
    ASSUME Inv, NEW j \in jobs, Close(j)
    PROVE  Inv'
<1>1. /\ j.pc = "closing" /\ jobs' = jobs \ {j} /\ active' = active \ {j.chat}
      /\ UNCHANGED <<now, db, seen, replies, edit, sent, stopVars, raced, trouble>>
    BY DEF Close, Ends
<1>2. TypeOK'
    BY <1>1 DEF Inv, SlotsAreHeld, TypeOK, stopVars
<1>3. Runs' = Runs \ {j} /\ j \in Runs
    BY <1>1 DEF Runs, IsRun
<1>4. SlotsAreHeld'
    BY <1>1, <1>2, <1>3 DEF Inv, SlotsAreHeld, OneRunPerChat
<1>5. InHandFits'
    BY <1>1 DEF Inv, InHandFits, JobFits, RowFits
<1>6. AllFresh' /\ CountIsEarned' /\ BudgetIsKept' /\ Alone'
    BY <1>1, <1>3 DEF Inv, AllFresh, CountIsEarned, BudgetIsKept, Alone, stopVars
<1>7. AllCharged'
    <2>1. \A v : Counting(v)' <=> Counting(v)
        BY <1>1 DEF Counting
    <2> QED
        BY <1>1, <2>1 DEF Inv, AllCharged, Live
<1>8. StoppedIsStopped'
    <2>1. \A v : Held(v)' => Held(v)
        BY <1>1 DEF Held
    <2> QED
        BY <1>1, <2>1 DEF Inv, StoppedIsStopped, Live, stopVars
<1> QED
    BY <1>4, <1>5, <1>6, <1>7, <1>8 DEF Inv

--------------------------------------------------------------------------------
(* The table.                                                                *)

\* A copy of a row is written back: nothing but that row changes, and it is off unless
\* the copy is on.
LEMMA UpdateWrites ==
    ASSUME TypeOK, NEW w \in Watches, NEW row \in Watch, RowFits(w, row), Update(w, row)
    PROVE  /\ db' \in [Watches -> Watch] /\ \A v \in Watches \ {w} : db'[v] = db[v]
           /\ db'[w].max = db[w].max /\ db'[w].life = db[w].life
           /\ db'[w].count \in {db[w].count, row.count}
           /\ Live(w)' => db'[w] = row
<1>1. CASE db[w].life = "stored"
    <2>1. db' = [db EXCEPT ![w] = row]
        BY <1>1 DEF Update
    <2>2. db' \in [Watches -> Watch] /\ db'[w] = row /\ \A v \in Watches \ {w} : db'[v] = db[v]
        BY <2>1 DEF TypeOK
    <2> QED
        BY <1>1, <2>2 DEF RowFits
<1>2. CASE db[w].life # "stored"
    <2>1. db' = db
        BY <1>2 DEF Update
    <2> QED
        BY <1>2, <2>1 DEF TypeOK, Live
<1> QED
    BY <1>1, <1>2

\* A step that changes rows and leaves the jobs alone, or takes one away that is no run.
\* What was stored or deleted stays so, with its budget and its count; what becomes live
\* was new; and who is stopped is not held.
LEMMA TableChanges ==
    ASSUME Inv, TypeOK', jobs' \subseteq jobs, Runs' = Runs,
           UNCHANGED <<active, sent>>, raced => raced',
           \A s \in edit' : RowFits(s.watch, s.row),
           \A v \in Watches :
               /\ db[v].life \in {"stored", "gone"} =>
                     db'[v].life \in {"stored", "gone"} /\ db'[v].max = db[v].max
               /\ db'[v].count <= sent[v]
               /\ db'[v].life \in {"unborn", "allowed", "cleared"} => db'[v].count = 0
               /\ Live(v)' =>
                     /\ Live(v) \/ db[v].life \in {"unborn", "allowed", "cleared"}
                     /\ db'[v].count = db[v].count
               /\ v \in halted' => v \in halted \/ db[v].life \in {"stored", "gone"}
               /\ v \in halted' \ carried' => v \in halted \ carried \/ (~Live(v)' /\ ~Held(v)')
    PROVE  Inv'
<1>0. TypeOK
    BY DEF Inv, SlotsAreHeld
<1>1. \A v \in Watches : db'[v].life \in {"unborn", "allowed", "cleared", "stored", "gone"}
                         /\ db[v].life \in {"unborn", "allowed", "cleared", "stored", "gone"}
    BY <1>0 DEF TypeOK, Watch
<1>2. SlotsAreHeld'
    BY DEF Inv, SlotsAreHeld, OneRunPerChat
<1>3. \A v \in Watches : \A row : RowFits(v, row) => RowFits(v, row)'
    BY DEF RowFits
<1>4. InHandFits'
    <2>1. ASSUME NEW j \in jobs' PROVE JobFits(j)'
        <3>1. j.watch \in Watches /\ JobFits(j)
            BY <1>0, JobsAre DEF Inv, InHandFits
        <3> QED
            BY <1>3, <3>1 DEF JobFits
    <2>2. ASSUME NEW s \in edit' PROVE RowFits(s.watch, s.row)'
        <3>1. s.watch \in Watches
            <4>1. s \in [watch : Watches, row : Watch]
                BY DEF TypeOK
            <4> QED
                BY <4>1
        <3> QED
            BY <1>3, <3>1
    <2> QED
        BY <2>1, <2>2 DEF InHandFits
<1>5. AllFresh'
    BY <1>1 DEF Inv, AllFresh
<1>6. CountIsEarned'
    BY DEF CountIsEarned
<1>7. BudgetIsKept'
    <2>1. ASSUME NEW v \in Watches, ~raced PROVE sent[v] <= db'[v].max
        <3>1. db'[v].max \in Nat
            BY DEF TypeOK, Watch
        <3>2. CASE db[v].life \in {"stored", "gone"}
            BY <2>1, <3>2 DEF Inv, BudgetIsKept
        <3>3. CASE db[v].life \notin {"stored", "gone"}
            BY <1>1, <3>1, <3>3 DEF Inv, AllFresh
        <3> QED
            BY <3>2, <3>3
    <2> QED
        BY <2>1 DEF BudgetIsKept
<1>8. Alone'
    BY DEF Inv, Alone
<1>9. AllCharged'
    <2>1. \A v : Counting(v) => Counting(v)'
        BY DEF Counting, Runs, IsRun
    <2>2. ASSUME NEW v \in Watches, ~raced', Live(v)'
          PROVE  db'[v].count = sent[v] \/ Counting(v)'
        BY <2>1, <2>2 DEF Inv, AllCharged, AllFresh
    <2> QED
        BY <2>2 DEF AllCharged
<1>10. StoppedIsStopped'
    <2>1. \A v : Held(v)' => Held(v)
        BY DEF Held
    <2>2. ASSUME NEW v \in halted' \ carried' PROVE ~Live(v)' /\ ~Held(v)'
        <3>1. v \in Watches
            BY DEF TypeOK
        <3>2. CASE v \in halted \ carried
            BY <2>1, <3>1, <3>2 DEF Inv, StoppedIsStopped, AllFresh
        <3> QED
            BY <2>2, <3>1, <3>2
    <2> QED
        BY <2>2 DEF StoppedIsStopped
<1> QED
    BY <1>2, <1>4, <1>5, <1>6, <1>7, <1>8, <1>9, <1>10 DEF Inv

LEMMA RetireWriteKeeps ==
    ASSUME Inv, NEW j \in jobs, RetireWrite(j)
    PROVE  Inv'
<1>0. /\ TypeOK /\ j.watch \in Watches /\ j.row \in Watch
      /\ RowFits(j.watch, j.row)
    BY JobsAre DEF Inv, SlotsAreHeld, InHandFits, JobFits
<1>1. /\ j.pc = "retiring" /\ jobs' = jobs \ {j}
      /\ Update(j.watch, [j.row EXCEPT !.on = FALSE])
      /\ UNCHANGED <<now, seen, active, replies, edit, sent, stopVars, raced, trouble>>
    BY DEF RetireWrite, Ends
<1> DEFINE off == [j.row EXCEPT !.on = FALSE]
<1>2. off \in Watch /\ ~off.on /\ RowFits(j.watch, off) /\ off.count = j.row.count
    BY <1>0, OffIsWatch DEF RowFits
<1>3. Update(j.watch, off)
    BY <1>1
<1> HIDE DEF off
<1>4. /\ db' \in [Watches -> Watch] /\ \A v \in Watches \ {j.watch} : db'[v] = db[v]
      /\ db'[j.watch].max = db[j.watch].max /\ db'[j.watch].life = db[j.watch].life
      /\ db'[j.watch].count \in {db[j.watch].count, off.count}
      /\ Live(j.watch)' => db'[j.watch] = off
    BY <1>0, <1>2, <1>3, UpdateWrites
<1>5. TypeOK'
    BY <1>0, <1>1, <1>4 DEF TypeOK, stopVars
<1>6. Runs' = Runs
    BY <1>1 DEF Runs, IsRun
<1>7. ~Live(j.watch)'
    BY <1>2, <1>4 DEF Live
<1>8. \A v \in Watches \ {j.watch} : Live(v)' <=> Live(v)
    BY <1>4 DEF Live
<1>9. \A v \in Watches : db'[v].count <= sent[v]
    BY <1>0, <1>2, <1>4 DEF Inv, CountIsEarned, RowFits
<1>10. \A v \in Watches : /\ db'[v].life = db[v].life /\ db'[v].max = db[v].max
                          /\ db'[v].life \in {"unborn", "allowed", "cleared"} => db'[v].count = 0
    BY <1>0, <1>4 DEF Inv, AllFresh, RowFits
<1>11. \A s \in edit' : RowFits(s.watch, s.row)
    BY <1>1 DEF Inv, InHandFits
<1> QED
    BY <1>1, <1>4, <1>5, <1>6, <1>7, <1>8, <1>9, <1>10, <1>11, TableChanges DEF stopVars

LEMMA StopWriteKeeps ==
    ASSUME Inv, StopWrite
    PROVE  Inv'
<1>0. TypeOK
    BY DEF Inv, SlotsAreHeld
<1>1. PICK s \in edit :
          /\ Update(s.watch, [s.row EXCEPT !.on = FALSE])
          /\ halted' = halted \cup {s.watch}
          /\ carried' = carried \cup InHand({s.watch})
          /\ raced' = (raced \/ db[s.watch].count # s.row.count)
    BY DEF StopWrite
<1>2. /\ edit' = {}
      /\ UNCHANGED <<now, jobs, seen, active, replies, sent, trouble>>
    BY DEF StopWrite
<1>3. s.watch \in Watches /\ s.row \in Watch /\ RowFits(s.watch, s.row)
    BY <1>0, EditsAre DEF Inv, InHandFits
<1> DEFINE off == [s.row EXCEPT !.on = FALSE]
<1>4. off \in Watch /\ ~off.on /\ RowFits(s.watch, off)
    BY <1>3, OffIsWatch DEF RowFits
<1>5. Update(s.watch, off)
    BY <1>1
<1> HIDE DEF off
<1>6. /\ db' \in [Watches -> Watch] /\ \A v \in Watches \ {s.watch} : db'[v] = db[v]
      /\ db'[s.watch].max = db[s.watch].max /\ db'[s.watch].life = db[s.watch].life
      /\ db'[s.watch].count \in {db[s.watch].count, off.count}
      /\ Live(s.watch)' => db'[s.watch] = off
    BY <1>0, <1>3, <1>4, <1>5, UpdateWrites
<1>7. InHand({s.watch}) \subseteq {s.watch} /\ (Held(s.watch) => s.watch \in InHand({s.watch}))
    BY DEF InHand, Held
<1>8. raced' \in BOOLEAN /\ (raced => raced')
    BY <1>1
<1>9. TypeOK'
    BY <1>0, <1>1, <1>2, <1>3, <1>6, <1>7, <1>8 DEF TypeOK
<1>10. ~Live(s.watch)' /\ \A v \in Watches \ {s.watch} : Live(v)' <=> Live(v)
    BY <1>4, <1>6 DEF Live
<1>11. \A v \in Watches : db'[v].count <= sent[v]
    BY <1>0, <1>4, <1>6 DEF Inv, CountIsEarned, RowFits
<1>12. \A v \in Watches : /\ db'[v].life = db[v].life /\ db'[v].max = db[v].max
                          /\ db'[v].life \in {"unborn", "allowed", "cleared"} => db'[v].count = 0
    BY <1>3, <1>6 DEF Inv, AllFresh, RowFits
<1>13. \A v \in Watches :
          /\ v \in halted' => v \in halted \/ db[v].life \in {"stored", "gone"}
          /\ v \in halted' \ carried' => v \in halted \ carried \/ (~Live(v)' /\ ~Held(v)')
    BY <1>1, <1>2, <1>3, <1>7, <1>10 DEF RowFits, Held
<1>14. jobs' \subseteq jobs /\ Runs' = Runs
    BY <1>2 DEF Runs
<1> QED
    BY <1>2, <1>6, <1>8, <1>9, <1>10, <1>11, <1>12, <1>13, <1>14, TableChanges

LEMMA CountWriteKeeps ==
    ASSUME Inv, NEW j \in jobs, CountWrite(j)
    PROVE  Inv'
<1>0. /\ TypeOK /\ j \in Job /\ j.watch \in Watches /\ j.row \in Watch /\ j.chat \in Chats
      /\ JobFits(j)
    BY JobsAre DEF Inv, SlotsAreHeld, InHandFits
<1>1. /\ j.pc = "counting" /\ Update(j.watch, j.row)
      /\ UNCHANGED <<now, seen, active, replies, edit, sent, stopVars, raced, trouble>>
    BY DEF CountWrite
<1>2. PICK k \in Job : /\ jobs' = (jobs \ {j}) \cup {k}
                       /\ k.pc = "closing" /\ k.chat = j.chat /\ k.watch = j.watch
                       /\ k.row = j.row
    <2> DEFINE x == [j EXCEPT !.pc = "closing"]
    <2>1. /\ x \in Job /\ x.pc = "closing" /\ x.chat = j.chat /\ x.watch = j.watch
          /\ x.row = j.row
        BY <1>0, MovedIsJob
    <2>2. jobs' = (jobs \ {j}) \cup {x}
        BY DEF CountWrite, Moves, Becomes
    <2> HIDE DEF x
    <2> QED
        BY <2>1, <2>2
<1>3. /\ db' \in [Watches -> Watch] /\ \A v \in Watches \ {j.watch} : db'[v] = db[v]
      /\ db'[j.watch].max = db[j.watch].max /\ db'[j.watch].life = db[j.watch].life
      /\ db'[j.watch].count \in {db[j.watch].count, j.row.count}
      /\ Live(j.watch)' => db'[j.watch] = j.row
    BY <1>0, <1>1, UpdateWrites DEF JobFits
<1>4. TypeOK'
    BY <1>0, <1>1, <1>2, <1>3 DEF TypeOK, stopVars
<1>5. SlotsAreHeld'
    BY <1>1, <1>2, <1>4, SlotsStay DEF Inv, IsRun
<1>6. \A v \in Watches : \A row : RowFits(v, row) => RowFits(v, row)'
    BY <1>1, <1>3 DEF RowFits
<1>7. InHandFits'
    <2>1. JobFits(k)'
        BY <1>0, <1>2, <1>6 DEF JobFits, Ready, Afforded, Charging
    <2>2. ASSUME NEW i \in jobs PROVE JobFits(i)'
        <3>1. i.watch \in Watches /\ JobFits(i)
            BY <1>0, JobsAre DEF Inv, InHandFits
        <3> QED
            BY <1>1, <1>6, <3>1 DEF JobFits
    <2>3. ASSUME NEW s \in edit PROVE RowFits(s.watch, s.row)'
        <3>1. s.watch \in Watches /\ RowFits(s.watch, s.row)
            BY <1>0, EditsAre DEF Inv, InHandFits
        <3> QED
            BY <1>6, <3>1
    <2> QED
        BY <1>1, <1>2, <2>1, <2>2, <2>3 DEF InHandFits
<1>8. AllFresh' /\ CountIsEarned'
    BY <1>0, <1>1, <1>3 DEF Inv, AllFresh, CountIsEarned, JobFits, RowFits, stopVars
<1>9. BudgetIsKept'
    BY <1>1, <1>3 DEF Inv, BudgetIsKept
<1>10. Alone'
    <2>1. Runs' = (Runs \ {j}) \cup {k} /\ j \in Runs
        BY <1>1, <1>2 DEF Runs, IsRun
    <2> QED
        BY <1>1, <2>1 DEF Inv, Alone
<1>11. AllCharged'
    <2>1. ASSUME NEW v \in Watches, ~raced, Live(v)', v # j.watch
          PROVE  db'[v].count = sent[v] \/ Counting(v)'
        <3>1. Live(v) /\ db'[v] = db[v]
            BY <1>3, <2>1 DEF Live
        <3>2. Counting(v) => Counting(v)'
            BY <1>2, <2>1 DEF Counting
        <3> QED
            BY <2>1, <3>1, <3>2 DEF Inv, AllCharged
    <2>2. ~raced /\ Live(j.watch)' => db'[j.watch].count = sent[j.watch]
        BY <1>0, <1>1, <1>3 DEF JobFits, Charging
    <2> QED
        BY <1>1, <2>1, <2>2 DEF AllCharged
<1>12. StoppedIsStopped'
    <2>1. \A v : Held(v)' => Held(v)
        BY <1>2 DEF Held
    <2>2. Held(j.watch)
        BY DEF Held
    <2>3. \A v \in Watches \ {j.watch} : Live(v)' <=> Live(v)
        BY <1>3 DEF Live
    <2>4. halted' = halted /\ carried' = carried /\ halted \subseteq Watches
        BY <1>0, <1>1 DEF stopVars, TypeOK
    <2> QED
        BY <2>1, <2>2, <2>3, <2>4 DEF Inv, StoppedIsStopped
<1> QED
    BY <1>5, <1>7, <1>8, <1>9, <1>10, <1>11, <1>12 DEF Inv

--------------------------------------------------------------------------------
(* The operator, the clock and a crash.                                      *)

LEMMA BudgetsAreSmall == Budgets \subseteq 0..MaxReplies
<1>1. ASSUME NEW asked \in 0..(MaxReplies + 1)
      PROVE  Max({1, Min({asked, MaxReplies})}) \in 0..MaxReplies
    <2>1. Min({asked, MaxReplies}) \in 0..MaxReplies
        <3>1. \E x \in {asked, MaxReplies} : \A y \in {asked, MaxReplies} : x <= y
            BY Numbers
        <3>2. Min({asked, MaxReplies}) \in {asked, MaxReplies}
              /\ \A y \in {asked, MaxReplies} : Min({asked, MaxReplies}) <= y
            BY <3>1 DEF Min
        <3> QED
            BY <3>2, Numbers
    <2> DEFINE least == Min({asked, MaxReplies})
    <2> HIDE DEF least
    <2>2. \E x \in {1, least} : \A y \in {1, least} : x >= y
        BY <2>1, Numbers DEF least
    <2>3. Max({1, least}) \in {1, least}
        BY <2>2 DEF Max
    <2> QED
        BY <2>1, <2>3, Numbers DEF least
<1> QED
    BY <1>1 DEF Budgets

LEMMA LifeIsNumber ==
    ASSUME now \in 0..MaxTime, NEW minutes \in Durations
    PROVE  TtlFor(minutes) \in Nat
<1> DEFINE requested == IF minutes <= 0 THEN DefaultLife ELSE minutes
<1>1. requested \in Nat
    BY Numbers DEF Durations
<1> HIDE DEF requested
<1>2. Min({requested, Life}) \in Nat
    <2>1. \E x \in {requested, Life} : \A y \in {requested, Life} : x <= y
        BY <1>1, Numbers
    <2>2. Min({requested, Life}) \in {requested, Life}
        BY <2>1 DEF Min
    <2> QED
        BY <1>1, <2>2, Numbers
<1> DEFINE until == now + Min({requested, Life})
<1>3. until \in Nat
    BY <1>2, Numbers
<1> HIDE DEF until
<1>4. Min({until, MaxTime + 1}) \in Nat
    <2>1. \E x \in {until, MaxTime + 1} : \A y \in {until, MaxTime + 1} : x <= y
        BY <1>3, Numbers
    <2>2. Min({until, MaxTime + 1}) \in {until, MaxTime + 1}
        BY <2>1 DEF Min
    <2> QED
        BY <1>3, <2>2, Numbers
<1> QED
    BY <1>4 DEF TtlFor, until, requested

LEMMA AllowedKeeps ==
    ASSUME Inv, NEW w \in Watches, NEW c \in Chats \cup {AnyPrivateChat}, NEW expires \in Nat,
           NEW max \in 0..MaxReplies, Allowed(w, c, expires, max)
    PROVE  Inv'
<1>0. TypeOK /\ db[w] \in Watch
    BY RowsAre DEF Inv, SlotsAreHeld
<1> DEFINE new == [db[w] EXCEPT !.life = "allowed", !.chat = c, !.expires = expires,
                                !.max = max]
<1>1. /\ db[w].life = "unborn" /\ db' = [db EXCEPT ![w] = new]
      /\ UNCHANGED <<now, jobs, seen, active, replies, edit, sent, stopVars, raced, trouble>>
    BY DEF Allowed
<1>2. new \in Watch /\ new.life = "allowed" /\ new.count = db[w].count
    BY <1>0 DEF Watch
<1> HIDE DEF new
<1>3. /\ db' \in [Watches -> Watch] /\ db'[w] = new
      /\ \A v \in Watches \ {w} : db'[v] = db[v]
    BY <1>0, <1>1, <1>2 DEF TypeOK
<1>4. TypeOK'
    BY <1>0, <1>1, <1>3 DEF TypeOK, stopVars
<1>5. Runs' = Runs
    BY <1>1 DEF Runs
<1>6. \A s \in edit' : RowFits(s.watch, s.row)
    BY <1>1 DEF Inv, InHandFits
<1>7. ~Live(w)' /\ \A v \in Watches \ {w} : Live(v)' <=> Live(v)
    BY <1>2, <1>3 DEF Live
<1>8. \A v \in Watches :
         /\ db[v].life \in {"stored", "gone"} =>
               db'[v].life \in {"stored", "gone"} /\ db'[v].max = db[v].max
         /\ db'[v].count <= sent[v]
         /\ db'[v].life \in {"unborn", "allowed", "cleared"} => db'[v].count = 0
         /\ db'[v].count = db[v].count
    BY <1>1, <1>2, <1>3 DEF Inv, AllFresh, CountIsEarned
<1> QED
    BY <1>1, <1>4, <1>5, <1>6, <1>7, <1>8, TableChanges DEF stopVars

LEMMA CreateKeeps ==
    ASSUME Inv, NEW w \in Watches, CreateDelete(w) \/ CreateInsert(w)
    PROVE  Inv'
<1>0. TypeOK
    BY DEF Inv, SlotsAreHeld
<1>1. /\ db[w].life \in {"allowed", "cleared"}
      /\ UNCHANGED <<now, jobs, seen, active, replies, edit, sent, stopVars, raced, trouble>>
    BY DEF CreateDelete, CreateInsert
<1>2. /\ db' \in [Watches -> Watch]
      /\ \A v \in Watches :
            /\ db'[v].max = db[v].max /\ db'[v].count = db[v].count
            /\ db[v].life \in {"stored", "gone"} => db'[v].life \in {"stored", "gone"}
            /\ Live(v)' => Live(v) \/ v = w
    <2>1. CASE CreateDelete(w)
        <3>1. /\ db[w].life = "allowed"
              /\ db' = [v \in Watches |->
                          CASE v = w -> [db[v] EXCEPT !.life = "cleared"]
                            [] db[v].life = "stored" /\ db[v].chat = db[w].chat -> Gone(db[v])
                            [] OTHER -> db[v]]
            BY <2>1 DEF CreateDelete
        <3>2. ASSUME NEW v \in Watches
              PROVE  /\ db'[v] \in Watch
                     /\ db'[v].max = db[v].max /\ db'[v].count = db[v].count
                     /\ db[v].life \in {"stored", "gone"} => db'[v].life \in {"stored", "gone"}
                     /\ db'[v].life = "stored" /\ db'[v].on =>
                          (db[v].life = "stored" /\ db[v].on) \/ v = w
            <4>1. db[v] \in Watch
                BY <1>0, RowsAre
            <4>2. CASE v = w
                BY <3>1, <4>1, <4>2 DEF Watch
            <4>3. CASE v # w /\ db[v].life = "stored" /\ db[v].chat = db[w].chat
                BY <3>1, <4>1, <4>3, GoneIsWatch
            <4>4. CASE v # w /\ ~(db[v].life = "stored" /\ db[v].chat = db[w].chat)
                BY <3>1, <4>1, <4>4
            <4> QED
                BY <4>2, <4>3, <4>4
        <3> QED
            BY <3>1, <3>2 DEF Live
    <2>2. CASE CreateInsert(w)
        <3> DEFINE new == [db[w] EXCEPT !.life = "stored", !.on = TRUE]
        <3>1. db[w].life = "cleared"
              /\ (db' = [db EXCEPT ![w] = Gone(db[w])] \/ db' = [db EXCEPT ![w] = new])
            BY <2>2 DEF CreateInsert
        <3>2. db[w] \in Watch
            BY <1>0, RowsAre
        <3>3. new \in Watch /\ new.max = db[w].max /\ new.count = db[w].count
            BY <3>2 DEF Watch
        <3> HIDE DEF new
        <3>4. PICK x \in {Gone(db[w]), new} : db' = [db EXCEPT ![w] = x]
            BY <3>1
        <3>5. x \in Watch /\ x.max = db[w].max /\ x.count = db[w].count
            BY <3>2, <3>3, <3>4, GoneIsWatch
        <3>6. /\ db' \in [Watches -> Watch] /\ db'[w] = x
              /\ \A v \in Watches \ {w} : db'[v] = db[v]
            BY <1>0, <3>4, <3>5 DEF TypeOK
        <3> QED
            BY <3>1, <3>5, <3>6 DEF Live
    <2> QED
        BY <2>1, <2>2
<1>3. TypeOK'
    BY <1>0, <1>1, <1>2 DEF TypeOK, stopVars
<1>4. Runs' = Runs
    BY <1>1 DEF Runs
<1>5. \A s \in edit' : RowFits(s.watch, s.row)
    BY <1>1 DEF Inv, InHandFits
<1>6. \A v \in Watches :
         /\ db'[v].count <= sent[v]
         /\ db'[v].life \in {"unborn", "allowed", "cleared"} => db'[v].count = 0
    <2>1. \A v \in Watches : db[v].life \in {"unborn", "allowed", "cleared", "stored", "gone"}
        BY <1>0 DEF TypeOK, Watch
    <2> QED
        BY <1>2, <2>1 DEF Inv, AllFresh, CountIsEarned
<1> QED
    BY <1>1, <1>2, <1>3, <1>4, <1>5, <1>6, TableChanges DEF stopVars

LEMMA UnwatchKeeps ==
    ASSUME Inv, Unwatch
    PROVE  Inv'
<1>0. TypeOK
    BY DEF Inv, SlotsAreHeld
<1>1. PICK live \in SUBSET Watches :
          /\ live = {w \in Watches : Live(w)}
          /\ db' = [w \in Watches |-> [db[w] EXCEPT !.on = db[w].on /\ w \notin live]]
          /\ halted' = halted \cup live /\ carried' = carried \cup InHand(live)
    BY DEF Unwatch
<1>2. /\ UNCHANGED <<now, jobs, seen, active, replies, edit, sent, raced>>
      /\ trouble' \in Nat
    BY <1>0 DEF Unwatch, TypeOK
<1>3. ASSUME NEW v \in Watches
      PROVE  /\ db'[v] \in Watch /\ db'[v].life = db[v].life /\ db'[v].max = db[v].max
             /\ db'[v].count = db[v].count /\ (db'[v].on => v \notin live)
    <2> DEFINE on == db[v].on /\ v \notin live
    <2>1. db[v] \in Watch /\ on \in BOOLEAN
        BY <1>0, RowsAre
    <2>2. db'[v] = [db[v] EXCEPT !.on = on]
        BY <1>1
    <2>3. on => v \notin live
        OBVIOUS
    <2> HIDE DEF on
    <2>4. /\ db'[v] \in Watch /\ db'[v].life = db[v].life /\ db'[v].max = db[v].max
          /\ db'[v].count = db[v].count /\ db'[v].on = on
        BY <2>1, <2>2 DEF Watch
    <2> QED
        BY <2>3, <2>4
<1>4. db' \in [Watches -> Watch]
    BY <1>1, <1>3
<1>5. InHand(live) \subseteq live /\ \A v \in live : Held(v) => v \in InHand(live)
    BY DEF InHand, Held
<1>6. TypeOK'
    BY <1>0, <1>1, <1>2, <1>4, <1>5 DEF TypeOK
<1>7. \A v \in Watches : ~Live(v)'
    <2>1. ASSUME NEW v \in Watches, Live(v)' PROVE FALSE
        <3>1. v \notin live /\ db[v].life = "stored"
            BY <1>3, <2>1 DEF Live
        <3>2. ~db[v].on
            BY <1>1, <3>1 DEF Live
        <3>3. db'[v] = [db[v] EXCEPT !.on = db[v].on /\ v \notin live] /\ db[v] \in Watch
            BY <1>0, <1>1, RowsAre
        <3>4. ~db'[v].on
            BY <3>2, <3>3 DEF Watch
        <3> QED
            BY <2>1, <3>4 DEF Live
    <2> QED
        BY <2>1
<1>8. \A v \in Watches :
         /\ v \in halted' => v \in halted \/ db[v].life \in {"stored", "gone"}
         /\ v \in halted' \ carried' => v \in halted \ carried \/ (~Live(v)' /\ ~Held(v)')
    BY <1>1, <1>2, <1>5, <1>7 DEF Live, Held
<1>9. jobs' \subseteq jobs /\ Runs' = Runs /\ \A s \in edit' : RowFits(s.watch, s.row)
    BY <1>2 DEF Runs, Inv, InHandFits
<1>10. \A v \in Watches :
         /\ db'[v].count <= sent[v]
         /\ db'[v].life \in {"unborn", "allowed", "cleared"} => db'[v].count = 0
    BY <1>3 DEF Inv, AllFresh, CountIsEarned
<1> QED
    BY <1>2, <1>3, <1>6, <1>7, <1>8, <1>9, <1>10, TableChanges

\* The row that a command is about to switch off.
LEMMA StopReadKeeps ==
    ASSUME Inv, NEW c, StopRead(c)
    PROVE  Inv'
<1>0. TypeOK
    BY DEF Inv, SlotsAreHeld
<1>1. PICK w \in Watches : Live(w) /\ edit' = {[watch |-> w, row |-> db[w]]}
    BY DEF StopRead, ForChat, LiveFor
<1>2. /\ UNCHANGED <<now, db, jobs, seen, active, replies, sent, stopVars, raced>>
      /\ trouble' \in Nat
    BY <1>0 DEF StopRead, TypeOK
<1>3. RowFits(w, db[w])
    BY <1>1 DEF Inv, CountIsEarned, RowFits, Live
<1>4. TypeOK'
    <2>1. edit' \in SUBSET [watch : Watches, row : Watch]
        BY <1>0, <1>1, RowsAre
    <2> QED
        BY <1>0, <1>2, <2>1 DEF TypeOK, stopVars
<1>5. \A v \in Watches : (Live(v)' <=> Live(v)) /\ (Held(v)' <=> Held(v))
    BY <1>2 DEF Live, Held
<1>6. Runs' = Runs /\ jobs' \subseteq jobs
    BY <1>2 DEF Runs
<1>7. \A s \in edit' : RowFits(s.watch, s.row)
    BY <1>1, <1>3
<1>8. \A v \in Watches :
         /\ db'[v].count <= sent[v] /\ db'[v] = db[v]
         /\ db'[v].life \in {"unborn", "allowed", "cleared"} => db'[v].count = 0
    BY <1>2 DEF Inv, AllFresh, CountIsEarned
<1> QED
    BY <1>2, <1>4, <1>5, <1>6, <1>7, <1>8, TableChanges DEF stopVars

LEMMA RestartKeeps ==
    ASSUME Inv, Restart
    PROVE  Inv'
<1>0. TypeOK
    BY DEF Inv, SlotsAreHeld
<1>1. /\ jobs' = {} /\ active' = {} /\ edit' = {}
      /\ replies' = {}
      /\ raced' = (raced \/ \E j \in jobs : j.pc = "counting")
      /\ UNCHANGED <<now, db, seen, sent, stopVars>>
    BY DEF Restart
<1>2. TypeOK'
    <2>1. raced' \in BOOLEAN
        BY <1>1
    <2>2. trouble' \in Nat
        BY <1>0 DEF Restart, TypeOK
    <2>3. replies' \in SUBSET [at : 0..MaxTime, msg : Messages]
        BY <1>1
    <2> QED
        BY <1>0, <1>1, <2>1, <2>2, <2>3 DEF TypeOK, stopVars
<1>3. Runs' = {}
    BY <1>1 DEF Runs
<1>4. SlotsAreHeld'
    BY <1>1, <1>2, <1>3 DEF SlotsAreHeld, OneRunPerChat
<1>5. InHandFits' /\ Alone'
    BY <1>1, <1>3 DEF InHandFits, Alone
<1>6. AllFresh' /\ CountIsEarned' /\ BudgetIsKept'
    BY <1>1 DEF Inv, AllFresh, CountIsEarned, BudgetIsKept, stopVars
<1>7. AllCharged'
    BY <1>1 DEF Inv, AllCharged, Live, Counting
<1>8. StoppedIsStopped'
    BY <1>1 DEF Inv, StoppedIsStopped, Live, Held, stopVars
<1> QED
    BY <1>4, <1>5, <1>6, <1>7, <1>8 DEF Inv

\* What says nothing of the time is not changed by it.
LEMMA ClockKeeps ==
    ASSUME Inv, UNCHANGED <<db, jobs, seen, active, replies, edit, sent, stopVars, raced, trouble>>,
           now' \in 0..MaxTime
    PROVE  Inv'
<1>1. TypeOK'
    BY DEF Inv, SlotsAreHeld, TypeOK, stopVars
<1>2. Runs' = Runs
    BY DEF Runs
<1>3. SlotsAreHeld'
    BY <1>1, <1>2 DEF Inv, SlotsAreHeld, OneRunPerChat
<1>4. InHandFits' /\ Alone'
    BY <1>2 DEF Inv, InHandFits, JobFits, RowFits, Alone
<1>5. AllFresh' /\ CountIsEarned' /\ BudgetIsKept'
    BY DEF Inv, AllFresh, CountIsEarned, BudgetIsKept, stopVars
<1>6. AllCharged' /\ StoppedIsStopped'
    BY DEF Inv, AllCharged, Live, Counting, StoppedIsStopped, Held, stopVars
<1> QED
    BY <1>3, <1>4, <1>5, <1>6 DEF Inv

--------------------------------------------------------------------------------
\* Inv is an invariant.
THEOREM InvHolds == Spec => []Inv
<1>1. Inv /\ [Next]_vars => Inv'
    <2> SUFFICES ASSUME Inv, Next \/ UNCHANGED vars PROVE Inv'
        OBVIOUS
    <2>0. TypeOK
        BY DEF Inv, SlotsAreHeld
    <2>1. ASSUME NEW j \in jobs, HandlerStep(j) PROVE Inv'
        BY <2>1, StageKeeps, RetireWriteKeeps, LeaveKeeps, LaunchKeeps DEF HandlerStep
    <2>2. ASSUME NEW j \in jobs, RunStep(j) \/ SendFails(j) \/ CountFails(j) PROVE Inv'
        BY <2>2, StageKeeps, SentKeeps, CountWriteKeeps, CloseKeeps DEF RunStep
    <2>3. ASSUME NEW w \in Watches, NEW c \in Chats, Request(w, c) PROVE Inv'
        <3>1. PICK minutes \in Durations, max \in Budgets : Allowed(w, c, TtlFor(minutes), max)
            BY <2>3 DEF Request
        <3>2. TtlFor(minutes) \in Nat /\ max \in 0..MaxReplies
            BY <2>0, LifeIsNumber, BudgetsAreSmall DEF TypeOK
        <3> QED
            BY <3>1, <3>2, AllowedKeeps
    <2>4. ASSUME NEW w \in Watches, FlightOn(w) PROVE Inv'
        <3>1. PICK minutes \in Durations :
                  Allowed(w, AnyPrivateChat, TtlFor(minutes), MaxReplies)
            BY <2>4 DEF FlightOn
        <3>2. TtlFor(minutes) \in Nat /\ MaxReplies \in 0..MaxReplies
            BY <2>0, LifeIsNumber, Numbers DEF TypeOK
        <3> QED
            BY <3>1, <3>2, AllowedKeeps
    <2>5. ASSUME NEW c, StopRead(c) PROVE Inv'
        BY <2>5, StopReadKeeps
    <2>6. ASSUME NEW w \in Watches, Flight(w) \/ CreateDelete(w) \/ CreateInsert(w) PROVE Inv'
        BY <2>4, <2>5, <2>6, CreateKeeps DEF Flight, FlightOff
    <2>7. CASE Clock \/ UNCHANGED vars
        <3>1. now' \in 0..MaxTime
            BY <2>0, <2>7, Numbers DEF Clock, vars, TypeOK
        <3>2. UNCHANGED <<db, jobs, seen, active, replies, edit, sent, stopVars, raced, trouble>>
            BY <2>7 DEF Clock, vars, stopVars
        <3> QED
            BY <3>1, <3>2, ClockKeeps
    <2> QED
        BY <2>1, <2>2, <2>3, <2>5, <2>6, <2>7, ArriveKeeps, CancelKeeps, UnwatchKeeps,
           StopWriteKeeps, RestartKeeps DEF Next
<1> QED
    BY Initially, <1>1, PTL DEF Spec

\* SlotsAreHeld, for every instance: the slot of a chat is taken exactly while one run of
\* that chat is there to give it back (_maybe_autoreply, the finally of _run_autoreply).
THEOREM SlotsAreAlwaysHeld == Spec => []SlotsAreHeld
<1>1. Inv => SlotsAreHeld
    BY DEF Inv
<1> QED
    BY <1>1, InvHolds, PTL

\* QuietStopHolds, for every instance: a watch that was stopped while no job had its row in
\* hand stays stopped (autoreply_stop, unwatch, record_reply, retire).
THEOREM StopsHold == Spec => []QuietStopHolds
<1>1. Inv => QuietStopHolds
    BY DEF Inv, StoppedIsStopped, QuietStopHolds
<1> QED
    BY <1>1, InvHolds, PTL

--------------------------------------------------------------------------------
(* The hourly ceiling, which is over all watches.                             *)

\* A run that has not sent its reply has room for it, unless runs have raced.
Unsent == {"queued", "writing", "sending"}
CeilingIsKept ==
    /\ IsFiniteSet(replies)
    /\ \/ raced
       \/ InWindow <= PerHour /\ ((\E j \in jobs : j.pc \in Unsent) => InWindow < PerHour)

Window == {reply \in replies : reply.at >= now - Hour}

LEMMA WindowIsCounted ==
    ASSUME IsFiniteSet(replies)
    PROVE  IsFiniteSet(Window) /\ InWindow = Cardinality(Window) /\ InWindow \in Nat
<1>1. IsFiniteSet(Window)
    BY FS_Subset DEF Window
<1> QED
    BY <1>1, FS_CardinalityType DEF Window, InWindow

\* The window only ever moves on.
LEMMA WindowShrinks ==
    ASSUME TypeOK, IsFiniteSet(replies), replies' \subseteq replies, now' \in Nat, now' >= now
    PROVE  IsFiniteSet(replies') /\ InWindow' <= InWindow
<1>1. IsFiniteSet(replies')
    BY FS_Subset
<1>2. \A reply \in replies : reply.at \in Nat
    BY Numbers DEF TypeOK
<1>3. now \in Nat /\ Hour \in Nat
    BY BoundsAssumption, Numbers DEF TypeOK, BoundsAssumption
<1>4. Window' \subseteq Window
    BY <1>2, <1>3 DEF Window
<1>5. IsFiniteSet(Window)
    BY FS_Subset DEF Window
<1>6. Cardinality(Window') <= Cardinality(Window)
    BY <1>4, <1>5, FS_Subset
<1> QED
    BY <1>1, <1>6 DEF Window, InWindow

\* A step after which no run needs room that it did not have.
LEMMA NobodyNeedsRoom ==
    ASSUME TypeOK, CeilingIsKept, replies' \subseteq replies, now' \in Nat, now' >= now,
           raced => raced',
           (\E j \in jobs' : j.pc \in Unsent) => (\E j \in jobs : j.pc \in Unsent)
    PROVE  CeilingIsKept'
<1>1. IsFiniteSet(replies') /\ InWindow' <= InWindow /\ InWindow \in Nat /\ InWindow' \in Nat
    <2>1. IsFiniteSet(replies')
        BY WindowShrinks DEF CeilingIsKept
    <2>2. InWindow' \in Nat
        BY <2>1, FS_Subset, FS_CardinalityType DEF InWindow
    <2> QED
        BY <2>1, <2>2, WindowShrinks, WindowIsCounted DEF CeilingIsKept
<1>2. PerHour \in Nat
    BY BoundsAssumption DEF BoundsAssumption
<1> QED
    BY <1>1, <1>2 DEF CeilingIsKept

\* A run starts when the ceiling is not reached, or the start is counted as a race.
LEMMA LaunchHasRoom ==
    ASSUME TypeOK, CeilingIsKept, NEW j \in jobs, Launch(j)
    PROVE  CeilingIsKept'
<1>1. /\ UNCHANGED <<replies, now>> /\ raced' = (raced \/ OutOfDate(j))
    BY DEF Launch
<1>2. InWindow' = InWindow /\ InWindow \in Nat /\ PerHour \in Nat
    BY <1>1, WindowIsCounted, BoundsAssumption DEF InWindow, CeilingIsKept, BoundsAssumption
<1>3. ~raced' => InWindow < PerHour
    <2>1. ~raced' => ~OutOfDate(j)
        BY <1>1, Zenon
    <2>2. ~CeilingReached => InWindow < PerHour
        BY <1>2 DEF CeilingReached
    <2> QED
        BY <2>1, <2>2, Zenon DEF OutOfDate
<1> QED
    BY <1>1, <1>2, <1>3 DEF CeilingIsKept

\* A reply takes the room of its run, which then is the only one.
LEMMA SentHasRoom ==
    ASSUME Inv, CeilingIsKept, NEW j \in jobs, Sent(j)
    PROVE  CeilingIsKept'
<1> DEFINE reply == [at |-> now, msg |-> j.msg]
           k == [j EXCEPT !.pc = "counting", !.row = Counted(j.row)]
<1>1. /\ j.pc = "sending" /\ jobs' = (jobs \ {j}) \cup {k}
      /\ replies' = replies \cup {reply} /\ now' = now /\ raced' = raced
    BY DEF Sent, Becomes
<1>2. IsFiniteSet(replies) /\ IsFiniteSet(replies')
    BY <1>1, FS_AddElement DEF CeilingIsKept
<1>3. Window' \subseteq Window \cup {reply}
    BY <1>1 DEF Window
<1>4. IsFiniteSet(Window) /\ InWindow = Cardinality(Window) /\ InWindow \in Nat
    BY <1>2, WindowIsCounted
<1>5. InWindow' = Cardinality(Window') /\ IsFiniteSet(Window')
    BY <1>2, FS_Subset DEF Window, InWindow
<1> HIDE DEF reply, k
<1>6. IsFiniteSet(Window \cup {reply}) /\ Cardinality(Window \cup {reply}) <= InWindow + 1
    <2>1. /\ IsFiniteSet(Window \cup {reply})
          /\ Cardinality(Window \cup {reply}) =
                IF reply \in Window THEN Cardinality(Window) ELSE Cardinality(Window) + 1
        BY <1>4, FS_AddElement
    <2> QED
        BY <1>4, <2>1
<1>7. InWindow' <= InWindow + 1 /\ InWindow' \in Nat
    <2>1. Cardinality(Window') <= Cardinality(Window \cup {reply})
        BY <1>3, <1>6, FS_Subset
    <2> QED
        BY <1>4, <1>5, <1>6, <2>1, FS_CardinalityType
<1>8. CASE ~raced
    <2>1. InWindow < PerHour /\ PerHour \in Nat
        BY <1>1, <1>8, BoundsAssumption DEF CeilingIsKept, Unsent, BoundsAssumption
    <2>2. \A i \in jobs : i.pc \in Unsent => i = j
        BY <1>1, <1>8 DEF Inv, Alone, Runs, IsRun, Unsent
    <2>3. j \in Job
        BY JobsAre DEF Inv, SlotsAreHeld
    <2>4. k.pc = "counting"
        BY <2>3 DEF Job, k
    <2>5. ~\E i \in jobs' : i.pc \in Unsent
        BY <1>1, <2>2, <2>4 DEF Unsent
    <2>6. InWindow' <= PerHour
        BY <1>4, <1>7, <2>1
    <2> QED
        BY <1>2, <2>5, <2>6 DEF CeilingIsKept
<1> QED
    BY <1>1, <1>2, <1>8 DEF CeilingIsKept

LEMMA CeilingStays == Inv /\ CeilingIsKept /\ [Next]_vars => CeilingIsKept'
<1> SUFFICES ASSUME Inv, CeilingIsKept, Next \/ UNCHANGED vars PROVE CeilingIsKept'
    OBVIOUS
<1>0. TypeOK /\ now \in Nat
    BY Numbers DEF Inv, SlotsAreHeld, TypeOK
<1>1. ASSUME NEW j \in jobs, HandlerStep(j), ~Launch(j) PROVE CeilingIsKept'
    <2>1. /\ UNCHANGED <<replies, now, raced>>
          /\ \/ \E pc \in {"retiring", "resolving"} : Moves(j, pc)
             \/ Ends(j)
        BY <1>1 DEF HandlerStep, Retire, RetireWrite, Defer, Accept, Busy
    <2>2. j \in Job
        BY <1>0, JobsAre
    <2>3. ASSUME NEW pc \in {"retiring", "resolving"}, Moves(j, pc), NEW i \in jobs', i.pc \in Unsent
          PROVE  i \in jobs
        <3>1. [j EXCEPT !.pc = pc].pc = pc
            BY <2>2 DEF Job
        <3> QED
            BY <2>3, <3>1 DEF Moves, Becomes, Unsent
    <2>4. ASSUME Ends(j), NEW i \in jobs' PROVE i \in jobs
        BY <2>4 DEF Ends
    <2> QED
        BY <1>0, <2>1, <2>3, <2>4, NobodyNeedsRoom
<1>2. ASSUME NEW j \in jobs, RunStep(j) \/ SendFails(j) \/ CountFails(j), ~Sent(j)
      PROVE  CeilingIsKept'
    <2>1. /\ UNCHANGED <<replies, now>> /\ (raced => raced')
          /\ \/ j.pc \in Unsent /\ \E pc \in {"writing", "sending", "closing"} : Moves(j, pc)
             \/ Moves(j, "closing")
             \/ Ends(j)
        BY <1>2 DEF RunStep, Begin, Written, SaysNothing, CountWrite, Close, SendFails, CountFails,
                    Unsent
    <2>2. j \in Job
        BY <1>0, JobsAre
    <2>3. ASSUME NEW pc \in {"closing"}, Moves(j, pc), NEW i \in jobs', i.pc \in Unsent
          PROVE  i \in jobs
        <3>1. [j EXCEPT !.pc = pc].pc = pc
            BY <2>2 DEF Job
        <3> QED
            BY <2>3, <3>1 DEF Moves, Becomes, Unsent
    <2>4. ASSUME Ends(j), NEW i \in jobs' PROVE i \in jobs
        BY <2>4 DEF Ends
    <2> QED
        BY <1>0, <2>1, <2>3, <2>4, NobodyNeedsRoom
<1>3. ASSUME NEW c \in Chats, Arrive(c) PROVE CeilingIsKept'
    <2>1. PICK w : jobs' = jobs \cup {[msg |-> seen + 1, chat |-> c, watch |-> w, row |-> db[w],
                                       pc |-> "matched", cancelled |-> FALSE]}
        BY <1>3 DEF Arrive
    <2>2. \A i \in jobs' : i.pc \in Unsent => i \in jobs
        BY <2>1 DEF Unsent
    <2> QED
        BY <1>0, <1>3, <2>2, NobodyNeedsRoom DEF Arrive
<1>4. ASSUME NEW c \in Chats, Cancel(c) PROVE CeilingIsKept'
    <2>1. PICK j \in jobs : jobs' = (jobs \ {j}) \cup {[j EXCEPT !.cancelled = TRUE]}
        BY <1>4 DEF Cancel, Becomes, Runs
    <2>2. [j EXCEPT !.cancelled = TRUE].pc = j.pc
        BY <1>0, JobsAre DEF Job
    <2>3. (\E i \in jobs' : i.pc \in Unsent) => \E i \in jobs : i.pc \in Unsent
        BY <2>1, <2>2
    <2> QED
        BY <1>0, <1>4, <2>3, NobodyNeedsRoom DEF Cancel
<1>5. ASSUME NEW w \in Watches,
             \/ \E c \in Chats : Request(w, c)
             \/ Flight(w) \/ CreateDelete(w) \/ CreateInsert(w)
      PROVE  CeilingIsKept'
    <2>1. UNCHANGED <<replies, now, raced, jobs>>
        BY <1>5 DEF Request, Flight, FlightOn, FlightOff, StopRead, Allowed, CreateDelete,
                    CreateInsert
    <2> QED
        BY <1>0, <2>1, NobodyNeedsRoom
<1>6. ASSUME NEW c \in Chats, StopRead(c) PROVE CeilingIsKept'
    BY <1>0, <1>6, NobodyNeedsRoom DEF StopRead
<1>7. CASE Unwatch \/ StopWrite
    <2>1. UNCHANGED <<replies, now, jobs>> /\ (raced => raced')
        <3>1. raced' = raced \/ \E s \in edit : raced' = (raced \/ db[s.watch].count # s.row.count)
            BY <1>7 DEF Unwatch, StopWrite
        <3>2. raced => raced'
            BY <3>1, Zenon
        <3> QED
            BY <1>7, <3>2 DEF Unwatch, StopWrite
    <2> QED
        BY <1>0, <2>1, NobodyNeedsRoom
<1>8. CASE Restart
    <2>1. jobs' = {} /\ replies' = {} /\ now' = now /\ (raced => raced')
        BY <1>8 DEF Restart
    <2> QED
        BY <1>0, <2>1, NobodyNeedsRoom
<1>9. CASE Clock \/ UNCHANGED vars
    <2>1. UNCHANGED <<replies, jobs, raced>> /\ now' \in {now, now + 1}
        BY <1>9 DEF Clock, vars
    <2> QED
        BY <1>0, <2>1, NobodyNeedsRoom
<1> QED
    BY <1>0, <1>1, <1>2, <1>3, <1>4, <1>5, <1>6, <1>7, <1>8, <1>9, LaunchHasRoom, SentHasRoom
    DEF Next

\* WithinLimits, for every instance: no count claims a reply that was not sent, and unless
\* runs have raced a watch sends at most its budget and all watches together at most the
\* hourly ceiling (refuse, record_reply, match).
THEOREM LimitsHold == Spec => []WithinLimits
<1>1. Init => CeilingIsKept
    <2>1. Init => replies = {} /\ jobs = {} /\ InWindow = 0
        <3>1. Init => replies = {} /\ jobs = {}
            BY DEF Init
        <3>2. replies = {} => InWindow = 0
            <4>1. replies = {} => Window = {} /\ InWindow = Cardinality(Window)
                BY DEF Window, InWindow
            <4> QED
                BY <4>1, FS_EmptySet
        <3> QED
            BY <3>1, <3>2
    <2> QED
        BY <2>1, FS_EmptySet, BoundsAssumption DEF CeilingIsKept, BoundsAssumption
<1>2. Inv /\ CeilingIsKept => WithinLimits
    BY DEF Inv, CeilingIsKept, WithinLimits
<1> QED
    BY <1>1, <1>2, InvHolds, CeilingStays, PTL DEF Spec
=================================================================================
