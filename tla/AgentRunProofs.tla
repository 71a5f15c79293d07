----------------------------- MODULE AgentRunProofs -----------------------------
(***************************************************************************)
(* That nothing unsanctioned is carried out, that the write gate is held by *)
(* the call that sleeps in it and spaces the writes, that the audit log is  *)
(* honest and that a run keeps to its budget where the counter can know it: *)
(* for any number of runs and calls, any limits, any policy.                *)
(***************************************************************************)
EXTENDS AgentRun, FiniteSetTheorems, TLAPS

\* The policy, the grants of its run, the person asked or the fallback let a call pass.
Permitted(q, x) ==
    /\ ~q.astray
    /\ \/ q.rule = "allow" \/ q.approved
       \/ q.method \in x.grants
       \/ q.rule = "confirm" /\ x.kind # "chat" /\ Fallback = "allow"

Passed == {"gating", "spacing", "preparing", "executing"}

\* What is known of call number i of a run, at every await it may be suspended in.
Proper(q, x, i) ==
    /\ x.pc = "idle" => q = NoCall
    /\ q.pc \in {"queued"} \cup Live => x.pc = "calling" /\ i > x.made
    /\ q.pc \in {"unasked", "queued"} =>
         ~q.landed /\ q.rule = "none" /\ q.outcome = "none" /\ q.audit = "none"
    /\ ~q.astray
    /\ q.landed \/ q.pc \in Passed => Permitted(q, x)
    /\ q.pc \in {"asking", "gating", "spacing", "preparing"} => ~q.landed
    /\ q.pc \in Live => q.audit = "none" /\ (q.pc = "recording" \/ q.outcome = "none")
    /\ q.pc = "recording" => q.outcome # "none"
    /\ q.outcome = "ok" => q.landed
    /\ q.outcome = "denied" => ~q.landed
    /\ q.pc = "recording" /\ q.outcome = "failed" => ~q.landed \/ q.unheard
    /\ q.audit \in {"ok", "denied"} => q.outcome = q.audit
    /\ q.audit = "failed" => ~q.landed \/ q.unheard
    /\ q.pc = "over" /\ q.rule # "none" => q.audit # "none"

AllProper == \A c \in Calls : Proper(call[c], run[c[1]], c[2])

\* A call sleeps in the gate for what is left of the gap.
Sleeps == \A c \in Calls : call[c].pc = "spacing" => call[c].due = MinGap - since

\* The calls of a run are asked for in their order, and a run that thinks has seen the
\* results of all that it asked for.
Asked(r, k) == \A c \in CallsOf(r) : call[c].pc # "unasked" <=> c[2] <= k
Numbered ==
    \A r \in Runs : /\ run[r].pc = "idle" => run[r].made = 0
                    /\ run[r].pc = "thinking" => Asked(r, run[r].made)
                    /\ \E k \in run[r].made..MaxToolCalls : Asked(r, k)

Inv == GateIsHeld /\ AllProper /\ Sleeps /\ Numbered

--------------------------------------------------------------------------------
(* Constants and types.                                                      *)

LEMMA Numbers ==
    /\ MinGap \in Nat /\ MaxSteps \in Nat \ {0} /\ MaxErrors \in Nat \ {0}
    /\ MaxToolCalls \in Nat \ {0} /\ Fallback \in Decisions
BY AgentRunAssumption DEF AgentRunAssumption

LEMMA NoRunIsRun == NoRun \in Run
BY Numbers DEF NoRun, Run, Kinds

LEMMA NoCallIsCall == NoCall \in Call
BY Numbers DEF NoCall, Call

LEMMA CallIsPair ==
    ASSUME NEW c \in Calls PROVE c[1] \in Runs /\ c[2] \in 1..MaxToolCalls /\ c # None
<1>1. PICK r \in Runs, i \in 1..MaxToolCalls : c = <<r, i>>
    BY DEF Calls
<1>2. c # <<>>
    BY <1>1
<1> QED
    BY <1>1, <1>2 DEF None

LEMMA NoCallIsProper ==
    ASSUME NEW x, NEW i PROVE Proper(NoCall, x, i)
BY DEF Proper, NoCall, Live, Passed, Permitted

\* The calls of a step are numbered from those of the steps before it.
LEMMA BatchIsCounted ==
    ASSUME TypeOK, NEW r \in Runs, NEW k \in run[r].made..MaxToolCalls, Asked(r, k)
    PROVE  run[r].made + Cardinality(Batch(r)) = k
<1> DEFINE new == (run[r].made + 1)..k
<1>1. run[r].made \in Nat /\ k \in Nat /\ k >= run[r].made
    BY Numbers DEF TypeOK, Run
<1>2. IsFiniteSet(new) /\ Cardinality(new) = k - run[r].made
    <2>1. run[r].made + 1 \in Int /\ k \in Int
        BY <1>1
    <2>2. /\ IsFiniteSet(new)
          /\ Cardinality(new) = IF run[r].made + 1 > k THEN 0 ELSE k - (run[r].made + 1) + 1
        BY <2>1, FS_Interval
    <2> QED
        BY <1>1, <2>2
<1>3. IsFiniteSet({r}) /\ Cardinality({r}) = 1
    BY FS_Singleton, Zenon
<1>4. Cardinality({r} \X new) = k - run[r].made
    <2> HIDE DEF new
    <2>1. Cardinality({r} \X new) = 1 * Cardinality(new)
        BY <1>2, <1>3, FS_Product
    <2> QED
        BY <1>1, <1>2, <2>1
<1>5. Batch(r) = {r} \X new
    BY <1>1, Numbers DEF Batch, CallsOf, Calls, Asked
<1> QED
    BY <1>1, <1>4, <1>5

--------------------------------------------------------------------------------
(* The steps of a run.                                                       *)

LEMMA Initially == Init => Inv
<1> SUFFICES ASSUME Init PROVE Inv
    OBVIOUS
<1>1. \A c \in Calls : call[c] = NoCall
    BY DEF Init
<1>2. TypeOK
    <2>1. since \in 0..MinGap
        BY Numbers DEF Init
    <2> QED
        BY <2>1, NoRunIsRun, NoCallIsCall DEF Init, TypeOK
<1>3. GateIsHeld /\ Sleeps
    BY <1>1, <1>2 DEF Init, GateIsHeld, Sleeps, NoCall
<1>4. AllProper
    BY <1>1, NoCallIsProper DEF AllProper
<1>5. Numbered
    <2> SUFFICES ASSUME NEW r \in Runs
                 PROVE  /\ run[r].pc = "idle" /\ run[r].made = 0
                        /\ 0 \in run[r].made..MaxToolCalls /\ Asked(r, 0)
        BY DEF Numbered
    <2>1. run[r].pc = "idle" /\ run[r].made = 0
        BY DEF Init, NoRun
    <2>2. Asked(r, 0)
        BY <1>1, CallIsPair DEF Asked, CallsOf, NoCall
    <2> QED
        BY <2>1, <2>2, Numbers
<1> QED
    BY <1>3, <1>4, <1>5 DEF Inv

\* A change of one run's record that leaves its calls as they were.
LEMMA RunChanges ==
    ASSUME Inv, NEW r \in Runs, NEW x \in Run, run' = [run EXCEPT ![r] = x],
           UNCHANGED <<policy, since, gate, call>>, used' \in Nat, blurred' \in SUBSET Runs,
           \A c \in CallsOf(r) : Proper(call[c], run[r], c[2]) => Proper(call[c], x, c[2]),
           x.pc # "idle", x.pc = "thinking" => Asked(r, x.made),
           \E k \in x.made..MaxToolCalls : Asked(r, k)
    PROVE  Inv'
<1>1. /\ run' \in [Runs -> Run] /\ run'[r] = x /\ \A q \in Runs \ {r} : run'[q] = run[q]
    BY DEF Inv, GateIsHeld, TypeOK
<1>2. GateIsHeld' /\ Sleeps'
    BY <1>1 DEF Inv, GateIsHeld, TypeOK, Sleeps
<1>3. AllProper'
    <2> SUFFICES ASSUME NEW c \in Calls PROVE Proper(call[c], run'[c[1]], c[2])
        BY DEF AllProper
    <2>1. Proper(call[c], run[c[1]], c[2]) /\ c[1] \in Runs
        BY CallIsPair DEF Inv, AllProper
    <2>2. CASE c[1] = r
        BY <1>1, <2>1, <2>2 DEF CallsOf
    <2>3. CASE c[1] # r
        BY <1>1, <2>1, <2>3
    <2> QED
        BY <2>2, <2>3
<1>4. Numbered'
    <2> SUFFICES ASSUME NEW q \in Runs
                 PROVE  /\ run'[q].pc = "idle" => run'[q].made = 0
                        /\ run'[q].pc = "thinking" => Asked(q, run'[q].made)
                        /\ \E k \in run'[q].made..MaxToolCalls : Asked(q, k)
        BY DEF Numbered, Asked
    <2>1. CASE q = r
        BY <1>1, <2>1
    <2>2. CASE q # r
        BY <1>1, <2>2 DEF Inv, Numbered
    <2> QED
        BY <2>1, <2>2
<1> QED
    BY <1>2, <1>3, <1>4 DEF Inv

\* A run that ends takes its calls with it; none of them has the gate.
LEMMA EndKeeps ==
    ASSUME Inv, NEW r \in Runs, Ends(r), UNCHANGED <<policy, used, since>>,
           gate' \in {gate, None}, gate' \notin CallsOf(r),
           gate' = None => gate \in CallsOf(r) \cup {None}
    PROVE  Inv'
<1>1. /\ run' = [run EXCEPT ![r] = NoRun]
      /\ call' = [c \in Calls |-> IF c[1] = r THEN NoCall ELSE call[c]]
      /\ blurred' = blurred \ {r}
    BY DEF Ends
<1>2. TypeOK'
    BY <1>1, NoRunIsRun, NoCallIsCall DEF Inv, GateIsHeld, TypeOK
<1>3. \A c \in Calls : /\ c[1] = r => call'[c] = NoCall
                       /\ c[1] # r => call'[c] = call[c] /\ run'[c[1]] = run[c[1]]
    BY <1>1, CallIsPair DEF Inv, GateIsHeld, TypeOK
<1>4. GateIsHeld'
    <2>1. gate' # None => gate' = gate /\ gate \in Calls /\ gate[1] # r
        BY <1>2 DEF TypeOK, CallsOf
    <2>2. gate' # None => call'[gate'].pc = "spacing"
        BY <1>3, <2>1 DEF Inv, GateIsHeld
    <2>3. ASSUME NEW c \in Calls, call'[c].pc = "spacing" PROVE gate' = c
        <3>1. c[1] # r /\ call[c].pc = "spacing"
            BY <1>3, <2>3 DEF NoCall
        <3> QED
            BY <3>1, CallIsPair DEF Inv, GateIsHeld, CallsOf
    <2> QED
        BY <1>2, <2>2, <2>3 DEF GateIsHeld
<1>5. AllProper'
    BY <1>3, NoCallIsProper DEF Inv, AllProper
<1>6. Sleeps'
    BY <1>3 DEF Inv, Sleeps, NoCall
<1>7. Numbered'
    <2> SUFFICES ASSUME NEW q \in Runs
                 PROVE  /\ run'[q].pc = "idle" => run'[q].made = 0
                        /\ run'[q].pc = "thinking" => (Asked(q, run[q].made))'
                        /\ (\E k \in run[q].made..MaxToolCalls : Asked(q, k))'
        BY DEF Numbered
    <2>1. CASE q = r
        <3>1. run'[q] = NoRun
            BY <1>1, <2>1 DEF Inv, GateIsHeld, TypeOK
        <3>2. Asked(q, 0)'
            BY <1>3, <2>1, CallIsPair DEF Asked, CallsOf, NoCall
        <3>3. 0 \in 0..MaxToolCalls /\ run'[q].pc = "idle" /\ run'[q].made = 0
            BY <3>1, Numbers DEF NoRun
        <3> QED
            BY <3>2, <3>3
    <2>2. CASE q # r
        <3>1. run'[q] = run[q]
            BY <1>1, <2>2 DEF Inv, GateIsHeld, TypeOK
        <3>2. \A k : Asked(q, k)' <=> Asked(q, k)
            BY <1>3, <2>2 DEF Asked, CallsOf
        <3> QED
            BY <3>1, <3>2 DEF Inv, Numbered
    <2> QED
        BY <2>1, <2>2
<1> QED
    BY <1>4, <1>5, <1>6, <1>7 DEF Inv

\* Between two steps no call of a run is in progress, so none has the gate.
LEMMA GateIsElsewhere ==
    ASSUME Inv, NEW r \in Runs,
           \A c \in CallsOf(r) : call[c].pc # "spacing"
    PROVE  gate \notin CallsOf(r)
BY CallIsPair DEF Inv, GateIsHeld, CallsOf

LEMMA LoopKeeps ==
    ASSUME Inv, NEW r \in Runs, Loop(r) PROVE Inv'
<1>0. /\ TypeOK /\ run[r] \in Run
      /\ \A c \in CallsOf(r) : /\ Proper(call[c], run[r], c[2]) /\ call[c] \in Call
                               /\ c \in Calls /\ c[2] \in 1..MaxToolCalls
    BY CallIsPair DEF Inv, GateIsHeld, TypeOK, AllProper, CallsOf
<1>1. ASSUME NEW k \in Kinds, NEW g \in SUBSET Grantable, Start(r, k, g) PROVE Inv'
    <2> DEFINE x == [run[r] EXCEPT !.pc = "thinking", !.kind = k, !.grants = g, !.step = 1]
    <2>1. run' = [run EXCEPT ![r] = x] /\ run[r].pc = "idle"
        BY <1>1 DEF Start
    <2>2. x \in Run
        <3>1. 1 \in 0..MaxSteps
            BY Numbers
        <3> QED
            BY <1>0, <3>1 DEF Run
    <2>3. \A c \in CallsOf(r) : call[c] = NoCall
        BY <1>0, <2>1 DEF Proper
    <2>4. /\ UNCHANGED <<policy, since, gate, call>> /\ used' \in Nat
          /\ blurred' \in SUBSET Runs
        BY <1>0, <1>1 DEF Start, TypeOK
    <2>5. x.pc = "thinking" /\ x.made = 0
        BY <1>0, <2>1 DEF Run, Inv, Numbered
    <2>6. Asked(r, 0)
        BY <1>0, <2>3 DEF Asked, NoCall
    <2>7. 0 \in x.made..MaxToolCalls
        BY <2>5, Numbers
    <2> HIDE DEF x
    <2>8. \A c \in CallsOf(r) : Proper(call[c], x, c[2])
        BY <2>3, NoCallIsProper
    <2> QED
        BY <2>1, <2>2, <2>4, <2>5, <2>6, <2>7, <2>8, RunChanges
<1>2. CASE Cancel(r)
    <2> DEFINE x == [run[r] EXCEPT !.cancel = TRUE]
    <2>1. /\ run' = [run EXCEPT ![r] = x] /\ UNCHANGED <<policy, since, gate, call>>
          /\ run[r].pc # "idle" /\ used' \in Nat /\ blurred' \in SUBSET Runs
        BY <1>0, <1>2 DEF Cancel, TypeOK, InProgress
    <2>2. /\ x \in Run /\ x.pc = run[r].pc /\ x.made = run[r].made
          /\ x.grants = run[r].grants /\ x.kind = run[r].kind
        BY <1>0 DEF Run
    <2> HIDE DEF x
    <2>3. \A c \in CallsOf(r) : Proper(call[c], run[r], c[2]) => Proper(call[c], x, c[2])
        BY <2>2 DEF Proper, Permitted
    <2>4. /\ x.pc # "idle" /\ (x.pc = "thinking" => Asked(r, x.made))
          /\ \E k \in x.made..MaxToolCalls : Asked(r, k)
        BY <2>1, <2>2 DEF Inv, Numbered
    <2> QED
        BY <2>1, <2>2, <2>3, <2>4, RunChanges
<1>3. ASSUME NEW n \in 1..MaxToolCalls, Asks(r, n) PROVE Inv'
    <2> DEFINE x == [run[r] EXCEPT !.pc = "calling"]
               now(c) == IF c[1] = r /\ c[2] - run[r].made \in 1..n
                         THEN [call[c] EXCEPT !.pc = "queued"] ELSE call[c]
    <2>1. /\ run[r].pc = "thinking" /\ run[r].made + n <= MaxToolCalls
          /\ run' = [run EXCEPT ![r] = x] /\ call' = [c \in Calls |-> now(c)]
          /\ UNCHANGED <<policy, used, since, gate, blurred>>
        BY <1>3 DEF Asks
    <2>2. /\ x \in Run /\ x.pc = "calling" /\ x.made = run[r].made
          /\ x.grants = run[r].grants /\ x.kind = run[r].kind
        BY <1>0 DEF Run
    <2>3. run' \in [Runs -> Run] /\ run'[r] = x /\ \A q \in Runs \ {r} : run'[q] = run[q]
        BY <1>0, <2>1, <2>2 DEF TypeOK
    <2>4. Asked(r, run[r].made) /\ run[r].made \in Nat /\ n \in Nat \ {0}
        BY <1>0, <2>1 DEF Inv, Numbered, Run
    <2>5. ASSUME NEW c \in Calls
          PROVE  /\ now(c) \in Call /\ (now(c).pc = "spacing" <=> call[c].pc = "spacing")
                 /\ now(c).due = call[c].due
        <3>1. call[c] \in Call
            BY <1>0 DEF TypeOK
        <3>2. CASE c[1] = r /\ c[2] - run[r].made \in 1..n
            <4>1. call[c].pc = "unasked"
                BY <2>4, <3>2, CallIsPair DEF Asked, CallsOf
            <4> QED
                BY <3>1, <3>2, <4>1 DEF Call
        <3>3. CASE ~(c[1] = r /\ c[2] - run[r].made \in 1..n)
            BY <3>1, <3>3
        <3> QED
            BY <3>2, <3>3
    <2>6. TypeOK' /\ GateIsHeld' /\ Sleeps'
        <3> HIDE DEF now, x
        <3>1. \A c \in Calls : call'[c] = now(c)
            BY <2>1
        <3>2. TypeOK'
            BY <1>0, <2>1, <2>3, <2>5 DEF TypeOK
        <3> QED
            BY <2>1, <2>5, <3>1, <3>2 DEF Inv, GateIsHeld, TypeOK, Sleeps
    <2>7. ASSUME NEW c \in Calls PROVE Proper(now(c), run'[c[1]], c[2])
        <3>1. Proper(call[c], run[c[1]], c[2]) /\ call[c] \in Call
              /\ c[1] \in Runs /\ c[2] \in 1..MaxToolCalls
            BY <1>0, CallIsPair DEF Inv, AllProper, TypeOK
        <3>2. CASE c[1] # r
            BY <2>3, <3>1, <3>2
        <3>3. CASE c[1] = r /\ c[2] - run[r].made \in 1..n
            <4>1. call[c].pc = "unasked" /\ c[2] > run[r].made
                BY <2>4, <3>1, <3>3, CallIsPair DEF Asked, CallsOf
            <4>2. now(c) = [call[c] EXCEPT !.pc = "queued"]
                BY <3>3
            <4> QED
                BY <2>2, <2>3, <3>1, <3>3, <4>1, <4>2 DEF Proper, Call, Live, Passed
        <3>4. CASE c[1] = r /\ ~(c[2] - run[r].made \in 1..n)
            <4>1. now(c) = call[c] /\ call[c].pc \notin {"queued"} \cup Live
                BY <2>1, <3>1, <3>4 DEF Proper
            <4> QED
                BY <2>1, <2>2, <2>3, <3>1, <3>4, <4>1 DEF Proper, Permitted
        <3> QED
            BY <3>2, <3>3, <3>4
    <2>8. Numbered'
        <3> SUFFICES ASSUME NEW q \in Runs
                     PROVE  /\ run'[q].pc = "idle" => run'[q].made = 0
                            /\ run'[q].pc = "thinking" => (Asked(q, run[q].made))'
                            /\ (\E k \in run[q].made..MaxToolCalls : Asked(q, k))'
            BY DEF Numbered
        <3>1. CASE q = r
            <4>1. ASSUME NEW c \in CallsOf(r)
                  PROVE  call'[c].pc # "unasked" <=> c[2] <= run[r].made + n
                <5>1. /\ c \in Calls /\ c[1] = r /\ c[2] \in Nat /\ call[c] \in Call
                      /\ (call[c].pc # "unasked" <=> c[2] <= run[r].made)
                    BY <1>0, <2>4 DEF CallsOf, Asked
                <5>2. CASE c[2] - run[r].made \in 1..n
                    BY <2>1, <2>4, <5>1, <5>2 DEF Call
                <5>3. CASE ~(c[2] - run[r].made \in 1..n)
                    BY <2>1, <2>4, <5>1, <5>3
                <5> QED
                    BY <5>2, <5>3
            <4>0. PICK k \in Nat : k = run[r].made + n
                BY <2>4
            <4>2. Asked(r, k)'
                BY <4>0, <4>1 DEF Asked, CallsOf
            <4>3. k \in x.made..MaxToolCalls
                BY <2>1, <2>2, <2>4, <4>0, Numbers
            <4> QED
                BY <2>2, <2>3, <3>1, <4>2, <4>3
        <3>2. CASE q # r
            <4>1. \A k : Asked(q, k)' <=> Asked(q, k)
                BY <2>1, <3>2 DEF Asked, CallsOf
            <4> QED
                BY <2>3, <3>2, <4>1 DEF Inv, Numbered
        <3> QED
            BY <3>1, <3>2
    <2>9. AllProper'
        BY <2>1, <2>7 DEF AllProper
    <2> QED
        BY <2>6, <2>8, <2>9 DEF Inv
<1>4. CASE Answers(r)
    <2>1. \A c \in CallsOf(r) : call[c].pc # "spacing"
        BY <1>0, <1>4 DEF Answers, Proper, Live
    <2> QED
        BY <1>4, <2>1, GateIsElsewhere, EndKeeps DEF Answers
<1>5. CASE StepEnds(r) \/ NextStep(r)
    <2>1. /\ run[r].pc = "calling"
          /\ \A c \in CallsOf(r) : call[c].pc \notin {"queued"} \cup Live
        BY <1>0, <1>5 DEF StepEnds, NextStep, ResultsIn, Batch, Proper, Live
    <2>2. CASE StepEnds(r)
        BY <2>1, <2>2, GateIsElsewhere, EndKeeps DEF StepEnds, Live
    <2>3. CASE NextStep(r)
        <3> DEFINE x == [run[r] EXCEPT !.pc = "thinking", !.step = @ + 1,
                                       !.errors = Errors(r), !.made = @ + Cardinality(Batch(r))]
        <3>1. run' = [run EXCEPT ![r] = x] /\ UNCHANGED <<policy, used, since, gate, call, blurred>>
            BY <2>3 DEF NextStep
        <3>2. PICK k \in run[r].made..MaxToolCalls : Asked(r, k)
            BY DEF Inv, Numbered
        <3>3. run[r].made + Cardinality(Batch(r)) = k
            BY <1>0, <3>2, BatchIsCounted
        <3>4. Errors(r) \in 0..(MaxErrors - 1) /\ run[r].step + 1 \in 0..MaxSteps
            <4>1. Errors(r) \in Nat
                BY <1>0, Numbers DEF Errors, Run
            <4>2. run[r].step \in 0..MaxSteps
                BY <1>0 DEF Run
            <4> QED
                BY <2>3, <4>1, <4>2, Numbers DEF NextStep, LimitsReached
        <3>5. k \in 0..MaxToolCalls
            BY <1>0, <3>2, Numbers DEF Run
        <3>6. /\ x \in Run /\ x.pc = "thinking" /\ x.made = k
              /\ x.grants = run[r].grants /\ x.kind = run[r].kind
            BY <1>0, <3>3, <3>4, <3>5 DEF Run
        <3> HIDE DEF x
        <3>7. \A c \in CallsOf(r) : Proper(call[c], run[r], c[2]) => Proper(call[c], x, c[2])
            BY <2>1, <3>6 DEF Proper, Permitted
        <3>8. k \in x.made..MaxToolCalls
            BY <3>5, <3>6, Numbers
        <3> QED
            BY <1>0, <3>1, <3>2, <3>6, <3>7, <3>8, RunChanges DEF TypeOK
    <2> QED
        BY <1>5, <2>2, <2>3
<1>6. CASE RunCut(r)
    <2>1. gate' = IF gate \in CallsOf(r) THEN None ELSE gate
        BY <1>6 DEF RunCut
    <2>2. None \notin CallsOf(r)
        BY CallIsPair DEF CallsOf
    <2> QED
        BY <1>6, <2>1, <2>2, EndKeeps DEF RunCut
<1> QED
    BY <1>1, <1>2, <1>3, <1>4, <1>5, <1>6 DEF Loop

--------------------------------------------------------------------------------
(* The steps of a call.                                                      *)

\* One call moves on. The others have the gate as before, and the time of the last write
\* is set only by who holds it or finds it free.
LEMMA CallChanges ==
    ASSUME Inv, NEW c \in Calls, NEW q \in Call, call' = [call EXCEPT ![c] = q],
           UNCHANGED <<policy, run>>, used' \in Nat, blurred' \in SUBSET Runs,
           call[c].pc # "unasked", q.pc # "unasked", Proper(q, run[c[1]], c[2]),
           \/ since' = since
           \/ since' = 0 /\ gate \in {c, None} /\ q.pc # "spacing",
           \/ gate' = gate /\ (q.pc = "spacing" <=> gate = c)
           \/ gate' = None /\ gate \in {c, None} /\ q.pc # "spacing"
           \/ gate' = c /\ gate = None /\ q.pc = "spacing",
           q.pc = "spacing" => q.due = MinGap - since
    PROVE  Inv'
<1>1. /\ call' \in [Calls -> Call] /\ call'[c] = q /\ \A d \in Calls \ {c} : call'[d] = call[d]
    BY DEF Inv, GateIsHeld, TypeOK
<1>2. c # None /\ gate \in Calls \cup {None}
    BY CallIsPair DEF Inv, GateIsHeld, TypeOK
<1>3. since' \in 0..MinGap
    BY Numbers DEF Inv, GateIsHeld, TypeOK
<1>4. TypeOK'
    BY <1>1, <1>2, <1>3 DEF Inv, GateIsHeld, TypeOK
<1>5. gate' # None => call'[gate'].pc = "spacing"
    BY <1>1, <1>2 DEF Inv, GateIsHeld
<1>6. ASSUME NEW d \in Calls, call'[d].pc = "spacing"
      PROVE  gate' = d /\ call'[d].due = MinGap - since'
    <2>1. CASE d = c
        BY <1>1, <1>2, <1>6, <2>1
    <2>2. CASE d # c
        <3>1. call[d].pc = "spacing" /\ call'[d] = call[d] /\ gate = d
            BY <1>1, <1>6, <2>2 DEF Inv, GateIsHeld
        <3>2. gate' = d /\ since' = since
            BY <1>2, <2>2, <3>1, CallIsPair
        <3> QED
            BY <3>1, <3>2 DEF Inv, Sleeps
    <2> QED
        BY <2>1, <2>2
<1>7. AllProper'
    BY <1>1 DEF Inv, AllProper
<1>8. Numbered'
    <2>1. \A d \in Calls : call'[d].pc # "unasked" <=> call[d].pc # "unasked"
        BY <1>1
    <2>2. \A r \in Runs : \A k : Asked(r, k)' <=> Asked(r, k)
        BY <2>1 DEF Asked, CallsOf
    <2> QED
        BY <2>2 DEF Inv, Numbered
<1> QED
    BY <1>4, <1>5, <1>6, <1>7, <1>8 DEF Inv, GateIsHeld, Sleeps

\* A call that neither has the gate nor gets it.
LEMMA CallGoesOn ==
    ASSUME Inv, NEW c \in Calls, NEW q \in Call, call' = [call EXCEPT ![c] = q],
           UNCHANGED <<policy, run, since, gate>>, used' \in Nat, blurred' \in SUBSET Runs,
           call[c].pc \notin {"unasked", "spacing"}, q.pc \notin {"unasked", "spacing"},
           Proper(q, run[c[1]], c[2])
    PROVE  Inv'
<1>1. gate # c
    BY CallIsPair DEF Inv, GateIsHeld
<1> QED
    BY <1>1, CallChanges

\* The verdict on a call that is let through.
LEMMA RulingPermits ==
    ASSUME NEW r \in Runs, NEW m \in Methods, NEW t \in Targets, TypeOK
    PROVE  /\ Ruling(r, m, t) \in Decisions
           /\ Ruling(r, m, t) # "deny" => ~Astray(m, t)
           /\ Ruling(r, m, t) = "allow" =>
                \/ policy[m] = "allow" \/ m \in run[r].grants
                \/ policy[m] = "confirm" /\ run[r].kind # "chat" /\ Fallback = "allow"
<1>1. policy[m] \in Decisions
    BY DEF TypeOK
<1> HIDE DEF Astray, Spent
<1> QED
    BY <1>1, Numbers DEF Ruling, GrantsOf, Interactive, Decisions

LEMMA AuthoriseKeeps ==
    ASSUME Inv, NEW c \in Calls, NEW m \in Methods, NEW t \in Targets, Authorise(c, m, t)
    PROVE  Inv'
<1> DEFINE verdict == Ruling(c[1], m, t)
           known == [call[c] EXCEPT !.method = m, !.rule = policy[m],
                                    !.astray = verdict # "deny" /\ Astray(m, t)]
           q == CASE verdict = "deny" -> [known EXCEPT !.pc = "recording", !.outcome = "denied"]
                  [] verdict = "confirm" -> [known EXCEPT !.pc = "asking"]
                  [] verdict = "allow" -> [known EXCEPT !.pc = Allowed(m)]
<1>1. /\ call[c].pc = "queued" /\ run[c[1]].pc = "calling" /\ call' = [call EXCEPT ![c] = q]
      /\ UNCHANGED <<policy, used, since, gate, run>> /\ Blurs(c, m)
    BY DEF Authorise, ComesUp
<1>2. /\ c[1] \in Runs /\ call[c] \in Call /\ Proper(call[c], run[c[1]], c[2])
      /\ policy[m] \in Decisions /\ TypeOK
    BY CallIsPair DEF Inv, AllProper, GateIsHeld, TypeOK
<1>3. blurred' \in SUBSET Runs /\ used' \in Nat
    BY <1>1, <1>2 DEF Blurs, TypeOK
<1>4. /\ verdict \in Decisions /\ (verdict # "deny" => ~Astray(m, t))
      /\ verdict = "allow" => \/ policy[m] = "allow" \/ m \in run[c[1]].grants
                              \/ /\ policy[m] = "confirm" /\ run[c[1]].kind # "chat"
                                 /\ Fallback = "allow"
    BY <1>2, RulingPermits
<1>5. Allowed(m) \in {"gating", "preparing"}
    BY DEF Allowed
<1> HIDE DEF verdict
<1>6. /\ known \in Call /\ known.method = m /\ known.rule = policy[m] /\ ~known.astray
      /\ ~known.landed /\ known.outcome = "none" /\ known.audit = "none"
    BY <1>1, <1>2, <1>4 DEF Call, Proper
<1>7. c[2] > run[c[1]].made
    BY <1>1, <1>2 DEF Proper
<1> HIDE DEF known
<1>8. q \in Call /\ q.pc \in {"recording", "asking", "gating", "preparing"}
      /\ Proper(q, run[c[1]], c[2])
    <2>1. CASE verdict = "deny"
        <3>1. q = [known EXCEPT !.pc = "recording", !.outcome = "denied"]
            BY <2>1
        <3> HIDE DEF q
        <3> QED
            BY <1>1, <1>6, <1>7, <3>1 DEF Call, Outcomes, Live, Proper, Passed
    <2>2. CASE verdict = "confirm"
        <3>1. q = [known EXCEPT !.pc = "asking"]
            BY <2>2
        <3> HIDE DEF q
        <3> QED
            BY <1>1, <1>6, <1>7, <3>1 DEF Call, Live, Proper, Passed
    <2>3. CASE verdict = "allow"
        <3>1. q = [known EXCEPT !.pc = Allowed(m)]
            BY <2>3
        <3> HIDE DEF q
        <3>2. q \in Call /\ q.pc \in {"gating", "preparing"}
            BY <1>5, <1>6, <3>1 DEF Call, Live
        <3>3. /\ q.method = m /\ q.rule = policy[m] /\ ~q.astray
              /\ ~q.landed /\ q.outcome = "none" /\ q.audit = "none"
            BY <1>6, <3>1 DEF Call
        <3>4. Permitted(q, run[c[1]])
            BY <1>4, <2>3, <3>3 DEF Permitted
        <3> QED
            BY <1>1, <1>7, <3>2, <3>3, <3>4 DEF Proper, Live
    <2> QED
        BY <1>4, <2>1, <2>2, <2>3 DEF Decisions
<1> HIDE DEF q
<1> QED
    BY <1>1, <1>3, <1>8, CallGoesOn

LEMMA ToolKeeps ==
    ASSUME Inv, NEW c \in Calls, Tool(c) PROVE Inv'
<1>0. /\ TypeOK /\ call[c] \in Call /\ Proper(call[c], run[c[1]], c[2]) /\ c[1] \in Runs
      /\ c # None /\ run[c[1]] \in Run
    BY CallIsPair DEF Inv, AllProper, GateIsHeld, TypeOK
<1>1. ASSUME NEW m \in Methods, NEW t \in Targets, Authorise(c, m, t) PROVE Inv'
    BY <1>1, AuthoriseKeeps
<1>2. CASE Skip(c)
    <2> DEFINE q == [call[c] EXCEPT !.pc = "over", !.outcome = "failed"]
    <2>1. /\ call' = [call EXCEPT ![c] = q] /\ UNCHANGED <<policy, run, since, gate>>
          /\ used' \in Nat /\ blurred' \in SUBSET Runs
          /\ call[c].pc \notin {"unasked", "spacing"}
        BY <1>0, <1>2 DEF Skip, TypeOK, ComesUp
    <2>2. q \in Call /\ q.pc \notin {"unasked", "spacing"}
        BY <1>0, <1>2 DEF Skip, Call, Live, Outcomes
    <2>3. Proper(q, run[c[1]], c[2])
        BY <1>0, <1>2 DEF Skip, Call, Proper, Permitted, Passed, Live, Outcomes, ComesUp
    <2> HIDE DEF q
    <2> QED
        BY <2>1, <2>2, <2>3, CallGoesOn
<1>3. CASE Approve(c)
    <2> DEFINE q == [call[c] EXCEPT !.pc = Allowed(call[c].method), !.approved = TRUE]
    <2>1. /\ call' = [call EXCEPT ![c] = q] /\ UNCHANGED <<policy, run, since, gate>>
          /\ used' \in Nat /\ blurred' \in SUBSET Runs
          /\ call[c].pc \notin {"unasked", "spacing"}
        BY <1>0, <1>3 DEF Approve, TypeOK
    <2>2. q \in Call /\ q.pc \notin {"unasked", "spacing"}
        BY <1>0, <1>3 DEF Approve, Call, Live, Outcomes, Allowed
    <2>3. Proper(q, run[c[1]], c[2])
        BY <1>0, <1>3 DEF Approve, Call, Proper, Permitted, Passed, Live, Outcomes, Allowed
    <2> HIDE DEF q
    <2> QED
        BY <2>1, <2>2, <2>3, CallGoesOn
<1>4. CASE Decline(c)
    <2> DEFINE q == [call[c] EXCEPT !.pc = "recording", !.outcome = "denied"]
    <2>1. /\ call' = [call EXCEPT ![c] = q] /\ UNCHANGED <<policy, run, since, gate>>
          /\ used' \in Nat /\ blurred' \in SUBSET Runs
          /\ call[c].pc \notin {"unasked", "spacing"}
        BY <1>0, <1>4 DEF Decline, TypeOK, Settles
    <2>2. q \in Call /\ q.pc \notin {"unasked", "spacing"}
        BY <1>0, <1>4 DEF Decline, Call, Live, Outcomes
    <2>3. Proper(q, run[c[1]], c[2])
        BY <1>0, <1>4 DEF Decline, Call, Proper, Permitted, Passed, Live, Outcomes
    <2> HIDE DEF q
    <2> QED
        BY <2>1, <2>2, <2>3, CallGoesOn
<1>5. CASE Prepared(c)
    <2> DEFINE q == [call[c] EXCEPT !.pc = "executing"]
    <2>1. /\ call' = [call EXCEPT ![c] = q] /\ UNCHANGED <<policy, run, since, gate>>
          /\ used' \in Nat /\ blurred' \in SUBSET Runs
          /\ call[c].pc \notin {"unasked", "spacing"}
        BY <1>0, <1>5 DEF Prepared, TypeOK, Becomes
    <2>2. q \in Call /\ q.pc \notin {"unasked", "spacing"}
        BY <1>0, <1>5 DEF Prepared, Call, Live, Outcomes
    <2>3. Proper(q, run[c[1]], c[2])
        BY <1>0, <1>5 DEF Prepared, Call, Proper, Permitted, Passed, Live, Outcomes
    <2> HIDE DEF q
    <2> QED
        BY <2>1, <2>2, <2>3, CallGoesOn
<1>6. CASE Unprepared(c)
    <2> DEFINE q == [call[c] EXCEPT !.pc = "recording", !.outcome = "failed"]
    <2>1. /\ call' = [call EXCEPT ![c] = q] /\ UNCHANGED <<policy, run, since, gate>>
          /\ used' \in Nat /\ blurred' \in SUBSET Runs
          /\ call[c].pc \notin {"unasked", "spacing"}
        BY <1>0, <1>6 DEF Unprepared, TypeOK, Settles
    <2>2. q \in Call /\ q.pc \notin {"unasked", "spacing"}
        BY <1>0, <1>6 DEF Unprepared, Call, Live, Outcomes
    <2>3. Proper(q, run[c[1]], c[2])
        BY <1>0, <1>6 DEF Unprepared, Call, Proper, Permitted, Passed, Live, Outcomes
    <2> HIDE DEF q
    <2> QED
        BY <2>1, <2>2, <2>3, CallGoesOn
<1>7. CASE Lands(c)
    <2> DEFINE q == [call[c] EXCEPT !.landed = TRUE]
    <2>1. /\ call' = [call EXCEPT ![c] = q] /\ UNCHANGED <<policy, run, since, gate>>
          /\ used' \in Nat /\ blurred' \in SUBSET Runs
          /\ call[c].pc \notin {"unasked", "spacing"}
        BY <1>0, <1>7 DEF Lands, TypeOK
    <2>2. q \in Call /\ q.pc \notin {"unasked", "spacing"}
        BY <1>0, <1>7 DEF Lands, Call, Live, Outcomes
    <2>3. Proper(q, run[c[1]], c[2])
        <3>1. call[c].pc = "executing" /\ ~call[c].landed
            BY <1>7 DEF Lands
        <3>2. /\ q.pc = "executing" /\ q.landed /\ q.astray = call[c].astray
              /\ q.rule = call[c].rule /\ q.approved = call[c].approved
              /\ q.method = call[c].method /\ q.outcome = call[c].outcome
              /\ q.audit = call[c].audit
            BY <1>0, <3>1 DEF Call
        <3>3. Permitted(q, run[c[1]])
            BY <1>0, <3>1, <3>2 DEF Proper, Passed, Permitted
        <3>4. call[c] # NoCall
            BY <3>1 DEF NoCall
        <3> QED
            BY <1>0, <3>1, <3>2, <3>3, <3>4 DEF Proper, Passed, Live
    <2> HIDE DEF q
    <2> QED
        BY <2>1, <2>2, <2>3, CallGoesOn
<1>8. CASE Succeeds(c)
    <2> DEFINE q == [call[c] EXCEPT !.pc = "recording", !.outcome = "ok"]
    <2>1. /\ call' = [call EXCEPT ![c] = q] /\ UNCHANGED <<policy, run, since, gate>>
          /\ used' \in Nat /\ blurred' \in SUBSET Runs
          /\ call[c].pc \notin {"unasked", "spacing"}
        BY <1>0, <1>8 DEF Succeeds, TypeOK, Settles
    <2>2. q \in Call /\ q.pc \notin {"unasked", "spacing"}
        BY <1>0, <1>8 DEF Succeeds, Call, Live, Outcomes
    <2>3. Proper(q, run[c[1]], c[2])
        BY <1>0, <1>8 DEF Succeeds, Call, Proper, Permitted, Passed, Live, Outcomes
    <2> HIDE DEF q
    <2> QED
        BY <2>1, <2>2, <2>3, CallGoesOn
<1>9. CASE Fails(c)
    <2> DEFINE q == [call[c] EXCEPT !.pc = "recording", !.outcome = "failed",
                                !.unheard = call[c].landed]
    <2>1. /\ call' = [call EXCEPT ![c] = q] /\ UNCHANGED <<policy, run, since, gate>>
          /\ used' \in Nat /\ blurred' \in SUBSET Runs
          /\ call[c].pc \notin {"unasked", "spacing"}
        BY <1>0, <1>9 DEF Fails, TypeOK, BlursLost
    <2>2. q \in Call /\ q.pc \notin {"unasked", "spacing"}
        BY <1>0 DEF Call, Live, Outcomes
    <2>3. Proper(q, run[c[1]], c[2])
        <3>1. call[c].pc = "executing" /\ call[c] # NoCall
            BY <1>9 DEF Fails, NoCall
        <3>2. /\ q.pc = "recording" /\ q.outcome = "failed" /\ q.unheard = call[c].landed
              /\ q.landed = call[c].landed /\ q.astray = call[c].astray
              /\ q.rule = call[c].rule /\ q.approved = call[c].approved
              /\ q.method = call[c].method /\ q.audit = call[c].audit
            BY <1>0 DEF Call
        <3>3. Permitted(q, run[c[1]])
            BY <1>0, <3>1, <3>2 DEF Proper, Passed, Permitted
        <3> QED
            BY <1>0, <3>1, <3>2, <3>3 DEF Proper, Passed, Live
    <2> HIDE DEF q
    <2> QED
        BY <2>1, <2>2, <2>3, CallGoesOn
<1>10. CASE Recorded(c)
    <2> DEFINE q == [call[c] EXCEPT !.pc = "over", !.audit = call[c].outcome]
    <2>1. /\ call' = [call EXCEPT ![c] = q] /\ UNCHANGED <<policy, run, since, gate>>
          /\ used' \in Nat /\ blurred' \in SUBSET Runs
          /\ call[c].pc \notin {"unasked", "spacing"}
        BY <1>0, <1>10 DEF Recorded, TypeOK
    <2>2. q \in Call /\ q.pc \notin {"unasked", "spacing"}
        BY <1>0, <1>10 DEF Recorded, Call, Live, Outcomes
    <2>3. Proper(q, run[c[1]], c[2])
        BY <1>0, <1>10 DEF Recorded, Call, Proper, Permitted, Passed, Live, Outcomes
    <2> HIDE DEF q
    <2> QED
        BY <2>1, <2>2, <2>3, CallGoesOn
<1>11. CASE RecordFails(c)
    <2> DEFINE q == [call[c] EXCEPT !.pc = "over", !.audit = "lost"]
    <2>1. /\ call' = [call EXCEPT ![c] = q] /\ UNCHANGED <<policy, run, since, gate>>
          /\ used' \in Nat /\ blurred' \in SUBSET Runs
          /\ call[c].pc \notin {"unasked", "spacing"}
        BY <1>0, <1>11 DEF RecordFails, TypeOK
    <2>2. q \in Call /\ q.pc \notin {"unasked", "spacing"}
        BY <1>0, <1>11 DEF RecordFails, Call, Live, Outcomes
    <2>3. Proper(q, run[c[1]], c[2])
        BY <1>0, <1>11 DEF RecordFails, Call, Proper, Permitted, Passed, Live, Outcomes
    <2> HIDE DEF q
    <2> QED
        BY <2>1, <2>2, <2>3, CallGoesOn
<1>12. CASE Enter(c)
    <2>0. /\ call[c].pc = "gating" /\ gate = None /\ since \in 0..MinGap
          /\ UNCHANGED <<policy, used, run, blurred>>
        BY <1>0, <1>12 DEF Enter, TypeOK
    <2>1. CASE since = MinGap
        <3> DEFINE q == [call[c] EXCEPT !.pc = "preparing"]
        <3>1. call' = [call EXCEPT ![c] = q] /\ since' = 0 /\ gate' = None
            BY <1>12, <2>1 DEF Enter, Becomes
        <3>2. q \in Call /\ q.pc = "preparing"
            BY <1>0 DEF Call, Live
        <3>3. Proper(q, run[c[1]], c[2])
            BY <1>0, <2>0 DEF Call, Proper, Permitted, Passed, Live
        <3> HIDE DEF q
        <3> QED
            BY <1>0, <2>0, <3>1, <3>2, <3>3, CallChanges DEF TypeOK
    <2>2. CASE since # MinGap
        <3> DEFINE q == [call[c] EXCEPT !.pc = "spacing", !.due = MinGap - since]
        <3>1. call' = [call EXCEPT ![c] = q] /\ since' = since /\ gate' = c
            BY <1>12, <2>2 DEF Enter
        <3>2. MinGap - since \in 0..MinGap
            BY <2>0, Numbers
        <3>3. q \in Call /\ q.pc = "spacing" /\ q.due = MinGap - since
            BY <1>0, <3>2 DEF Call, Live
        <3>4. Proper(q, run[c[1]], c[2])
            BY <1>0, <2>0 DEF Call, Proper, Permitted, Passed, Live
        <3> HIDE DEF q
        <3> QED
            BY <1>0, <2>0, <3>1, <3>3, <3>4, CallChanges DEF TypeOK
    <2> QED
        BY <2>1, <2>2
<1>13. CASE Wake(c)
    <2> DEFINE q == [call[c] EXCEPT !.pc = "preparing"]
    <2>1. /\ call[c].pc = "spacing" /\ call' = [call EXCEPT ![c] = q] /\ since' = 0 /\ gate' = None
          /\ UNCHANGED <<policy, used, run, blurred>>
        BY <1>13 DEF Wake, Becomes
    <2>2. q \in Call /\ q.pc = "preparing"
        BY <1>0 DEF Call, Live
    <2>3. Proper(q, run[c[1]], c[2])
        BY <1>0, <2>1 DEF Call, Proper, Permitted, Passed, Live
    <2>4. gate = c
        BY <2>1 DEF Inv, GateIsHeld
    <2> HIDE DEF q
    <2> QED
        BY <1>0, <2>1, <2>2, <2>3, <2>4, CallChanges DEF TypeOK
<1>14. CASE TimesOut(c)
    <2> DEFINE q == [call[c] EXCEPT !.pc = "over", !.outcome = "failed", !.due = 0, !.audit = "lost"]
    <2>1. /\ call[c].pc \in Live /\ call' = [call EXCEPT ![c] = q]
          /\ gate' = IF gate = c THEN None ELSE gate
          /\ UNCHANGED <<policy, used, since, run>> /\ blurred' \in SUBSET Runs
        BY <1>0, <1>14 DEF TimesOut, IsLive, BlursLost, TypeOK
    <2>2. q \in Call /\ q.pc = "over"
        <3>1. 0 \in 0..MinGap
            BY Numbers
        <3> QED
            BY <1>0, <3>1 DEF Call, Outcomes
    <2>3. Proper(q, run[c[1]], c[2])
        BY <1>0, <2>1 DEF Call, Proper, Permitted, Passed, Live
    <2>4. call[c].pc # "unasked"
        BY <2>1 DEF Live
    <2> HIDE DEF q
    <2> QED
        BY <1>0, <2>1, <2>2, <2>3, <2>4, CallChanges DEF TypeOK
<1> QED
    BY <1>1, <1>2, <1>3, <1>4, <1>5, <1>6, <1>7, <1>8, <1>9, <1>10, <1>11, <1>12, <1>13, <1>14 DEF Tool

--------------------------------------------------------------------------------
LEMMA TickKeeps ==
    ASSUME Inv, Tick PROVE Inv'
<1> DEFINE now(c) == IF call[c].due > 0 THEN [call[c] EXCEPT !.due = @ - 1] ELSE call[c]
<1>1. /\ call' = [c \in Calls |-> now(c)] /\ UNCHANGED <<policy, used, gate, run, blurred>>
      /\ since' = IF since < MinGap THEN since + 1 ELSE since
    BY DEF Tick
<1>2. TypeOK
    BY DEF Inv, GateIsHeld
<1>3. ASSUME NEW c \in Calls
      PROVE  /\ now(c) \in Call /\ now(c).pc = call[c].pc
             /\ now(c).due = IF call[c].due > 0 THEN call[c].due - 1 ELSE call[c].due
             /\ Proper(now(c), run[c[1]], c[2])
    <2>1. call[c] \in Call /\ call[c].due \in 0..MinGap /\ Proper(call[c], run[c[1]], c[2])
        BY <1>2 DEF TypeOK, Call, Inv, AllProper
    <2>2. CASE call[c].due > 0
        <3>1. now(c) = [call[c] EXCEPT !.due = @ - 1]
            BY <2>2
        <3>2. call[c].due - 1 \in 0..MinGap
            BY <2>1, <2>2, Numbers
        <3>3. now(c) \in Call /\ now(c).pc = call[c].pc /\ now(c).due = call[c].due - 1
            BY <2>1, <3>1, <3>2 DEF Call
        <3>4. call[c] # NoCall
            BY <2>2 DEF NoCall
        <3>5. Proper(now(c), run[c[1]], c[2])
            BY <2>1, <3>1, <3>4 DEF Proper, Permitted, Call
        <3> QED
            BY <2>2, <3>3, <3>5
    <2>3. CASE ~(call[c].due > 0)
        BY <2>1, <2>3
    <2> QED
        BY <2>2, <2>3
<1> HIDE DEF now
<1>4. since \in 0..MinGap /\ since' \in 0..MinGap
    BY <1>1, <1>2, Numbers DEF TypeOK
<1>5. TypeOK'
    BY <1>1, <1>2, <1>3, <1>4 DEF TypeOK
<1>6. GateIsHeld'
    BY <1>1, <1>2, <1>3, <1>5 DEF Inv, GateIsHeld, TypeOK
<1>7. AllProper'
    BY <1>1, <1>3 DEF AllProper
<1>8. Sleeps'
    <2> SUFFICES ASSUME NEW c \in Calls, now(c).pc = "spacing" PROVE now(c).due = MinGap - since'
        BY <1>1 DEF Sleeps
    <2>1. call[c].pc = "spacing" /\ call[c].due = MinGap - since
        BY <1>3 DEF Inv, Sleeps
    <2> QED
        BY <1>1, <1>3, <1>4, <2>1, Numbers
<1>9. Numbered'
    <2>1. \A r \in Runs : \A k : Asked(r, k)' <=> Asked(r, k)
        BY <1>1, <1>3 DEF Asked, CallsOf
    <2> QED
        BY <1>1, <2>1 DEF Inv, Numbered
<1> QED
    BY <1>6, <1>7, <1>8, <1>9 DEF Inv

LEMMA AdministerKeeps ==
    ASSUME Inv, NEW m \in Methods, NEW d \in Decisions, Administer(m, d) PROVE Inv'
<1>1. policy' = [policy EXCEPT ![m] = d] /\ UNCHANGED <<used, since, gate, run, call, blurred>>
    BY DEF Administer
<1> QED
    BY <1>1 DEF Inv, GateIsHeld, TypeOK, AllProper, Sleeps, Numbered, Asked

\* Inv is an invariant.
THEOREM InvHolds == Spec => []Inv
<1>1. Inv /\ [Next]_vars => Inv'
    <2> SUFFICES ASSUME Inv, Next \/ UNCHANGED vars PROVE Inv'
        OBVIOUS
    <2>1. CASE UNCHANGED vars
        BY <2>1 DEF vars, Inv, GateIsHeld, TypeOK, AllProper, Sleeps, Numbered, Asked
    <2> QED
        BY <2>1, LoopKeeps, ToolKeeps, TickKeeps, AdministerKeeps DEF Next
<1> QED
    BY Initially, <1>1, PTL DEF Spec

\* GateIsHeld, for every instance: the write gate is held by the call that sleeps in it and
\* by nothing else (_throttle_writes), so no write waits for a call that is gone.
THEOREM GateIsAlwaysHeld == Spec => []GateIsHeld
<1>1. Inv => GateIsHeld
    BY DEF Inv
<1> QED
    BY <1>1, InvHolds, PTL

\* Sanctioned, for every instance: Telegram carries out what the policy, a grant of the
\* same run, a person or the fallback allowed, and nothing against the chat lists
\* (PermissionEngine.authorize).
THEOREM AlwaysSanctioned == Spec => []Sanctioned
<1>1. Inv => Sanctioned
    BY DEF Inv, AllProper, Proper, Permitted, Sanctioned, Interactive
<1> QED
    BY <1>1, InvHolds, PTL

\* AuditIsHonest, for every instance: an entry of success was carried out, and one of a
\* refusal or a failure was not, unless an error took the place of the answer (call, _record).
THEOREM AuditIsAlwaysHonest == Spec => []AuditIsHonest
<1>1. Inv => AuditIsHonest
    BY DEF Inv, AllProper, Proper, AuditIsHonest
<1> QED
    BY <1>1, InvHolds, PTL

\* WritesSpaced, for every instance: no two writes pass the gate within the minimum gap,
\* however many runs and tools wait and whichever of them is cut off.
THEOREM WritesAreSpaced == Spec => WritesSpaced
<1> DEFINE Spaced == \A c \in Calls :
                        call[c].pc \in {"gating", "spacing"} /\ call'[c].pc = "preparing"
                        => since = MinGap
<1>1. ASSUME Inv, [Next]_vars PROVE [Spaced]_call
    <2> SUFFICES ASSUME NEW c \in Calls, call[c].pc \in {"gating", "spacing"},
                        call'[c].pc = "preparing"
                 PROVE  since = MinGap
        OBVIOUS
    <2>0. TypeOK /\ call'[c] # call[c] /\ call[c].pc \notin {"queued", "asking"}
        BY <1>1 DEF Inv, GateIsHeld
    <2>1. ASSUME NEW r \in Runs, Loop(r) PROVE FALSE
        <3>1. ASSUME Ends(r) PROVE FALSE
            BY <2>0, <3>1 DEF Ends, NoCall
        <3>2. ASSUME NEW n \in 1..MaxToolCalls, Asks(r, n) PROVE FALSE
            BY <2>0, <3>2 DEF Asks, TypeOK, Call
        <3>3. ASSUME NEW k \in Kinds, NEW g \in SUBSET Grantable, Start(r, k, g) PROVE FALSE
            BY <2>0, <3>3 DEF Start
        <3> QED
            BY <2>0, <2>1, <3>1, <3>2, <3>3 DEF Loop, Cancel, Answers, StepEnds, NextStep, RunCut
    <2>2. ASSUME NEW d \in Calls, Tool(d), d # c PROVE FALSE
        BY <2>0, <2>2 DEF Tool, Authorise, Skip, Approve, Decline, Enter, Wake, Prepared,
                          Unprepared, Lands, Succeeds, Fails, Recorded, RecordFails, TimesOut,
                          Becomes, Settles, TypeOK
    <2>3. CASE Tool(c)
        <3>1. CASE Enter(c)
            <4>1. since = MinGap \/ call' = [call EXCEPT ![c] = [@ EXCEPT !.pc = "spacing",
                                                                  !.due = MinGap - since]]
                BY <3>1 DEF Enter
            <4> QED
                BY <2>0, <4>1 DEF TypeOK, Call
        <3>2. CASE Wake(c)
            <4>1. call[c].due = 0 /\ call[c].due = MinGap - since
                BY <1>1, <3>2 DEF Wake, Inv, Sleeps
            <4> QED
                BY <2>0, <4>1, Numbers DEF TypeOK
        <3>3. CASE \E m \in Methods, t \in Targets : Authorise(c, m, t)
            BY <3>3 DEF Authorise, ComesUp
        <3>4. CASE Skip(c) \/ Approve(c) \/ Decline(c) \/ Prepared(c) \/ Unprepared(c)
            BY <3>4 DEF Skip, ComesUp, Approve, Decline, Prepared, Unprepared
        <3>5. CASE Lands(c) \/ Succeeds(c) \/ Fails(c) \/ Recorded(c) \/ RecordFails(c)
            BY <3>5 DEF Lands, Succeeds, Fails, Recorded, RecordFails
        <3>6. CASE TimesOut(c)
            BY <2>0, <3>6 DEF TimesOut, TypeOK, Call
        <3> QED
            BY <2>3, <3>1, <3>2, <3>3, <3>4, <3>5, <3>6 DEF Tool
    <2>4. ASSUME Tick PROVE FALSE
        BY <2>0, <2>4 DEF Tick, TypeOK, Call
    <2>5. CASE UNCHANGED vars \/ \E m \in Methods, d \in Decisions : Administer(m, d)
        BY <2>0, <2>5 DEF vars, Administer
    <2> QED
        BY <1>1, <2>1, <2>2, <2>3, <2>4, <2>5 DEF Next
<1> QED
    BY <1>1, InvHolds, PTL DEF Spec, WritesSpaced
--------------------------------------------------------------------------------
(* The budget of a run.                                                      *)

\* A write that is decided and has no result, and those of a run that are carried out
\* and have one.
InFlight(c) == IsWrite(c) /\ call[c].pc \in {"asking"} \cup Passed
Landed(r) == {c \in CallsOf(r) : IsWrite(c) /\ call[c].landed}
Counted(r) == {c \in Landed(r) : call[c].pc # "executing"}

\* The counter knows of every write that has a result; at most one write of the run is
\* under way, and the budget had room for it.
Charged(r) ==
    /\ Cardinality(Counted(r)) <= used /\ Cardinality(Counted(r)) <= MaxOutbound
    /\ \A c \in CallsOf(r) : InFlight(c) => Cardinality(Counted(r)) < MaxOutbound
    /\ \A c, d \in Busy(r) : IsWrite(c) /\ IsWrite(d) => c = d
BudgetIsKept == \A r \in Runs \ blurred : Charged(r)

LEMMA CallsAreFinite ==
    ASSUME NEW r \in Runs
    PROVE  \A T \in SUBSET CallsOf(r) : IsFiniteSet(T) /\ Cardinality(T) \in Nat
<1>1. IsFiniteSet({r})
    BY FS_Singleton, Zenon
<1>2. IsFiniteSet(1..MaxToolCalls)
    <2>1. 1 \in Int /\ MaxToolCalls \in Int
        BY Numbers
    <2> QED
        BY <2>1, FS_Interval
<1>3. IsFiniteSet({r} \X (1..MaxToolCalls))
    BY <1>1, <1>2, FS_Product
<1>4. CallsOf(r) = {r} \X (1..MaxToolCalls)
    BY DEF CallsOf, Calls
<1> QED
    BY <1>3, <1>4, FS_Subset, FS_CardinalityType

\* A step that decides no write of a run and counts none leaves its budget as it was.
LEMMA StaysCharged ==
    ASSUME NEW r \in Runs, Charged(r), used \in Nat, used' \in Nat, used <= used',
           \A c \in CallsOf(r) : /\ InFlight(c)' => InFlight(c)
                                 /\ (IsWrite(c) /\ IsLive(c))' => IsWrite(c) /\ IsLive(c)
                                 /\ c \in Counted(r)' => c \in Counted(r)
    PROVE  Charged(r)'
<1>1. Counted(r) \in SUBSET CallsOf(r) /\ Counted(r)' \in SUBSET Counted(r)
    BY DEF Counted, Landed, CallsOf
<1>2. /\ IsFiniteSet(Counted(r)) /\ Cardinality(Counted(r)) \in Nat
      /\ Cardinality(Counted(r)') \in Nat /\ Cardinality(Counted(r)') <= Cardinality(Counted(r))
    <2>1. IsFiniteSet(Counted(r)) /\ Cardinality(Counted(r)) \in Nat
        BY <1>1, CallsAreFinite
    <2>2. Cardinality(Counted(r)') \in Nat
        BY <1>1, CallsAreFinite
    <2>3. Cardinality(Counted(r)') <= Cardinality(Counted(r))
        BY <1>1, <2>1, FS_Subset
    <2> QED
        BY <2>1, <2>2, <2>3
<1>3. MaxOutbound \in Nat
    BY AgentRunAssumption DEF AgentRunAssumption
<1>4. Cardinality(Counted(r)') <= used' /\ Cardinality(Counted(r)') <= MaxOutbound
    BY <1>2, <1>3 DEF Charged
<1>5. \A c \in CallsOf(r) : InFlight(c)' => Cardinality(Counted(r)') < MaxOutbound
    BY <1>2, <1>3 DEF Charged
<1>6. \A c, d \in Busy(r)' : IsWrite(c)' /\ IsWrite(d)' => c = d
    BY DEF Charged, Busy, CallsOf
<1> QED
    BY <1>4, <1>5, <1>6 DEF Charged, CallsOf

\* A run without calls has sent nothing.
LEMMA NothingIsCharged ==
    ASSUME NEW r \in Runs, used' \in Nat, \A c \in CallsOf(r) : call'[c] = NoCall
    PROVE  Charged(r)'
<1>1. Counted(r)' = {} /\ Busy(r)' = {} /\ \A c \in CallsOf(r) : ~InFlight(c)'
    BY DEF Counted, Landed, CallsOf, Busy, IsLive, Live, InFlight, Passed, NoCall
<1>2. Cardinality(Counted(r)') = 0 /\ MaxOutbound \in Nat
    BY <1>1, FS_EmptySet, AgentRunAssumption DEF AgentRunAssumption
<1> QED
    BY <1>1, <1>2 DEF Charged, CallsOf

\* The same for a step of one call, which may belong to another run.
LEMMA CallStaysCharged ==
    ASSUME TypeOK, NEW r \in Runs, Charged(r), used' \in Nat, used <= used',
           NEW c \in Calls, NEW q \in Call, call' = [call EXCEPT ![c] = q],
           \/ c[1] # r
           \/ q.method \notin Writes
           \/ /\ q.method = call[c].method
              /\ q.pc \in Live => call[c].pc \in Live
              /\ q.pc \in {"asking"} \cup Passed => call[c].pc \in {"asking"} \cup Passed
              /\ q.landed /\ q.pc # "executing" => call[c].landed /\ call[c].pc # "executing"
    PROVE  Charged(r)'
<1>1. used \in Nat /\ call'[c] = q /\ \A d \in Calls \ {c} : call'[d] = call[d]
    BY DEF TypeOK
<1>2. ASSUME NEW d \in CallsOf(r)
      PROVE  /\ InFlight(d)' => InFlight(d)
             /\ (IsWrite(d) /\ IsLive(d))' => IsWrite(d) /\ IsLive(d)
             /\ d \in Counted(r)' => d \in Counted(r)
    <2>1. CASE d # c
        BY <1>1, <2>1 DEF InFlight, IsWrite, IsLive, Counted, Landed, CallsOf
    <2>2. CASE d = c
        <3>1. c[1] = r
            BY <2>2 DEF CallsOf
        <3> QED
            BY <1>1, <2>2, <3>1 DEF InFlight, IsWrite, IsLive, Counted, Landed, CallsOf
    <2> QED
        BY <2>1, <2>2
<1> QED
    BY <1>1, <1>2, StaysCharged

--------------------------------------------------------------------------------
\* A run that starts resets the count of those in progress, and has none of its own; one
\* that ends takes its calls with it.
LEMMA LoopCharges ==
    ASSUME Inv, Inv', BudgetIsKept, NEW q \in Runs, Loop(q), NEW r \in Runs \ blurred'
    PROVE  Charged(r)'
<1>0. /\ TypeOK /\ used \in Nat /\ used' \in Nat
      /\ \A c \in CallsOf(r) : c \in Calls /\ c[1] = r /\ Proper(call[c], run[r], c[2])
    BY DEF Inv, GateIsHeld, TypeOK, AllProper, CallsOf
<1>1. ASSUME NEW k \in Kinds, NEW g \in SUBSET Grantable, Start(q, k, g) PROVE Charged(r)'
    <2>1. run[r].pc = "idle" /\ call' = call
        BY <1>1 DEF Start, InProgress
    <2>2. \A c \in CallsOf(r) : call'[c] = NoCall
        BY <1>0, <2>1 DEF Proper
    <2> QED
        BY <1>0, <2>2, NothingIsCharged
<1>2. ASSUME Ends(q), used' = used PROVE Charged(r)'
    <2>1. CASE q = r
        <3>1. \A c \in CallsOf(r) : call'[c] = NoCall
            BY <1>0, <1>2, <2>1 DEF Ends
        <3> QED
            BY <1>0, <3>1, NothingIsCharged
    <2>2. CASE q # r
        <3>1. r \notin blurred /\ \A c \in CallsOf(r) : call'[c] = call[c]
            BY <1>0, <1>2, <2>2 DEF Ends
        <3>2. \A c \in CallsOf(r) : /\ InFlight(c)' => InFlight(c)
                                    /\ (IsWrite(c) /\ IsLive(c))' => IsWrite(c) /\ IsLive(c)
                                    /\ c \in Counted(r)' => c \in Counted(r)
            BY <3>1 DEF InFlight, IsWrite, IsLive, Counted, Landed, CallsOf
        <3> QED
            BY <1>0, <1>2, <3>1, <3>2, StaysCharged DEF BudgetIsKept
    <2> QED
        BY <2>1, <2>2
<1>3. ASSUME call' = call, used' = used, blurred' = blurred PROVE Charged(r)'
    BY <1>3 DEF BudgetIsKept, Charged, InFlight, IsWrite, IsLive, Counted, Landed, CallsOf, Busy
<1>4. ASSUME NEW n \in 1..MaxToolCalls, Asks(q, n) PROVE Charged(r)'
    <2>1. /\ run[q].pc = "thinking" /\ UNCHANGED <<used, blurred>>
          /\ call' = [c \in Calls |-> IF c[1] = q /\ c[2] - run[q].made \in 1..n
                                      THEN [call[c] EXCEPT !.pc = "queued"] ELSE call[c]]
        BY <1>4 DEF Asks
    <2>2. ASSUME NEW c \in CallsOf(r)
          PROVE  /\ InFlight(c)' => InFlight(c)
                 /\ (IsWrite(c) /\ IsLive(c))' => IsWrite(c) /\ IsLive(c)
                 /\ c \in Counted(r)' => c \in Counted(r)
        <3>1. CASE call'[c] = call[c]
            BY <3>1 DEF InFlight, IsWrite, IsLive, Counted, Landed, CallsOf
        <3>2. CASE q = r /\ call'[c] = [call[c] EXCEPT !.pc = "queued"]
            <4>1. call[c] \in Call /\ call[c].pc # "executing"
                BY <1>0, <2>1, <3>2 DEF Proper, Live, TypeOK
            <4>2. /\ call'[c].pc = "queued" /\ call'[c].method = call[c].method
                  /\ call'[c].landed = call[c].landed
                BY <3>2, <4>1 DEF Call
            <4> QED
                BY <4>1, <4>2 DEF InFlight, Passed, IsWrite, IsLive, Live, Counted, Landed, CallsOf
        <3> QED
            BY <1>0, <2>1, <3>1, <3>2
    <2> QED
        BY <1>0, <2>1, <2>2, StaysCharged DEF BudgetIsKept
<1> QED
    BY <1>1, <1>2, <1>3, <1>4 DEF Loop, Cancel, Answers, StepEnds, NextStep, RunCut

\* What a decision says of the call.
LEMMA Decided ==
    ASSUME Inv, NEW c \in Calls, NEW m \in Methods, NEW t \in Targets, Authorise(c, m, t)
    PROVE  \E q \in Call : /\ call' = [call EXCEPT ![c] = q]
                           /\ q.method = m /\ ~q.landed
                           /\ q.pc = "recording" \/ ~Spent(m)
<1> DEFINE verdict == Ruling(c[1], m, t)
           known == [call[c] EXCEPT !.method = m, !.rule = policy[m],
                                    !.astray = verdict # "deny" /\ Astray(m, t)]
           q == CASE verdict = "deny" -> [known EXCEPT !.pc = "recording", !.outcome = "denied"]
                  [] verdict = "confirm" -> [known EXCEPT !.pc = "asking"]
                  [] verdict = "allow" -> [known EXCEPT !.pc = Allowed(m)]
<1>1. call[c].pc = "queued" /\ call' = [call EXCEPT ![c] = q]
    BY DEF Authorise, ComesUp
<1>2. /\ call[c] \in Call /\ Proper(call[c], run[c[1]], c[2]) /\ policy[m] \in Decisions
      /\ TypeOK /\ c[1] \in Runs
    BY CallIsPair DEF Inv, AllProper, GateIsHeld, TypeOK
<1>3. Spent(m) => verdict = "deny"
    BY DEF Ruling
<1>4. verdict \in Decisions /\ (verdict # "deny" => ~Astray(m, t))
    BY <1>2, RulingPermits
<1>5. Allowed(m) \in Live
    BY DEF Allowed, Live
<1> HIDE DEF verdict
<1>6. known \in Call /\ known.method = m /\ ~known.landed
    BY <1>1, <1>2, <1>4 DEF Call, Proper
<1> HIDE DEF known
<1>7. /\ q \in Call /\ q.method = m /\ ~q.landed
      /\ verdict = "deny" => q.pc = "recording"
    <2>1. CASE verdict = "deny"
        <3>1. q = [known EXCEPT !.pc = "recording", !.outcome = "denied"]
            BY <2>1
        <3> HIDE DEF q
        <3> QED
            BY <1>6, <2>1, <3>1 DEF Call, Outcomes, Live
    <2>2. CASE verdict # "deny"
        <3>1. PICK pc \in Live : q = [known EXCEPT !.pc = pc]
            <4>1. CASE verdict = "confirm"
                BY <4>1 DEF Live
            <4>2. CASE verdict = "allow"
                BY <1>5, <4>2
            <4> QED
                BY <1>4, <2>2, <4>1, <4>2 DEF Decisions
        <3> HIDE DEF q
        <3> QED
            BY <1>6, <2>2, <3>1 DEF Call
    <2> QED
        BY <2>1, <2>2
<1> HIDE DEF q
<1> QED
    BY <1>1, <1>3, <1>7

\* A write that is let through alone has room: the counter knows of all that were sent.
LEMMA AuthoriseCharges ==
    ASSUME Inv, Inv', BudgetIsKept, NEW r \in Runs \ blurred', NEW c \in Calls,
           NEW m \in Methods, NEW t \in Targets, Authorise(c, m, t)
    PROVE  Charged(r)'
<1>1. PICK q \in Call : /\ call' = [call EXCEPT ![c] = q] /\ q.method = m /\ ~q.landed
                        /\ q.pc = "recording" \/ ~Spent(m)
    BY Decided
<1>2. used' = used /\ used \in Nat /\ Blurs(c, m) /\ TypeOK
    BY DEF Authorise, Inv, GateIsHeld, TypeOK
<1>3. r \notin blurred /\ Charged(r)
    <2>1. blurred \subseteq blurred'
        BY <1>2 DEF Blurs
    <2> QED
        BY <2>1 DEF BudgetIsKept
<1>4. CASE c[1] # r \/ m \notin Writes
    <2>1. used' \in Nat /\ used <= used' /\ (c[1] # r \/ q.method \notin Writes)
        BY <1>1, <1>2, <1>4
    <2> QED
        BY <1>1, <1>2, <1>3, <2>1, CallStaysCharged
<1>5. CASE c[1] = r /\ m \in Writes
    <2>1. /\ call'[c] = q /\ \A d \in Calls \ {c} : call'[d] = call[d]
          /\ \A d \in Busy(r) \ {c} : ~IsWrite(d)
        BY <1>1, <1>2, <1>5 DEF TypeOK, Blurs
    <2>2. Counted(r)' \in SUBSET Counted(r) /\ Counted(r) \in SUBSET CallsOf(r)
        BY <1>1, <2>1 DEF Counted, Landed, CallsOf, IsWrite
    <2>3. /\ Cardinality(Counted(r)) \in Nat /\ Cardinality(Counted(r)') \in Nat
          /\ Cardinality(Counted(r)') <= Cardinality(Counted(r))
        <3>1. IsFiniteSet(Counted(r)) /\ Cardinality(Counted(r)) \in Nat
            BY <2>2, CallsAreFinite
        <3>2. Cardinality(Counted(r)') \in Nat
            BY <2>2, CallsAreFinite
        <3> QED
            BY <2>2, <3>1, <3>2, FS_Subset
    <2>4. MaxOutbound \in Nat
        BY AgentRunAssumption DEF AgentRunAssumption
    <2>5. ASSUME NEW d \in CallsOf(r), InFlight(d)' PROVE Cardinality(Counted(r)') < MaxOutbound
        <3>1. d = c
            BY <2>1, <2>5 DEF InFlight, IsWrite, Busy, IsLive, Live, Passed, CallsOf
        <3>2. ~Spent(m)
            BY <1>1, <2>1, <2>5, <3>1 DEF InFlight, Passed
        <3> QED
            BY <1>2, <1>3, <1>5, <2>3, <2>4, <3>2 DEF Charged, Spent
    <2>6. \A d, e \in Busy(r)' : IsWrite(d)' /\ IsWrite(e)' => d = e
        BY <2>1 DEF Busy, IsLive, IsWrite, CallsOf
    <2>7. Cardinality(Counted(r)') <= used' /\ Cardinality(Counted(r)') <= MaxOutbound
        BY <1>2, <1>3, <2>3, <2>4 DEF Charged
    <2> QED
        BY <2>5, <2>6, <2>7 DEF Charged, CallsOf
<1> QED
    BY <1>4, <1>5

\* A write that succeeds is counted, and was the only one under way.
LEMMA SucceedsCharges ==
    ASSUME Inv, BudgetIsKept, NEW r \in Runs \ blurred', NEW c \in Calls, Succeeds(c)
    PROVE  Charged(r)'
<1> DEFINE q == [call[c] EXCEPT !.pc = "recording", !.outcome = "ok"]
<1>1. /\ call[c].pc = "executing" /\ call[c].landed /\ call' = [call EXCEPT ![c] = q]
      /\ used' = IF IsWrite(c) THEN used + 1 ELSE used
      /\ blurred' = blurred
    BY DEF Succeeds, Settles
<1>2. TypeOK /\ used \in Nat /\ call[c] \in Call /\ used' \in Nat /\ used <= used'
    BY <1>1 DEF Inv, GateIsHeld, TypeOK
<1>3. /\ q \in Call /\ q.pc = "recording" /\ q.method = call[c].method
      /\ q.landed = call[c].landed
    BY <1>2 DEF Call, Live, Outcomes
<1>4. Charged(r)
    BY <1>1 DEF BudgetIsKept
<1> HIDE DEF q
<1>5. CASE c[1] # r \/ ~IsWrite(c)
    BY <1>1, <1>2, <1>3, <1>4, <1>5, CallStaysCharged DEF IsWrite
<1>6. CASE c[1] = r /\ IsWrite(c)
    <2>1. /\ call'[c] = q /\ (\A d \in Calls \ {c} : call'[d] = call[d])
          /\ c \in CallsOf(r) /\ InFlight(c) /\ c \in Busy(r)
        BY <1>1, <1>2, <1>6 DEF TypeOK, CallsOf, InFlight, Passed, Busy, IsLive, Live
    <2>2. Counted(r)' = Counted(r) \cup {c} /\ c \notin Counted(r)
        <3>1. c \notin Counted(r) /\ c \in Counted(r)'
            BY <1>1, <1>3, <1>6, <2>1 DEF Counted, Landed, CallsOf, IsWrite
        <3>2. \A d \in CallsOf(r) \ {c} : d \in Counted(r)' <=> d \in Counted(r)
            BY <2>1 DEF Counted, Landed, CallsOf, IsWrite
        <3>3. Counted(r) \subseteq CallsOf(r) /\ Counted(r)' \subseteq CallsOf(r)
            BY DEF Counted, Landed, CallsOf
        <3> QED
            BY <3>1, <3>2, <3>3
    <2>3. IsFiniteSet(Counted(r)) /\ Cardinality(Counted(r)) \in Nat
        <3>1. Counted(r) \in SUBSET CallsOf(r)
            BY DEF Counted, Landed
        <3> QED
            BY <3>1, CallsAreFinite
    <2>4. Cardinality(Counted(r)') = Cardinality(Counted(r)) + 1
        <3>1. Cardinality(Counted(r) \cup {c}) = IF c \in Counted(r) THEN Cardinality(Counted(r))
                                                 ELSE Cardinality(Counted(r)) + 1
            BY <2>3, FS_AddElement
        <3> QED
            BY <2>2, <3>1
    <2>5. MaxOutbound \in Nat
        BY AgentRunAssumption DEF AgentRunAssumption
    <2>6. Cardinality(Counted(r)') <= used' /\ Cardinality(Counted(r)') <= MaxOutbound
        <3>1. Cardinality(Counted(r)) <= used /\ Cardinality(Counted(r)) < MaxOutbound
            BY <1>4, <2>1 DEF Charged
        <3> QED
            BY <1>1, <1>2, <1>6, <2>3, <2>4, <2>5, <3>1
    <2>7. \A d \in CallsOf(r) : ~InFlight(d)'
        BY <1>3, <1>4, <1>6, <2>1 DEF Charged, InFlight, IsWrite, Busy, IsLive, Live, Passed,
                                     CallsOf
    <2>8. \A d, e \in Busy(r)' : IsWrite(d)' /\ IsWrite(e)' => d = e
        <3>1. \A d \in Busy(r)' : IsWrite(d)' => d \in Busy(r) /\ IsWrite(d)
            BY <1>3, <2>1 DEF Busy, IsLive, IsWrite, CallsOf
        <3> QED
            BY <1>4, <3>1 DEF Charged
    <2> QED
        BY <2>6, <2>7, <2>8 DEF Charged, CallsOf
<1> QED
    BY <1>5, <1>6

\* Any other step of a call; when its answer is lost the run is blurred.
LEMMA ToolCharges ==
    ASSUME Inv, Inv', BudgetIsKept, NEW r \in Runs \ blurred', NEW c \in Calls, Tool(c)
    PROVE  Charged(r)'
<1>0. TypeOK /\ call[c] \in Call /\ used \in Nat /\ MinGap \in Nat
    BY Numbers DEF Inv, GateIsHeld, TypeOK
<1>1. ASSUME NEW q \in Call, call' = [call EXCEPT ![c] = q], used' = used, r \notin blurred,
             q.method = call[c].method, q.pc \in Live => call[c].pc \in Live,
             q.pc \in {"asking"} \cup Passed => call[c].pc \in {"asking"} \cup Passed,
             \/ c[1] # r
             \/ q.method \notin Writes
             \/ q.landed /\ q.pc # "executing" => call[c].landed /\ call[c].pc # "executing"
      PROVE  Charged(r)'
    <2>1. Charged(r) /\ used <= used' /\ used' \in Nat
        BY <1>0, <1>1 DEF BudgetIsKept
    <2> QED
        BY <1>0, <1>1, <2>1, CallStaysCharged
<1>2. CASE Skip(c)
    <2> DEFINE q == [call[c] EXCEPT !.pc = "over", !.outcome = "failed"]
    <2>1. call[c].pc = "queued" /\ call' = [call EXCEPT ![c] = q] /\ UNCHANGED <<used, blurred>>
        BY <1>2 DEF Skip, ComesUp
    <2>2. /\ q \in Call /\ q.pc = "over" /\ q.method = call[c].method /\ q.landed = call[c].landed
        BY <1>0 DEF Call, Outcomes
    <2> HIDE DEF q
    <2> QED
        BY <1>1, <2>1, <2>2 DEF Live, Passed
<1>3. CASE Approve(c)
    <2> DEFINE q == [call[c] EXCEPT !.pc = Allowed(call[c].method), !.approved = TRUE]
    <2>1. call[c].pc = "asking" /\ call' = [call EXCEPT ![c] = q] /\ UNCHANGED <<used, blurred>>
        BY <1>3 DEF Approve
    <2>2. /\ q \in Call /\ q.pc \in {"gating", "preparing"} /\ q.method = call[c].method
          /\ q.landed = call[c].landed
        BY <1>0 DEF Call, Live, Allowed
    <2> HIDE DEF q
    <2> QED
        BY <1>1, <2>1, <2>2 DEF Live, Passed
<1>4. CASE Enter(c)
    <2>1. PICK q \in Call : /\ call' = [call EXCEPT ![c] = q] /\ q.pc \in {"preparing", "spacing"}
                            /\ q.method = call[c].method /\ q.landed = call[c].landed
        <3>1. CASE since = MinGap
            <4> DEFINE q == [call[c] EXCEPT !.pc = "preparing"]
            <4>1. call' = [call EXCEPT ![c] = q]
                BY <1>4, <3>1 DEF Enter, Becomes
            <4>2. /\ q \in Call /\ q.pc = "preparing" /\ q.method = call[c].method
                  /\ q.landed = call[c].landed
                BY <1>0 DEF Call, Live
            <4> HIDE DEF q
            <4> QED
                BY <4>1, <4>2
        <3>2. CASE since # MinGap
            <4> DEFINE q == [call[c] EXCEPT !.pc = "spacing", !.due = MinGap - since]
            <4>1. call' = [call EXCEPT ![c] = q]
                BY <1>4, <3>2 DEF Enter
            <4>2. MinGap - since \in 0..MinGap
                BY <1>0 DEF TypeOK
            <4>3. /\ q \in Call /\ q.pc = "spacing" /\ q.method = call[c].method
                  /\ q.landed = call[c].landed
                BY <1>0, <4>2 DEF Call, Live
            <4> HIDE DEF q
            <4> QED
                BY <4>1, <4>3
        <3> QED
            BY <3>1, <3>2
    <2>2. call[c].pc = "gating" /\ UNCHANGED <<used, blurred>>
        BY <1>4 DEF Enter
    <2> QED
        BY <1>1, <2>1, <2>2 DEF Live, Passed
<1>5. CASE Wake(c) \/ Prepared(c)
    <2>1. PICK pc \in {"preparing", "executing"} :
             /\ call' = [call EXCEPT ![c] = [call[c] EXCEPT !.pc = pc]]
             /\ call[c].pc \in {"spacing", "preparing"} /\ UNCHANGED <<used, blurred>>
        BY <1>5 DEF Wake, Prepared, Becomes
    <2> DEFINE q == [call[c] EXCEPT !.pc = pc]
    <2>2. /\ q \in Call /\ q.pc = pc /\ q.method = call[c].method /\ q.landed = call[c].landed
        BY <1>0, <2>1 DEF Call, Live
    <2>3. call' = [call EXCEPT ![c] = q]
        BY <2>1
    <2> HIDE DEF q
    <2> QED
        BY <1>1, <2>1, <2>2, <2>3 DEF Live, Passed
<1>6. CASE Decline(c) \/ Unprepared(c)
    <2>1. PICK outcome \in Outcomes :
             /\ call' = [call EXCEPT ![c] = [call[c] EXCEPT !.pc = "recording", !.outcome = outcome]]
             /\ call[c].pc \in {"asking", "preparing"} /\ UNCHANGED <<used, blurred>>
        BY <1>6 DEF Decline, Unprepared, Settles, Outcomes
    <2> DEFINE q == [call[c] EXCEPT !.pc = "recording", !.outcome = outcome]
    <2>2. /\ q \in Call /\ q.pc = "recording" /\ q.method = call[c].method
          /\ q.landed = call[c].landed
        BY <1>0, <2>1 DEF Call, Live
    <2>3. call' = [call EXCEPT ![c] = q]
        BY <2>1
    <2> HIDE DEF q
    <2> QED
        BY <1>1, <2>1, <2>2, <2>3 DEF Live, Passed
<1>7. CASE Lands(c)
    <2> DEFINE q == [call[c] EXCEPT !.landed = TRUE]
    <2>1. call[c].pc = "executing" /\ call' = [call EXCEPT ![c] = q] /\ UNCHANGED <<used, blurred>>
        BY <1>7 DEF Lands
    <2>2. q \in Call /\ q.pc = "executing" /\ q.method = call[c].method
        BY <1>0, <2>1 DEF Call
    <2> HIDE DEF q
    <2> QED
        BY <1>1, <2>1, <2>2 DEF Live, Passed
<1>8. CASE Recorded(c)
    <2> DEFINE q == [call[c] EXCEPT !.pc = "over", !.audit = call[c].outcome]
    <2>1. call[c].pc = "recording" /\ call' = [call EXCEPT ![c] = q] /\ UNCHANGED <<used, blurred>>
        BY <1>8 DEF Recorded
    <2>2. /\ q \in Call /\ q.pc = "over" /\ q.method = call[c].method /\ q.landed = call[c].landed
        BY <1>0 DEF Call
    <2> HIDE DEF q
    <2> QED
        BY <1>1, <2>1, <2>2 DEF Live, Passed
<1>9. CASE RecordFails(c)
    <2> DEFINE q == [call[c] EXCEPT !.pc = "over", !.audit = "lost"]
    <2>1. call[c].pc = "recording" /\ call' = [call EXCEPT ![c] = q] /\ UNCHANGED <<used, blurred>>
        BY <1>9 DEF RecordFails
    <2>2. /\ q \in Call /\ q.pc = "over" /\ q.method = call[c].method /\ q.landed = call[c].landed
        BY <1>0 DEF Call
    <2> HIDE DEF q
    <2> QED
        BY <1>1, <2>1, <2>2 DEF Live, Passed
<1>10. CASE TimesOut(c)
    <2> DEFINE q == [call[c] EXCEPT !.pc = "over", !.outcome = "failed", !.due = 0, !.audit = "lost"]
    <2>1. /\ call[c].pc \in Live /\ call' = [call EXCEPT ![c] = q] /\ used' = used /\ BlursLost(c)
        BY <1>10 DEF TimesOut, IsLive
    <2>2. r \notin blurred /\ (call[c].pc = "executing" /\ c[1] = r /\ IsWrite(c) => ~call[c].landed)
        BY <2>1 DEF BlursLost
    <2>3. 0 \in 0..MinGap
        BY <1>0
    <2>4. /\ q \in Call /\ q.pc = "over" /\ q.method = call[c].method /\ q.landed = call[c].landed
        BY <1>0, <2>3 DEF Call, Outcomes
    <2> HIDE DEF q
    <2> QED
        BY <1>1, <2>1, <2>2, <2>4 DEF Live, Passed, IsWrite
<1>11. CASE Fails(c)
    <2> DEFINE q == [call[c] EXCEPT !.pc = "recording", !.outcome = "failed",
                                    !.unheard = call[c].landed]
    <2>1. /\ call[c].pc = "executing" /\ call' = [call EXCEPT ![c] = q] /\ used' = used
          /\ BlursLost(c)
        BY <1>11 DEF Fails
    <2>2. r \notin blurred /\ (c[1] = r /\ IsWrite(c) => ~call[c].landed)
        BY <2>1 DEF BlursLost
    <2>3. /\ q \in Call /\ q.pc = "recording" /\ q.method = call[c].method
          /\ q.landed = call[c].landed
        BY <1>0 DEF Call, Live, Outcomes
    <2> HIDE DEF q
    <2> QED
        BY <1>1, <2>1, <2>2, <2>3 DEF Live, Passed, IsWrite
<1> QED
    BY <1>2, <1>3, <1>4, <1>5, <1>6, <1>7, <1>8, <1>9, <1>10, <1>11,
       AuthoriseCharges, SucceedsCharges DEF Tool

LEMMA BudgetStays ==
    ASSUME Inv, Inv', BudgetIsKept, [Next]_vars PROVE BudgetIsKept'
<1> SUFFICES ASSUME NEW r \in Runs \ blurred' PROVE Charged(r)'
    BY DEF BudgetIsKept
<1>1. ASSUME UNCHANGED <<used, call, blurred>> PROVE Charged(r)'
    BY <1>1 DEF BudgetIsKept, Charged, InFlight, IsWrite, IsLive, Counted, Landed, CallsOf, Busy
<1>2. CASE Tick
    <2> DEFINE now(c) == IF call[c].due > 0 THEN [call[c] EXCEPT !.due = @ - 1] ELSE call[c]
    <2>1. /\ call' = [c \in Calls |-> now(c)] /\ UNCHANGED <<used, blurred>>
        BY <1>2 DEF Tick
    <2>2. \A c \in Calls : /\ now(c).pc = call[c].pc /\ now(c).method = call[c].method
                           /\ now(c).landed = call[c].landed
        BY DEF Inv, GateIsHeld, TypeOK, Call
    <2> HIDE DEF now
    <2>3. \A c \in CallsOf(r) : /\ InFlight(c)' => InFlight(c)
                                /\ (IsWrite(c) /\ IsLive(c))' => IsWrite(c) /\ IsLive(c)
                                /\ c \in Counted(r)' => c \in Counted(r)
        BY <2>1, <2>2 DEF InFlight, IsWrite, IsLive, Counted, Landed, CallsOf
    <2>4. used \in Nat /\ used' \in Nat /\ used <= used' /\ Charged(r)
        BY <2>1 DEF Inv, GateIsHeld, TypeOK, BudgetIsKept
    <2> QED
        BY <2>3, <2>4, StaysCharged
<1> QED
    BY <1>1, <1>2, LoopCharges, ToolCharges DEF Next, Administer, vars

\* QuietBudgetHolds, for every instance: a run whose writes do not overlap, whose answers
\* arrive and beside which no other run starts sends at most its budget (_outbound_count).
THEOREM BudgetHolds == Spec => []QuietBudgetHolds
<1>1. Init => BudgetIsKept
    <2> SUFFICES ASSUME Init, NEW r \in Runs PROVE Charged(r)
        BY DEF BudgetIsKept
    <2>1. /\ Counted(r) = {} /\ Busy(r) = {} /\ used = 0
          /\ \A c \in CallsOf(r) : ~InFlight(c)
        BY DEF Init, Counted, Landed, CallsOf, Busy, IsLive, Live, InFlight, Passed, NoCall
    <2>2. Cardinality(Counted(r)) = 0 /\ MaxOutbound \in Nat
        BY <2>1, FS_EmptySet, AgentRunAssumption DEF AgentRunAssumption
    <2> QED
        BY <2>1, <2>2 DEF Charged
<1>2. ASSUME BudgetIsKept, NEW r \in Runs \ blurred PROVE Sent(r) <= MaxOutbound
    <2> DEFINE n == Cardinality(Counted(r))
    <2>1. Charged(r) /\ Sent(r) = Cardinality(Landed(r))
        BY <1>2 DEF BudgetIsKept, Sent, Landed
    <2>2. /\ IsFiniteSet(Counted(r)) /\ n \in Nat /\ Sent(r) \in Nat /\ MaxOutbound \in Nat
        <3>1. Counted(r) \in SUBSET CallsOf(r) /\ Landed(r) \in SUBSET CallsOf(r)
            BY DEF Counted, Landed
        <3>2. IsFiniteSet(Counted(r)) /\ n \in Nat
            BY <3>1, CallsAreFinite
        <3>3. Sent(r) \in Nat
            BY <2>1, <3>1, CallsAreFinite
        <3> QED
            BY <3>2, <3>3, AgentRunAssumption DEF AgentRunAssumption
    <2>3. CASE Landed(r) \subseteq Counted(r)
        <3>1. Landed(r) = Counted(r)
            BY <2>3 DEF Counted
        <3> QED
            BY <2>1, <3>1 DEF Charged
    <2>4. CASE ~(Landed(r) \subseteq Counted(r))
        <3>1. PICK c \in Landed(r) : c \notin Counted(r)
            BY <2>4
        <3>2. /\ c \in CallsOf(r) /\ InFlight(c)
              /\ \A d \in Landed(r) : d \notin Counted(r) => d = c
            BY <2>1, <3>1 DEF Counted, Landed, InFlight, Passed, Charged, Busy, IsLive, Live
        <3>3. Landed(r) = Counted(r) \cup {c}
            BY <3>1, <3>2 DEF Counted
        <3>4. Cardinality(Counted(r) \cup {c}) = IF c \in Counted(r) THEN n ELSE n + 1
            BY <2>2, FS_AddElement
        <3>5. n < MaxOutbound
            BY <2>1, <3>2 DEF Charged
        <3> QED
            <4>1. Sent(r) = n + 1
                BY <2>1, <3>1, <3>3, <3>4
            <4> HIDE DEF n
            <4> QED
                BY <2>2, <3>5, <4>1
    <2> QED
        BY <2>3, <2>4
<1>3. BudgetIsKept => QuietBudgetHolds
    BY <1>2 DEF QuietBudgetHolds
<1> QED
    BY <1>1, <1>3, BudgetStays, InvHolds, PTL DEF Spec
===============================================================================
