-------------------------------- MODULE AgentRun -------------------------------
(***************************************************************************)
(* Runs of the agent and the one gate in front of Telegram: the loop of     *)
(* agent/runtime.py, the decision of security/permissions.py and the call   *)
(* of telegram/gateway.py.                                                  *)
(*                                                                         *)
(* The engine, its counter and the write gate are shared by every run. A    *)
(* tool call stands for one operation; the calls of a step run in parallel  *)
(* and are suspended at a prompt, at the gate, at Telegram and at the audit *)
(* log. How a prompt is answered is ChatControl's subject.                  *)
(***************************************************************************)
EXTENDS Naturals, FiniteSets

CONSTANTS
    Runs,
    Methods, Writes,   \* operations, and those others can see
    Targets,           \* chats as a call names them
    AllowList, DenyList, \* permissions.chat_allowlist, chat_denylist
    Grantable,         \* what a scheduled task may have been granted
    ReadOnly,          \* permissions.read_only_mode
    Fallback,          \* permissions.non_interactive_decision
    MaxOutbound,       \* permissions.max_outbound_per_run
    MinGap,            \* permissions.min_seconds_between_writes, in ticks
    MaxSteps, MaxToolCalls, MaxErrors, MaxParallel, \* the limits of settings.agent
    MaxBusy            \* bound: tool calls of all runs in progress together

Decisions == {"allow", "confirm", "deny"}

\* A chat by its name in one of three spellings, by its number or by an invitation.
Peers == [form : {"at", "plain", "link", "id", "invite"}, of : STRING]
NoTarget == [form |-> "none", of |-> "none"]

ASSUME AgentRunAssumption ==
    /\ Writes \subseteq Methods /\ Grantable \subseteq Methods
    /\ Targets \subseteq Peers \cup {NoTarget}
    /\ AllowList \subseteq Peers /\ DenyList \subseteq Peers
    /\ ReadOnly \in BOOLEAN /\ Fallback \in Decisions
    /\ {MaxOutbound, MinGap, MaxBusy} \subseteq Nat
    /\ {MaxSteps, MaxToolCalls, MaxErrors, MaxParallel} \subseteq Nat \ {0}

VARIABLES
    policy,  \* the decision in force for every method
    used,    \* _outbound_count of the engine
    since,   \* ticks since _last_write_at, up to MinGap
    gate,    \* the call that holds _write_gate
    run,
    call,    \* the tool calls of every run, in the order the model asked
    blurred  \* history: runs the counter does not count right (see Blurs)

vars == <<policy, used, since, gate, run, call, blurred>>

Calls == Runs \X (1..MaxToolCalls)
None == <<>>

Kinds == {"chat", "reply", "task"}
Run == [pc : {"idle", "thinking", "calling"},
        kind : Kinds, grants : SUBSET Grantable, cancel : BOOLEAN,
        step : 0..MaxSteps, errors : 0..(MaxErrors - 1),
        made : 0..MaxToolCalls] \* tool calls of the steps before this one
Live == {"asking", "gating", "spacing", "preparing", "executing", "recording"}
Outcomes == {"denied", "failed", "ok"}
Call == [pc : {"unasked", "queued", "over"} \cup Live,
         method : Methods \cup {"none"}, astray : BOOLEAN,
         rule : Decisions \cup {"none"},  \* the policy it was decided under
         approved : BOOLEAN,              \* somebody said yes to its prompt
         landed : BOOLEAN,                \* Telegram has carried it out
         unheard : BOOLEAN,               \* history: and the gateway met an error
                                          \*   in the place of its answer
         due : 0..MinGap,                 \* what is left of its sleep
         outcome : Outcomes \cup {"none"},
         audit : Outcomes \cup {"none", "lost"}]

NoRun == [pc |-> "idle", kind |-> "chat", grants |-> {}, cancel |-> FALSE,
          step |-> 0, errors |-> 0, made |-> 0]
NoCall == [pc |-> "unasked", method |-> "none", astray |-> FALSE, rule |-> "none",
           approved |-> FALSE, landed |-> FALSE, unheard |-> FALSE, due |-> 0,
           outcome |-> "none", audit |-> "none"]

Interactive(r) == run[r].kind = "chat"
CallsOf(r) == {c \in Calls : c[1] = r}
InProgress(r) == run[r].pc # "idle"
IsLive(c) == call[c].pc \in Live
Busy(r) == {c \in CallsOf(r) : IsLive(c)}
Batch(r) == {c \in CallsOf(r) : c[2] > run[r].made /\ call[c].pc # "unasked"}
IsWrite(c) == call[c].method \in Writes
Sent(r) == Cardinality({c \in CallsOf(r) : IsWrite(c) /\ call[c].landed})

TypeOK ==
    /\ policy \in [Methods -> Decisions]
    /\ used \in Nat
    /\ since \in 0..MinGap
    /\ gate \in Calls \cup {None}
    /\ run \in [Runs -> Run]
    /\ call \in [Calls -> Call]
    /\ blurred \in SUBSET Runs

Init ==
    /\ policy \in [Methods -> Decisions]
    /\ used = 0 /\ since = MinGap /\ gate = None
    /\ run = [r \in Runs |-> NoRun] /\ call = [c \in Calls |-> NoCall]
    /\ blurred = {}

--------------------------------------------------------------------------------
(* AgentRuntime.run.                                                        *)

\* Every run resets the counter of the engine, and with it the count of the runs
\* that are in progress.
Start(r, kind, grants) ==
    /\ run[r].pc = "idle"
    /\ grants # {} => kind = "task"
    /\ run' = [run EXCEPT ![r] = [@ EXCEPT !.pc = "thinking", !.kind = kind,
                                          !.grants = grants, !.step = 1]]
    /\ used' = 0
    /\ blurred' = blurred \cup {q \in Runs : InProgress(q)}
    /\ UNCHANGED <<policy, since, gate, call>>

Cancel(r) ==
    /\ InProgress(r) /\ ~run[r].cancel
    /\ run' = [run EXCEPT ![r].cancel = TRUE]
    /\ UNCHANGED <<policy, used, since, gate, call, blurred>>

\* A run that ends leaves its audit entries, which are no part of this state.
Ends(r) ==
    /\ run' = [run EXCEPT ![r] = NoRun]
    /\ call' = [c \in Calls |-> IF c[1] = r THEN NoCall ELSE call[c]]
    /\ blurred' = blurred \ {r}

\* The model asks for n tools.
Asks(r, n) ==
    /\ run[r].pc = "thinking"
    /\ run[r].made + n <= MaxToolCalls
    /\ Cardinality({c \in Calls : call[c].pc # "unasked"}) + n <= MaxBusy
    /\ run' = [run EXCEPT ![r].pc = "calling"]
    /\ call' = [c \in Calls |->
                  IF c[1] = r /\ c[2] - run[r].made \in 1..n
                  THEN [call[c] EXCEPT !.pc = "queued"] ELSE call[c]]
    /\ UNCHANGED <<policy, used, since, gate, blurred>>

\* It answers, fails, takes too long or asks for more tools than are left.
Answers(r) ==
    /\ run[r].pc = "thinking"
    /\ Ends(r)
    /\ UNCHANGED <<policy, used, since, gate>>

Errors(r) == IF \A c \in Batch(r) : call[c].outcome # "ok"
             THEN run[r].errors + 1 ELSE 0
ResultsIn(r) == run[r].pc = "calling" /\ \A c \in Batch(r) : call[c].pc = "over"
LimitsReached(r) ==
    Errors(r) >= MaxErrors \/ run[r].step = MaxSteps \/ run[r].cancel

StepEnds(r) ==
    /\ ResultsIn(r) /\ LimitsReached(r)
    /\ Ends(r)
    /\ UNCHANGED <<policy, used, since, gate>>

NextStep(r) ==
    /\ ResultsIn(r) /\ ~LimitsReached(r)
    /\ run' = [run EXCEPT ![r] =
                 [run[r] EXCEPT !.pc = "thinking", !.step = @ + 1, !.errors = Errors(r),
                                !.made = @ + Cardinality(Batch(r))]]
    /\ UNCHANGED <<policy, used, since, gate, call, blurred>>

--------------------------------------------------------------------------------
(* PermissionEngine.authorize.                                              *)

\* _normalise_peer: the spellings of a name are one; a number and an invitation are
\* not known to be the same chat.
NormalPeer(p) == IF p.form \in {"at", "plain", "link"} THEN [p EXCEPT !.form = "plain"]
                 ELSE p
Listed(t, list) == \E p \in list : NormalPeer(p) = NormalPeer(t)

\* _check_chat_lists: with a list, a call that does not say where it goes is refused.
OffLimits(t) ==
    IF t = NoTarget THEN AllowList \cup DenyList # {}
    ELSE \/ Listed(t, DenyList)
         \/ AllowList # {} /\ ~Listed(t, AllowList)

Astray(m, t) == m \in Writes /\ (ReadOnly \/ OffLimits(t))
\* Mutant: the last operation is not counted.
SpentLate(m) == m \in Writes /\ used > MaxOutbound
Spent(m) == m \in Writes /\ used >= MaxOutbound

\* Mutant: grants are kept on the engine, which every run shares.
GrantsOfAll(r) == UNION {run[q].grants : q \in {p \in Runs : InProgress(p)}}
GrantsOf(r) == run[r].grants

Ruling(r, m, t) ==
    IF Astray(m, t) \/ Spent(m) THEN "deny"
    ELSE IF m \in GrantsOf(r) THEN "allow"
    ELSE IF policy[m] = "confirm" /\ ~Interactive(r) THEN Fallback
    ELSE policy[m]

--------------------------------------------------------------------------------
(* TelegramGateway.call, inside _execute_one.                               *)

Becomes(c, pc) == call' = [call EXCEPT ![c].pc = pc]
\* The call has its outcome, which is written to the audit log next.
Settles(c, outcome) ==
    call' = [call EXCEPT ![c] = [@ EXCEPT !.pc = "recording", !.outcome = outcome]]
Allowed(m) == IF m \in Writes THEN "gating" ELSE "preparing"

\* The runs whose budget the counter cannot keep: a write is decided while
\* another of the run has been decided and not counted, or it is carried out and
\* its success never learnt.
Blurs(c, m) ==
    blurred' = IF m \in Writes /\ \E d \in Busy(c[1]) \ {c} : IsWrite(d)
               THEN blurred \cup {c[1]} ELSE blurred
BlursLost(c) ==
    blurred' = IF IsWrite(c) /\ call[c].landed /\ call[c].pc = "executing"
               THEN blurred \cup {c[1]} ELSE blurred

\* Queued calls are alike, and numbered in the order they come up.
ComesUp(c) ==
    call[c].pc = "queued" /\ \A d \in CallsOf(c[1]) : d[2] < c[2] => call[d].pc # "queued"

Authorise(c, m, t) ==
    /\ ComesUp(c) /\ run[c[1]].pc = "calling" /\ ~run[c[1]].cancel
    /\ Cardinality(Busy(c[1])) < MaxParallel
    /\ LET verdict == Ruling(c[1], m, t)
           known == [call[c] EXCEPT !.method = m, !.rule = policy[m],
                                    !.astray = verdict # "deny" /\ Astray(m, t)] IN
       call' = [call EXCEPT ![c] =
                  CASE verdict = "deny" -> [known EXCEPT !.pc = "recording",
                                                        !.outcome = "denied"]
                    [] verdict = "confirm" -> [known EXCEPT !.pc = "asking"]
                    [] verdict = "allow" -> [known EXCEPT !.pc = Allowed(m)]]
    /\ Blurs(c, m)
    /\ UNCHANGED <<policy, used, since, gate, run>>

\* A tool that comes up after the cancellation is not run.
Skip(c) ==
    /\ ComesUp(c) /\ run[c[1]].cancel
    /\ call' = [call EXCEPT ![c] = [@ EXCEPT !.pc = "over", !.outcome = "failed"]]
    /\ UNCHANGED <<policy, used, since, gate, run, blurred>>

Approve(c) ==
    /\ call[c].pc = "asking" /\ Interactive(c[1])
    /\ call' = [call EXCEPT ![c] = [@ EXCEPT !.pc = Allowed(call[c].method),
                                             !.approved = TRUE]]
    /\ UNCHANGED <<policy, used, since, gate, run, blurred>>

Decline(c) ==
    /\ call[c].pc = "asking"
    /\ Settles(c, "denied")
    /\ UNCHANGED <<policy, used, since, gate, run, blurred>>

\* Mutant: the gate is not taken, so two writes may sleep at once.
EnterUngated(c) ==
    /\ call[c].pc = "gating"
    /\ IF since = MinGap
       THEN Becomes(c, "preparing") /\ since' = 0
       ELSE /\ call' = [call EXCEPT ![c] = [@ EXCEPT !.pc = "spacing",
                                                     !.due = MinGap - since]]
            /\ since' = since
    /\ UNCHANGED <<policy, used, gate, run, blurred>>

\* _throttle_writes: a write that is early enough passes, another sleeps with
\* the gate in its hands.
Enter(c) ==
    /\ call[c].pc = "gating" /\ gate = None
    /\ IF since = MinGap
       THEN Becomes(c, "preparing") /\ since' = 0 /\ gate' = None
       ELSE /\ call' = [call EXCEPT ![c] = [@ EXCEPT !.pc = "spacing",
                                                     !.due = MinGap - since]]
            /\ gate' = c /\ since' = since
    /\ UNCHANGED <<policy, used, run, blurred>>

Wake(c) ==
    /\ call[c].pc = "spacing" /\ call[c].due = 0
    /\ Becomes(c, "preparing")
    /\ since' = 0 /\ gate' = None
    /\ UNCHANGED <<policy, used, run, blurred>>

\* _execute: the operation is found and its arguments are converted, for which a
\* peer may have to be looked up; the gate is behind it ...
Prepared(c) ==
    /\ call[c].pc = "preparing"
    /\ Becomes(c, "executing")
    /\ UNCHANGED <<policy, used, since, gate, run, blurred>>

\* ... or Telethon has no such operation, or not with these arguments, or nobody of
\* that name.
Unprepared(c) ==
    /\ call[c].pc = "preparing"
    /\ Settles(c, "failed")
    /\ UNCHANGED <<policy, used, since, gate, run, blurred>>

\* Telegram carries the request out ...
Lands(c) ==
    /\ call[c].pc = "executing" /\ ~call[c].landed
    /\ call' = [call EXCEPT ![c].landed = TRUE]
    /\ UNCHANGED <<policy, used, since, gate, run, blurred>>

\* Mutant: an answer that the projector of the tool cannot read is a failure.
SucceedsIfProjected(c) ==
    /\ call[c].pc = "executing" /\ call[c].landed
    /\ \E outcome \in {"ok", "failed"} : Settles(c, outcome)
    /\ used' = IF IsWrite(c) THEN used + 1 ELSE used
    /\ UNCHANGED <<policy, since, gate, run, blurred>>

\* ... and says so, ...
Succeeds(c) ==
    /\ call[c].pc = "executing" /\ call[c].landed
    /\ Settles(c, "ok")
    /\ used' = IF IsWrite(c) THEN used + 1 ELSE used
    /\ UNCHANGED <<policy, since, gate, run, blurred>>

\* ... or refuses it, or its answer is lost.
Fails(c) ==
    /\ call[c].pc = "executing"
    /\ call' = [call EXCEPT ![c] = [@ EXCEPT !.pc = "recording", !.outcome = "failed",
                                             !.unheard = call[c].landed]]
    /\ BlursLost(c)
    /\ UNCHANGED <<policy, used, since, gate, run>>

Recorded(c) ==
    /\ call[c].pc = "recording"
    /\ call' = [call EXCEPT ![c] = [@ EXCEPT !.pc = "over", !.audit = call[c].outcome]]
    /\ UNCHANGED <<policy, used, since, gate, run, blurred>>

\* "Auditing must never break a run": the error is logged.
RecordFails(c) ==
    /\ call[c].pc = "recording"
    /\ call' = [call EXCEPT ![c] = [@ EXCEPT !.pc = "over", !.audit = "lost"]]
    /\ UNCHANGED <<policy, used, since, gate, run, blurred>>

\* The tool exceeds tool_timeout: no entry is left in the audit log.
TimesOut(c) ==
    /\ IsLive(c)
    /\ call' = [call EXCEPT ![c] = [@ EXCEPT !.pc = "over", !.outcome = "failed",
                                             !.due = 0, !.audit = "lost"]]
    /\ gate' = IF gate = c THEN None ELSE gate
    /\ BlursLost(c)
    /\ UNCHANGED <<policy, used, since, run>>

\* Mutant: the gate is not given back by a call that is cancelled in it.
RunCutInGate(r) ==
    /\ InProgress(r)
    /\ Ends(r)
    /\ UNCHANGED <<policy, used, since, gate>>

\* The run exceeds run_timeout, or its task is cancelled, and its calls with it.
RunCut(r) ==
    /\ InProgress(r)
    /\ Ends(r)
    /\ gate' = IF gate \in CallsOf(r) THEN None ELSE gate
    /\ UNCHANGED <<policy, used, since>>

--------------------------------------------------------------------------------
\* `agent policy`: refused while a run of the bridge is active. A scheduled task
\* is not one.  Policy says which changes are accepted.
Administer(m, d) ==
    /\ \A r \in Runs : InProgress(r) => run[r].kind = "task"
    /\ policy[m] # d
    /\ policy' = [policy EXCEPT ![m] = d]
    /\ UNCHANGED <<used, since, gate, run, call, blurred>>

Tick ==
    /\ since < MinGap \/ \E c \in Calls : call[c].due > 0
    /\ since' = IF since < MinGap THEN since + 1 ELSE since
    /\ call' = [c \in Calls |-> IF call[c].due > 0
                                THEN [call[c] EXCEPT !.due = @ - 1] ELSE call[c]]
    /\ UNCHANGED <<policy, used, gate, run, blurred>>

Loop(r) == \/ \E k \in Kinds, g \in SUBSET Grantable : Start(r, k, g)
           \/ Cancel(r) \/ \E n \in 1..MaxToolCalls : Asks(r, n)
           \/ Answers(r) \/ StepEnds(r) \/ NextStep(r) \/ RunCut(r)
Tool(c) == \/ \E m \in Methods, t \in Targets : Authorise(c, m, t)
           \/ Skip(c) \/ Approve(c) \/ Decline(c) \/ Enter(c) \/ Wake(c)
           \/ Prepared(c) \/ Unprepared(c) \/ Lands(c) \/ Succeeds(c) \/ Fails(c) \/ Recorded(c) \/ RecordFails(c)
           \/ TimesOut(c)

Next ==
    \/ \E r \in Runs : Loop(r)
    \/ \E c \in Calls : Tool(c)
    \/ \E m \in Methods, d \in Decisions : Administer(m, d)
    \/ Tick

Spec == Init /\ [][Next]_vars

--------------------------------------------------------------------------------
(* Properties.                                                              *)

\* Nothing reaches Telegram that the policy did not allow, its own run was not
\* granted, nobody approved and the fallback does not permit; and nothing at all
\* against the chat lists, whatever else was allowed, granted or approved beside
\* it.
Sanctioned ==
    \A c \in Calls : call[c].landed =>
        /\ ~call[c].astray
        /\ \/ call[c].rule = "allow" \/ call[c].approved
           \/ call[c].method \in run[c[1]].grants
           \/ call[c].rule = "confirm" /\ ~Interactive(c[1]) /\ Fallback = "allow"

\* One run never sends more than its budget, unless the counter cannot know: its
\* writes overlap, another run resets the counter, or an answer is lost.
QuietBudgetHolds == \A r \in Runs \ blurred : Sent(r) <= MaxOutbound

\* What docs/permissions.md says of max_outbound_per_run, without the proviso. The code
\* does not keep it: parallel writes of a step all pass the limit before the first of
\* them is counted, and a run that starts takes the count of the others back.
EveryBudgetHolds == \A r \in Runs : Sent(r) <= MaxOutbound

\* Two writes are never let through within the minimum gap, however many runs
\* and parallel tools wait, and although a sleeping one may be cancelled.
WritesSpaced ==
    [][\A c \in Calls :
          call[c].pc \in {"gating", "spacing"} /\ call'[c].pc = "preparing"
          => since = MinGap]_call

\* The gate is held by the call that sleeps in it and by nothing else, or every
\* later write of the account would wait for good.
GateIsHeld ==
    /\ TypeOK
    /\ gate # None => call[gate].pc = "spacing"
    /\ \A c \in Calls : call[c].pc = "spacing" => gate = c

\* The audit log says of an operation what became of it: an entry of success was
\* carried out, one of a refusal was not, and one of a failure was not either unless
\* an error took the place of Telegram's answer. Only a call that was cut off, or
\* whose entry could not be stored, lacks one.
AuditIsHonest ==
    \A c \in Calls :
        /\ call[c].audit = "ok" => call[c].landed
        /\ call[c].audit = "denied" => ~call[c].landed
        /\ call[c].audit = "failed" => ~call[c].landed \/ call[c].unheard
        /\ call[c].pc = "over" /\ call[c].rule # "none" => call[c].audit # "none"

\* What docs/autoreply.md says: the audit shows what was actually sent. The code does
\* not keep it: an operation that was carried out is recorded as failed when its answer
\* was lost, and not at all when its tool was cut off.
SentIsRecorded ==
    \A c \in Calls : call[c].pc = "over" /\ call[c].landed => call[c].audit = "ok"
================================================================================
