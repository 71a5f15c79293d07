----------------------------- MODULE LanguageModel -----------------------------
(***************************************************************************)
(* The language model as the runs see it: the settings that a chat may      *)
(* change (config/local.py, interfaces/admin.py), the provider the          *)
(* application caches (app.py, llm/registry.py), and one request of a run    *)
(* to it with its retries and its stream (agent/runtime.py, llm/retry.py,   *)
(* llm/providers).                                                         *)
(***************************************************************************)
EXTENDS Naturals, Sequences, FiniteSets, Order

CONSTANTS
    Runs,
    Keys, Values, \* what SETTABLE names, and what it may be set to
    Env,          \* the value of every key in the environment
    MaxRetries,   \* llm.max_retries
    MaxCalls,     \* bound: tool calls of an answer
    Pieces,       \* the fragments a streamed tool call comes in
    MaxClients    \* bound: clients between two restarts

None == <<>>

ASSUME LanguageModelAssumption ==
    /\ Env \in [Keys -> Values] /\ None \notin Values
    /\ {MaxRetries, MaxCalls} \subseteq Nat
    /\ {Pieces, MaxClients} \subseteq Nat \ {0}

VARIABLES
    stored,   \* settings.local.json
    setting,  \* the settings in force
    streams,  \* llm.stream
    provider, \* the client the application caches
    client,   \* the clients made since the last restart
    run,
    stale     \* history: keys that were reset, or lost by a failed write

vars == <<stored, setting, streams, provider, client, run, stale>>

NoClient == 0
Clients == 1..MaxClients
Config == [Keys -> Values]
Stored == [Keys -> Values \cup {None}]
NoFile == [k \in Keys |-> None]
Client == [config : Config, state : {"open", "closing", "closed"}]

Asking == {"requesting", "waiting", "streaming"}
Slot == [index : 1..MaxCalls, got : 1..Pieces]
Run == [pc : {"idle", "ready", "answered", "failed"} \cup Asking,
        kind : {"chat", "task"},
        client : Clients \cup {NoClient},
        wants : Config \cup {None},  \* the settings when it began
        attempt : 0..(MaxRetries + 1),
        calls : 0..MaxCalls,         \* the tool calls the model answers with
        slots : UNION {[1..n -> Slot] : n \in 0..MaxCalls}, \* what has come of them
        cut : BOOLEAN,               \* the stream ended before it was complete
        why : {"none", "transient", "other"}]

NoRun == [pc |-> "idle", kind |-> "chat", client |-> NoClient, wants |-> None,
          attempt |-> 0, calls |-> 0, slots |-> <<>>, cut |-> FALSE, why |-> "none"]

TypeOK ==
    /\ stored \in Stored /\ setting \in Config
    /\ streams \in BOOLEAN
    /\ provider \in Clients \cup {NoClient}
    /\ client \in [Clients -> Client \cup {None}]
    /\ run \in [Runs -> Run]
    /\ stale \in SUBSET Keys

--------------------------------------------------------------------------------
(* The settings.                                                             *)

\* Mutant: the environment wins over the file.
OverlayUnder(f) == Env
\* apply_local_overrides: the file wins over the environment.
Overlay(f) == [k \in Keys |-> IF f[k] = None THEN Env[k] ELSE f[k]]

\* What a write that fails leaves: the file as it was, or a truncated one, which
\* reads as empty.
Remains == {stored, NoFile}

Held(c) == \E r \in Runs : run[r].pc # "idle" /\ run[r].client = c

\* reload_llm: the cached provider is dropped, to be closed in the background.
DropsProvider ==
    /\ provider' = NoClient
    /\ client' = IF provider = NoClient THEN client
                 ELSE [client EXCEPT ![provider].state = "closing"]

\* Mutant: the refusal is left out.
QuietAlways == TRUE
\* `agent llm` is refused while a run of the bridge is active: a command or an automatic
\* reply, which both have an entry in _active ("chat"). A scheduled task has none.
Quiet == \A r \in Runs : run[r].pc # "idle" => run[r].kind = "task"

Set(k, v) ==
    /\ Quiet
    /\ stored' = [stored EXCEPT ![k] = v]
    /\ setting' = [setting EXCEPT ![k] = v]
    /\ stale' = stale \ {k}
    /\ DropsProvider
    /\ UNCHANGED <<streams, run>>

\* The setting in force is left to the next start.
Reset(k) ==
    /\ Quiet
    /\ stored' = [stored EXCEPT ![k] = None]
    /\ stale' = stale \cup {k}
    /\ DropsProvider
    /\ UNCHANGED <<setting, streams, run>>

\* The command ends before it applies anything.
SaveFails ==
    /\ Quiet
    /\ stored' \in Remains
    /\ stale' = stale \cup {k \in Keys : stored'[k] # stored[k]}
    /\ UNCHANGED <<setting, streams, provider, client, run>>

Closes(c) ==
    /\ client[c] # None /\ client[c].state = "closing"
    /\ client' = [client EXCEPT ![c].state = "closed"]
    /\ UNCHANGED <<stored, setting, streams, provider, run, stale>>

Restart ==
    /\ setting' = Overlay(stored) /\ stale' = {}
    /\ streams' \in BOOLEAN
    /\ provider' = NoClient /\ client' = [c \in Clients |-> None]
    /\ run' = [r \in Runs |-> NoRun]
    /\ UNCHANGED stored

Init ==
    /\ stored = NoFile /\ setting = Overlay(stored) /\ stale = {}
    /\ streams \in BOOLEAN
    /\ provider = NoClient /\ client = [c \in Clients |-> None]
    /\ run = [r \in Runs |-> NoRun]

--------------------------------------------------------------------------------
(* A run and its requests.                                                   *)

\* Application.provider: made on first use. A place is reused once its client is
\* closed and no run holds it.
Unused(c) == client[c] # None => client[c].state = "closed" /\ ~Held(c)

Provides(c) ==
    IF provider # NoClient
    THEN c = provider /\ UNCHANGED <<provider, client>>
    ELSE /\ Unused(c) /\ \A d \in Clients : d < c => ~Unused(d)
         /\ provider' = c
         /\ client' = [client EXCEPT ![c] = [config |-> setting, state |-> "open"]]

\* build_runtime, and _active for a run of the bridge, be it a command or an automatic
\* reply.
Begin(r, kind, c) ==
    /\ run[r].pc = "idle"
    /\ Provides(c)
    /\ run' = [run EXCEPT ![r] = [NoRun EXCEPT !.pc = "ready", !.kind = kind,
                                              !.client = c, !.wants = setting]]
    /\ UNCHANGED <<stored, setting, streams, stale>>

Goes(r, q) ==
    /\ run' = [run EXCEPT ![r] = q]
    /\ UNCHANGED <<stored, setting, streams, provider, client, stale>>

Reachable(r) == client[run[r].client].state # "closed"
Fails(r, why) ==
    Goes(r, [run[r] EXCEPT !.pc = "failed", !.why = why, !.calls = 0, !.slots = <<>>])

\* _ask_model.
Ask(r) ==
    /\ run[r].pc \in {"ready", "answered"}
    /\ Goes(r, [run[r] EXCEPT !.pc = "requesting", !.attempt = 1, !.calls = 0,
                              !.slots = <<>>, !.cut = FALSE])

\* complete: the answer comes in one piece.
Completes(r, n) ==
    /\ run[r].pc = "requesting" /\ ~streams /\ Reachable(r)
    /\ Goes(r, [run[r] EXCEPT !.pc = "answered", !.calls = n,
                              !.attempt = 0,
                              !.slots = [i \in 1..n |-> [index |-> i, got |-> Pieces]]])

Exhausted(r) == run[r].attempt > MaxRetries

\* A rate limit, a server error or a connection that fails: retry_async sleeps and
\* tries again. stream() makes one attempt.
Troubled(r) ==
    /\ run[r].pc = "requesting"
    /\ IF streams \/ Exhausted(r) THEN Fails(r, "transient")
       ELSE Goes(r, [run[r] EXCEPT !.pc = "waiting"])

Retries(r) ==
    /\ run[r].pc = "waiting"
    /\ Goes(r, [run[r] EXCEPT !.pc = "requesting", !.attempt = run[r].attempt + 1])

\* A request that is rejected, before its answer or in the middle of a stream.
Rejected(r) ==
    /\ run[r].pc \in {"requesting", "streaming"} /\ Reachable(r)
    /\ Fails(r, "other")

\* stream: the calls come as indexed pieces, in any order of the calls.
Opens(r, n) ==
    /\ run[r].pc = "requesting" /\ streams /\ Reachable(r)
    /\ Goes(r, [run[r] EXCEPT !.pc = "streaming", !.calls = n])

SlotOf(slots, i) == {s \in DOMAIN slots : slots[s].index = i}
Whole(r) == /\ Len(run[r].slots) = run[r].calls
            /\ \A s \in DOMAIN run[r].slots : run[r].slots[s].got = Pieces

\* What one more piece of the i-th call makes of the slots: it goes to the slot of its
\* index, which its first piece makes.
Fed(slots, i) ==
    IF SlotOf(slots, i) = {} THEN Append(slots, [index |-> i, got |-> 1])
    ELSE [s \in DOMAIN slots |->
            [index |-> slots[s].index,
             got   |-> slots[s].got + (IF s \in SlotOf(slots, i) THEN 1 ELSE 0)]]

Piece(r, i) ==
    /\ run[r].pc = "streaming" /\ i <= run[r].calls /\ Reachable(r)
    /\ \A s \in SlotOf(run[r].slots, i) : run[r].slots[s].got < Pieces
    /\ Goes(r, [run[r] EXCEPT !.slots = Fed(run[r].slots, i)])

\* Mutant: the calls are taken in the order in which they first came up.
InOrderOfArrival(slots) == slots
\* The calls of the completion, in the order of their index.
InOrder(slots) ==
    LET indices == {slots[s].index : s \in DOMAIN slots}
    IN [n \in DOMAIN slots |-> slots[CHOOSE s \in DOMAIN slots : slots[s].index = Nth(indices, n)]]

\* The stream ends, complete or not: what has come is the answer.
StreamEnds(r) ==
    /\ run[r].pc = "streaming" /\ Reachable(r)
    /\ Goes(r, [run[r] EXCEPT !.pc = "answered", !.attempt = 0,
                              !.slots = InOrder(run[r].slots), !.cut = ~Whole(r)])

StreamBreaks(r) ==
    /\ run[r].pc = "streaming"
    /\ Fails(r, "transient")

\* agent.step_timeout.
TimesOut(r) ==
    /\ run[r].pc \in Asking
    /\ Fails(r, "other")

\* The run ends after an answer or a failure, or is cut off.
Ends(r) ==
    /\ run[r].pc # "idle"
    /\ Goes(r, NoRun)

Works(r) ==
    \/ Ask(r) \/ Troubled(r) \/ Retries(r) \/ Rejected(r)
    \/ \E n \in 0..MaxCalls : Completes(r, n) \/ Opens(r, n)
    \/ \E i \in 1..MaxCalls : Piece(r, i)
    \/ StreamEnds(r) \/ StreamBreaks(r) \/ TimesOut(r) \/ Ends(r)

Next ==
    \/ \E k \in Keys : Reset(k) \/ \E v \in Values : Set(k, v)
    \/ SaveFails \/ Restart
    \/ \E c \in Clients : Closes(c)
    \/ \E r \in Runs : \/ Works(r)
                       \/ \E kind \in {"chat", "task"}, c \in Clients : Begin(r, kind, c)

Spec == Init /\ [][Next]_vars

--------------------------------------------------------------------------------
(* What the rest of the agent relies on.                                     *)

\* The settings in force are those a restart would find, but for what was reset or
\* lost in between (local.py, "this file wins over the environment").
SettingsInStep ==
    /\ TypeOK
    /\ \A k \in Keys \ stale : setting[k] = Overlay(stored)[k]

\* No client is closed under a run of the bridge (telegram_control.py, "a policy or
\* provider change mid-run"). Under a scheduled task it may be.
QuietCloseHolds ==
    \A r \in Runs : run[r].pc # "idle" /\ run[r].kind = "chat" =>
                      client[run[r].client].state = "open"

\* "In force from the next run": a run talks to the model that was set when it began
\* (Application.reload_llm), with a client nobody closes under it.
NewestIsUsed ==
    /\ \A r \in Runs :
         run[r].pc # "idle" => client[run[r].client].config = run[r].wants
    /\ QuietCloseHolds

\* A streamed answer that was not cut off has the calls that the same answer would
\* have had in one piece (the reassembly in openai_provider.py).
StreamedIsSent ==
    \A r \in Runs : run[r].pc = "answered" /\ ~run[r].cut =>
                      run[r].slots = [i \in 1..run[r].calls |-> [index |-> i, got |-> Pieces]]
===============================================================================
