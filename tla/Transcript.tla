------------------------------- MODULE Transcript ------------------------------
(***************************************************************************)
(* The turns of one conversation: what the runs of agent/runtime.py write   *)
(* to the messages table, what a later run reads back and repairs, and what *)
(* agent/context.py summarises when the window is full.                     *)
(*                                                                         *)
(* A turn is a prompt or a summary ("user"), an answer or a note ("text"),  *)
(* an answer with nothing in it ("empty"), the tool calls of a step or      *)
(* their results.  The results of a step are written together and every     *)
(* step asks for Width tools, so a turn names only the step whose ids its   *)
(* calls have.  A service may send no ids: the calls are then call_0,       *)
(* call_1, ... of whatever step, and the step they name is the first such.  *)
(*                                                                         *)
(* The model may be changed between two requests, so what is kept is sent   *)
(* to either service, each with an encoding of its own.                     *)
(***************************************************************************)
EXTENDS Naturals, FiniteSets, Sequences, SequencesExt, Order

CONSTANTS
    Sessions,      \* the runs that use the conversation
    Width,         \* calls in a step
    HistoryLimit,  \* agent.history_limit
    KeepRecent,    \* agent.compaction_keep_recent
    MaxSteps,      \* agent.max_steps
    MaxTurns,      \* bound: turns ever stored
    MaxBatches,    \* bound: steps that ask for tools
    MaxLost        \* bound: turns that could not be stored

ASSUME TranscriptAssumption ==
    /\ {HistoryLimit, MaxTurns, MaxBatches, MaxLost} \subseteq Nat
    /\ Width \in Nat \ {0}
    /\ KeepRecent \in Nat \ {0, 1} /\ MaxSteps \in Nat \ {0}

VARIABLES
    created,  \* the row of the conversation exists
    messages, \* the turns it keeps, by rowid
    session,  \* the runs of the agent in the conversation
    batches,  \* how many steps ever asked for tools
    unnamed,  \* the first of them whose calls came without ids, 0 for none
    shared,   \* history: two runs were in the conversation at once
    reused,   \* history: a second step came without ids
    lost      \* history: how many turns could not be stored

transcriptVars == <<created, messages, session, batches, unnamed, shared, reused, lost>>

Turns == [kind : {"user", "text", "empty"}, batch : {0}]
         \cup [kind : {"calls", "results"}, batch : 1..MaxBatches]
User == [kind |-> "user", batch |-> 0]
Text == [kind |-> "text", batch |-> 0]
Empty == [kind |-> "empty", batch |-> 0]
Calls(b) == [kind |-> "calls", batch |-> b]
Results(b) == [kind |-> "results", batch |-> b]

NoSession == [pc |-> "idle", history |-> <<>>, step |-> 0, digested |-> FALSE]
InProgress(r) == session[r].pc # "idle"

\* One run at a time, and every step with ids of its own.
Orderly == ~shared /\ ~reused

--------------------------------------------------------------------------------
(* Reading the conversation back.                                           *)

\* Mutant: the oldest turns instead of the newest.
WindowOldest(s) == SubSeq(s, 1, Min({HistoryLimit, Len(s)}))
\* get_messages(limit): the newest turns, in the order they were written.
Window(s) == SubSeq(s, Max({0, Len(s) - HistoryLimit}) + 1, Len(s))

Batches(s, kind) == {s[i].batch : i \in {j \in DOMAIN s : s[j].kind = kind}}

\* _drop_dangling_tool_calls: a call without results becomes a note ...
Cleaned(s) ==
    [i \in DOMAIN s |->
       IF s[i].kind = "calls" /\ s[i].batch \notin Batches(s, "results") THEN Text
       ELSE s[i]]

\* ... and results without a call are dropped.
Places(s) ==
    {i \in DOMAIN s : s[i].kind = "results" => s[i].batch \in Batches(Cleaned(s), "calls")}
Repair(s) == Kept(Cleaned(s), Places(s))

--------------------------------------------------------------------------------
(* Summarising.                                                             *)

\* Mutant: "keep N recent" is taken literally.
IsAnyBoundary(s, i) == i < Len(s)
\* The conversation can be cut immediately before turn i + 1.
IsSafeBoundary(s, i) == s[i + 1].kind # "results" /\ s[i].kind # "calls"

\* _safe_split_point: how many turns are summarised, 0 for none.
SafeSplitPoint(s) ==
    IF Len(s) <= KeepRecent + 1 THEN 0
    ELSE Max({0} \cup {i \in 1..(Len(s) - KeepRecent) : IsSafeBoundary(s, i)})

--------------------------------------------------------------------------------
(* The two services.                                                        *)

Ids(turn) == {turn.batch} \X (1..Width)

\* OpenAICompatibleProvider._encode_message: every result is a message of its own.
EncodeOpenAI(turn) ==
    CASE turn.kind = "results" ->
           [i \in 1..Width |->
              [role |-> "tool", calls |-> {}, id |-> <<turn.batch, i>>]]
      [] turn.kind = "calls" ->
           <<[role |-> "assistant", calls |-> Ids(turn), id |-> <<>>]>>
      [] OTHER ->
           <<[role |-> IF turn.kind = "user" THEN "user" ELSE "assistant",
              calls |-> {}, id |-> <<>>]>>
\* How many messages the first i turns take.
Taken(s, i) == i + (Width - 1) * Cardinality({j \in 1..i : s[j].kind = "results"})
WireOpenAI(s) ==
    [n \in 1..Taken(s, Len(s)) |->
       LET i == CHOOSE j \in DOMAIN s : Taken(s, j - 1) < n /\ n <= Taken(s, j)
       IN EncodeOpenAI(s[i])[n - Taken(s, i - 1)]]

\* AnthropicProvider._encode_message: one message, never without a block.
EncodeAnthropic(turn) ==
    LET words == {<<"text", <<>>>>}
        content == CASE turn.kind = "calls" -> {"tool_use"} \X Ids(turn)
                     [] turn.kind = "results" -> {"tool_result"} \X Ids(turn)
                     [] turn.kind = "empty" -> {}
                     [] OTHER -> words
    IN [role |-> IF turn.kind \in {"user", "results"} THEN "user" ELSE "assistant",
        blocks |-> IF content = {} THEN words ELSE content]
WireAnthropic(s) == [i \in DOMAIN s |-> EncodeAnthropic(s[i])]

\* _to_completion of the two: a refusal is words of one service, and nothing at
\* all of the other.
AnswerOpenAI(reply) == IF reply = "text" THEN Text ELSE Empty
AnswerAnthropic(reply) == IF reply \in {"text", "refusal"} THEN Text ELSE Empty

--------------------------------------------------------------------------------
TranscriptTypeOK ==
    /\ {created, shared, reused} \subseteq BOOLEAN /\ lost \in 0..MaxLost
    /\ messages \in Seq(Turns) /\ (messages # <<>> => created)
    /\ batches \in 0..MaxBatches /\ unnamed \in 0..batches
    /\ \A r \in Sessions :
         /\ session[r].pc \in {"idle", "creating", "loading", "prompting", "thinking",
                           "asking", "calling"}
         /\ session[r].history \in Seq(Turns)
         /\ Len(session[r].history) <= HistoryLimit + 2 * session[r].step
         /\ session[r].step \in 0..MaxSteps
         /\ session[r].digested \in BOOLEAN

TranscriptInit ==
    /\ created = FALSE /\ messages = <<>>
    /\ session = [r \in Sessions |-> NoSession]
    /\ batches = 0 /\ unnamed = 0
    /\ shared = FALSE /\ reused = FALSE /\ lost = 0

\* _persist: the turn is stored, or the error is swallowed and it is not.
Persist(turn) ==
    \/ messages' = Append(messages, turn) /\ lost' = lost
    \/ messages' = messages /\ lost < MaxLost /\ lost' = lost + 1
Room == Len(messages) < MaxTurns

--------------------------------------------------------------------------------
(* One run.                                                                 *)

\* _load_or_create_conversation looks for the row ...
Open(r) ==
    /\ session[r].pc = "idle" /\ Room
    /\ session' = [session EXCEPT ![r].pc = IF created THEN "loading" ELSE "creating"]
    /\ shared' = (shared \/ \E q \in Sessions : InProgress(q))
    /\ UNCHANGED <<created, messages, batches, unnamed, reused, lost>>

\* ... and inserts it; of two runs that found none, the second fails.
Create(r) ==
    /\ session[r].pc = "creating"
    /\ session' = IF created THEN [session EXCEPT ![r] = NoSession]
                         ELSE [session EXCEPT ![r].pc = "loading"]
    /\ created' = TRUE
    /\ UNCHANGED <<messages, batches, unnamed, shared, reused, lost>>

Load(r) ==
    /\ session[r].pc = "loading"
    /\ session' = [session EXCEPT ![r] = [@ EXCEPT !.pc = "prompting",
                                          !.history = Repair(Window(messages))]]
    /\ UNCHANGED <<created, messages, batches, unnamed, shared, reused, lost>>

Prompt(r) ==
    /\ session[r].pc = "prompting" /\ Room
    /\ session' = [session EXCEPT ![r].pc = "thinking", ![r].step = 1,
                                  ![r].history = Append(@, User)]
    /\ Persist(User)
    /\ UNCHANGED <<created, batches, unnamed, shared, reused>>

\* _maybe_compact finds that the history fits, or that it cannot be cut.
Fits(r) ==
    /\ session[r].pc = "thinking"
    /\ session' = [session EXCEPT ![r].pc = "asking"]
    /\ UNCHANGED <<created, messages, batches, unnamed, shared, reused, lost>>

Compact(r) ==
    /\ session[r].pc = "thinking"
    /\ LET history == session[r].history
           split == SafeSplitPoint(history) IN
       /\ split > 0
       /\ session' = [session EXCEPT ![r] =
                    [@ EXCEPT !.pc = "asking", !.digested = TRUE,
                              !.history = <<User>> \o SubSeq(history, split + 1,
                                                             Len(history))]]
    /\ UNCHANGED <<created, messages, batches, unnamed, shared, reused, lost>>

\* The model answers, and the run is over.
Answer(r) ==
    /\ session[r].pc = "asking" /\ Room
    /\ session' = [session EXCEPT ![r] = NoSession]
    /\ \E reply \in {"text", "refusal", "nothing"} :
         Persist(AnswerOpenAI(reply)) \/ Persist(AnswerAnthropic(reply))
    /\ UNCHANGED <<created, batches, unnamed, shared, reused>>

\* The model asks for tools, by ids of the service's or, when it sends none, by the
\* places of the calls in the answer.
Call(r) ==
    /\ session[r].pc = "asking" /\ Room /\ batches < MaxBatches
    /\ batches' = batches + 1
    /\ \E named \in BOOLEAN :
         LET b == IF named \/ unnamed = 0 THEN batches' ELSE unnamed IN
         /\ session' = [session EXCEPT ![r].pc = "calling",
                                       ![r].history = Append(@, Calls(b))]
         /\ unnamed' = IF named THEN unnamed ELSE b
         /\ reused' = (reused \/ b # batches')
         /\ Persist(Calls(b))
    /\ UNCHANGED <<created, shared>>

\* The step of the calls the run is waiting for.
Pending(r) == session[r].history[Len(session[r].history)].batch

\* Their results are in; after the last step they are stored and not looked at.
Return(r) ==
    /\ session[r].pc = "calling" /\ Room
    /\ session' = IF session[r].step = MaxSteps THEN [session EXCEPT ![r] = NoSession]
                  ELSE [session EXCEPT ![r].pc = "thinking", ![r].step = @ + 1,
                                       ![r].history = Append(@, Results(Pending(r)))]
    /\ Persist(Results(Pending(r)))
    /\ UNCHANGED <<created, batches, unnamed, shared, reused>>

\* Time-out, cancellation, provider error, too many calls or failures, a history
\* that does not fit when summarised, or the process dying.
Cut(r) ==
    /\ InProgress(r)
    /\ session' = [session EXCEPT ![r] = NoSession]
    /\ UNCHANGED <<created, messages, batches, unnamed, shared, reused, lost>>

TranscriptNext ==
    \E r \in Sessions :
        \/ Open(r) \/ Create(r) \/ Load(r) \/ Prompt(r) \/ Fits(r) \/ Compact(r)
        \/ Answer(r) \/ Call(r) \/ Return(r) \/ Cut(r)

TranscriptSpec == TranscriptInit /\ [][TranscriptNext]_transcriptVars

--------------------------------------------------------------------------------
(* Properties.                                                              *)

\* A message with tool calls is answered by the messages right after it, one for
\* each call, and no other message answers a call.
TakenByOpenAI(wire) ==
    /\ \A i \in DOMAIN wire :
         wire[i].calls # {} =>
           LET last == i + Cardinality(wire[i].calls) IN
           last <= Len(wire) /\ {wire[j].id : j \in (i + 1)..last} = wire[i].calls
    /\ \A i \in DOMAIN wire :
         wire[i].role = "tool" =>
           \E j \in 1..(i - 1) :
              /\ wire[i].id \in wire[j].calls
              /\ \A k \in (j + 1)..i : wire[k].role = "tool"

\* The uses of a message are answered by the next message, all of them, which
\* answers no others, and no message is empty.
TakenByAnthropic(wire) ==
    LET Of(i, type) ==
          IF i \in DOMAIN wire THEN {b[2] : b \in {c \in wire[i].blocks : c[1] = type}}
                               ELSE {}
    IN \A i \in 0..Len(wire) :
         /\ Of(i, "tool_use") = Of(i + 1, "tool_result")
         /\ i > 0 => wire[i].blocks # {}

\* No run ever sends a history that either service would refuse for a split pair
\* of calls and results, after any crash, lost write, cut window or summary, in a
\* conversation that one run at a time has used and whose steps have different ids;
\* and in whatever order the runs of a shared one wrote their turns, and whatever ids
\* they have, what is read back has results for its calls and calls for its results.
Accepted ==
    /\ TranscriptTypeOK
    /\ \A r \in Sessions :
         session[r].pc = "asking" /\ Orderly =>
           /\ TakenByOpenAI(WireOpenAI(session[r].history))
           /\ TakenByAnthropic(WireAnthropic(session[r].history))
    /\ LET history == Repair(Window(messages)) IN
       Batches(history, "calls") = Batches(history, "results")

\* While nothing is lost or summarised, what the model has been shown is what
\* the next run will read: the newest turns, and nothing that was not stored.
SeenIsStored ==
    \A r \in Sessions :
        session[r].pc = "asking" /\ Orderly /\ lost = 0 /\ ~session[r].digested
        => IsSuffix(session[r].history, Repair(messages))

\* "Replaying that to a provider is a hard 400, so the orphan is rewritten into plain
\* text that preserves what was attempted" (runtime.py, _drop_dangling_tool_calls):
\* whatever ids the steps have, no run that has the conversation to itself sends a
\* history that the service of the ids would refuse.
OrphanIsRewritten ==
    \A r \in Sessions :
        session[r].pc = "asking" /\ ~shared
        => TakenByOpenAI(WireOpenAI(session[r].history))
================================================================================
