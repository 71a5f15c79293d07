-------------------------------- MODULE Sandbox --------------------------------
(***************************************************************************)
(* Programs the model wrote, run by sandbox/subprocess_runner.py in worker  *)
(* processes (sandbox/worker.py): the frames on the two pipes, the bridge   *)
(* to the gateway (sandbox/bridge.py), the deadline of an execution, and    *)
(* the cancellation of the tool that asked for it (tools/code_tool.py).     *)
(*                                                                         *)
(* A program is single-threaded: threads are not importable.  What it does  *)
(* between its calls is abstracted, and how long it takes: it may spin, be  *)
(* killed by a resource limit, or ignore SIGTERM.                           *)
(***************************************************************************)
EXTENDS Naturals, Sequences, FiniteSets

CONSTANTS
    Programs,          \* executions, one worker each
    MaxRpcCalls,       \* sandbox.max_rpc_calls, for worker and bridge alike
    MaxConcurrentRpc,  \* sandbox.max_concurrent_rpc
    MaxCuts            \* bound: cancellations from outside the tool

ASSUME SandboxAssumption ==
    /\ {MaxRpcCalls, MaxConcurrentRpc} \subseteq Nat \ {0}
    /\ MaxCuts \in Nat

VARIABLES
    host,     \* SubprocessSandbox.execute, and its bridge
    worker,
    toHost,   \* the worker's stdout: frames sent and not read
    toWorker, \* its stdin
    permits,  \* free places of the semaphore all executions share
    timed,    \* executions whose tool call ran into its own time-out
    cuts      \* cancellations from elsewhere so far

sandboxVars == <<host, worker, toHost, toWorker, permits, timed, cuts>>

Ids == 1..(MaxRpcCalls + 1)
NoId == 0
\* A "long" frame exceeds the reader's buffer: a large argument, or a large result.
Frames == [type : {"rpc", "done", "long", "rpc_result"}, id : Ids \cup {NoId}]

Pumping == {"reading", "queued", "calling", "replying"}
Host == [pc : {"idle", "spawning", "sending", "draining", "stopping", "over"} \cup Pumping,
         how : {"none", "done", "timeout", "protocol", "start", "cancelled"},
         big : BOOLEAN,             \* the program is larger than the pipe
         caught : BOOLEAN,          \* stopping in the handler of the time-out,
                                    \*   with the finally still to come
         serving : Ids \cup {NoId}, \* the call being served
         calls : 0..MaxRpcCalls,    \* BridgeStats.calls
         denied : Nat,              \* BridgeStats.denied
         log : SUBSET Ids,          \* rpc_log
         landed : SUBSET Ids,       \* history: calls the gateway carried out
         lost : SUBSET Ids]         \* history: the call that was cut off
Worker == [pc : {"none", "booting", "running", "waiting", "exiting", "gone"},
           made : 0..(MaxRpcCalls + 1),  \* _rpc_calls_made
           told : BOOLEAN]               \* it was sent SIGTERM

SandboxTypeOK ==
    /\ host \in [Programs -> Host]
    /\ worker \in [Programs -> Worker]
    /\ toHost \in [Programs -> Seq(Frames)]
    /\ toWorker \in [Programs -> Seq(Frames)]
    /\ permits \in 0..MaxConcurrentRpc
    /\ timed \in SUBSET Programs /\ cuts \in 0..MaxCuts

SandboxInit ==
    /\ host = [x \in Programs |->
                 [pc |-> "idle", how |-> "none", big |-> FALSE, caught |-> FALSE,
                  serving |-> NoId, calls |-> 0, denied |-> 0, log |-> {},
                  landed |-> {}, lost |-> {}]]
    /\ worker = [x \in Programs |-> [pc |-> "none", made |-> 0, told |-> FALSE]]
    /\ toHost = [x \in Programs |-> <<>>] /\ toWorker = [x \in Programs |-> <<>>]
    /\ permits = MaxConcurrentRpc /\ timed = {} /\ cuts = 0

At(x, pc) == host[x].pc = pc
Moves(x, pc) == host' = [host EXCEPT ![x].pc = pc]
Lives(x) == worker[x].pc \notin {"none", "gone"}
\* What it had not read is gone with it; what it wrote can still be read.
Ended(x) ==
    /\ worker' = [worker EXCEPT ![x].pc = "gone"]
    /\ toWorker' = [toWorker EXCEPT ![x] = <<>>]

pipes == <<toHost, toWorker>>
outside == <<timed, cuts>>

--------------------------------------------------------------------------------
(* The worker.                                                              *)

\* It reads the execute frame, which is in the pipe as soon as it is written.
WorkerBoots(x) ==
    /\ worker[x].pc = "booting" /\ ~At(x, "spawning")
    /\ worker' = [worker EXCEPT ![x].pc = "running"]
    /\ UNCHANGED <<host, pipes, permits, outside>>

\* A frame nobody will read is not worth keeping.
Writes(x, type, id) ==
    toHost' = [toHost EXCEPT ![x] =
        IF host[x].pc \in {"stopping", "over"} THEN @
        ELSE Append(@, [type |-> type, id |-> id])]

\* The program's own limit; beyond it _rpc raises and nothing is sent.
MayCall(x) == worker[x].made < MaxRpcCalls

\* A call counts before it is sent, and arguments that cannot be encoded never are.
WorkerCalls(x) ==
    /\ worker[x].pc = "running" /\ MayCall(x)
    /\ LET k == worker[x].made + 1 IN
         \/ /\ worker' = [worker EXCEPT ![x].made = k]
            /\ UNCHANGED toHost
         \/ /\ worker' = [worker EXCEPT ![x].made = k, ![x].pc = "waiting"]
            /\ \E type \in {"rpc", "long"} : Writes(x, type, k)
    /\ UNCHANGED <<host, toWorker, permits, outside>>

\* The answer, or the error it carries, is returned to the program.
WorkerReads(x) ==
    /\ worker[x].pc = "waiting" /\ toWorker[x] # <<>>
    /\ worker' = [worker EXCEPT ![x].pc = "running"]
    /\ toWorker' = [toWorker EXCEPT ![x] = Tail(@)]
    /\ UNCHANGED <<host, toHost, permits, outside>>

\* The program ends or raises: the `done` frame, and then the process.
WorkerFinishes(x) ==
    /\ worker[x].pc = "running"
    /\ worker' = [worker EXCEPT ![x].pc = "exiting"]
    /\ \E type \in {"done", "long"} : Writes(x, type, NoId)
    /\ UNCHANGED <<host, toWorker, permits, outside>>

\* It exits, a resource limit kills it, it dies of SIGTERM, or it fails to
\* write a frame.
WorkerDies(x) ==
    /\ Lives(x)
    /\ Ended(x)
    /\ UNCHANGED <<host, toHost, permits, outside>>

--------------------------------------------------------------------------------
(* Starting an execution.                                                   *)

Execute(x) ==
    /\ At(x, "idle")
    /\ \E big \in BOOLEAN :
         host' = [host EXCEPT ![x].pc = "spawning", ![x].big = big]
    /\ UNCHANGED <<worker, pipes, permits, outside>>

Spawned(x) ==
    /\ At(x, "spawning")
    /\ Moves(x, "sending")
    /\ worker' = [worker EXCEPT ![x].pc = "booting"]
    /\ UNCHANGED <<pipes, permits, outside>>

SpawnFails(x) ==
    /\ At(x, "spawning")
    /\ host' = [host EXCEPT ![x].pc = "over", ![x].how = "start"]
    /\ UNCHANGED <<worker, pipes, permits, outside>>

\* Writing is not under the deadline: a large program waits for its reader.
Sent(x) ==
    /\ At(x, "sending")
    /\ host[x].big => worker[x].pc # "booting"
    /\ Moves(x, "reading")
    /\ UNCHANGED <<worker, pipes, permits, outside>>

--------------------------------------------------------------------------------
(* Ending it.                                                               *)

\* Execution x leaves for _terminate, and the permit it may hold is released.
\* Nothing reads the frames any more.
Unwinds(x, how, caught) ==
    /\ host' = [host EXCEPT ![x].pc = "stopping", ![x].how = how, ![x].caught = caught,
                            ![x].lost = IF At(x, "calling") THEN {host[x].serving} ELSE @,
                            ![x].serving = NoId]
    /\ worker' = [worker EXCEPT ![x].told = TRUE]
    /\ permits' = IF At(x, "calling") THEN permits + 1 ELSE permits
    /\ toHost' = [toHost EXCEPT ![x] = <<>>]

\* A frame to a worker that is gone: drain() raises ConnectionResetError, which
\* is an OSError, "Could not start the sandbox process" (or it is not yet known).
FrameFails(x) ==
    /\ host[x].pc \in {"sending", "replying"} /\ ~Lives(x)
    /\ Unwinds(x, "start", FALSE)
    /\ UNCHANGED <<toWorker, outside>>

\* The wall clock: wait_for cancels _pump wherever it is, in a call as well.
Deadline(x) ==
    /\ host[x].pc \in Pumping
    /\ Unwinds(x, "timeout", TRUE)
    /\ UNCHANGED <<toWorker, outside>>

\* Mutant: a polite end is all there is.
EscalateNever(x) ==
    /\ At(x, "stopping") /\ Lives(x)
    /\ UNCHANGED sandboxVars
\* Three seconds after SIGTERM: SIGKILL.
Escalate(x) ==
    /\ At(x, "stopping") /\ Lives(x)
    /\ Ended(x)
    /\ UNCHANGED <<host, toHost, permits, outside>>

Stopped(x) ==
    /\ At(x, "stopping") /\ ~Lives(x)
    /\ Moves(x, "over")
    /\ UNCHANGED <<worker, pipes, permits, outside>>

\* Mutant: only what the deadline interrupts is terminated.
CancelledRaises(x) ==
    /\ host[x].pc \notin {"idle", "over"}
    /\ host' = [host EXCEPT ![x].pc = "over", ![x].how = "cancelled",
                            ![x].serving = NoId]
    /\ permits' = IF At(x, "calling") THEN permits + 1 ELSE permits
    /\ UNCHANGED <<worker, pipes>>
\* CancelledError at the await execute is suspended in. asyncio kills the child
\* of a cancelled start; the handler of the time-out leaves for the finally; and
\* a second cancellation interrupts the finally.
Cancelled(x) ==
    \/ /\ At(x, "spawning") \/ (At(x, "stopping") /\ ~host[x].caught)
       /\ host' = [host EXCEPT ![x].pc = "over", ![x].how = "cancelled"]
       /\ UNCHANGED <<worker, pipes, permits>>
    \/ /\ host[x].pc \in {"sending", "draining"} \cup Pumping
            \/ (At(x, "stopping") /\ host[x].caught)
       /\ Unwinds(x, "cancelled", FALSE)
       /\ UNCHANGED toWorker

\* The time-out of the tool, once. It may come before the deadline, and runs from
\* before the start.
ToolTimeout(x) ==
    /\ x \notin timed
    /\ timed' = timed \cup {x}
    /\ Cancelled(x)
    /\ UNCHANGED cuts

\* A run that times out or is stopped, and the shutdown of the process.
CutOff(x) ==
    /\ cuts < MaxCuts
    /\ cuts' = cuts + 1
    /\ Cancelled(x)
    /\ UNCHANGED timed

--------------------------------------------------------------------------------
(* Relaying frames: _pump, _handle_rpc and the bridge.                      *)

Read(x) == toHost' = [toHost EXCEPT ![x] = Tail(@)]

ReceiveCall(x) ==
    /\ At(x, "reading") /\ toHost[x] # <<>> /\ Head(toHost[x]).type = "rpc"
    /\ Read(x)
    /\ host' = [host EXCEPT ![x].pc = "queued", ![x].serving = Head(toHost[x]).id]
    /\ UNCHANGED <<worker, toWorker, permits, outside>>

ReceiveDone(x) ==
    /\ At(x, "reading") /\ toHost[x] # <<>> /\ Head(toHost[x]).type = "done"
    /\ Read(x)
    /\ Moves(x, "draining")
    /\ UNCHANGED <<worker, toWorker, permits, outside>>

\* readline() raises a ValueError: "Could not start the sandbox process" again.
ReceiveLong(x) ==
    /\ At(x, "reading") /\ toHost[x] # <<>> /\ Head(toHost[x]).type = "long"
    /\ Unwinds(x, "start", FALSE)
    /\ UNCHANGED <<toWorker, outside>>

\* End of file: "exited without reporting a result".
ReceiveNothing(x) ==
    /\ At(x, "reading") /\ toHost[x] = <<>> /\ ~Lives(x)
    /\ Unwinds(x, "protocol", FALSE)
    /\ UNCHANGED <<toWorker, outside>>

Reply(x) ==
    toWorker' = [toWorker EXCEPT ![x] =
        IF Lives(x) THEN Append(@, [type |-> "rpc_result", id |-> host[x].serving])
                    ELSE @]

\* A place in the semaphore, and the bridge's own limit.
Admit(x) ==
    /\ At(x, "queued") /\ permits > 0
    /\ IF host[x].calls < MaxRpcCalls
       THEN /\ host' = [host EXCEPT ![x].pc = "calling", ![x].calls = @ + 1]
            /\ permits' = permits - 1
            /\ UNCHANGED toWorker
       ELSE /\ host' = [host EXCEPT ![x].pc = "replying", ![x].denied = @ + 1,
                                    ![x].log = @ \cup {host[x].serving}]
            /\ Reply(x)
            /\ UNCHANGED permits
    /\ UNCHANGED <<worker, toHost, outside>>

\* The gateway carries the operation out, if it does (see AgentRun).
CallLands(x) ==
    /\ At(x, "calling") /\ host[x].serving \notin host[x].landed
    /\ host' = [host EXCEPT ![x].landed = @ \cup {host[x].serving}]
    /\ UNCHANGED <<worker, pipes, permits, outside>>

\* Mutant: only a call that succeeded is recorded.
AnsweredUnlogged(x) ==
    /\ At(x, "calling")
    /\ \E ok \in BOOLEAN :
         host' = [host EXCEPT ![x].pc = "replying",
                              ![x].log = IF ok THEN @ \cup {host[x].serving} ELSE @]
    /\ permits' = permits + 1
    /\ Reply(x)
    /\ UNCHANGED <<worker, toHost, outside>>
\* Mutant: a failed call is answered where it fails and again at the end.
AnsweredTwice(x) ==
    /\ At(x, "calling")
    /\ host' = [host EXCEPT ![x].pc = "replying", ![x].log = @ \cup {host[x].serving}]
    /\ permits' = permits + 1
    /\ toWorker' = [toWorker EXCEPT ![x] =
        IF Lives(x) THEN @ \o [i \in 1..2 |-> [type |-> "rpc_result",
                                                id |-> host[x].serving]]
                    ELSE @]
    /\ UNCHANGED <<worker, toHost, outside>>
\* The gateway returns or raises: recorded and answered alike.
Answered(x) ==
    /\ At(x, "calling")
    /\ host' = [host EXCEPT ![x].pc = "replying", ![x].log = @ \cup {host[x].serving}]
    /\ permits' = permits + 1
    /\ Reply(x)
    /\ UNCHANGED <<worker, toHost, outside>>

Replied(x) ==
    /\ At(x, "replying")
    /\ host' = [host EXCEPT ![x].pc = "reading", ![x].serving = NoId]
    /\ UNCHANGED <<worker, pipes, permits, outside>>

\* What the worker wrote to stderr, for a second at most. The process may have
\* exited by now; if not, the finally ends it.
Drained(x) ==
    /\ At(x, "draining")
    /\ Unwinds(x, "done", FALSE)
    /\ UNCHANGED <<toWorker, outside>>

\* ExecutionResult.summary, fenced by PythonTool.run if any call was let through: what
\* the model is told of the calls of an execution that returned a result is a number,
\* the worker's own if the program came to its end and the length of the log if not.
Told(x) ==
    [count |-> IF host[x].how = "done" /\ worker[x].made # 0 THEN worker[x].made
               ELSE Cardinality(host[x].log),
     fenced |-> host[x].calls > 0]

--------------------------------------------------------------------------------
WorkerStep(x) ==
    \/ WorkerBoots(x) \/ WorkerCalls(x) \/ WorkerReads(x)
    \/ WorkerFinishes(x) \/ WorkerDies(x)

HostStep(x) ==
    \/ Spawned(x) \/ SpawnFails(x) \/ Sent(x) \/ FrameFails(x)
    \/ ReceiveCall(x) \/ ReceiveDone(x) \/ ReceiveLong(x) \/ ReceiveNothing(x)
    \/ Admit(x) \/ Replied(x) \/ Drained(x)
    \/ Escalate(x) \/ Stopped(x)

SandboxNext ==
    \E x \in Programs :
        \/ Execute(x) \/ HostStep(x) \/ Deadline(x) \/ ToolTimeout(x) \/ CutOff(x)
        \/ CallLands(x) \/ Answered(x)
        \/ WorkerStep(x)

\* The event loop of the host runs and its timers fire. The program and the
\* gateway owe nothing: the one may spin, the other may wait for its owner.
Fairness ==
    \A x \in Programs :
        WF_sandboxVars(HostStep(x)) /\ WF_sandboxVars(Deadline(x)) /\ WF_sandboxVars(ToolTimeout(x))

SandboxSpec == SandboxInit /\ [][SandboxNext]_sandboxVars /\ Fairness

--------------------------------------------------------------------------------
(* Properties.                                                              *)

\* The only frame a worker can find when it waits for an answer is the answer to
\* its own call, and no worker that is not waiting is ever sent one.
AnswersMatch ==
    \A x \in Programs : toWorker[x] # <<>> =>
        /\ worker[x].pc = "waiting"
        /\ toWorker[x] = <<[type |-> "rpc_result", id |-> worker[x].made]>>

\* "A frame that fails to encode would deadlock both sides waiting for each other".
NobodyWaits ==
    \A x \in Programs :
        ~(/\ worker[x].pc = "waiting" /\ toWorker[x] = <<>>
          /\ At(x, "reading") /\ toHost[x] = <<>>)

\* The limit is counted in two processes: the bridge never refuses a call that
\* the worker's own limit let through.
LimitsAgree == \A x \in Programs : host[x].denied = 0

\* Worker and host stay in step ("impossible to desynchronise"), however a call
\* ends: no answer is missed or left over, they never wait for each other, and
\* they count alike.
PipesInStep == SandboxTypeOK /\ AnswersMatch /\ NobodyWaits /\ LimitsAgree

\* Whatever interrupts a call, in the queue or in the gateway, no place of the
\* semaphore that executions share is lost, and none is given back twice.
PermitsAreKept ==
    permits + Cardinality({x \in Programs : At(x, "calling")}) = MaxConcurrentRpc

\* No worker outlives its execution, whether it answers, hangs, is cut off by the
\* deadline, or its tool is cancelled anywhere; only a cancellation that interrupts
\* _terminate leaves one that ignores SIGTERM, and none that was not told.
NoOrphan ==
    \A x \in Programs :
        At(x, "over") /\ Lives(x) => worker[x].told /\ host[x].how = "cancelled"

\* An execution leaves nothing behind, neither a permit nor a worker.
NothingLeaks == PermitsAreKept /\ NoOrphan

\* Of an execution that returns a result the model is told of no fewer calls than
\* Telegram carried out, but for the one the deadline cut off, and of no more than the
\* program asked for, though the number is counted in one process or in the other; and
\* what may have come from Telegram is fenced.
CountIsHonest ==
    \A x \in Programs : At(x, "over") /\ host[x].how \in {"done", "timeout"} =>
        /\ Cardinality(host[x].landed \ host[x].lost) <= Told(x).count
        /\ Told(x).count <= worker[x].made
        /\ host[x].landed # {} => Told(x).fenced

\* "Complete observability. The RPC log is the execution trace" (docs/sandboxing.md):
\* what Telegram carried out for an execution that returns a result is in its log.
LogIsTheTrace ==
    \A x \in Programs :
        At(x, "over") /\ host[x].how \in {"done", "timeout"} => host[x].landed \subseteq host[x].log

\* Every execution ends, whatever its program and the gateway do.
Ends == \A x \in Programs : At(x, "spawning") ~> At(x, "over")
================================================================================
