---------------------------- MODULE ConnectionHealth ----------------------------
(***************************************************************************)
(* A tgagent process from its start to its end (app.py, interfaces/cli.py), *)
(* and the supervision of its one Telegram connection (telegram/client.py). *)
(*                                                                         *)
(* Two asyncio tasks watch the connection and neither knows of the other:  *)
(*   the watchdog  awaits `client.disconnected` and reconnects with a      *)
(*                 back-off;                                               *)
(*   the monitor   wakes on a timer, and once nothing has been heard for   *)
(*                 `idle_probe_after` probes the connection with a         *)
(*                 deadline and, when the probe fails, tears it down and   *)
(*                 builds it again.                                        *)
(* The gateway reconnects on demand as well, and the listening process     *)
(* ends when the monitor sets `failed`.                                    *)
(*                                                                         *)
(* A step is what runs between two awaits. The socket is "hole" when the   *)
(* flow died without an RST: the client still reports itself connected,    *)
(* nothing arrives, and a request is swallowed, so that a coroutine        *)
(* awaiting one without a deadline has no step at all.                     *)
(***************************************************************************)
EXTENDS Naturals

CONSTANTS
    MaxRecoveryAttempts,  \* settings.telegram.max_recovery_attempts
    ProbeAfter,           \* settings.telegram.idle_probe_after, in ticks
    MaxTrouble            \* bound: mishaps of the network in one behaviour

ASSUME ConnectionAssumption ==
    /\ MaxRecoveryAttempts \in Nat \ {0}
    /\ ProbeAfter \in Nat \ {0}
    /\ MaxTrouble \in Nat

VARIABLES
    sock,      \* "down" (is_connected() is false), "up", or "hole"
    net,       \* whether connect() reaches Telegram
    session,   \* "valid", or "revoked" by its owner
    quiet,     \* idle_seconds in ticks, up to ProbeAfter
    mon,       \* where the monitor is; a name is the await it is suspended in
    dog,       \* the same for the watchdog
    failures,  \* _recovery_failures
    failed,    \* the `failed` event
    proc,      \* the process, from `start` to the end of `stop`
    trouble,   \* mishaps so far
    command,   \* what was started: a command, or a program that uses the package
    parts,     \* what is open
    runs,      \* the runs in progress, by who knows of them
    cut        \* history: stop() was cut short, or never called

host == <<command, parts, runs, cut>>
vars == <<sock, net, session, quiet, mon, dog, failures, failed, proc, trouble, host>>

Rebuilding == {"authorise", "me", "catch_up"}
StartStages == {"boot", "stored", "supervised", "scheduled"}
ClosingStages == {"closing", "silent", "down"}
StopStages == {"stopping", "draining", "drained"} \cup ClosingStages

Commands == {"listen", "serve", "once", "library"}
Parts == {"storage", "scheduler", "bridge"}
\* "own" is awaited by the command or known to the bridge, "task" to the scheduler,
\* "late" to nobody.
Runs == {"own", "task", "late"}

Init ==
    /\ sock = "down"
    /\ net \in BOOLEAN
    /\ session \in {"valid", "revoked"}
    /\ quiet = 0
    /\ mon = "off"
    /\ dog = "off"
    /\ failures = 0
    /\ failed = FALSE
    /\ proc = "boot"
    /\ trouble = 0
    /\ command \in Commands
    /\ parts = {} /\ runs = {} /\ cut = FALSE

\* A watchdog that awaits the loss of the connection goes to its back-off.
Woken == IF dog = "wait" THEN "delay" ELSE dog

\* What connect() does to the socket: nothing at all if it reports itself
\* connected, whether or not anything gets through.
Connected == IF sock = "down" THEN "up" ELSE sock
CanConnect == sock # "down" \/ net

Mishap == trouble < MaxTrouble /\ trouble' = trouble + 1

--------------------------------------------------------------------------------
\* The process comes up in stages, or fails in one and unwinds.

Runtime == <<net, session, failures, failed, trouble, command>>

\* A command stops what it has started, in its finally; a program that called
\* create_application has nothing that it could stop.
Unwinds ==
    IF command = "library"
    THEN proc' = "exited" /\ cut' = TRUE /\ mon' = "off" /\ dog' = "off"
    ELSE proc' = "stopping" /\ UNCHANGED <<cut, mon, dog>>

\* storage.connect, which closes what it has opened when it fails, and the sandbox.
OpenStorage ==
    /\ proc = "boot"
    /\ proc' = "stored" /\ parts' = {"storage"}
    /\ UNCHANGED <<Runtime, sock, quiet, mon, dog, runs, cut>>

OpenFails ==
    /\ proc = "boot" /\ Unwinds
    /\ UNCHANGED <<Runtime, sock, quiet, parts, runs>>

\* TelegramClientManager.start.
Start ==
    /\ proc = "stored" /\ net /\ session = "valid"
    /\ sock' = "up" /\ quiet' = 0
    /\ dog' = "wait" /\ mon' = "sleep" /\ proc' = "supervised"
    /\ UNCHANGED <<Runtime, parts, runs, cut>>

\* Telegram is out of reach, or reached and does not know the session.
StartFails ==
    /\ proc = "stored" /\ (~net \/ session = "revoked") /\ Unwinds
    /\ sock' = IF net THEN "up" ELSE "down"
    /\ UNCHANGED <<Runtime, quiet, parts, runs>>

\* The API index or the clean-up of downloads fails beside a supervised connection,
\* or the scheduler does.
StageFails ==
    /\ proc \in {"supervised", "scheduled"} /\ Unwinds
    /\ UNCHANGED <<Runtime, sock, quiet, parts, runs>>

Scheduled ==
    /\ proc = "supervised"
    /\ proc' = "scheduled"
    /\ parts' \in {parts, parts \cup {"scheduler"}}
    /\ "scheduler" \in parts' => command # "once"
    /\ command = "serve" => "scheduler" \in parts'
    /\ UNCHANGED <<Runtime, sock, quiet, mon, dog, runs, cut>>

Listens ==
    /\ proc = "scheduled"
    /\ proc' = "running"
    /\ parts' \in {parts, parts \cup {"bridge"}}
    /\ "bridge" \in parts' => command \in {"listen", "serve"}
    /\ command = "listen" => "bridge" \in parts'
    /\ UNCHANGED <<Runtime, sock, quiet, mon, dog, runs, cut>>

Startup == OpenStorage \/ Start \/ Scheduled \/ Listens

--------------------------------------------------------------------------------
\* The runs.

World == <<sock, net, session, quiet, mon, dog, failures, failed, proc, trouble>>

OwnRun ==
    /\ proc = "running" /\ ("bridge" \in parts \/ command \in {"once", "library"})
    /\ runs' = runs \cup {"own"}
    /\ UNCHANGED <<World, command, parts, cut>>

TaskRun ==
    /\ "scheduler" \in parts /\ proc \in {"scheduled", "running", "stopping"}
    /\ runs' = runs \cup {"task"}
    /\ UNCHANGED <<World, command, parts, cut>>

\* A message that is being looked at when the bridge stops starts its run after the
\* bridge has cancelled those that it knew.
LateRun ==
    /\ proc = "stopping" /\ "bridge" \in parts
    /\ runs' = runs \cup {"late"}
    /\ UNCHANGED <<World, command, parts, cut>>

\* A late run stays in `runs` as history.
RunEnds(x) ==
    /\ x \in runs \ {"late"} /\ ~(x = "own" /\ proc = "stopping")
    /\ runs' = runs \ {x}
    /\ UNCHANGED <<World, command, parts, cut>>

\* A run that the bridge cancels says so in its chat first, with no deadline.
Farewell ==
    /\ "own" \in runs /\ proc = "stopping" /\ sock # "hole"
    /\ runs' = runs \ {"own"}
    /\ UNCHANGED <<World, command, parts, cut>>

--------------------------------------------------------------------------------
\* The monitor: _watch_health, _probe and _recover.

Look ==
    /\ mon = "sleep" /\ proc \notin ClosingStages
    /\ sock # "down" /\ quiet >= ProbeAfter
    /\ mon' = "probe"
    /\ UNCHANGED <<sock, net, session, quiet, dog, failures, failed, proc, trouble, host>>

MonitorLeaves ==
    /\ mon = "sleep" /\ proc \in ClosingStages
    /\ mon' = "off"
    /\ UNCHANGED <<sock, net, session, quiet, dog, failures, failed, proc, trouble, host>>

ProbeAnswers ==
    /\ mon = "probe" /\ sock = "up"
    /\ quiet' = 0 /\ mon' = "sleep"
    /\ UNCHANGED <<sock, net, session, dog, failures, failed, proc, trouble, host>>

\* The probe raises or meets its deadline, and _recover starts at once by
\* disconnecting. What a revoked session answers is Telethon's business: it
\* may answer or fail. A live connection may also be too slow for the deadline.
ProbeFails ==
    /\ mon = "probe"
    /\ IF sock # "up" \/ session = "revoked" THEN UNCHANGED trouble ELSE Mishap
    /\ sock' = "down" /\ dog' = Woken
    /\ mon' = "connect"
    /\ UNCHANGED <<net, session, quiet, failures, failed, proc, host>>

RecoverConnects ==
    /\ mon = "connect" /\ CanConnect
    /\ sock' = Connected
    /\ mon' = "authorise"
    /\ UNCHANGED <<net, session, quiet, dog, failures, failed, proc, trouble, host>>

RecoverAuthorised ==
    /\ mon = "authorise" /\ sock = "up" /\ session = "valid"
    /\ mon' = "me"
    /\ UNCHANGED <<sock, net, session, quiet, dog, failures, failed, proc, trouble, host>>

RecoverRevoked ==
    /\ mon = "authorise" /\ sock = "up" /\ session = "revoked"
    /\ failed' = TRUE
    /\ mon' = "sleep"
    /\ UNCHANGED <<sock, net, session, quiet, dog, failures, proc, trouble, host>>

RecoverMe ==
    /\ mon = "me" /\ sock = "up"
    /\ mon' = "catch_up"
    /\ UNCHANGED <<sock, net, session, quiet, dog, failures, failed, proc, trouble, host>>

\* Mutant: a rebuild takes one failure back instead of all of them.
RecoveredByOne ==
    /\ mon = "catch_up" /\ sock # "hole"
    /\ quiet' = 0 /\ failures' = failures - 1
    /\ mon' = "sleep"
    /\ UNCHANGED <<sock, net, session, dog, failed, proc, trouble, host>>

\* An error of catch_up is suppressed: the rebuild counts as a success even if
\* the connection has just been lost again.
Recovered ==
    /\ mon = "catch_up" /\ sock # "hole"
    /\ quiet' = 0 /\ failures' = 0
    /\ mon' = "sleep"
    /\ UNCHANGED <<sock, net, session, dog, failed, proc, trouble, host>>

RecoverFails ==
    /\ sock = "down"
    /\ mon \in {"authorise", "me"} \/ (mon = "connect" /\ ~net)
    /\ failures' = failures + 1
    /\ failed' = (failed \/ failures' >= MaxRecoveryAttempts)
    /\ mon' = "sleep"
    /\ UNCHANGED <<sock, net, session, quiet, dog, proc, trouble, host>>

Monitor ==
    \/ Look \/ MonitorLeaves \/ ProbeAnswers \/ ProbeFails
    \/ RecoverConnects \/ RecoverAuthorised \/ RecoverRevoked
    \/ RecoverMe \/ Recovered \/ RecoverFails

--------------------------------------------------------------------------------
\* The watchdog: _supervise. A connect() that raises only lengthens the
\* back-off, which is not kept here, so that case is a stuttering step.

DogReconnects ==
    /\ dog = "delay" /\ CanConnect
    /\ sock' = Connected
    /\ dog' = "authorise"
    /\ UNCHANGED <<net, session, quiet, mon, failures, failed, proc, trouble, host>>

DogAuthorised ==
    /\ dog = "authorise" /\ sock = "up" /\ session = "valid"
    /\ dog' = "wait"
    /\ UNCHANGED <<sock, net, session, quiet, mon, failures, failed, proc, trouble, host>>

\* The watchdog of a revoked session ends, and tells nobody.
DogRevoked ==
    /\ dog = "authorise" /\ sock = "up" /\ session = "revoked"
    /\ dog' = "off"
    /\ UNCHANGED <<sock, net, session, quiet, mon, failures, failed, proc, trouble, host>>

\* Mutant: an error ends the watchdog.
DogRaisesAndEnds ==
    /\ dog = "authorise" /\ sock = "down"
    /\ dog' = "off"
    /\ UNCHANGED <<sock, net, session, quiet, mon, failures, failed, proc, trouble, host>>

DogRaises ==
    /\ dog = "authorise" /\ sock = "down"
    /\ dog' = "delay"
    /\ UNCHANGED <<sock, net, session, quiet, mon, failures, failed, proc, trouble, host>>

Watchdog == DogReconnects \/ DogAuthorised \/ DogRevoked \/ DogRaises

--------------------------------------------------------------------------------
\* ensure_connected, before each call that a run makes of the gateway.
GatewayConnects ==
    /\ proc # "exited" /\ runs # {} /\ sock = "down" /\ net
    /\ sock' = "up"
    /\ UNCHANGED <<net, session, quiet, mon, dog, failures, failed, proc, trouble, host>>

\* The process waits for its user, and `listen` for `failed` as well, and then stops
\* in reverse order: the bridge, the scheduler, the connection, the storage.

\* Ctrl-C cancels what the command awaits, its own run included.
UserStops ==
    /\ proc \in {"stored", "supervised", "scheduled", "running"}
    /\ proc' = "stopping"
    /\ runs' = IF command \in {"once", "library"} THEN runs \ {"own"} ELSE runs
    /\ UNCHANGED <<Runtime, sock, quiet, mon, dog, parts, cut>>

\* Mutant: `listen` waits for the bridge alone.
FailureIgnored == proc = "running" /\ failed /\ UNCHANGED vars

FailureStops ==
    /\ proc = "running" /\ failed /\ command = "listen"
    /\ proc' = "stopping"
    /\ UNCHANGED <<Runtime, sock, quiet, mon, dog, parts, runs, cut>>

\* The bridge waits for the runs that it has cancelled.
BridgeStops ==
    /\ proc = "stopping" /\ "own" \notin runs
    /\ proc' = "draining" /\ parts' = parts \ {"bridge"}
    /\ UNCHANGED <<Runtime, sock, quiet, mon, dog, runs, cut>>

\* Mutant: the scheduler does not wait for the runs that it cancels.
DrainsNothing ==
    /\ proc = "draining"
    /\ proc' = "drained" /\ parts' = parts \ {"scheduler"}
    /\ UNCHANGED <<Runtime, sock, quiet, mon, dog, runs, cut>>

\* The scheduler waits for the runs of its tasks, and cancels what takes too long.
SchedulerDrains ==
    /\ proc = "draining"
    /\ proc' = "drained" /\ parts' = parts \ {"scheduler"} /\ runs' = runs \ {"task"}
    /\ UNCHANGED <<Runtime, sock, quiet, mon, dog, cut>>

CancelWatchdog ==
    /\ proc = "drained"
    /\ proc' = "closing" /\ dog' = "off"
    /\ UNCHANGED <<Runtime, sock, quiet, mon, parts, runs, cut>>

\* Mutant: stop() forgets the monitor.
CancelNothing ==
    /\ proc = "closing"
    /\ proc' = "silent"
    /\ UNCHANGED <<Runtime, sock, quiet, mon, dog, parts, runs, cut>>

CancelMonitor ==
    /\ proc = "closing"
    /\ proc' = "silent" /\ mon' = "off"
    /\ UNCHANGED <<Runtime, sock, quiet, dog, parts, runs, cut>>

Disconnect ==
    /\ proc = "silent"
    /\ proc' = "down" /\ sock' = "down"
    /\ UNCHANGED <<Runtime, quiet, mon, dog, parts, runs, cut>>

CloseStorage ==
    /\ proc = "down"
    /\ proc' = "exited" /\ parts' = parts \ {"storage"}
    /\ UNCHANGED <<Runtime, sock, quiet, mon, dog, runs, cut>>

\* A second Ctrl-C cancels stop() itself: the loop ends with what is still open.
Interrupt ==
    /\ proc \in StopStages
    /\ proc' = "exited" /\ cut' = TRUE /\ mon' = "off" /\ dog' = "off"
    /\ UNCHANGED <<Runtime, sock, quiet, parts, runs>>

Shutdown ==
    \/ FailureStops \/ Farewell \/ BridgeStops \/ SchedulerDrains
    \/ CancelWatchdog \/ CancelMonitor \/ Disconnect \/ CloseStorage

--------------------------------------------------------------------------------
\* What the world does while the process is alive.

Alive == proc \notin {"boot", "exited"}

\* Any update at all reaches the raw handler, and counts as a sign of life.
Hear ==
    /\ Alive /\ sock = "up" /\ session = "valid" /\ quiet > 0
    /\ quiet' = 0
    /\ UNCHANGED <<sock, net, session, mon, dog, failures, failed, proc, trouble, host>>

Tick ==
    /\ Alive /\ quiet < ProbeAfter
    /\ quiet' = quiet + 1
    /\ UNCHANGED <<sock, net, session, mon, dog, failures, failed, proc, trouble, host>>

\* Telethon gives the connection up, which resolves `client.disconnected`.
Drop ==
    /\ Alive /\ sock # "down" /\ Mishap
    /\ sock' = "down" /\ dog' = Woken
    /\ UNCHANGED <<net, session, quiet, mon, failures, failed, proc, host>>

\* A NAT forgets the flow: no RST, no error, nothing.
GoSilent ==
    /\ Alive /\ sock = "up" /\ Mishap
    /\ sock' = "hole"
    /\ UNCHANGED <<net, session, quiet, mon, dog, failures, failed, proc, host>>

NetFails ==
    /\ Alive /\ net /\ Mishap
    /\ net' = FALSE
    /\ UNCHANGED <<sock, session, quiet, mon, dog, failures, failed, proc, host>>

NetReturns ==
    /\ Alive /\ ~net
    /\ net' = TRUE
    /\ UNCHANGED <<sock, session, quiet, mon, dog, failures, failed, proc, trouble, host>>

Revoke ==
    /\ Alive /\ session = "valid"
    /\ session' = "revoked"
    /\ UNCHANGED <<sock, net, quiet, mon, dog, failures, failed, proc, trouble, host>>

Exited == proc = "exited" /\ UNCHANGED vars

Next ==
    \/ Startup \/ OpenFails \/ StartFails \/ StageFails
    \/ Monitor \/ Watchdog \/ GatewayConnects
    \/ OwnRun \/ TaskRun \/ LateRun \/ \E x \in Runs : RunEnds(x)
    \/ UserStops \/ Shutdown \/ Interrupt
    \/ Hear \/ Tick \/ Drop \/ GoSilent \/ NetFails \/ NetReturns \/ Revoke
    \/ Exited

\* The event loop runs a task that can run, the timers of the tasks fire, and
\* time passes; the network, the user and Telegram owe nothing.
Fairness ==
    /\ WF_vars(Startup)
    /\ WF_vars(Monitor)
    /\ WF_vars(Watchdog)
    /\ WF_vars(Shutdown)
    /\ WF_vars(Tick)

Spec == Init /\ [][Next]_vars /\ Fairness

--------------------------------------------------------------------------------
\* Every variable stays in its range.
TypeOK ==
    /\ sock \in {"down", "up", "hole"}
    /\ net \in BOOLEAN /\ failed \in BOOLEAN
    /\ session \in {"valid", "revoked"}
    /\ quiet \in 0..ProbeAfter
    /\ mon \in {"off", "sleep", "probe", "connect"} \cup Rebuilding
    /\ dog \in {"off", "wait", "delay", "authorise"}
    /\ failures \in Nat
    /\ proc \in StartStages \cup {"running", "exited"} \cup StopStages
    /\ trouble \in 0..MaxTrouble
    /\ command \in Commands /\ parts \in SUBSET Parts /\ runs \in SUBSET Runs
    /\ cut \in BOOLEAN

\* What a part stands on outlives it: the storage outlives the tasks that watch the
\* connection and the runs, and the connection outlives every run that its owner
\* knows of.
InOrder ==
    /\ {"scheduler", "bridge"} \cap parts # {} \/ {mon, dog} # {"off"} => "storage" \in parts
    /\ runs \cap {"own", "task"} # {} /\ proc # "exited" => proc \notin ClosingStages

\* However far the start came and whatever was in the middle of a rebuild, a stop()
\* that was not cut short leaves nothing open: no storage thread that keeps the
\* interpreter alive, no monitor, watchdog or run that brings the connection back,
\* unless a run was started behind the bridge's back.
StoppedIsDown ==
    /\ TypeOK /\ InOrder
    /\ proc = "exited" /\ ~cut =>
         /\ parts = {} /\ mon = "off" /\ dog = "off"
         /\ sock = "down" \/ "late" \in runs

\* A monitor that awaits a request on a dead socket, outside any deadline.
Swallowed == mon \in Rebuilding /\ sock = "hole"

\* The point of the two tasks: when the network is back for good, the session
\* is valid and nobody stops the process, the connection is up for good, also
\* after the socket died in silence while the watchdog or the monitor were
\* themselves reconnecting. The one exception is the monitor being Swallowed:
\* only the probe has a deadline, the requests of _recover have none.
Restored ==
    <>[](net /\ session = "valid" /\ proc = "running")
        => <>[](sock = "up" \/ Swallowed)

\* The bridge waits for the farewell of a run that it has cancelled, and the
\* monitor for a request of its rebuild, both on a dead socket.
FarewellSwallowed == proc = "stopping" /\ "own" \in runs /\ Swallowed

\* A connection declared unrecoverable ends `listen`, whatever its tasks and its runs
\* are in the middle of, unless the farewell of a run and the monitor are both
\* swallowed and stay so for good: nobody is left then who would find the socket dead.
FailureEnds ==
    failed /\ command = "listen" ~> proc = "exited" \/ []FarewellSwallowed

\* What the comment in _recover says of a rebuild that failed: "the next tick tries
\* again". The code does not keep it: the rebuild leaves the client disconnected, and
\* the monitor passes over a client that is not connected.
RebuildRetried ==
    proc = "running" /\ mon = "sleep" /\ failures > 0 /\ sock = "down"
        ~> mon = "connect" \/ sock # "down" \/ proc # "running"
================================================================================
