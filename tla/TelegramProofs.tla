-------------------------------- MODULE TelegramProofs -------------------------------
(***************************************************************************)
(* The connection to Telegram and what is read over it.                      *)
(*                                                                         *)
(* Connection: a stop() which is not cut short leaves nothing open, however  *)
(* many rebuilds are allowed, however long the monitor waits and whatever    *)
(* the network does.                                                        *)
(*                                                                         *)
(* Reading: for any chats, searches and pages, a walk gets every message     *)
(* once, a search keeps its cursor, and a download is what was checked.      *)
(***************************************************************************)
EXTENDS ConnectionHealth, Reading, FiniteSetTheorems, SequenceTheorems, WellFoundedInduction, TLAPS

Before == {"boot", "stored"}
Drained == {"drained"} \cup ClosingStages

\* What is open at each stage of the process.
Watched ==
    /\ proc \in Before \cup {"silent", "down", "exited"} => mon = "off"
    /\ proc \in Before \cup {"closing", "silent", "down", "exited"} => dog = "off"

Opened ==
    /\ proc = "boot" => parts = {}
    /\ proc \in (StartStages \ {"boot"}) \cup {"running"} => "storage" \in parts
    /\ proc \in {"draining"} \cup Drained => "bridge" \notin parts
    /\ proc \in Drained => "scheduler" \notin parts

Running ==
    /\ proc \in Before => runs = {}
    /\ proc \in {"draining"} \cup Drained => "own" \notin runs
    /\ proc \in Drained => "task" \notin runs

\* Who could still bring the connection back.
Closed ==
    /\ cut => proc = "exited"
    /\ proc = "down" => sock = "down" \/ "late" \in runs

Inv == StoppedIsDown /\ Watched /\ Opened /\ Running /\ Closed

AllStages == StartStages \cup {"running", "exited"} \cup StopStages

LEMMA Begins == Init => Inv
<1> SUFFICES ASSUME Init PROVE Inv
    OBVIOUS
<1>1. TypeOK
    <2>1. quiet \in 0..ProbeAfter /\ trouble \in 0..MaxTrouble
        BY ConnectionAssumption DEF ConnectionAssumption, Init
    <2>2. failed \in BOOLEAN /\ cut \in BOOLEAN
        BY DEF Init
    <2> QED
        BY <2>1, <2>2 DEF Init, TypeOK, StartStages
<1>2. InOrder /\ Watched /\ Opened /\ Running /\ Closed
    BY DEF Init, InOrder, Watched, Opened, Running, Closed, Before, Drained, StartStages,
           StopStages, ClosingStages
<1> QED
    BY <1>1, <1>2 DEF Init, Inv, StoppedIsDown

\* The invariant in the words of its variables.
LEMMA StartKeeps == Inv /\ (Startup \/ OpenFails \/ StartFails \/ StageFails) => Inv'
<1> SUFFICES ASSUME Inv, Startup \/ OpenFails \/ StartFails \/ StageFails PROVE Inv'
    OBVIOUS
<1> USE DEF Inv, StoppedIsDown, TypeOK, InOrder, Watched, Opened, Running, Closed, Before,
            Drained, StartStages, StopStages, ClosingStages, Rebuilding, Commands, Parts, Runs,
            Runtime
<1> USE ConnectionAssumption DEF ConnectionAssumption
<1>1. CASE OpenStorage
    BY <1>1 DEF OpenStorage
<1>2. CASE Start
    BY <1>2 DEF Start
<1>3. CASE Scheduled
    BY <1>3 DEF Scheduled
<1>4. CASE Listens
    BY <1>4 DEF Listens
<1>5. CASE OpenFails
    BY <1>5 DEF OpenFails, Unwinds
<1>6. CASE StartFails
    BY <1>6 DEF StartFails, Unwinds
<1>7. CASE StageFails
    <2>1. proc \in {"supervised", "scheduled"} /\ UNCHANGED <<Runtime, sock, quiet, parts, runs>>
        BY <1>7 DEF StageFails
    <2>2. CASE proc' = "exited" /\ cut' = TRUE /\ mon' = "off" /\ dog' = "off"
        BY <2>1, <2>2
    <2>3. CASE proc' = "stopping" /\ UNCHANGED <<cut, mon, dog>>
        BY <2>1, <2>3
    <2> QED
        BY <1>7, <2>2, <2>3 DEF StageFails, Unwinds
<1> QED
    BY <1>1, <1>2, <1>3, <1>4, <1>5, <1>6, <1>7 DEF Startup

LEMMA RunsKeep ==
    Inv /\ (OwnRun \/ TaskRun \/ LateRun \/ Farewell \/ \E x \in Runs : RunEnds(x)) => Inv'
<1> SUFFICES ASSUME Inv, OwnRun \/ TaskRun \/ LateRun \/ Farewell \/ \E x \in Runs : RunEnds(x)
             PROVE  Inv'
    OBVIOUS
<1> USE DEF Inv, StoppedIsDown, TypeOK, InOrder, Watched, Opened, Running, Closed, Before,
            Drained, StartStages, StopStages, ClosingStages, Rebuilding, Commands, Parts, Runs,
            World
<1>1. CASE OwnRun
    BY <1>1 DEF OwnRun
<1>2. CASE TaskRun
    BY <1>2 DEF TaskRun
<1>3. CASE LateRun
    BY <1>3 DEF LateRun
<1>4. CASE Farewell
    BY <1>4 DEF Farewell
<1>5. ASSUME NEW x \in Runs, RunEnds(x) PROVE Inv'
    BY <1>5 DEF RunEnds
<1> QED
    BY <1>1, <1>2, <1>3, <1>4, <1>5

\* The monitor, the watchdog, the gateway and the world move the connection, and only
\* where nothing has been closed.
Frame == UNCHANGED <<proc, host>>

LEMMA FrameKeeps ==
    ASSUME Inv, Frame, TypeOK', mon = "off" => mon' = "off", dog = "off" => dog' = "off",
           proc \in {"down", "exited"} => \/ sock' = "down" \/ sock' = sock
                                        \/ (runs # {} /\ proc = "down")
    PROVE  Inv'
<1>1. /\ UNCHANGED <<proc, parts, runs, cut, host>>
      /\ proc \in {"down", "exited"} => \/ sock' = "down" \/ sock' = sock
                                       \/ (runs # {} /\ proc = "down")
    BY DEF Frame, host
<1>2. Opened' /\ Running'
    BY <1>1 DEF Inv, Opened, Running, InOrder, Before, Drained, StartStages, StopStages
<1>3. Watched'
    BY <1>1 DEF Inv, Watched, Before, StartStages
<1>4. proc = "down" /\ runs # {} => "late" \in runs
    BY DEF Inv, StoppedIsDown, TypeOK, Runs, Running, Drained, ClosingStages
<1>5. Closed'
    BY <1>1, <1>4 DEF Inv, Closed
<1>6. StoppedIsDown'
    BY <1>1 DEF Inv, StoppedIsDown, Watched, InOrder
<1> QED
    BY <1>2, <1>3, <1>5, <1>6 DEF Inv

LEMMA ConnectionKeeps ==
    Inv /\ (Monitor \/ Watchdog \/ GatewayConnects) => Inv'
<1> SUFFICES ASSUME Inv, Monitor \/ Watchdog \/ GatewayConnects PROVE Inv'
    OBVIOUS
<1>1. TypeOK /\ Watched
    BY DEF Inv, StoppedIsDown
<1>2. ASSUME Monitor \/ Watchdog
      PROVE  /\ Frame /\ TypeOK' /\ (mon = "off" => mon' = "off") /\ (dog = "off" => dog' = "off")
             /\ proc \notin {"down", "exited"}
    <2> USE <1>1, ConnectionAssumption
        DEF ConnectionAssumption, TypeOK, Watched, Before, Rebuilding, Frame, host, StartStages,
            StopStages, ClosingStages, Commands, Parts, Runs, Woken, Connected, Mishap
    <2>1. CASE Look
        BY <2>1 DEF Look
    <2>2. CASE MonitorLeaves
        BY <2>2 DEF MonitorLeaves
    <2>3. CASE ProbeAnswers
        BY <2>3 DEF ProbeAnswers
    <2>4. CASE ProbeFails
        BY <2>4 DEF ProbeFails
    <2>5. CASE RecoverConnects
        BY <2>5 DEF RecoverConnects
    <2>6. CASE RecoverAuthorised
        BY <2>6 DEF RecoverAuthorised
    <2>7. CASE RecoverRevoked
        BY <2>7 DEF RecoverRevoked
    <2>8. CASE RecoverMe
        BY <2>8 DEF RecoverMe
    <2>9. CASE Recovered
        BY <2>9 DEF Recovered
    <2>10. CASE RecoverFails
        BY <2>10 DEF RecoverFails
    <2>11. CASE DogReconnects
        BY <2>11 DEF DogReconnects
    <2>12. CASE DogAuthorised
        BY <2>12 DEF DogAuthorised
    <2>13. CASE DogRevoked
        BY <2>13 DEF DogRevoked
    <2>14. CASE DogRaises
        BY <2>14 DEF DogRaises
    <2> QED
        BY <1>2, <2>1, <2>2, <2>3, <2>4, <2>5, <2>6, <2>7, <2>8, <2>9, <2>10, <2>11, <2>12, <2>13, <2>14
           DEF Monitor, Watchdog
<1>3. CASE Monitor \/ Watchdog
    BY <1>2, <1>3, FrameKeeps
<1>4. CASE GatewayConnects
    BY <1>1, <1>4, FrameKeeps DEF GatewayConnects, TypeOK, Frame, host
<1> QED
    BY <1>3, <1>4

LEMMA WorldKeeps ==
    Inv /\ (Hear \/ Tick \/ Drop \/ GoSilent \/ NetFails \/ NetReturns \/ Revoke) => Inv'
<1> SUFFICES ASSUME Inv, Hear \/ Tick \/ Drop \/ GoSilent \/ NetFails \/ NetReturns \/ Revoke
             PROVE  Inv'
    OBVIOUS
<1>1. TypeOK /\ Watched
    BY DEF Inv, StoppedIsDown
<1>2. /\ Frame /\ TypeOK' /\ (mon = "off" => mon' = "off") /\ (dog = "off" => dog' = "off")
      /\ proc # "exited" /\ sock' \in {"down", sock, "hole"} /\ (sock' = "hole" => sock # "down")
    <2> USE <1>1, ConnectionAssumption
        DEF ConnectionAssumption, TypeOK, Frame, host, Woken, Mishap, Alive
    <2>1. CASE Hear \/ Tick
        BY <2>1 DEF Hear, Tick
    <2>2. CASE Drop \/ GoSilent
        BY <2>2 DEF Drop, GoSilent
    <2>3. CASE NetFails
        <3>1. /\ net' = FALSE /\ trouble' \in 0..MaxTrouble
              /\ UNCHANGED <<sock, session, quiet, mon, dog, failures, failed, proc, host>>
              /\ proc # "exited"
            BY <2>3 DEF NetFails
        <3>2. net' \in BOOLEAN
            BY <3>1
        <3> QED
            BY <3>1, <3>2
    <2>4. CASE NetReturns
        BY <2>4 DEF NetReturns
    <2>5. CASE Revoke
        BY <2>5 DEF Revoke
    <2> QED
        BY <2>1, <2>2, <2>3, <2>4, <2>5
<1>3. sock' = "down" \/ sock' = sock \/ (proc = "down" => runs # {})
    BY <1>1, <1>2 DEF Inv, Closed, TypeOK
<1> QED
    BY <1>2, <1>3, FrameKeeps

LEMMA StopKeeps ==
    Inv /\ (UserStops \/ Shutdown \/ Interrupt) => Inv'
<1> SUFFICES ASSUME Inv, UserStops \/ Shutdown \/ Interrupt PROVE Inv'
    OBVIOUS
<1>0. CASE Farewell
    BY <1>0, RunsKeep
<1> USE DEF Inv, StoppedIsDown, TypeOK, InOrder, Watched, Opened, Running, Closed, Before,
            Drained, StartStages, StopStages, ClosingStages, Rebuilding, Commands, Parts, Runs,
            Runtime
<1>1. CASE UserStops
    BY <1>1 DEF UserStops
<1>2. CASE FailureStops
    BY <1>2 DEF FailureStops
<1>3. CASE BridgeStops
    BY <1>3 DEF BridgeStops
<1>4. CASE SchedulerDrains
    BY <1>4 DEF SchedulerDrains
<1>5. CASE CancelWatchdog
    BY <1>5 DEF CancelWatchdog
<1>6. CASE CancelMonitor
    BY <1>6 DEF CancelMonitor
<1>7. CASE Disconnect
    BY <1>7 DEF Disconnect
<1>8. CASE CloseStorage
    BY <1>8 DEF CloseStorage
<1>9. CASE Interrupt
    BY <1>9 DEF Interrupt
<1> QED
    BY <1>0, <1>1, <1>2, <1>3, <1>4, <1>5, <1>6, <1>7, <1>8, <1>9 DEF Shutdown

\* Inv is an invariant.
THEOREM InvHolds == Spec => []Inv
<1>1. Inv /\ [Next]_vars => Inv'
    <2> SUFFICES ASSUME Inv, Next \/ UNCHANGED vars PROVE Inv'
        OBVIOUS
    <2>1. CASE UNCHANGED vars \/ Exited
        BY <2>1 DEF vars, host, Exited, Inv, StoppedIsDown, TypeOK, InOrder, Watched, Opened,
                    Running, Closed
    <2> QED
        BY <2>1, StartKeeps, RunsKeep, ConnectionKeeps, WorldKeeps, StopKeeps DEF Next
<1> QED
    BY Begins, <1>1, PTL DEF Spec

\* StoppedIsDown, for every instance: a stop() that was not cut short leaves no storage,
\* no monitor, no watchdog and no connection behind, unless a run was started behind the
\* bridge's back (Application.stop, telegram/client.py stop).
THEOREM StopLeavesNothing == Spec => []StoppedIsDown
<1>1. Inv => StoppedIsDown
    BY DEF Inv
<1> QED
    BY <1>1, InvHolds, PTL

--------------------------------------------------------------------------------
(***************************************************************************)
(* Pages and downloads (Reading).                                            *)
(***************************************************************************)
LEMMA ReadingLimits ==
    /\ PageSize \in Nat \ {0} /\ CursorMemory \in Nat \ {0} /\ MaxMessages \in Nat \ {0}
    /\ Floor \in Nat
    /\ Chat \in [Messages -> Chats]
BY ReadingAssumption DEF ReadingAssumption

LEMMA SomeMessages ==
    ASSUME NEW s \in SUBSET Messages
    PROVE  IsFiniteSet(s) /\ Cardinality(s) \in Nat
<1>1. IsFiniteSet(Messages)
    BY ReadingLimits, FS_Interval DEF Messages
<1> QED
    BY <1>1, FS_Subset, FS_CardinalityType

\* What Min and Max choose.
LEMMA MinIsLeast ==
    ASSUME NEW s \in SUBSET Nat, s # {}
    PROVE  Min(s) \in s /\ \A m \in s : Min(s) <= m
<1> DEFINE R == OpToRel(<, Nat)
<1>1. R = {p \in Nat \X Nat : p[1] < p[2]}
    BY DEF OpToRel
<1>2. IsWellFoundedOn(R, Nat)
    BY NatLessThanWellFounded
<1> HIDE DEF R
<1>3. PICK x \in s : \A y \in s : ~(<<y, x>> \in R)
    BY <1>2, WFMin, Zenon
<1>4. ASSUME NEW y \in s PROVE x <= y
    <2> DEFINE p == <<y, x>>
    <2>1. p \in Nat \X Nat /\ p[1] = y /\ p[2] = x
        OBVIOUS
    <2>2. p \notin R
        BY <1>3
    <2> HIDE DEF p
    <2> QED
        BY <1>1, <2>1, <2>2
<1> QED
    BY <1>4 DEF Min

LEMMA MaxIsGreatest ==
    ASSUME NEW s \in SUBSET Messages, s # {}
    PROVE  Max(s) \in s /\ \A m \in s : Max(s) >= m
<1> DEFINE t == {MaxMessages - m : m \in s}
<1>0. \A m \in s : m \in Nat /\ MaxMessages - m \in Nat
    BY ReadingLimits DEF Messages
<1>1. t \in SUBSET Nat /\ t # {}
    BY <1>0
<1> HIDE DEF t
<1>2. Min(t) \in t /\ \A m \in t : Min(t) <= m
    BY <1>1, MinIsLeast
<1>3. PICK x \in s : Min(t) = MaxMessages - x
    BY <1>2 DEF t
<1>4. \A m \in s : MaxMessages - m \in t
    BY DEF t
<1>5. \A m \in s : x >= m
    BY <1>0, <1>2, <1>3, <1>4, ReadingLimits
<1> QED
    BY <1>5 DEF Max

LEMMA IdType == \A m \in Messages : Id(m) \in 1..MaxMessages
<1> SUFFICES ASSUME NEW m \in Messages PROVE Id(m) \in 1..MaxMessages
    OBVIOUS
<1> DEFINE s == {n \in 1..m : Chat[n] = Chat[m]}
<1>1. m \in s /\ s \subseteq 1..m /\ m \in Nat /\ m <= MaxMessages
    BY ReadingLimits DEF Messages
<1>2. IsFiniteSet(1..m) /\ Cardinality(1..m) = m
    BY <1>1, FS_Interval DEF Messages
<1>3. IsFiniteSet(s) /\ Cardinality(s) <= m /\ Cardinality(s) \in Nat
    BY <1>1, <1>2, FS_Subset, FS_CardinalityType
<1>4. Cardinality(s) # 0
    BY <1>1, <1>3, FS_EmptySet
<1>5. Id(m) = Cardinality(s)
    BY DEF Id
<1> HIDE DEF s
<1> QED
    BY <1>1, <1>3, <1>4, <1>5, ReadingLimits

\* In a chat, ids are in the order of the messages.
LEMMA IdGrows ==
    \A m, n \in Messages : Chat[m] = Chat[n] /\ m < n => Id(m) < Id(n)
<1> SUFFICES ASSUME NEW m \in Messages, NEW n \in Messages, Chat[m] = Chat[n], m < n
             PROVE  Id(m) < Id(n)
    OBVIOUS
<1> DEFINE s == {k \in 1..m : Chat[k] = Chat[m]}
           t == {k \in 1..n : Chat[k] = Chat[n]}
<1>1. s \subseteq Messages /\ t \subseteq Messages
    BY ReadingLimits DEF Messages
<1>2. s \cup {n} \subseteq t /\ n \notin s
    BY ReadingLimits DEF Messages
<1>3. Id(m) = Cardinality(s) /\ Id(n) = Cardinality(t)
    BY DEF Id
<1> HIDE DEF s, t
<1>4. IsFiniteSet(s) /\ IsFiniteSet(t) /\ Cardinality(s) \in Nat /\ Cardinality(t) \in Nat
    BY <1>1, SomeMessages
<1>5. Cardinality(s \cup {n}) = Cardinality(s) + 1
    BY <1>2, <1>4, FS_AddElement
<1>6. Cardinality(s \cup {n}) <= Cardinality(t)
    BY <1>2, <1>4, FS_Subset
<1> QED
    BY <1>3, <1>4, <1>5, <1>6

\* A page is the newest of what there is,
LEMMA NewestIsPage ==
    ASSUME NEW s \in SUBSET Messages
    PROVE  LET page == NewestOf(s)
           IN  /\ page \subseteq s
               /\ \A m \in s \ page, p \in page : m < p
               /\ ~HasMore(page) => page = s
<1> DEFINE page == NewestOf(s)
           Newer(m) == {n \in s : n > m}
<1>1. \A m : m \in page <=> m \in s /\ Cardinality(Newer(m)) < PageSize
    BY DEF NewestOf
<1>0. \A m \in s : m \in Nat
    BY ReadingLimits DEF Messages
<1>2. \A m \in s : /\ IsFiniteSet(Newer(m)) /\ Cardinality(Newer(m)) \in Nat
                    /\ Newer(m) \in SUBSET Messages
    BY SomeMessages
<1> HIDE DEF page
<1>3. ASSUME NEW m \in s \ page, NEW p \in page PROVE m < p
    <2> SUFFICES ASSUME ~(m < p) PROVE FALSE
        OBVIOUS
    <2>1. m \in Nat /\ p \in Nat /\ m # p
        BY <1>0, <1>1
    <2>2. \A n \in s : n \in Newer(m) => n \in Newer(p)
        BY <1>0, <2>1
    <2>3. Cardinality(Newer(m)) <= Cardinality(Newer(p))
        BY <1>1, <1>2, <2>2, FS_Subset
    <2> HIDE DEF Newer
    <2> QED
        BY <1>1, <1>2, <2>3, ReadingLimits
<1>4. ASSUME ~HasMore(page) PROVE page = s
    <2> SUFFICES ASSUME s \ page # {} PROVE FALSE
        BY <1>1
    <2> DEFINE m == Max(s \ page)
    <2>1. m \in s \ page /\ \A n \in s \ page : m >= n
        BY MaxIsGreatest
    <2> HIDE DEF m
    <2>2. \A n \in s : n \in Newer(m) => n \in page
        BY <1>0, <2>1
    <2>3. IsFiniteSet(page) /\ Cardinality(page) \in Nat
        BY <1>1, SomeMessages
    <2>4. Cardinality(Newer(m)) <= Cardinality(page)
        BY <2>2, <2>3, FS_Subset
    <2> HIDE DEF Newer
    <2> QED
        BY <1>1, <1>2, <1>4, <2>1, <2>3, <2>4, ReadingLimits DEF HasMore
<1> QED
    BY <1>1, <1>3, <1>4 DEF page

\* or the oldest.
LEMMA OldestIsPage ==
    ASSUME NEW s \in SUBSET Messages
    PROVE  LET page == OldestOf(s)
           IN  /\ page \subseteq s
               /\ \A m \in s \ page, p \in page : m > p
               /\ ~HasMore(page) => page = s
<1> DEFINE page == OldestOf(s)
           Older(m) == {n \in s : n < m}
<1>1. \A m : m \in page <=> m \in s /\ Cardinality(Older(m)) < PageSize
    BY DEF OldestOf
<1>0. \A m \in s : m \in Nat
    BY ReadingLimits DEF Messages
<1>2. \A m \in s : /\ IsFiniteSet(Older(m)) /\ Cardinality(Older(m)) \in Nat
                    /\ Older(m) \in SUBSET Messages
    BY SomeMessages
<1> HIDE DEF page
<1>3. ASSUME NEW m \in s \ page, NEW p \in page PROVE m > p
    <2> SUFFICES ASSUME ~(m > p) PROVE FALSE
        OBVIOUS
    <2>1. m \in Nat /\ p \in Nat /\ m # p
        BY <1>0, <1>1
    <2>2. \A n \in s : n \in Older(m) => n \in Older(p)
        BY <1>0, <2>1
    <2>3. Cardinality(Older(m)) <= Cardinality(Older(p))
        BY <1>1, <1>2, <2>2, FS_Subset
    <2> HIDE DEF Older
    <2> QED
        BY <1>1, <1>2, <2>3, ReadingLimits
<1>4. ASSUME ~HasMore(page) PROVE page = s
    <2> SUFFICES ASSUME s \ page # {} PROVE FALSE
        BY <1>1
    <2> DEFINE m == Min(s \ page)
    <2>1. m \in s \ page /\ \A n \in s \ page : m <= n
        BY <1>0, MinIsLeast
    <2> HIDE DEF m
    <2>2. \A n \in s : n \in Older(m) => n \in page
        BY <1>0, <2>1
    <2>3. IsFiniteSet(page) /\ Cardinality(page) \in Nat
        BY <1>1, SomeMessages
    <2>4. Cardinality(Older(m)) <= Cardinality(page)
        BY <2>2, <2>3, FS_Subset
    <2> HIDE DEF Older
    <2> QED
        BY <1>1, <1>2, <1>4, <2>1, <2>3, <2>4, ReadingLimits DEF HasMore
<1> QED
    BY <1>1, <1>3, <1>4 DEF page

\* m comes after the pages that a walk has asked for: those before the id of a page, or,
\* in a search, before the message.
Ahead(walk, offset, place, m) ==
    IF walk.kind = "global" THEN place = 0 \/ m < place
    ELSE IF walk.kind = "forth" THEN Id(m) > offset
    ELSE offset = 0 \/ Id(m) < offset

\* m is one of those that a walk is about,
Within(walk, m) == walk.kind # "global" => Chat[m] = walk.of
\* and is shown.
Fits(walk, m) == Within(walk, m) /\ (walk.kind = "since" => m >= Floor)

LEMMA KindOfWalk ==
    ASSUME NEW walk \in Walks
    PROVE  walk.kind \in {"back", "forth", "since", "global"}
BY ReadingAssumption DEF ReadingAssumption

\* What is served is what is next.
LEMMA ServesNext ==
    ASSUME there \in SUBSET Messages, NEW q, q.walk \in Walks
    PROVE  LET rows == Served(q)
               next(m) == Within(q.walk, m) /\ Ahead(q.walk, q.offset, q.at, m)
           IN  /\ \A m \in rows : m \in there /\ next(m)
               /\ \A m \in there, p \in rows : next(m) /\ m \notin rows =>
                     IF q.walk.kind = "forth" THEN m > p ELSE m < p
               /\ ~HasMore(rows) => \A m \in there : next(m) => m \in rows
<1> DEFINE s == {m \in there : Within(q.walk, m) /\ Ahead(q.walk, q.offset, q.at, m)}
<1>1. s \in SUBSET Messages
    OBVIOUS
<1>2. CASE q.walk.kind \in {"back", "since"}
    <2>1. s = {m \in InChat(q.walk.of) : q.offset = 0 \/ Id(m) < q.offset}
        BY <1>2 DEF Within, Ahead, InChat
    <2>2. Served(q) = NewestOf(s)
        BY <1>2, <2>1 DEF Served
    <2> QED
        BY <1>1, <1>2, <2>2, NewestIsPage
<1>3. CASE q.walk.kind = "forth"
    <2>1. s = {m \in InChat(q.walk.of) : Id(m) > q.offset}
        BY <1>3 DEF Within, Ahead, InChat
    <2>2. Served(q) = OldestOf(s)
        BY <1>3, <2>1 DEF Served
    <2> QED
        BY <1>1, <1>3, <2>2, OldestIsPage
<1>4. CASE q.walk.kind = "global"
    <2>1. s = {m \in there : q.at = 0 \/ m < q.at}
        BY <1>4 DEF Within, Ahead
    <2>2. Served(q) = NewestOf(s)
        BY <1>4, <2>1 DEF Served
    <2> QED
        BY <1>1, <1>4, <2>2, NewestIsPage
<1> QED
    BY <1>2, <1>3, <1>4, KindOfWalk

\* What is left for the pages to come is ahead of them, and what was read is not.
LEMMA Continues ==
    ASSUME there \in SUBSET Messages, NEW q \in Reader, q.walk \in Walks,
           \A m \in q.due : m \in there /\ Within(q.walk, m) /\ Ahead(q.walk, q.offset, q.at, m),
           \A m \in q.seen : Within(q.walk, m) /\ ~Ahead(q.walk, q.offset, q.at, m),
           HasMore(Served(q))
    PROVE  LET rows == Served(q)
               next == Next_offset(rows, q.walk)
               last == LastOf(rows)
           IN  /\ last \in Messages /\ last \in rows
               /\ next \in 1..MaxMessages
               /\ q.walk.kind = "global" => next = Id(last)
               /\ \A m \in q.due \ rows : Ahead(q.walk, next, last, m)
               /\ \A m \in q.seen \cup rows : ~Ahead(q.walk, next, last, m)
<1> DEFINE rows == Served(q)
           ids == {Id(m) : m \in rows}
           next == Next_offset(rows, q.walk)
           last == LastOf(rows)
<1>1. /\ \A m \in rows : m \in there /\ Within(q.walk, m) /\ Ahead(q.walk, q.offset, q.at, m)
      /\ \A m \in q.due, p \in rows : m \notin rows =>
              IF q.walk.kind = "forth" THEN m > p ELSE m < p
    BY ServesNext
<1>2. HasMore(rows)
    OBVIOUS
<1>3. next = CASE q.walk.kind = "forth" -> Max(ids)
               [] q.walk.kind \in {"back", "since"} -> Min(ids)
               [] q.walk.kind = "global" -> Id(last)
    BY DEF Next_offset
<1> HIDE DEF rows, next
<1>4. rows \in SUBSET Messages /\ rows # {} /\ q.due \in SUBSET Messages /\ q.seen \in SUBSET Messages
    <2>1. rows # {}
        BY <1>2, FS_EmptySet, ReadingLimits DEF HasMore
    <2> QED
        BY <1>1, <2>1 DEF Reader
<1>5. \A m \in Messages : m \in Nat /\ Id(m) \in Nat /\ Id(m) \in 1..MaxMessages
    BY IdType, ReadingLimits DEF Messages
<1>6. last \in rows /\ \A m \in rows : last <= m
    BY <1>4, <1>5, MinIsLeast DEF LastOf
<1>7. /\ ids \in SUBSET Nat /\ ids \in SUBSET Messages /\ ids # {}
      /\ \A m \in rows : Id(m) \in ids
      /\ \A i \in ids : \E m \in rows : i = Id(m)
    BY <1>4, <1>5 DEF Messages
<1> HIDE DEF ids, last
<1>8. CASE q.walk.kind = "global"
    <2>1. next = Id(last) /\ last \in Messages /\ next \in 1..MaxMessages
        BY <1>3, <1>4, <1>5, <1>6, <1>8
    <2>2. \A m \in q.due \ rows : m < last
        BY <1>1, <1>6, <1>8
    <2>3. ASSUME NEW m \in q.seen PROVE m >= last
        <3>1. q.at \in Nat /\ q.at # 0 /\ m >= q.at
            BY <1>4, <1>5, <1>8 DEF Ahead, Reader
        <3>2. last < q.at
            BY <1>1, <1>6, <1>8, <3>1 DEF Ahead
        <3> QED
            BY <1>4, <1>5, <2>1, <3>1, <3>2
    <2>4. \A m \in q.due \ rows : Ahead(q.walk, next, last, m)
        BY <1>8, <2>2 DEF Ahead
    <2>5. \A m \in q.seen \cup rows : ~Ahead(q.walk, next, last, m)
        <3>1. ASSUME NEW m \in q.seen \cup rows PROVE m >= last
            BY <1>6, <2>3
        <3>2. last # 0 /\ last \in Nat
            BY <2>1, ReadingLimits DEF Messages
        <3> QED
            BY <1>4, <1>5, <1>8, <3>1, <3>2 DEF Ahead
    <2> QED
        BY <1>6, <1>8, <2>1, <2>4, <2>5 DEF next, last, rows
<1>9. CASE q.walk.kind = "forth"
    <2>1. next \in ids /\ \A i \in ids : next >= i
        BY <1>3, <1>7, <1>9, MaxIsGreatest
    <2>2. PICK p \in rows : next = Id(p)
        BY <1>7, <2>1
    <2>3. \A m \in rows : Id(m) <= next
        BY <1>4, <1>5, <1>7, <2>1
    <2>4. ASSUME NEW m \in q.due \ rows PROVE Id(m) > next
        <3>1. m > p /\ Chat[m] = Chat[p]
            BY <1>1, <1>9, <2>2 DEF Within
        <3> QED
            BY <1>4, <1>5, <2>2, <3>1, IdGrows
    <2>5. ASSUME NEW m \in q.seen PROVE Id(m) <= next
        <3>1. Id(m) <= q.offset /\ Id(p) > q.offset /\ q.offset \in Nat
            BY <1>1, <1>4, <1>5, <1>9, <2>2, ReadingLimits DEF Ahead, Reader, Ids
        <3> QED
            BY <1>4, <1>5, <2>2, <3>1
    <2>6. next \in Nat /\ next \in 1..MaxMessages /\ last \in Messages
        BY <1>4, <1>5, <1>6, <2>2
    <2>7. \A m \in q.due \ rows : Ahead(q.walk, next, last, m)
        BY <1>9, <2>4 DEF Ahead
    <2>8. \A m \in q.seen \cup rows : ~Ahead(q.walk, next, last, m)
        BY <1>4, <1>5, <1>9, <2>3, <2>5, <2>6 DEF Ahead
    <2> QED
        BY <1>6, <1>9, <2>6, <2>7, <2>8 DEF next, last, rows
<1>10. CASE q.walk.kind \in {"back", "since"}
    <2>1. next \in ids /\ \A i \in ids : next <= i
        BY <1>3, <1>7, <1>10, MinIsLeast
    <2>2. PICK p \in rows : next = Id(p)
        BY <1>7, <2>1
    <2>3. \A m \in rows : Id(m) >= next
        BY <1>4, <1>5, <1>7, <2>1
    <2>4. ASSUME NEW m \in q.due \ rows PROVE Id(m) < next
        <3>1. m < p /\ Chat[m] = Chat[p]
            BY <1>1, <1>10, <2>2 DEF Within
        <3> QED
            BY <1>4, <1>5, <2>2, <3>1, IdGrows
    <2>5. ASSUME NEW m \in q.seen PROVE Id(m) >= next
        <3>1. q.offset # 0 /\ Id(m) >= q.offset /\ q.offset \in Nat
            BY <1>4, <1>5, <1>10, ReadingLimits DEF Ahead, Reader, Ids
        <3>2. Id(p) < q.offset
            BY <1>1, <1>10, <2>2, <3>1 DEF Ahead
        <3> QED
            BY <1>4, <1>5, <2>2, <3>1, <3>2
    <2>6. next \in Nat /\ next \in 1..MaxMessages /\ last \in Messages
        BY <1>4, <1>5, <1>6, <2>2
    <2>7. \A m \in q.due \ rows : Ahead(q.walk, next, last, m)
        BY <1>10, <2>4 DEF Ahead
    <2>8. \A m \in q.seen \cup rows : ~Ahead(q.walk, next, last, m)
        BY <1>4, <1>5, <1>10, <2>3, <2>5, <2>6 DEF Ahead
    <2> QED
        BY <1>6, <1>10, <2>6, <2>7, <2>8 DEF next, last, rows
<1> QED
    BY <1>8, <1>9, <1>10, KindOfWalk

(* What is known of a reader.                                                *)

Paging == {"asking", "between"}
\* Where a search goes on.
Place(q) == IF q.pc = "asking" THEN q.at ELSE q.last

Walked(q, present) ==
    q.pc \in Paging =>
        /\ q.walk \in Walks
        /\ q.lost => q.walk.kind = "global" /\ q.due = {} /\ q.seen = {}
        /\ \A m \in q.due : m \in present /\ Fits(q.walk, m) /\ Ahead(q.walk, q.offset, Place(q), m)
        /\ \A m \in q.seen : Fits(q.walk, m) /\ ~Ahead(q.walk, q.offset, Place(q), m)

\* A search that was not lost has its cursor under the id of the page before.
Continued(q) ==
    q.pc = "between" /\ q.walk.kind = "global" /\ ~q.lost =>
        q.offset = IF q.last = 0 THEN 0 ELSE Id(q.last)

Finished(q) == q.pc \notin Paging => q.due = {} /\ q.seen = {}

\* Each look at a message leaves only what it lets pass.
Examined(q) ==
    /\ q.pc = "looking" => q.carried \in Contents \cup {"none"} /\ q.message \in Messages
    /\ q.pc = "fetching" /\ ~q.edited => q.carried \in {"good", "large"}
    /\ q.pc = "checking" => q.file \in Contents /\ (q.file = "banned" => q.edited)
    /\ q.pc = "done" => q.file # "large" /\ (q.file = "banned" => q.edited)
    /\ q.pc \notin {"checking", "done"} => q.file = "none"

Sound(q, present) ==
    /\ Walked(q, present) /\ Continued(q) /\ Finished(q) /\ Examined(q)
    /\ ~q.twice

\* What is known of the memory of searches: while it is not shared in a way that it does
\* not bear, each search has one reader, and that reader's cursor is there.
KeysAreUnique ==
    \A i, j \in DOMAIN cursors :
        cursors[i].search = cursors[j].search /\ cursors[i].id = cursors[j].id => i = j

Remembered(r) ==
    reader[r].pc = "between" /\ reader[r].walk.kind = "global" /\ reader[r].last # 0 =>
        \E i \in DOMAIN cursors :
            cursors[i] = [search |-> reader[r].walk.of, id |-> reader[r].offset, at |-> reader[r].last]

Alone == \A p, q \in Readers, s \in Searches : Walking(p, s) /\ Walking(q, s) => p = q

ReadingInv ==
    /\ ReadingTypeOK
    /\ \A r \in Readers : Sound(reader[r], there)
    /\ KeysAreUnique
    /\ QuietSearchHolds
    /\ ~crowded => Alone /\ \A r \in Readers : Remembered(r)


\* The frame of a step of reader r: it becomes q, and the others, who do not look at
\* what r writes but for the memory, stay as they are.
LEMMA OthersStay ==
    ASSUME ReadingInv, NEW r \in Readers, NEW q \in Reader,
           reader' = [reader EXCEPT ![r] = q], UNCHANGED telegram,
           cursors' \in Seq(Cursor), Len(cursors') <= CursorMemory, crowded' \in BOOLEAN,
           Sound(q, there)
    PROVE  ReadingTypeOK' /\ \A p \in Readers : Sound(reader[p], there)'
<1>1. ReadingTypeOK'
    BY DEF ReadingInv, ReadingTypeOK, telegram
<1>2. ASSUME NEW p \in Readers PROVE Sound(reader'[p], there')
    <2>1. reader'[p] = IF p = r THEN q ELSE reader[p]
        BY DEF ReadingInv, ReadingTypeOK
    <2> QED
        BY <2>1 DEF ReadingInv, telegram
<1> QED
    BY <1>1, <1>2

\* A reader that does not touch the memory and is not in a search that goes on.
LEMMA QuietStep ==
    ASSUME ReadingInv, NEW r \in Readers, NEW q \in Reader,
           reader' = [reader EXCEPT ![r] = q], UNCHANGED <<telegram, cursors, crowded>>,
           Sound(q, there),
           ~crowded => ~q.lost,
           \/ q.pc \notin Paging
           \/ q.pc = "asking" /\ reader[r].pc = "between" /\ q.walk = reader[r].walk
           \/ q.pc = "between" /\ q.walk.kind # "global"
    PROVE  ReadingInv'
<1>0. reader \in [Readers -> Reader] /\ ReadingTypeOK
    BY DEF ReadingInv, ReadingTypeOK
<1>1. ReadingTypeOK' /\ \A p \in Readers : Sound(reader[p], there)'
    BY <1>0, OthersStay DEF ReadingInv, ReadingTypeOK
<1>2. \A p \in Readers : reader'[p] = IF p = r THEN q ELSE reader[p]
    BY <1>0
<1>3. KeysAreUnique'
    BY DEF ReadingInv, KeysAreUnique
<1>4. QuietSearchHolds'
    BY <1>2 DEF ReadingInv, QuietSearchHolds
<1>5. ASSUME ~crowded' PROVE Alone'
    <2>1. \A p \in Readers, s \in Searches : Walking(p, s)' => Walking(p, s)
        BY <1>2 DEF Walking, Paging
    <2> QED
        BY <1>5, <2>1 DEF ReadingInv, Alone
<1>6. ASSUME ~crowded', NEW p \in Readers PROVE Remembered(p)'
    BY <1>2, <1>6 DEF ReadingInv, Remembered, Paging
<1> QED
    BY <1>1, <1>3, <1>4, <1>5, <1>6 DEF ReadingInv

--------------------------------------------------------------------------------
(* Downloads.                                                                *)

LEMMA NoReaderIsReader == NoReader \in Reader
<1>1. 0 \in Ids
    BY ReadingLimits DEF Ids
<1> QED
    BY <1>1 DEF NoReader, Reader

LEMMA DownloadKeeps ==
    ASSUME ReadingInv, NEW r \in Readers,
           \/ Leaves(r)
           \/ \E m \in Attached, what \in Contents \cup {"none"} : Download(r, m, what)
    PROVE  ReadingInv'
<1>1. CASE Leaves(r)
    <2>1. Sound(NoReader, there)
        BY DEF Sound, Walked, Continued, Finished, Examined, Paging, NoReader
    <2>2. NoReader.pc \notin Paging /\ ~NoReader.lost
        BY DEF NoReader, Paging
    <2> QED
        BY <1>1, <2>1, <2>2, NoReaderIsReader, QuietStep DEF Leaves, Goes
<1>2. ASSUME NEW m \in Attached, NEW what \in Contents \cup {"none"}, Download(r, m, what)
      PROVE  ReadingInv'
    <2> DEFINE q == [NoReader EXCEPT !.pc = "looking", !.message = m, !.carried = what]
    <2>1. q \in Reader
        BY NoReaderIsReader, ReadingAssumption DEF ReadingAssumption, Reader
    <2>2. q.pc = "looking" /\ ~q.lost /\ ~q.twice /\ q.due = {} /\ q.seen = {} /\ q.file = "none"
          /\ q.carried \in Contents \cup {"none"} /\ q.message \in Messages
        BY ReadingAssumption DEF ReadingAssumption, NoReader
    <2>3. reader' = [reader EXCEPT ![r] = q] /\ UNCHANGED <<telegram, cursors, crowded>>
        BY <1>2 DEF Download, Goes
    <2> HIDE DEF q
    <2>4. Sound(q, there) /\ q.pc \notin Paging
        BY <2>2 DEF Sound, Walked, Continued, Finished, Examined, Paging
    <2> QED
        BY <2>1, <2>2, <2>3, <2>4, QuietStep
<1> QED
    BY <1>1, <1>2

\* A reader that downloads only changes what the download is about.
LEMMA DownloadStep ==
    ASSUME ReadingInv, NEW r \in Readers, NEW q \in Reader,
           reader[r].pc \in {"looking", "fetching", "checking"},
           q.pc \notin Paging, q.due = reader[r].due, q.seen = reader[r].seen,
           q.lost = reader[r].lost, q.twice = reader[r].twice,
           reader' = [reader EXCEPT ![r] = q], UNCHANGED <<telegram, cursors, crowded>>,
           Examined(q)
    PROVE  ReadingInv'
<1>1. Sound(reader[r], there)
    BY DEF ReadingInv
<1>2. Sound(q, there)
    BY <1>1 DEF Sound, Walked, Continued, Finished, Paging
<1> QED
    BY <1>2, QuietStep DEF ReadingInv, QuietSearchHolds

LEMMA RefuseKeeps ==
    ASSUME ReadingInv, NEW r \in Readers, Refuses(r),
           reader[r].pc \in {"looking", "fetching", "checking"},
           UNCHANGED <<telegram, cursors, crowded>>
    PROVE  ReadingInv'
<1> DEFINE q == [reader[r] EXCEPT !.pc = "done", !.file = "none"]
<1>1. reader[r] \in Reader
    BY DEF ReadingInv, ReadingTypeOK
<1>2. q \in Reader
    BY <1>1 DEF Reader
<1>3. /\ q.pc = "done" /\ q.file = "none" /\ q.due = reader[r].due /\ q.seen = reader[r].seen
      /\ q.lost = reader[r].lost /\ q.twice = reader[r].twice
    BY <1>1 DEF Reader
<1>4. reader' = [reader EXCEPT ![r] = q]
    BY DEF Refuses, Goes
<1> HIDE DEF q
<1>5. Examined(q) /\ q.pc \notin Paging
    BY <1>3 DEF Examined, Paging
<1> QED
    BY <1>2, <1>3, <1>4, <1>5, DownloadStep

LEMMA LooksKeeps == ASSUME ReadingInv, NEW r \in Readers, Looks(r) PROVE ReadingInv'
<1>1. reader[r].pc = "looking" /\ UNCHANGED <<telegram, cursors, crowded>>
    BY DEF Looks
<1>2. CASE Refuses(r)
    BY <1>1, <1>2, RefuseKeeps
<1>3. CASE ~Refuses(r)
    <2>1. PICK what \in Declared(reader[r].carried) :
              Passes(what) /\ Goes(r, [reader[r] EXCEPT !.pc = "fetching"])
        BY <1>3 DEF Looks
    <2> DEFINE q == [reader[r] EXCEPT !.pc = "fetching"]
    <2>2. reader[r] \in Reader /\ Examined(reader[r])
        BY DEF ReadingInv, ReadingTypeOK, Sound
    <2>3. q \in Reader /\ reader' = [reader EXCEPT ![r] = q]
        BY <2>1, <2>2 DEF Reader, Goes
    <2>4. /\ q.pc = "fetching" /\ q.file = reader[r].file /\ q.due = reader[r].due
          /\ q.seen = reader[r].seen /\ q.lost = reader[r].lost /\ q.twice = reader[r].twice
          /\ q.carried = reader[r].carried
        BY <2>2 DEF Reader
    <2>5. reader[r].carried \in {"good", "large"}
        BY <2>1 DEF Passes, Declared
    <2> HIDE DEF q
    <2>6. Examined(q) /\ q.pc \notin Paging
        BY <1>1, <2>2, <2>4, <2>5 DEF Examined, Paging
    <2> QED
        BY <1>1, <2>3, <2>4, <2>6, DownloadStep
<1> QED
    BY <1>2, <1>3

LEMMA FetchesKeeps == ASSUME ReadingInv, NEW r \in Readers, Fetches(r) PROVE ReadingInv'
<1>1. reader[r].pc = "fetching" /\ UNCHANGED <<telegram, cursors, crowded>>
    BY DEF Fetches
<1>2. CASE Refuses(r)
    BY <1>1, <1>2, RefuseKeeps
<1>3. CASE ~Refuses(r)
    <2> DEFINE q == [reader[r] EXCEPT !.pc = "checking", !.file = reader[r].carried]
    <2>1. reader[r].carried # "none" /\ Goes(r, q)
        BY <1>3 DEF Fetches
    <2>2. reader[r] \in Reader /\ Examined(reader[r])
        BY DEF ReadingInv, ReadingTypeOK, Sound
    <2>3. q \in Reader /\ reader' = [reader EXCEPT ![r] = q]
        BY <2>1, <2>2 DEF Reader, Goes
    <2>4. /\ q.pc = "checking" /\ q.file = reader[r].carried /\ q.due = reader[r].due
          /\ q.seen = reader[r].seen /\ q.lost = reader[r].lost /\ q.twice = reader[r].twice
          /\ q.edited = reader[r].edited
        BY <2>2 DEF Reader
    <2>5. reader[r].carried \in Contents
        BY <2>1, <2>2 DEF Reader
    <2> HIDE DEF q
    <2>6. q.file = "banned" => q.edited
        BY <1>1, <2>2, <2>4 DEF Examined, Reader
    <2>7. Examined(q) /\ q.pc \notin Paging
        BY <2>4, <2>5, <2>6 DEF Examined, Paging
    <2> QED
        BY <1>1, <2>3, <2>4, <2>7, DownloadStep
<1> QED
    BY <1>2, <1>3

LEMMA ChecksKeeps == ASSUME ReadingInv, NEW r \in Readers, Checks(r) PROVE ReadingInv'
<1>1. reader[r].pc = "checking" /\ UNCHANGED <<telegram, cursors, crowded>>
    BY DEF Checks
<1>2. CASE Refuses(r)
    BY <1>1, <1>2, RefuseKeeps
<1>3. CASE ~Refuses(r)
    <2> DEFINE q == [reader[r] EXCEPT !.pc = "done"]
    <2>1. Keeps(reader[r].file) /\ Goes(r, q)
        BY <1>3 DEF Checks
    <2>2. reader[r] \in Reader /\ Examined(reader[r])
        BY DEF ReadingInv, ReadingTypeOK, Sound
    <2>3. q \in Reader /\ reader' = [reader EXCEPT ![r] = q]
        BY <2>1, <2>2 DEF Reader, Goes
    <2>4. /\ q.pc = "done" /\ q.file = reader[r].file /\ q.due = reader[r].due
          /\ q.seen = reader[r].seen /\ q.lost = reader[r].lost /\ q.twice = reader[r].twice
          /\ q.edited = reader[r].edited
        BY <2>2 DEF Reader
    <2> HIDE DEF q
    <2>5. Examined(q) /\ q.pc \notin Paging
        BY <1>1, <2>1, <2>2, <2>4 DEF Examined, Paging, Keeps
    <2> QED
        BY <1>1, <2>3, <2>4, <2>5, DownloadStep
<1> QED
    BY <1>2, <1>3

\* An edit is remembered, so that what the looks have found may be out of date.
LEMMA EditedKeeps ==
    ASSUME ReadingInv, NEW r \in Readers, NEW what \in Contents, Edited(r, what)
    PROVE  ReadingInv'
<1> DEFINE q == [reader[r] EXCEPT !.carried = what, !.edited = TRUE]
<1>1. reader[r] \in Reader /\ Examined(reader[r])
    BY DEF ReadingInv, ReadingTypeOK, Sound
<1>2. q \in Reader /\ reader' = [reader EXCEPT ![r] = q]
    BY <1>1 DEF Reader, Edited
<1>3. /\ q.pc = reader[r].pc /\ q.file = reader[r].file /\ q.due = reader[r].due
      /\ q.seen = reader[r].seen /\ q.lost = reader[r].lost /\ q.twice = reader[r].twice
      /\ q.edited = TRUE /\ q.carried = what /\ q.message = reader[r].message
    BY <1>1 DEF Reader
<1> HIDE DEF q
<1>4. reader[r].pc \in {"looking", "fetching"} /\ UNCHANGED <<telegram, cursors, crowded>>
    BY DEF Edited, telegram
<1>5. Examined(q) /\ q.pc \notin Paging
    BY <1>1, <1>3, <1>4 DEF Examined, Paging
<1> QED
    BY <1>2, <1>3, <1>4, <1>5, DownloadStep

--------------------------------------------------------------------------------
(* Telegram.                                                                 *)

LEMMA ArrivesKeeps == ReadingInv /\ Arrives => ReadingInv'
<1> SUFFICES ASSUME ReadingInv, Arrives PROVE ReadingInv'
    OBVIOUS
<1>1. ReadingTypeOK'
    BY ReadingLimits DEF ReadingInv, ReadingTypeOK, Arrives
<1>2. \A r \in Readers : Sound(reader[r], there)'
    BY DEF ReadingInv, Sound, Walked, Arrives
<1>3. KeysAreUnique' /\ QuietSearchHolds'
    BY DEF ReadingInv, KeysAreUnique, QuietSearchHolds, Arrives
<1>4. ~crowded' => Alone' /\ \A r \in Readers : Remembered(r)'
    BY DEF ReadingInv, Alone, Walking, Remembered, Arrives
<1> QED
    BY <1>1, <1>2, <1>3, <1>4 DEF ReadingInv

LEMMA DeletedKeeps == ASSUME ReadingInv, NEW m \in Messages, Deleted(m) PROVE ReadingInv'
<1>0. reader \in [Readers -> Reader]
    BY DEF ReadingInv, ReadingTypeOK
<1>1. \A r \in Readers : reader'[r] = [reader[r] EXCEPT !.due = reader[r].due \ {m}]
    BY DEF Deleted
<1>2. ASSUME NEW r \in Readers
      PROVE  LET p == reader'[r] IN
             /\ p \in Reader
             /\ p.pc = reader[r].pc /\ p.walk = reader[r].walk /\ p.offset = reader[r].offset
             /\ p.at = reader[r].at /\ p.last = reader[r].last /\ p.lost = reader[r].lost
             /\ p.seen = reader[r].seen /\ p.twice = reader[r].twice /\ p.file = reader[r].file
             /\ p.carried = reader[r].carried /\ p.edited = reader[r].edited
             /\ p.message = reader[r].message /\ p.due = reader[r].due \ {m}
    <2> DEFINE p == reader'[r]
    <2>1. p = [reader[r] EXCEPT !.due = reader[r].due \ {m}] /\ reader[r] \in Reader
        BY <1>0, <1>1
    <2> HIDE DEF p
    <2>2. p \in Reader
        BY <2>1 DEF Reader
    <2>3. /\ p.pc = reader[r].pc /\ p.walk = reader[r].walk /\ p.offset = reader[r].offset
          /\ p.at = reader[r].at /\ p.last = reader[r].last /\ p.lost = reader[r].lost
          /\ p.seen = reader[r].seen /\ p.twice = reader[r].twice /\ p.file = reader[r].file
          /\ p.carried = reader[r].carried /\ p.edited = reader[r].edited
          /\ p.message = reader[r].message /\ p.due = reader[r].due \ {m}
        BY <2>1 DEF Reader
    <2> QED
        BY <2>2, <2>3 DEF p
<1>3. ReadingTypeOK'
    <2>1. there' \subseteq 1..latest' /\ latest' = latest /\ cursors' = cursors /\ crowded' = crowded
        BY DEF ReadingInv, ReadingTypeOK, Deleted
    <2>2. reader' \in [Readers -> Reader]
        <3>1. DOMAIN reader' = Readers /\ reader' = [r \in Readers |-> reader'[r]]
            BY DEF Deleted
        <3> QED
            BY <1>2, <3>1
    <2> QED
        BY <2>1, <2>2 DEF ReadingInv, ReadingTypeOK
<1>4. ASSUME NEW r \in Readers PROVE Sound(reader[r], there)'
    <2>1. Sound(reader[r], there) /\ there' = there \ {m}
        BY DEF ReadingInv, Deleted
    <2> QED
        BY <1>2, <2>1 DEF Sound, Walked, Continued, Finished, Examined, Place
<1>5. KeysAreUnique' /\ QuietSearchHolds'
    BY <1>2 DEF ReadingInv, KeysAreUnique, QuietSearchHolds, Deleted
<1>6. crowded' = crowded /\ cursors' = cursors
    BY DEF Deleted
<1>7. ~crowded' => Alone'
    BY <1>2, <1>6 DEF ReadingInv, Alone, Walking
<1>8. ~crowded' => \A r \in Readers : Remembered(r)'
    BY <1>2, <1>6 DEF ReadingInv, Remembered
<1> QED
    BY <1>3, <1>4, <1>5, <1>7, <1>8 DEF ReadingInv

--------------------------------------------------------------------------------
(* Pages.                                                                    *)

LEMMA BeginKeeps ==
    ASSUME ReadingInv, NEW r \in Readers, NEW walk \in Asked[r], Begin(r, walk)
    PROVE  ReadingInv'
<1>0. reader \in [Readers -> Reader] /\ reader[r].pc = "idle" /\ walk \in Walks
    BY ReadingAssumption DEF ReadingAssumption, ReadingInv, ReadingTypeOK, Begin
<1> DEFINE due == IF walk.kind = "global" THEN there ELSE Shown(InChat(walk.of), walk)
           q == [NoReader EXCEPT !.pc = "between", !.walk = walk, !.due = due]
<1>1. reader' = [reader EXCEPT ![r] = q] /\ UNCHANGED <<telegram, cursors>>
    BY DEF Begin, Goes
<1>2. there \in SUBSET Messages
    BY ReadingLimits DEF ReadingInv, ReadingTypeOK, Messages
<1>3. due \in SUBSET Messages /\ \A m \in due : m \in there /\ Fits(walk, m)
    BY <1>2 DEF Shown, InChat, Fits, Within
<1> HIDE DEF due
<1>4. q \in Reader
    BY <1>0, <1>3, NoReaderIsReader DEF Reader
<1>5. /\ q.pc = "between" /\ q.walk = walk /\ q.offset = 0 /\ q.last = 0 /\ q.due = due
      /\ q.seen = {} /\ ~q.twice /\ ~q.lost /\ q.file = "none"
    BY DEF NoReader
<1> HIDE DEF q
<1>6. \A m \in due : Ahead(walk, 0, 0, m)
    BY <1>3, IdType DEF Ahead
<1>7. Sound(q, there)
    BY <1>0, <1>3, <1>5, <1>6 DEF Sound, Walked, Continued, Finished, Examined, Place, Paging
<1>8. crowded' = (crowded \/ (walk.kind = "global" /\ \E p \in Readers : Walking(p, walk.of)))
    BY DEF Begin
<1>9. ReadingTypeOK' /\ \A p \in Readers : Sound(reader[p], there)'
    BY <1>1, <1>4, <1>7, <1>8, OthersStay DEF ReadingInv, ReadingTypeOK
<1>10. \A p \in Readers : reader'[p] = IF p = r THEN q ELSE reader[p]
    BY <1>0, <1>1
<1>11. KeysAreUnique' /\ QuietSearchHolds'
    BY <1>1, <1>5, <1>8, <1>10 DEF ReadingInv, KeysAreUnique, QuietSearchHolds
<1>12. ASSUME ~crowded' PROVE Alone'
    <2>1. ~crowded /\ Alone /\ (walk.kind = "global" => \A p \in Readers : ~Walking(p, walk.of))
        BY <1>8, <1>12 DEF ReadingInv
    <2>2. ASSUME NEW p \in Readers, NEW s \in Searches, Walking(p, s)'
          PROVE  IF p = r THEN walk.kind = "global" /\ walk.of = s ELSE Walking(p, s)
        BY <1>5, <1>10, <2>2 DEF Walking
    <2>3. ASSUME NEW p \in Readers, NEW s \in Searches, Walking(p, s)', p # r PROVE ~Walking(r, s)'
        <3>1. Walking(p, s)
            BY <2>2, <2>3
        <3>2. ~(walk.kind = "global" /\ walk.of = s)
            BY <2>1, <3>1
        <3> QED
            BY <2>2, <3>2
    <2> SUFFICES ASSUME NEW p \in Readers, NEW o \in Readers, NEW s \in Searches,
                        Walking(p, s)', Walking(o, s)', p # o
                 PROVE  FALSE
        BY DEF Alone
    <2>4. p # r /\ o # r
        BY <2>3
    <2>5. Walking(p, s) /\ Walking(o, s)
        BY <2>2, <2>4
    <2> QED
        BY <2>1, <2>5 DEF Alone
<1>13. ASSUME ~crowded', NEW p \in Readers PROVE Remembered(p)'
    <2>1. CASE p = r
        <3>1. reader'[p].last = 0
            BY <1>5, <1>10, <2>1
        <3> QED
            BY <3>1 DEF Remembered
    <2>2. CASE p # r
        <3>1. reader'[p] = reader[p] /\ cursors' = cursors /\ Remembered(p)
            BY <1>1, <1>8, <1>10, <1>13, <2>2 DEF ReadingInv
        <3> QED
            BY <3>1 DEF Remembered
    <2> QED
        BY <2>1, <2>2
<1> QED
    BY <1>9, <1>11, <1>12, <1>13 DEF ReadingInv

LEMMA AsksKeeps == ASSUME ReadingInv, NEW r \in Readers, Asks(r) PROVE ReadingInv'
<1> DEFINE p == reader[r]
           found == IF p.walk.kind = "global" THEN Find(p.walk.of, p.offset) ELSE {}
           at == IF p.offset = 0 \/ found = {} THEN 0
                 ELSE cursors[CHOOSE i \in found : TRUE].at
           lost == p.lost \/ (p.walk.kind = "global" /\ at # p.last)
           due == IF lost THEN {} ELSE p.due
           seen == IF lost THEN {} ELSE p.seen
           q == [p EXCEPT !.pc = "asking", !.at = at, !.last = 0, !.lost = lost,
                          !.due = due, !.seen = seen]
<1>1. p \in Reader /\ p.pc = "between" /\ Sound(p, there)
    BY DEF ReadingInv, ReadingTypeOK, Asks
<1>2. reader' = [reader EXCEPT ![r] = q] /\ UNCHANGED <<telegram, cursors, crowded>>
    BY DEF Asks, Goes
<1>3. at \in {0} \cup Messages
    <2>1. ASSUME NEW i \in found PROVE cursors[i].at \in Messages
        <3>1. cursors \in Seq(Cursor) /\ i \in DOMAIN cursors
            BY <2>1 DEF ReadingInv, ReadingTypeOK, Find
        <3>2. cursors[i] \in Cursor
            BY <3>1
        <3> QED
            BY <3>2 DEF Cursor
    <2> QED
        BY <2>1
<1>4. ~crowded => ~lost
    <2> SUFFICES ASSUME ~crowded, p.walk.kind = "global" PROVE at = p.last
        BY DEF ReadingInv, QuietSearchHolds
    <2>0. ~p.lost /\ p.offset = IF p.last = 0 THEN 0 ELSE Id(p.last)
        BY <1>1 DEF ReadingInv, QuietSearchHolds, Sound, Continued
    <2>1. CASE p.last = 0
        BY <2>0, <2>1
    <2>2. CASE p.last # 0
        <3>1. PICK i \in DOMAIN cursors :
                  cursors[i] = [search |-> p.walk.of, id |-> p.offset, at |-> p.last]
            BY <1>1, <2>2 DEF ReadingInv, Remembered
        <3>2. i \in found /\ \A j \in found : j = i
            BY <3>1 DEF Find, Key, ReadingInv, KeysAreUnique
        <3>3. (CHOOSE j \in found : TRUE) = i
            BY <3>2
        <3>4. p.offset # 0
            BY <1>1, <2>0, <2>2, IdType DEF Reader
        <3> HIDE DEF found
        <3> QED
            BY <3>1, <3>2, <3>3, <3>4
    <2> QED
        BY <2>1, <2>2
<1>5. lost \in BOOLEAN /\ (~lost => ~p.lost /\ (p.walk.kind = "global" => at = p.last))
      /\ (lost => p.walk.kind = "global")
    BY <1>1 DEF Sound, Walked, Paging, Reader
<1> HIDE DEF at, lost
<1>6. q \in Reader
    <2>1. due \in SUBSET Messages /\ seen \in SUBSET Messages /\ p \in Reader
        BY <1>1 DEF Reader
    <2>2. at \in {0} \cup Messages /\ lost \in BOOLEAN
        BY <1>3, <1>5
    <2> HIDE DEF p, due, seen
    <2> QED
        BY <2>1, <2>2 DEF Reader
<1>7. /\ q.pc = "asking" /\ q.walk = p.walk /\ q.at = at /\ q.offset = p.offset /\ q.lost = lost
      /\ q.due = due /\ q.seen = seen
      /\ q.twice = p.twice /\ q.file = p.file
    BY <1>1 DEF Reader
<1> HIDE DEF q
<1>8. \A m : ~lost => (Ahead(q.walk, q.offset, Place(q), m) <=> Ahead(p.walk, p.offset, Place(p), m))
    BY <1>1, <1>5, <1>7 DEF Ahead, Place
<1>9. Sound(q, there)
    BY <1>1, <1>5, <1>7, <1>8 DEF Sound, Walked, Continued, Finished, Examined, Paging
<1> QED
    BY <1>1, <1>2, <1>4, <1>6, <1>7, <1>9, QuietStep

\* A cursor is put in its place or at the end, and when there are too many the first one
\* is dropped, which is never the one that was just put in.
LEMMA Remembers ==
    ASSUME ReadingInv, NEW s \in Searches, NEW m \in Messages
    PROVE  LET c == Remember(s, m)
               new == [search |-> s, id |-> Id(m), at |-> m]
           IN  /\ c \in Seq(Cursor) /\ Len(c) <= CursorMemory
               /\ \A i, j \in DOMAIN c : c[i].search = c[j].search /\ c[i].id = c[j].id => i = j
               /\ \E i \in DOMAIN c : c[i] = new
               /\ Len(cursors) # CursorMemory \/ Find(s, Id(m)) # {} =>
                     \A i \in DOMAIN cursors : cursors[i].search # s =>
                        \E j \in DOMAIN c : c[j] = cursors[i]
<1> DEFINE new == [search |-> s, id |-> Id(m), at |-> m]
           known == Find(s, Id(m))
           c == Remember(s, m)
<1>1. /\ cursors \in Seq(Cursor) /\ Len(cursors) \in Nat /\ Len(cursors) <= CursorMemory
      /\ DOMAIN cursors = 1..Len(cursors)
    BY DEF ReadingInv, ReadingTypeOK
<1>2. new \in Cursor
    BY IdType DEF Cursor, Ids
<1>3. /\ \A i \in DOMAIN cursors : i \in known <=> cursors[i].search = s /\ cursors[i].id = Id(m)
      /\ known \subseteq DOMAIN cursors
      /\ \A i, j \in DOMAIN cursors :
            cursors[i].search = cursors[j].search /\ cursors[i].id = cursors[j].id => i = j
    BY DEF Find, Key, ReadingInv, KeysAreUnique
<1>4. new.search = s /\ new.id = Id(m)
    OBVIOUS
<1>5. CASE known # {}
    <2> DEFINE g == [i \in DOMAIN cursors |-> IF i \in known THEN new ELSE cursors[i]]
    <2>1. g \in [1..Len(cursors) -> Cursor]
        BY <1>1, <1>2
    <2>2. g \in Seq(Cursor) /\ Len(g) = Len(cursors) /\ DOMAIN g = DOMAIN cursors
        BY <1>1, <2>1, IsASeq, LenProperties
    <2>3. c = g
        <3>1. c = IF Len(g) > CursorMemory THEN Tail(g) ELSE g
            BY <1>5 DEF Remember
        <3> HIDE DEF g, c
        <3>2. ~(Len(g) > CursorMemory)
            BY <1>1, <2>2, ReadingLimits
        <3> QED
            BY <3>1, <3>2
    <2>4. \A i \in DOMAIN cursors : g[i] = IF i \in known THEN new ELSE cursors[i]
        OBVIOUS
    <2> HIDE DEF new, known, c, g
    <2>5. \E i \in DOMAIN g : g[i] = new
        BY <1>3, <1>5, <2>2, <2>4
    <2>6. \A i, j \in DOMAIN g : g[i].search = g[j].search /\ g[i].id = g[j].id => i = j
        BY <1>3, <1>4, <2>2, <2>4
    <2>7. \A i \in DOMAIN cursors : cursors[i].search # s => g[i] = cursors[i]
        BY <1>3, <2>4
    <2> QED
        BY <1>1, <2>2, <2>3, <2>5, <2>6, <2>7 DEF new, known, c
<1>6. CASE known = {}
    <2> DEFINE g == Append(cursors, new)
    <2>1. /\ g \in Seq(Cursor) /\ Len(g) = Len(cursors) + 1 /\ DOMAIN g = 1..(Len(cursors) + 1)
          /\ g[Len(cursors) + 1] = new
          /\ \A i \in 1..Len(cursors) : g[i] = cursors[i]
        BY <1>1, <1>2, AppendProperties
    <2>2. c = IF Len(g) > CursorMemory THEN Tail(g) ELSE g
        BY <1>6 DEF Remember
    <2> HIDE DEF new, known, c, g
    <2>3. \A i, j \in DOMAIN g : g[i].search = g[j].search /\ g[i].id = g[j].id => i = j
        <3>1. ASSUME NEW i \in 1..Len(cursors) PROVE ~(g[i].search = s /\ g[i].id = Id(m))
            BY <1>1, <1>3, <1>6, <2>1
        <3>2. \A i \in DOMAIN g : i \in 1..Len(cursors) \/ i = Len(cursors) + 1
            BY <1>1, <2>1
        <3>3. \A i, j \in 1..Len(cursors) :
                  g[i].search = g[j].search /\ g[i].id = g[j].id => i = j
            BY <1>1, <1>3, <2>1
        <3>4. \A i \in 1..Len(cursors) : ~(g[i].search = new.search /\ g[i].id = new.id)
            BY <1>4, <3>1
        <3> SUFFICES ASSUME NEW i \in DOMAIN g, NEW j \in DOMAIN g,
                            g[i].search = g[j].search, g[i].id = g[j].id
                     PROVE  i = j
            OBVIOUS
        <3>5. CASE i \in 1..Len(cursors) /\ j \in 1..Len(cursors)
            BY <3>3, <3>5
        <3>6. CASE i \notin 1..Len(cursors) \/ j \notin 1..Len(cursors)
            BY <2>1, <3>2, <3>4, <3>6
        <3> QED
            BY <3>5, <3>6
    <2>4. CASE Len(g) > CursorMemory
        <3>1. Len(cursors) = CursorMemory /\ c = Tail(g) /\ g # <<>>
            <4>1. c = Tail(g)
                BY <2>2, <2>4
            <4>2. Len(cursors) = CursorMemory
                <5>1. /\ CursorMemory \in Nat /\ Len(cursors) \in Nat /\ Len(cursors) <= CursorMemory
                      /\ Len(cursors) + 1 > CursorMemory
                    BY <1>1, <2>1, <2>4, ReadingLimits
                <5> QED
                    BY <5>1
            <4>3. g # <<>>
                <5>1. Len(g) # 0
                    BY <1>1, <2>1
                <5> QED
                    BY <5>1
            <4> QED
                BY <4>1, <4>2, <4>3
        <3>2. /\ c \in Seq(Cursor) /\ Len(c) = Len(cursors) /\ DOMAIN c = 1..Len(cursors)
              /\ \A i \in 1..Len(cursors) : c[i] = g[i + 1]
            BY <1>1, <2>1, <3>1, HeadTailProperties
        <3>3. \E i \in DOMAIN c : c[i] = new
            <4>1. Len(cursors) \in DOMAIN c
                BY <1>1, <3>1, <3>2, ReadingLimits
            <4> QED
                BY <2>1, <3>2, <4>1
        <3>4. ASSUME NEW i \in DOMAIN c, NEW j \in DOMAIN c,
                     c[i].search = c[j].search, c[i].id = c[j].id
              PROVE  i = j
            <4>1. i + 1 \in DOMAIN g /\ j + 1 \in DOMAIN g /\ c[i] = g[i + 1] /\ c[j] = g[j + 1]
                BY <1>1, <2>1, <3>2
            <4>2. i + 1 = j + 1
                BY <2>3, <3>4, <4>1
            <4> QED
                BY <1>1, <3>2, <4>2
        <3> QED
            BY <1>1, <1>6, <3>1, <3>2, <3>3, <3>4 DEF new, known, c
    <2>5. CASE ~(Len(g) > CursorMemory)
        <3>1. c = g /\ Len(g) <= CursorMemory
            BY <1>1, <2>1, <2>2, <2>5, ReadingLimits
        <3>2. \E i \in DOMAIN g : g[i] = new
            <4>1. Len(cursors) + 1 \in DOMAIN g
                BY <1>1, <2>1
            <4> QED
                BY <2>1, <4>1
        <3>3. \A i \in DOMAIN cursors : i \in DOMAIN g /\ g[i] = cursors[i]
            BY <1>1, <2>1
        <3> QED
            BY <2>1, <2>3, <3>1, <3>2, <3>3 DEF new, known, c
    <2> QED
        BY <2>4, <2>5
<1> QED
    BY <1>5, <1>6

LEMMA AnsweredKeeps == ASSUME ReadingInv, NEW r \in Readers, Answered(r) PROVE ReadingInv'
<1> DEFINE p == reader[r]
           rows == Served(p)
           more == HasMore(rows)
           searching == p.walk.kind = "global"
           shown == Shown(rows, p.walk)
           last == LastOf(rows)
           next == Next_offset(rows, p.walk)
           at == IF more /\ searching /\ ~p.lost THEN last ELSE 0
           offset == IF more THEN next ELSE 0
           twice == p.twice \/ shown \cap p.seen # {}
           due == p.due \ shown
           seen == IF more /\ ~p.lost THEN p.seen \cup shown ELSE {}
           pc == IF more THEN "between" ELSE "done"
           q == [p EXCEPT !.pc = pc, !.at = 0,
                          !.offset = offset, !.last = at, !.twice = twice, !.due = due,
                          !.seen = seen]
<1>1. /\ p \in Reader /\ p.pc = "asking" /\ p.walk \in Walks /\ ~p.twice
      /\ there \in SUBSET Messages
      /\ \A m \in p.due : m \in there /\ Fits(p.walk, m) /\ Ahead(p.walk, p.offset, p.at, m)
      /\ \A m \in p.seen : Fits(p.walk, m) /\ ~Ahead(p.walk, p.offset, p.at, m)
      /\ p.lost => searching /\ p.due = {} /\ p.seen = {}
    BY ReadingLimits DEF Answered, ReadingInv, ReadingTypeOK, Sound, Walked, Paging, Place, Messages
<1>2. reader' = [reader EXCEPT ![r] = q] /\ UNCHANGED telegram
    BY DEF Answered, Goes
<1>3. /\ cursors' = IF more /\ searching THEN Remember(p.walk.of, last) ELSE cursors
      /\ crowded' = (crowded \/ /\ more /\ searching
                                /\ Len(cursors) = CursorMemory
                                /\ Find(p.walk.of, Id(last)) = {}
                                /\ \E o \in Readers \ {r}, s \in Searches : Walking(o, s))
    BY DEF Answered
<1>4. /\ \A m \in rows : m \in there /\ Within(p.walk, m) /\ Ahead(p.walk, p.offset, p.at, m)
      /\ ~more => \A m \in there : Within(p.walk, m) /\ Ahead(p.walk, p.offset, p.at, m) => m \in rows
    BY <1>1, ServesNext
<1>5. shown \in SUBSET Messages /\ \A m : m \in shown <=> m \in rows /\ Fits(p.walk, m)
    BY <1>1, <1>4 DEF Shown, Fits
<1>6. ~twice /\ twice \in BOOLEAN
    BY <1>1, <1>4, <1>5
<1>7. more => /\ last \in Messages /\ next \in 1..MaxMessages
              /\ searching => next = Id(last)
              /\ \A m \in p.due \ rows : Ahead(p.walk, next, last, m)
              /\ \A m \in p.seen \cup rows : ~Ahead(p.walk, next, last, m)
    BY <1>1, Continues DEF Fits
<1>8. due \in SUBSET Messages /\ seen \in SUBSET Messages
    BY <1>1, <1>5 DEF Reader
<1>9. \A m \in due : m \in p.due /\ m \notin rows
    BY <1>1, <1>5
<1>10. offset \in Ids /\ at \in {0} \cup Messages
    BY <1>7, ReadingLimits DEF Ids
<1> HIDE DEF rows, more, shown, last, next, at, offset, twice, due, seen
<1>11. q \in Reader
    <2>1. pc \in {"between", "done"} /\ twice \in BOOLEAN /\ p \in Reader
        BY <1>1, <1>6
    <2> HIDE DEF pc, p
    <2> QED
        BY <1>8, <1>10, <2>1 DEF Reader
<1>12. /\ q.pc = pc /\ q.walk = p.walk /\ q.offset = offset
       /\ q.last = at /\ q.due = due /\ q.seen = seen /\ q.lost = p.lost /\ q.twice = twice
       /\ q.file = p.file
    BY <1>1 DEF Reader
<1> HIDE DEF q
<1>13. p.file = "none" /\ reader \in [Readers -> Reader]
    BY <1>1 DEF ReadingInv, Sound, Examined, ReadingTypeOK
<1>14. CASE ~more
    <2>1. due = {}
        BY <1>1, <1>4, <1>9, <1>14 DEF Fits
    <2>2. seen = {} /\ q.pc = "done"
        BY <1>12, <1>14 DEF seen
    <2>3. Sound(q, there)
        BY <1>6, <1>12, <1>13, <2>1, <2>2
        DEF Sound, Walked, Continued, Finished, Examined, Paging
    <2>4. UNCHANGED <<telegram, cursors, crowded>>
        BY <1>2, <1>3, <1>14 DEF ReadingInv, ReadingTypeOK
    <2>5. ~crowded => ~q.lost
        BY <1>12 DEF ReadingInv, QuietSearchHolds
    <2> QED
        BY <1>2, <1>11, <2>2, <2>3, <2>4, <2>5, QuietStep DEF Paging
<1>15. CASE more
    <2>1. q.pc = "between" /\ q.offset = next
        BY <1>12, <1>15 DEF offset
    <2>2. ~p.lost => seen = p.seen \cup shown
        BY <1>15 DEF seen
    <2>3. p.lost => due = {} /\ seen = {}
        BY <1>1, <1>8, <1>9 DEF seen
    <2>4. \A m : (searching => q.last = last) =>
                    (Ahead(q.walk, q.offset, Place(q), m) <=> Ahead(p.walk, next, last, m))
        BY <1>12, <2>1 DEF Ahead, Place
    <2>5. ~p.lost /\ searching => q.last = last
        BY <1>12, <1>15 DEF at
    <2>6. \A m \in q.due : m \in there /\ Fits(q.walk, m) /\ Ahead(q.walk, q.offset, Place(q), m)
        BY <1>1, <1>7, <1>9, <1>12, <1>15, <2>3, <2>4, <2>5
    <2>7. \A m \in q.seen : Fits(q.walk, m) /\ ~Ahead(q.walk, q.offset, Place(q), m)
        BY <1>1, <1>5, <1>7, <1>12, <1>15, <2>2, <2>3, <2>4, <2>5
    <2>8. Continued(q)
        <3>1. last # 0
            BY <1>7, <1>15, ReadingLimits DEF Messages
        <3> QED
            BY <1>7, <1>12, <1>15, <2>1, <2>5, <3>1 DEF Continued
    <2>9. Sound(q, there)
        BY <1>1, <1>6, <1>12, <1>13, <2>1, <2>3, <2>6, <2>7, <2>8
        DEF Sound, Walked, Finished, Examined, Paging
    <2>10. ~crowded => ~q.lost
        BY <1>12 DEF ReadingInv, QuietSearchHolds
    <2>11. CASE ~searching
        <3>1. UNCHANGED <<telegram, cursors, crowded>>
            BY <1>2, <1>3, <2>11 DEF ReadingInv, ReadingTypeOK
        <3> QED
            BY <1>2, <1>11, <1>12, <2>1, <2>9, <2>10, <2>11, <3>1, QuietStep
    <2>12. CASE searching
        <3> DEFINE s == p.walk.of
        <3>1. s \in Searches /\ p.walk = [kind |-> "global", of |-> s] /\ last \in Messages
            BY <1>1, <1>7, <1>15, <2>12, ReadingAssumption DEF ReadingAssumption
        <3>2. cursors' = Remember(s, last)
            BY <1>3, <1>15, <2>12
        <3>3. /\ cursors' \in Seq(Cursor) /\ Len(cursors') <= CursorMemory
              /\ KeysAreUnique'
              /\ \E i \in DOMAIN cursors' : cursors'[i] = [search |-> s, id |-> Id(last), at |-> last]
              /\ Len(cursors) # CursorMemory \/ Find(s, Id(last)) # {} =>
                     \A i \in DOMAIN cursors : cursors[i].search # s =>
                        \E j \in DOMAIN cursors' : cursors'[j] = cursors[i]
            BY <3>1, <3>2, Remembers DEF KeysAreUnique
        <3> HIDE DEF s
        <3>4. \A o \in Readers : reader'[o] = IF o = r THEN q ELSE reader[o]
            BY <1>2, <1>13
        <3>5. ReadingTypeOK' /\ \A o \in Readers : Sound(reader[o], there)'
            <4>1. crowded' \in BOOLEAN
                BY <1>3 DEF ReadingInv, ReadingTypeOK
            <4> QED
                BY <1>2, <1>11, <2>9, <3>3, <4>1, OthersStay
        <3>6. QuietSearchHolds'
            BY <1>3, <2>10, <3>4 DEF ReadingInv, QuietSearchHolds
        <3>7. ASSUME NEW o \in Readers, NEW t \in Searches PROVE Walking(o, t)' => Walking(o, t)
            BY <1>1, <1>12, <3>4 DEF Walking
        <3>8. ~crowded' => Alone'
            BY <1>3, <3>7 DEF ReadingInv, Alone
        <3>9. ASSUME ~crowded', NEW o \in Readers PROVE Remembered(o)'
            <4>1. CASE o = r
                <5>1. ~q.lost /\ ~p.lost
                    BY <1>3, <1>12, <2>10, <3>9
                <5>2. q.last = last /\ q.offset = Id(last) /\ q.walk.of = s
                    BY <1>7, <1>12, <1>15, <2>1, <2>5, <2>12, <5>1 DEF s
                <5> QED
                    BY <3>3, <3>4, <4>1, <5>2 DEF Remembered
            <4>2. CASE o # r
                <5> SUFFICES ASSUME reader[o].pc = "between", reader[o].walk.kind = "global",
                                    reader[o].last # 0
                             PROVE  \E i \in DOMAIN cursors' : cursors'[i] =
                                        [search |-> reader[o].walk.of, id |-> reader[o].offset,
                                         at |-> reader[o].last]
                    BY <3>4, <4>2 DEF Remembered
                <5> DEFINE t == reader[o].walk.of
                <5>1. reader[o].walk \in Walks
                    BY DEF ReadingInv, Sound, Walked, Paging
                <5>2. t \in Searches /\ reader[o].walk = [kind |-> "global", of |-> t]
                    BY <5>1, ReadingAssumption DEF ReadingAssumption
                <5>3. Walking(o, t) /\ Walking(r, s)
                    BY <1>1, <3>1, <5>2 DEF Walking
                <5>4. t # s
                    BY <1>3, <3>1, <3>9, <4>2, <5>2, <5>3 DEF ReadingInv, Alone
                <5>5. Len(cursors) # CursorMemory \/ Find(s, Id(last)) # {}
                    BY <1>3, <1>15, <2>12, <3>9, <4>2, <5>2, <5>3 DEF s
                <5>6. PICK i \in DOMAIN cursors :
                          cursors[i] = [search |-> t, id |-> reader[o].offset, at |-> reader[o].last]
                    BY <1>3, <3>9 DEF ReadingInv, Remembered
                <5> QED
                    BY <3>3, <5>4, <5>5, <5>6
            <4> QED
                BY <4>1, <4>2
        <3> QED
            BY <3>3, <3>5, <3>6, <3>8, <3>9 DEF ReadingInv
    <2> QED
        BY <2>11, <2>12
<1> QED
    BY <1>14, <1>15

--------------------------------------------------------------------------------
LEMMA ReadingStarts == ReadingInit => ReadingInv
<1> SUFFICES ASSUME ReadingInit PROVE ReadingInv
    OBVIOUS
<1>1. ReadingTypeOK
    <2>1. cursors \in Seq(Cursor) /\ Len(cursors) <= CursorMemory
        BY ReadingLimits DEF ReadingInit
    <2> QED
        BY <2>1, NoReaderIsReader, ReadingLimits DEF ReadingInit, ReadingTypeOK
<1>2. Sound(NoReader, there)
    BY DEF Sound, Walked, Continued, Finished, Examined, Paging, NoReader
<1>3. \A r \in Readers : reader[r] = NoReader
    BY DEF ReadingInit
<1>4. \A r \in Readers : ~reader[r].lost /\ reader[r].pc = "idle"
    BY <1>3 DEF NoReader
<1>5. KeysAreUnique /\ QuietSearchHolds
    BY <1>4 DEF KeysAreUnique, QuietSearchHolds, ReadingInit
<1>6. Alone /\ \A r \in Readers : Remembered(r)
    BY <1>4 DEF Alone, Walking, Remembered
<1> QED
    BY <1>1, <1>2, <1>3, <1>5, <1>6 DEF ReadingInv

\* ReadingInv is an invariant.
THEOREM ReadingInvHolds == ReadingSpec => []ReadingInv
<1>1. ReadingInv /\ [ReadingNext]_readingVars => ReadingInv'
    <2> SUFFICES ASSUME ReadingInv, ReadingNext \/ UNCHANGED readingVars PROVE ReadingInv'
        OBVIOUS
    <2>1. CASE Arrives
        BY <2>1, ArrivesKeeps
    <2>2. ASSUME NEW m \in Messages, Deleted(m) PROVE ReadingInv'
        BY <2>2, DeletedKeeps
    <2>3. ASSUME NEW r \in Readers,
                 \/ \E walk \in Asked[r] : Begin(r, walk)
                 \/ \E m \in Attached, what \in Contents \cup {"none"} : Download(r, m, what)
                 \/ \E what \in Contents : Edited(r, what)
                 \/ Asks(r) \/ Answered(r) \/ Looks(r) \/ Fetches(r) \/ Checks(r) \/ Leaves(r)
          PROVE  ReadingInv'
        BY <2>3, BeginKeeps, DownloadKeeps, EditedKeeps, AsksKeeps, AnsweredKeeps, LooksKeeps,
           FetchesKeeps, ChecksKeeps
    <2>4. CASE UNCHANGED readingVars
        <3>1. UNCHANGED <<latest, there, cursors, reader, crowded>>
            BY <2>4 DEF readingVars
        <3> QED
            BY <3>1 DEF ReadingInv, ReadingTypeOK, KeysAreUnique, QuietSearchHolds, Alone,
                        Walking, Remembered
    <2> QED
        BY <2>1, <2>2, <2>3, <2>4 DEF ReadingNext
<1> QED
    BY ReadingStarts, <1>1, PTL DEF ReadingSpec

\* WalkIsWhole, for every instance: a caller that hands every offset back gets every
\* message that was there all the time, once, whatever arrives or is deleted in between
\* (history.py, _page_from and _global_page_from).
THEOREM WalksAreWhole == ReadingSpec => []WalkIsWhole
<1>1. ReadingInv => WalkIsWhole
    BY DEF ReadingInv, WalkIsWhole, Sound, Finished, Paging
<1> QED
    BY <1>1, ReadingInvHolds, PTL

\* QuietSearchHolds, for every instance: a search finds its cursor again, unless two walks
\* of it overlapped or a full memory was shared (history.py, _remember_cursor).
THEOREM QuietSearchesHold == ReadingSpec => []QuietSearchHolds
<1>1. ReadingInv => QuietSearchHolds
    BY DEF ReadingInv
<1> QED
    BY <1>1, ReadingInvHolds, PTL

\* ReportedIsChecked, for every instance: no download hands out a file that is too large,
\* nor one of a banned type unless the message was edited meanwhile (media.py).
THEOREM ReportsAreChecked == ReadingSpec => []ReportedIsChecked
<1>1. ReadingInv => ReportedIsChecked
    BY DEF ReadingInv, ReportedIsChecked, Sound, Examined
<1> QED
    BY <1>1, ReadingInvHolds, PTL
================================================================================
