--------------------------- MODULE ForeignCodeProofs ---------------------------
(***************************************************************************)
(* Code that is not the agent's own.                                         *)
(*                                                                         *)
(* Plugins: for any plugins, repositories, limits and numbers of commands,   *)
(* a switch that is off stays off, what runs was asked for, the limit        *)
(* on installations holds, and the listener offers what it would offer after *)
(* a restart, under names that were free.                                    *)
(*                                                                         *)
(* Programs the model wrote (Sandbox): for any programs                      *)
(* and limits, worker and host stay in step, nothing leaks, and no operation *)
(* that was carried out is missing from the count the model is given.        *)
(***************************************************************************)
EXTENDS Plugins, Sandbox, FiniteSetTheorems, SequenceTheorems, TLAPS

\* The types of what the file is made of; the loaded tools play no part.
Types ==
    /\ file \in File
    /\ job \in [Procs -> Job \cup {None}]
    /\ edit \in [Procs -> Edit \cup {None}]
    /\ off \subseteq Names

\* A command has decided by the file that it has read.
JobFits(p) == job[p] # None => Room(job[p].seen, job[p].name) /\ ~Ships(job[p].seen, job[p].name)

\* One more installation fits into f.
Fits(f, n) == n \in External(f) \/ Cardinality(External(f)) < MaxInstalled

\* What a command is about to write: a switch has its value, a configuration leaves the
\* switch as it was read, nothing but an installation makes a row of an installed plugin
\* where there was none, and an installation fits into what it has read.
Decided(e) ==
    /\ e.verb = "off" => e.row # None /\ ~e.row.enabled
    /\ e.verb = "set" => e.row # None /\ e.row.enabled = RowOf(e.seen, e.name).enabled
    /\ e.verb = "remove" => e.row = None
    /\ e.verb \in {"on", "off", "set"} =>
         /\ e.row # None /\ e.row.builtin = RowOf(e.seen, e.name).builtin
         /\ e.seen[e.name] # None \/ e.name \in Builtins
    /\ e.verb = "add" => e.row # None /\ e.row.ref \in Versions
    /\ e.verb = "add" /\ ~crowded => Fits(e.seen, e.name)

EditFits(p) == edit[p] # None => Decided(edit[p])

Inv == /\ Types
       /\ \A p \in Procs : JobFits(p) /\ EditFits(p)
       /\ OffIsKept /\ LimitIsKept

--------------------------------------------------------------------------------
(* Rows and files.                                                           *)

LEMMA RowIsSomething == \A r \in Row : r # None
BY DEF Row, None

LEMMA EditIsSomething == \A e \in Edit : e # None
BY DEF Edit, None

LEMMA JobIsSomething == \A j \in Job : j # None
BY DEF Job, None

LEMMA FreshIsRow == \A n \in Names : Fresh(n) \in Row
BY PluginsAssumption DEF PluginsAssumption, Fresh, Row, Configs

LEMMA RowOfIsRow ==
    ASSUME NEW f \in File, NEW n \in Names PROVE RowOf(f, n) \in Row
BY FreshIsRow DEF RowOf, File

LEMMA NamesAreFinite == IsFiniteSet(Names)
<1>1. Order \in Seq(Names)
    BY PluginsAssumption DEF PluginsAssumption
<1>2. Len(Order) \in Nat /\ DOMAIN Order = 1..Len(Order) /\ Order \in [1..Len(Order) -> Names]
    BY <1>1
<1>3. IsFiniteSet(1..Len(Order))
    BY <1>2, FS_Interval
<1>4. Order \in Surjection(1..Len(Order), Names)
    BY <1>2 DEF Surjection, Names
<1> QED
    BY <1>3, <1>4, FS_Surjection

LEMMA ExternalIsFinite ==
    ASSUME NEW f
    PROVE  IsFiniteSet(External(f)) /\ Cardinality(External(f)) \in Nat
<1>1. External(f) \in SUBSET Names
    BY DEF External
<1>2. IsFiniteSet(External(f))
    BY <1>1, NamesAreFinite, FS_Subset
<1> QED
    BY <1>2, FS_CardinalityType

\* Files that agree on every row are the same file.
LEMMA SameFile ==
    ASSUME NEW f \in File, NEW g \in File, Lost(f, g) = {} PROVE f = g
<1>1. \A n \in Names : f[n] = g[n]
    BY DEF Lost
<1> QED
    BY <1>1 DEF File

--------------------------------------------------------------------------------
(* The steps.                                                                *)

LEMMA Initially == Init => Inv
<1> SUFFICES ASSUME Init PROVE Inv
    OBVIOUS
<1>1. /\ file = NoFile /\ off = {} /\ \A n \in Names : file[n] = None
      /\ \A p \in Procs : job[p] = None /\ edit[p] = None
    BY DEF Init, NoFile
<1>2. Types
    BY DEF Init, Types, File, NoFile
<1>3. External(file) = {}
    BY <1>1 DEF External
<1>4. Cardinality(External(file)) <= MaxInstalled
    BY <1>3, FS_EmptySet, PluginsAssumption DEF PluginsAssumption
<1> QED
    BY <1>1, <1>2, <1>4 DEF Inv, JobFits, EditFits, OffIsKept, LimitIsKept

\* The file and what is remembered of it stay, and what is in progress goes on or ends.
LEMMA FileStays ==
    ASSUME Inv, UNCHANGED <<file, off, blurred>>, crowded => crowded',
           job' \in [Procs -> Job \cup {None}], edit' \in [Procs -> Edit \cup {None}],
           \A p \in Procs : job'[p] \in {job[p], None} \/ JobFits(p)',
           \A p \in Procs : edit'[p] \in {edit[p], None} \/ EditFits(p)'
    PROVE  Inv'
<1>1. Types'
    BY DEF Inv, Types
<1>2. ASSUME NEW p \in Procs PROVE JobFits(p)'
    BY DEF Inv, JobFits
<1>3. ASSUME NEW p \in Procs PROVE EditFits(p)'
    BY DEF Inv, EditFits, Decided
<1>4. OffIsKept' /\ LimitIsKept'
    BY DEF Inv, OffIsKept, LimitIsKept
<1> QED
    BY <1>1, <1>2, <1>3, <1>4 DEF Inv

\* A command that has read the file and goes on to write it.
LEMMA CommandBegins ==
    ASSUME Inv, NEW p \in Procs, NEW n \in Names, NEW verb \in Verbs \ {"add"},
           NEW row \in Row \cup {None},
           Begins(p, n, verb, row), UNCHANGED <<file, job, off, blurred, crowded>>,
           Decided([seen |-> file, name |-> n, verb |-> verb, row |-> row])
    PROVE  Inv'
<1> DEFINE e == [seen |-> file, name |-> n, verb |-> verb, row |-> row]
<1>1. e \in Edit
    BY DEF Edit, Inv, Types
<1>2. edit' = [edit EXCEPT ![p] = e]
    BY DEF Begins
<1>3. /\ edit' \in [Procs -> Edit \cup {None}] /\ edit'[p] = e
      /\ \A q \in Procs \ {p} : edit'[q] = edit[q]
    BY <1>1, <1>2 DEF Inv, Types
<1>4. EditFits(p)'
    BY <1>3 DEF EditFits, Decided
<1> QED
    BY <1>3, <1>4, FileStays DEF Inv, Types

LEMMA SwitchKeeps ==
    ASSUME Inv, NEW p \in Procs, NEW n \in Names, NEW enabled \in BOOLEAN, Toggle(p, n, enabled)
    PROVE  Inv'
<1> DEFINE row == [RowOf(file, n) EXCEPT !.enabled = enabled]
           verb == IF enabled THEN "on" ELSE "off"
<1>1. RowOf(file, n) \in Row
    BY RowOfIsRow DEF Inv, Types
<1>2. row \in Row /\ row.enabled = enabled /\ row.builtin = RowOf(file, n).builtin
    BY <1>1 DEF Row
<1>3. row # None
    BY <1>2, RowIsSomething
<1>4. Decided([seen |-> file, name |-> n, verb |-> verb, row |-> row])
    <2>1. file[n] # None \/ n \in Builtins
        BY DEF Toggle, Known
    <2> HIDE DEF row
    <2> QED
        BY <1>2, <1>3, <2>1 DEF Decided
<1>5. Begins(p, n, verb, row) /\ UNCHANGED <<file, job, off, blurred, crowded>>
    BY DEF Toggle, files, history
<1> HIDE DEF row
<1>6. verb \in Verbs \ {"add"}
    BY DEF Verbs
<1> HIDE DEF verb
<1> QED
    BY <1>2, <1>4, <1>5, <1>6, CommandBegins

LEMMA ConfigureKeeps ==
    ASSUME Inv, NEW p \in Procs, NEW n \in Names, NEW config \in Configs, Configure(p, n, config)
    PROVE  Inv'
<1> DEFINE row == [RowOf(file, n) EXCEPT !.config = config]
<1>1. RowOf(file, n) \in Row
    BY RowOfIsRow DEF Inv, Types
<1>2. /\ row \in Row /\ row.enabled = RowOf(file, n).enabled
      /\ row.builtin = RowOf(file, n).builtin
    BY <1>1 DEF Row
<1>3. row # None
    BY <1>2, RowIsSomething
<1>4. Decided([seen |-> file, name |-> n, verb |-> "set", row |-> row])
    <2>1. file[n] # None \/ n \in Builtins
        BY DEF Configure, Known
    <2> HIDE DEF row
    <2> QED
        BY <1>2, <1>3, <2>1 DEF Decided
<1>5. Begins(p, n, "set", row) /\ UNCHANGED <<file, job, off, blurred, crowded>>
    BY DEF Configure, files, history
<1> HIDE DEF row
<1> QED
    BY <1>2, <1>4, <1>5, CommandBegins DEF Verbs

LEMMA RemoveKeeps ==
    ASSUME Inv, NEW p \in Procs, NEW n \in Names, Remove(p, n)
    PROVE  Inv'
<1>1. /\ file[n] \in Row /\ file[n] # None
      /\ UNCHANGED <<file, job, off, blurred, crowded>>
    BY DEF Remove, Inv, Types, File
<1>2. CASE file[n].builtin
    <2> DEFINE row == [file[n] EXCEPT !.enabled = FALSE]
    <2>1. row \in Row /\ ~row.enabled /\ row.builtin = file[n].builtin
        BY <1>1 DEF Row
    <2>2. row # None /\ RowOf(file, n) = file[n]
        BY <1>1, <2>1, RowIsSomething DEF RowOf
    <2>3. Begins(p, n, "off", row)
        BY <1>2 DEF Remove
    <2> HIDE DEF row
    <2>4. Decided([seen |-> file, name |-> n, verb |-> "off", row |-> row])
        BY <1>1, <2>1, <2>2 DEF Decided
    <2> QED
        BY <1>1, <2>1, <2>3, <2>4, CommandBegins DEF Verbs
<1>3. CASE ~file[n].builtin
    <2>1. Begins(p, n, "remove", None)
        BY <1>3 DEF Remove
    <2>2. Decided([seen |-> file, name |-> n, verb |-> "remove", row |-> None])
        BY DEF Decided
    <2> QED
        BY <1>1, <2>1, <2>2, CommandBegins DEF Verbs
<1> QED
    BY <1>2, <1>3

\* An installation decides by the file it has read, ...
LEMMA AddKeeps ==
    ASSUME Inv, NEW p \in Procs, NEW n \in Names, NEW v \in Versions, Add(p, n, v)
    PROVE  Inv'
<1> DEFINE j == [seen |-> file, name |-> n, code |-> v]
<1>1. /\ Room(file, n) /\ ~Ships(file, n) /\ job' = [job EXCEPT ![p] = j]
      /\ UNCHANGED <<file, edit, off, blurred, crowded>>
    BY DEF Add, files, history
<1>2. j \in Job
    BY DEF Job, Inv, Types, Codes
<1>3. /\ job' \in [Procs -> Job \cup {None}] /\ job'[p] = j
      /\ \A q \in Procs \ {p} : job'[q] = job[q]
    BY <1>1, <1>2 DEF Inv, Types
<1>4. JobFits(p)'
    BY <1>1, <1>3 DEF JobFits
<1> QED
    BY <1>1, <1>3, <1>4, FileStays DEF Inv, Types

\* ... and if the installed plugins are still the same when its directory is in place, it
\* fits into the file it will write.
LEMMA LandKeeps ==
    ASSUME Inv, NEW p \in Procs, Land(p)
    PROVE  Inv'
<1> DEFINE n == job[p].name
           row == [builtin |-> FALSE, enabled |-> TRUE, config |-> ConfigOf(job[p].seen, n),
                   ref |-> job[p].code]
           e == [seen |-> file, name |-> n, verb |-> "add", row |-> row]
<1>1. /\ job[p] # None /\ job' = [job EXCEPT ![p] = None] /\ edit' = [edit EXCEPT ![p] = e]
      /\ crowded' = (crowded \/ External(file) # External(job[p].seen))
      /\ UNCHANGED <<file, off, blurred>>
    BY DEF Land, Begins
<1>2. job[p] \in Job /\ n \in Names /\ job[p].seen \in File /\ job[p].code \in Versions
    BY <1>1 DEF Inv, Types, Job
<1>3. row \in Row
    <2>1. RowOf(job[p].seen, n) \in Row
        BY <1>2, RowOfIsRow
    <2> QED
        BY <1>2, <2>1 DEF Row, ConfigOf
<1>4. e \in Edit
    BY <1>2, <1>3 DEF Edit, Inv, Types, Verbs
<1>5. /\ job' \in [Procs -> Job \cup {None}] /\ edit' \in [Procs -> Edit \cup {None}]
      /\ edit'[p] = e /\ \A q \in Procs \ {p} : edit'[q] = edit[q]
      /\ \A q \in Procs : job'[q] \in {job[q], None}
    BY <1>1, <1>4 DEF Inv, Types
<1>6. ~crowded' => Fits(file, n)
    <2>1. Room(job[p].seen, n) /\ ~Ships(job[p].seen, n)
        BY <1>1 DEF Inv, JobFits
    <2>2. n \in External(job[p].seen) \/ Cardinality(External(job[p].seen)) < MaxInstalled
        BY <1>2, <2>1 DEF Room, Ships, External
    <2> QED
        BY <1>1, <2>2 DEF Fits
<1>7. EditFits(p)'
    <2>1. row # None /\ row.ref \in Versions
        BY <1>2, <1>3, RowIsSomething
    <2> HIDE DEF row
    <2> QED
        BY <1>5, <1>6, <2>1 DEF EditFits, Decided
<1> QED
    BY <1>1, <1>5, <1>7, FileStays

\* A write puts the row of one plugin into the file that was read; every other row that
\* changes by it is lost.
LEMMA WriteKeeps ==
    ASSUME Inv, NEW p \in Procs, Write(p)
    PROVE  Inv'
<1> DEFINE e == edit[p]
           n == e.name
<1>1. /\ e # None /\ file' = [e.seen EXCEPT ![n] = e.row]
      /\ edit' = [edit EXCEPT ![p] = None] /\ UNCHANGED <<job, crowded>>
      /\ blurred' = blurred \cup Lost(e.seen, file)
    BY DEF Write, Free
<1>2. /\ e \in Edit /\ e.seen \in File /\ n \in Names /\ e.verb \in Verbs
      /\ e.row \in Row \cup {None}
    BY <1>1 DEF Inv, Types, Edit
<1>3. Decided(e)
    BY <1>1 DEF Inv, EditFits
<1>4. Types'
    <2>1. off' \subseteq off \cup {n}
        BY <1>2 DEF Write, Verbs
    <2> QED
        BY <1>1, <1>2, <2>1 DEF Inv, Types, File
<1>5. ASSUME NEW q \in Procs PROVE JobFits(q)' /\ EditFits(q)'
    <2>1. edit'[q] \in {edit[q], None}
        BY <1>1 DEF Inv, Types
    <2> QED
        BY <1>1, <2>1 DEF Inv, JobFits, EditFits, Decided
<1>6. /\ file'[n] = e.row /\ \A m \in Names \ {n} : file'[m] = e.seen[m]
      /\ \A m \in Names \ blurred' : m \notin blurred /\ e.seen[m] = file[m]
    BY <1>1, <1>2 DEF File, Lost
<1>7. \/ e.verb = "set" /\ off' = off
      \/ e.verb = "off" /\ off' \subseteq off \cup {n}
      \/ off' = off \ {n}
    BY DEF Write
<1> HIDE DEF e, n
<1>9. OffIsKept'
    <2> SUFFICES ASSUME NEW m \in off' \ blurred' PROVE ~RowOf(file', m).enabled
        BY DEF OffIsKept
    <2>1. m \in Names /\ m \notin blurred /\ e.seen[m] = file[m]
        BY <1>4, <1>6 DEF Types
    <2>2. CASE m # n
        <3>1. m \in off \ blurred
            BY <1>7, <2>1, <2>2
        <3>2. file'[m] = file[m]
            BY <1>6, <2>1, <2>2
        <3> QED
            BY <3>1, <3>2 DEF Inv, OffIsKept, RowOf
    <2>3. CASE m = n /\ e.verb = "set" /\ off' = off
        <3>1. ~RowOf(file, n).enabled /\ RowOf(e.seen, n) = RowOf(file, n)
            BY <2>1, <2>3 DEF Inv, OffIsKept, RowOf
        <3> QED
            BY <1>3, <1>6, <2>3, <3>1 DEF Decided, RowOf, n
    <2>4. CASE m = n /\ e.verb = "off"
        BY <1>3, <1>6, <2>4 DEF Decided, RowOf
    <2> QED
        BY <1>7, <2>2, <2>3, <2>4
<1>11. LimitIsKept'
    <2> SUFFICES ASSUME ~crowded', blurred' = {}
                 PROVE  Cardinality(External(file')) <= MaxInstalled
        BY DEF LimitIsKept
    <2>1. /\ blurred = {} /\ Lost(e.seen, file) = {} /\ ~crowded
        BY <1>1 DEF e
    <2>2. e.seen = file
        BY <1>2, <2>1, SameFile DEF Inv, Types
    <2>3. Cardinality(External(file)) <= MaxInstalled
        BY <2>1 DEF Inv, LimitIsKept
    <2>4. External(file') \subseteq External(file) \cup {n}
        BY <1>6, <2>2 DEF External
    <2>5. CASE External(file') \subseteq External(file)
        BY <2>3, <2>5, ExternalIsFinite, FS_Subset, PluginsAssumption DEF PluginsAssumption
    <2>6. CASE n \in External(file') /\ n \notin External(file)
        <3>1. /\ e.row # None /\ ~e.row.builtin
            BY <1>6, <2>6 DEF External
        <3>2. e.verb \notin {"on", "off", "set"}
            <4> SUFFICES ASSUME e.verb \in {"on", "off", "set"} PROVE FALSE
                OBVIOUS
            <4>1. e.row.builtin = RowOf(file, n).builtin /\ (file[n] # None \/ n \in Builtins)
                BY <1>3, <2>2 DEF Decided, n
            <4>2. CASE file[n] # None
                BY <1>2, <2>6, <3>1, <4>1, <4>2 DEF RowOf, External
            <4>3. CASE file[n] = None
                BY <3>1, <4>1, <4>3 DEF RowOf, Fresh
            <4> QED
                BY <4>2, <4>3
        <3>3. e.verb = "add"
            BY <1>2, <1>3, <3>1, <3>2 DEF Decided, Verbs
        <3>4. Fits(file, n)
            BY <1>3, <2>1, <2>2, <3>3 DEF Decided, n
        <3>5. Cardinality(External(file)) < MaxInstalled
            BY <2>6, <3>4 DEF Fits
        <3>6. /\ IsFiniteSet(External(file) \cup {n})
              /\ Cardinality(External(file) \cup {n}) = Cardinality(External(file)) + 1
            BY <2>6, ExternalIsFinite, FS_AddElement
        <3>7. Cardinality(External(file')) <= Cardinality(External(file) \cup {n})
            BY <2>4, <3>6, FS_Subset
        <3> QED
            BY <3>5, <3>6, <3>7, ExternalIsFinite, PluginsAssumption DEF PluginsAssumption
    <2> QED
        BY <2>4, <2>5, <2>6
<1> QED
    BY <1>4, <1>5, <1>9, <1>11 DEF Inv

\* A file that is broken loses all its rows, and each of them is remembered as lost.
LEMMA BreaksKeep ==
    ASSUME Inv, file' \in {file, NoFile}, blurred' = blurred \cup Lost(file', file),
           UNCHANGED <<off, crowded>>,
           job' \in [Procs -> Job \cup {None}], edit' \in [Procs -> Edit \cup {None}],
           \A p \in Procs : job'[p] \in {job[p], None} /\ edit'[p] \in {edit[p], None}
    PROVE  Inv'
<1>1. Types'
    BY DEF Inv, Types, File, NoFile
<1>2. ASSUME NEW p \in Procs PROVE JobFits(p)' /\ EditFits(p)'
    BY DEF Inv, JobFits, EditFits, Decided
<1>3. \A n \in Names \ blurred' : n \notin blurred /\ file'[n] = file[n]
    BY DEF Lost
<1>4. OffIsKept'
    BY <1>1, <1>3 DEF Inv, Types, OffIsKept, RowOf
<1>6. LimitIsKept'
    <2> SUFFICES ASSUME ~crowded', blurred' = {}
                 PROVE  Cardinality(External(file')) <= MaxInstalled
        BY DEF LimitIsKept
    <2>1. blurred = {} /\ Lost(file', file) = {}
        OBVIOUS
    <2>2. file' = file
        BY <1>1, <2>1, SameFile DEF Inv, Types
    <2> QED
        BY <2>1, <2>2 DEF Inv, LimitIsKept
<1> QED
    BY <1>1, <1>2, <1>4, <1>6 DEF Inv

\* Inv is an invariant.
THEOREM InvHolds == Spec => []Inv
<1>1. Inv /\ [Next]_vars => Inv'
    <2> SUFFICES ASSUME Inv, Next \/ UNCHANGED vars PROVE Inv'
        OBVIOUS
    <2>0. Types
        BY DEF Inv
    <2>1. ASSUME NEW p \in Procs, Command(p) PROVE Inv'
        <3>1. ASSUME NEW n \in Names, NEW enabled \in BOOLEAN, Toggle(p, n, enabled) PROVE Inv'
            BY <3>1, SwitchKeeps
        <3>2. ASSUME NEW n \in Names, NEW config \in Configs, Configure(p, n, config) PROVE Inv'
            BY <3>2, ConfigureKeeps
        <3>3. ASSUME NEW n \in Names, Remove(p, n) PROVE Inv'
            BY <3>3, RemoveKeeps
        <3>4. ASSUME NEW n \in Names, RemoveUnlisted(p, n) PROVE Inv'
            BY <2>0, <3>4, FileStays DEF RemoveUnlisted, Types
        <3>5. ASSUME NEW n \in Names, NEW v \in Versions, Add(p, n, v) PROVE Inv'
            BY <3>5, AddKeeps
        <3>6. CASE Land(p)
            BY <3>6, LandKeeps
        <3>7. CASE AddFails(p)
            BY <2>0, <3>7, FileStays DEF AddFails, Types, files, history
        <3>8. CASE Write(p)
            BY <3>8, WriteKeeps
        <3>9. CASE WriteFails(p)
            BY <2>0, <3>9, BreaksKeep DEF WriteFails, Types
        <3> QED
            BY <2>1, <3>1, <3>2, <3>3, <3>4, <3>5, <3>6, <3>7, <3>8, <3>9 DEF Command
    <2>2. CASE Kill
        BY <2>0, <2>2, BreaksKeep DEF Kill, Types
    <2>3. CASE Restart
        BY <2>0, <2>3, BreaksKeep DEF Restart, Types
    <2>4. ASSUME NEW n \in Names, NEW v \in Versions, Drop(n, v) PROVE Inv'
        BY <2>0, <2>4, FileStays DEF Drop, Types
    <2>5. CASE UNCHANGED vars
        BY <2>0, <2>5, FileStays DEF vars, files, history, Types
    <2> QED
        BY <2>1, <2>2, <2>3, <2>4, <2>5 DEF Next
<1> QED
    BY Initially, <1>1, PTL DEF Spec

\* OffIsKept, for every instance: a plugin that was switched off stays off until somebody
\* switches it on, installs it or removes it (registry.py), unless its row was lost.
THEOREM OffStaysOff == Spec => []OffIsKept
<1>1. Inv => OffIsKept
    BY DEF Inv
<1> QED
    BY <1>1, InvHolds, PTL

\* LimitIsKept, for every instance: install never exceeds plugins.max_installed, if nothing
\* changed the file between its look at it and its write.
THEOREM LimitHolds == Spec => []LimitIsKept
<1>1. Inv => LimitIsKept
    BY DEF Inv
<1> QED
    BY <1>1, InvHolds, PTL

--------------------------------------------------------------------------------
(* The tools of the listener.                                                *)

\* What a plugin may put into the registry.
ToolsFit(l) ==
    /\ l \in [Tools -> Build \cup {None}]
    /\ \A t \in Provided(l) :
         t \notin Reserved /\ (l[t].plugin \in Builtins => l[t].code = Shipped)

MoreTypes ==
    /\ dir \in [Names -> Versions \cup {None}]
    /\ asked \in [Names -> SUBSET Versions] /\ torn \in SUBSET Names
    /\ behind \in BOOLEAN /\ blurred \in SUBSET Names
    /\ crowded \in BOOLEAN /\ given \in 0..MaxCommands

\* What the registry would hold after a restart, but for what it held at the last one.
UpToDate(f, d) ==
    \A t \in Tools : live[t] = Loading(f, d)[t] \/ (Loading(f, d)[t] = None /\ t \in boot)

\* Every tool of a plugin is one that the next reload takes back, or was there at the start.
Registered ==
    /\ MoreTypes
    /\ ToolsFit(live) /\ tracked \in SUBSET Tools /\ boot \in SUBSET Tools
    /\ Provided(live) \subseteq tracked \cup boot
    /\ ~behind => UpToDate(file, dir)

\* What is loaded is code that a plugin has, under names that nobody else had.
LEMMA LoadingFits ==
    ASSUME NEW f \in File, NEW d \in [Names -> Versions \cup {None}]
    PROVE  ToolsFit(Loading(f, d))
<1>1. ASSUME NEW t \in Tools
      PROVE  \/ Loading(f, d)[t] = None
             \/ /\ Loading(f, d)[t] \in Build /\ t \notin Reserved
                /\ Loading(f, d)[t].plugin \in Builtins => Loading(f, d)[t].code = Shipped
    <2> DEFINE by == {i \in DOMAIN Order : Provides(f, d, i, t)}
               i == CHOOSE i \in DOMAIN Order : Provides(f, d, i, t)
               n == Order[i]
    <2>1. CASE ~ \E j \in DOMAIN Order : Provides(f, d, j, t)
        BY <2>1 DEF Loading
    <2>2. CASE \E j \in DOMAIN Order : Provides(f, d, j, t)
        <3>1. i \in DOMAIN Order /\ Provides(f, d, i, t)
            BY <2>2
        <3>2. Loading(f, d)[t] = BuildOf(f, d, n)
            BY <2>2 DEF Loading
        <3> HIDE DEF i
        <3>3. n \in Names
            BY <3>1 DEF Names
        <3>4. CodeOf(d, n) # None /\ t \notin Reserved
            BY <3>1 DEF Provides, Runs, Spare, Taken
        <3>5. CodeOf(d, n) \in Codes /\ (n \in Builtins => CodeOf(d, n) = Shipped)
            BY <3>3, <3>4 DEF CodeOf, Codes
        <3>6. RowOf(f, n) \in Row
            BY <3>3, RowOfIsRow
        <3>7. RowOf(f, n).config \in Configs
            BY <3>6 DEF Row
        <3> HIDE DEF n
        <3> QED
            BY <3>2, <3>3, <3>4, <3>5, <3>7 DEF BuildOf, Build
    <2> QED
        BY <2>1, <2>2
<1>2. Loading(f, d) \in [Tools -> Build \cup {None}]
    <2>1. Loading(f, d) = [t \in Tools |-> Loading(f, d)[t]]
        BY DEF Loading
    <2> QED
        BY <1>1, <2>1
<1> QED
    BY <1>1, <1>2 DEF ToolsFit, Provided

\* A reload takes back what the one before has registered, so all that is left of it was
\* there at the start.
LEMMA ReloadRegisters ==
    ASSUME Registered, MoreTypes', file' \in File, Reloads(file', dir')
    PROVE  Registered'
<1> DEFINE new == Loading(file', dir')
<1>1. ToolsFit(new)
    BY LoadingFits DEF MoreTypes
<1>2. /\ live' = [t \in Tools |-> IF t \in Provided(new) THEN new[t]
                                  ELSE IF t \in tracked THEN None ELSE live[t]]
      /\ tracked' = Provided(new) /\ boot' = boot
    BY DEF Reloads
<1> HIDE DEF new
<1>3. ASSUME NEW t \in Tools
      PROVE  \/ t \in Provided(new) /\ live'[t] = new[t]
             \/ t \notin Provided(new) /\ new[t] = None /\ live'[t] = None
             \/ t \notin Provided(new) /\ new[t] = None /\ live'[t] = live[t] /\ t \notin tracked
    BY <1>2 DEF Provided
<1>4. ASSUME NEW t \in Tools, live'[t] # None, t \notin Provided(new)
      PROVE  t \in boot /\ t \in Provided(live) /\ live'[t] = live[t]
    BY <1>3, <1>4 DEF Registered, Provided
<1>5. ToolsFit(live')
    <2>1. live' \in [Tools -> Build \cup {None}]
        BY <1>1, <1>2 DEF ToolsFit, Registered
    <2>2. ASSUME NEW t \in Tools, live'[t] # None
          PROVE  t \notin Reserved /\ (live'[t].plugin \in Builtins => live'[t].code = Shipped)
        <3>1. CASE t \in Provided(new)
            <4>1. live'[t] = new[t]
                BY <1>3, <3>1
            <4> QED
                BY <1>1, <3>1, <4>1 DEF ToolsFit
        <3>2. CASE t \notin Provided(new)
            <4>1. t \in Provided(live) /\ live'[t] = live[t]
                BY <1>4, <2>2, <3>2
            <4> QED
                BY <4>1 DEF Registered, ToolsFit
        <3> QED
            BY <3>1, <3>2
    <2> QED
        BY <2>1, <2>2 DEF ToolsFit, Provided
<1>6. Provided(live') \subseteq tracked' \cup boot'
    BY <1>2, <1>4 DEF Provided
<1>7. UpToDate(file, dir)'
    BY <1>2, <1>3, <1>4 DEF UpToDate, new
<1>8. tracked' \in SUBSET Tools /\ boot' \in SUBSET Tools
    BY <1>2 DEF Registered, Provided
<1> QED
    BY <1>5, <1>6, <1>7, <1>8 DEF Registered, UpToDate

LEMMA BootRegisters ==
    ASSUME MoreTypes', file' \in File, Boots(file', dir')
    PROVE  Registered'
<1>1. /\ live' = Loading(file', dir') /\ tracked' = {} /\ boot' = Provided(live')
    BY DEF Boots
<1>2. ToolsFit(live')
    BY <1>1, LoadingFits DEF MoreTypes
<1> QED
    BY <1>1, <1>2 DEF Registered, UpToDate, Provided

\* The tools stay, and the files too or somebody knows that they have changed.
LEMMA ToolsStay ==
    ASSUME Registered, MoreTypes', UNCHANGED tools, behind' \/ UNCHANGED <<file, dir, behind>>
    PROVE  Registered'
<1>1. UNCHANGED <<live, tracked, boot>>
    BY DEF tools
<1>2. ToolsFit(live') /\ Provided(live') = Provided(live)
    BY <1>1 DEF Registered, ToolsFit, Provided
<1>3. ~behind' => UpToDate(file, dir)'
    BY <1>1 DEF Registered, UpToDate
<1> QED
    BY <1>1, <1>2, <1>3 DEF Registered

LEMMA CommandRegisters ==
    ASSUME Inv, Inv', Registered, NEW p \in Procs, Command(p)
    PROVE  Registered'
<1>0. /\ MoreTypes /\ MaxCommands \in Nat /\ file' \in File
      /\ Given => given' \in 0..MaxCommands
    BY PluginsAssumption DEF PluginsAssumption, Registered, MoreTypes, Given, Inv, Types
<1>1. ASSUME Given, UNCHANGED <<files, tools, history>> PROVE Registered'
    <2>1. MoreTypes'
        BY <1>0, <1>1 DEF MoreTypes, files, history
    <2> QED
        BY <1>1, <2>1, ToolsStay DEF files, history
<1>2. ASSUME NEW n \in Names, Remove(p, n) PROVE Registered'
    <2>1. MoreTypes' /\ UNCHANGED tools /\ (behind' \/ UNCHANGED <<file, dir, behind>>)
        BY <1>0, <1>2 DEF MoreTypes, Remove
    <2> QED
        BY <2>1, ToolsStay
<1>3. ASSUME NEW n \in Names, RemoveUnlisted(p, n) PROVE Registered'
    <2>1. MoreTypes'
        BY <1>0, <1>3 DEF MoreTypes, RemoveUnlisted
    <2>2. CASE p = "listener"
        <3>1. Reloads(file', dir')
            BY <1>3, <2>2 DEF RemoveUnlisted
        <3> QED
            BY <1>0, <2>1, <3>1, ReloadRegisters
    <2>3. CASE p # "listener"
        BY <1>3, <2>1, <2>3, ToolsStay DEF RemoveUnlisted
    <2> QED
        BY <2>2, <2>3
<1>4. CASE Land(p)
    <2>1. job[p] \in Job /\ job[p].code \in Versions
        BY <1>4 DEF Land, Inv, Types, Job
    <2>2. dir' = [dir EXCEPT ![job[p].name] = job[p].code]
          /\ crowded' \in BOOLEAN /\ behind' = TRUE /\ torn' \in SUBSET Names
          /\ UNCHANGED <<tools, asked, blurred, given>>
        BY <1>0, <1>4 DEF Land, MoreTypes
    <2>3. MoreTypes'
        BY <1>0, <2>1, <2>2 DEF MoreTypes
    <2> QED
        BY <2>2, <2>3, ToolsStay
<1>5. CASE AddFails(p)
    <2>1. MoreTypes'
        BY <1>0, <1>5 DEF AddFails, MoreTypes, files, history
    <2> QED
        BY <1>5, <2>1, ToolsStay DEF AddFails, files, history
<1>6. CASE Write(p)
    <2>1. edit[p].name \in Names
        BY <1>6 DEF Write, Free, Inv, Types, Edit
    <2>a. edit[p].verb = "add" => edit[p].row.ref \in Versions
        BY <1>6 DEF Write, Free, Inv, EditFits, Decided
    <2>2. asked' \in [Names -> SUBSET Versions]
        BY <1>0, <1>6, <2>1, <2>a DEF Write, MoreTypes
    <2>3. /\ blurred' = blurred \cup Lost(edit[p].seen, file) /\ behind' \in BOOLEAN
          /\ UNCHANGED <<dir, torn, crowded, given>>
        BY <1>6 DEF Write
    <2>4. MoreTypes'
        BY <1>0, <2>2, <2>3 DEF MoreTypes, Lost
    <2>5. CASE p = "listener"
        <3>1. Reloads(file', dir')
            BY <1>6, <2>3, <2>5 DEF Write
        <3> QED
            BY <1>0, <2>4, <3>1, ReloadRegisters
    <2>6. CASE p # "listener"
        BY <1>6, <2>4, <2>6, ToolsStay DEF Write
    <2> QED
        BY <2>5, <2>6
<1>7. CASE WriteFails(p)
    <2>1. MoreTypes'
        BY <1>0, <1>7 DEF WriteFails, MoreTypes, Lost, Landed
    <2> QED
        BY <1>7, <2>1, ToolsStay DEF WriteFails
<1> QED
    BY <1>1, <1>2, <1>3, <1>4, <1>5, <1>6, <1>7 DEF Command, Toggle, Configure, Add

LEMMA Registers ==
    ASSUME Inv, Inv', Registered, [Next]_vars PROVE Registered'
<1>0. /\ MoreTypes /\ MaxCommands \in Nat /\ file' \in File
    BY PluginsAssumption DEF PluginsAssumption, Registered, Inv, Types
<1>1. CASE Kill
    <2>0. /\ blurred' = blurred \cup Lost(file', file) /\ behind' \in BOOLEAN
          /\ torn' = torn \cup Landed("cli") /\ UNCHANGED <<dir, asked, crowded, given>>
        BY <1>1 DEF Kill
    <2>1. MoreTypes'
        BY <1>0, <2>0 DEF MoreTypes, Lost, Landed
    <2>2. behind' \/ UNCHANGED <<file, dir, behind>>
        <3>1. CASE Free("cli")
            <4>1. file' = file /\ dir' = dir
                BY <1>1, <3>1 DEF Kill
            <4>2. behind' = behind
                BY <1>0, <1>1, <3>1 DEF Kill, MoreTypes
            <4> QED
                BY <4>1, <4>2
        <3>2. CASE ~Free("cli")
            BY <1>1, <3>2 DEF Kill
        <3> QED
            BY <3>1, <3>2
    <2> QED
        BY <1>1, <2>1, <2>2, ToolsStay DEF Kill
<1>2. CASE Restart
    <2>1. MoreTypes'
        BY <1>0, <1>2 DEF Restart, MoreTypes, Lost, Landed
    <2>2. Boots(file', dir')
        BY <1>2 DEF Restart
    <2> QED
        BY <1>0, <2>1, <2>2, BootRegisters
<1>3. ASSUME NEW n \in Names, NEW v \in Versions, Drop(n, v) PROVE Registered'
    <2>1. MoreTypes'
        BY <1>0, <1>3 DEF Drop, MoreTypes, Given
    <2> QED
        BY <1>3, <2>1, ToolsStay DEF Drop
<1>4. CASE UNCHANGED vars
    <2>1. MoreTypes'
        BY <1>0, <1>4 DEF vars, files, history, MoreTypes
    <2> QED
        BY <1>4, <2>1, ToolsStay DEF vars, files, history
<1> QED
    BY <1>1, <1>2, <1>3, <1>4, CommandRegisters DEF Next

\* Registered holds from the start.
THEOREM RegisteredHolds == Spec => []Registered
<1>1. Init => Registered
    <2> SUFFICES ASSUME Init PROVE Registered
        OBVIOUS
    <2>1. MoreTypes /\ file \in File
        <3>1. 0 \in 0..MaxCommands
            BY PluginsAssumption DEF PluginsAssumption
        <3>2. /\ dir = [n \in Names |-> None] /\ asked = [n \in Names |-> {}] /\ torn = {}
              /\ behind = FALSE /\ blurred = {} /\ crowded = FALSE /\ given = 0 /\ file = NoFile
            BY DEF Init
        <3> QED
            BY <3>1, <3>2 DEF MoreTypes, File, NoFile
    <2>2. live = Loading(file, dir) /\ tracked = {} /\ boot = Provided(live)
        BY DEF Init
    <2>3. ToolsFit(live)
        BY <2>1, <2>2, LoadingFits DEF MoreTypes
    <2> QED
        BY <2>1, <2>2, <2>3 DEF Registered, UpToDate, Provided
<1> QED
    BY <1>1, Registers, InvHolds, PTL DEF Spec

\* InStep, for every instance: the listener offers what it would offer after a restart
\* (reload_plugins), but for what it registered when it started, as long as it has made
\* every change of the files itself.
THEOREM ListenerStaysInStep == Spec => []InStep
<1>1. Inv /\ Registered => InStep
    BY DEF Inv, Types, Registered, MoreTypes, ToolsFit, UpToDate, InStep, TypeOK
<1> QED
    BY <1>1, RegisteredHolds, InvHolds, PTL

--------------------------------------------------------------------------------
(* What runs was asked for.                                                  *)

\* The directory of n holds a version that commands have installed, or that one of them has
\* moved there.
Installed(n) ==
    \/ dir[n] \in asked[n]
    \/ \E p \in Procs : Landing(p, n) /\ edit[p].row.ref = dir[n]

Trusted == Names \ (Builtins \cup blurred \cup torn)

\* What lies under a row, or is to get one, was installed; and while one command is about to
\* forget a plugin and the other to write its row anew, the directory is the other's.
DirsWereAsked ==
    \A n \in Trusted :
        dir[n] # None /\ (file[n] # None \/ \E p \in Procs : Landing(p, n)) => Installed(n)
RemovalsFit ==
    \A n \in Trusted : \A p, q \in Procs :
        edit[p] # None /\ edit[p].verb = "remove" /\ edit[p].name = n /\ Landing(q, n) =>
            dir[n] \in {None, edit[q].row.ref}
WereAsked == DirsWereAsked /\ RemovalsFit

\* A command begins that installs nothing, and leaves directories alone or deletes some.
LEMMA BeginningsKeepAsked ==
    ASSUME WereAsked, Inv, NEW d \in SUBSET Names, UNCHANGED <<file, asked, blurred>>,
           torn \subseteq torn' \cup d,
           \A n \in Names : dir'[n] = IF n \in d THEN None ELSE dir[n],
           \A p \in Procs : \/ edit'[p] = edit[p]
                            \/ /\ edit[p] = None /\ edit'[p].verb # "add"
                               /\ edit'[p].verb = "remove" => edit'[p].name \in d
    PROVE  WereAsked'
<1>1. \A p \in Procs, n \in Names : Landing(p, n)' => Landing(p, n) /\ edit'[p] = edit[p]
    BY DEF Landing
<1>2. \A p \in Procs, n \in Names : Landing(p, n) => Landing(p, n)' /\ edit'[p] = edit[p]
    BY DEF Landing
<1>3. DirsWereAsked'
    <2> SUFFICES ASSUME NEW n \in Trusted', dir'[n] # None,
                        file'[n] # None \/ \E p \in Procs : Landing(p, n)'
                 PROVE  Installed(n)'
        BY DEF DirsWereAsked
    <2>1. n \in Trusted /\ dir'[n] = dir[n]
        BY DEF Trusted
    <2>2. Installed(n)
        BY <1>1, <2>1 DEF WereAsked, DirsWereAsked, Trusted
    <2> QED
        BY <1>2, <2>1, <2>2 DEF Installed, Trusted
<1>4. RemovalsFit'
    <2> SUFFICES ASSUME NEW n \in Trusted', NEW p \in Procs, NEW q \in Procs, n \notin d,
                        edit'[p] # None, edit'[p].verb = "remove", edit'[p].name = n,
                        Landing(q, n)'
                 PROVE  dir'[n] \in {None, edit'[q].row.ref}
        BY DEF RemovalsFit, Trusted
    <2>1. n \in Trusted /\ dir'[n] = dir[n]
        BY DEF Trusted
    <2>2. edit'[p] = edit[p]
        OBVIOUS
    <2>3. Landing(q, n) /\ edit'[q] = edit[q]
        BY <1>1, <2>1 DEF Trusted
    <2> QED
        BY <2>1, <2>2, <2>3 DEF WereAsked, RemovalsFit
<1> QED
    BY <1>3, <1>4 DEF WereAsked

\* Nor does what touches neither row nor directory.
LEMMA OthersKeepAsked ==
    ASSUME WereAsked, Inv, UNCHANGED <<file, dir, asked, blurred, torn>>,
           \A p \in Procs : \/ edit'[p] = edit[p]
                            \/ edit[p] = None /\ edit'[p].verb \notin {"add", "remove"}
    PROVE  WereAsked'
<1>1. /\ {} \in SUBSET Names /\ torn \subseteq torn' \cup {}
      /\ \A n \in Names : dir'[n] = IF n \in {} THEN None ELSE dir[n]
      /\ \A p \in Procs : \/ edit'[p] = edit[p]
                          \/ /\ edit[p] = None /\ edit'[p].verb # "add"
                             /\ edit'[p].verb = "remove" => edit'[p].name \in {}
    OBVIOUS
<1> QED
    BY <1>1, BeginningsKeepAsked

\* An installation moves its directory into place.
LEMMA LandKeepsAsked ==
    ASSUME WereAsked, Inv, Inv', Registered, NEW p \in Procs, Land(p)
    PROVE  WereAsked'
<1>a. job[p] # None /\ job[p].name \in Names /\ job[p].code \in Versions
    BY DEF Land, Inv, Types, Job
<1> PICK n \in Names : n = job[p].name
    BY <1>a
<1> PICK c \in Versions : c = job[p].code
    BY <1>a
<1>1. /\ edit[p] = None /\ dir' = [dir EXCEPT ![n] = c] /\ torn' = torn \ {n}
      /\ UNCHANGED <<file, asked, blurred>>
    BY DEF Land, Free
<1>2. edit'[p] # None /\ edit'[p].verb = "add" /\ edit'[p].name = n /\ edit'[p].row.ref = c
    BY DEF Land, Begins, Inv, Types, None
<1>3. /\ \A q \in Procs \ {p} : edit'[q] = edit[q]
      /\ dir'[n] = c /\ \A m \in Names \ {n} : dir'[m] = dir[m]
    BY <1>1 DEF Land, Begins, Inv, Types, Registered, MoreTypes
<1>4. Landing(p, n)' /\ \A m \in Names \ {n} : ~Landing(p, m)'
    BY <1>2, <1>3 DEF Landing
<1>5. \A q \in Procs \ {p}, m \in Names : Landing(q, m)' <=> Landing(q, m)
    BY <1>3 DEF Landing
<1>6. \A m \in Names : ~Landing(p, m)
    BY <1>1 DEF Landing
<1>7. \A m \in Trusted' \ {n} : m \in Trusted
    BY <1>1 DEF Trusted
<1>8. DirsWereAsked'
    <2> SUFFICES ASSUME NEW m \in Trusted', dir'[m] # None,
                        file'[m] # None \/ \E q \in Procs : Landing(q, m)'
                 PROVE  Installed(m)'
        BY DEF DirsWereAsked
    <2>1. CASE m = n
        BY <1>2, <1>3, <1>4, <2>1 DEF Installed
    <2>2. CASE m # n
        <3>1. m \in Trusted /\ m \in Names \ {n} /\ dir'[m] = dir[m]
            BY <1>3, <1>7, <2>2 DEF Trusted
        <3>2. Installed(m)
            BY <1>1, <1>4, <1>5, <3>1 DEF WereAsked, DirsWereAsked
        <3> QED
            BY <1>1, <1>3, <1>5, <1>6, <3>1, <3>2 DEF Installed
    <2> QED
        BY <2>1, <2>2
<1>9. RemovalsFit'
    <2> SUFFICES ASSUME NEW m \in Trusted', NEW q \in Procs, NEW r \in Procs,
                        edit'[q] # None, edit'[q].verb = "remove", edit'[q].name = m,
                        Landing(r, m)'
                 PROVE  dir'[m] \in {None, edit'[r].row.ref}
        BY DEF RemovalsFit
    <2>1. q # p /\ edit'[q] = edit[q]
        BY <1>2, <1>3
    <2>2. q # r
        BY DEF Landing
    <2>3. CASE r = p
        <3>1. m = n
            BY <1>4, <2>3 DEF Trusted
        <3> QED
            BY <1>2, <1>3, <2>3, <3>1
    <2>4. CASE r # p
        BY <2>1, <2>2, <2>4 DEF Procs
    <2> QED
        BY <2>3, <2>4
<1> QED
    BY <1>8, <1>9 DEF WereAsked

\* A command writes its row: an installation is recorded, and a removal forgets what came
\* before it.
LEMMA WriteKeepsAsked ==
    ASSUME WereAsked, Inv, Registered, NEW p \in Procs, Write(p)
    PROVE  WereAsked'
<1>0. edit[p] \in Edit
    BY DEF Write, Free, Inv, Types
<1> PICK e \in Edit : e = edit[p]
    BY <1>0
<1> PICK n \in Names : n = e.name
    BY DEF Edit
<1>1. /\ e # None /\ file' = [e.seen EXCEPT ![n] = e.row]
      /\ edit' = [edit EXCEPT ![p] = None] /\ UNCHANGED <<dir, torn>>
      /\ blurred' = blurred \cup Lost(e.seen, file)
    BY DEF Write, Free
<1>2. e.seen \in File /\ e.verb \in Verbs
    BY DEF Edit
<1>3. Decided(e)
    BY <1>1 DEF Inv, EditFits
<1>4. /\ \A m \in Names \ {n} : asked'[m] = asked[m]
      /\ e.verb = "add" => asked'[n] = asked[n] \cup {e.row.ref}
      /\ e.verb \notin {"add", "remove"} => asked'[n] = asked[n]
    BY <1>2 DEF Write, Registered, MoreTypes
<1>5. /\ \A m \in Names \ {n} : file'[m] = e.seen[m]
      /\ e.verb = "remove" => file'[n] = None
      /\ \A m \in Trusted' : m \in Trusted /\ e.seen[m] = file[m]
    BY <1>1, <1>2, <1>3 DEF File, Lost, Trusted, Decided
<1>6. edit'[p] = None /\ \A q \in Procs \ {p} : edit'[q] = edit[q]
    BY <1>1 DEF Inv, Types
<1>7. /\ \A m \in Names : ~Landing(p, m)'
      /\ \A q \in Procs \ {p}, m \in Names : Landing(q, m)' <=> Landing(q, m)
      /\ \A m \in Names : Landing(p, m) <=> e.verb = "add" /\ m = n
    BY <1>1, <1>6 DEF Landing
<1>8. DirsWereAsked'
    <2> SUFFICES ASSUME NEW m \in Trusted', dir'[m] # None,
                        file'[m] # None \/ \E q \in Procs : Landing(q, m)'
                 PROVE  Installed(m)'
        BY DEF DirsWereAsked
    <2>1. m \in Trusted /\ m \in Names /\ e.seen[m] = file[m] /\ dir'[m] = dir[m]
        BY <1>1, <1>5 DEF Trusted
    <2>2. CASE m # n
        <3>1. file'[m] = file[m] /\ asked'[m] = asked[m] /\ ~Landing(p, m)
            BY <1>4, <1>5, <1>7, <2>1, <2>2
        <3>2. Installed(m)
            BY <1>7, <2>1, <3>1 DEF WereAsked, DirsWereAsked
        <3> QED
            BY <1>6, <1>7, <2>1, <3>1, <3>2 DEF Installed
    <2>3. CASE m = n /\ e.verb = "add"
        <3>1. Installed(n)
            BY <1>7, <2>1, <2>3 DEF WereAsked, DirsWereAsked
        <3>2. CASE dir[n] \in asked[n] \/ e.row.ref = dir[n]
            BY <1>4, <2>1, <2>3, <3>2 DEF Installed
        <3>3. ASSUME NEW q \in Procs \ {p}, Landing(q, n), edit[q].row.ref = dir[n]
              PROVE  Installed(n)'
            BY <1>6, <1>7, <2>1, <2>3, <3>3 DEF Installed
        <3> QED
            BY <2>3, <3>1, <3>2, <3>3 DEF Installed
    <2>4. CASE m = n /\ e.verb = "remove"
        <3>1. PICK q \in Procs : Landing(q, n)'
            BY <1>5, <2>4
        <3>2. q # p /\ Landing(q, n) /\ edit'[q] = edit[q]
            BY <1>6, <1>7, <2>1, <2>4, <3>1
        <3>3. dir[n] \in {None, edit[q].row.ref}
            BY <1>1, <2>1, <2>4, <3>2 DEF WereAsked, RemovalsFit
        <3> QED
            BY <2>1, <2>4, <3>1, <3>2, <3>3 DEF Installed
    <2>5. CASE m = n /\ e.verb \notin {"add", "remove"}
        <3>1. file[n] # None
            BY <1>2, <1>3, <2>1, <2>5 DEF Decided, Verbs, Trusted
        <3>2. Installed(n) /\ ~Landing(p, n)
            BY <1>7, <2>1, <2>5, <3>1 DEF WereAsked, DirsWereAsked
        <3> QED
            BY <1>4, <1>6, <1>7, <2>1, <2>5, <3>2 DEF Installed
    <2> QED
        BY <2>2, <2>3, <2>4, <2>5
<1>9. RemovalsFit'
    <2> SUFFICES ASSUME NEW m \in Trusted', NEW q \in Procs, NEW r \in Procs,
                        edit'[q] # None, edit'[q].verb = "remove", edit'[q].name = m,
                        Landing(r, m)'
                 PROVE  dir'[m] \in {None, edit'[r].row.ref}
        BY DEF RemovalsFit
    <2>1. m \in Trusted /\ m \in Names /\ dir'[m] = dir[m]
        BY <1>1, <1>5 DEF Trusted
    <2>2. q # p /\ r # p /\ edit'[q] = edit[q] /\ edit'[r] = edit[r] /\ Landing(r, m)
        BY <1>6, <1>7, <2>1
    <2> QED
        BY <2>1, <2>2 DEF WereAsked, RemovalsFit
<1> QED
    BY <1>8, <1>9 DEF WereAsked

\* A command that is cut off leaves its directory, which is remembered.
LEMMA BreaksKeepAsked ==
    ASSUME WereAsked, Inv, NEW p \in Procs, blurred' = blurred \cup Lost(file', file),
           torn' = torn \cup Landed(p), edit' = [edit EXCEPT ![p] = None],
           UNCHANGED <<dir, asked>>
    PROVE  WereAsked'
<1>1. edit'[p] = None /\ \A q \in Procs \ {p} : edit'[q] = edit[q]
    BY DEF Inv, Types
<1>2. /\ \A m \in Names : ~Landing(p, m)'
      /\ \A q \in Procs \ {p}, m \in Names : Landing(q, m)' <=> Landing(q, m)
    BY <1>1 DEF Landing
<1>3. \A m \in Trusted' : m \in Trusted /\ file'[m] = file[m] /\ ~Landing(p, m)
    BY DEF Trusted, Lost, Landed
<1>4. DirsWereAsked'
    <2> SUFFICES ASSUME NEW m \in Trusted', dir'[m] # None,
                        file'[m] # None \/ \E q \in Procs : Landing(q, m)'
                 PROVE  Installed(m)'
        BY DEF DirsWereAsked
    <2>1. m \in Trusted /\ m \in Names /\ file'[m] = file[m] /\ ~Landing(p, m)
        BY <1>3 DEF Trusted
    <2>2. Installed(m)
        BY <1>2, <2>1 DEF WereAsked, DirsWereAsked
    <2> QED
        BY <1>1, <1>2, <2>1, <2>2 DEF Installed
<1>5. RemovalsFit'
    <2> SUFFICES ASSUME NEW m \in Trusted', NEW q \in Procs, NEW r \in Procs,
                        edit'[q] # None, edit'[q].verb = "remove", edit'[q].name = m,
                        Landing(r, m)'
                 PROVE  dir'[m] \in {None, edit'[r].row.ref}
        BY DEF RemovalsFit
    <2>1. m \in Trusted /\ m \in Names
        BY <1>3 DEF Trusted
    <2>2. q # p /\ r # p /\ edit'[q] = edit[q] /\ edit'[r] = edit[r] /\ Landing(r, m)
        BY <1>1, <1>2, <2>1
    <2> QED
        BY <2>1, <2>2 DEF WereAsked, RemovalsFit
<1> QED
    BY <1>4, <1>5 DEF WereAsked

\* What comes by hand is remembered if it has a row or is to get one.
LEMMA DropKeepsAsked ==
    ASSUME WereAsked, Registered, NEW n \in Names, NEW v \in Versions, Drop(n, v)
    PROVE  WereAsked'
<1>1. /\ dir' = [dir EXCEPT ![n] = v] /\ UNCHANGED <<file, edit, asked, blurred>>
      /\ torn' = IF file[n] # None \/ \E p \in Procs : Landing(p, n) THEN torn \cup {n}
                                                                    ELSE torn
    BY DEF Drop
<1>2. \A m \in Names \ {n} : dir'[m] = dir[m]
    BY <1>1 DEF Registered, MoreTypes
<1>3. \A p \in Procs, m \in Names : Landing(p, m)' <=> Landing(p, m)
    BY <1>1 DEF Landing
<1>4. \A m \in Trusted' : m \in Trusted /\ m \in Names
    BY <1>1 DEF Trusted
<1>5. n \in Trusted' => file[n] = None /\ \A p \in Procs : ~Landing(p, n)
    BY <1>1 DEF Trusted
<1>6. ASSUME NEW m \in Trusted', dir'[m] # None,
             file'[m] # None \/ \E p \in Procs : Landing(p, m)'
      PROVE  Installed(m)'
    <2>1. m # n /\ m \in Trusted /\ m \in Names
        BY <1>1, <1>3, <1>4, <1>5, <1>6
    <2>2. Installed(m)
        BY <1>1, <1>2, <1>3, <1>6, <2>1 DEF WereAsked, DirsWereAsked
    <2> QED
        BY <1>1, <1>2, <1>3, <2>1, <2>2 DEF Installed
<1>7. ASSUME NEW m \in Trusted', NEW q \in Procs, NEW r \in Procs,
             edit'[q] # None, edit'[q].verb = "remove", edit'[q].name = m, Landing(r, m)'
      PROVE  dir'[m] \in {None, edit'[r].row.ref}
    <2>1. m # n /\ m \in Trusted /\ m \in Names /\ Landing(r, m) /\ edit' = edit
        BY <1>1, <1>3, <1>4, <1>5, <1>7
    <2> QED
        BY <1>2, <1>7, <2>1 DEF WereAsked, RemovalsFit
<1> QED
    BY <1>6, <1>7 DEF WereAsked, DirsWereAsked, RemovalsFit

LEMMA CommandKeepsAsked ==
    ASSUME WereAsked, Inv, Inv', Registered, NEW p \in Procs, Command(p)
    PROVE  WereAsked'
<1>0. edit \in [Procs -> Edit \cup {None}] /\ dir \in [Names -> Versions \cup {None}]
    BY DEF Inv, Types, Registered, MoreTypes
<1>1. ASSUME NEW n \in Names, NEW enabled \in BOOLEAN, Toggle(p, n, enabled) PROVE WereAsked'
    <2>1. /\ \A q \in Procs : \/ edit'[q] = edit[q]
                              \/ edit[q] = None /\ edit'[q].verb \notin {"add", "remove"}
          /\ UNCHANGED <<file, dir, asked, blurred, torn>>
        BY <1>0, <1>1 DEF Toggle, Begins, Free, files, history
    <2> QED
        BY <2>1, OthersKeepAsked
<1>2. ASSUME NEW n \in Names, NEW config \in Configs, Configure(p, n, config) PROVE WereAsked'
    <2>1. /\ \A q \in Procs : \/ edit'[q] = edit[q]
                              \/ edit[q] = None /\ edit'[q].verb \notin {"add", "remove"}
          /\ UNCHANGED <<file, dir, asked, blurred, torn>>
        BY <1>0, <1>2 DEF Configure, Begins, Free, files, history
    <2> QED
        BY <2>1, OthersKeepAsked
<1>3. ASSUME NEW n \in Names, Remove(p, n) PROVE WereAsked'
    <2>1. CASE file[n].builtin
        <3>1. /\ \A q \in Procs : \/ edit'[q] = edit[q]
                                  \/ edit[q] = None /\ edit'[q].verb \notin {"add", "remove"}
              /\ UNCHANGED <<file, dir, asked, blurred, torn>>
            BY <1>0, <1>3, <2>1 DEF Remove, Begins, Free
        <3> QED
            BY <3>1, OthersKeepAsked
    <2>2. CASE ~file[n].builtin
        <3>1. /\ \A q \in Procs : \/ edit'[q] = edit[q]
                                  \/ edit[q] = None /\ edit'[q].verb = "remove" /\ edit'[q].name = n
              /\ dir' = [dir EXCEPT ![n] = None] /\ torn' = torn \ {n}
              /\ UNCHANGED <<file, asked, blurred>>
            BY <1>0, <1>3, <2>2 DEF Remove, Begins, Free
        <3>2. /\ {n} \in SUBSET Names /\ torn \subseteq torn' \cup {n}
              /\ \A m \in Names : dir'[m] = IF m \in {n} THEN None ELSE dir[m]
            BY <1>0, <3>1
        <3> QED
            BY <3>1, <3>2, BeginningsKeepAsked
    <2> QED
        BY <2>1, <2>2
<1>4. ASSUME NEW n \in Names, RemoveUnlisted(p, n) PROVE WereAsked'
    <2>1. /\ dir' = [dir EXCEPT ![n] = None] /\ torn' = torn \ {n}
          /\ UNCHANGED <<file, edit, asked, blurred>>
        BY <1>4 DEF RemoveUnlisted
    <2>2. /\ {n} \in SUBSET Names /\ torn \subseteq torn' \cup {n}
          /\ \A m \in Names : dir'[m] = IF m \in {n} THEN None ELSE dir[m]
          /\ \A q \in Procs : edit'[q] = edit[q]
        BY <1>0, <2>1
    <2> QED
        BY <2>1, <2>2, BeginningsKeepAsked
<1>5. ASSUME UNCHANGED <<files, edit, history>> PROVE WereAsked'
    BY <1>5, OthersKeepAsked DEF files, history
<1>6. ASSUME NEW n \in Names, NEW v \in Versions, Add(p, n, v) PROVE WereAsked'
    BY <1>5, <1>6 DEF Add
<1>7. CASE AddFails(p)
    BY <1>5, <1>7 DEF AddFails
<1>8. CASE Land(p)
    BY <1>8, LandKeepsAsked
<1>9. CASE Write(p)
    BY <1>9, WriteKeepsAsked
<1>10. CASE WriteFails(p)
    BY <1>10, BreaksKeepAsked DEF WriteFails
<1> QED
    BY <1>1, <1>2, <1>3, <1>4, <1>6, <1>7, <1>8, <1>9, <1>10 DEF Command

\* WereAsked holds from the start: what lies under a row was put there by a command that went
\* through, or by one that is about to write it, unless it is known to be torn.
THEOREM DirectoriesWereAsked == Spec => []WereAsked
<1>1. Init => WereAsked
    BY DEF Init, WereAsked, DirsWereAsked, RemovalsFit, Trusted, Landing, None
<1>2. WereAsked /\ Inv /\ Inv' /\ Registered /\ [Next]_vars => WereAsked'
    <2> SUFFICES ASSUME WereAsked, Inv, Inv', Registered, Next \/ UNCHANGED vars
                 PROVE  WereAsked'
        OBVIOUS
    <2>1. ASSUME NEW p \in Procs, Command(p) PROVE WereAsked'
        BY <2>1, CommandKeepsAsked
    <2>2. CASE Kill
        BY <2>2, BreaksKeepAsked DEF Kill, Procs
    <2>3. CASE Restart
        BY <2>3, BreaksKeepAsked DEF Restart, Procs
    <2>4. ASSUME NEW n \in Names, NEW v \in Versions, Drop(n, v) PROVE WereAsked'
        BY <2>4, DropKeepsAsked
    <2>5. CASE UNCHANGED vars
        BY <2>5, OthersKeepAsked DEF vars, files, history
    <2> QED
        BY <2>1, <2>2, <2>3, <2>4, <2>5 DEF Next
<1> QED
    BY <1>1, <1>2, RegisteredHolds, InvHolds, PTL DEF Spec

\* NothingUnasked, for every instance: a version of a plugin that does not ship runs only if
\* a command installed it or is about to record it (install.py:116-131), unless a command was
\* cut off in between, a hand put it under a row that was left, or its row was lost; and what
\* is loaded replaces neither a core tool nor a plugin that ships (load_plugins).
THEOREM NothingIsUnasked == Spec => []NothingUnasked
<1>1. WereAsked => \A n \in Trusted : Runs(file, dir, n) => Installed(n)
    <2> SUFFICES ASSUME WereAsked, NEW n \in Trusted, Runs(file, dir, n) PROVE Installed(n)
        OBVIOUS
    <2>1. n \notin Builtins
        BY DEF Trusted
    <2>2. file[n] # None /\ dir[n] # None
        BY <2>1 DEF Runs, RowOf, Fresh, CodeOf
    <2> QED
        BY <2>2 DEF WereAsked, DirsWereAsked
<1>2. Registered => NamesAreNotStolen
    BY DEF Registered, ToolsFit, NamesAreNotStolen
<1>3. WereAsked /\ Registered => NothingUnasked
    BY <1>1, <1>2 DEF NothingUnasked, Trusted, Installed
<1> QED
    BY <1>3, RegisteredHolds, DirectoriesWereAsked, PTL
--------------------------------------------------------------------------------
(***************************************************************************)
(* Programs the model wrote, in their worker processes (Sandbox).            *)
(***************************************************************************)
Calling == {x \in Programs : At(x, "calling")}

\* What the two ends of an execution know of each other: its host h, its worker w, and
\* the pipes q to the one and r to the other.
Paired(h, w, q, r) ==
    /\ h.pc \in {"idle", "spawning"} => w.pc = "none"
    /\ w.pc = "none" => h.pc \in {"idle", "spawning", "over"} /\ r = <<>>
    /\ h.pc = "draining" => w.pc \in {"exiting", "gone"}
    /\ h.pc \in {"queued", "calling"} =>
         /\ r = <<>>
         /\ w.pc \in {"waiting", "gone"}
         /\ h.serving = w.made
    /\ h.pc = "queued" => h.calls < w.made
    /\ w.pc = "waiting" =>
         h.pc \in {"stopping", "over", "queued", "calling"} \/ q # <<>> \/ r # <<>>

\* At most one frame is under way to the host,
Sending(h, w, q) ==
    q # <<>> =>
        /\ h.pc \in {"sending", "reading", "replying"}
        /\ w.pc \in {"waiting", "exiting", "gone"}
        /\ Len(q) = 1
        /\ q[1].type = "rpc" =>
             q[1].id = w.made /\ h.calls < w.made /\ w.pc # "exiting"
        /\ q[1].type = "done" => w.pc # "waiting"

\* and one answer to the worker.
Answering(h, w, q, r) ==
    r # <<>> =>
        /\ w.pc = "waiting" /\ q = <<>>
        /\ r = <<[type |-> "rpc_result", id |-> w.made]>>
        /\ h.pc \in {"replying", "reading", "stopping", "over"}

\* The host has admitted no more calls than the worker counts, so it never refuses one.
Counted(h, w) == h.calls <= w.made /\ w.made <= MaxRpcCalls /\ h.denied = 0

\* What the gateway carried out is in the log, is being served, or was cut off.
Traced(h) ==
    /\ h.landed \subseteq h.log \cup h.lost \cup
                          (IF h.pc = "calling" THEN {h.serving} ELSE {})
    /\ h.landed # {} \/ h.pc = "calling" => h.calls > 0
    /\ h.lost # {} => h.pc \in {"stopping", "over"} /\ h.how \in {"timeout", "cancelled"}

\* Who ends an execution has told its worker, and seen its end unless cancelled.
Attended(h, w) ==
    /\ h.pc = "stopping" => w.told
    /\ h.pc = "over" /\ w.pc \notin {"none", "gone"} => w.told /\ h.how = "cancelled"

Sound(h, w, q, r) ==
    /\ Paired(h, w, q, r) /\ Sending(h, w, q) /\ Answering(h, w, q, r)
    /\ Counted(h, w) /\ Traced(h) /\ Attended(h, w)

\* PermitsAreKept, and what makes the count count.
Kept == IsFiniteSet(Calling) /\ permits + Cardinality(Calling) = MaxConcurrentRpc

SandboxInv == /\ SandboxTypeOK /\ Kept
              /\ \A x \in Programs : Sound(host[x], worker[x], toHost[x], toWorker[x])

LEMMA SandboxLimits ==
    MaxRpcCalls \in Nat \ {0} /\ MaxConcurrentRpc \in Nat \ {0} /\ MaxCuts \in Nat
BY SandboxAssumption DEF SandboxAssumption

LEMMA SandboxStarts == SandboxInit => SandboxInv
<1> SUFFICES ASSUME SandboxInit PROVE SandboxInv
    OBVIOUS
<1> USE SandboxLimits
<1>1. host \in [Programs -> Host]
    <2>1. [pc |-> "idle", how |-> "none", big |-> FALSE, caught |-> FALSE,
           serving |-> NoId, calls |-> 0, denied |-> 0, log |-> {},
           landed |-> {}, lost |-> {}] \in Host
        BY DEF Host, Ids
    <2> QED
        BY <2>1 DEF SandboxInit
<1>2. worker \in [Programs -> Worker]
    <2>1. [pc |-> "none", made |-> 0, told |-> FALSE] \in Worker
        BY DEF Worker
    <2> QED
        BY <2>1 DEF SandboxInit
<1>3. SandboxTypeOK
    <2>1. toHost \in [Programs -> Seq(Frames)] /\ toWorker \in [Programs -> Seq(Frames)]
        BY DEF SandboxInit
    <2>2. permits \in 0..MaxConcurrentRpc /\ timed \in SUBSET Programs /\ cuts \in 0..MaxCuts
        BY DEF SandboxInit
    <2> QED
        BY <1>1, <1>2, <2>1, <2>2 DEF SandboxTypeOK
<1>4. Kept
    <2>1. Calling = {}
        BY DEF Calling, At, SandboxInit
    <2> QED
        BY <2>1, FS_EmptySet DEF Kept, SandboxInit
<1>5. ASSUME NEW x \in Programs
      PROVE Sound(host[x], worker[x], toHost[x], toWorker[x])
    BY DEF SandboxInit, Sound, Paired, Sending, Answering, Counted, Traced, Attended, NoId
<1> QED
    BY <1>3, <1>4, <1>5 DEF SandboxInv

\* A place of the semaphore per call in the gateway.
Held(h) == IF h.pc = "calling" THEN 1 ELSE 0

LEMMA PlacesFollow ==
    ASSUME SandboxInv, NEW x \in Programs, NEW h \in Host,
           host' = [host EXCEPT ![x] = h],
           permits' \in Nat,
           permits' + Held(h) = permits + Held(host[x])
    PROVE  Kept' /\ permits' \in 0..MaxConcurrentRpc
<1> USE SandboxLimits
<1>1. IsFiniteSet(Calling) /\ Cardinality(Calling) \in Nat /\ permits \in Nat
      /\ permits + Cardinality(Calling) = MaxConcurrentRpc
    BY FS_CardinalityType DEF SandboxInv, Kept, SandboxTypeOK
<1>2. IsFiniteSet(Calling') /\ Cardinality(Calling') \in Nat
      /\ Cardinality(Calling') + Held(host[x]) = Cardinality(Calling) + Held(h)
    <2>1. CASE h.pc = "calling" /\ host[x].pc # "calling"
        <3>1. Calling' = Calling \cup {x} /\ x \notin Calling
            BY <2>1 DEF Calling, At, SandboxInv, SandboxTypeOK
        <3> QED
            BY <1>1, <2>1, <3>1, FS_AddElement DEF Held
    <2>2. CASE h.pc # "calling" /\ host[x].pc = "calling"
        <3>1. Calling' = Calling \ {x} /\ x \in Calling
            BY <2>2 DEF Calling, At, SandboxInv, SandboxTypeOK
        <3>2. IsFiniteSet(Calling') /\ Cardinality(Calling') = Cardinality(Calling) - 1
            BY <1>1, <3>1, FS_RemoveElement
        <3>3. Cardinality(Calling') \in Nat
            BY <3>2, FS_CardinalityType
        <3> QED
            BY <1>1, <2>2, <3>2, <3>3 DEF Held
    <2>3. CASE h.pc = "calling" <=> host[x].pc = "calling"
        <3>1. Calling' = Calling
            BY <2>3 DEF Calling, At, SandboxInv, SandboxTypeOK
        <3> QED
            BY <1>1, <2>3, <3>1 DEF Held
    <2> QED
        BY <2>1, <2>2, <2>3
<1>3. permits' + Held(h) = permits + Held(host[x]) /\ Held(h) \in Nat /\ Held(host[x]) \in Nat
      /\ permits' \in Nat
    BY DEF Held
<1>4. permits' + Cardinality(Calling') = MaxConcurrentRpc
    BY <1>1, <1>2, <1>3
<1> QED
    BY <1>1, <1>2, <1>3, <1>4 DEF Kept

\* A step of execution x: its host becomes h, its worker w, its pipes q and r.
Becomes(x, h, w, q, r) ==
    /\ h \in Host /\ w \in Worker /\ q \in Seq(Frames) /\ r \in Seq(Frames)
    /\ host' = [host EXCEPT ![x] = h] /\ worker' = [worker EXCEPT ![x] = w]
    /\ toHost' = [toHost EXCEPT ![x] = q] /\ toWorker' = [toWorker EXCEPT ![x] = r]
    /\ permits' \in Nat /\ permits' + Held(h) = permits + Held(host[x])
    /\ timed' \in SUBSET Programs /\ cuts' \in 0..MaxCuts

LEMMA StepAt ==
    ASSUME SandboxInv, NEW x \in Programs, NEW h, NEW w, NEW q, NEW r,
           Becomes(x, h, w, q, r), Sound(h, w, q, r)
    PROVE  SandboxInv'
<1>1. Kept' /\ permits' \in 0..MaxConcurrentRpc
    BY PlacesFollow DEF Becomes
<1>2. SandboxTypeOK'
    BY <1>1 DEF SandboxInv, SandboxTypeOK, Becomes
<1>3. ASSUME NEW y \in Programs
      PROVE  Sound(host'[y], worker'[y], toHost'[y], toWorker'[y])
    BY DEF SandboxInv, SandboxTypeOK, Becomes
<1> QED
    BY <1>1, <1>2, <1>3 DEF SandboxInv

LEMMA TailOfOne ==
    ASSUME NEW S, NEW s \in Seq(S), Len(s) = 1 PROVE Tail(s) = <<>>
<1>1. s # <<>>
    OBVIOUS
<1>2. Tail(s) \in Seq(S) /\ Len(Tail(s)) = 0
    BY <1>1, HeadTailProperties
<1> QED
    BY <1>2, EmptySeq

\* What is known of an execution before a step.
LEMMA Here ==
    ASSUME SandboxInv, NEW x \in Programs
    PROVE  /\ host[x] \in Host /\ worker[x] \in Worker
           /\ toHost[x] \in Seq(Frames) /\ toWorker[x] \in Seq(Frames)
           /\ Sound(host[x], worker[x], toHost[x], toWorker[x])
           /\ host \in [Programs -> Host] /\ worker \in [Programs -> Worker]
           /\ host = [host EXCEPT ![x] = host[x]]
           /\ worker = [worker EXCEPT ![x] = worker[x]]
           /\ toHost = [toHost EXCEPT ![x] = toHost[x]]
           /\ toWorker = [toWorker EXCEPT ![x] = toWorker[x]]
           /\ MaxRpcCalls \in Nat \ {0} /\ MaxCuts \in Nat
           /\ permits \in Nat /\ timed \in SUBSET Programs /\ cuts \in 0..MaxCuts
BY SandboxLimits DEF SandboxInv, SandboxTypeOK

LEMMA BootsKeeps ==
    ASSUME SandboxInv, NEW x \in Programs, WorkerBoots(x) PROVE SandboxInv'
<1> DEFINE w == [worker[x] EXCEPT !.pc = "running"]
<1>1. /\ host[x] \in Host /\ worker[x] \in Worker
      /\ Sound(host[x], worker[x], toHost[x], toWorker[x])
    BY Here
<1>7. Sound(host[x], w, toHost[x], toWorker[x])
    BY <1>1 DEF WorkerBoots, At, Sound, Paired, Sending, Answering, Counted, Traced,
           Attended, Host, Pumping, Worker
<1>8. host[x] \in Host /\ w \in Worker
    BY <1>1 DEF WorkerBoots, Host, Pumping, Worker
<1>3. host' = [host EXCEPT ![x] = host[x]] /\ worker' = [worker EXCEPT ![x] = w]
    BY Here DEF WorkerBoots, At, pipes, outside
<1>4. /\ toHost' = [toHost EXCEPT ![x] = toHost[x]]
      /\ toWorker' = [toWorker EXCEPT ![x] = toWorker[x]]
    BY Here DEF WorkerBoots, At, pipes, outside
<1>5. UNCHANGED permits /\ timed' \in SUBSET Programs /\ cuts' \in 0..MaxCuts
    BY Here DEF WorkerBoots, At, pipes, outside
<1>6. Held(host[x]) = Held(host[x])
    BY <1>1 DEF WorkerBoots, At, Held
<1>9. Becomes(x, host[x], w, toHost[x], toWorker[x])
    <2> HIDE DEF w
    <2> QED
        BY <1>3, <1>4, <1>5, <1>6, <1>8, Here, EmptySeq DEF Becomes
<1> HIDE DEF w
<1> QED
    BY <1>7, <1>9, StepAt

LEMMA EndsKeeps ==
    ASSUME SandboxInv, NEW x \in Programs, Lives(x), Ended(x), UNCHANGED <<host, toHost,
           permits, outside>> PROVE SandboxInv'
<1> DEFINE w == [worker[x] EXCEPT !.pc = "gone"]
<1>1. /\ host[x] \in Host /\ worker[x] \in Worker
      /\ Sound(host[x], worker[x], toHost[x], toWorker[x])
    BY Here
<1>7. Sound(host[x], w, toHost[x], <<>>)
    BY <1>1 DEF Ended, At, Sound, Paired, Sending, Answering, Counted, Traced, Attended,
           Host, Pumping, Worker, Lives
<1>8. host[x] \in Host /\ w \in Worker
    BY <1>1 DEF Ended, Host, Pumping, Worker, Lives
<1>3. host' = [host EXCEPT ![x] = host[x]] /\ worker' = [worker EXCEPT ![x] = w]
    BY Here DEF Ended, Lives, At, pipes, outside
<1>4. toHost' = [toHost EXCEPT ![x] = toHost[x]] /\ toWorker' = [toWorker EXCEPT ![x] = <<>>]
    BY Here DEF Ended, Lives, At, pipes, outside
<1>5. UNCHANGED permits /\ timed' \in SUBSET Programs /\ cuts' \in 0..MaxCuts
    BY Here DEF Ended, Lives, At, pipes, outside
<1>6. Held(host[x]) = Held(host[x])
    BY <1>1 DEF Ended, At, Held, Lives
<1>9. Becomes(x, host[x], w, toHost[x], <<>>)
    <2> HIDE DEF w
    <2> QED
        BY <1>3, <1>4, <1>5, <1>6, <1>8, Here, EmptySeq DEF Becomes
<1> HIDE DEF w
<1> QED
    BY <1>7, <1>9, StepAt

LEMMA ReadsKeeps ==
    ASSUME SandboxInv, NEW x \in Programs, WorkerReads(x) PROVE SandboxInv'
<1> DEFINE w == [worker[x] EXCEPT !.pc = "running"]
<1>1. /\ host[x] \in Host /\ worker[x] \in Worker
      /\ Sound(host[x], worker[x], toHost[x], toWorker[x])
    BY Here
<1>2. Tail(toWorker[x]) = <<>>
    <2>1. toWorker[x] \in Seq(Frames)
        BY Here
    <2>2. toWorker[x] = <<[type |-> "rpc_result", id |-> worker[x].made]>>
        BY <1>1 DEF WorkerReads, Sound, Answering
    <2>3. Len(toWorker[x]) = 1
        BY <2>2
    <2> QED
        BY <2>1, <2>3, TailOfOne
<1>7. Sound(host[x], w, toHost[x], <<>>)
    BY <1>1, <1>2 DEF WorkerReads, At, Sound, Paired, Sending, Answering, Counted, Traced,
           Attended, Host, Pumping, Worker
<1>8. host[x] \in Host /\ w \in Worker
    BY <1>1, <1>2 DEF WorkerReads, Host, Pumping, Worker
<1>3. host' = [host EXCEPT ![x] = host[x]] /\ worker' = [worker EXCEPT ![x] = w]
    BY Here, <1>2 DEF WorkerReads, At, pipes, outside
<1>4. toHost' = [toHost EXCEPT ![x] = toHost[x]] /\ toWorker' = [toWorker EXCEPT ![x] = <<>>]
    BY Here, <1>2 DEF WorkerReads, At, pipes, outside
<1>5. UNCHANGED permits /\ timed' \in SUBSET Programs /\ cuts' \in 0..MaxCuts
    BY Here DEF WorkerReads, At, pipes, outside
<1>6. Held(host[x]) = Held(host[x])
    BY <1>1 DEF WorkerReads, At, Held
<1>9. Becomes(x, host[x], w, toHost[x], <<>>)
    <2> HIDE DEF w
    <2> QED
        BY <1>3, <1>4, <1>5, <1>6, <1>8, Here, EmptySeq DEF Becomes
<1> HIDE DEF w
<1> QED
    BY <1>7, <1>9, StepAt

LEMMA ExecuteKeeps ==
    ASSUME SandboxInv, NEW x \in Programs, NEW big \in BOOLEAN, At(x, "idle"),
           host' = [host EXCEPT ![x].pc = "spawning", ![x].big = big],
           UNCHANGED <<worker, pipes, permits, outside>> PROVE SandboxInv'
<1> DEFINE h == [host[x] EXCEPT !.pc = "spawning", !.big = big]
<1>1. /\ host[x] \in Host /\ worker[x] \in Worker
      /\ Sound(host[x], worker[x], toHost[x], toWorker[x])
    BY Here
<1>7. Sound(h, worker[x], toHost[x], toWorker[x])
    BY <1>1 DEF Execute, At, Sound, Paired, Sending, Answering, Counted, Traced, Attended,
           Host, Pumping, Worker
<1>8. h \in Host /\ worker[x] \in Worker
    BY <1>1 DEF Execute, Host, Pumping, Worker
<1>3. host' = [host EXCEPT ![x] = h] /\ worker' = [worker EXCEPT ![x] = worker[x]]
    BY Here DEF Execute, At, pipes, outside
<1>4. /\ toHost' = [toHost EXCEPT ![x] = toHost[x]]
      /\ toWorker' = [toWorker EXCEPT ![x] = toWorker[x]]
    BY Here DEF Execute, At, pipes, outside
<1>5. UNCHANGED permits /\ timed' \in SUBSET Programs /\ cuts' \in 0..MaxCuts
    BY Here DEF Execute, At, pipes, outside
<1>6. Held(h) = Held(host[x])
    BY <1>1 DEF Execute, At, Held
<1>9. Becomes(x, h, worker[x], toHost[x], toWorker[x])
    <2> HIDE DEF h
    <2> QED
        BY <1>3, <1>4, <1>5, <1>6, <1>8, Here, EmptySeq DEF Becomes
<1> HIDE DEF h
<1> QED
    BY <1>7, <1>9, StepAt

LEMMA SpawnedKeeps ==
    ASSUME SandboxInv, NEW x \in Programs, Spawned(x) PROVE SandboxInv'
<1> DEFINE h == [host[x] EXCEPT !.pc = "sending"]
<1> DEFINE w == [worker[x] EXCEPT !.pc = "booting"]
<1>1. /\ host[x] \in Host /\ worker[x] \in Worker
      /\ Sound(host[x], worker[x], toHost[x], toWorker[x])
    BY Here
<1>7. Sound(h, w, toHost[x], toWorker[x])
    BY <1>1 DEF Spawned, At, Sound, Paired, Sending, Answering, Counted, Traced, Attended,
           Host, Pumping, Worker, Moves
<1>8. h \in Host /\ w \in Worker
    BY <1>1 DEF Spawned, Host, Pumping, Worker, Moves
<1>3. host' = [host EXCEPT ![x] = h] /\ worker' = [worker EXCEPT ![x] = w]
    BY Here DEF Spawned, Moves, At, pipes, outside
<1>4. /\ toHost' = [toHost EXCEPT ![x] = toHost[x]]
      /\ toWorker' = [toWorker EXCEPT ![x] = toWorker[x]]
    BY Here DEF Spawned, Moves, At, pipes, outside
<1>5. UNCHANGED permits /\ timed' \in SUBSET Programs /\ cuts' \in 0..MaxCuts
    BY Here DEF Spawned, Moves, At, pipes, outside
<1>6. Held(h) = Held(host[x])
    BY <1>1 DEF Spawned, At, Held, Moves
<1>9. Becomes(x, h, w, toHost[x], toWorker[x])
    <2> HIDE DEF h, w
    <2> QED
        BY <1>3, <1>4, <1>5, <1>6, <1>8, Here, EmptySeq DEF Becomes
<1> HIDE DEF h, w
<1> QED
    BY <1>7, <1>9, StepAt

LEMMA SpawnFailsKeeps ==
    ASSUME SandboxInv, NEW x \in Programs, SpawnFails(x) PROVE SandboxInv'
<1> DEFINE h == [host[x] EXCEPT !.pc = "over", !.how = "start"]
<1>1. /\ host[x] \in Host /\ worker[x] \in Worker
      /\ Sound(host[x], worker[x], toHost[x], toWorker[x])
    BY Here
<1>7. Sound(h, worker[x], toHost[x], toWorker[x])
    BY <1>1 DEF SpawnFails, At, Sound, Paired, Sending, Answering, Counted, Traced,
           Attended, Host, Pumping, Worker
<1>8. h \in Host /\ worker[x] \in Worker
    BY <1>1 DEF SpawnFails, Host, Pumping, Worker
<1>3. host' = [host EXCEPT ![x] = h] /\ worker' = [worker EXCEPT ![x] = worker[x]]
    BY Here DEF SpawnFails, At, pipes, outside
<1>4. /\ toHost' = [toHost EXCEPT ![x] = toHost[x]]
      /\ toWorker' = [toWorker EXCEPT ![x] = toWorker[x]]
    BY Here DEF SpawnFails, At, pipes, outside
<1>5. UNCHANGED permits /\ timed' \in SUBSET Programs /\ cuts' \in 0..MaxCuts
    BY Here DEF SpawnFails, At, pipes, outside
<1>6. Held(h) = Held(host[x])
    BY <1>1 DEF SpawnFails, At, Held
<1>9. Becomes(x, h, worker[x], toHost[x], toWorker[x])
    <2> HIDE DEF h
    <2> QED
        BY <1>3, <1>4, <1>5, <1>6, <1>8, Here, EmptySeq DEF Becomes
<1> HIDE DEF h
<1> QED
    BY <1>7, <1>9, StepAt

LEMMA SentKeeps ==
    ASSUME SandboxInv, NEW x \in Programs, Sent(x) PROVE SandboxInv'
<1> DEFINE h == [host[x] EXCEPT !.pc = "reading"]
<1>1. /\ host[x] \in Host /\ worker[x] \in Worker
      /\ Sound(host[x], worker[x], toHost[x], toWorker[x])
    BY Here
<1>7. Sound(h, worker[x], toHost[x], toWorker[x])
    BY <1>1 DEF Sent, At, Sound, Paired, Sending, Answering, Counted, Traced, Attended,
           Host, Pumping, Worker, Moves
<1>8. h \in Host /\ worker[x] \in Worker
    BY <1>1 DEF Sent, Host, Pumping, Worker, Moves
<1>3. host' = [host EXCEPT ![x] = h] /\ worker' = [worker EXCEPT ![x] = worker[x]]
    BY Here DEF Sent, Moves, At, pipes, outside
<1>4. /\ toHost' = [toHost EXCEPT ![x] = toHost[x]]
      /\ toWorker' = [toWorker EXCEPT ![x] = toWorker[x]]
    BY Here DEF Sent, Moves, At, pipes, outside
<1>5. UNCHANGED permits /\ timed' \in SUBSET Programs /\ cuts' \in 0..MaxCuts
    BY Here DEF Sent, Moves, At, pipes, outside
<1>6. Held(h) = Held(host[x])
    BY <1>1 DEF Sent, At, Held, Moves
<1>9. Becomes(x, h, worker[x], toHost[x], toWorker[x])
    <2> HIDE DEF h
    <2> QED
        BY <1>3, <1>4, <1>5, <1>6, <1>8, Here, EmptySeq DEF Becomes
<1> HIDE DEF h
<1> QED
    BY <1>7, <1>9, StepAt

LEMMA StoppedKeeps ==
    ASSUME SandboxInv, NEW x \in Programs, Stopped(x) PROVE SandboxInv'
<1> DEFINE h == [host[x] EXCEPT !.pc = "over"]
<1>1. /\ host[x] \in Host /\ worker[x] \in Worker
      /\ Sound(host[x], worker[x], toHost[x], toWorker[x])
    BY Here
<1>7. Sound(h, worker[x], toHost[x], toWorker[x])
    BY <1>1 DEF Stopped, At, Sound, Paired, Sending, Answering, Counted, Traced, Attended,
           Host, Pumping, Worker, Moves, Lives
<1>8. h \in Host /\ worker[x] \in Worker
    BY <1>1 DEF Stopped, Host, Pumping, Worker, Moves, Lives
<1>3. host' = [host EXCEPT ![x] = h] /\ worker' = [worker EXCEPT ![x] = worker[x]]
    BY Here DEF Stopped, Moves, Lives, At, pipes, outside
<1>4. /\ toHost' = [toHost EXCEPT ![x] = toHost[x]]
      /\ toWorker' = [toWorker EXCEPT ![x] = toWorker[x]]
    BY Here DEF Stopped, Moves, Lives, At, pipes, outside
<1>5. UNCHANGED permits /\ timed' \in SUBSET Programs /\ cuts' \in 0..MaxCuts
    BY Here DEF Stopped, Moves, Lives, At, pipes, outside
<1>6. Held(h) = Held(host[x])
    BY <1>1 DEF Stopped, At, Held, Moves, Lives
<1>9. Becomes(x, h, worker[x], toHost[x], toWorker[x])
    <2> HIDE DEF h
    <2> QED
        BY <1>3, <1>4, <1>5, <1>6, <1>8, Here, EmptySeq DEF Becomes
<1> HIDE DEF h
<1> QED
    BY <1>7, <1>9, StepAt

LEMMA RepliedKeeps ==
    ASSUME SandboxInv, NEW x \in Programs, Replied(x) PROVE SandboxInv'
<1> DEFINE h == [host[x] EXCEPT !.pc = "reading", !.serving = NoId]
<1>1. /\ host[x] \in Host /\ worker[x] \in Worker
      /\ Sound(host[x], worker[x], toHost[x], toWorker[x])
    BY Here
<1>7. Sound(h, worker[x], toHost[x], toWorker[x])
    BY <1>1 DEF Replied, At, Sound, Paired, Sending, Answering, Counted, Traced, Attended,
           Host, Pumping, Worker, NoId
<1>8. h \in Host /\ worker[x] \in Worker
    BY <1>1 DEF Replied, Host, Pumping, Worker, NoId
<1>3. host' = [host EXCEPT ![x] = h] /\ worker' = [worker EXCEPT ![x] = worker[x]]
    BY Here DEF Replied, NoId, At, pipes, outside
<1>4. /\ toHost' = [toHost EXCEPT ![x] = toHost[x]]
      /\ toWorker' = [toWorker EXCEPT ![x] = toWorker[x]]
    BY Here DEF Replied, NoId, At, pipes, outside
<1>5. UNCHANGED permits /\ timed' \in SUBSET Programs /\ cuts' \in 0..MaxCuts
    BY Here DEF Replied, NoId, At, pipes, outside
<1>6. Held(h) = Held(host[x])
    BY <1>1 DEF Replied, At, Held, NoId
<1>9. Becomes(x, h, worker[x], toHost[x], toWorker[x])
    <2> HIDE DEF h
    <2> QED
        BY <1>3, <1>4, <1>5, <1>6, <1>8, Here, EmptySeq DEF Becomes
<1> HIDE DEF h
<1> QED
    BY <1>7, <1>9, StepAt

LEMMA CallLandsKeeps ==
    ASSUME SandboxInv, NEW x \in Programs, CallLands(x) PROVE SandboxInv'
<1> DEFINE h == [host[x] EXCEPT !.landed = host[x].landed \cup {host[x].serving}]
<1>1. /\ host[x] \in Host /\ worker[x] \in Worker
      /\ Sound(host[x], worker[x], toHost[x], toWorker[x])
    BY Here
<1>2. host[x].serving \in Ids
    BY <1>1, Here DEF CallLands, At, Sound, Paired, Traced, Counted, Ids, NoId, Host,
           Worker
<1>7. Sound(h, worker[x], toHost[x], toWorker[x])
    BY <1>1, <1>2 DEF CallLands, At, Sound, Paired, Sending, Answering, Counted, Traced,
           Attended, Host, Pumping, Worker
<1>8. h \in Host /\ worker[x] \in Worker
    BY <1>1, <1>2 DEF CallLands, Host, Pumping, Worker
<1>3. host' = [host EXCEPT ![x] = h] /\ worker' = [worker EXCEPT ![x] = worker[x]]
    BY Here, <1>2 DEF CallLands, At, pipes, outside
<1>4. /\ toHost' = [toHost EXCEPT ![x] = toHost[x]]
      /\ toWorker' = [toWorker EXCEPT ![x] = toWorker[x]]
    BY Here, <1>2 DEF CallLands, At, pipes, outside
<1>5. UNCHANGED permits /\ timed' \in SUBSET Programs /\ cuts' \in 0..MaxCuts
    BY Here DEF CallLands, At, pipes, outside
<1>6. Held(h) = Held(host[x])
    BY <1>1 DEF CallLands, At, Held
<1>9. Becomes(x, h, worker[x], toHost[x], toWorker[x])
    <2> HIDE DEF h
    <2> QED
        BY <1>3, <1>4, <1>5, <1>6, <1>8, Here, EmptySeq DEF Becomes
<1> HIDE DEF h
<1> QED
    BY <1>7, <1>9, StepAt

\* Every way to leave for _terminate; only a call in the gateway can be cut off.
LEMMA UnwindsKeeps ==
    ASSUME SandboxInv, NEW x \in Programs, NEW caught \in BOOLEAN,
           NEW how \in {"done", "timeout", "protocol", "start", "cancelled"},
           host[x].pc \notin {"idle", "spawning", "over"},
           host[x].pc \in {"calling", "stopping"} => how \in {"timeout", "cancelled"},
           Unwinds(x, how, caught), UNCHANGED toWorker,
           timed' \in SUBSET Programs, cuts' \in 0..MaxCuts
    PROVE  SandboxInv'
<1> DEFINE lost == IF At(x, "calling") THEN {host[x].serving} ELSE host[x].lost
           h == [host[x] EXCEPT !.pc = "stopping", !.how = how, !.caught = caught,
                                !.lost = lost, !.serving = NoId]
           w == [worker[x] EXCEPT !.told = TRUE]
<1>1. /\ host[x] \in Host /\ worker[x] \in Worker
      /\ Sound(host[x], worker[x], toHost[x], toWorker[x])
    BY Here
<1>2. lost \in SUBSET Ids /\ host[x].landed \subseteq host[x].log \cup lost
    BY <1>1, Here DEF At, Sound, Paired, Traced, Counted, Ids, NoId, Host, Pumping,
           Worker
<1>3. lost # {} => how \in {"timeout", "cancelled"}
    BY <1>1 DEF At, Sound, Traced, Host, Pumping
<1>4. host' = [host EXCEPT ![x] = h] /\ worker' = [worker EXCEPT ![x] = w]
    <2>1. host' = [host EXCEPT ![x] = h]
        BY Here DEF Unwinds, At
    <2>2. worker' = [worker EXCEPT ![x] = w]
        BY Here DEF Unwinds
    <2> QED
        BY <2>1, <2>2
<1> HIDE DEF lost
<1>5. h \in Host /\ w \in Worker
    BY <1>1, <1>2 DEF Host, Pumping, Worker
<1>6. Sound(h, w, <<>>, toWorker[x])
    BY <1>1, <1>2, <1>3 DEF Sound, Paired, Sending, Answering, Counted, Traced, Attended,
           Host, Pumping, Worker
<1>7. toHost' = [toHost EXCEPT ![x] = <<>>] /\ toWorker' = [toWorker EXCEPT ![x] = toWorker[x]]
    BY Here DEF Unwinds
<1>8. permits' \in Nat /\ permits' + Held(h) = permits + Held(host[x])
    BY <1>1, Here DEF Unwinds, At, Held, Host, Pumping
<1> HIDE DEF h, w
<1>9. Becomes(x, h, w, <<>>, toWorker[x])
    BY <1>4, <1>5, <1>7, <1>8, Here, EmptySeq DEF Becomes
<1> QED
    BY <1>6, <1>9, StepAt

LEMMA InterruptsKeep ==
    ASSUME SandboxInv, NEW x \in Programs,
           \/ FrameFails(x) \/ Deadline(x) \/ ReceiveLong(x)
           \/ ReceiveNothing(x) \/ Drained(x)
    PROVE  SandboxInv'
<1>1. timed' \in SUBSET Programs /\ cuts' \in 0..MaxCuts /\ UNCHANGED toWorker
    BY Here DEF FrameFails, Deadline, ReceiveLong, ReceiveNothing, Drained, outside
<1>2. CASE Deadline(x)
    BY <1>1, <1>2, UnwindsKeeps DEF Deadline, Pumping
<1>3. CASE FrameFails(x)
    BY <1>1, <1>3, UnwindsKeeps DEF FrameFails
<1>4. CASE ReceiveLong(x)
    BY <1>1, <1>4, UnwindsKeeps DEF ReceiveLong, At
<1>5. CASE ReceiveNothing(x)
    BY <1>1, <1>5, UnwindsKeeps DEF ReceiveNothing, At
<1>6. CASE Drained(x)
    BY <1>1, <1>6, UnwindsKeeps DEF Drained, At
<1> QED
    BY <1>2, <1>3, <1>4, <1>5, <1>6

\* A cancellation, wherever it finds the execution.
LEMMA CancelledKeeps ==
    ASSUME SandboxInv, NEW x \in Programs, Cancelled(x),
           timed' \in SUBSET Programs, cuts' \in 0..MaxCuts
    PROVE  SandboxInv'
<1>1. CASE /\ At(x, "spawning") \/ (At(x, "stopping") /\ ~host[x].caught)
           /\ host' = [host EXCEPT ![x].pc = "over", ![x].how = "cancelled"]
           /\ UNCHANGED <<worker, pipes, permits>>
    <2> DEFINE h == [host[x] EXCEPT !.pc = "over", !.how = "cancelled"]
    <2>1. /\ host[x] \in Host /\ worker[x] \in Worker
          /\ Sound(host[x], worker[x], toHost[x], toWorker[x])
        BY Here
    <2>2. h \in Host
        BY <2>1 DEF Host, Pumping
    <2>3. Sound(h, worker[x], toHost[x], toWorker[x])
        BY <1>1, <2>1 DEF At, Sound, Paired, Sending, Answering, Counted, Traced, Attended,
               Host, Pumping, Worker
    <2>4. host' = [host EXCEPT ![x] = h]
        BY <1>1, Here
    <2>5. Held(h) = Held(host[x])
        BY <1>1, <2>1 DEF At, Held
    <2> HIDE DEF h
    <2>6. Becomes(x, h, worker[x], toHost[x], toWorker[x])
        BY <1>1, <2>2, <2>4, <2>5, Here DEF Becomes, pipes
    <2> QED
        BY <2>3, <2>6, StepAt
<1>2. CASE /\ host[x].pc \in {"sending", "draining"} \cup Pumping
                \/ (At(x, "stopping") /\ host[x].caught)
           /\ Unwinds(x, "cancelled", FALSE)
           /\ UNCHANGED toWorker
    BY <1>2, UnwindsKeeps DEF At, Pumping
<1> QED
    BY <1>1, <1>2 DEF Cancelled

LEMMA TimeoutsKeep ==
    ASSUME SandboxInv, NEW x \in Programs, ToolTimeout(x) \/ CutOff(x) PROVE SandboxInv'
<1>1. timed' \in SUBSET Programs /\ cuts' \in 0..MaxCuts /\ Cancelled(x)
    BY Here DEF ToolTimeout, CutOff
<1> QED
    BY <1>1, CancelledKeeps

\* The next frame of the worker, and what it is.
LEMMA NextFrame ==
    ASSUME SandboxInv, NEW x \in Programs, toHost[x] # <<>>
    PROVE  /\ Tail(toHost[x]) = <<>> /\ Head(toHost[x]) = toHost[x][1]
           /\ Head(toHost[x]) \in Frames
<1>1. toHost[x] \in Seq(Frames) /\ Len(toHost[x]) = 1
    BY Here DEF Sound, Sending
<1> QED
    BY <1>1, TailOfOne

LEMMA ReceiveCallKeeps ==
    ASSUME SandboxInv, NEW x \in Programs, ReceiveCall(x) PROVE SandboxInv'
<1>1. PICK k \in Ids \cup {NoId} :
          /\ k = Head(toHost[x]).id /\ k = worker[x].made /\ host[x].calls < k
          /\ worker[x].pc \in {"waiting", "gone"}
          /\ Tail(toHost[x]) = <<>> /\ toHost[x] # <<>>
    <2>1. /\ Tail(toHost[x]) = <<>> /\ toHost[x] # <<>> /\ Head(toHost[x]) = toHost[x][1]
          /\ Head(toHost[x]).id \in Ids \cup {NoId} /\ Head(toHost[x]).type = "rpc"
        BY NextFrame DEF ReceiveCall, Frames
    <2> QED
        BY <2>1, Here DEF Sound, Sending
<1> DEFINE h == [host[x] EXCEPT !.pc = "queued", !.serving = k]
<1>2. /\ host[x] \in Host /\ worker[x] \in Worker
      /\ Sound(host[x], worker[x], toHost[x], toWorker[x])
      /\ host[x].pc = "reading"
    BY Here DEF ReceiveCall, At
<1>3. host' = [host EXCEPT ![x] = h] /\ toHost' = [toHost EXCEPT ![x] = <<>>]
    BY <1>1, Here DEF ReceiveCall, Read
<1>4. /\ UNCHANGED <<worker, toWorker, permits>>
      /\ timed' \in SUBSET Programs /\ cuts' \in 0..MaxCuts
    BY Here DEF ReceiveCall, outside
<1>5. h \in Host /\ Held(h) = Held(host[x])
    BY <1>1, <1>2 DEF Host, Pumping, Held
<1>6. /\ h.pc = "queued" /\ h.serving = k
      /\ \A f \in {"how", "calls", "denied", "log", "landed", "lost"} : h[f] = host[x][f]
    BY <1>2 DEF Host, Pumping
<1> HIDE DEF h
<1>7. worker[x].pc \in {"waiting", "gone"} /\ toWorker[x] = <<>>
    BY <1>1, <1>2 DEF Sound, Answering
<1>8. Sound(h, worker[x], <<>>, toWorker[x])
    BY <1>1, <1>2, <1>6, <1>7 DEF Sound, Paired, Sending, Answering, Counted, Traced, Attended
<1>9. Becomes(x, h, worker[x], <<>>, toWorker[x])
    BY <1>3, <1>4, <1>5, Here, EmptySeq DEF Becomes
<1> QED
    BY <1>8, <1>9, StepAt

LEMMA ReceiveDoneKeeps ==
    ASSUME SandboxInv, NEW x \in Programs, ReceiveDone(x) PROVE SandboxInv'
<1> DEFINE h == [host[x] EXCEPT !.pc = "draining"]
<1>1. /\ host[x] \in Host /\ worker[x] \in Worker
      /\ Sound(host[x], worker[x], toHost[x], toWorker[x])
    BY Here
<1>2. Tail(toHost[x]) = <<>> /\ toHost[x] # <<>> /\ toHost[x][1].type = "done"
    BY NextFrame DEF ReceiveDone
<1>7. Sound(h, worker[x], <<>>, toWorker[x])
    BY <1>1, <1>2 DEF ReceiveDone, At, Sound, Paired, Sending, Answering, Counted, Traced,
           Attended, Host, Pumping, Worker, Read, Moves
<1>8. h \in Host /\ worker[x] \in Worker
    BY <1>1, <1>2 DEF ReceiveDone, Host, Pumping, Worker, Read, Moves
<1>3. host' = [host EXCEPT ![x] = h] /\ worker' = [worker EXCEPT ![x] = worker[x]]
    BY Here, <1>2 DEF ReceiveDone, Read, Moves, At, pipes, outside
<1>4. toHost' = [toHost EXCEPT ![x] = <<>>] /\ toWorker' = [toWorker EXCEPT ![x] = toWorker[x]]
    BY Here, <1>2 DEF ReceiveDone, Read, Moves, At, pipes, outside
<1>5. UNCHANGED permits /\ timed' \in SUBSET Programs /\ cuts' \in 0..MaxCuts
    BY Here DEF ReceiveDone, Read, Moves, At, pipes, outside
<1>6. Held(h) = Held(host[x])
    BY <1>1 DEF ReceiveDone, At, Held, Read, Moves
<1>9. Becomes(x, h, worker[x], <<>>, toWorker[x])
    <2> HIDE DEF h
    <2> QED
        BY <1>3, <1>4, <1>5, <1>6, <1>8, Here, EmptySeq DEF Becomes
<1> HIDE DEF h
<1> QED
    BY <1>7, <1>9, StepAt


LEMMA WritesFrame ==
    ASSUME SandboxInv, NEW x \in Programs, toHost[x] = <<>>,
           NEW type \in {"rpc", "long", "done"}, NEW id \in Ids \cup {NoId}, Writes(x,
                  type, id)
    PROVE  \E q \in Seq(Frames) :
              /\ toHost' = [toHost EXCEPT ![x] = q]
              /\ host[x].pc \in {"stopping", "over"} => q = <<>>
              /\ host[x].pc \notin {"stopping", "over"} => q = <<[type |-> type, id |-> id]>>
<1> DEFINE f == [type |-> type, id |-> id]
<1>1. f \in Frames
    BY DEF Frames
<1> HIDE DEF f
<1>2. <<f>> \in Seq(Frames) /\ <<>> \in Seq(Frames) /\ Append(<<>>, f) = <<f>>
    BY <1>1
<1>3. toHost' = [toHost EXCEPT ![x] =
                    IF host[x].pc \in {"stopping", "over"} THEN <<>> ELSE <<f>>]
    <2>1. toHost' = [toHost EXCEPT ![x] =
              IF host[x].pc \in {"stopping", "over"} THEN toHost[x] ELSE Append(toHost[x], f)]
        BY DEF Writes, f
    <2> QED
        BY <1>2, <2>1
<1>4. CASE host[x].pc \in {"stopping", "over"}
    BY <1>2, <1>3, <1>4
<1>5. CASE host[x].pc \notin {"stopping", "over"}
    <2>1. toHost' = [toHost EXCEPT ![x] = <<f>>]
        BY <1>3, <1>5
    <2> QED
        BY <1>2, <1>5, <2>1 DEF f
<1> QED
    BY <1>4, <1>5

\* A call that is not sent, or is.
LEMMA CallsKeeps ==
    ASSUME SandboxInv, NEW x \in Programs, WorkerCalls(x) PROVE SandboxInv'
<1>1. PICK k \in Ids : k = worker[x].made + 1 /\ k <= MaxRpcCalls
    BY Here DEF WorkerCalls, MayCall, Worker, Ids
<1>2. /\ host[x] \in Host /\ worker[x] \in Worker
      /\ Sound(host[x], worker[x], toHost[x], toWorker[x])
      /\ worker[x].pc = "running" /\ MaxRpcCalls \in Nat \ {0}
    BY Here DEF WorkerCalls
<1>3. toHost[x] = <<>> /\ toWorker[x] = <<>>
    BY <1>2 DEF Sound, Sending, Answering
<1>4. /\ UNCHANGED <<host, toWorker, permits>>
      /\ timed' \in SUBSET Programs /\ cuts' \in 0..MaxCuts
    BY Here DEF WorkerCalls, outside
<1>5. CASE worker' = [worker EXCEPT ![x].made = k] /\ UNCHANGED toHost
    <2> DEFINE w == [worker[x] EXCEPT !.made = k]
    <2>1. w \in Worker /\ worker' = [worker EXCEPT ![x] = w]
        BY <1>1, <1>2, <1>5 DEF Worker, Ids
    <2>2. Sound(host[x], w, toHost[x], toWorker[x])
        BY <1>1, <1>2, <1>3 DEF Sound, Paired, Sending, Answering, Counted, Traced,
               Attended, Host, Worker
    <2> HIDE DEF w
    <2>3. Becomes(x, host[x], w, toHost[x], toWorker[x])
        BY <1>4, <1>5, <2>1, Here DEF Becomes
    <2> QED
        BY <2>2, <2>3, StepAt
<1>6. ASSUME worker' = [worker EXCEPT ![x].made = k, ![x].pc = "waiting"],
             NEW type \in {"rpc", "long"}, Writes(x, type, k)
      PROVE  SandboxInv'
    <2> DEFINE w == [worker[x] EXCEPT !.made = k, !.pc = "waiting"]
    <2>1. w \in Worker /\ w.made = k /\ w.pc = "waiting" /\ w.told = worker[x].told
        <3>1. k \in 0..(MaxRpcCalls + 1)
            BY <1>2 DEF Ids
        <3> QED
            BY <1>2, <3>1 DEF Worker
    <2>2. worker' = [worker EXCEPT ![x] = w]
        BY <1>6, Here
    <2>3. PICK q \in Seq(Frames) :
              /\ toHost' = [toHost EXCEPT ![x] = q]
              /\ host[x].pc \in {"stopping", "over"} => q = <<>>
              /\ host[x].pc \notin {"stopping", "over"} => q = <<[type |-> type, id |-> k]>>
        BY <1>1, <1>3, <1>6, WritesFrame
    <2> HIDE DEF w
    <2>4. Sound(host[x], w, q, toWorker[x])
        <3>1. /\ host[x].pc \in {"sending", "reading", "replying", "stopping", "over"}
              /\ host[x].calls < k /\ worker[x].made \in Nat
            <4>1. host[x].pc \in {"sending", "reading", "replying", "stopping", "over"}
                BY <1>2 DEF Sound, Paired, Host, Pumping
            <4>2. /\ host[x].calls \in Nat /\ worker[x].made \in Nat
                  /\ host[x].calls <= worker[x].made
                BY <1>2 DEF Sound, Counted, Host, Worker
            <4> QED
                BY <1>1, <4>1, <4>2
        <3>2. Sending(host[x], w, q)
            <4>1. CASE q = <<>>
                BY <4>1 DEF Sending
            <4>2. CASE q = <<[type |-> type, id |-> k]>>
                <5>1. Len(q) = 1 /\ q[1].type = type /\ q[1].id = k
                    BY <4>2
                <5>2. host[x].pc \in {"sending", "reading", "replying"}
                    BY <2>3, <3>1, <4>2
                <5> QED
                    BY <1>6, <2>1, <3>1, <5>1, <5>2 DEF Sending
            <4> QED
                BY <2>3, <4>1, <4>2
        <3>3. Paired(host[x], w, q, toWorker[x]) /\ Answering(host[x], w, q, toWorker[x])
            <4>1. host[x].pc \in {"stopping", "over"} \/ q # <<>>
                <5>1. q = <<[type |-> type, id |-> k]>> => q # <<>>
                    OBVIOUS
                <5> QED
                    BY <2>3, <5>1
            <4> QED
                BY <1>3, <2>1, <3>1, <4>1 DEF Paired, Answering
        <3> QED
            BY <1>1, <1>2, <2>1, <3>1, <3>2, <3>3 DEF Sound, Counted, Traced, Attended, Host,
                   Pumping
    <2>5. Becomes(x, host[x], w, q, toWorker[x])
        BY <1>4, <2>1, <2>2, <2>3, Here DEF Becomes
    <2> QED
        BY <2>4, <2>5, StepAt
<1> QED
    BY <1>1, <1>5, <1>6 DEF WorkerCalls

LEMMA FinishesKeeps ==
    ASSUME SandboxInv, NEW x \in Programs, WorkerFinishes(x) PROVE SandboxInv'
<1> DEFINE w == [worker[x] EXCEPT !.pc = "exiting"]
<1>1. /\ host[x] \in Host /\ worker[x] \in Worker
      /\ Sound(host[x], worker[x], toHost[x], toWorker[x])
      /\ worker[x].pc = "running"
    BY Here DEF WorkerFinishes
<1>2. toHost[x] = <<>> /\ toWorker[x] = <<>>
    BY <1>1 DEF Sound, Sending, Answering
<1>3. w \in Worker /\ worker' = [worker EXCEPT ![x] = w]
    BY <1>1 DEF WorkerFinishes, Worker
<1>4. PICK type \in {"done", "long"} : Writes(x, type, NoId)
    BY DEF WorkerFinishes
<1>5. PICK q \in Seq(Frames) :
          /\ toHost' = [toHost EXCEPT ![x] = q]
          /\ host[x].pc \in {"stopping", "over"} => q = <<>>
          /\ host[x].pc \notin {"stopping", "over"} => q = <<[type |-> type, id |-> NoId]>>
    BY <1>2, <1>4, WritesFrame
<1>6. Sound(host[x], w, q, toWorker[x])
    <2>1. w.pc = "exiting" /\ w.made = worker[x].made /\ w.told = worker[x].told
        BY <1>1 DEF Worker
    <2> HIDE DEF w
    <2>2. host[x].pc \in {"sending", "reading", "replying", "stopping", "over"}
        BY <1>1 DEF Sound, Paired, Host, Pumping
    <2>3. Sending(host[x], w, q)
        BY <1>4, <1>5, <2>1, <2>2 DEF Sending
    <2> QED
        BY <1>1, <1>2, <2>1, <2>2, <2>3 DEF Sound, Paired, Answering, Counted, Traced, Attended
<1>7. /\ UNCHANGED <<host, toWorker, permits>>
      /\ timed' \in SUBSET Programs /\ cuts' \in 0..MaxCuts
    BY Here DEF WorkerFinishes, outside
<1> HIDE DEF w
<1>8. Becomes(x, host[x], w, q, toWorker[x])
    BY <1>3, <1>5, <1>7, Here DEF Becomes
<1> QED
    BY <1>6, <1>8, StepAt

\* The answer finds a worker that waits for it, or none.
LEMMA ReplyAnswers ==
    ASSUME SandboxInv, NEW x \in Programs, At(x, "calling"), Reply(x)
    PROVE  \E r \in Seq(Frames) :
              /\ toWorker' = [toWorker EXCEPT ![x] = r]
              /\ worker[x].pc = "gone" => r = <<>>
              /\ worker[x].pc = "waiting" => r = <<[type |-> "rpc_result",
                     id |-> worker[x].made]>>
<1> DEFINE f == [type |-> "rpc_result", id |-> worker[x].made]
<1>1. /\ toWorker[x] = <<>> /\ worker[x].pc \in {"waiting", "gone"}
      /\ host[x].serving = worker[x].made /\ f \in Frames
    BY Here DEF At, Sound, Paired, Host, Pumping, Worker, Frames, Ids, NoId
<1>2. toWorker' = [toWorker EXCEPT ![x] = IF Lives(x) THEN Append(<<>>, f) ELSE <<>>]
    BY <1>1 DEF Reply
<1> HIDE DEF f
<1>3. <<f>> \in Seq(Frames) /\ <<>> \in Seq(Frames) /\ Append(<<>>, f) = <<f>>
    BY <1>1
<1>4. CASE worker[x].pc = "gone"
    BY <1>2, <1>3, <1>4 DEF Lives
<1>5. CASE worker[x].pc = "waiting"
    <2>1. toWorker' = [toWorker EXCEPT ![x] = <<f>>]
        BY <1>2, <1>3, <1>5 DEF Lives
    <2> QED
        BY <1>3, <1>5, <2>1 DEF f
<1> QED
    BY <1>1, <1>4, <1>5

LEMMA AnsweredKeeps ==
    ASSUME SandboxInv, NEW x \in Programs, Answered(x) PROVE SandboxInv'
<1> DEFINE h == [host[x] EXCEPT !.pc = "replying", !.log = host[x].log \cup {host[x].serving}]
<1>1. /\ host[x] \in Host /\ worker[x] \in Worker
      /\ Sound(host[x], worker[x], toHost[x], toWorker[x])
      /\ host[x].pc = "calling"
    BY Here DEF Answered, At
<1>2. host[x].serving \in Ids
    BY <1>1, Here DEF Sound, Paired, Traced, Counted, Ids, NoId, Host, Pumping, Worker
<1>3. h \in Host
    <2>1. host[x].log \cup {host[x].serving} \in SUBSET Ids
        BY <1>1, <1>2 DEF Host, Pumping
    <2> QED
        BY <1>1, <2>1 DEF Host, Pumping
<1>4. host' = [host EXCEPT ![x] = h]
    BY Here DEF Answered
<1>5. PICK r \in Seq(Frames) :
          /\ toWorker' = [toWorker EXCEPT ![x] = r]
          /\ worker[x].pc = "gone" => r = <<>>
          /\ worker[x].pc = "waiting" => r = <<[type |-> "rpc_result", id |-> worker[x].made]>>
    BY ReplyAnswers DEF Answered
<1>6. toHost[x] = <<>>
    BY <1>1 DEF Sound, Sending
<1>7. Sound(h, worker[x], toHost[x], r)
    <2>1. /\ h.pc = "replying" /\ h.log = host[x].log \cup {host[x].serving}
          /\ \A f \in {"how", "serving", "calls", "denied", "landed", "lost"} : h[f] = host[x][f]
        BY <1>1 DEF Host, Pumping
    <2> HIDE DEF h
    <2>2. worker[x].pc \in {"waiting", "gone"}
        BY <1>1 DEF Sound, Paired
    <2>3. Traced(h)
        BY <1>1, <2>1 DEF Sound, Traced
    <2>4. Paired(h, worker[x], toHost[x], r) /\ Answering(h, worker[x], toHost[x], r)
        <3>1. host[x].serving = worker[x].made
            BY <1>1 DEF Sound, Paired
        <3>2. CASE worker[x].pc = "gone"
            BY <1>5, <2>1, <3>2 DEF Paired, Answering
        <3>3. CASE worker[x].pc = "waiting"
            <4>1. r = <<[type |-> "rpc_result", id |-> worker[x].made]>>
                BY <1>5, <3>3
            <4>2. r # <<>>
                BY <4>1
            <4>3. Paired(h, worker[x], toHost[x], r)
                BY <2>1, <3>1, <3>3, <4>2 DEF Paired
            <4>4. Answering(h, worker[x], toHost[x], r)
                BY <1>6, <2>1, <3>3, <4>1 DEF Answering
            <4> QED
                BY <4>3, <4>4
        <3> QED
            BY <2>2, <3>2, <3>3
    <2> QED
        BY <1>1, <1>6, <2>1, <2>2, <2>3, <2>4 DEF Sound, Sending, Counted, Attended
<1>8. /\ UNCHANGED <<worker, toHost>> /\ timed' \in SUBSET Programs /\ cuts' \in 0..MaxCuts
      /\ permits' \in Nat /\ permits' + Held(h) = permits + Held(host[x])
    BY <1>1, Here DEF Answered, Held, outside
<1> HIDE DEF h
<1>9. Becomes(x, h, worker[x], toHost[x], r)
    BY <1>3, <1>4, <1>5, <1>8, Here DEF Becomes
<1> QED
    BY <1>7, <1>9, StepAt

\* The bridge never has to refuse: its count cannot have run ahead of the worker's.
LEMMA AdmitKeeps ==
    ASSUME SandboxInv, NEW x \in Programs, Admit(x) PROVE SandboxInv'
<1> DEFINE h == [host[x] EXCEPT !.pc = "calling", !.calls = host[x].calls + 1]
<1>1. /\ host[x] \in Host /\ worker[x] \in Worker
      /\ Sound(host[x], worker[x], toHost[x], toWorker[x])
      /\ host[x].pc = "queued"
    BY Here DEF Admit, At
<1>2. host[x].calls < MaxRpcCalls
    BY <1>1, Here DEF Sound, Paired, Counted, Host, Pumping, Worker
<1>3. h \in Host
    <2>1. host[x].calls + 1 \in 0..MaxRpcCalls
        BY <1>1, <1>2, Here DEF Host, Pumping
    <2> QED
        BY <1>1, <2>1 DEF Host, Pumping
<1>4. host' = [host EXCEPT ![x] = h] /\ UNCHANGED toWorker /\ permits' = permits - 1
    BY <1>2, Here DEF Admit
<1>5. Sound(h, worker[x], toHost[x], toWorker[x])
    BY <1>1, Here DEF Sound, Paired, Sending, Answering, Counted, Traced, Attended, Host,
           Pumping, Worker
<1>6. /\ UNCHANGED <<worker, toHost>> /\ timed' \in SUBSET Programs /\ cuts' \in 0..MaxCuts
      /\ permits > 0
    BY Here DEF Admit, outside
<1>7. permits' \in Nat /\ permits' + Held(h) = permits + Held(host[x])
    BY <1>1, <1>4, <1>6, Here DEF Held
<1> HIDE DEF h
<1>8. Becomes(x, h, worker[x], toHost[x], toWorker[x])
    BY <1>3, <1>4, <1>6, <1>7, Here DEF Becomes
<1> QED
    BY <1>5, <1>8, StepAt

LEMMA WorkerKeeps ==
    ASSUME SandboxInv, NEW x \in Programs, WorkerStep(x) PROVE SandboxInv'
<1>1. CASE WorkerDies(x)
    BY <1>1, EndsKeeps DEF WorkerDies
<1> QED
    BY <1>1, BootsKeeps, CallsKeeps, ReadsKeeps, FinishesKeeps DEF WorkerStep

LEMMA HostKeeps ==
    ASSUME SandboxInv, NEW x \in Programs, HostStep(x) PROVE SandboxInv'
<1>1. CASE Escalate(x)
    BY <1>1, EndsKeeps DEF Escalate
<1>2. CASE FrameFails(x) \/ ReceiveLong(x) \/ ReceiveNothing(x) \/ Drained(x)
    BY <1>2, InterruptsKeep
<1>3. CASE Spawned(x) \/ SpawnFails(x) \/ Sent(x) \/ Stopped(x)
    BY <1>3, SpawnedKeeps, SpawnFailsKeeps, SentKeeps, StoppedKeeps
<1>4. CASE ReceiveCall(x) \/ ReceiveDone(x) \/ Admit(x) \/ Replied(x)
    BY <1>4, ReceiveCallKeeps, ReceiveDoneKeeps, AdmitKeeps, RepliedKeeps
<1> QED
    BY <1>1, <1>2, <1>3, <1>4 DEF HostStep

LEMMA SandboxKeeps == SandboxInv /\ [SandboxNext]_sandboxVars => SandboxInv'
<1> SUFFICES ASSUME SandboxInv, [SandboxNext]_sandboxVars PROVE SandboxInv'
    OBVIOUS
<1>1. CASE UNCHANGED sandboxVars
    <2>1. SandboxTypeOK' /\ Kept'
        BY <1>1 DEF SandboxInv, SandboxTypeOK, Kept, Calling, At, sandboxVars
    <2>2. ASSUME NEW x \in Programs
          PROVE  Sound(host'[x], worker'[x], toHost'[x], toWorker'[x])
        BY <1>1 DEF SandboxInv, sandboxVars
    <2> QED
        BY <2>1, <2>2 DEF SandboxInv
<1>2. ASSUME NEW x \in Programs,
             \/ Execute(x) \/ HostStep(x) \/ Deadline(x) \/ ToolTimeout(x) \/ CutOff(x)
             \/ CallLands(x) \/ Answered(x) \/ WorkerStep(x)
      PROVE  SandboxInv'
    <2>1. CASE Execute(x)
        BY <2>1, ExecuteKeeps DEF Execute
    <2>2. CASE HostStep(x) \/ WorkerStep(x)
        BY <2>2, HostKeeps, WorkerKeeps
    <2>3. CASE Deadline(x) \/ ToolTimeout(x) \/ CutOff(x)
        BY <2>3, InterruptsKeep, TimeoutsKeep
    <2>4. CASE CallLands(x) \/ Answered(x)
        BY <2>4, CallLandsKeeps, AnsweredKeeps
    <2> QED
        BY <1>2, <2>1, <2>2, <2>3, <2>4
<1> QED
    BY <1>1, <1>2 DEF SandboxNext

\* SandboxInv is an invariant.
THEOREM SandboxInvHolds == SandboxSpec => []SandboxInv
<1>1. SandboxInit => SandboxInv
    BY SandboxStarts
<1>2. SandboxInv /\ [SandboxNext]_sandboxVars => SandboxInv'
    BY SandboxKeeps
<1> QED
    BY <1>1, <1>2, PTL DEF SandboxSpec

LEMMA PipesAreInStep == SandboxInv => PipesInStep
<1> SUFFICES ASSUME SandboxInv, NEW x \in Programs
             PROVE  /\ toWorker[x] # <<>> =>
                         /\ worker[x].pc = "waiting"
                         /\ toWorker[x] = <<[type |-> "rpc_result", id |-> worker[x].made]>>
                    /\ ~(/\ worker[x].pc = "waiting" /\ toWorker[x] = <<>>
                         /\ At(x, "reading") /\ toHost[x] = <<>>)
                    /\ host[x].denied = 0
    BY DEF SandboxInv, PipesInStep, AnswersMatch, NobodyWaits, LimitsAgree
<1> QED
    BY Here DEF At, Sound, Paired, Answering, Counted

\* PipesInStep, for any programs and limits: worker and host stay in step ("impossible
\* to desynchronise", worker.py) and count the calls alike.
THEOREM PipesAlwaysInStep == SandboxSpec => []PipesInStep
BY SandboxInvHolds, PipesAreInStep, PTL

LEMMA SandboxLeaksNothing == SandboxInv => NothingLeaks
<1> SUFFICES ASSUME SandboxInv PROVE NothingLeaks
    OBVIOUS
<1>1. PermitsAreKept
    BY DEF SandboxInv, Kept, Calling, PermitsAreKept
<1>2. ASSUME NEW x \in Programs, At(x, "over"), Lives(x)
      PROVE  worker[x].told /\ host[x].how = "cancelled"
    BY <1>2, Here DEF At, Lives, Sound, Attended
<1> QED
    BY <1>1, <1>2 DEF NothingLeaks, NoOrphan

\* NothingLeaks, for any programs and limits: no place of the semaphore is lost or given
\* back twice, and a worker outlives its execution only after a SIGTERM, if a cancellation
\* interrupted _terminate.
THEOREM NothingEverLeaks == SandboxSpec => []NothingLeaks
BY SandboxInvHolds, SandboxLeaksNothing, PTL

\* What is in the log of an execution are calls that its program made.
Logged == \A x \in Programs : host[x].log \subseteq 1..worker[x].made

\* No step takes a call back, and what a step logs is the call being served.
LEMMA LogFollows ==
    ASSUME SandboxInv, NEW x \in Programs,
           HostStep(x) \/ Execute(x) \/ Deadline(x) \/ ToolTimeout(x) \/ CutOff(x)
             \/ CallLands(x) \/ Answered(x) \/ WorkerStep(x)
    PROVE  /\ \A y \in Programs \ {x} : host'[y] = host[y] /\ worker'[y] = worker[y]
           /\ worker'[x].made \in {worker[x].made, worker[x].made + 1}
           /\ host'[x].log \subseteq host[x].log
                \cup (IF host[x].pc \in {"queued", "calling"} THEN {host[x].serving} ELSE {})
<1> USE DEF Host, Worker, At, Moves
<1> DEFINE Goal ==
        /\ \A y \in Programs \ {x} : host'[y] = host[y] /\ worker'[y] = worker[y]
        /\ worker'[x].made \in {worker[x].made, worker[x].made + 1}
        /\ host'[x].log \subseteq host[x].log
             \cup (IF host[x].pc \in {"queued", "calling"} THEN {host[x].serving} ELSE {})
<1>0. host \in [Programs -> Host] /\ worker \in [Programs -> Worker]
    BY Here
<1>1. CASE WorkerStep(x)
    <2>1. CASE WorkerBoots(x) \/ WorkerReads(x) \/ WorkerFinishes(x)
        BY <1>0, <2>1 DEF WorkerBoots, WorkerReads, WorkerFinishes
    <2>2. CASE WorkerCalls(x)
        BY <1>0, <2>2 DEF WorkerCalls
    <2>3. CASE WorkerDies(x)
        BY <1>0, <2>3 DEF WorkerDies, Ended
    <2> QED
        BY <1>1, <2>1, <2>2, <2>3 DEF WorkerStep
<1>2. ASSUME NEW how, NEW caught, Unwinds(x, how, caught) PROVE Goal
    BY <1>0, <1>2 DEF Unwinds
<1>3. CASE ToolTimeout(x) \/ CutOff(x)
    <2>1. Cancelled(x)
        BY <1>3 DEF ToolTimeout, CutOff
    <2>2. CASE Unwinds(x, "cancelled", FALSE)
        BY <1>2, <2>2
    <2>3. CASE /\ host' = [host EXCEPT ![x].pc = "over", ![x].how = "cancelled"]
               /\ worker' = worker
        BY <1>0, <2>3
    <2> QED
        BY <2>1, <2>2, <2>3 DEF Cancelled
<1>4. CASE Execute(x) \/ CallLands(x) \/ Answered(x)
    <2>1. CASE Execute(x)
        <3>1. PICK big \in BOOLEAN :
                 host' = [host EXCEPT ![x].pc = "spawning", ![x].big = big]
            BY <2>1 DEF Execute
        <3>2. worker' = worker
            BY <2>1 DEF Execute
        <3> QED
            BY <1>0, <3>1, <3>2
    <2>2. CASE CallLands(x)
        BY <1>0, <2>2 DEF CallLands
    <2>3. CASE Answered(x)
        BY <1>0, <2>3 DEF Answered
    <2> QED
        BY <1>4, <2>1, <2>2, <2>3
<1>5. CASE HostStep(x)
    <2>1. CASE FrameFails(x) \/ ReceiveLong(x) \/ ReceiveNothing(x) \/ Drained(x)
        BY <1>2, <2>1 DEF FrameFails, ReceiveLong, ReceiveNothing, Drained
    <2>2. CASE Spawned(x) \/ SpawnFails(x) \/ Sent(x) \/ Stopped(x)
        BY <1>0, <2>2 DEF Spawned, SpawnFails, Sent, Stopped
    <2>3. CASE ReceiveCall(x) \/ ReceiveDone(x) \/ Replied(x)
        <3>1. CASE ReceiveCall(x)
            <4> DEFINE id == Head(toHost[x]).id
            <4>1. /\ worker' = worker
                  /\ host' = [host EXCEPT ![x].pc = "queued", ![x].serving = id]
                BY <3>1 DEF ReceiveCall
            <4> HIDE DEF id
            <4> QED
                BY <1>0, <4>1
        <3>2. CASE ReceiveDone(x)
            BY <1>0, <3>2 DEF ReceiveDone
        <3>3. CASE Replied(x)
            BY <1>0, <3>3 DEF Replied
        <3> QED
            BY <2>3, <3>1, <3>2, <3>3
    <2>4. CASE Admit(x)
        BY <1>0, <2>4 DEF Admit
    <2>5. CASE Escalate(x)
        BY <1>0, <2>5 DEF Escalate, Ended
    <2> QED
        BY <1>5, <2>1, <2>2, <2>3, <2>4, <2>5 DEF HostStep
<1>6. CASE Deadline(x)
    BY <1>2, <1>6 DEF Deadline
<1> QED
    BY <1>1, <1>3, <1>4, <1>5, <1>6

LEMMA LogIsKept == SandboxInv /\ Logged /\ [SandboxNext]_sandboxVars => Logged'
<1> SUFFICES ASSUME SandboxInv, Logged, [SandboxNext]_sandboxVars PROVE Logged'
    OBVIOUS
<1>1. CASE UNCHANGED sandboxVars
    BY <1>1 DEF sandboxVars, Logged
<1>2. ASSUME NEW x \in Programs,
             HostStep(x) \/ Execute(x) \/ Deadline(x) \/ ToolTimeout(x) \/ CutOff(x)
               \/ CallLands(x) \/ Answered(x) \/ WorkerStep(x)
      PROVE  Logged'
    <2> DEFINE n == worker[x].made
               serving == IF host[x].pc \in {"queued", "calling"} THEN {host[x].serving} ELSE {}
    <2>1. /\ \A y \in Programs \ {x} : host'[y] = host[y] /\ worker'[y] = worker[y]
          /\ worker'[x].made \in {n, n + 1}
          /\ host'[x].log \subseteq host[x].log \cup serving
        BY <1>2, LogFollows
    <2>2. n \in Nat /\ host[x].log \subseteq 1..n
        BY Here DEF Logged, Worker
    <2>3. serving \subseteq 1..n
        <3>1. host[x].pc \in {"queued", "calling"} => host[x].serving = n
            BY Here DEF Sound, Paired
        <3>2. host[x].calls \in Nat
            <4>1. host[x] \in Host
                BY Here
            <4> QED
                BY <4>1, SandboxLimits DEF Host
        <3>3. host[x].pc \in {"queued", "calling"} => n > 0
            BY <2>2, <3>2, Here DEF Sound, Paired, Counted, Traced
        <3> HIDE DEF n
        <3> QED
            BY <2>2, <3>1, <3>3
    <2> HIDE DEF n, serving
    <2>4. host'[x].log \subseteq 1..worker'[x].made
        <3> DEFINE k == worker'[x].made
        <3>1. k \in {n, n + 1}
            BY <2>1
        <3> HIDE DEF k
        <3>2. (1..n) \subseteq (1..k)
            BY <2>2, <3>1
        <3>3. host'[x].log \subseteq 1..k
            BY <2>1, <2>2, <2>3, <3>2, Zenon
        <3> QED
            BY <3>3 DEF k
    <2> QED
        BY <2>1, <2>4 DEF Logged
<1> QED
    BY <1>1, <1>2 DEF SandboxNext

LEMMA LoggedHolds == SandboxSpec => []Logged
<1>1. SandboxInit => Logged
    BY DEF SandboxInit, Logged
<1> QED
    BY <1>1, LogIsKept, SandboxInvHolds, PTL DEF SandboxSpec

LEMMA CountIsRight == SandboxInv /\ Logged => CountIsHonest
<1> SUFFICES ASSUME SandboxInv, Logged, NEW x \in Programs, At(x, "over"),
                    host[x].how \in {"done", "timeout"}
             PROVE  /\ Cardinality(host[x].landed \ host[x].lost) <= Told(x).count
                    /\ Told(x).count <= worker[x].made
                    /\ host[x].landed # {} => Told(x).fenced
    BY DEF CountIsHonest
<1> DEFINE L == host[x].landed \ host[x].lost
           G == host[x].log
           n == worker[x].made
<1>1. L \subseteq G /\ G \subseteq 1..n /\ n \in Nat
    BY Here DEF At, Sound, Traced, Logged, Worker
<1>2. Told(x).fenced = (host[x].calls > 0) /\ (host[x].landed # {} => host[x].calls > 0)
    BY Here DEF Told, Sound, Traced
<1>3. Told(x).count \in {n, Cardinality(G)}
    BY DEF Told
<1> HIDE DEF L, G, n
<1>4. IsFiniteSet(1..n) /\ Cardinality(1..n) = n
    BY <1>1, FS_Interval
<1>5. IsFiniteSet(G) /\ Cardinality(G) <= n
    BY <1>1, <1>4, FS_Subset
<1>6. IsFiniteSet(L) /\ Cardinality(L) <= Cardinality(G)
    BY <1>1, <1>5, FS_Subset
<1>7. Cardinality(L) \in Nat /\ Cardinality(G) \in Nat
    BY <1>5, <1>6, FS_CardinalityType
<1>8. Cardinality(L) <= Told(x).count /\ Told(x).count <= n
    BY <1>1, <1>3, <1>5, <1>6, <1>7
<1> QED
    BY <1>2, <1>8 DEF L, n

\* CountIsHonest, for any programs and limits: the model is told of every call that
\* Telegram carried out for an execution that returns a result, but for the one the
\* deadline cut off (subprocess_runner.py, execute), and of none that was not made.
THEOREM CountIsAlwaysHonest == SandboxSpec => []CountIsHonest
BY SandboxInvHolds, LoggedHolds, CountIsRight, PTL
================================================================================
