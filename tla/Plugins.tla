-------------------------------- MODULE Plugins --------------------------------
(***************************************************************************)
(* The plugins of the agent: plugins.json and the plugins directory, which  *)
(* the listener and the command line both change (plugins/registry.py,      *)
(* install.py, interfaces/admin.py and cli.py), and the tools the listener  *)
(* has made of them (loader.py, tools/__init__.py, app.py).                 *)
(*                                                                         *)
(* A command reads the file and then writes it whole. Nothing else of its   *)
(* process runs in between, and anything of the other process may.          *)
(***************************************************************************)
EXTENDS Naturals, Sequences, FiniteSets

CONSTANTS
    Order,       \* the plugins, in the order they are loaded
    Builtins,    \* those that ship with the agent
    Versions,    \* what a repository may hold
    Shipped,     \* the code that ships with the agent
    Tools,
    Reserved,    \* the names of the core tools
    Offers,      \* the tools of every plugin in every version
    BuiltinsOn,  \* plugins.builtins_enabled
    MaxInstalled, MaxTools, \* plugins.max_installed, max_tools_per_plugin
    MaxCommands  \* bound: commands given

Names == {Order[i] : i \in DOMAIN Order}
Codes == Versions \cup {Shipped}

ASSUME PluginsAssumption ==
    /\ Order \in Seq(Names) /\ Builtins \subseteq Names
    /\ Shipped \notin Versions /\ Reserved \subseteq Tools
    /\ Offers \in [Names -> [Codes -> SUBSET Tools]]
    /\ BuiltinsOn \in BOOLEAN /\ {MaxInstalled, MaxTools, MaxCommands} \subseteq Nat

VARIABLES
    file,     \* plugins.json
    dir,      \* what lies in the plugins directory
    live,     \* the plugin tools in the registry of the listener
    tracked,  \* its _plugin_tools
    job,      \* the installation that a process has in progress
    edit,     \* the file it has read and is about to write
    boot,     \* history: the tools that were there when the listener started
    off,      \* history: the plugins that were switched off and left so
    asked,    \* history: the versions of every plugin that commands installed, until removed
    torn,     \* history: the plugins whose directory no finished command put there: it
              \* was cut off before it wrote their row, or came by hand under a row
    behind,   \* history: the listener has not loaded what the files say now
    blurred,  \* history: the plugins whose row was lost to an outdated write
    crowded,  \* history: an installation decided by an outdated file
    given     \* the commands given so far

files == <<file, dir>>
tools == <<live, tracked, boot>>
history == <<off, asked, torn, behind, blurred, crowded>>
vars == <<files, tools, job, edit, history, given>>

Procs == {"listener", "cli"}
None == <<>>

Configs == {"default", "set"}
Row == [builtin : BOOLEAN, enabled : BOOLEAN, config : Configs, ref : Versions \cup {None}]
File == [Names -> Row \cup {None}]
NoFile == [n \in Names |-> None]
Build == [plugin : Names, code : Codes, config : Configs]
Job == [seen : File, name : Names, code : Versions]
Verbs == {"on", "off", "set", "add", "remove"}
Edit == [seen : File, name : Names, verb : Verbs, row : Row \cup {None}]

TypeOK ==
    /\ file \in File
    /\ dir \in [Names -> Versions \cup {None}]
    /\ live \in [Tools -> Build \cup {None}]
    /\ tracked \in SUBSET Tools
    /\ job \in [Procs -> Job \cup {None}]
    /\ edit \in [Procs -> Edit \cup {None}]
    /\ boot \in SUBSET Tools
    /\ off \in SUBSET Names /\ asked \in [Names -> SUBSET Versions] /\ torn \in SUBSET Names
    /\ behind \in BOOLEAN /\ blurred \in SUBSET Names /\ crowded \in BOOLEAN
    /\ given \in 0..MaxCommands

--------------------------------------------------------------------------------
(* load_plugins: a plugin has the code that ships with the agent or lies in  *)
(* its directory, the row of the file or the default of _discover, and the   *)
(* tools nobody before it has taken.                                         *)

Fresh(n) == [builtin |-> n \in Builtins, enabled |-> n \in Builtins /\ BuiltinsOn,
             config |-> "default", ref |-> None]
\* Mutant: the default of InstalledPlugin, which is on.
RowOfEnabled(f, n) == IF f[n] = None THEN [Fresh(n) EXCEPT !.enabled = TRUE] ELSE f[n]
RowOf(f, n) == IF f[n] = None THEN Fresh(n) ELSE f[n]

CodeOf(d, n) == IF n \in Builtins THEN Shipped ELSE d[n]

\* A plugin that cannot be imported or lacks a requirement offers nothing.
Runs(f, d, n) == RowOf(f, n).enabled /\ CodeOf(d, n) # None
Offered(d, n) == Offers[n][CodeOf(d, n)]

\* The names that are taken when a plugin comes up, those of plugins that are left
\* out for having too many tools among them, and what it can still provide.
Taken(f, d, i) ==
    Reserved \cup UNION {Offered(d, Order[j]) : j \in {k \in 1..(i - 1) : Runs(f, d, Order[k])}}
Spare(f, d, i) == Offered(d, Order[i]) \ Taken(f, d, i)
Provides(f, d, i, t) ==
    /\ Runs(f, d, Order[i])
    /\ t \in Spare(f, d, i) /\ Cardinality(Spare(f, d, i)) <= MaxTools
BuildOf(f, d, n) ==
    [plugin |-> n, code |-> CodeOf(d, n), config |-> RowOf(f, n).config]

Loading(f, d) ==
    [t \in Tools |-> IF \E i \in DOMAIN Order : Provides(f, d, i, t)
                     THEN BuildOf(f, d, Order[CHOOSE i \in DOMAIN Order : Provides(f, d, i, t)])
                     ELSE None]

Provided(l) == {t \in Tools : l[t] # None}

\* Application.__init__ registers the tools and tracks none of them.
Boots(f, d) ==
    /\ live' = Loading(f, d)
    /\ tracked' = {} /\ boot' = Provided(Loading(f, d))

\* Mutant: the new tools are added and the old ones stay.
ReloadsAdding(f, d) ==
    /\ live' = [t \in Tools |-> IF t \in Provided(Loading(f, d)) THEN Loading(f, d)[t]
                                ELSE live[t]]
    /\ tracked' = Provided(Loading(f, d)) /\ boot' = boot

\* Application.reload_plugins.
Reloads(f, d) ==
    /\ live' = [t \in Tools |-> IF t \in Provided(Loading(f, d)) THEN Loading(f, d)[t]
                                ELSE IF t \in tracked THEN None ELSE live[t]]
    /\ tracked' = Provided(Loading(f, d)) /\ boot' = boot

Init ==
    /\ file = NoFile /\ dir = [n \in Names |-> None]
    /\ live = Loading(file, dir) /\ tracked = {} /\ boot = Provided(live)
    /\ job = [p \in Procs |-> None] /\ edit = [p \in Procs |-> None]
    /\ off = {} /\ asked = [n \in Names |-> {}] /\ torn = {} /\ behind = FALSE /\ blurred = {} /\ crowded = FALSE
    /\ given = 0

--------------------------------------------------------------------------------
(* The commands, whether they come from a chat or from the command line.     *)

Free(p) == edit[p] = None
Given == given < MaxCommands /\ given' = given + 1
\* The rows that an outdated file overwrites.
Lost(new, old) == {n \in Names : new[n] # old[n]}
Known(n) == file[n] # None \/ n \in Builtins
Begins(p, n, verb, row) ==
    edit' = [edit EXCEPT ![p] = [seen |-> file, name |-> n, verb |-> verb, row |-> row]]

\* `plugin on` and `off`. ensure_record gives a shipped plugin the row that the
\* switch needs; its write and that of set_enabled are one here.
Toggle(p, n, enabled) ==
    /\ Given /\ Free(p) /\ Known(n)
    /\ Begins(p, n, IF enabled THEN "on" ELSE "off",
              [RowOf(file, n) EXCEPT !.enabled = enabled])
    /\ UNCHANGED <<files, tools, job, history>>

\* Mutant: configuring a plugin writes its row anew.
ConfigureAnew(p, n, config) ==
    /\ Given /\ Free(p) /\ Known(n)
    /\ Begins(p, n, "set", [Fresh(n) EXCEPT !.enabled = TRUE, !.config = config])
    /\ UNCHANGED <<files, tools, job, history>>

\* `plugin set`.
Configure(p, n, config) ==
    /\ Given /\ Free(p) /\ Known(n)
    /\ Begins(p, n, "set", [RowOf(file, n) EXCEPT !.config = config])
    /\ UNCHANGED <<files, tools, job, history>>

\* `plugin remove`: a shipped plugin that has a row is switched off, of another
\* the directory is deleted before the row.
Remove(p, n) ==
    /\ Given /\ Free(p) /\ file[n] # None
    /\ IF file[n].builtin
       THEN /\ Begins(p, n, "off", [file[n] EXCEPT !.enabled = FALSE])
            /\ UNCHANGED <<dir, torn, behind>>
       ELSE /\ Begins(p, n, "remove", None)
            /\ dir' = [dir EXCEPT ![n] = None] /\ torn' = torn \ {n} /\ behind' = TRUE
    /\ UNCHANGED <<file, tools, job, off, asked, blurred, crowded>>

\* What has no row loses its directory and nothing else. So does a shipped plugin,
\* which the answer calls switched off.
RemoveUnlisted(p, n) ==
    /\ Given /\ Free(p) /\ file[n] = None
    /\ dir' = [dir EXCEPT ![n] = None] /\ torn' = torn \ {n}
    /\ IF p = "listener" THEN Reloads(file, dir') /\ behind' = FALSE
                         ELSE behind' = TRUE /\ UNCHANGED tools
    /\ UNCHANGED <<file, job, edit, off, asked, blurred, crowded>>

External(f) == {n \in Names : f[n] # None /\ ~f[n].builtin}
\* Mutant: one plugin too many.
RoomForOneMore(f, n) == f[n] # None \/ Cardinality(External(f)) <= MaxInstalled
Room(f, n) == f[n] # None \/ Cardinality(External(f)) < MaxInstalled

Ships(f, n) == f[n] # None /\ f[n].builtin

\* `plugin add`: install reads the file, clones, checks the manifest against what it
\* read and asks for the commit ...
Add(p, n, v) ==
    /\ Given /\ Free(p) /\ job[p] = None
    /\ Room(file, n) /\ ~Ships(file, n)
    /\ job' = [job EXCEPT ![p] = [seen |-> file, name |-> n, code |-> v]]
    /\ UNCHANGED <<files, tools, edit, history>>

ConfigOf(f, n) == RowOf(f, n).config

\* ... and moves the directory into its place, to write the row next.
Land(p) ==
    /\ Free(p) /\ job[p] # None
    /\ LET n == job[p].name IN
       /\ dir' = [dir EXCEPT ![n] = job[p].code] /\ torn' = torn \ {n}
       /\ Begins(p, n, "add", [builtin |-> FALSE, enabled |-> TRUE,
                               config |-> ConfigOf(job[p].seen, n), ref |-> job[p].code])
    /\ job' = [job EXCEPT ![p] = None]
    /\ behind' = TRUE
    /\ crowded' = (crowded \/ External(file) # External(job[p].seen))
    /\ UNCHANGED <<file, tools, off, asked, blurred, given>>

\* The repository cannot be cloned, has no manifest, or is refused.
AddFails(p) ==
    /\ Free(p) /\ job[p] # None
    /\ job' = [job EXCEPT ![p] = None]
    /\ UNCHANGED <<files, tools, edit, history, given>>

InFlight(n) == \E p \in Procs : job[p] # None /\ job[p].name = n

\* The directory of n has been moved to its place and its row is still to be written.
Landing(p, n) == edit[p] # None /\ edit[p].verb = "add" /\ edit[p].name = n
Landed(p) == {n \in Names : Landing(p, n)}

\* The command writes the file, and in the listener it reloads and answers.
Write(p) ==
    /\ ~Free(p)
    /\ LET n == edit[p].name IN
       /\ file' = [edit[p].seen EXCEPT ![n] = edit[p].row]
       /\ off' = CASE edit[p].verb = "set" -> off
                   [] edit[p].verb = "off" /\ ~InFlight(n) -> off \cup {n}
                   [] OTHER -> off \ {n}
       /\ asked' = [asked EXCEPT ![n] = CASE edit[p].verb = "add" -> @ \cup {edit[p].row.ref}
                                           [] edit[p].verb = "remove" -> {}
                                           [] OTHER -> @]
    /\ edit' = [edit EXCEPT ![p] = None]
    /\ blurred' = blurred \cup Lost(edit[p].seen, file)
    /\ IF p = "listener" THEN Reloads(file', dir) /\ behind' = FALSE
                         ELSE behind' = TRUE /\ UNCHANGED tools
    /\ UNCHANGED <<dir, job, torn, crowded, given>>

\* The write fails, before or after the file was truncated: a broken file reads
\* as an empty one. The command ends without a reload.
WriteFails(p) ==
    /\ ~Free(p)
    /\ file' \in {file, NoFile}
    /\ edit' = [edit EXCEPT ![p] = None]
    /\ behind' = TRUE /\ blurred' = blurred \cup Lost(file', file)
    /\ torn' = torn \cup Landed(p)
    /\ UNCHANGED <<dir, tools, job, off, asked, crowded, given>>

\* The command is killed before or while it writes, or the listener is restarted.
Kill ==
    /\ job["cli"] # None \/ edit["cli"] # None
    /\ file' \in IF Free("cli") THEN {file} ELSE {file, NoFile}
    /\ job' = [job EXCEPT !["cli"] = None] /\ edit' = [edit EXCEPT !["cli"] = None]
    /\ blurred' = blurred \cup Lost(file', file)
    /\ behind' = (behind \/ ~Free("cli")) /\ torn' = torn \cup Landed("cli")
    /\ UNCHANGED <<dir, tools, off, asked, crowded, given>>

Restart ==
    /\ file' \in IF Free("listener") THEN {file} ELSE {file, NoFile}
    /\ Boots(file', dir)
    /\ job' = [job EXCEPT !["listener"] = None]
    /\ edit' = [edit EXCEPT !["listener"] = None]
    /\ blurred' = blurred \cup Lost(file', file) /\ behind' = FALSE
    /\ torn' = torn \cup Landed("listener")
    /\ UNCHANGED <<dir, off, asked, crowded, given>>

\* Somebody puts a plugin into the directory by hand.
Drop(n, v) ==
    /\ Given /\ dir[n] = None
    /\ dir' = [dir EXCEPT ![n] = v] /\ behind' = TRUE
    /\ torn' = IF file[n] # None \/ \E p \in Procs : Landing(p, n) THEN torn \cup {n} ELSE torn
    /\ UNCHANGED <<file, tools, job, edit, off, asked, blurred, crowded>>

Command(p) ==
    \/ \E n \in Names : \/ \E enabled \in BOOLEAN : Toggle(p, n, enabled)
                        \/ \E config \in Configs : Configure(p, n, config)
                        \/ Remove(p, n)
                        \/ RemoveUnlisted(p, n)
                        \/ \E v \in Versions : Add(p, n, v)
    \/ Land(p) \/ AddFails(p)
    \/ Write(p) \/ WriteFails(p)

Next ==
    \/ \E p \in Procs : Command(p)
    \/ Kill \/ Restart
    \/ \E n \in Names, v \in Versions : Drop(n, v)

Spec == Init /\ [][Next]_vars

--------------------------------------------------------------------------------
(* What the plugins promise.                                                 *)

\* The listener offers what it would offer after a restart (reload_plugins), but
\* for what it registered when it started: as long as it made every change of the
\* files itself, and no write failed.
InStep ==
    /\ TypeOK
    /\ ~behind => \A t \in Tools :
                    \/ live[t] = Loading(file, dir)[t]
                    \/ Loading(file, dir)[t] = None /\ t \in boot

\* A plugin that was switched off stays off until it is switched on, installed or
\* removed (registry.py, "can be switched off without deleting anything"), if no
\* installation of it was in flight, and unless the file was overwritten or broken.
OffIsKept == \A n \in off \ blurred : ~RowOf(file, n).enabled

\* "Its tools are gone from my list" (admin.py:527): what is off is not offered, once the
\* listener has loaded what the files say. It is not so of what it registered when it
\* started.
OffIsGone ==
    ~behind => \A t \in Provided(live) : live[t].plugin \notin off \ blurred

\* Neither a core tool nor a plugin that ships is ever replaced by installed code
\* (loader.py, "names cannot be stolen").
NamesAreNotStolen ==
    \A t \in Provided(live) : t \notin Reserved /\ (live[t].plugin \in Builtins =>
                                                    live[t].code = Shipped)

\* A version of a plugin that does not ship runs only if a command that went through to
\* its end installed this version, or has moved it to its place and is about to write
\* its row (install.py:116-131), and nothing of it is left after a removal. Excepted is
\* what a failed or killed command, a hand in the directory under a row, or an outdated
\* write left behind. And what is loaded replaces nothing.
NothingUnasked ==
    /\ \A n \in Names \ (Builtins \cup blurred \cup torn) :
         Runs(file, dir, n) =>
            \/ dir[n] \in asked[n]
            \/ \E p \in Procs : Landing(p, n) /\ edit[p].row.ref = dir[n]
    /\ NamesAreNotStolen

\* The row says which commit is installed, "so 'what is running' has an answer"
\* (registry.py:39-40), whenever no command is at work. It is not so: install moves the
\* directory to its place before put can fail.
RefIsRunning ==
    (\A p \in Procs : Free(p)) =>
        \A n \in Names \ Builtins : Runs(file, dir, n) => dir[n] = file[n].ref

\* "A plugin found on disk starts switched off, so dropping a directory in place never
\* activates code by itself" (docs/plugins.md:255). It is not so where a removal that was
\* cut off left the row.
DiskStartsOff ==
    [][edit = [p \in Procs |-> None] /\ edit' = edit =>
         \A n \in Names \ Builtins : dir[n] = None /\ dir'[n] # None => ~Runs(file', dir', n)]_vars

\* install never exceeds plugins.max_installed, if nothing changed the file between
\* its look at it and its write.
LimitIsKept == ~crowded /\ blurred = {} => Cardinality(External(file)) <= MaxInstalled
===============================================================================
