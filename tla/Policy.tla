--------------------------------- MODULE Policy --------------------------------
(***************************************************************************)
(* The permission policy of TGAGENT: how security/permissions.py gives a    *)
(* verdict on a method from the operator's file, from what was set in a     *)
(* chat (interfaces/admin.py, config/policy.py) and from what a scheduled   *)
(* task was granted (tools/schedule_tools.py).                              *)
(*                                                                         *)
(* A method has many names.  A name stands for itself as a key of the       *)
(* overrides; its namespace and bare name are what normalise_method reads   *)
(* in it, and Strip removes what tells two spellings of one method apart.   *)
(* The commands of a chat are answered between runs, and nothing awaits in  *)
(* them: each is one step.                                                  *)
(***************************************************************************)
EXTENDS Naturals, FiniteSets

CONSTANTS
    Names,               \* method names, as a policy or a call writes them
    Bares,               \* bare names and comparison keys
    NsOf, BareOf,        \* the namespace ("" when it has none) and bare name of a name
    Strip,               \* a bare name without its separators
    Wraps,               \* _FRIENDLY_ALIASES, as pairs of keys
    SecurityNamespaces, PlainReads, Table, ReadShaped, \* what classify looks at
    Ungrantable,         \* _UNGRANTABLE_METHODS
    Defaults,            \* permissions.defaults
    Fallback,            \* permissions.non_interactive_decision
    Files,               \* what the operator's policy file may say
    Rank,                \* the order of names in policy.chat.yaml, which is sorted
    MaxGrants,           \* bound: grants of the task
    MaxTrouble           \* bound: edits of a file at a terminal, failed writes

Decisions == {"allow", "confirm", "deny"}
Unset == "unset"
Overrides == [Names -> Decisions \cup {Unset}]
NoOverrides == [n \in Names |-> Unset]
Tiers == {"read_only", "reversible", "externally_visible", "destructive",
          "account_security"}

ASSUME PolicyAssumption ==
    /\ NsOf \in [Names -> STRING]
    /\ BareOf \in [Names -> Bares]
    /\ Strip \in [Bares -> Bares]
    /\ Wraps \subseteq Bares \X Bares
    /\ SecurityNamespaces \subseteq STRING /\ PlainReads \subseteq Names
    /\ Table \in [Tiers -> SUBSET Bares]
    /\ ReadShaped \subseteq Bares /\ Ungrantable \subseteq Bares
    /\ Defaults \in [Tiers -> Decisions] /\ Fallback \in Decisions
    /\ Files \subseteq Overrides
    /\ Rank \in [Names -> Nat]
    /\ {MaxGrants, MaxTrouble} \subseteq Nat

VARIABLES
    file,      \* method_overrides of the operator's policy file
    chat,      \* method_overrides of policy.chat.yaml
    live,      \* method_overrides of the engine of the running process
    granted,   \* the grants stored with a scheduled task
    held,      \* history: the grants that it had when the process started
    base,      \* history: the operator's file as the process read it
    shadowed,  \* history: names set from a chat although the file lists them
    disturbed, \* history: a file changed and the process was not told
    trouble    \* how much of MaxTrouble is used

vars == <<file, chat, live, granted, held, base, shadowed, disturbed, trouble>>

KeyOf(n) == Strip[BareOf[n]]
Known == UNION {Table[t] : t \in Tiers}

--------------------------------------------------------------------------------
(* The verdict of the engine.                                               *)

\* The tables, most severe first; a name that is in none is a read if it looks
\* like one, and destructive otherwise.
Classify(n) ==
    LET In(t) == BareOf[n] \in Table[t] IN
    IF NsOf[n] \in SecurityNamespaces \/ In("account_security")
    THEN IF n \in PlainReads THEN "read_only" ELSE "account_security"
    ELSE IF In("destructive") THEN "destructive"
    ELSE IF In("externally_visible") THEN "externally_visible"
    ELSE IF In("reversible") THEN "reversible"
    ELSE IF In("read_only") \/ BareOf[n] \in ReadShaped THEN "read_only"
    ELSE "destructive"

Strictest(ds) == IF "deny" \in ds THEN "deny"
                 ELSE IF "confirm" \in ds THEN "confirm" ELSE "allow"

\* An override n names the method of a call m: the keys agree, and so do the
\* namespaces when both have one.
Same(n, m) ==
    /\ KeyOf(n) = KeyOf(m)
    /\ NsOf[n] # "" /\ NsOf[m] # "" => NsOf[n] = NsOf[m]

\* A friendly method and a request it may issue, either way; the namespace of
\* the override is not looked at.
Alias(n, m) == /\ KeyOf(n) # KeyOf(m)
               /\ \/ <<KeyOf(n), KeyOf(m)>> \in Wraps
                  \/ <<KeyOf(m), KeyOf(n)>> \in Wraps

\* Mutant: an override governs the calls that are spelled as it is.
NamingVerbatim(ov, m) == {n \in Names : ov[n] # Unset /\ n = m}

\* The names that may stand for a method in the rules (tables, for TLC's sake).
Namesakes == [m \in Names |-> {n \in Names : Same(n, m)}]
Aliases == [m \in Names |-> {n \in Names : Alias(n, m)}]

Naming(ov, m) == {n \in Namesakes[m] : ov[n] # Unset}

Aliasing(ov, m) == {n \in Aliases[m] : ov[n] # Unset}

\* What the overrides that name a method say, or the default of its tier.
Named(ov, m) == IF Naming(ov, m) = {} THEN Defaults[Classify(m)]
                ELSE Strictest({ov[n] : n \in Naming(ov, m)})

\* _lookup_decision: an alias may tighten that, never loosen it.
Decide(ov, m) == Strictest({Named(ov, m)} \cup {ov[n] : n \in Aliasing(ov, m)})

\* RunGrants.covers: namespaces are not compared.
Covered(m) == \E g \in granted : KeyOf(g) = KeyOf(m)

WithNobody(d) == IF d = "confirm" THEN Fallback ELSE d

\* authorize, for a run of the task, of which the chat lists, read_only_mode and
\* the budget do not refuse the call (AgentRun has these).
Unattended(m) == IF Covered(m) THEN "allow" ELSE WithNobody(Decide(live, m))

--------------------------------------------------------------------------------
(* What may be loosened.                                                    *)

\* Mutant: only rules are looked at.
LiftableUnlessDenied(n, matched) == ~(matched # {} /\ Decide(live, n) = "deny")

\* Mutant: only the lock-out operations are looked at.
LiftableUnlessLockout(n, matched) == KeyOf(n) \notin Ungrantable

\* grantable: not what can lock the owner out, and not what a rule denies.
Liftable(n, matched) ==
    /\ KeyOf(n) \notin Ungrantable
    /\ ~(matched # {} /\ Decide(live, n) = "deny")

Matched(n) == Naming(live, n) \cup Aliasing(live, n)
\* _operators_view: the rules that were not set from a chat, by name.
OperatorsView(n) == {x \in Matched(n) : chat[x] = Unset}

IsUnknown(n) == /\ KeyOf(n) \notin Known /\ BareOf[n] \notin Known
                /\ Classify(n) = "destructive"

--------------------------------------------------------------------------------
TypeOK ==
    /\ {file, chat, live, base} \subseteq Overrides
    /\ granted \subseteq Names /\ held \subseteq Names /\ shadowed \subseteq Names
    /\ disturbed \in BOOLEAN
    /\ trouble \in 0..MaxTrouble

\* apply_policy: the chat layer comes last and wins.
Overlay(under, over) == [n \in Names |-> IF over[n] = Unset THEN under[n] ELSE over[n]]
Listed(ov) == {n \in Names : ov[n] # Unset}

Init ==
    /\ file \in Files
    /\ chat = NoOverrides /\ live = file /\ base = file
    /\ granted = {} /\ held = {} /\ shadowed = {}
    /\ disturbed = FALSE /\ trouble = 0

\* resolve_permissions and a new engine.
Restart ==
    /\ live' = Overlay(file, chat)
    /\ base' = file /\ held' = granted
    /\ shadowed' = Listed(chat) \cap Listed(file)
    /\ disturbed' = FALSE
    /\ UNCHANGED <<file, chat, granted, trouble>>

--------------------------------------------------------------------------------
(* `agent policy`.                                                          *)

\* _DECISIONS, one word for each.
Verbs == {"add", "ask", "block"}
DecisionOf(word) == CASE word = "add"   -> "allow"
                      [] word = "ask"   -> "confirm"
                      [] word = "block" -> "deny"

\* Tightening is free; the rest must be liftable and a method that exists.
MaySet(n, d) == d # "deny" => Liftable(n, OperatorsView(n)) /\ ~IsUnknown(n)

\* _set, once save_chat_override has written the file.
Set(n, d) ==
    /\ MaySet(n, d)
    /\ chat' = [chat EXCEPT ![n] = d]
    /\ live' = [live EXCEPT ![n] = d]
    /\ shadowed' = shadowed \cup ({n} \cap Listed(base))
    /\ UNCHANGED <<file, granted, held, base, disturbed, trouble>>

\* Mutant: the entry stays in the engine.
ClearStored(n) ==
    /\ chat[n] # Unset
    /\ chat' = [chat EXCEPT ![n] = Unset]
    /\ UNCHANGED <<file, live, granted, held, base, shadowed, disturbed, trouble>>

\* _clear.  The engine forgets the name, the operator's own rule included.
Clear(n) ==
    /\ chat[n] # Unset
    /\ chat' = [chat EXCEPT ![n] = Unset]
    /\ live' = [live EXCEPT ![n] = Unset]
    /\ shadowed' = shadowed \cup ({n} \cap Listed(base))
    /\ disturbed' = (disturbed \/ n \in Listed(base))
    /\ UNCHANGED <<file, granted, held, base, trouble>>

Troubled == trouble < MaxTrouble /\ trouble' = trouble + 1

\* write_text fails: the error is told and the engine left alone, but the file
\* has been truncated and holds the entries that were written before.
SaveFails(n, new) ==
    /\ Troubled
    /\ new \in Decisions => MaySet(n, new)
    /\ new = Unset => chat[n] # Unset
    /\ \E r \in {Rank[x] : x \in Names} :
         chat' = [x \in Names |-> IF Rank[x] >= r THEN Unset
                                  ELSE IF x = n THEN new ELSE chat[x]]
    /\ disturbed' = TRUE
    /\ UNCHANGED <<file, live, granted, held, base, shadowed>>

--------------------------------------------------------------------------------
(* Grants, and the operator at a terminal.                                  *)

\* schedule_create: what an unattended run would be refused is offered to the
\* owner, who says yes.
Grant(n) ==
    /\ n \notin granted /\ Cardinality(granted) < MaxGrants
    /\ WithNobody(Decide(live, n)) # "allow"
    /\ Liftable(n, Matched(n))
    /\ granted' = granted \cup {n}
    /\ UNCHANGED <<file, chat, live, held, base, shadowed, disturbed, trouble>>

\* The task is deleted.
Ungrant ==
    /\ granted # {} /\ granted' = {} /\ held' = {}
    /\ UNCHANGED <<file, chat, live, base, shadowed, disturbed, trouble>>

EditFile ==
    /\ Troubled
    /\ file' \in Files \ {file}
    /\ disturbed' = TRUE
    /\ UNCHANGED <<chat, live, granted, held, base, shadowed>>

\* "Delete it to revoke everything granted remotely."
DeleteChatFile ==
    /\ Troubled
    /\ chat # NoOverrides /\ chat' = NoOverrides
    /\ disturbed' = TRUE
    /\ UNCHANGED <<file, live, granted, held, base, shadowed>>

Next ==
    \/ Restart
    \/ \E n \in Names :
         \/ \E word \in Verbs : Set(n, DecisionOf(word))
         \/ Clear(n)
         \/ \E new \in Decisions \cup {Unset} : SaveFails(n, new)
         \/ Grant(n)
    \/ Ungrant \/ EditFile \/ DeleteChatFile

Spec == Init /\ [][Next]_vars

--------------------------------------------------------------------------------
(* Properties.                                                              *)

\* "It can only loosen what it may": no sequence of commands, grants, lost files
\* and restarts opens an operation that can lock the owner out, unless the
\* operator's own file did or the rule that keeps it shut was named from a chat.
LockoutIsKept ==
    \A m \in Names :
        /\ KeyOf(m) \in Ungrantable
        /\ \A n \in shadowed : ~Same(n, m) /\ ~Alias(n, m)
        /\ Unattended(m) = "allow"
        => WithNobody(Decide(base, m)) = "allow"

\* A deny in the operator's file refuses the method in every spelling to a run that
\* nobody watches, whatever is set or reset under other names of it; the rule is lost to
\* a chat only under the very name it is written with. What may overrule it is a grant
\* that the task had before the process read the rule, or one for a request of another
\* namespace with the same key (permissions.py:763, which does not compare namespaces):
\* none that was given since for a name that the rule is about (grantable).
FileDenyHolds ==
    \A n \in Names \ shadowed : base[n] = "deny" =>
        \A m \in Names : Same(n, m) =>
            \/ Unattended(m) = "deny"
            \/ \E g \in granted : KeyOf(g) = KeyOf(m) /\ (g \in held \/ ~Same(n, g))

\* A grant "cannot lift an explicit `method_overrides: ... deny`" (docs/permissions.md:232).
\* It is not so: authorize looks at the grants after the rules and at their keys only.
GrantLiftsNoDeny ==
    \A n \in Names \ shadowed : base[n] = "deny" =>
        \A m \in Names : Same(n, m) => Unattended(m) = "deny"

\* A chat can loosen "not a method your own `policy.yaml` denies by name"
\* (docs/telegram-control.md:238). It is not so: a name that the chat has set before, or
\* resets, is no longer the operator's (admin.py:182, :207).
LooseningIsBounded == \A n \in Names : base[n] = "deny" => Decide(live, n) = "deny"

\* "In force now, and after a restart": what the process decides by is what its
\* successor will read, unless a file changed behind its back or a reset took
\* the operator's own rule from the engine.
RestartChangesNothing == disturbed \/ live = Overlay(file, chat)
================================================================================
