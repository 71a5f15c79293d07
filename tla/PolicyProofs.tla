------------------------------ MODULE PolicyProofs -----------------------------
(***************************************************************************)
(* Theorems of Policy, for any names, tables, aliases, files and defaults.  *)
(***************************************************************************)
EXTENDS Policy, TLAPS

\* d is at least as strict as e.
AtLeast(d, e) == d = "deny" \/ e = "allow" \/ d = e

-----------------------------------------------------------------------------
(* The lookup.                                                              *)

LEMMA StrictestBounds ==
    ASSUME NEW ds \in SUBSET Decisions
    PROVE  /\ Strictest(ds) \in Decisions
           /\ \A d \in ds : AtLeast(Strictest(ds), d)
           /\ ds # {} => Strictest(ds) \in ds
  BY DEF Strictest, Decisions, AtLeast

LEMMA StrictestGrows ==
    ASSUME NEW ds \in SUBSET Decisions, NEW es \in SUBSET Decisions, ds \subseteq es
    PROVE  AtLeast(Strictest(es), Strictest(ds))
  BY DEF Strictest, Decisions, AtLeast

\* Whatever the overrides, a method has a verdict.
LEMMA DecideType ==
    ASSUME NEW ov \in Overrides, NEW m \in Names
    PROVE  /\ Classify(m) \in Tiers
           /\ {ov[n] : n \in Naming(ov, m)} \in SUBSET Decisions
           /\ {ov[n] : n \in Aliasing(ov, m)} \in SUBSET Decisions
           /\ Named(ov, m) \in Decisions
           /\ Decide(ov, m) \in Decisions
<1>1. Classify(m) \in Tiers
  BY DEF Classify, Tiers
<1>2. Defaults[Classify(m)] \in Decisions
  BY <1>1, PolicyAssumption
<1>3. {ov[n] : n \in Naming(ov, m)} \in SUBSET Decisions
  BY DEF Naming, Namesakes, Overrides
<1>4. {ov[n] : n \in Aliasing(ov, m)} \in SUBSET Decisions
  BY DEF Aliasing, Aliases, Overrides
<1>5. Named(ov, m) \in Decisions
  BY <1>2, <1>3, StrictestBounds DEF Named
<1>6. {Named(ov, m)} \cup {ov[n] : n \in Aliasing(ov, m)} \in SUBSET Decisions
  BY <1>4, <1>5
<1>7. Decide(ov, m) \in Decisions
  BY <1>6, StrictestBounds DEF Decide
<1> QED
  BY <1>1, <1>3, <1>4, <1>5, <1>7

\* "Dict iteration order must not decide": a deny under any name of a method
\* denies it, whatever is said under the others.
THEOREM NamedDenyDenies ==
    ASSUME NEW ov \in Overrides, NEW n \in Names, NEW m \in Names,
           ov[n] = "deny", Same(n, m)
    PROVE  Decide(ov, m) = "deny"
<1>1. n \in Naming(ov, m)
  BY DEF Naming, Namesakes, Unset
<1>2. Named(ov, m) = "deny"
  BY <1>1 DEF Named, Strictest
<1> QED
  BY <1>2 DEF Decide, Strictest

\* "Allowed to over-restrict but never to over-grant": what a policy says of one
\* method can only tighten the verdict on another, be it an alias of it, a
\* request of another namespace or none of both.
THEOREM OthersOnlyTighten ==
    ASSUME NEW ov \in Overrides, NEW n \in Names, NEW m \in Names, ~Same(n, m),
           NEW d \in Decisions \cup {Unset}
    PROVE  AtLeast(Decide([ov EXCEPT ![n] = d], m),
                   Decide([ov EXCEPT ![n] = Unset], m))
<1> DEFINE with == [ov EXCEPT ![n] = d]
           less == [ov EXCEPT ![n] = Unset]
           Ds(o) == {Named(o, m)} \cup {o[x] : x \in Aliasing(o, m)}
<1>1. with \in Overrides /\ less \in Overrides
  BY DEF Overrides
<1>2. \A x \in Names : x # n => with[x] = less[x]
  BY DEF Overrides
<1>3. Naming(with, m) = Naming(less, m)
  BY <1>2 DEF Naming, Namesakes
<1>4. \A x \in Naming(with, m) : with[x] = less[x]
  BY <1>2 DEF Naming, Namesakes
<1>5. {with[x] : x \in Naming(with, m)} = {less[x] : x \in Naming(less, m)}
  BY <1>3, <1>4
<1>6. Named(with, m) = Named(less, m)
  BY <1>3, <1>5 DEF Named
<1>7. \A x \in Aliasing(less, m) : x \in Aliasing(with, m) /\ with[x] = less[x]
  BY <1>2 DEF Aliasing, Aliases, Overrides, Unset
<1>8. Ds(less) \subseteq Ds(with)
  BY <1>6, <1>7
<1>9. Ds(less) \in SUBSET Decisions /\ Ds(with) \in SUBSET Decisions
  BY <1>1, DecideType
<1> QED
  BY <1>8, <1>9, StrictestGrows DEF Decide

-----------------------------------------------------------------------------
(* The invariant.                                                           *)

\* An operation that can lock the owner out is named in the chat file to be
\* denied only, and is never granted.
LockoutIsShut ==
    /\ \A n \in Names : KeyOf(n) \in Ungrantable => chat[n] \in {"deny", Unset}
    /\ \A g \in granted : KeyOf(g) \notin Ungrantable

\* What the engine holds under a name is what the operator's file said, unless
\* the name was used from a chat.
RulesAreKept ==
    \A n \in Names \ shadowed :
        /\ base[n] # Unset => live[n] = base[n]
        /\ base[n] = Unset /\ KeyOf(n) \in Ungrantable => live[n] \in {"deny", Unset}

FilesAgree == disturbed \/ (file = base /\ live = Overlay(file, chat))

\* No grant that was given since the process started is for a name that the operator's
\* file denies.
GrantsFit ==
    \A n \in Names \ shadowed : base[n] = "deny" =>
        \A g \in granted \ held : ~Same(n, g)

Inv == TypeOK /\ LockoutIsShut /\ RulesAreKept /\ FilesAgree /\ GrantsFit

\* A command that does not deny names a method that may be lifted.
LEMMA MaySetLockout ==
    ASSUME NEW n \in Names, NEW d \in Decisions, MaySet(n, d), KeyOf(n) \in Ungrantable
    PROVE  d = "deny"
  BY DEF MaySet, Liftable

LEMMA WordsAreDecisions ==
    ASSUME NEW word \in Verbs
    PROVE  DecisionOf(word) \in Decisions
  BY DEF Verbs, DecisionOf, Decisions

LEMMA TypeInit == Init => TypeOK
<1>1. NoOverrides \in Overrides
  BY DEF NoOverrides, Overrides
<1>2. Files \subseteq Overrides /\ 0 \in 0..MaxTrouble
  BY PolicyAssumption
<1> QED
  BY <1>1, <1>2 DEF Init, TypeOK

LEMMA TypeNext == TypeOK /\ [Next]_vars => TypeOK'
<1> SUFFICES ASSUME TypeOK, [Next]_vars PROVE TypeOK'
  OBVIOUS
<1> USE DEF TypeOK
<1>1. CASE Restart
  BY <1>1 DEF Restart, Overlay, Overrides, Listed
<1>2. ASSUME NEW n \in Names, NEW word \in Verbs, Set(n, DecisionOf(word))
      PROVE  TypeOK'
  <2>1. DecisionOf(word) \in Decisions
    BY WordsAreDecisions
  <2> QED
    BY <1>2, <2>1 DEF Set, Overrides, Listed
<1>3. ASSUME NEW n \in Names, Clear(n) PROVE TypeOK'
  BY <1>3 DEF Clear, Overrides, Listed
<1>4. ASSUME NEW n \in Names, NEW new \in Decisions \cup {Unset}, SaveFails(n, new)
      PROVE  TypeOK'
  <2>1. chat' \in Overrides
    BY <1>4 DEF SaveFails, Overrides
  <2>2. trouble' \in 0..MaxTrouble
    BY <1>4, PolicyAssumption DEF SaveFails, Troubled
  <2> QED
    BY <1>4, <2>1, <2>2 DEF SaveFails
<1>5. ASSUME NEW n \in Names, Grant(n) PROVE TypeOK'
  BY <1>5 DEF Grant
<1>6. CASE Ungrant
  BY <1>6 DEF Ungrant
<1>7. CASE EditFile
  <2>1. file' \in Overrides
    BY <1>7, PolicyAssumption DEF EditFile
  <2>2. trouble' \in 0..MaxTrouble
    BY <1>7, PolicyAssumption DEF EditFile, Troubled
  <2> QED
    BY <1>7, <2>1, <2>2 DEF EditFile
<1>8. CASE DeleteChatFile
  <2>1. chat' \in Overrides
    BY <1>8 DEF DeleteChatFile, NoOverrides, Overrides
  <2>2. trouble' \in 0..MaxTrouble
    BY <1>8, PolicyAssumption DEF DeleteChatFile, Troubled
  <2> QED
    BY <1>8, <2>1, <2>2 DEF DeleteChatFile
<1>9. CASE UNCHANGED vars
  BY <1>9 DEF vars
<1> QED
  BY <1>1, <1>2, <1>3, <1>4, <1>5, <1>6, <1>7, <1>8, <1>9 DEF Next

\* Every variable keeps its type.
THEOREM PolicyTypeCorrect == Spec => []TypeOK
  BY TypeInit, TypeNext, PTL DEF Spec

LEMMA InvInit == Init => Inv
<1> SUFFICES ASSUME Init PROVE Inv
  OBVIOUS
<1>1. TypeOK
  BY TypeInit
<1>2. LockoutIsShut
  BY DEF Init, LockoutIsShut, NoOverrides, Unset
<1>3. RulesAreKept
  BY DEF Init, RulesAreKept, Unset
<1>g. GrantsFit
  BY DEF Init, GrantsFit
<1>4. live = Overlay(file, chat)
  BY <1>1 DEF Init, Overlay, NoOverrides, Unset, TypeOK, Overrides
<1>5. FilesAgree
  BY <1>4 DEF Init, FilesAgree
<1> QED
  BY <1>1, <1>2, <1>3, <1>5, <1>g DEF Inv

\* A name that the file denies is denied by the engine, and so is every spelling of it: none
\* of them is granted.
LEMMA GrantIsForAnother ==
    ASSUME Inv, NEW g \in Names, Grant(g), NEW n \in Names \ shadowed, base[n] = "deny"
    PROVE  ~Same(n, g)
<1> SUFFICES ASSUME Same(n, g) PROVE FALSE
  OBVIOUS
<1>1. live[n] = "deny" /\ live \in Overrides
  BY DEF Inv, RulesAreKept, TypeOK, Unset
<1>2. Decide(live, g) = "deny"
  BY <1>1, NamedDenyDenies
<1>3. n \in Matched(g)
  BY <1>1 DEF Matched, Naming, Namesakes, Unset
<1> QED
  BY <1>2, <1>3 DEF Grant, Liftable

LEMMA GrantsNext == Inv /\ [Next]_vars => GrantsFit'
<1> SUFFICES ASSUME Inv, [Next]_vars PROVE GrantsFit'
  OBVIOUS
<1>0. GrantsFit /\ granted \subseteq Names
  BY DEF Inv, TypeOK
<1>1. CASE Restart
  BY <1>1 DEF Restart, GrantsFit
<1>2. ASSUME UNCHANGED <<granted, held, base>>, shadowed \subseteq shadowed' PROVE GrantsFit'
  BY <1>0, <1>2 DEF GrantsFit
<1>3. ASSUME NEW n \in Names, NEW word \in Verbs, Set(n, DecisionOf(word)) PROVE GrantsFit'
  BY <1>2, <1>3 DEF Set
<1>4. ASSUME NEW n \in Names, Clear(n) PROVE GrantsFit'
  BY <1>2, <1>4 DEF Clear
<1>5. ASSUME NEW n \in Names, NEW new \in Decisions \cup {Unset}, SaveFails(n, new)
      PROVE  GrantsFit'
  BY <1>2, <1>5 DEF SaveFails
<1>6. ASSUME NEW g \in Names, Grant(g) PROVE GrantsFit'
  <2>1. granted' = granted \cup {g} /\ UNCHANGED <<held, base, shadowed>>
    BY <1>6 DEF Grant
  <2> QED
    BY <1>0, <1>6, <2>1, GrantIsForAnother DEF GrantsFit
<1>7. CASE Ungrant
  BY <1>7 DEF Ungrant, GrantsFit
<1>8. CASE EditFile
  BY <1>2, <1>8 DEF EditFile
<1>9. CASE DeleteChatFile
  BY <1>2, <1>9 DEF DeleteChatFile
<1>10. CASE UNCHANGED vars
  BY <1>2, <1>10 DEF vars
<1> QED
  BY <1>1, <1>3, <1>4, <1>5, <1>6, <1>7, <1>8, <1>9, <1>10 DEF Next

LEMMA InvNext == Inv /\ [Next]_vars => Inv'
<1> SUFFICES ASSUME Inv, [Next]_vars PROVE (LockoutIsShut /\ RulesAreKept /\ FilesAgree)'
  BY TypeNext, GrantsNext DEF Inv
<1>0. TypeOK /\ TypeOK'
  BY TypeNext DEF Inv
<1> USE DEF Inv, Unset
<1>1. CASE Restart
  <2>1. LockoutIsShut'
    BY <1>1 DEF Restart, LockoutIsShut
  <2>2. RulesAreKept'
    BY <1>0, <1>1 DEF Restart, RulesAreKept, Overlay, Listed, LockoutIsShut
  <2>3. FilesAgree'
    BY <1>1 DEF Restart, FilesAgree, Overlay
  <2> QED
    BY <2>1, <2>2, <2>3
<1>2. ASSUME NEW n \in Names, NEW word \in Verbs, Set(n, DecisionOf(word))
      PROVE  (LockoutIsShut /\ RulesAreKept /\ FilesAgree)'
  <2> DEFINE d == DecisionOf(word)
  <2>1. d \in Decisions
    BY WordsAreDecisions
  <2>2. KeyOf(n) \in Ungrantable => d = "deny"
    BY <1>2, <2>1, MaySetLockout DEF Set
  <2>3. /\ chat' = [chat EXCEPT ![n] = d] /\ live' = [live EXCEPT ![n] = d]
        /\ shadowed' = shadowed \cup ({n} \cap Listed(base))
        /\ UNCHANGED <<file, granted, base, disturbed>>
    BY <1>2 DEF Set
  <2> HIDE DEF d
  <2>4. LockoutIsShut'
    BY <1>0, <2>2, <2>3 DEF LockoutIsShut, TypeOK, Overrides
  <2>5. RulesAreKept'
    BY <1>0, <2>2, <2>3 DEF RulesAreKept, Listed, TypeOK, Overrides
  <2>6. FilesAgree'
    <3>1. [live EXCEPT ![n] = d] = Overlay(file, [chat EXCEPT ![n] = d])
          \/ live # Overlay(file, chat)
      BY <1>0, <2>1 DEF Overlay, TypeOK, Overrides, Decisions
    <3> QED
      BY <2>3, <3>1 DEF FilesAgree, Overlay
  <2> QED
    BY <2>4, <2>5, <2>6
<1>3. ASSUME NEW n \in Names, Clear(n)
      PROVE  (LockoutIsShut /\ RulesAreKept /\ FilesAgree)'
  <2>1. LockoutIsShut'
    BY <1>0, <1>3 DEF Clear, LockoutIsShut, TypeOK, Overrides
  <2>2. RulesAreKept'
    BY <1>0, <1>3 DEF Clear, RulesAreKept, Listed, TypeOK, Overrides
  <2>3. FilesAgree'
    <3>1. CASE disturbed'
      BY <3>1 DEF FilesAgree
    <3>2. CASE ~disturbed'
      <4>1. ~disturbed /\ base[n] = Unset
        BY <1>0, <1>3, <3>2 DEF Clear, Listed, TypeOK
      <4>2. file = base /\ live = Overlay(file, chat)
        BY <4>1 DEF FilesAgree
      <4>3. [live EXCEPT ![n] = Unset] = Overlay(file, [chat EXCEPT ![n] = Unset])
        BY <1>0, <4>1, <4>2 DEF Overlay, TypeOK, Overrides
      <4> QED
        BY <1>3, <4>2, <4>3 DEF Clear, FilesAgree, Overlay
    <3> QED
      BY <3>1, <3>2
  <2> QED
    BY <2>1, <2>2, <2>3
<1>4. ASSUME NEW n \in Names, NEW new \in Decisions \cup {Unset}, SaveFails(n, new)
      PROVE  (LockoutIsShut /\ RulesAreKept /\ FilesAgree)'
  <2>1. KeyOf(n) \in Ungrantable => new \in {"deny", Unset}
    BY <1>4, MaySetLockout DEF SaveFails
  <2>2. LockoutIsShut'
    BY <1>0, <1>4, <2>1 DEF SaveFails, LockoutIsShut
  <2> QED
    BY <1>4, <2>2 DEF SaveFails, RulesAreKept, FilesAgree
<1>5. ASSUME NEW n \in Names, Grant(n)
      PROVE  (LockoutIsShut /\ RulesAreKept /\ FilesAgree)'
  BY <1>5 DEF Grant, Liftable, LockoutIsShut, RulesAreKept, FilesAgree, Overlay
<1>6. CASE Ungrant
  BY <1>6 DEF Ungrant, LockoutIsShut, RulesAreKept, FilesAgree, Overlay
<1>7. CASE EditFile
  BY <1>7 DEF EditFile, LockoutIsShut, RulesAreKept, FilesAgree
<1>8. CASE DeleteChatFile
  BY <1>8 DEF DeleteChatFile, NoOverrides, LockoutIsShut, RulesAreKept, FilesAgree
<1>9. CASE UNCHANGED vars
  BY <1>9 DEF vars, LockoutIsShut, RulesAreKept, FilesAgree, Overlay
<1> QED
  BY <1>1, <1>2, <1>3, <1>4, <1>5, <1>6, <1>7, <1>8, <1>9 DEF Next

LEMMA InvHolds == Spec => []Inv
  BY InvInit, InvNext, PTL DEF Spec

-----------------------------------------------------------------------------
(* What follows.                                                            *)

\* FileDenyHolds, for any policy: a deny in the operator's file refuses the method in every
\* spelling, but to a run with a grant that is older than the process or for a request of
\* another namespace (authorize).
THEOREM FileDenyIsKept == Spec => []FileDenyHolds
<1>1. Inv => FileDenyHolds
  <2> SUFFICES ASSUME Inv, NEW n \in Names \ shadowed, base[n] = "deny",
                      NEW m \in Names, Same(n, m)
               PROVE  \/ Unattended(m) = "deny"
                      \/ \E g \in granted : KeyOf(g) = KeyOf(m) /\ (g \in held \/ ~Same(n, g))
    BY DEF FileDenyHolds
  <2>1. live[n] = "deny" /\ live \in Overrides
    BY DEF Inv, RulesAreKept, TypeOK, Unset
  <2>2. Decide(live, m) = "deny"
    BY <2>1, NamedDenyDenies
  <2>3. CASE ~Covered(m)
    BY <2>2, <2>3 DEF Unattended, WithNobody
  <2>4. CASE Covered(m)
    <3>1. PICK g \in granted : KeyOf(g) = KeyOf(m)
      BY <2>4 DEF Covered
    <3>2. g \in held \/ ~Same(n, g)
      BY DEF Inv, GrantsFit
    <3> QED
      BY <3>1, <3>2
  <2> QED
    BY <2>3, <2>4
<1> QED
  BY <1>1, InvHolds, PTL

\* What is in force is what a restart would read.
THEOREM RestartAgrees == Spec => []RestartChangesNothing
<1>1. Inv => RestartChangesNothing
  BY DEF Inv, FilesAgree, RestartChangesNothing
<1> QED
  BY <1>1, InvHolds, PTL

\* No operation that can lock the owner out is opened to an unattended run.
THEOREM LockoutStaysShut == Spec => []LockoutIsKept
<1>1. Inv => LockoutIsKept
  <2> SUFFICES ASSUME Inv, NEW m \in Names, KeyOf(m) \in Ungrantable,
                      \A n \in shadowed : ~Same(n, m) /\ ~Alias(n, m),
                      Unattended(m) = "allow"
               PROVE  WithNobody(Decide(base, m)) = "allow"
    BY DEF LockoutIsKept
  <2> DEFINE Ds(o) == {Named(o, m)} \cup {o[x] : x \in Aliasing(o, m)}
  <2>0. live \in Overrides /\ base \in Overrides /\ granted \subseteq Names
    BY DEF Inv, TypeOK
  <2>1. WithNobody(Decide(live, m)) = "allow"
    BY DEF Unattended, Covered, Inv, LockoutIsShut
  <2>2. Decide(live, m) # "deny"
    BY <2>1 DEF WithNobody
  <2>3. \A x \in Names : Same(x, m) => x \notin shadowed /\ KeyOf(x) = KeyOf(m)
    BY DEF Same
  <2>4. \A x \in Names : Same(x, m) => live[x] # "deny"
    BY <2>0, <2>2, NamedDenyDenies
  <2>5. \A x \in Names : Same(x, m) => live[x] = base[x]
    BY <2>3, <2>4 DEF Inv, RulesAreKept
  <2>6. /\ Naming(live, m) = Naming(base, m)
        /\ \A x \in Naming(base, m) : live[x] = base[x]
    BY <2>5 DEF Naming, Namesakes
  <2>7. {live[x] : x \in Naming(live, m)} = {base[x] : x \in Naming(base, m)}
    BY <2>6
  <2>8. Named(live, m) = Named(base, m)
    BY <2>6, <2>7 DEF Named
  <2>9. \A x \in Aliasing(base, m) : x \in Aliasing(live, m) /\ live[x] = base[x]
    BY DEF Aliasing, Aliases, Inv, RulesAreKept
  <2>10. Ds(base) \subseteq Ds(live)
    BY <2>8, <2>9
  <2>11. Ds(base) \in SUBSET Decisions /\ Ds(live) \in SUBSET Decisions
    BY <2>0, DecideType
  <2>12. AtLeast(Decide(live, m), Decide(base, m))
    BY <2>10, <2>11, StrictestGrows DEF Decide
  <2>13. Decide(live, m) \in Decisions /\ Decide(base, m) \in Decisions
    BY <2>0, DecideType
  <2> QED
    BY <2>1, <2>2, <2>12, <2>13 DEF AtLeast, WithNobody, Decisions
<1> QED
  BY <1>1, InvHolds, PTL
=============================================================================
