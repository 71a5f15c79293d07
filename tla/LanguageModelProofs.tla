-------------------------- MODULE LanguageModelProofs --------------------------
(***************************************************************************)
(* What the runs send to the model, and what they get back.                  *)
(*                                                                         *)
(* Transcript: however many runs use a conversation, one after another, with *)
(* whatever limits, crashes and writes that are lost, either service is sent *)
(* only calls with their results, and what a run sees is what is kept.       *)
(*                                                                         *)
(* LanguageModel: for any number of runs, keys, values, clients, retries,    *)
(* calls and pieces, the settings in force are those of the file, a run      *)
(* talks to the model that was set when it began, and a streamed answer is   *)
(* what was sent.                                                           *)
(***************************************************************************)
EXTENDS LanguageModel, Transcript, FiniteSetTheorems, FunctionTheorems, SequenceTheorems,
        WellFoundedInduction, TLAPS

--------------------------------------------------------------------------------
(* Numbers in order, and the places of a list that are kept (Order).          *)

LEMMA BelowIsFinite ==
    ASSUME NEW S \in SUBSET Nat, IsFiniteSet(S), NEW x
    PROVE  IsFiniteSet(Below(S, x)) /\ Cardinality(Below(S, x)) \in Nat
<1>1. Below(S, x) \in SUBSET S
    BY DEF Below
<1> QED
    BY <1>1, FS_Subset, FS_CardinalityType

\* A number has more numbers below it than a smaller one.
LEMMA RanksGrow ==
    ASSUME NEW S \in SUBSET Nat, IsFiniteSet(S), NEW x \in S, NEW y \in Nat, x < y
    PROVE  Cardinality(Below(S, x)) + 1 <= Cardinality(Below(S, y))
<1> DEFINE A == Below(S, x)
           B == Below(S, y)
<1>1. IsFiniteSet(A) /\ IsFiniteSet(B) /\ Cardinality(A) \in Nat /\ Cardinality(B) \in Nat
    BY BelowIsFinite
<1>2. x \notin A /\ A \cup {x} \in SUBSET B
    <2>1. x \notin A /\ x \in B
        BY DEF Below
    <2>2. ASSUME NEW z \in A PROVE z \in B
        <3>1. z \in S /\ z \in Nat /\ z < x /\ x \in Nat
            BY <2>2 DEF Below
        <3>2. z < y
            BY <3>1
        <3> QED
            BY <3>1, <3>2 DEF Below
    <2> QED
        BY <2>1, <2>2
<1> HIDE DEF A, B
<1>3. Cardinality(A \cup {x}) = Cardinality(A) + 1
    BY <1>1, <1>2, FS_AddElement
<1>4. Cardinality(A \cup {x}) <= Cardinality(B)
    BY <1>1, <1>2, FS_Subset
<1>5. Cardinality(A) + 1 <= Cardinality(B)
    BY <1>3, <1>4
<1> QED
    BY <1>5 DEF A, B

LEMMA RankIsPlace ==
    ASSUME NEW S \in SUBSET Nat, IsFiniteSet(S), NEW x \in S
    PROVE  Cardinality(Below(S, x)) + 1 \in 1..Cardinality(S)
<1> DEFINE A == Below(S, x)
<1>1. IsFiniteSet(A) /\ Cardinality(A) \in Nat
    BY BelowIsFinite
<1>2. x \notin A /\ A \cup {x} \in SUBSET S
    BY DEF Below
<1> HIDE DEF A
<1>3. Cardinality(A \cup {x}) = Cardinality(A) + 1
    BY <1>1, <1>2, FS_AddElement
<1>4. Cardinality(A \cup {x}) <= Cardinality(S)
    BY <1>2, FS_Subset
<1>5. Cardinality(S) \in Nat
    BY FS_CardinalityType
<1> QED
    BY <1>1, <1>3, <1>4, <1>5 DEF A

\* Every number of S is the n-th of it for the n that its rank says.
LEMMA NthOfRank ==
    ASSUME NEW S \in SUBSET Nat, IsFiniteSet(S), NEW x \in S
    PROVE  Nth(S, Cardinality(Below(S, x)) + 1) = x
<1> DEFINE n == Cardinality(Below(S, x)) + 1
           At(y) == Cardinality(Below(S, y)) = n - 1
<1>0. \A y \in S : Cardinality(Below(S, y)) \in Nat
    BY BelowIsFinite
<1>1. At(x)
    BY <1>0
<1>2. ASSUME NEW y \in S, At(y) PROVE y = x
    <2>1. ~(y < x)
        BY <1>0, <1>2, RanksGrow
    <2>2. ~(x < y)
        BY <1>0, <1>2, RanksGrow
    <2> QED
        BY <2>1, <2>2
<1>3. Nth(S, n) = CHOOSE y \in S : At(y)
    BY DEF Nth
<1> HIDE DEF At, n
<1>4. Nth(S, n) = x
    BY <1>1, <1>2, <1>3
<1> QED
    BY <1>4 DEF n

\* There is an n-th number for every n up to how many there are.
LEMMA NthIsThere ==
    ASSUME NEW S \in SUBSET Nat, IsFiniteSet(S), NEW n \in 1..Cardinality(S)
    PROVE  Nth(S, n) \in S /\ Cardinality(Below(S, Nth(S, n))) = n - 1
<1> DEFINE T == 1..Cardinality(S)
           f == [x \in S |-> Cardinality(Below(S, x)) + 1]
<1>0. \A x \in S : Cardinality(Below(S, x)) \in Nat
    BY BelowIsFinite
<1>1. f \in [S -> T]
    BY RankIsPlace
<1>2. ASSUME NEW x \in S, NEW y \in S, f[x] = f[y] PROVE x = y
    <2>1. ~(y < x)
        BY <1>0, <1>2, RanksGrow
    <2>2. ~(x < y)
        BY <1>0, <1>2, RanksGrow
    <2> QED
        BY <2>1, <2>2
<1>3. Cardinality(S) \in Nat
    BY FS_CardinalityType
<1>4. IsFiniteSet(T) /\ Cardinality(T) = Cardinality(S)
    BY <1>3, FS_Interval
<1>5. \A x \in S : f[x] = Cardinality(Below(S, x)) + 1
    OBVIOUS
<1> HIDE DEF f, T
<1>6. f \in Injection(S, T)
    BY <1>1, <1>2, Fun_IsInj
<1>7. f \in Surjection(S, T)
    BY <1>4, <1>6, FS_Injection
<1>a. \A t \in T : \E x \in S : f[x] = t
    BY <1>7, Fun_SurjectionProperties
<1>b. n \in T
    BY DEF T
<1>8. PICK x \in S : f[x] = n
    BY <1>a, <1>b
<1>9. Nth(S, n) = x
    BY <1>5, <1>8, NthOfRank
<1>10. n \in Int /\ Cardinality(Below(S, x)) \in Nat
    BY <1>0, <1>3
<1>11. Cardinality(Below(S, x)) = n - 1
    BY <1>5, <1>8, <1>10
<1> QED
    BY <1>9, <1>11

\* The next number of S is the next in order.
LEMMA NextInOrder ==
    ASSUME NEW S \in SUBSET Nat, IsFiniteSet(S), NEW x \in S, NEW y \in S, x < y,
           \A z \in S : z <= x \/ y <= z
    PROVE  Cardinality(Below(S, y)) = Cardinality(Below(S, x)) + 1
<1>1. IsFiniteSet(Below(S, x)) /\ x \notin Below(S, x)
    BY BelowIsFinite DEF Below
<1>2. Below(S, y) = Below(S, x) \cup {x}
    <2>1. ASSUME NEW z \in S PROVE z < y <=> z < x \/ z = x
        OBVIOUS
    <2> QED
        BY <2>1 DEF Below
<1>3. Cardinality(Below(S, x) \cup {x}) = Cardinality(Below(S, x)) + 1
    BY <1>1, FS_AddElement
<1> QED
    BY <1>2, <1>3

\* An entry that is kept is where its rank says, and there is nothing else.
LEMMA KeptHas ==
    ASSUME NEW f, NEW S \in SUBSET Nat, IsFiniteSet(S), NEW x \in S
    PROVE  /\ Cardinality(Below(S, x)) + 1 \in 1..Cardinality(S)
           /\ Kept(f, S)[Cardinality(Below(S, x)) + 1] = f[x]
BY RankIsPlace, NthOfRank DEF Kept

LEMMA KeptIsFrom ==
    ASSUME NEW f, NEW S \in SUBSET Nat, IsFiniteSet(S), NEW n \in 1..Cardinality(S)
    PROVE  \E x \in S : Cardinality(Below(S, x)) = n - 1 /\ Kept(f, S)[n] = f[x]
<1>1. Nth(S, n) \in S /\ Cardinality(Below(S, Nth(S, n))) = n - 1
    BY NthIsThere
<1>2. Kept(f, S)[n] = f[Nth(S, n)]
    BY DEF Kept
<1> QED
    BY <1>1, <1>2

LEMMA KeptType ==
    ASSUME NEW f, NEW S \in SUBSET Nat, IsFiniteSet(S), NEW T, \A x \in S : f[x] \in T
    PROVE  Kept(f, S) \in Seq(T) /\ Len(Kept(f, S)) = Cardinality(S)
<1> DEFINE n == Cardinality(S)
<1>1. n \in Nat
    BY FS_CardinalityType
<1>2. Kept(f, S) = [i \in 1..n |-> f[Nth(S, i)]]
    BY DEF Kept
<1>3. \A i \in 1..n : f[Nth(S, i)] \in T
    BY NthIsThere
<1> HIDE DEF n
<1>4. Kept(f, S) \in Seq(T) /\ Len(Kept(f, S)) = n
    BY <1>1, <1>2, <1>3
<1> QED
    BY <1>4 DEF n

\* One place more, behind the others, is one entry more.
Grows(f, g, S, T, x) ==
    /\ S \in SUBSET Nat /\ IsFiniteSet(S) /\ x \in Nat
    /\ \A y \in S : y < x /\ g[y] = f[y] /\ f[y] \in T
    /\ g[x] \in T

LEMMA KeptAppend ==
    ASSUME NEW f, NEW g, NEW T, NEW S, NEW x, Grows(f, g, S, T, x)
    PROVE  Kept(g, S \cup {x}) = Append(Kept(f, S), g[x])
<1> S \in SUBSET Nat /\ IsFiniteSet(S) /\ x \in Nat
    BY DEF Grows
<1> \A y \in S : y < x /\ g[y] = f[y] /\ f[y] \in T
    BY DEF Grows
<1> g[x] \in T
    BY DEF Grows
<1> DEFINE L == S \cup {x}
           n == Cardinality(S)
           s == Kept(f, S)
<1>0. \A y \in S : y \in Nat /\ y < x
    OBVIOUS
<1>1. x \notin S /\ L \in SUBSET Nat
    BY <1>0
<1>2. n \in Nat /\ IsFiniteSet(L) /\ Cardinality(L) = n + 1
    BY <1>1, FS_AddElement, FS_CardinalityType
<1>3. s \in Seq(T) /\ Len(s) = n
    BY KeptType
<1>4. Below(L, x) = S
    BY <1>0, ~(x < x) DEF Below
<1>5. Nth(L, n + 1) = x
    BY <1>1, <1>2, <1>4, NthOfRank
<1>6. ASSUME NEW i \in 1..n PROVE g[Nth(L, i)] = s[i]
    <2>1. PICK z \in S : Cardinality(Below(S, z)) = i - 1 /\ s[i] = f[z]
        BY KeptIsFrom
    <2>2. z \in Nat /\ z < x /\ g[z] = f[z]
        BY <1>0
    <2>3. ~(x < z)
        BY <2>2
    <2>4. z \in L /\ Below(L, z) = Below(S, z)
        BY <2>3 DEF Below
    <2>5. Cardinality(Below(L, z)) + 1 = i
        BY <1>2, <2>1, <2>4
    <2> HIDE DEF L
    <2>6. Nth(L, Cardinality(Below(L, z)) + 1) = z
        BY <1>1, <1>2, <2>4, NthOfRank
    <2> QED
        BY <2>1, <2>2, <2>5, <2>6
<1>7. Kept(g, L) = [i \in 1..(n + 1) |-> g[Nth(L, i)]]
    BY <1>2 DEF Kept
<1> HIDE DEF s, n, L
<1>8. \A i \in 1..(n + 1) : g[Nth(L, i)] = IF i <= n THEN s[i] ELSE g[x]
    BY <1>2, <1>5, <1>6
<1>9. Append(s, g[x]) = [i \in 1..(n + 1) |-> IF i <= n THEN s[i] ELSE g[x]]
    BY <1>2, <1>3
<1>10. Kept(g, L) = Append(s, g[x])
    BY <1>7, <1>8, <1>9
<1> QED
    BY <1>10 DEF L, s

LEMMA ShiftedIsAsMany ==
    ASSUME NEW S \in SUBSET Nat, IsFiniteSet(S), NEW d \in Nat
    PROVE  /\ IsFiniteSet({k + d : k \in S})
           /\ Cardinality({k + d : k \in S}) = Cardinality(S)
<1> DEFINE T == {k + d : k \in S}
           f == [k \in S |-> k + d]
<1>1. f \in [S -> T] /\ \A k \in S : f[k] = k + d
    OBVIOUS
<1>2. \A j, k \in S : f[j] = f[k] => j = k
    OBVIOUS
<1>3. \A t \in T : \E k \in S : f[k] = t
    OBVIOUS
<1> HIDE DEF f, T
<1>4. f \in Bijection(S, T)
    BY <1>1, <1>2, <1>3, Fun_IsBij
<1>5. ExistsBijection(S, T)
    BY <1>4, Fun_ExistsBij
<1>6. IsFiniteSet(T) /\ Cardinality(T) = Cardinality(S)
    BY <1>5, FS_Bijection
<1> QED
    BY <1>6 DEF T

\* What is kept of the end of a list is the end of what is kept of the list, if what
\* is kept only of the list lies before it.
Trails(f, g, S, L, d) ==
    /\ S \in SUBSET Nat /\ L \in SUBSET Nat /\ d \in Nat
    /\ IsFiniteSet(S) /\ IsFiniteSet(L)
    /\ \A k \in S : k + d \in L /\ g[k + d] = f[k]
    /\ \A x \in L : (\E k \in S : x = k + d) \/ (\A k \in S : x < k + d)

LEMMA KeptTail ==
    ASSUME NEW f, NEW g, NEW S, NEW L, NEW d, Trails(f, g, S, L, d)
    PROVE  /\ Cardinality(S) <= Cardinality(L)
           /\ \A n \in 1..Cardinality(S) :
                 /\ Cardinality(L) - Cardinality(S) + n \in 1..Cardinality(L)
                 /\ Kept(f, S)[n] = Kept(g, L)[Cardinality(L) - Cardinality(S) + n]
<1> S \in SUBSET Nat /\ L \in SUBSET Nat /\ d \in Nat /\ IsFiniteSet(S) /\ IsFiniteSet(L)
    BY DEF Trails
<1> \A k \in S : k + d \in L /\ g[k + d] = f[k]
    BY DEF Trails
<1> \A x \in L : (\E k \in S : x = k + d) \/ (\A k \in S : x < k + d)
    BY DEF Trails
<1> DEFINE Shift(A) == {k + d : k \in A}
           R == L \ Shift(S)
           m == Cardinality(S)
           l == Cardinality(L)
           c == Cardinality(R)
<1>1. /\ IsFiniteSet(R) /\ R \in SUBSET L
      /\ m \in Nat /\ l \in Nat /\ c \in Nat
    <2>1. R \in SUBSET L
        OBVIOUS
    <2> HIDE DEF R
    <2> QED
        BY <2>1, FS_Subset, FS_CardinalityType
<1>2. ASSUME NEW A \in SUBSET S
      PROVE  /\ IsFiniteSet(R \cup Shift(A))
             /\ Cardinality(R \cup Shift(A)) = c + Cardinality(A)
    <2>0. IsFiniteSet(S) /\ A \subseteq S /\ A \in SUBSET Nat
        OBVIOUS
    <2>1. IsFiniteSet(A) /\ A \in SUBSET Nat
        BY <2>0, FS_Subset
    <2>2. IsFiniteSet(Shift(A)) /\ Cardinality(Shift(A)) = Cardinality(A)
        BY <2>1, ShiftedIsAsMany
    <2>3. R \cap Shift(A) = {}
        OBVIOUS
    <2>4. Cardinality({}) = 0 /\ Cardinality(A) \in Nat
        BY <2>1, FS_EmptySet, FS_CardinalityType
    <2> HIDE DEF R, Shift
    <2>5. /\ IsFiniteSet(R \cup Shift(A))
          /\ Cardinality(R \cup Shift(A)) = c + Cardinality(Shift(A)) - Cardinality(R \cap Shift(A))
        BY <1>1, <2>2, FS_Union
    <2>6. Cardinality(R \cap Shift(A)) = 0
        BY <2>3, <2>4
    <2>7. c + Cardinality(A) - 0 = c + Cardinality(A)
        BY <1>1, <2>4
    <2> QED
        BY <2>2, <2>5, <2>6, <2>7
<1>3. L = R \cup Shift(S)
    OBVIOUS
<1>4. l = c + m
    BY <1>2, <1>3
<1>5. ASSUME NEW n \in 1..m
      PROVE  l - m + n \in 1..l /\ Kept(f, S)[n] = Kept(g, L)[l - m + n]
    <2>1. PICK x \in S : Cardinality(Below(S, x)) = n - 1 /\ Kept(f, S)[n] = f[x]
        BY KeptIsFrom
    <2> DEFINE A == Below(S, x)
    <2>2. A \in SUBSET S
        BY DEF Below
    <2>3. ASSUME NEW y \in L PROVE y < x + d <=> y \in R \cup Shift(A)
        <3>1. CASE \E k \in S : y = k + d
            <4>1. PICK k \in S : y = k + d
                BY <3>1
            <4>2. y < x + d <=> k < x
                BY <4>1
            <4>3. y \in Shift(A) <=> k \in A
                <5>1. ASSUME NEW j \in A PROVE j \in Nat /\ (j + d = k + d => j = k)
                    <6>1. j \in Nat /\ k \in Nat
                        BY <2>2
                    <6> QED
                        BY <6>1
                <5>2. y \in Shift(A) <=> \E j \in A : k + d = j + d
                    BY <4>1
                <5> HIDE DEF A, Shift
                <5> QED
                    BY <5>1, <5>2
            <4>4. y \notin R
                BY <4>1
            <4> QED
                BY <4>2, <4>3, <4>4 DEF Below
        <3>2. CASE ~ \E k \in S : y = k + d
            BY <3>2
        <3> QED
            BY <3>1, <3>2
    <2>4. Below(L, x + d) = R \cup Shift(A)
        <3>1. Shift(A) \subseteq L /\ R \subseteq L
            BY <2>2
        <3> HIDE DEF R, Shift, A
        <3> QED
            BY <2>3, <3>1 DEF Below
    <2>5. Cardinality(Below(L, x + d)) = c + (n - 1)
        BY <1>2, <2>1, <2>2, <2>4
    <2> HIDE DEF l, m, c, R
    <2>6. c + (n - 1) + 1 = l - m + n
        BY <1>1, <1>4
    <2>7. /\ c + (n - 1) + 1 \in 1..Cardinality(L)
          /\ Kept(g, L)[c + (n - 1) + 1] = g[x + d]
        BY <2>5, KeptHas
    <2> QED
        BY <2>1, <2>6, <2>7 DEF l
<1>6. m <= l
    BY <1>1, <1>4
<1> QED
    BY <1>5, <1>6

--------------------------------------------------------------------------------
(* What is read back of a conversation (Repair).                              *)

LEMMA TurnIs ==
    ASSUME NEW t \in Turns
    PROVE  /\ t.kind \in {"user", "text", "empty", "calls", "results"}
           /\ t.batch \in Nat /\ t.batch <= MaxBatches
           /\ t.kind = "calls" => t = Calls(t.batch) /\ t.batch \in 1..MaxBatches
           /\ t.kind = "results" => t = Results(t.batch) /\ t.batch \in 1..MaxBatches
           /\ t.kind \notin {"calls", "results"} => t.batch = 0
<1>1. MaxBatches \in Nat
    BY TranscriptAssumption DEF TranscriptAssumption
<1> QED
    BY <1>1 DEF Turns, Calls, Results

LEMMA PlainTurns ==
    /\ User \in Turns /\ Text \in Turns /\ Empty \in Turns
    /\ \A t \in {User, Text, Empty} : t.kind \notin {"calls", "results"} /\ t.batch = 0
BY DEF Turns, User, Text, Empty

LEMMA ToolTurns ==
    ASSUME NEW b \in 1..MaxBatches
    PROVE  /\ Calls(b) \in Turns /\ Calls(b).kind = "calls" /\ Calls(b).batch = b
           /\ Results(b) \in Turns /\ Results(b).kind = "results" /\ Results(b).batch = b
BY DEF Turns, Calls, Results

LEMMA BatchesAre ==
    ASSUME NEW s, NEW kind, NEW b
    PROVE  b \in Batches(s, kind) <=> \E i \in DOMAIN s : s[i].kind = kind /\ s[i].batch = b
BY DEF Batches

\* Each step has its calls and its results once, and its results right after its calls,
\* if it has both.
Loose(s) ==
    \A i, j \in DOMAIN s :
       /\ s[i].kind \in {"calls", "results"} /\ s[j] = s[i] => j = i
       /\ s[i].kind = "calls" /\ s[j] = Results(s[i].batch) => j = i + 1

\* Calls and the results right after them: what either service takes.
Paired(s) ==
    \A i \in DOMAIN s :
       /\ s[i].kind = "calls" => i < Len(s) /\ s[i + 1] = Results(s[i].batch)
       /\ s[i].kind = "results" => i > 1 /\ s[i - 1] = Calls(s[i].batch)

IsTail(h, s) == /\ Len(h) <= Len(s)
                /\ \A i \in 1..Len(h) : h[i] = s[Len(s) - Len(h) + i]

LEMMA CleanedIs ==
    ASSUME NEW s \in Seq(Turns)
    PROVE  /\ Cleaned(s) \in [1..Len(s) -> Turns]
           /\ \A i \in 1..Len(s) :
                 /\ \/ Cleaned(s)[i] = s[i]
                    \/ Cleaned(s)[i] = Text /\ s[i].kind = "calls"
                 /\ Cleaned(s)[i] = s[i] <=>
                       (s[i].kind = "calls" => s[i].batch \in Batches(s, "results"))
<1>1. DOMAIN s = 1..Len(s) /\ \A i \in 1..Len(s) : s[i] \in Turns
    OBVIOUS
<1>2. Cleaned(s) = [i \in 1..Len(s) |->
            IF s[i].kind = "calls" /\ s[i].batch \notin Batches(s, "results") THEN Text
            ELSE s[i]]
    BY <1>1 DEF Cleaned
<1>3. Text \in Turns /\ Text.kind # "calls"
    BY PlainTurns
<1>4. Cleaned(s) \in [1..Len(s) -> Turns]
    BY <1>1, <1>2, <1>3
<1>5. ASSUME NEW i \in 1..Len(s)
      PROVE  /\ \/ Cleaned(s)[i] = s[i]
                \/ Cleaned(s)[i] = Text /\ s[i].kind = "calls"
             /\ Cleaned(s)[i] = s[i] <=>
                   (s[i].kind = "calls" => s[i].batch \in Batches(s, "results"))
    <2>1. CASE s[i].kind = "calls" /\ s[i].batch \notin Batches(s, "results")
        <3>1. Cleaned(s)[i] = Text
            BY <1>2, <2>1
        <3>2. Text # s[i]
            BY <1>3, <2>1
        <3> QED
            BY <2>1, <3>1, <3>2
    <2>2. CASE ~(s[i].kind = "calls" /\ s[i].batch \notin Batches(s, "results"))
        BY <1>2, <2>2
    <2> QED
        BY <2>1, <2>2
<1> QED
    BY <1>4, <1>5

\* A turn of results is kept if the calls are there.
LEMMA PlacesAre ==
    ASSUME NEW s \in Seq(Turns)
    PROVE  /\ Places(s) \in SUBSET (1..Len(s)) /\ Places(s) \in SUBSET Nat
           /\ IsFiniteSet(Places(s))
           /\ \A i \in 1..Len(s) :
                 i \in Places(s) <=>
                    (s[i].kind = "results" => s[i].batch \in Batches(s, "calls"))
<1>1. DOMAIN s = 1..Len(s) /\ DOMAIN Cleaned(s) = 1..Len(s)
    BY CleanedIs
<1>2. Places(s) \in SUBSET (1..Len(s))
    BY <1>1 DEF Places
<1>3. IsFiniteSet(Places(s))
    BY <1>2, FS_Interval, FS_Subset
<1>4. ASSUME NEW i \in 1..Len(s)
      PROVE  i \in Places(s) <=>
                (s[i].kind = "results" => s[i].batch \in Batches(s, "calls"))
    <2> DEFINE b == s[i].batch
    <2>1. CASE s[i].kind = "results"
        <3>1. b \in Batches(s, "results")
            BY <1>1, <2>1, BatchesAre
        <3>2. ASSUME NEW j \in 1..Len(s)
              PROVE  (Cleaned(s)[j].kind = "calls" /\ Cleaned(s)[j].batch = b)
                        <=> (s[j].kind = "calls" /\ s[j].batch = b)
            <4>1. CASE Cleaned(s)[j] = s[j]
                BY <4>1
            <4>2. CASE Cleaned(s)[j] # s[j]
                <5>1. Cleaned(s)[j] = Text /\ s[j].kind = "calls"
                      /\ s[j].batch \notin Batches(s, "results")
                    BY <4>2, CleanedIs
                <5>2. Cleaned(s)[j].kind # "calls"
                    BY <5>1, PlainTurns
                <5>3. s[j].batch # b
                    BY <3>1, <5>1
                <5> QED
                    BY <5>2, <5>3
            <4> QED
                BY <4>1, <4>2
        <3> HIDE DEF b
        <3>3. b \in Batches(Cleaned(s), "calls") <=> b \in Batches(s, "calls")
            BY <1>1, <3>2, BatchesAre
        <3> QED
            BY <1>1, <2>1, <3>3 DEF Places, b
    <2>2. CASE s[i].kind # "results"
        BY <1>1, <2>2 DEF Places
    <2> QED
        BY <2>1, <2>2
<1> QED
    BY <1>2, <1>3, <1>4

LEMMA RepairIs ==
    ASSUME NEW s \in Seq(Turns)
    PROVE  /\ Repair(s) \in Seq(Turns)
           /\ Len(Repair(s)) = Cardinality(Places(s)) /\ Len(Repair(s)) <= Len(s)
<1>1. \A i \in Places(s) : Cleaned(s)[i] \in Turns
    BY CleanedIs, PlacesAre
<1>2. Repair(s) \in Seq(Turns) /\ Len(Repair(s)) = Cardinality(Places(s))
    BY <1>1, PlacesAre, KeptType DEF Repair
<1>3. Cardinality(Places(s)) <= Cardinality(1..Len(s)) /\ Cardinality(1..Len(s)) = Len(s)
    BY PlacesAre, FS_Interval, FS_Subset
<1> QED
    BY <1>2, <1>3

\* A call that is kept has its results kept, and the other way round.
LEMMA RepairBatches ==
    ASSUME NEW s \in Seq(Turns)
    PROVE  Batches(Repair(s), "calls") = Batches(Repair(s), "results")
<1> DEFINE q == Repair(s)
<1>1. DOMAIN s = 1..Len(s) /\ DOMAIN q = 1..Cardinality(Places(s))
    BY RepairIs
<1>2. ASSUME NEW kind \in {"calls", "results"}, NEW b
      PROVE  b \in Batches(q, kind) <=>
                (b \in Batches(s, "calls") /\ b \in Batches(s, "results"))
    <2>1. ASSUME b \in Batches(q, kind)
          PROVE  b \in Batches(s, "calls") /\ b \in Batches(s, "results")
        <3>0. \E n \in DOMAIN q : q[n].kind = kind /\ q[n].batch = b
            <4> HIDE DEF q
            <4> QED
                BY <2>1, BatchesAre
        <3>1. PICK n \in 1..Cardinality(Places(s)) : q[n].kind = kind /\ q[n].batch = b
            BY <1>1, <3>0
        <3>2. PICK x \in Places(s) : q[n] = Cleaned(s)[x]
            BY PlacesAre, KeptIsFrom DEF Repair
        <3>3. x \in 1..Len(s) /\ Cleaned(s)[x] = s[x]
            <4>1. x \in 1..Len(s)
                BY PlacesAre
            <4>2. Cleaned(s)[x].kind \in {"calls", "results"}
                BY <3>1, <3>2
            <4>3. Cleaned(s)[x] # Text
                BY <4>2, PlainTurns
            <4> QED
                BY <4>1, <4>3, CleanedIs
        <3>4. s[x].kind = kind /\ s[x].batch = b
            BY <3>1, <3>2, <3>3
        <3>5. b \in Batches(s, kind)
            BY <1>1, <3>3, <3>4, BatchesAre
        <3>6. CASE kind = "calls"
            BY <3>3, <3>4, <3>5, <3>6, CleanedIs
        <3>7. CASE kind = "results"
            BY <3>2, <3>3, <3>4, <3>5, <3>7, PlacesAre
        <3> QED
            BY <3>6, <3>7
    <2>2. ASSUME b \in Batches(s, "calls"), b \in Batches(s, "results")
          PROVE  b \in Batches(q, kind)
        <3>1. PICK x \in 1..Len(s) : s[x].kind = kind /\ s[x].batch = b
            BY <1>1, <2>2, BatchesAre
        <3>2. Cleaned(s)[x] = s[x] /\ x \in Places(s)
            <4>1. s[x].batch \in Batches(s, "calls") /\ s[x].batch \in Batches(s, "results")
                BY <2>2, <3>1
            <4> QED
                BY <4>1, CleanedIs, PlacesAre
        <3>3. PICK n \in 1..Cardinality(Places(s)) : q[n] = Cleaned(s)[x]
            <4> DEFINE k == Cardinality(Below(Places(s), x)) + 1
            <4>1. Places(s) \in SUBSET Nat /\ IsFiniteSet(Places(s))
                BY PlacesAre
            <4>2. k \in 1..Cardinality(Places(s)) /\ Kept(Cleaned(s), Places(s))[k] = Cleaned(s)[x]
                BY <3>2, <4>1, KeptHas
            <4> QED
                BY <4>2 DEF Repair
        <3>4. q[n].kind = kind /\ q[n].batch = b
            BY <3>1, <3>2, <3>3
        <3> HIDE DEF q
        <3> QED
            BY <1>1, <3>4, BatchesAre
    <2> QED
        BY <2>1, <2>2
<1> HIDE DEF q
<1>3. \A b : b \in Batches(q, "calls") <=> b \in Batches(q, "results")
    BY <1>2
<1>4. Batches(q, "calls") = Batches(q, "results")
    BY <1>3, Zenon
<1> QED
    BY <1>4 DEF q

\* What is read back of a conversation that one run at a time used is paired.
LEMMA RepairPairs ==
    ASSUME NEW s \in Seq(Turns), Loose(s)
    PROVE  Paired(Repair(s))
<1> DEFINE q == Repair(s)
           P == Places(s)
           Rank(x) == Cardinality(Below(P, x))
<1>1. /\ P \in SUBSET Nat /\ IsFiniteSet(P) /\ P \in SUBSET (1..Len(s))
      /\ DOMAIN s = 1..Len(s)
    BY PlacesAre
<1>2. Len(q) = Cardinality(P) /\ DOMAIN q = 1..Cardinality(P)
    BY RepairIs
<1>3. ASSUME NEW x \in P, x + 1 \in P PROVE Rank(x + 1) = Rank(x) + 1
    <2>1. x \in Nat /\ x < x + 1 /\ \A z \in P : z <= x \/ x + 1 <= z
        BY <1>1
    <2> HIDE DEF P
    <2> QED
        BY <1>1, <1>3, <2>1, NextInOrder
<1>4. ASSUME NEW x \in P
      PROVE  Rank(x) + 1 \in 1..Cardinality(P) /\ q[Rank(x) + 1] = Cleaned(s)[x]
    BY <1>1, KeptHas DEF Repair
<1>5. ASSUME NEW x \in 1..Len(s), NEW y \in 1..Len(s), NEW b,
             s[x].kind = "calls", s[x].batch = b, s[y].kind = "results", s[y].batch = b
      PROVE  /\ y = x + 1 /\ x \in P /\ y \in P
             /\ Cleaned(s)[x] = Calls(b) /\ Cleaned(s)[y] = Results(b)
    <2>1. s[x] = Calls(b) /\ s[y] = Results(b)
        BY <1>5, TurnIs
    <2>2. y = x + 1
        BY <1>1, <1>5, <2>1 DEF Loose
    <2>3. b \in Batches(s, "calls") /\ b \in Batches(s, "results")
        BY <1>1, <1>5, BatchesAre
    <2> QED
        BY <1>5, <2>1, <2>2, <2>3, CleanedIs, PlacesAre
<1>6. ASSUME NEW n \in 1..Cardinality(P)
      PROVE  /\ q[n].kind = "calls" =>
                  n < Cardinality(P) /\ q[n + 1] = Results(q[n].batch)
             /\ q[n].kind = "results" => n > 1 /\ q[n - 1] = Calls(q[n].batch)
    <2>a. q[n] = Kept(Cleaned(s), P)[n]
        BY DEF Repair
    <2>b. \E x \in P : Rank(x) = n - 1 /\ Kept(Cleaned(s), P)[n] = Cleaned(s)[x]
        <3> HIDE DEF P
        <3> QED
            BY <1>1, KeptIsFrom
    <2>1. PICK x \in P : Rank(x) = n - 1 /\ q[n] = Cleaned(s)[x]
        BY <2>a, <2>b
    <2> DEFINE b == q[n].batch
    <2>2. x \in 1..Len(s)
        BY <1>1
    <2>3. n \in Nat /\ Rank(x) + 1 = n /\ Cardinality(P) \in Nat
        BY <1>1, <2>1, FS_CardinalityType
    <2>4. CASE q[n].kind = "calls"
        <3>1. s[x].kind = "calls" /\ s[x].batch = b /\ b \in Batches(s, "results")
            BY <2>1, <2>2, <2>4, CleanedIs, PlainTurns
        <3>2. PICK y \in 1..Len(s) : s[y].kind = "results" /\ s[y].batch = b
            BY <1>1, <3>1, BatchesAre
        <3> HIDE DEF b, q, P, Rank
        <3>3. y = x + 1 /\ y \in P /\ Cleaned(s)[y] = Results(b)
            BY <1>5, <2>2, <3>1, <3>2
        <3>4. Rank(y) = n
            BY <1>3, <2>3, <3>3
        <3>5. n + 1 \in 1..Cardinality(P) /\ q[n + 1] = Results(b)
            BY <1>4, <3>3, <3>4
        <3>6. n < Cardinality(P)
            BY <2>3, <3>5
        <3> QED
            BY <2>4, <3>5, <3>6 DEF b
    <2>5. CASE q[n].kind = "results"
        <3>1. /\ s[x].kind = "results" /\ s[x].batch = b
              /\ b \in Batches(s, "calls")
            BY <2>1, <2>2, <2>5, CleanedIs, PlacesAre, PlainTurns
        <3>2. PICK y \in 1..Len(s) : s[y].kind = "calls" /\ s[y].batch = b
            BY <1>1, <3>1, BatchesAre
        <3> HIDE DEF b, q, P, Rank
        <3>3. x = y + 1 /\ y \in P /\ Cleaned(s)[y] = Calls(b)
            BY <1>5, <2>2, <3>1, <3>2
        <3>4. Rank(y) + 1 \in 1..Cardinality(P) /\ q[Rank(y) + 1] = Calls(b)
            BY <1>4, <3>3
        <3>5. Rank(x) = Rank(y) + 1
            BY <1>3, <3>3
        <3>6. n - 1 \in 1..Cardinality(P) /\ q[n - 1] = Calls(b)
            BY <2>1, <3>4, <3>5
        <3>7. n > 1
            BY <2>3, <3>6
        <3> QED
            BY <2>5, <3>6, <3>7 DEF b
    <2> QED
        BY <2>4, <2>5
<1> HIDE DEF q, P
<1>7. Paired(q)
    BY <1>2, <1>6 DEF Paired
<1> QED
    BY <1>7 DEF q

--------------------------------------------------------------------------------
(* The newest turns, and a turn more.                                         *)

LEMMA WindowIs ==
    ASSUME NEW s \in Seq(Turns)
    PROVE  \E d \in Nat :
              /\ Window(s) \in Seq(Turns)
              /\ Len(s) = Len(Window(s)) + d /\ Len(Window(s)) <= HistoryLimit
              /\ \A i \in 1..Len(Window(s)) : i + d \in 1..Len(s) /\ Window(s)[i] = s[i + d]
<1>1. HistoryLimit \in Nat /\ Len(s) \in Nat
    BY TranscriptAssumption DEF TranscriptAssumption
<1> DEFINE x == Len(s) - HistoryLimit
           d == Max({0, x})
<1>2. d = IF x > 0 THEN x ELSE 0
    <2> DEFINE m == IF x > 0 THEN x ELSE 0
    <2>1. m \in {0, x} /\ \A y \in {0, x} : m >= y
        BY <1>1
    <2>2. \A z \in {0, x} : (\A y \in {0, x} : z >= y) => z = m
        BY <1>1
    <2>3. d = CHOOSE z \in {0, x} : \A y \in {0, x} : z >= y
        BY DEF Max
    <2> HIDE DEF x, m, d
    <2>4. d = m
        BY <2>1, <2>2, <2>3
    <2> QED
        BY <2>4 DEF m
<1>3. d \in Nat /\ d <= Len(s) /\ Len(s) - d <= HistoryLimit
    BY <1>1, <1>2
<1>4. Window(s) = SubSeq(s, d + 1, Len(s))
    BY DEF Window
<1> HIDE DEF d
<1>5. SubSeq(s, d + 1, Len(s)) \in Seq(Turns) /\ Len(SubSeq(s, d + 1, Len(s))) = Len(s) - d
    BY <1>1, <1>3
<1>6. \A i \in 1..(Len(s) - d) : i + d \in 1..Len(s) /\ SubSeq(s, d + 1, Len(s))[i] = s[i + d]
    BY <1>1, <1>3
<1>7. /\ Window(s) \in Seq(Turns) /\ Len(Window(s)) = Len(s) - d
      /\ Len(s) = Len(Window(s)) + d /\ Len(Window(s)) <= HistoryLimit
      /\ \A i \in 1..Len(Window(s)) : i + d \in 1..Len(s) /\ Window(s)[i] = s[i + d]
    BY <1>1, <1>3, <1>4, <1>5, <1>6
<1> QED
    BY <1>3, <1>7

\* What is read back of the end of a conversation is the end of what is read back of it.
LEMMA RepairTail ==
    ASSUME NEW s \in Seq(Turns), NEW w \in Seq(Turns), NEW d \in Nat, Loose(s),
           Len(s) = Len(w) + d, \A i \in 1..Len(w) : i + d \in 1..Len(s) /\ w[i] = s[i + d]
    PROVE  IsTail(Repair(w), Repair(s)) /\ Loose(w)
<1> DEFINE f == Cleaned(w)
           g == Cleaned(s)
           S == Places(w)
           L == Places(s)
<1>1. /\ S \in SUBSET Nat /\ L \in SUBSET Nat /\ IsFiniteSet(S) /\ IsFiniteSet(L)
      /\ S \in SUBSET (1..Len(w)) /\ L \in SUBSET (1..Len(s))
      /\ DOMAIN s = 1..Len(s) /\ DOMAIN w = 1..Len(w)
    BY PlacesAre
<1>2. ASSUME NEW kind, NEW b, b \in Batches(w, kind) PROVE b \in Batches(s, kind)
    BY <1>1, <1>2, BatchesAre
<1>3. ASSUME NEW k \in 1..Len(w), w[k].kind = "calls", w[k].batch \in Batches(s, "results")
      PROVE  w[k].batch \in Batches(w, "results")
    <2>0. \E j \in DOMAIN s : s[j].kind = "results" /\ s[j].batch = w[k].batch
        BY <1>3 DEF Batches
    <2>1. PICK j \in 1..Len(s) : s[j].kind = "results" /\ s[j].batch = w[k].batch
        BY <1>1, <2>0
    <2>2. s[j] = Results(w[k].batch) /\ s[j] \in Turns
        BY <2>1, TurnIs
    <2>3. j = k + d + 1
        BY <1>1, <1>3, <2>2 DEF Loose
    <2>4. k + 1 \in 1..Len(w) /\ w[k + 1] = s[j]
        BY <2>3
    <2> QED
        BY <1>1, <2>1, <2>4, BatchesAre
<1>4. ASSUME NEW k \in S PROVE k + d \in L /\ g[k + d] = f[k]
    <2>1. k \in 1..Len(w) /\ k + d \in 1..Len(s) /\ w[k] = s[k + d]
        BY <1>1
    <2>2. k + d \in L
        BY <1>2, <2>1, PlacesAre
    <2>3. f[k] = w[k] <=> g[k + d] = w[k]
        BY <1>2, <1>3, <2>1, CleanedIs
    <2>4. (f[k] = w[k] \/ f[k] = Text) /\ (g[k + d] = w[k] \/ g[k + d] = Text)
        BY <2>1, CleanedIs
    <2> QED
        BY <2>2, <2>3, <2>4
<1>5. ASSUME NEW x \in L PROVE (\E k \in S : x = k + d) \/ (\A k \in S : x < k + d)
    <2>1. x \in 1..Len(s)
        BY <1>1
    <2>2. CASE x <= d
        BY <1>1, <2>1, <2>2
    <2>3. CASE x > d
        <3> DEFINE k == x - d
        <3>1. k \in 1..Len(w) /\ x = k + d /\ w[k] = s[x]
            BY <2>1, <2>3
        <3>2. CASE k \in S
            BY <3>1, <3>2
        <3>3. CASE k \notin S
            <4>1. w[k].kind = "results" /\ w[k].batch \notin Batches(w, "calls")
                BY <3>1, <3>3, PlacesAre
            <4>2. s[x].batch \in Batches(s, "calls")
                BY <2>1, <3>1, <4>1, PlacesAre
            <4>3. PICK j \in 1..Len(s) : s[j].kind = "calls" /\ s[j].batch = s[x].batch
                BY <1>1, <4>2, BatchesAre
            <4>4. s[x] = Results(s[j].batch)
                BY <2>1, <3>1, <4>1, <4>3, TurnIs
            <4>5. x = j + 1
                BY <1>1, <2>1, <4>3, <4>4 DEF Loose
            <4>6. j <= d
                <5>1. ASSUME j > d PROVE FALSE
                    <6>1. j - d \in 1..Len(w) /\ w[j - d] = s[j]
                        <7>1. j - d \in 1..Len(w) /\ (j - d) + d = j
                            BY <5>1
                        <7> QED
                            BY <7>1
                    <6>2. w[j - d].kind = "calls" /\ w[j - d].batch = w[k].batch
                        BY <3>1, <4>3, <6>1
                    <6> QED
                        BY <1>1, <4>1, <6>1, <6>2, BatchesAre
                <5> QED
                    BY <5>1
            <4>7. k = 1
                BY <2>1, <2>3, <4>5, <4>6
            <4>8. ASSUME NEW z \in S PROVE x < z + d
                <5>1. z \in 1..Len(w) /\ z # k
                    BY <1>1, <3>3
                <5>2. x = 1 + d
                    BY <3>1, <4>7
                <5> QED
                    BY <4>7, <5>1, <5>2
            <4> QED
                BY <4>8
        <3> QED
            BY <3>2, <3>3
    <2> QED
        BY <2>1, <2>2, <2>3
<1>6. Loose(w)
    <2> SUFFICES ASSUME NEW i \in DOMAIN w, NEW j \in DOMAIN w
                 PROVE  /\ w[i].kind \in {"calls", "results"} /\ w[j] = w[i] => j = i
                        /\ w[i].kind = "calls" /\ w[j] = Results(w[i].batch) => j = i + 1
        BY DEF Loose
    <2>1. /\ i \in Nat /\ j \in Nat /\ i + d \in DOMAIN s /\ j + d \in DOMAIN s
          /\ w[i] = s[i + d] /\ w[j] = s[j + d]
        BY <1>1
    <2>2. /\ s[i + d].kind \in {"calls", "results"} /\ s[j + d] = s[i + d] => j + d = i + d
          /\ s[i + d].kind = "calls" /\ s[j + d] = Results(s[i + d].batch) => j + d = i + d + 1
        BY <2>1 DEF Loose
    <2> QED
        BY <2>1, <2>2
<1>7. /\ Len(Repair(w)) = Cardinality(S) /\ Len(Repair(s)) = Cardinality(L)
      /\ Repair(w) = Kept(f, S) /\ Repair(s) = Kept(g, L)
    BY RepairIs DEF Repair
<1> HIDE DEF f, g, S, L
<1>8. /\ Cardinality(S) <= Cardinality(L)
      /\ \A n \in 1..Cardinality(S) :
            Kept(f, S)[n] = Kept(g, L)[Cardinality(L) - Cardinality(S) + n]
    <2>1. \A k \in S : k + d \in L /\ g[k + d] = f[k]
        BY <1>4
    <2>2. \A x \in L : (\E k \in S : x = k + d) \/ (\A k \in S : x < k + d)
        BY <1>5
    <2>3. /\ S \in SUBSET Nat /\ L \in SUBSET Nat /\ IsFiniteSet(S) /\ IsFiniteSet(L)
        BY <1>1
    <2>4. Trails(f, g, S, L, d)
        BY <2>1, <2>2, <2>3 DEF Trails
    <2> QED
        BY <2>4, KeptTail
<1>9. IsTail(Repair(w), Repair(s))
    BY <1>7, <1>8 DEF IsTail
<1> QED
    BY <1>6, <1>9

LEMMA AppendIs ==
    ASSUME NEW s \in Seq(Turns), NEW t \in Turns
    PROVE  /\ Append(s, t) \in Seq(Turns) /\ Len(Append(s, t)) = Len(s) + 1
           /\ \A i \in 1..Len(s) : Append(s, t)[i] = s[i]
           /\ Append(s, t)[Len(s) + 1] = t /\ DOMAIN s = 1..Len(s)
           /\ DOMAIN Append(s, t) = 1..(Len(s) + 1)
           /\ \A i \in 1..(Len(s) + 1) : i \in 1..Len(s) \/ i = Len(s) + 1
           /\ \A i \in 1..Len(s) : i \in 1..(Len(s) + 1)
OBVIOUS

LEMMA BatchesGrow ==
    ASSUME NEW s \in Seq(Turns), NEW t \in Turns, NEW kind
    PROVE  Batches(Append(s, t), kind) =
              Batches(s, kind) \cup (IF t.kind = kind THEN {t.batch} ELSE {})
<1> DEFINE q == Append(s, t)
<1>1. /\ DOMAIN s = 1..Len(s) /\ DOMAIN q = 1..(Len(s) + 1)
      /\ \A i \in 1..Len(s) : q[i] = s[i] /\ i \in DOMAIN q
      /\ q[Len(s) + 1] = t /\ Len(s) + 1 \in DOMAIN q
      /\ \A i \in DOMAIN q : i \in 1..Len(s) \/ i = Len(s) + 1
    BY AppendIs
<1> HIDE DEF q
<1>2. ASSUME NEW b
      PROVE  b \in Batches(q, kind) <=>
                b \in Batches(s, kind) \/ (t.kind = kind /\ t.batch = b)
    <2>1. b \in Batches(q, kind) => b \in Batches(s, kind) \/ (t.kind = kind /\ t.batch = b)
        <3> SUFFICES ASSUME NEW i \in DOMAIN q, q[i].kind = kind, q[i].batch = b
                     PROVE  b \in Batches(s, kind) \/ (t.kind = kind /\ t.batch = b)
            BY BatchesAre
        <3>1. CASE i \in 1..Len(s)
            <4>1. s[i].kind = kind /\ s[i].batch = b /\ i \in DOMAIN s
                BY <1>1, <3>1
            <4> QED
                BY <4>1, BatchesAre
        <3>2. CASE i = Len(s) + 1
            BY <1>1, <3>2
        <3> QED
            BY <1>1, <3>1, <3>2
    <2>2. b \in Batches(s, kind) => b \in Batches(q, kind)
        <3> SUFFICES ASSUME NEW i \in DOMAIN s, s[i].kind = kind, s[i].batch = b
                     PROVE  b \in Batches(q, kind)
            BY BatchesAre
        <3>1. q[i].kind = kind /\ q[i].batch = b /\ i \in DOMAIN q
            BY <1>1
        <3> QED
            BY <3>1, BatchesAre
    <2>3. t.kind = kind /\ t.batch = b => b \in Batches(q, kind)
        BY <1>1, BatchesAre
    <2> QED
        BY <2>1, <2>2, <2>3
<1>3. \A b : b \in Batches(q, kind) <=>
                b \in Batches(s, kind) \cup (IF t.kind = kind THEN {t.batch} ELSE {})
    BY <1>2
<1>4. Batches(q, kind) = Batches(s, kind) \cup (IF t.kind = kind THEN {t.batch} ELSE {})
    BY <1>3, Zenon
<1> QED
    BY <1>4 DEF q

\* A turn of words more is the same turn more of what is read back.
LEMMA RepairPlain ==
    ASSUME NEW s \in Seq(Turns), NEW t \in {User, Text, Empty}
    PROVE  Repair(Append(s, t)) = Append(Repair(s), t)
<1> DEFINE q == Append(s, t)
           n == Len(s) + 1
           f == Cleaned(s)
           g == Cleaned(q)
           S == Places(s)
<1>1. t \in Turns /\ t.kind \notin {"calls", "results"}
    BY PlainTurns
<1>2. /\ q \in Seq(Turns) /\ Len(q) = n /\ \A i \in 1..Len(s) : q[i] = s[i]
      /\ q[n] = t /\ Len(s) \in Nat
    BY <1>1, AppendIs
<1>3. Batches(q, "calls") = Batches(s, "calls") /\ Batches(q, "results") = Batches(s, "results")
    <2>1. /\ t.kind # "calls" /\ t.kind # "results"
          /\ \A kind : Batches(Append(s, t), kind) =
                Batches(s, kind) \cup (IF t.kind = kind THEN {t.batch} ELSE {})
        BY <1>1, BatchesGrow
    <2> QED
        BY <2>1
<1>4. S \in SUBSET Nat /\ IsFiniteSet(S) /\ S \in SUBSET (1..Len(s))
    BY PlacesAre
<1> HIDE DEF q
<1>5. ASSUME NEW y \in S PROVE y < n /\ g[y] = f[y] /\ f[y] \in Turns
    <2>1. y \in 1..Len(s) /\ y \in 1..n /\ y < n
        BY <1>2, <1>4
    <2>2. f[y] = s[y] <=> g[y] = s[y]
        BY <1>2, <1>3, <2>1, CleanedIs
    <2>3. (f[y] = s[y] \/ f[y] = Text) /\ (g[y] = s[y] \/ g[y] = Text) /\ f[y] \in Turns
        BY <1>2, <2>1, CleanedIs
    <2> QED
        BY <2>1, <2>2, <2>3
<1>6. g[n] = t /\ n \in Nat
    <2>1. n \in 1..Len(q) /\ n \in Nat
        BY <1>2
    <2> QED
        BY <1>1, <1>2, <2>1, CleanedIs
<1>7. Places(q) = S \cup {n}
    <2>1. Places(q) \in SUBSET (1..n)
        BY <1>2, PlacesAre
    <2>2. \A i \in 1..Len(s) : i \in Places(q) <=> i \in S
        BY <1>2, <1>3, PlacesAre
    <2>3. n \in Places(q)
        BY <1>1, <1>2, PlacesAre
    <2>4. \A i \in 1..n : i \in 1..Len(s) \/ i = n
        BY <1>2
    <2> HIDE DEF n, S
    <2> QED
        BY <1>4, <2>1, <2>2, <2>3, <2>4 DEF S
<1> HIDE DEF f, g, S, n
<1>8. Kept(g, S \cup {n}) = Append(Kept(f, S), g[n])
    <2>1. \A y \in S : y < n /\ g[y] = f[y] /\ f[y] \in Turns
        BY <1>5
    <2>2. S \in SUBSET Nat /\ IsFiniteSet(S) /\ n \in Nat /\ g[n] \in Turns
        BY <1>1, <1>4, <1>6
    <2>3. Grows(f, g, S, Turns, n)
        BY <2>1, <2>2 DEF Grows
    <2> QED
        BY <2>3, KeptAppend
<1>9. Repair(q) = Append(Repair(s), t)
    BY <1>6, <1>7, <1>8 DEF Repair, f, g, S
<1> QED
    BY <1>9 DEF q

\* The calls of a step and their results more are the same two turns more of what is read
\* back.
LEMMA RepairStep ==
    ASSUME NEW s \in Seq(Turns), NEW b \in 1..MaxBatches,
           b \notin Batches(s, "calls"), b \notin Batches(s, "results")
    PROVE  Repair(Append(Append(s, Calls(b)), Results(b)))
              = Append(Append(Repair(s), Calls(b)), Results(b))
<1> DEFINE p == Append(s, Calls(b))
           q == Append(p, Results(b))
           m == Len(s) + 1
           n == Len(s) + 2
           f == Cleaned(s)
           g == Cleaned(q)
           S == Places(s)
<1>1. /\ Calls(b) \in Turns /\ Calls(b).kind = "calls" /\ Calls(b).batch = b
      /\ Results(b) \in Turns /\ Results(b).kind = "results" /\ Results(b).batch = b
    BY ToolTurns
<1>2. /\ p \in Seq(Turns) /\ Len(p) = m
      /\ \A i \in 1..Len(s) : p[i] = s[i]
      /\ p[m] = Calls(b) /\ m \in Nat /\ n \in Nat /\ m + 1 = n
    BY <1>1, AppendIs
<1>3. Batches(p, "calls") = Batches(s, "calls") \cup {b} /\ Batches(p, "results") = Batches(s, "results")
    <2>1. \A kind : Batches(Append(s, Calls(b)), kind) =
             Batches(s, kind) \cup (IF Calls(b).kind = kind THEN {Calls(b).batch} ELSE {})
        BY <1>1, BatchesGrow
    <2> QED
        BY <1>1, <2>1
<1> HIDE DEF p
<1>4. /\ q \in Seq(Turns) /\ Len(q) = n
      /\ \A i \in 1..Len(s) : q[i] = s[i]
      /\ q[m] = Calls(b) /\ q[n] = Results(b)
      /\ \A i \in 1..n : i \in 1..Len(s) \/ i = m \/ i = n
      /\ \A i \in 1..Len(s) : i \in 1..n /\ i < m /\ i < n
      /\ m \in 1..n /\ n \in 1..n
    <2>1. /\ q \in Seq(Turns) /\ Len(q) = n /\ q[n] = Results(b)
          /\ \A i \in 1..m : q[i] = p[i]
        BY <1>1, <1>2, AppendIs
    <2>2. /\ \A i \in 1..n : i \in 1..Len(s) \/ i = m \/ i = n
          /\ \A i \in 1..Len(s) : i \in 1..n /\ i < m /\ i < n /\ i \in 1..m
          /\ m \in 1..n /\ n \in 1..n /\ m \in 1..m
        OBVIOUS
    <2> HIDE DEF q, m, n
    <2> QED
        BY <1>2, <2>1, <2>2
<1>5. Batches(q, "calls") = Batches(s, "calls") \cup {b} /\ Batches(q, "results") = Batches(s, "results") \cup {b}
    <2>1. \A kind : Batches(Append(p, Results(b)), kind) =
             Batches(p, kind) \cup (IF Results(b).kind = kind THEN {Results(b).batch} ELSE {})
        BY <1>1, <1>2, BatchesGrow
    <2> QED
        BY <1>1, <1>3, <2>1
<1>6. S \in SUBSET Nat /\ IsFiniteSet(S) /\ S \in SUBSET (1..Len(s))
    BY PlacesAre
<1> HIDE DEF q, m, n
<1>7. ASSUME NEW y \in 1..Len(s)
      PROVE  /\ (s[y].kind = "calls" => (s[y].batch \in Batches(q, "results") <=> s[y].batch \in Batches(s, "results")))
             /\ (s[y].kind = "results" => (s[y].batch \in Batches(q, "calls") <=> s[y].batch \in Batches(s, "calls")))
    <2>1. s[y].kind = "calls" => s[y].batch # b
        BY DEF Batches
    <2>2. s[y].kind = "results" => s[y].batch # b
        BY DEF Batches
    <2> QED
        BY <1>5, <2>1, <2>2
<1>8. ASSUME NEW y \in S PROVE g[y] = f[y] /\ f[y] \in Turns
    <2>1. y \in 1..Len(s) /\ y \in 1..Len(q)
        BY <1>4, <1>6
    <2>a. f[y] = s[y] <=> (s[y].kind = "calls" => s[y].batch \in Batches(s, "results"))
        BY <2>1, CleanedIs
    <2>b. q[y] = s[y]
        BY <1>4, <2>1
    <2>c. g[y] = q[y] <=> (q[y].kind = "calls" => q[y].batch \in Batches(q, "results"))
        BY <1>4, <2>1, CleanedIs
    <2>2. f[y] = s[y] <=> g[y] = s[y]
        BY <1>7, <2>1, <2>a, <2>b, <2>c
    <2>3. (f[y] = s[y] \/ f[y] = Text) /\ (g[y] = s[y] \/ g[y] = Text) /\ f[y] \in Turns
        BY <1>4, <2>1, CleanedIs
    <2> QED
        BY <2>2, <2>3
<1>9. g[m] = Calls(b) /\ g[n] = Results(b)
    <2>1. m \in 1..Len(q) /\ n \in 1..Len(q)
        BY <1>4
    <2> QED
        BY <1>1, <1>4, <1>5, <2>1, CleanedIs
<1>10. Places(q) = (S \cup {m}) \cup {n}
    <2>1. Places(q) \in SUBSET (1..n)
        BY <1>4, PlacesAre
    <2>2. ASSUME NEW i \in 1..Len(s) PROVE i \in Places(q) <=> i \in S
        <3>1. i \in 1..Len(q) /\ q[i] = s[i]
            BY <1>4
        <3>2. i \in Places(q) <=> (q[i].kind = "results" => q[i].batch \in Batches(q, "calls"))
            BY <1>4, <3>1, PlacesAre
        <3>3. i \in S <=> (s[i].kind = "results" => s[i].batch \in Batches(s, "calls"))
            BY PlacesAre
        <3>4. s[i].kind = "results" => (s[i].batch \in Batches(q, "calls") <=> s[i].batch \in Batches(s, "calls"))
            BY <1>7
        <3> HIDE DEF S
        <3> QED
            BY <3>1, <3>2, <3>3, <3>4
    <2>3. m \in Places(q) /\ n \in Places(q)
        BY <1>1, <1>4, <1>5, PlacesAre
    <2> HIDE DEF S
    <2> QED
        BY <1>4, <1>6, <2>1, <2>2, <2>3
<1> HIDE DEF f, g, S
<1>11. Kept(g, S \cup {m}) = Append(Kept(f, S), Calls(b))
    <2>1. \A y \in S : y < m /\ g[y] = f[y] /\ f[y] \in Turns
        BY <1>4, <1>6, <1>8
    <2>2. Grows(f, g, S, Turns, m)
        BY <1>1, <1>2, <1>6, <1>9, <2>1 DEF Grows
    <2> QED
        BY <1>9, <2>2, KeptAppend
<1>12. Kept(g, (S \cup {m}) \cup {n}) = Append(Kept(g, S \cup {m}), Results(b))
    <2> DEFINE L == S \cup {m}
    <2>1. \A y \in L : y < n /\ g[y] = g[y] /\ g[y] \in Turns
        <3>1. m < n
            BY <1>2
        <3> QED
            BY <1>1, <1>4, <1>6, <1>8, <1>9, <3>1
    <2>2. L \in SUBSET Nat /\ IsFiniteSet(L)
        BY <1>2, <1>6, FS_AddElement
    <2> HIDE DEF L
    <2>3. Grows(g, g, L, Turns, n)
        BY <1>1, <1>2, <1>9, <2>1, <2>2 DEF Grows
    <2>4. Kept(g, L \cup {n}) = Append(Kept(g, L), Results(b))
        BY <1>9, <2>3, KeptAppend
    <2> QED
        BY <2>4 DEF L
<1>13. Repair(q) = Append(Append(Repair(s), Calls(b)), Results(b))
    BY <1>10, <1>11, <1>12 DEF Repair, f, g, S
<1> QED
    BY <1>13 DEF q, p

LEMMA TailAppend ==
    ASSUME NEW h \in Seq(Turns), NEW s \in Seq(Turns), NEW t \in Turns, IsTail(h, s)
    PROVE  IsTail(Append(h, t), Append(s, t))
<1>1. /\ Len(h) \in Nat /\ Len(s) \in Nat /\ Len(h) <= Len(s)
      /\ \A i \in 1..Len(h) : h[i] = s[Len(s) - Len(h) + i]
    BY DEF IsTail
<1>2. Len(Append(h, t)) = Len(h) + 1 /\ Len(Append(s, t)) = Len(s) + 1
    BY AppendIs
<1>3. ASSUME NEW i \in 1..(Len(h) + 1)
      PROVE  Append(h, t)[i] = Append(s, t)[(Len(s) + 1) - (Len(h) + 1) + i]
    <2> DEFINE j == (Len(s) + 1) - (Len(h) + 1) + i
    <2>1. CASE i = Len(h) + 1
        <3>1. j = Len(s) + 1
            BY <1>1, <2>1
        <3> HIDE DEF j
        <3> QED
            BY <2>1, <3>1, AppendIs DEF j
    <2>2. CASE i # Len(h) + 1
        <3>1. i \in 1..Len(h) /\ j \in 1..Len(s) /\ j = Len(s) - Len(h) + i
            BY <1>1, <2>2
        <3>2. h[i] = s[j]
            BY <1>1, <3>1
        <3> HIDE DEF j
        <3>3. Append(h, t)[i] = h[i] /\ Append(s, t)[j] = s[j]
            BY <3>1, AppendIs
        <3> QED
            BY <3>2, <3>3 DEF j
    <2> QED
        BY <2>1, <2>2
<1>4. Len(h) + 1 <= Len(s) + 1
    BY <1>1
<1> QED
    BY <1>2, <1>3, <1>4 DEF IsTail

LEMMA ReverseIs ==
    ASSUME NEW s \in Seq(Turns)
    PROVE  /\ Reverse(s) \in Seq(Turns) /\ Len(Reverse(s)) = Len(s)
           /\ \A i \in 1..Len(s) : Reverse(s)[i] = s[(Len(s) - i) + 1]
<1> DEFINE n == Len(s)
<1>1. n \in Nat /\ \A i \in 1..n : s[(n - i) + 1] \in Turns
    OBVIOUS
<1>2. Reverse(s) = [i \in 1..n |-> s[(n - i) + 1]]
    BY DEF Reverse
<1> HIDE DEF n
<1>3. /\ Reverse(s) \in Seq(Turns) /\ Len(Reverse(s)) = n
      /\ \A i \in 1..n : Reverse(s)[i] = s[(n - i) + 1]
    BY <1>1, <1>2
<1> QED
    BY <1>3 DEF n

LEMMA TailIsSuffix ==
    ASSUME NEW h \in Seq(Turns), NEW s \in Seq(Turns), IsTail(h, s)
    PROVE  IsSuffix(h, s)
<1> DEFINE p == Reverse(h)
           q == Reverse(s)
           n == Len(h)
           m == Len(s)
<1>1. /\ n \in Nat /\ m \in Nat /\ n <= m
    BY DEF IsTail
<1>2. \A i \in 1..n : h[i] = s[m - n + i]
    BY DEF IsTail
<1>3. /\ p \in Seq(Turns) /\ Len(p) = n /\ \A i \in 1..n : p[i] = h[(n - i) + 1]
      /\ q \in Seq(Turns) /\ Len(q) = m /\ \A i \in 1..m : q[i] = s[(m - i) + 1]
    BY ReverseIs
<1> HIDE DEF p, q, n, m
<1>5. ASSUME NEW i \in 1..n PROVE p[i] = q[i]
    <2> DEFINE j == (n - i) + 1
    <2>1. j \in 1..n /\ m - n + j = (m - i) + 1 /\ i \in 1..m
        BY <1>1
    <2>2. p[i] = h[j] /\ q[i] = s[(m - i) + 1]
        BY <1>3, <2>1
    <2> HIDE DEF j
    <2> QED
        BY <1>2, <2>1, <2>2
<1>6. SubSeq(p, 1, n) = [i \in 1..n |-> p[i]] /\ SubSeq(q, 1, n) = [i \in 1..n |-> q[i]]
    BY <1>1, <1>3
<1>7. SubSeq(p, 1, n) = SubSeq(q, 1, n)
    BY <1>5, <1>6
<1>8. IsPrefix(p, q)
    BY <1>1, <1>3, <1>7 DEF IsPrefix
<1> QED
    BY <1>8 DEF IsSuffix, p, q

--------------------------------------------------------------------------------
(* What may follow what, and where a history is cut for a summary.            *)

\* A turn may follow if its step is new, or its calls are the last turn.
Follows(t, s) ==
    /\ t.kind \in {"calls", "results"} => \A i \in DOMAIN s : s[i] # t
    /\ t.kind = "calls" => \A i \in DOMAIN s : s[i] # Results(t.batch)
    /\ t.kind = "results" => \A i \in DOMAIN s : s[i] = Calls(t.batch) => i = Len(s)

LEMMA LooseAppend ==
    ASSUME NEW s \in Seq(Turns), NEW t \in Turns, Loose(s), Follows(t, s)
    PROVE  Loose(Append(s, t))
<1> DEFINE q == Append(s, t)
           n == Len(s) + 1
<1>1. /\ DOMAIN s = 1..Len(s) /\ DOMAIN q = 1..n /\ q[n] = t
      /\ \A i \in 1..Len(s) : q[i] = s[i] /\ i \in Int /\ i < n
      /\ \A i \in 1..n : i \in 1..Len(s) \/ i = n
      /\ Len(s) + 1 = n
    BY AppendIs
<1>2. t.kind = "results" => t = Results(t.batch)
    BY TurnIs
<1>3. t.kind = "calls" => t # Results(t.batch)
    BY DEF Results
<1> HIDE DEF q, n
<1>4. ASSUME NEW i \in 1..n, NEW j \in 1..n
      PROVE  /\ q[i].kind \in {"calls", "results"} /\ q[j] = q[i] => j = i
             /\ q[i].kind = "calls" /\ q[j] = Results(q[i].batch) => j = i + 1
    <2>1. CASE i \in 1..Len(s) /\ j \in 1..Len(s)
        BY <1>1, <2>1 DEF Loose
    <2>2. CASE i = n /\ j = n
        BY <1>1, <1>3, <2>2
    <2>3. CASE i = n /\ j \in 1..Len(s)
        <3>1. q[i] = t /\ q[j] = s[j] /\ j \in DOMAIN s
            BY <1>1, <2>3
        <3> QED
            BY <3>1 DEF Follows
    <2>4. CASE i \in 1..Len(s) /\ j = n
        <3>1. q[i] = s[i] /\ q[j] = t /\ i \in DOMAIN s
            BY <1>1, <2>4
        <3>2. q[i].kind \in {"calls", "results"} => q[j] # q[i]
            BY <3>1 DEF Follows
        <3>3. ASSUME q[i].kind = "calls", q[j] = Results(q[i].batch) PROVE j = i + 1
            <4>1. t.kind = "results" /\ t.batch = s[i].batch
                BY <3>1, <3>3 DEF Results
            <4>2. s[i] \in Turns /\ s[i].kind = "calls"
                BY <3>1, <3>3
            <4>3. s[i] = Calls(t.batch)
                BY <4>1, <4>2, TurnIs
            <4>4. i = Len(s)
                BY <3>1, <4>1, <4>3 DEF Follows
            <4> QED
                BY <1>1, <2>4, <4>4
        <3> QED
            BY <3>2, <3>3
    <2> QED
        BY <1>1, <2>1, <2>2, <2>3, <2>4
<1>5. Loose(q)
    BY <1>1, <1>4 DEF Loose
<1> QED
    BY <1>5 DEF q

LEMMA PairedPlain ==
    ASSUME NEW s \in Seq(Turns), NEW t \in {User, Text, Empty}, Paired(s)
    PROVE  Paired(Append(s, t))
<1> DEFINE q == Append(s, t)
           n == Len(s) + 1
<1>0. t \in Turns /\ t.kind # "calls" /\ t.kind # "results"
    BY PlainTurns
<1>1. /\ DOMAIN s = 1..Len(s) /\ DOMAIN q = 1..n /\ q[n] = t /\ Len(q) = n
      /\ \A i \in 1..Len(s) : q[i] = s[i]
      /\ \A i \in 1..n : i \in 1..Len(s) \/ i = n
      /\ Len(s) + 1 = n /\ Len(s) \in Nat
    BY <1>0, AppendIs
<1> HIDE DEF q, n
<1>2. ASSUME NEW i \in 1..n
      PROVE  /\ q[i].kind = "calls" => i < n /\ q[i + 1] = Results(q[i].batch)
             /\ q[i].kind = "results" => i > 1 /\ q[i - 1] = Calls(q[i].batch)
    <2>1. CASE i = n
        BY <1>0, <1>1, <2>1
    <2>2. CASE i \in 1..Len(s)
        <3>1. /\ q[i] = s[i]
              /\ s[i].kind = "calls" => i < Len(s) /\ s[i + 1] = Results(s[i].batch)
              /\ s[i].kind = "results" => i > 1 /\ s[i - 1] = Calls(s[i].batch)
            BY <1>1, <2>2 DEF Paired
        <3>2. i < Len(s) => i + 1 \in 1..Len(s) /\ i < n
            BY <1>1, <2>2
        <3>3. i > 1 => i - 1 \in 1..Len(s)
            BY <1>1, <2>2
        <3> QED
            BY <1>1, <3>1, <3>2, <3>3
    <2> QED
        BY <1>1, <2>1, <2>2
<1>3. Paired(q)
    BY <1>1, <1>2 DEF Paired
<1> QED
    BY <1>3 DEF q

LEMMA PairedStep ==
    ASSUME NEW s \in Seq(Turns), NEW b \in 1..MaxBatches, Paired(s)
    PROVE  Paired(Append(Append(s, Calls(b)), Results(b)))
<1> DEFINE p == Append(s, Calls(b))
           q == Append(p, Results(b))
           m == Len(s) + 1
           n == Len(s) + 2
<1>0. /\ Calls(b) \in Turns /\ Calls(b).kind = "calls" /\ Calls(b).batch = b
      /\ Results(b) \in Turns /\ Results(b).kind = "results" /\ Results(b).batch = b
    BY ToolTurns
<1>1. /\ p \in Seq(Turns) /\ Len(p) = m /\ p[m] = Calls(b)
      /\ \A i \in 1..Len(s) : p[i] = s[i]
      /\ DOMAIN s = 1..Len(s)
    BY <1>0, AppendIs
<1> HIDE DEF p
<1>2. /\ DOMAIN q = 1..n /\ Len(q) = n /\ q[n] = Results(b)
      /\ \A i \in 1..m : q[i] = p[i]
    <2>1. m + 1 = n
        OBVIOUS
    <2> HIDE DEF m, n
    <2> QED
        BY <1>0, <1>1, <2>1, AppendIs
<1>3. /\ \A i \in 1..n : i \in 1..Len(s) \/ i = m \/ i = n
      /\ \A i \in 1..Len(s) : i \in 1..m
      /\ m < n /\ m + 1 = n /\ n - 1 = m /\ n > 1 /\ m \in 1..m
      /\ Len(s) \in Nat
    OBVIOUS
<1> HIDE DEF q
<1>4. ASSUME NEW i \in 1..n
      PROVE  /\ q[i].kind = "calls" => i < n /\ q[i + 1] = Results(q[i].batch)
             /\ q[i].kind = "results" => i > 1 /\ q[i - 1] = Calls(q[i].batch)
    <2>1. CASE i = n
        <3> HIDE DEF m, n
        <3> QED
            BY <1>0, <1>1, <1>2, <1>3, <2>1
    <2>2. CASE i = m
        <3> HIDE DEF m, n
        <3> QED
            BY <1>0, <1>1, <1>2, <1>3, <2>2
    <2>3. CASE i \in 1..Len(s)
        <3>1. /\ q[i] = s[i]
              /\ s[i].kind = "calls" => i < Len(s) /\ s[i + 1] = Results(s[i].batch)
              /\ s[i].kind = "results" => i > 1 /\ s[i - 1] = Calls(s[i].batch)
            <4> HIDE DEF m, n
            <4> QED
                BY <1>1, <1>2, <1>3, <2>3 DEF Paired
        <3>2. i < Len(s) => i + 1 \in 1..Len(s) /\ i < n
            BY <1>3, <2>3
        <3>3. i > 1 => i - 1 \in 1..Len(s)
            BY <1>3, <2>3
        <3> HIDE DEF m, n
        <3> QED
            BY <1>1, <1>2, <1>3, <3>1, <3>2, <3>3
    <2> QED
        BY <1>3, <2>1, <2>2, <2>3
<1> HIDE DEF m, n
<1>5. Paired(q)
    BY <1>2, <1>4 DEF Paired
<1> QED
    BY <1>5 DEF q, p

LEMMA GreatestIsThere ==
    ASSUME NEW k \in Nat, NEW S \in SUBSET (0..k), S # {}
    PROVE  Max(S) \in S
<1> DEFINE t == {k - m : m \in S}
           R == OpToRel(<, Nat)
<1>0. \A m \in S : m \in Nat /\ k - m \in Nat
    OBVIOUS
<1>1. t \in SUBSET Nat /\ t # {}
    BY <1>0
<1>2. R = {p \in Nat \X Nat : p[1] < p[2]}
    BY DEF OpToRel
<1>3. IsWellFoundedOn(R, Nat)
    BY NatLessThanWellFounded
<1> HIDE DEF R, t
<1>4. PICK x \in t : \A y \in t : ~(<<y, x>> \in R)
    BY <1>1, <1>3, WFMin, Zenon
<1>5. ASSUME NEW y \in t PROVE x <= y
    <2> DEFINE p == <<y, x>>
    <2>1. p \in Nat \X Nat /\ p[1] = y /\ p[2] = x
        BY <1>1
    <2>2. p \notin R
        BY <1>4
    <2> HIDE DEF p
    <2>3. ~(y < x)
        BY <1>2, <2>1, <2>2
    <2> QED
        BY <1>1, <2>3
<1>6. PICK z \in S : x = k - z
    BY DEF t
<1>7. ASSUME NEW m \in S PROVE z >= m
    <2>1. k - m \in t
        BY DEF t
    <2>2. x <= k - m
        BY <1>5, <2>1
    <2> QED
        BY <1>0, <1>6, <2>2
<1> QED
    BY <1>7 DEF Max

\* Where a history is cut, no results are left without their calls.
LEMMA SplitIsSafe ==
    ASSUME NEW s \in Seq(Turns), SafeSplitPoint(s) > 0
    PROVE  SafeSplitPoint(s) \in 1..(Len(s) - 1) /\ IsSafeBoundary(s, SafeSplitPoint(s))
<1> DEFINE T == {i \in 1..(Len(s) - KeepRecent) : IsSafeBoundary(s, i)}
           S == {0} \cup T
           split == SafeSplitPoint(s)
<1>1. KeepRecent \in Nat /\ KeepRecent >= 2 /\ Len(s) \in Nat
    BY TranscriptAssumption DEF TranscriptAssumption
<1>2. Len(s) > KeepRecent + 1 /\ split = Max(S)
    BY <1>1 DEF SafeSplitPoint
<1>3. S \in SUBSET (0..(Len(s) - KeepRecent)) /\ S # {} /\ Len(s) - KeepRecent \in Nat
    BY <1>1, <1>2
<1> HIDE DEF S
<1>4. split \in S
    BY <1>2, <1>3, GreatestIsThere
<1>5. split \in 1..(Len(s) - KeepRecent) /\ IsSafeBoundary(s, split)
    <2> HIDE DEF split
    <2> QED
        BY <1>4 DEF S, split
<1> QED
    BY <1>1, <1>5

LEMMA PrependIs ==
    ASSUME NEW w \in Seq(Turns), NEW t \in Turns
    PROVE  /\ <<t>> \o w \in Seq(Turns) /\ Len(<<t>> \o w) = Len(w) + 1
           /\ (<<t>> \o w)[1] = t
           /\ \A i \in 2..(Len(w) + 1) : (<<t>> \o w)[i] = w[i - 1]
<1> DEFINE u == <<t>>
<1>1. u \in Seq(Turns) /\ Len(u) = 1 /\ u[1] = t
    OBVIOUS
<1> HIDE DEF u
<1>2. /\ u \o w \in Seq(Turns) /\ Len(u \o w) = Len(u) + Len(w)
      /\ \A i \in 1..(Len(u) + Len(w)) :
            (u \o w)[i] = IF i <= Len(u) THEN u[i] ELSE w[i - Len(u)]
    BY <1>1, ConcatProperties
<1> DEFINE q == u \o w
           n == Len(w)
<1>3. n \in Nat
    OBVIOUS
<1> HIDE DEF q, n
<1>4. /\ q \in Seq(Turns) /\ Len(q) = n + 1
      /\ \A i \in 1..(n + 1) : q[i] = IF i <= 1 THEN u[i] ELSE w[i - 1]
    BY <1>1, <1>2, <1>3 DEF q, n
<1>5. q[1] = t
    BY <1>1, <1>3, <1>4
<1>6. \A i \in 2..(n + 1) : q[i] = w[i - 1]
    BY <1>3, <1>4
<1> QED
    BY <1>4, <1>5, <1>6 DEF q, n, u

\* A summary leaves the rest of the history paired.
LEMMA SummaryPairs ==
    ASSUME NEW s \in Seq(Turns), Paired(s), NEW k \in 1..(Len(s) - 1), IsSafeBoundary(s, k)
    PROVE  LET q == <<User>> \o SubSeq(s, k + 1, Len(s)) IN
           q \in Seq(Turns) /\ Len(q) <= Len(s) /\ Paired(q)
<1> DEFINE w == SubSeq(s, k + 1, Len(s))
           q == <<User>> \o w
           n == Len(s)
<1>1. n \in Nat /\ w \in Seq(Turns) /\ Len(w) = n - k /\ \A i \in 1..(n - k) : w[i] = s[i + k]
    OBVIOUS
<1>2. User \in Turns /\ User.kind # "calls" /\ User.kind # "results"
    BY PlainTurns
<1> HIDE DEF w
<1>3. /\ q \in Seq(Turns) /\ Len(q) = (n - k) + 1 /\ q[1] = User
      /\ \A i \in 2..((n - k) + 1) : q[i] = w[i - 1]
    <2>1. /\ q \in Seq(Turns) /\ Len(q) = Len(w) + 1 /\ q[1] = User
          /\ \A i \in 2..(Len(w) + 1) : q[i] = w[i - 1]
        BY <1>1, <1>2, PrependIs
    <2> HIDE DEF q, n
    <2> QED
        BY <1>1, <2>1
<1>4. s[k + 1].kind # "results"
    BY DEF IsSafeBoundary
<1> HIDE DEF q
<1>5. \A i \in 2..((n - k) + 1) : q[i] = s[i + k - 1] /\ i + k - 1 \in 1..n
    <2> SUFFICES ASSUME NEW i \in 2..((n - k) + 1)
                 PROVE  q[i] = s[i + k - 1] /\ i + k - 1 \in 1..n
        OBVIOUS
    <2>1. i - 1 \in 1..(n - k) /\ (i - 1) + k = i + k - 1 /\ i + k - 1 \in 1..n
        BY <1>1
    <2> QED
        BY <1>1, <1>3, <2>1
<1>6. ASSUME NEW i \in 1..Len(q)
      PROVE  /\ q[i].kind = "calls" => i < Len(q) /\ q[i + 1] = Results(q[i].batch)
             /\ q[i].kind = "results" => i > 1 /\ q[i - 1] = Calls(q[i].batch)
    <2>1. CASE i = 1
        BY <1>2, <1>3, <2>1
    <2>2. CASE i # 1
        <3> DEFINE j == i + k - 1
        <3>1. i \in 2..((n - k) + 1)
            BY <1>1, <1>3, <2>2
        <3>2. q[i] = s[j] /\ j \in 1..n
            BY <1>5, <3>1
        <3>3. /\ s[j].kind = "calls" => j < n /\ s[j + 1] = Results(s[j].batch)
              /\ s[j].kind = "results" => j > 1 /\ s[j - 1] = Calls(s[j].batch)
            BY <3>2 DEF Paired
        <3>4. ASSUME q[i].kind = "calls"
              PROVE  i < Len(q) /\ q[i + 1] = Results(q[i].batch)
            <4>0. j < n
                BY <3>2, <3>3, <3>4
            <4>1. i + 1 \in 2..((n - k) + 1) /\ (i + 1) + k - 1 = j + 1 /\ i < (n - k) + 1
                <5>1. n \in Nat
                    BY <1>1
                <5>2. i \in Nat /\ i >= 2 /\ i + k - 1 < n
                    BY <3>1, <4>0
                <5> HIDE DEF n
                <5> QED
                    BY <5>1, <5>2
            <4>2. q[i + 1] = s[j + 1]
                BY <1>5, <4>1
            <4> QED
                BY <1>3, <3>2, <3>3, <3>4, <4>1, <4>2
        <3>5. ASSUME q[i].kind = "results"
              PROVE  i > 1 /\ q[i - 1] = Calls(q[i].batch)
            <4>1. i # 2
                BY <1>4, <3>2, <3>5
            <4>2. i - 1 \in 2..((n - k) + 1) /\ (i - 1) + k - 1 = j - 1 /\ i > 1
                BY <1>1, <3>1, <4>1
            <4>3. q[i - 1] = s[j - 1]
                BY <1>5, <4>2
            <4> QED
                BY <3>2, <3>3, <3>5, <4>2, <4>3
        <3> QED
            BY <3>4, <3>5
    <2> QED
        BY <2>1, <2>2
<1>7. Paired(q)
    BY <1>3, <1>6 DEF Paired
<1>8. Len(q) <= n
    BY <1>1, <1>3
<1> QED
    BY <1>3, <1>7, <1>8 DEF q, w

--------------------------------------------------------------------------------
(* What Anthropic's service takes.                                            *)

LEMMA WidthIs == Width \in Nat /\ Width >= 1
BY TranscriptAssumption DEF TranscriptAssumption

LEMMA IdsAre ==
    ASSUME NEW t \in Turns
    PROVE  /\ Ids(t) # {} /\ IsFiniteSet(Ids(t)) /\ Cardinality(Ids(t)) = Width
           /\ Ids(t) = {<<t.batch, i>> : i \in 1..Width}
<1> DEFINE W == 1..Width
           T == {<<t.batch, i>> : i \in W}
           f == [i \in W |-> <<t.batch, i>>]
<1>1. IsFiniteSet(W) /\ Cardinality(W) = Width /\ 1 \in W
    BY WidthIs, FS_Interval
<1>2. Ids(t) = T
    BY DEF Ids
<1>3. f \in [W -> T] /\ \A i \in W : f[i] = <<t.batch, i>>
    OBVIOUS
<1>4. \A i, j \in W : f[i] = f[j] => i = j
    OBVIOUS
<1>5. \A x \in T : \E i \in W : f[i] = x
    OBVIOUS
<1>6. T # {}
    BY <1>1
<1> HIDE DEF W, T, f
<1>7. f \in Bijection(W, T)
    BY <1>3, <1>4, <1>5, Fun_IsBij
<1>8. ExistsBijection(W, T)
    BY <1>7, Fun_ExistsBij
<1>9. IsFiniteSet(T) /\ Cardinality(T) = Cardinality(W)
    BY <1>1, <1>8, FS_Bijection
<1> QED
    BY <1>1, <1>2, <1>6, <1>9 DEF T, W

\* What a message of Anthropic's uses and answers.
Parts(message, type) == {b[2] : b \in {c \in message.blocks : c[1] = type}}

OneType(m, type, I) == m.blocks = {type} \X I /\ I # {}

LEMMA PartsOfOneType ==
    ASSUME NEW m, NEW type, NEW I, OneType(m, type, I)
    PROVE  /\ m.blocks # {} /\ Parts(m, type) = I
           /\ \A other : other # type => Parts(m, other) = {}
<1>0. m.blocks = {type} \X I /\ I # {}
    BY DEF OneType
<1>1. \A c \in m.blocks : c[1] = type /\ c[2] \in I
    BY <1>0
<1>2. \A i \in I : <<type, i>> \in m.blocks
    BY <1>0
<1>3. m.blocks # {}
    BY <1>0, <1>2
<1>4. \A other : other # type => Parts(m, other) = {}
    BY <1>1 DEF Parts
<1>5. ASSUME NEW x PROVE x \in Parts(m, type) <=> x \in I
    <2>1. x \in Parts(m, type) <=> \E b \in m.blocks : b[1] = type /\ x = b[2]
        BY DEF Parts
    <2>2. x \in I => x \in Parts(m, type)
        <3> SUFFICES ASSUME x \in I PROVE x \in Parts(m, type)
            OBVIOUS
        <3> DEFINE b == <<type, x>>
        <3>1. b \in m.blocks /\ b[1] = type /\ b[2] = x
            BY <1>2
        <3> HIDE DEF b
        <3> QED
            BY <2>1, <3>1
    <2> QED
        BY <1>1, <2>1, <2>2
<1>6. Parts(m, type) = I
    BY <1>5, Zenon
<1> QED
    BY <1>3, <1>4, <1>6

LEMMA AnthropicMessage ==
    ASSUME NEW t \in Turns
    PROVE  LET m == EncodeAnthropic(t) IN
           /\ m.blocks # {}
           /\ Parts(m, "tool_use") = IF t.kind = "calls" THEN Ids(t) ELSE {}
           /\ Parts(m, "tool_result") = IF t.kind = "results" THEN Ids(t) ELSE {}
<1> DEFINE m == EncodeAnthropic(t)
<1>0. Ids(t) # {}
    BY IdsAre
<1>1. CASE t.kind = "calls"
    <2>1. {"tool_use"} \X Ids(t) # {}
        <3>1. \A i \in Ids(t) : <<"tool_use", i>> \in {"tool_use"} \X Ids(t)
            OBVIOUS
        <3> QED
            BY <1>0, <3>1
    <2>2. m.blocks = {"tool_use"} \X Ids(t)
        BY <1>1, <2>1 DEF EncodeAnthropic
    <2> HIDE DEF m
    <2>3. m.blocks # {} /\ Parts(m, "tool_use") = Ids(t) /\ Parts(m, "tool_result") = {}
        <3>1. "tool_use" # "tool_result" /\ "tool_result" # "tool_use"
            OBVIOUS
        <3>2. OneType(m, "tool_use", Ids(t))
            BY <1>0, <2>2 DEF OneType
        <3> QED
            BY <3>1, <3>2, PartsOfOneType
    <2> QED
        BY <1>1, <2>3 DEF m
<1>2. CASE t.kind = "results"
    <2>1. {"tool_result"} \X Ids(t) # {}
        <3>1. \A i \in Ids(t) : <<"tool_result", i>> \in {"tool_result"} \X Ids(t)
            OBVIOUS
        <3> QED
            BY <1>0, <3>1
    <2>2. m.blocks = {"tool_result"} \X Ids(t)
        BY <1>2, <2>1 DEF EncodeAnthropic
    <2> HIDE DEF m
    <2>3. m.blocks # {} /\ Parts(m, "tool_result") = Ids(t) /\ Parts(m, "tool_use") = {}
        <3>1. "tool_use" # "tool_result" /\ "tool_result" # "tool_use"
            OBVIOUS
        <3>2. OneType(m, "tool_result", Ids(t))
            BY <1>0, <2>2 DEF OneType
        <3> QED
            BY <3>1, <3>2, PartsOfOneType
    <2> QED
        BY <1>2, <2>3 DEF m
<1>3. CASE t.kind # "calls" /\ t.kind # "results"
    <2>1. m.blocks = {<<"text", <<>>>>}
        BY <1>3 DEF EncodeAnthropic
    <2> HIDE DEF m
    <2>2. \A c \in m.blocks : c[1] = "text"
        BY <2>1
    <2>3. Parts(m, "tool_result") = {} /\ Parts(m, "tool_use") = {}
        BY <2>2 DEF Parts
    <2> QED
        BY <1>3, <2>1, <2>3 DEF m
<1> QED
    BY <1>1, <1>2, <1>3

LEMMA PairedIsTakenByAnthropic ==
    ASSUME NEW s \in Seq(Turns), Paired(s)
    PROVE  TakenByAnthropic(WireAnthropic(s))
<1> DEFINE wire == WireAnthropic(s)
           n == Len(s)
           Of(i, type) == IF i \in DOMAIN wire THEN Parts(wire[i], type) ELSE {}
<1>1. /\ DOMAIN s = 1..n /\ n \in Nat
      /\ wire = [i \in 1..n |-> EncodeAnthropic(s[i])]
      /\ \A i \in 1..n : s[i] \in Turns
    BY DEF WireAnthropic
<1>2. Len(wire) = n /\ DOMAIN wire = 1..n /\ \A i \in 1..n : wire[i] = EncodeAnthropic(s[i])
    <2> HIDE DEF n, wire
    <2> QED
        BY <1>1
<1>3. ASSUME NEW i \in 0..n
      PROVE  /\ Of(i, "tool_use") = Of(i + 1, "tool_result")
             /\ i > 0 => wire[i].blocks # {}
    <2> HIDE DEF wire
    <2>1. ASSUME i > 0 PROVE wire[i].blocks # {}
        <3>1. i \in 1..n
            BY <2>1
        <3> HIDE DEF n
        <3> QED
            BY <1>1, <1>2, <3>1, AnthropicMessage
    <2>2. Of(i, "tool_use") = IF i \in 1..n /\ s[i].kind = "calls" THEN Ids(s[i]) ELSE {}
        <3> HIDE DEF n
        <3> QED
            BY <1>1, <1>2, AnthropicMessage
    <2>3. Of(i + 1, "tool_result") =
             IF i + 1 \in 1..n /\ s[i + 1].kind = "results" THEN Ids(s[i + 1]) ELSE {}
        <3> HIDE DEF n
        <3> QED
            BY <1>1, <1>2, AnthropicMessage
    <2>4. CASE i \in 1..n /\ s[i].kind = "calls"
        <3>1. i < n /\ s[i + 1] = Results(s[i].batch)
            BY <1>1, <2>4 DEF Paired
        <3>2. s[i + 1].kind = "results" /\ s[i + 1].batch = s[i].batch
            BY <3>1 DEF Results
        <3>3. i + 1 \in 1..n
            BY <1>1, <3>1
        <3>4. Ids(s[i + 1]) = Ids(s[i])
            BY <3>2 DEF Ids
        <3> HIDE DEF n, Of
        <3> QED
            BY <2>1, <2>2, <2>3, <2>4, <3>2, <3>3, <3>4
    <2>5. CASE ~(i \in 1..n /\ s[i].kind = "calls")
        <3>1. ~(i + 1 \in 1..n /\ s[i + 1].kind = "results")
            <4> SUFFICES ASSUME i + 1 \in 1..n, s[i + 1].kind = "results" PROVE FALSE
                OBVIOUS
            <4>1. i + 1 > 1 /\ s[(i + 1) - 1] = Calls(s[i + 1].batch)
                BY <1>1 DEF Paired
            <4>2. (i + 1) - 1 = i /\ i \in 1..n
                BY <4>1
            <4>3. s[i].kind = "calls"
                BY <4>1, <4>2 DEF Calls
            <4> QED
                BY <2>5, <4>2, <4>3
        <3> HIDE DEF n, Of
        <3> QED
            BY <2>1, <2>2, <2>3, <2>5, <3>1
    <2> QED
        BY <2>4, <2>5
<1> HIDE DEF wire, n
<1>4. TakenByAnthropic(wire)
    BY <1>2, <1>3 DEF TakenByAnthropic, Parts
<1> QED
    BY <1>4 DEF wire

--------------------------------------------------------------------------------
(* What OpenAI's service takes.                                               *)

\* How many messages of OpenAI's a turn takes.
Size(t) == IF t.kind = "results" THEN Width ELSE 1

ResultsUpTo(s, i) == {j \in 1..i : s[j].kind = "results"}

LEMMA CountIs ==
    ASSUME NEW s, NEW i \in Nat
    PROVE  IsFiniteSet(ResultsUpTo(s, i)) /\ Cardinality(ResultsUpTo(s, i)) \in Nat
<1>1. ResultsUpTo(s, i) \in SUBSET (1..i) /\ IsFiniteSet(1..i)
    BY FS_Interval DEF ResultsUpTo
<1> QED
    BY <1>1, FS_Subset, FS_CardinalityType

LEMMA TakenIs ==
    ASSUME NEW s, NEW i \in Nat
    PROVE  Taken(s, i) = i + (Width - 1) * Cardinality(ResultsUpTo(s, i)) /\ Taken(s, i) \in Nat
<1>1. Taken(s, i) = i + (Width - 1) * Cardinality(ResultsUpTo(s, i))
    BY DEF Taken, ResultsUpTo
<1> DEFINE c == Cardinality(ResultsUpTo(s, i))
           w == Width - 1
<1>2. c \in Nat /\ w \in Nat
    BY CountIs, WidthIs
<1> HIDE DEF c, w
<1>3. w * c \in Nat
    BY <1>2
<1> QED
    BY <1>1, <1>3 DEF c, w

LEMMA NoneTaken ==
    ASSUME NEW s
    PROVE  Taken(s, 0) = 0
<1>1. ResultsUpTo(s, 0) = {}
    BY DEF ResultsUpTo
<1>2. Cardinality(ResultsUpTo(s, 0)) = 0
    BY <1>1, FS_EmptySet
<1>3. Taken(s, 0) = 0 + (Width - 1) * 0
    BY <1>2, TakenIs
<1>4. Width - 1 \in Int
    BY WidthIs
<1> QED
    BY <1>3, <1>4

LEMMA TakenGrows ==
    ASSUME NEW s \in Seq(Turns), NEW i \in 1..Len(s)
    PROVE  /\ Taken(s, i) = Taken(s, i - 1) + Size(s[i])
           /\ Taken(s, i) \in Nat /\ Taken(s, i - 1) \in Nat /\ Size(s[i]) \in Nat \ {0}
<1> DEFINE k == i - 1
           A == ResultsUpTo(s, k)
           B == ResultsUpTo(s, i)
           c == Cardinality(A)
           w == Width - 1
<1>1. i \in Nat /\ k \in Nat /\ k + 1 = i /\ w \in Nat /\ Width = w + 1
    BY WidthIs
<1>2. IsFiniteSet(A) /\ c \in Nat
    BY <1>1, CountIs
<1>3. Taken(s, i) = i + w * Cardinality(B) /\ Taken(s, k) = k + w * c
      /\ Taken(s, i) \in Nat /\ Taken(s, k) \in Nat
    BY <1>1, TakenIs
<1>4. CASE s[i].kind = "results"
    <2>1. B = A \cup {i} /\ i \notin A
        <3>1. \A j \in 1..i : j \in 1..k \/ j = i
            BY <1>1
        <3>2. \A j \in 1..k : j \in 1..i /\ j # i
            BY <1>1
        <3>3. i \in 1..i
            BY <1>1
        <3> HIDE DEF k
        <3> QED
            BY <1>4, <3>1, <3>2, <3>3 DEF ResultsUpTo
    <2> HIDE DEF A, B
    <2>2. Cardinality(B) = c + 1
        BY <1>2, <2>1, FS_AddElement DEF c
    <2>3. Size(s[i]) = w + 1
        BY <1>1, <1>4 DEF Size
    <2> HIDE DEF c, w, k
    <2>4. w * (c + 1) = w * c + w
        BY <1>1, <1>2
    <2>5. w * c \in Nat
        BY <1>1, <1>2
    <2>6. Taken(s, i) = Taken(s, k) + Size(s[i]) /\ Size(s[i]) \in Nat \ {0}
        BY <1>1, <1>3, <2>2, <2>3, <2>4, <2>5
    <2> QED
        BY <1>3, <2>6 DEF k
<1>5. CASE s[i].kind # "results"
    <2>1. B = A
        <3>1. \A j \in 1..i : j \in 1..k \/ j = i
            BY <1>1
        <3>2. \A j \in 1..k : j \in 1..i
            BY <1>1
        <3> HIDE DEF k
        <3> QED
            BY <1>5, <3>1, <3>2 DEF ResultsUpTo
    <2>2. Size(s[i]) = 1
        BY <1>5 DEF Size
    <2> HIDE DEF A, B, c, w, k
    <2>3. w * c \in Nat /\ Cardinality(B) = c
        BY <1>1, <1>2, <2>1 DEF c
    <2>4. Taken(s, i) = Taken(s, k) + Size(s[i]) /\ Size(s[i]) \in Nat \ {0}
        BY <1>1, <1>3, <2>2, <2>3
    <2> QED
        BY <1>3, <2>4 DEF k
<1> QED
    BY <1>4, <1>5

LEMMA TakenRises ==
    ASSUME NEW s, NEW i \in Nat, NEW j \in Nat, i <= j
    PROVE  Taken(s, i) <= Taken(s, j)
<1> DEFINE w == Width - 1
           a == Cardinality(ResultsUpTo(s, i))
           b == Cardinality(ResultsUpTo(s, j))
<1>1. a \in Nat /\ b \in Nat /\ IsFiniteSet(ResultsUpTo(s, j))
    BY CountIs
<1>2. ResultsUpTo(s, i) \in SUBSET ResultsUpTo(s, j)
    <2>1. \A k \in 1..i : k \in 1..j
        OBVIOUS
    <2> QED
        BY <2>1 DEF ResultsUpTo
<1>3. a <= b
    BY <1>1, <1>2, FS_Subset
<1>4. Taken(s, i) = i + w * a /\ Taken(s, j) = j + w * b
    BY TakenIs
<1>5. w \in Nat
    BY WidthIs
<1> HIDE DEF w, a, b
<1>6. w * a <= w * b
    <2>1. PICK e \in Nat : b = a + e
        <3>1. b - a \in Nat /\ b = a + (b - a)
            BY <1>1, <1>3
        <3> QED
            BY <3>1
    <2>2. w * b = w * a + w * e /\ w * e \in Nat /\ w * a \in Nat
        BY <1>1, <1>5, <2>1
    <2> QED
        BY <2>2
<1>7. w * a \in Nat /\ w * b \in Nat
    BY <1>1, <1>5
<1> QED
    BY <1>4, <1>6, <1>7

LEMMA OpenAIMessage ==
    ASSUME NEW t \in Turns, NEW k \in 1..Size(t)
    PROVE  LET m == EncodeOpenAI(t)[k] IN
           /\ m.calls = IF t.kind = "calls" THEN Ids(t) ELSE {}
           /\ m.role = "tool" <=> t.kind = "results"
           /\ t.kind = "results" => m.id = <<t.batch, k>>
<1>1. CASE t.kind = "results"
    <2>1. EncodeOpenAI(t) = [i \in 1..Width |->
              [role |-> "tool", calls |-> {}, id |-> <<t.batch, i>>]]
        BY <1>1 DEF EncodeOpenAI
    <2>2. k \in 1..Width
        BY <1>1 DEF Size
    <2>3. EncodeOpenAI(t)[k] = [role |-> "tool", calls |-> {}, id |-> <<t.batch, k>>]
        BY <2>1, <2>2
    <2> QED
        BY <1>1, <2>3
<1>2. CASE t.kind # "results"
    <2>0. k = 1
        BY <1>2 DEF Size
    <2>1. CASE t.kind = "calls"
        <3>1. EncodeOpenAI(t) = <<[role |-> "assistant", calls |-> Ids(t), id |-> <<>>]>>
            BY <1>2, <2>1 DEF EncodeOpenAI
        <3>2. EncodeOpenAI(t)[k] = [role |-> "assistant", calls |-> Ids(t), id |-> <<>>]
            BY <2>0, <3>1
        <3> QED
            BY <2>1, <3>2
    <2>2. CASE t.kind # "calls"
        <3>1. EncodeOpenAI(t) =
                 <<[role |-> IF t.kind = "user" THEN "user" ELSE "assistant",
                    calls |-> {}, id |-> <<>>]>>
            BY <1>2, <2>2 DEF EncodeOpenAI
        <3>2. EncodeOpenAI(t)[k] =
                 [role |-> IF t.kind = "user" THEN "user" ELSE "assistant",
                  calls |-> {}, id |-> <<>>]
            BY <2>0, <3>1
        <3> QED
            BY <1>2, <2>2, <3>2
    <2> QED
        BY <2>1, <2>2
<1> QED
    BY <1>1, <1>2

\* Turn i is the one that message n comes from.
Source(s, i, n) == Taken(s, i - 1) < n /\ n <= Taken(s, i)

LEMMA OneSource ==
    ASSUME NEW s, NEW i \in 1..Len(s), NEW j \in 1..Len(s), NEW n \in Int,
           s \in Seq(Turns), Source(s, i, n), Source(s, j, n)
    PROVE  i = j
<1>0. /\ i \in Nat /\ j \in Nat /\ i - 1 \in Nat /\ j - 1 \in Nat
      /\ i < j => i <= j - 1
      /\ j < i => j <= i - 1
    OBVIOUS
<1>1. Taken(s, i) \in Nat /\ Taken(s, j) \in Nat /\ Taken(s, i - 1) \in Nat /\ Taken(s, j - 1) \in Nat
    BY TakenGrows
<1>2. ASSUME i < j PROVE FALSE
    <2>1. Taken(s, i) <= Taken(s, j - 1)
        BY <1>0, <1>2, TakenRises
    <2> QED
        BY <1>1, <2>1 DEF Source
<1>3. ASSUME j < i PROVE FALSE
    <2>1. Taken(s, j) <= Taken(s, i - 1)
        BY <1>0, <1>3, TakenRises
    <2> QED
        BY <1>1, <2>1 DEF Source
<1> QED
    BY <1>0, <1>2, <1>3

LEMMA ASource ==
    ASSUME NEW s \in Seq(Turns), NEW n \in 1..Taken(s, Len(s))
    PROVE  \E i \in 1..Len(s) : Source(s, i, n)
<1> DEFINE S == {j \in 0..Len(s) : n <= Taken(s, j)}
           R == OpToRel(<, Nat)
<1>0. Len(s) \in Nat /\ Taken(s, Len(s)) \in Nat
    BY TakenIs
<1>1. S \in SUBSET Nat /\ Len(s) \in S
    BY <1>0
<1>2. R = {p \in Nat \X Nat : p[1] < p[2]}
    BY DEF OpToRel
<1>3. IsWellFoundedOn(R, Nat)
    BY NatLessThanWellFounded
<1> HIDE DEF R, S
<1>4. PICK x \in S : \A y \in S : ~(<<y, x>> \in R)
    BY <1>1, <1>3, WFMin, Zenon
<1>5. ASSUME NEW y \in S PROVE x <= y
    <2> DEFINE p == <<y, x>>
    <2>1. p \in Nat \X Nat /\ p[1] = y /\ p[2] = x
        BY <1>1
    <2>2. p \notin R
        BY <1>4
    <2> HIDE DEF p
    <2>3. ~(y < x)
        BY <1>2, <2>1, <2>2
    <2> QED
        BY <1>1, <2>3
<1>6. x \in 0..Len(s) /\ n <= Taken(s, x)
    BY DEF S
<1>7. x # 0
    <2>1. Taken(s, 0) = 0
        BY NoneTaken
    <2> QED
        BY <1>0, <1>6, <2>1
<1>8. x \in 1..Len(s) /\ x - 1 \in 0..Len(s) /\ x - 1 \in Nat /\ ~(x <= x - 1)
    BY <1>0, <1>6, <1>7
<1>9. ~(n <= Taken(s, x - 1))
    BY <1>5, <1>8 DEF S
<1>10. Taken(s, x - 1) \in Nat
    BY <1>8, TakenIs
<1> QED
    BY <1>0, <1>6, <1>8, <1>9, <1>10 DEF Source

LEMMA WireIs ==
    ASSUME NEW s \in Seq(Turns)
    PROVE  /\ Len(WireOpenAI(s)) = Taken(s, Len(s)) /\ Taken(s, Len(s)) \in Nat
           /\ DOMAIN WireOpenAI(s) = 1..Taken(s, Len(s))
<1> DEFINE n == Taken(s, Len(s))
<1>1. n \in Nat
    BY TakenIs
<1>2. DOMAIN WireOpenAI(s) = 1..n
    BY DEF WireOpenAI
<1>3. WireOpenAI(s) = [i \in 1..n |-> WireOpenAI(s)[i]]
    BY DEF WireOpenAI
<1> HIDE DEF n
<1>4. Len(WireOpenAI(s)) = n
    BY <1>1, <1>2, <1>3
<1> QED
    BY <1>1, <1>2, <1>4 DEF n

\* The k-th message of turn i comes right after what the turns before it took.
LEMMA WireAt ==
    ASSUME NEW s \in Seq(Turns), NEW i \in 1..Len(s), NEW k \in 1..Size(s[i])
    PROVE  /\ Taken(s, i - 1) + k \in 1..Taken(s, Len(s))
           /\ WireOpenAI(s)[Taken(s, i - 1) + k] = EncodeOpenAI(s[i])[k]
<1> DEFINE n == Taken(s, i - 1) + k
           P(j) == Taken(s, j - 1) < n /\ n <= Taken(s, j)
<1>1. /\ Taken(s, i) = Taken(s, i - 1) + Size(s[i])
      /\ Taken(s, i) \in Nat /\ Taken(s, i - 1) \in Nat /\ Size(s[i]) \in Nat \ {0}
    BY TakenGrows
<1>2. n \in Int /\ n >= 1 /\ Taken(s, i - 1) < n /\ n <= Taken(s, i) /\ n - Taken(s, i - 1) = k
    <2>1. k \in Nat /\ 1 <= k /\ k <= Size(s[i])
        BY <1>1
    <2> QED
        BY <1>1, <2>1
<1>3. Taken(s, i) <= Taken(s, Len(s)) /\ Taken(s, Len(s)) \in Nat
    BY TakenRises, TakenIs
<1>4. n \in 1..Taken(s, Len(s))
    BY <1>1, <1>2, <1>3
<1>5. DOMAIN s = 1..Len(s)
    OBVIOUS
<1>6. P(i) /\ \A j \in DOMAIN s : P(j) => j = i
    <2> HIDE DEF n
    <2> QED
        BY <1>2, <1>5, OneSource DEF Source
<1>7. WireOpenAI(s)[n] =
         LET j == CHOOSE j \in DOMAIN s : P(j)
         IN EncodeOpenAI(s[j])[n - Taken(s, j - 1)]
    <2> HIDE DEF n
    <2> QED
        BY <1>4 DEF WireOpenAI
<1> HIDE DEF P
<1>8. (CHOOSE j \in DOMAIN s : P(j)) = i
    BY <1>5, <1>6
<1> HIDE DEF n
<1>9. WireOpenAI(s)[n] = EncodeOpenAI(s[i])[k]
    BY <1>2, <1>7, <1>8
<1> QED
    BY <1>4, <1>9 DEF n

LEMMA WireFrom ==
    ASSUME NEW s \in Seq(Turns), NEW n \in 1..Taken(s, Len(s))
    PROVE  \E i \in 1..Len(s) : \E k \in 1..Size(s[i]) : n = Taken(s, i - 1) + k
<1>1. PICK i \in 1..Len(s) : Source(s, i, n)
    BY ASource
<1>2. /\ Taken(s, i) = Taken(s, i - 1) + Size(s[i])
      /\ Taken(s, i) \in Nat /\ Taken(s, i - 1) \in Nat /\ Size(s[i]) \in Nat \ {0}
    BY TakenGrows
<1>3. n \in Int
    BY TakenIs
<1>4. n - Taken(s, i - 1) \in 1..Size(s[i]) /\ n = Taken(s, i - 1) + (n - Taken(s, i - 1))
    BY <1>1, <1>2, <1>3 DEF Source
<1> QED
    BY <1>4

\* The calls of a turn are answered by the messages of the next.
LEMMA CallsAnswered ==
    ASSUME NEW s \in Seq(Turns), Paired(s), NEW i \in 1..Len(s), s[i].kind = "calls"
    PROVE  LET n == Taken(s, i - 1) + 1
               wire == WireOpenAI(s)
           IN /\ n + Width <= Len(wire)
              /\ {wire[j].id : j \in (n + 1)..(n + Width)} = Ids(s[i])
<1> DEFINE n == Taken(s, i - 1) + 1
           wire == WireOpenAI(s)
           b == s[i].batch
<1>1. DOMAIN s = 1..Len(s) /\ Len(s) \in Nat /\ i \in Nat
    OBVIOUS
<1>2. i < Len(s) /\ s[i + 1] = Results(b)
    BY <1>1 DEF Paired
<1>3. i + 1 \in 1..Len(s) /\ (i + 1) - 1 = i
    BY <1>1, <1>2
<1>4. s[i + 1] \in Turns /\ s[i + 1].kind = "results" /\ s[i + 1].batch = b
    BY <1>2, <1>3 DEF Results
<1>5. Size(s[i]) = 1 /\ Size(s[i + 1]) = Width
    BY <1>4 DEF Size
<1>6. n \in Nat /\ n = Taken(s, i) /\ Taken(s, i + 1) = n + Width
    <2>1. Taken(s, i) = Taken(s, i - 1) + Size(s[i]) /\ Taken(s, i - 1) \in Nat
        BY TakenGrows
    <2>2. Taken(s, i + 1) = Taken(s, (i + 1) - 1) + Size(s[i + 1])
        BY <1>3, TakenGrows
    <2> QED
        BY <1>3, <1>5, <2>1, <2>2
<1>7. n + Width <= Len(wire)
    <2>1. Taken(s, i + 1) <= Taken(s, Len(s))
        BY <1>1, <1>3, TakenRises
    <2> QED
        BY <1>6, <2>1, WireIs
<1>8. ASSUME NEW k \in 1..Width PROVE wire[n + k].id = <<b, k>>
    <2>1. k \in 1..Size(s[i + 1])
        BY <1>5
    <2>2. wire[Taken(s, (i + 1) - 1) + k] = EncodeOpenAI(s[i + 1])[k]
        BY <1>3, <2>1, WireAt
    <2>3. EncodeOpenAI(s[i + 1])[k].id = <<b, k>>
        BY <1>4, <2>1, OpenAIMessage
    <2> HIDE DEF n, wire, b
    <2> QED
        BY <1>3, <1>6, <2>2, <2>3
<1>9. Ids(s[i]) = {<<b, k>> : k \in 1..Width}
    BY IdsAre
<1> HIDE DEF n, wire, b
<1>10. ASSUME NEW j \in (n + 1)..(n + Width)
       PROVE  \E k \in 1..Width : j = n + k
    <2>1. j - n \in 1..Width /\ j = n + (j - n)
        BY <1>6, WidthIs
    <2> QED
        BY <2>1
<1>11. \A k \in 1..Width : n + k \in (n + 1)..(n + Width)
    BY <1>6, WidthIs
<1>12. \A x : x \in {wire[j].id : j \in (n + 1)..(n + Width)} <=> x \in {<<b, k>> : k \in 1..Width}
    BY <1>8, <1>10, <1>11
<1>13. {wire[j].id : j \in (n + 1)..(n + Width)} = {<<b, k>> : k \in 1..Width}
    BY <1>12, Zenon
<1> QED
    BY <1>7, <1>9, <1>13 DEF n, wire

\* A result answers the calls of the turn before it, and only results lie between.
LEMMA ResultsAsked ==
    ASSUME NEW s \in Seq(Turns), Paired(s), NEW i \in 1..Len(s), s[i].kind = "results",
           NEW k \in 1..Width
    PROVE  LET n == Taken(s, i - 1)
               wire == WireOpenAI(s)
           IN /\ n \in 1..(n + k - 1)
              /\ wire[n + k].id \in wire[n].calls
              /\ \A j \in (n + 1)..(n + k) : wire[j].role = "tool"
<1> DEFINE n == Taken(s, i - 1)
           wire == WireOpenAI(s)
           b == s[i].batch
<1>1. DOMAIN s = 1..Len(s) /\ Len(s) \in Nat /\ i \in Nat /\ k \in Nat /\ k >= 1 /\ k <= Width
    BY WidthIs
<1>2. i > 1 /\ s[i - 1] = Calls(b)
    BY <1>1 DEF Paired
<1>3. i - 1 \in 1..Len(s)
    BY <1>1, <1>2
<1>4. s[i - 1] \in Turns /\ s[i - 1].kind = "calls" /\ s[i - 1].batch = b
    BY <1>2, <1>3 DEF Calls
<1>5. Size(s[i]) = Width /\ Size(s[i - 1]) = 1
    BY <1>4 DEF Size
<1>6. n \in Nat /\ n = Taken(s, (i - 1) - 1) + 1 /\ Taken(s, (i - 1) - 1) \in Nat
    <2>1. /\ Taken(s, i - 1) = Taken(s, (i - 1) - 1) + Size(s[i - 1])
          /\ Taken(s, i - 1) \in Nat /\ Taken(s, (i - 1) - 1) \in Nat
        BY <1>3, TakenGrows
    <2> QED
        BY <1>5, <2>1
<1>7. wire[n].calls = Ids(s[i - 1])
    <2>1. 1 \in 1..Size(s[i - 1])
        BY <1>5
    <2>2. wire[Taken(s, (i - 1) - 1) + 1] = EncodeOpenAI(s[i - 1])[1]
        BY <1>3, <2>1, WireAt
    <2>3. EncodeOpenAI(s[i - 1])[1].calls = Ids(s[i - 1])
        BY <1>4, <2>1, OpenAIMessage
    <2> HIDE DEF n, wire
    <2> QED
        BY <1>6, <2>2, <2>3
<1>8. ASSUME NEW m \in 1..k
      PROVE  wire[n + m].id = <<b, m>> /\ wire[n + m].role = "tool"
    <2>1. m \in 1..Size(s[i])
        <3>1. m \in 1..Width
            BY <1>1, WidthIs
        <3> QED
            BY <1>5, <3>1
    <2>2. wire[n + m] = EncodeOpenAI(s[i])[m]
        BY <2>1, WireAt
    <2>3. EncodeOpenAI(s[i])[m].id = <<b, m>> /\ EncodeOpenAI(s[i])[m].role = "tool"
        BY <2>1, OpenAIMessage
    <2> HIDE DEF n, wire, b
    <2> QED
        BY <2>2, <2>3
<1>9. <<b, k>> \in Ids(s[i - 1])
    BY <1>4 DEF Ids
<1> HIDE DEF n, wire, b
<1>10. wire[n + k].id \in wire[n].calls
    <2>1. k \in 1..k
        BY <1>1
    <2> QED
        BY <1>7, <1>8, <1>9, <2>1
<1>11. ASSUME NEW j \in (n + 1)..(n + k) PROVE wire[j].role = "tool"
    <2>1. j - n \in 1..k /\ n + (j - n) = j
        BY <1>1, <1>6
    <2> QED
        BY <1>8, <2>1
<1>12. n \in 1..(n + k - 1)
    BY <1>1, <1>6
<1> QED
    BY <1>10, <1>11, <1>12 DEF n, wire

LEMMA PairedIsTakenByOpenAI ==
    ASSUME NEW s \in Seq(Turns), Paired(s)
    PROVE  TakenByOpenAI(WireOpenAI(s))
<1> DEFINE wire == WireOpenAI(s)
<1>1. DOMAIN wire = 1..Taken(s, Len(s))
    BY WireIs
<1>2. ASSUME NEW n \in DOMAIN wire
      PROVE  /\ wire[n].calls # {} =>
                  LET last == n + Cardinality(wire[n].calls) IN
                  last <= Len(wire) /\ {wire[j].id : j \in (n + 1)..last} = wire[n].calls
             /\ wire[n].role = "tool" =>
                  \E j \in 1..(n - 1) :
                     /\ wire[n].id \in wire[j].calls
                     /\ \A k \in (j + 1)..n : wire[k].role = "tool"
    <2>0. PICK i \in 1..Len(s) : \E k \in 1..Size(s[i]) : n = Taken(s, i - 1) + k
        BY <1>1, WireFrom
    <2>1. PICK k \in 1..Size(s[i]) : n = Taken(s, i - 1) + k
        BY <2>0
    <2>2. wire[n] = EncodeOpenAI(s[i])[k] /\ s[i] \in Turns
        BY <2>1, WireAt
    <2>3. /\ wire[n].calls = IF s[i].kind = "calls" THEN Ids(s[i]) ELSE {}
          /\ wire[n].role = "tool" <=> s[i].kind = "results"
        <3> HIDE DEF wire
        <3> QED
            BY <2>2, OpenAIMessage
    <2>4. ASSUME wire[n].calls # {}
          PROVE  LET last == n + Cardinality(wire[n].calls) IN
                 last <= Len(wire) /\ {wire[j].id : j \in (n + 1)..last} = wire[n].calls
        <3>1. s[i].kind = "calls" /\ wire[n].calls = Ids(s[i])
            <4> HIDE DEF wire
            <4> QED
                BY <2>3, <2>4
        <3>2. n = Taken(s, i - 1) + 1
            BY <2>1, <3>1 DEF Size
        <3>3. /\ n + Width <= Len(wire)
              /\ {wire[j].id : j \in (n + 1)..(n + Width)} = Ids(s[i])
            BY <3>1, <3>2, CallsAnswered
        <3>4. Cardinality(wire[n].calls) = Width
            <4> HIDE DEF wire
            <4> QED
                BY <2>2, <3>1, IdsAre
        <3> HIDE DEF wire
        <3> QED
            BY <3>1, <3>3, <3>4
    <2>5. ASSUME wire[n].role = "tool"
          PROVE  \E j \in 1..(n - 1) :
                     /\ wire[n].id \in wire[j].calls
                     /\ \A m \in (j + 1)..n : wire[m].role = "tool"
        <3>1. s[i].kind = "results"
            <4> HIDE DEF wire
            <4> QED
                BY <2>3, <2>5
        <3>2. k \in 1..Width
            BY <3>1 DEF Size
        <3> DEFINE j == Taken(s, i - 1)
        <3>3. /\ j \in 1..(j + k - 1)
              /\ wire[j + k].id \in wire[j].calls
              /\ \A m \in (j + 1)..(j + k) : wire[m].role = "tool"
            BY <3>1, <3>2, ResultsAsked
        <3>4. n = j + k
            BY <2>1
        <3> HIDE DEF wire, j
        <3>5. j \in 1..(n - 1)
            BY <3>3, <3>4
        <3>6. wire[n].id \in wire[j].calls
            BY <3>3, <3>4
        <3>7. \A m \in (j + 1)..n : wire[m].role = "tool"
            BY <3>3, <3>4
        <3> QED
            BY <3>5, <3>6, <3>7
    <2> QED
        BY <2>4, <2>5
<1> HIDE DEF wire
<1>3. TakenByOpenAI(wire)
    BY <1>2 DEF TakenByOpenAI
<1> QED
    BY <1>3 DEF wire

--------------------------------------------------------------------------------
(* The invariant of the conversation.                                         *)

Session == [pc : {"idle", "creating", "loading", "prompting", "thinking", "asking", "calling"},
            history : Seq(Turns), step : 0..MaxSteps, digested : BOOLEAN]

\* No turn is of a step that has not asked yet.
Known(s, n) == \A i \in DOMAIN s : s[i].batch <= n

\* A history is no longer than its steps made it, and ends with the calls it waits for.
Grown(q, n) ==
    /\ Len(q.history) <= HistoryLimit + 2 * q.step
    /\ q.pc \in {"thinking", "asking"} => Len(q.history) < HistoryLimit + 2 * q.step
    /\ q.pc \in {"idle", "creating", "loading"} => q.history = <<>> /\ ~q.digested
    /\ q.pc = "prompting" => Len(q.history) <= HistoryLimit
    /\ q.pc = "calling" =>
          q.history # <<>> /\ \E b \in 1..n : Last(q.history) = Calls(b)

\* A history is paired, but for the calls it waits for, and those are not stored but as
\* the last turn.
Sendable(q, s) ==
    /\ q.pc \in {"prompting", "thinking", "asking"} => Paired(q.history)
    /\ q.pc = "calling" =>
         /\ Paired(Front(q.history))
         /\ \A i \in DOMAIN s : /\ s[i] # Results(Last(q.history).batch)
                                /\ s[i] = Last(q.history) => i = Len(s)

\* A history is the end of what the next run would read.
Shared(q, s) ==
    /\ q.pc \in {"prompting", "thinking", "asking"} => IsTail(q.history, Repair(s))
    /\ q.pc = "calling" =>
         s # <<>> /\ Last(s) = Last(q.history) /\ IsTail(Front(q.history), Repair(Front(s)))

TranscriptInv ==
    /\ created \in BOOLEAN /\ shared \in BOOLEAN /\ reused \in BOOLEAN /\ lost \in 0..MaxLost
    /\ messages \in Seq(Turns) /\ (messages # <<>> => created)
    /\ batches \in 0..MaxBatches /\ unnamed \in 0..batches
    /\ session \in [Sessions -> Session]
    /\ Known(messages, batches)
    /\ \A r \in Sessions :
         /\ Grown(session[r], batches)
         /\ session[r].pc \notin {"idle", "creating"} => created
    /\ Orderly =>
         /\ \A q, r \in Sessions : InProgress(q) /\ InProgress(r) => q = r
         /\ Loose(messages)
         /\ \A r \in Sessions :
              /\ Sendable(session[r], messages)
              /\ lost = 0 /\ ~session[r].digested => Shared(session[r], messages)

LEMMA SizesAreNat ==
    /\ HistoryLimit \in Nat /\ MaxSteps \in Nat /\ MaxSteps > 0
    /\ MaxBatches \in Nat /\ MaxLost \in Nat
BY TranscriptAssumption DEF TranscriptAssumption

LEMMA FrontOfAppend ==
    ASSUME NEW s \in Seq(Turns), NEW t \in Turns
    PROVE  /\ Front(Append(s, t)) = s /\ Last(Append(s, t)) = t /\ Append(s, t) # <<>>
<1> DEFINE q == Append(s, t)
           n == Len(s)
<1>1. q \in Seq(Turns) /\ Len(q) = n + 1 /\ n \in Nat /\ q[n + 1] = t /\ \A i \in 1..n : q[i] = s[i]
    BY AppendIs
<1>2. s = [i \in 1..n |-> s[i]]
    OBVIOUS
<1> HIDE DEF q, n
<1>3. SubSeq(q, 1, n) = [i \in 1..n |-> q[i]]
    BY <1>1
<1>4. (n + 1) - 1 = n
    BY <1>1
<1>5. Front(q) = s /\ Last(q) = t
    BY <1>1, <1>2, <1>3, <1>4 DEF Front, Last
<1>6. q # <<>>
    BY <1>1
<1> QED
    BY <1>5, <1>6 DEF q

LEMMA FrontAndLast ==
    ASSUME NEW s \in Seq(Turns), s # <<>>
    PROVE  /\ Front(s) \in Seq(Turns) /\ Last(s) \in Turns /\ s = Append(Front(s), Last(s))
           /\ Len(s) = Len(Front(s)) + 1
<1> DEFINE n == Len(s) - 1
           p == SubSeq(s, 1, n)
<1>1. n \in Nat /\ n + 1 = Len(s) /\ n + 1 \in 1..Len(s)
    OBVIOUS
<1>2. p \in Seq(Turns) /\ Len(p) = n /\ \A i \in 1..n : p[i] = s[i]
    BY <1>1
<1>3. s[n + 1] \in Turns
    BY <1>1
<1>4. Front(s) = p /\ Last(s) = s[n + 1]
    BY <1>1 DEF Front, Last
<1> HIDE DEF p, n
<1>5. /\ Append(p, s[n + 1]) \in Seq(Turns) /\ Len(Append(p, s[n + 1])) = n + 1
      /\ \A i \in 1..n : Append(p, s[n + 1])[i] = p[i]
      /\ Append(p, s[n + 1])[n + 1] = s[n + 1]
    BY <1>2, <1>3, AppendIs
<1>6. \A i \in 1..(n + 1) : Append(p, s[n + 1])[i] = s[i]
    <2>1. \A i \in 1..(n + 1) : i \in 1..n \/ i = n + 1
        BY <1>1
    <2> QED
        BY <1>2, <1>5, <2>1
<1>7. s = [i \in 1..(n + 1) |-> s[i]]
    BY <1>1
<1>8. Append(p, s[n + 1]) = [i \in 1..(n + 1) |-> Append(p, s[n + 1])[i]]
    BY <1>1, <1>5
<1>9. s = Append(p, s[n + 1])
    BY <1>6, <1>7, <1>8
<1> QED
    BY <1>1, <1>2, <1>3, <1>4, <1>9

LEMMA KnownGrows ==
    ASSUME NEW s \in Seq(Turns), NEW t \in Turns, NEW m \in Nat, NEW n \in Nat, m <= n,
           Known(s, m), t.batch <= n
    PROVE  Known(Append(s, t), n)
<1> DEFINE q == Append(s, t)
<1>1. /\ DOMAIN s = 1..Len(s) /\ DOMAIN q = 1..(Len(s) + 1)
      /\ \A i \in 1..Len(s) : q[i] = s[i] /\ s[i] \in Turns
      /\ \A i \in 1..(Len(s) + 1) : i \in 1..Len(s) \/ i = Len(s) + 1
      /\ q[Len(s) + 1] = t
    BY AppendIs
<1> HIDE DEF q
<1>2. ASSUME NEW i \in DOMAIN q PROVE q[i].batch <= n
    <2>1. CASE i \in 1..Len(s)
        <3>1. q[i] = s[i] /\ s[i].batch <= m /\ s[i].batch \in Nat
            BY <1>1, <2>1, TurnIs DEF Known
        <3> QED
            BY <3>1
    <2>2. CASE i = Len(s) + 1
        BY <1>1, <2>2
    <2> QED
        BY <1>1, <2>1, <2>2
<1> QED
    BY <1>2 DEF Known, q

LEMMA KnownMore ==
    ASSUME NEW s \in Seq(Turns), NEW m \in Nat, NEW n \in Nat, m <= n, Known(s, m)
    PROVE  Known(s, n)
<1>1. ASSUME NEW i \in DOMAIN s PROVE s[i].batch <= n
    <2>1. s[i] \in Turns
        OBVIOUS
    <2>2. s[i].batch <= m /\ s[i].batch \in Nat
        BY <2>1, TurnIs DEF Known
    <2> QED
        BY <2>2
<1> QED
    BY <1>1 DEF Known

\* A turn of a step that has not asked yet is nowhere.
LEMMA UnknownIsNew ==
    ASSUME NEW s \in Seq(Turns), NEW n \in Nat, Known(s, n), NEW b \in Nat, n < b
    PROVE  \A i \in DOMAIN s : s[i] # Calls(b) /\ s[i] # Results(b)
<1> SUFFICES ASSUME NEW i \in DOMAIN s PROVE s[i] # Calls(b) /\ s[i] # Results(b)
    OBVIOUS
<1>1. s[i].batch <= n
    BY DEF Known
<1>2. s[i].batch # b
    BY <1>1
<1>3. Calls(b).batch = b /\ Results(b).batch = b
    BY DEF Calls, Results
<1> QED
    BY <1>2, <1>3

LEMMA NotThereIsNoBatch ==
    ASSUME NEW s \in Seq(Turns), NEW b,
           \A i \in DOMAIN s : s[i] # Calls(b) /\ s[i] # Results(b)
    PROVE  b \notin Batches(s, "calls") /\ b \notin Batches(s, "results")
<1>1. ASSUME NEW i \in DOMAIN s
      PROVE  /\ s[i].kind = "calls" => s[i].batch # b
             /\ s[i].kind = "results" => s[i].batch # b
    <2>1. s[i] \in Turns
        OBVIOUS
    <2> QED
        BY <2>1, TurnIs
<1> QED
    BY <1>1 DEF Batches

\* A step of one run: what it leaves behind is all there is to check.
Moves(r, q) ==
    /\ q \in Session /\ session' = [session EXCEPT ![r] = q]
    /\ created' \in BOOLEAN /\ (created => created')
    /\ q.pc \notin {"idle", "creating"} => created'
    /\ messages' \in Seq(Turns) /\ (messages' # <<>> => created')
    /\ batches' \in 0..MaxBatches /\ batches <= batches'
    /\ Known(messages', batches') /\ Grown(q, batches')
    /\ lost' \in 0..MaxLost /\ shared' \in BOOLEAN /\ reused' \in BOOLEAN
    /\ unnamed' \in 0..batches'
    /\ Orderly' => /\ \A p \in Sessions : p # r => session[p].pc = "idle"
                   /\ Loose(messages')
                   /\ Sendable(q, messages')
                   /\ lost' = 0 /\ ~q.digested => Shared(q, messages')

LEMMA OneSession ==
    ASSUME TranscriptInv, NEW r \in Sessions, NEW q, Moves(r, q)
    PROVE  TranscriptInv'
<1> /\ q \in Session /\ session' = [session EXCEPT ![r] = q]
    /\ created' \in BOOLEAN /\ (created => created')
    /\ q.pc \notin {"idle", "creating"} => created'
    /\ messages' \in Seq(Turns) /\ (messages' # <<>> => created')
    /\ batches' \in 0..MaxBatches /\ batches <= batches'
    /\ Known(messages', batches') /\ Grown(q, batches')
    /\ lost' \in 0..MaxLost /\ shared' \in BOOLEAN /\ reused' \in BOOLEAN
    /\ unnamed' \in 0..batches'
    BY DEF Moves
<1>0. ASSUME Orderly'
    PROVE  /\ \A p \in Sessions : p # r => session[p].pc = "idle"
           /\ Loose(messages')
           /\ Sendable(q, messages')
           /\ lost' = 0 /\ ~q.digested => Shared(q, messages')
    BY <1>0 DEF Moves
<1>1. session \in [Sessions -> Session] /\ batches \in Nat /\ batches' \in Nat
    BY SizesAreNat DEF TranscriptInv
<1>2. /\ session' \in [Sessions -> Session] /\ session'[r] = q
      /\ \A p \in Sessions : p # r => session'[p] = session[p]
    BY <1>1
<1>3. ASSUME NEW p \in Sessions
      PROVE  /\ Grown(session'[p], batches')
             /\ session'[p].pc \notin {"idle", "creating"} => created'
    <2>1. CASE p = r
        BY <1>2, <2>1
    <2>2. CASE p # r
        <3>1. session'[p] = session[p] /\ Grown(session[p], batches)
              /\ (session[p].pc \notin {"idle", "creating"} => created)
            BY <1>2, <2>2 DEF TranscriptInv
        <3>2. ASSUME NEW b \in 1..batches PROVE b \in 1..batches'
            BY <1>1
        <3>3. Grown(session[p], batches')
            BY <3>1, <3>2 DEF Grown
        <3> QED
            BY <3>1, <3>3
    <2> QED
        BY <2>1, <2>2
<1>4. ASSUME Orderly'
      PROVE  /\ \A o, p \in Sessions : session'[o].pc # "idle" /\ session'[p].pc # "idle" => o = p
             /\ Loose(messages')
             /\ \A p \in Sessions :
                   /\ Sendable(session'[p], messages')
                   /\ lost' = 0 /\ ~session'[p].digested => Shared(session'[p], messages')
    <2>1. \A p \in Sessions : p # r => session'[p].pc = "idle"
        BY <1>0, <1>2, <1>4
    <2>2. \A o, p \in Sessions : session'[o].pc # "idle" /\ session'[p].pc # "idle" => o = p
        BY <2>1
    <2>3. ASSUME NEW p \in Sessions, p # r
          PROVE  Sendable(session'[p], messages') /\ Shared(session'[p], messages')
        BY <2>1, <2>3 DEF Sendable, Shared
    <2> QED
        BY <1>0, <1>2, <1>4, <2>2, <2>3
<1> QED
    BY <1>2, <1>3, <1>4 DEF TranscriptInv, InProgress

LEMMA NobodyElse ==
    ASSUME TranscriptInv, NEW r \in Sessions, Orderly, session[r].pc # "idle"
    PROVE  \A p \in Sessions : p # r => session[p].pc = "idle"
BY DEF TranscriptInv, InProgress

\* A session that is over has nothing left.
LEMMA OverIsFine ==
    /\ NoSession \in Session
    /\ NoSession.pc = "idle"
    /\ \A n : Grown(NoSession, n)
    /\ \A s : Sendable(NoSession, s) /\ Shared(NoSession, s)
<1>1. /\ NoSession.pc = "idle" /\ NoSession.history = <<>> /\ NoSession.step = 0
      /\ NoSession.digested = FALSE
    BY DEF NoSession
<1>2. <<>> \in Seq(Turns) /\ Len(<<>>) = 0
    OBVIOUS
<1>3. 0 \in 0..MaxSteps /\ 0 <= HistoryLimit + 2 * 0
    BY SizesAreNat
<1>4. NoSession \in Session
    BY <1>2, <1>3 DEF NoSession, Session
<1> HIDE DEF NoSession
<1>5. \A n : Grown(NoSession, n)
    BY <1>1, <1>2, <1>3 DEF Grown
<1>6. \A s : Sendable(NoSession, s) /\ Shared(NoSession, s)
    BY <1>1 DEF Sendable, Shared
<1> QED
    BY <1>1, <1>4, <1>5, <1>6

--------------------------------------------------------------------------------
(* The steps of a run in the conversation.                                    *)

LEMMA SessionIs ==
    ASSUME NEW q \in Session
    PROVE  /\ q.history \in Seq(Turns) /\ Len(q.history) \in Nat
           /\ q.step \in 0..MaxSteps /\ q.step \in Nat /\ q.digested \in BOOLEAN
           /\ q = [pc |-> q.pc, history |-> q.history, step |-> q.step, digested |-> q.digested]
BY SizesAreNat DEF Session

LEMMA InvGives ==
    ASSUME TranscriptInv, NEW r \in Sessions
    PROVE  /\ session[r] \in Session /\ Grown(session[r], batches)
           /\ session[r].pc \notin {"idle", "creating"} => created
           /\ created \in BOOLEAN /\ shared \in BOOLEAN /\ reused \in BOOLEAN
           /\ lost \in 0..MaxLost /\ unnamed \in 0..batches
           /\ messages \in Seq(Turns) /\ (messages # <<>> => created)
           /\ batches \in 0..MaxBatches /\ Known(messages, batches)
           /\ Orderly => /\ Loose(messages) /\ Sendable(session[r], messages)
                         /\ lost = 0 /\ ~session[r].digested => Shared(session[r], messages)
           /\ session \in [Sessions -> Session]
BY DEF TranscriptInv

\* What storing a turn, or failing to, does.
LEMMA PersistDoes ==
    ASSUME TranscriptInv, NEW t \in Turns, NEW n \in 0..MaxBatches, batches <= n, t.batch <= n,
           Persist(t), created, Orderly' => Orderly /\ Follows(t, messages)
    PROVE  /\ messages' \in Seq(Turns) /\ Known(messages', n)
           /\ lost' \in 0..MaxLost
           /\ messages' = Append(messages, t) \/ messages' = messages
           /\ lost' = 0 => lost = 0 /\ messages' = Append(messages, t)
           /\ Orderly' => Loose(messages')
<1>1. /\ messages \in Seq(Turns) /\ Known(messages, batches) /\ lost \in 0..MaxLost
      /\ batches \in Nat /\ n \in Nat /\ MaxLost \in Nat /\ lost \in Nat
      /\ Orderly => Loose(messages)
    BY SizesAreNat DEF TranscriptInv
<1>2. CASE messages' = Append(messages, t) /\ lost' = lost
    <2>1. Append(messages, t) \in Seq(Turns) /\ Known(Append(messages, t), n)
        BY <1>1, AppendIs, KnownGrows
    <2>2. Orderly' => Loose(Append(messages, t))
        BY <1>1, LooseAppend
    <2> QED
        BY <1>1, <1>2, <2>1, <2>2
<1>3. CASE messages' = messages /\ lost < MaxLost /\ lost' = lost + 1
    <2>1. Known(messages, n)
        BY <1>1, KnownMore
    <2>2. lost' \in 0..MaxLost /\ lost' # 0
        BY <1>1, <1>3
    <2> QED
        BY <1>1, <1>3, <2>1, <2>2
<1> QED
    BY <1>2, <1>3 DEF Persist

LEMMA PlainFollows ==
    ASSUME NEW t \in {User, Text, Empty}, NEW s
    PROVE  t \in Turns /\ t.batch = 0 /\ Follows(t, s)
BY PlainTurns DEF Follows

LEMMA OpenKeeps ==
    ASSUME TranscriptInv, NEW r \in Sessions, Open(r)
    PROVE  TranscriptInv'
<1> DEFINE pc == IF created THEN "loading" ELSE "creating"
           q == [session[r] EXCEPT !.pc = pc]
<1>1. /\ session[r] \in Session /\ Grown(session[r], batches) /\ session[r].pc = "idle"
      /\ session' = [session EXCEPT ![r].pc = pc]
      /\ UNCHANGED <<created, messages, batches, unnamed, reused, lost>>
      /\ shared' = (shared \/ \E p \in Sessions : InProgress(p))
    BY InvGives DEF Open
<1>2. /\ pc \in {"loading", "creating"} /\ (pc = "loading" => created)
    BY Zenon
<1>3. session' = [session EXCEPT ![r] = q]
    BY <1>1
<1> HIDE DEF pc
<1>4. /\ q \in Session /\ q.pc = pc /\ q.history = <<>> /\ ~q.digested
      /\ q.step = session[r].step
    BY <1>1, <1>2 DEF Session, Grown
<1> HIDE DEF q
<1>5. Grown(q, batches) /\ \A s : Sendable(q, s) /\ Shared(q, s)
    <2>1. Len(q.history) = 0 /\ 0 <= HistoryLimit + 2 * q.step
        BY <1>4, SessionIs, SizesAreNat
    <2> QED
        BY <1>2, <1>4, <2>1, SizesAreNat DEF Grown, Sendable, Shared
<1>6. Orderly' => Orderly /\ \A p \in Sessions : session[p].pc = "idle"
    BY <1>1 DEF InProgress, Orderly
<1>7. shared' \in BOOLEAN
    BY <1>1, InvGives
<1>8. Orderly' => Loose(messages)
    BY <1>6, InvGives
<1>9. batches \in Nat
    BY SizesAreNat, InvGives
<1>10. q.pc \notin {"idle", "creating"} => created
    BY <1>2, <1>4
<1>11. /\ created' = created /\ messages' = messages /\ batches' = batches
       /\ unnamed' = unnamed /\ reused' = reused /\ lost' = lost
    BY <1>1
<1>12. Orderly' => /\ \A p \in Sessions : p # r => session[p].pc = "idle"
                   /\ Loose(messages) /\ Sendable(q, messages) /\ Shared(q, messages)
    BY <1>5, <1>6, <1>8
<1>m. Moves(r, q)
    BY <1>3, <1>4, <1>5, <1>7, <1>9, <1>10, <1>11, <1>12, InvGives DEF Moves
<1> QED
    BY <1>m, OneSession

LEMMA CutKeeps ==
    ASSUME TranscriptInv, NEW r \in Sessions, Cut(r)
    PROVE  TranscriptInv'
<1>1. /\ session' = [session EXCEPT ![r] = NoSession]
      /\ UNCHANGED <<created, messages, batches, unnamed, shared, reused, lost>>
      /\ session[r].pc # "idle"
    BY DEF Cut, InProgress
<1>2. Orderly => \A p \in Sessions : p # r => session[p].pc = "idle"
    BY <1>1, NobodyElse
<1>o. Orderly' = Orderly
    BY <1>1 DEF Orderly
<1>3. batches \in Nat
    BY SizesAreNat, InvGives
<1>m. Moves(r, NoSession)
    BY <1>o, <1>1, <1>2, <1>3, InvGives, OverIsFine DEF Moves
<1> QED
    BY <1>m, OneSession

LEMMA CreateKeeps ==
    ASSUME TranscriptInv, NEW r \in Sessions, Create(r)
    PROVE  TranscriptInv'
<1>1. /\ created' = TRUE /\ UNCHANGED <<messages, batches, unnamed, shared, reused, lost>>
      /\ session[r].pc = "creating"
    BY DEF Create
<1>2. Orderly => \A p \in Sessions : p # r => session[p].pc = "idle"
    BY <1>1, NobodyElse
<1>o. Orderly' = Orderly
    BY <1>1 DEF Orderly
<1>3. batches \in Nat
    BY SizesAreNat, InvGives
<1>4. CASE created
    <2>1. session' = [session EXCEPT ![r] = NoSession]
        BY <1>4 DEF Create
    <2>m. Moves(r, NoSession)
        BY <1>o, <1>1, <1>2, <1>3, <2>1, InvGives, OverIsFine DEF Moves
    <2> QED
        BY <2>m, OneSession
<1>5. CASE ~created
    <2> DEFINE q == [session[r] EXCEPT !.pc = "loading"]
    <2>1. session' = [session EXCEPT ![r] = q]
        BY <1>5 DEF Create
    <2>2. session[r] \in Session /\ Grown(session[r], batches)
        BY InvGives
    <2>3. /\ q \in Session /\ q.pc = "loading" /\ q.history = <<>> /\ ~q.digested
        BY <1>1, <2>2 DEF Session, Grown
    <2> HIDE DEF q
    <2>4. Grown(q, batches) /\ \A s : Sendable(q, s) /\ Shared(q, s)
        <3>1. Len(q.history) = 0 /\ 0 <= HistoryLimit + 2 * q.step
            BY <2>3, SessionIs, SizesAreNat
        <3> QED
            BY <2>3, <3>1, SizesAreNat DEF Grown, Sendable, Shared
    <2>m. Moves(r, q)
        BY <1>o, <1>1, <1>2, <1>3, <2>1, <2>3, <2>4, InvGives DEF Moves
    <2> QED
        BY <2>m, OneSession
<1> QED
    BY <1>4, <1>5

LEMMA LoadKeeps ==
    ASSUME TranscriptInv, NEW r \in Sessions, Load(r)
    PROVE  TranscriptInv'
<1> DEFINE h == Repair(Window(messages))
           q == [session[r] EXCEPT !.pc = "prompting", !.history = h]
<1>1. /\ UNCHANGED <<created, messages, batches, unnamed, shared, reused, lost>>
      /\ session[r].pc = "loading" /\ session' = [session EXCEPT ![r] = q]
    BY DEF Load
<1>2. Orderly => \A p \in Sessions : p # r => session[p].pc = "idle"
    BY <1>1, NobodyElse
<1>o. Orderly' = Orderly
    BY <1>1 DEF Orderly
<1>3. batches \in Nat /\ session[r] \in Session /\ Grown(session[r], batches)
      /\ messages \in Seq(Turns) /\ created
    BY <1>1, SizesAreNat, InvGives
<1>4. PICK d \in Nat :
              /\ Window(messages) \in Seq(Turns)
              /\ Len(messages) = Len(Window(messages)) + d /\ Len(Window(messages)) <= HistoryLimit
              /\ \A i \in 1..Len(Window(messages)) :
                    i + d \in 1..Len(messages) /\ Window(messages)[i] = messages[i + d]
    BY <1>3, WindowIs
<1>5. h \in Seq(Turns) /\ Len(h) <= HistoryLimit
    <2>1. h \in Seq(Turns) /\ Len(h) <= Len(Window(messages))
        BY <1>4, RepairIs
    <2> QED
        BY <1>4, <2>1, SizesAreNat
<1>6. ASSUME Orderly PROVE Paired(h) /\ IsTail(h, Repair(messages))
    <2>1. Loose(messages)
        BY <1>6, InvGives
    <2>2. IsTail(h, Repair(messages)) /\ Loose(Window(messages))
        BY <1>3, <1>4, <2>1, RepairTail
    <2> QED
        BY <1>4, <2>2, RepairPairs
<1> HIDE DEF h
<1>7. /\ q \in Session /\ q.pc = "prompting" /\ q.history = h /\ q.step = session[r].step
      /\ ~q.digested
    BY <1>1, <1>3, <1>5 DEF Session, Grown
<1> HIDE DEF q
<1>8. Grown(q, batches)
    <2>1. Len(h) <= HistoryLimit + 2 * q.step
        BY <1>5, <1>7, SessionIs, SizesAreNat
    <2> QED
        BY <1>5, <1>7, <2>1 DEF Grown
<1>9. Orderly => Sendable(q, messages) /\ Shared(q, messages)
    BY <1>6, <1>7 DEF Sendable, Shared
<1>m. Moves(r, q)
    BY <1>o, <1>1, <1>2, <1>3, <1>7, <1>8, <1>9, InvGives DEF Moves
<1> QED
    BY <1>m, OneSession

LEMMA FitsKeeps ==
    ASSUME TranscriptInv, NEW r \in Sessions, Fits(r)
    PROVE  TranscriptInv'
<1> DEFINE q == [session[r] EXCEPT !.pc = "asking"]
<1>1. /\ UNCHANGED <<created, messages, batches, unnamed, shared, reused, lost>>
      /\ session[r].pc = "thinking" /\ session' = [session EXCEPT ![r] = q]
    BY DEF Fits
<1>2. Orderly => \A p \in Sessions : p # r => session[p].pc = "idle"
    BY <1>1, NobodyElse
<1>o. Orderly' = Orderly
    BY <1>1 DEF Orderly
<1>3. batches \in Nat /\ session[r] \in Session /\ Grown(session[r], batches) /\ created
    BY <1>1, SizesAreNat, InvGives
<1>4. /\ q \in Session /\ q.pc = "asking" /\ q.history = session[r].history
      /\ q.step = session[r].step /\ q.digested = session[r].digested
    BY <1>3 DEF Session
<1> HIDE DEF q
<1>5. Grown(q, batches)
    BY <1>1, <1>3, <1>4 DEF Grown
<1>6. Orderly => /\ Sendable(q, messages)
                 /\ lost = 0 /\ ~q.digested => Shared(q, messages)
    <2>1. Orderly => /\ Sendable(session[r], messages)
                     /\ lost = 0 /\ ~session[r].digested => Shared(session[r], messages)
        BY InvGives
    <2> QED
        BY <1>1, <1>4, <2>1 DEF Sendable, Shared
<1>m. Moves(r, q)
    BY <1>o, <1>1, <1>2, <1>3, <1>4, <1>5, <1>6, InvGives DEF Moves
<1> QED
    BY <1>m, OneSession

LEMMA CompactKeeps ==
    ASSUME TranscriptInv, NEW r \in Sessions, Compact(r)
    PROVE  TranscriptInv'
<1> DEFINE history == session[r].history
           split == SafeSplitPoint(history)
           h == <<User>> \o SubSeq(history, split + 1, Len(history))
           q == [session[r] EXCEPT !.pc = "asking", !.digested = TRUE, !.history = h]
<1>1. /\ UNCHANGED <<created, messages, batches, unnamed, shared, reused, lost>>
      /\ session[r].pc = "thinking" /\ session' = [session EXCEPT ![r] = q] /\ split > 0
    BY DEF Compact
<1>2. Orderly => \A p \in Sessions : p # r => session[p].pc = "idle"
    BY <1>1, NobodyElse
<1>o. Orderly' = Orderly
    BY <1>1 DEF Orderly
<1>3. /\ batches \in Nat /\ session[r] \in Session /\ Grown(session[r], batches) /\ created
      /\ history \in Seq(Turns) /\ Len(history) \in Nat
      /\ Orderly => Sendable(session[r], messages) /\ Loose(messages)
    <2>1. session[r] \in Session
        BY InvGives
    <2>2. history \in Seq(Turns) /\ Len(history) \in Nat
        BY <2>1, SessionIs
    <2> HIDE DEF history, split, h, q
    <2> QED
        BY <1>1, <2>1, <2>2, SizesAreNat, InvGives
<1>4. split \in 1..(Len(history) - 1) /\ IsSafeBoundary(history, split)
    BY <1>1, <1>3, SplitIsSafe
<1>5. h \in Seq(Turns) /\ Len(h) <= Len(history)
    <2> DEFINE w == SubSeq(history, split + 1, Len(history))
    <2>1. w \in Seq(Turns) /\ Len(w) = Len(history) - split
        <3> HIDE DEF history, split
        <3> QED
            BY <1>3, <1>4
    <2> HIDE DEF w
    <2>2. (<<User>> \o w) \in Seq(Turns) /\ Len(<<User>> \o w) = Len(w) + 1
        BY <2>1, PrependIs, PlainTurns
    <2> HIDE DEF history, split
    <2>3. Len(w) + 1 <= Len(history)
        BY <1>3, <1>4, <2>1
    <2> QED
        BY <2>2, <2>3 DEF w
<1>6. Orderly => Paired(h)
    <2>1. Orderly => Paired(history)
        BY <1>1, <1>3 DEF Sendable
    <2> HIDE DEF split
    <2> QED
        BY <1>3, <1>4, <2>1, SummaryPairs
<1> HIDE DEF h
<1>7. /\ q \in Session /\ q.pc = "asking" /\ q.history = h /\ q.step = session[r].step
      /\ q.digested = TRUE
    BY <1>3, <1>5 DEF Session
<1> HIDE DEF q
<1>8. Grown(q, batches)
    <2>1. Len(history) < HistoryLimit + 2 * q.step
        BY <1>1, <1>3, <1>7 DEF Grown
    <2>2. q.step \in Nat /\ HistoryLimit \in Nat /\ Len(h) \in Nat
        BY <1>5, <1>7, SessionIs, SizesAreNat
    <2> HIDE DEF history
    <2>3. Len(h) < HistoryLimit + 2 * q.step /\ Len(h) <= HistoryLimit + 2 * q.step
        BY <1>3, <1>5, <2>1, <2>2
    <2> QED
        BY <1>7, <2>3 DEF Grown
<1>9. Orderly => Sendable(q, messages)
    BY <1>6, <1>7 DEF Sendable
<1>m. Moves(r, q)
    BY <1>o, <1>1, <1>2, <1>3, <1>7, <1>8, <1>9, InvGives DEF Moves
<1> QED
    BY <1>m, OneSession

LEMMA PromptKeeps ==
    ASSUME TranscriptInv, NEW r \in Sessions, Prompt(r)
    PROVE  TranscriptInv'
<1> DEFINE h == Append(session[r].history, User)
           q == [session[r] EXCEPT !.pc = "thinking", !.step = 1, !.history = h]
<1>1. /\ UNCHANGED <<created, batches, unnamed, shared, reused>>
      /\ session[r].pc = "prompting" /\ session' = [session EXCEPT ![r] = q]
      /\ Persist(User)
    BY DEF Prompt
<1>2. Orderly => \A p \in Sessions : p # r => session[p].pc = "idle"
    BY <1>1, NobodyElse
<1>o. Orderly' = Orderly
    BY <1>1 DEF Orderly
<1>3. batches \in Nat /\ session[r] \in Session /\ Grown(session[r], batches) /\ created
      /\ session[r].history \in Seq(Turns) /\ messages \in Seq(Turns)
    <2>1. session[r] \in Session /\ messages \in Seq(Turns)
        BY InvGives
    <2>2. session[r].history \in Seq(Turns)
        BY <2>1, SessionIs
    <2>3. batches \in Nat
        BY SizesAreNat, InvGives
    <2> HIDE DEF q, h
    <2> QED
        BY <1>1, <2>1, <2>2, <2>3, InvGives
<1>4. User \in Turns /\ User.batch = 0 /\ Follows(User, messages)
    BY PlainFollows
<1>5. /\ messages' \in Seq(Turns) /\ Known(messages', batches) /\ lost' \in 0..MaxLost
      /\ lost' = 0 => lost = 0 /\ messages' = Append(messages, User)
      /\ Orderly => Loose(messages')
    <2>1. batches \in 0..MaxBatches /\ batches <= batches /\ 0 <= batches
        BY <1>3, InvGives
    <2> QED
        BY <1>o, <1>1, <1>3, <1>4, <2>1, PersistDoes
<1>6. h \in Seq(Turns) /\ Len(h) = Len(session[r].history) + 1
    BY <1>3, <1>4, AppendIs
<1>7. ASSUME Orderly
      PROVE  /\ Paired(h)
             /\ lost' = 0 /\ ~session[r].digested => IsTail(h, Repair(messages'))
    <2>1. Paired(session[r].history)
        BY <1>1, <1>7, InvGives DEF Sendable
    <2>2. Paired(h)
        BY <1>3, <2>1, PairedPlain
    <2>3. ASSUME lost' = 0, ~session[r].digested
          PROVE  IsTail(h, Repair(messages'))
        <3>1. IsTail(session[r].history, Repair(messages))
            BY <1>1, <1>5, <1>7, <2>3, InvGives DEF Shared
        <3>2. Repair(messages) \in Seq(Turns)
            BY <1>3, RepairIs
        <3>3. Repair(messages') = Append(Repair(messages), User)
            BY <1>3, <1>5, <2>3, RepairPlain
        <3> QED
            BY <1>3, <1>4, <3>1, <3>2, <3>3, TailAppend
    <2> QED
        BY <2>2, <2>3
<1> HIDE DEF h
<1>8. /\ q \in Session /\ q.pc = "thinking" /\ q.history = h /\ q.step = 1
      /\ q.digested = session[r].digested
    <2>1. 1 \in 0..MaxSteps
        BY SizesAreNat
    <2> QED
        BY <1>3, <1>6, <2>1 DEF Session
<1> HIDE DEF q
<1>9. Grown(q, batches)
    <2>1. Len(session[r].history) <= HistoryLimit
        BY <1>1, <1>3 DEF Grown
    <2>2. Len(session[r].history) \in Nat /\ HistoryLimit \in Nat
        BY <1>3, SizesAreNat
    <2>3. Len(h) <= HistoryLimit + 2 * 1 /\ Len(h) < HistoryLimit + 2 * 1
        BY <1>6, <2>1, <2>2
    <2> QED
        BY <1>8, <2>3 DEF Grown
<1>10. Orderly => /\ Sendable(q, messages')
                  /\ lost' = 0 /\ ~q.digested => Shared(q, messages')
    BY <1>7, <1>8 DEF Sendable, Shared
<1>11. /\ created' = created /\ batches' = batches /\ unnamed' = unnamed
       /\ shared' = shared /\ reused' = reused
    BY <1>1
<1>m. Moves(r, q)
    BY <1>o, <1>1, <1>2, <1>3, <1>5, <1>8, <1>9, <1>10, <1>11, InvGives DEF Moves
<1> QED
    BY <1>m, OneSession

LEMMA AnswerKeeps ==
    ASSUME TranscriptInv, NEW r \in Sessions, Answer(r)
    PROVE  TranscriptInv'
<1>1. /\ UNCHANGED <<created, batches, unnamed, shared, reused>>
      /\ session[r].pc = "asking" /\ session' = [session EXCEPT ![r] = NoSession]
      /\ \E reply \in {"text", "refusal", "nothing"} :
            Persist(AnswerOpenAI(reply)) \/ Persist(AnswerAnthropic(reply))
    BY DEF Answer
<1>2. Orderly => \A p \in Sessions : p # r => session[p].pc = "idle"
    BY <1>1, NobodyElse
<1>o. Orderly' = Orderly
    BY <1>1 DEF Orderly
<1>3. batches \in Nat /\ created
    BY <1>1, SizesAreNat, InvGives
<1>4. PICK t \in {User, Text, Empty} : Persist(t)
    BY <1>1 DEF AnswerOpenAI, AnswerAnthropic
<1>5. t \in Turns /\ t.batch = 0 /\ Follows(t, messages)
    BY PlainFollows
<1>6. /\ messages' \in Seq(Turns) /\ Known(messages', batches) /\ lost' \in 0..MaxLost
      /\ Orderly => Loose(messages')
    <2>1. batches \in 0..MaxBatches /\ batches <= batches /\ 0 <= batches
        BY <1>3, InvGives
    <2> QED
        BY <1>o, <1>3, <1>4, <1>5, <2>1, PersistDoes
<1>7. /\ created' = created /\ batches' = batches /\ unnamed' = unnamed
       /\ shared' = shared /\ reused' = reused
    BY <1>1
<1>m. Moves(r, NoSession)
    BY <1>o, <1>1, <1>2, <1>3, <1>6, <1>7, InvGives, OverIsFine DEF Moves
<1> QED
    BY <1>m, OneSession

LEMMA CallKeeps ==
    ASSUME TranscriptInv, NEW r \in Sessions, Call(r)
    PROVE  TranscriptInv'
<1>a. PICK named \in BOOLEAN :
          LET b == IF named \/ unnamed = 0 THEN batches' ELSE unnamed IN
          /\ session' = [session EXCEPT ![r].pc = "calling",
                                        ![r].history = Append(@, Calls(b))]
          /\ unnamed' = IF named THEN unnamed ELSE b
          /\ reused' = (reused \/ b # batches')
          /\ Persist(Calls(b))
    BY DEF Call
<1> DEFINE b == IF named \/ unnamed = 0 THEN batches' ELSE unnamed
           n == batches + 1
           g == session[r].history
           h == Append(g, Calls(b))
           q == [session[r] EXCEPT !.pc = "calling", !.history = h]
<1>1. /\ UNCHANGED <<created, shared>> /\ batches' = n /\ batches < MaxBatches
      /\ session[r].pc = "asking" /\ session' = [session EXCEPT ![r] = q]
      /\ Persist(Calls(b)) /\ reused' = (reused \/ b # n)
      /\ unnamed' = IF named THEN unnamed ELSE b
      /\ b = IF named \/ unnamed = 0 THEN n ELSE unnamed
    BY <1>a DEF Call
<1>o. Orderly' => Orderly /\ b = n
    BY <1>1 DEF Orderly
<1>2. Orderly => \A p \in Sessions : p # r => session[p].pc = "idle"
    BY <1>1, NobodyElse
<1>3. batches \in 0..MaxBatches /\ session[r] \in Session /\ Grown(session[r], batches) /\ created
      /\ g \in Seq(Turns) /\ messages \in Seq(Turns) /\ Known(messages, batches)
    <2>1. session[r] \in Session /\ messages \in Seq(Turns)
        BY InvGives
    <2> HIDE DEF q, h
    <2> QED
        BY <1>1, <2>1, InvGives, SessionIs
<1> HIDE DEF b
<1>4. /\ batches \in Nat /\ n \in Nat /\ n \in 0..MaxBatches
      /\ batches < n /\ batches <= n
      /\ b \in Nat /\ b \in 1..MaxBatches /\ b \in 1..n /\ b <= n
      /\ unnamed' \in 0..n
    <2>1. batches \in 0..MaxBatches /\ batches < MaxBatches /\ unnamed \in 0..batches
        BY <1>1, <1>3, InvGives
    <2> QED
        BY <1>1, <2>1, SizesAreNat
<1> HIDE DEF n
<1>5. /\ Calls(b) \in Turns /\ Calls(b).kind = "calls" /\ Calls(b).batch = b
      /\ Results(b).kind = "results"
    BY <1>4, ToolTurns
<1>6. Orderly' =>
          \A i \in DOMAIN messages : messages[i] # Calls(b) /\ messages[i] # Results(b)
    <2>1. \A i \in DOMAIN messages : messages[i] # Calls(n) /\ messages[i] # Results(n)
        BY <1>3, <1>4, UnknownIsNew
    <2> QED
        BY <1>o, <2>1
<1>7. Orderly' => Follows(Calls(b), messages)
    BY <1>5, <1>6 DEF Follows
<1>8. /\ messages' \in Seq(Turns) /\ Known(messages', n) /\ lost' \in 0..MaxLost
      /\ messages' = Append(messages, Calls(b)) \/ messages' = messages
      /\ lost' = 0 => lost = 0 /\ messages' = Append(messages, Calls(b))
      /\ Orderly' => Loose(messages')
    <2>1. Calls(b).batch <= n
        BY <1>4, <1>5
    <2> QED
        BY <1>o, <1>1, <1>3, <1>4, <1>5, <1>7, <2>1, PersistDoes
<1>9. ASSUME Orderly'
      PROVE  \A i \in DOMAIN messages' : /\ messages'[i] # Results(b)
                                         /\ messages'[i] = Calls(b) => i = Len(messages')
    <2>1. CASE messages' = messages
        BY <1>6, <1>9, <2>1
    <2>2. CASE messages' = Append(messages, Calls(b))
        <3> DEFINE s == Append(messages, Calls(b))
        <3>1. /\ DOMAIN messages = 1..Len(messages) /\ DOMAIN s = 1..(Len(messages) + 1)
              /\ \A i \in 1..Len(messages) : s[i] = messages[i]
              /\ \A i \in 1..(Len(messages) + 1) :
                    i \in 1..Len(messages) \/ i = Len(messages) + 1
              /\ s[Len(messages) + 1] = Calls(b) /\ Len(s) = Len(messages) + 1
            BY <1>3, <1>5, AppendIs
        <3> HIDE DEF s
        <3>2. \A i \in DOMAIN s : s[i] # Results(b) /\ (s[i] = Calls(b) => i = Len(s))
            BY <1>5, <1>6, <1>9, <3>1
        <3> QED
            BY <2>2, <3>2 DEF s
    <2> QED
        BY <1>8, <2>1, <2>2
<1>10. /\ h \in Seq(Turns) /\ Len(h) = Len(g) + 1 /\ Front(h) = g /\ Last(h) = Calls(b)
       /\ h # <<>>
    BY <1>3, <1>5, AppendIs, FrontOfAppend
<1>11. ASSUME Orderly'
       PROVE  /\ Paired(g)
              /\ lost' = 0 /\ ~session[r].digested =>
                    /\ messages' # <<>> /\ Last(messages') = Calls(b)
                    /\ IsTail(g, Repair(Front(messages')))
    <2>1. Paired(g)
        BY <1>o, <1>1, <1>11, InvGives DEF Sendable
    <2>2. ASSUME lost' = 0, ~session[r].digested
          PROVE  /\ messages' # <<>> /\ Last(messages') = Calls(b)
                 /\ IsTail(g, Repair(Front(messages')))
        <3>1. IsTail(g, Repair(messages))
            BY <1>o, <1>1, <1>8, <1>11, <2>2, InvGives DEF Shared
        <3>2. messages' # <<>> /\ Last(messages') = Calls(b) /\ Front(messages') = messages
            BY <1>3, <1>5, <1>8, <2>2, FrontOfAppend
        <3> QED
            BY <3>1, <3>2
    <2> QED
        BY <2>1, <2>2
<1> HIDE DEF h
<1>12. /\ q \in Session /\ q.pc = "calling" /\ q.history = h /\ q.step = session[r].step
       /\ q.digested = session[r].digested
    BY <1>3, <1>10 DEF Session
<1> HIDE DEF q
<1>13. Grown(q, n)
    <2>1. Len(g) < HistoryLimit + 2 * q.step
        BY <1>1, <1>3, <1>12 DEF Grown
    <2>2. Len(g) \in Nat /\ HistoryLimit \in Nat /\ q.step \in Nat
        BY <1>3, <1>12, SizesAreNat, SessionIs
    <2> HIDE DEF g
    <2>3. Len(h) <= HistoryLimit + 2 * q.step
        BY <1>10, <2>1, <2>2
    <2>4. \E k \in 1..n : Last(h) = Calls(k)
        BY <1>4, <1>10
    <2> QED
        BY <1>10, <1>12, <2>3, <2>4 DEF Grown
<1>14. Orderly' => /\ Sendable(q, messages')
                   /\ lost' = 0 /\ ~q.digested => Shared(q, messages')
    BY <1>5, <1>9, <1>10, <1>11, <1>12 DEF Sendable, Shared
<1>15. created' = created /\ shared' = shared /\ batches' = n /\ reused' \in BOOLEAN
    BY <1>1, InvGives
<1>16. Orderly' => \A p \in Sessions : p # r => session[p].pc = "idle"
    BY <1>o, <1>2
<1>m. Moves(r, q)
    BY <1>1, <1>3, <1>4, <1>8, <1>12, <1>13, <1>14, <1>15, <1>16, InvGives DEF Moves
<1> QED
    BY <1>m, OneSession

LEMMA ReturnKeeps ==
    ASSUME TranscriptInv, NEW r \in Sessions, Return(r)
    PROVE  TranscriptInv'
<1> DEFINE g == session[r].history
           f == Front(g)
           b == Pending(r)
           h == Append(g, Results(b))
           q == [session[r] EXCEPT !.pc = "thinking", !.step = session[r].step + 1,
                                   !.history = h]
<1>0. session \in [Sessions -> Session]
    BY InvGives
<1>1. /\ UNCHANGED <<created, batches, unnamed, shared, reused>>
      /\ session[r].pc = "calling"
      /\ session' = [session EXCEPT ![r] = IF session[r].step = MaxSteps THEN NoSession ELSE q]
      /\ Persist(Results(b))
    BY <1>0 DEF Return
<1>2. Orderly => \A p \in Sessions : p # r => session[p].pc = "idle"
    BY <1>1, NobodyElse
<1>o. Orderly' = Orderly
    BY <1>1 DEF Orderly
<1>3. /\ session[r] \in Session /\ Grown(session[r], batches) /\ created
      /\ messages \in Seq(Turns) /\ Known(messages, batches)
    <2> HIDE DEF q
    <2> QED
        BY <1>1, InvGives
<1>4. /\ g \in Seq(Turns) /\ Len(g) \in Nat /\ session[r].step \in 0..MaxSteps
      /\ batches \in Nat /\ batches <= MaxBatches
    <2>1. batches \in 0..MaxBatches
        BY InvGives
    <2>2. g \in Seq(Turns) /\ Len(g) \in Nat /\ session[r].step \in 0..MaxSteps
        BY <1>3, SessionIs
    <2> QED
        BY <2>1, <2>2, SizesAreNat
<1>5. PICK k \in 1..batches : g # <<>> /\ Last(g) = Calls(k)
    BY <1>1, <1>3 DEF Grown
<1>6. k \in 1..MaxBatches /\ k \in Nat /\ k <= batches
    BY <1>4, SizesAreNat
<1>7. b = k
    <2>1. Last(g) = g[Len(g)]
        BY DEF Last
    <2>2. Calls(k).batch = k
        BY DEF Calls
    <2> QED
        BY <1>5, <2>1, <2>2 DEF Pending
<1> HIDE DEF b
<1>8. /\ Calls(k) \in Turns /\ Calls(k).kind = "calls" /\ Calls(k).batch = k
      /\ Results(k) \in Turns /\ Results(k).kind = "results" /\ Results(k).batch = k
    BY <1>6, ToolTurns
<1>9. f \in Seq(Turns) /\ g = Append(f, Calls(k))
    BY <1>4, <1>5, FrontAndLast
<1>10. h \in Seq(Turns) /\ Len(h) = Len(g) + 1 /\ h = Append(Append(f, Calls(k)), Results(k))
    BY <1>4, <1>7, <1>8, <1>9, AppendIs
<1>11. ASSUME Orderly
       PROVE  /\ Paired(f)
              /\ \A i \in DOMAIN messages : /\ messages[i] # Results(k)
                                            /\ messages[i] = Calls(k) => i = Len(messages)
              /\ Follows(Results(k), messages)
    <2>1. /\ Paired(f)
          /\ \A i \in DOMAIN messages : /\ messages[i] # Results(Last(g).batch)
                                        /\ messages[i] = Last(g) => i = Len(messages)
        BY <1>1, <1>11, InvGives DEF Sendable
    <2>2. \A i \in DOMAIN messages : /\ messages[i] # Results(k)
                                     /\ messages[i] = Calls(k) => i = Len(messages)
        BY <1>5, <1>8, <2>1
    <2>3. Follows(Results(k), messages)
        BY <1>8, <2>2 DEF Follows
    <2> QED
        BY <2>1, <2>2, <2>3
<1>12. /\ messages' \in Seq(Turns) /\ Known(messages', batches) /\ lost' \in 0..MaxLost
       /\ lost' = 0 => lost = 0 /\ messages' = Append(messages, Results(k))
       /\ Orderly => Loose(messages')
    <2>1. batches \in 0..MaxBatches /\ batches <= batches /\ Results(k).batch <= batches
        BY <1>4, <1>6, <1>8, InvGives
    <2> QED
        BY <1>o, <1>1, <1>3, <1>7, <1>8, <1>11, <2>1, PersistDoes
<1>13. ASSUME Orderly
       PROVE  /\ Paired(h)
              /\ lost' = 0 /\ ~session[r].digested => IsTail(h, Repair(messages'))
    <2>1. Paired(h)
        BY <1>6, <1>9, <1>10, <1>11, <1>13, PairedStep
    <2>2. ASSUME lost' = 0, ~session[r].digested
          PROVE  IsTail(h, Repair(messages'))
        <3> DEFINE F == Front(messages)
        <3>1. messages # <<>> /\ Last(messages) = Calls(k) /\ IsTail(f, Repair(F))
            BY <1>1, <1>5, <1>12, <1>13, <2>2, InvGives DEF Shared
        <3>2. F \in Seq(Turns) /\ messages = Append(F, Calls(k)) /\ Len(messages) = Len(F) + 1
            BY <1>3, <3>1, FrontAndLast
        <3> HIDE DEF F
        <3>3. \A i \in DOMAIN F : F[i] # Calls(k) /\ F[i] # Results(k)
            <4> SUFFICES ASSUME NEW i \in DOMAIN F PROVE F[i] # Calls(k) /\ F[i] # Results(k)
                OBVIOUS
            <4>1. i \in 1..Len(F) /\ DOMAIN messages = 1..Len(messages) /\ messages[i] = F[i]
                BY <1>3, <1>8, <3>2, AppendIs
            <4>2. i \in DOMAIN messages /\ i # Len(messages)
                BY <3>2, <4>1
            <4> QED
                BY <1>11, <1>13, <4>1, <4>2
        <3>4. k \notin Batches(F, "calls") /\ k \notin Batches(F, "results")
            BY <3>2, <3>3, NotThereIsNoBatch
        <3>5. Repair(messages') = Append(Append(Repair(F), Calls(k)), Results(k))
            BY <1>6, <1>12, <2>2, <3>2, <3>4, RepairStep
        <3>6. Repair(F) \in Seq(Turns)
            BY <3>2, RepairIs
        <3>7. IsTail(Append(f, Calls(k)), Append(Repair(F), Calls(k)))
            BY <1>8, <1>9, <3>1, <3>6, TailAppend
        <3>8. Append(f, Calls(k)) \in Seq(Turns) /\ Append(Repair(F), Calls(k)) \in Seq(Turns)
            BY <1>8, <1>9, <3>6, AppendIs
        <3>9. IsTail(Append(Append(f, Calls(k)), Results(k)),
                     Append(Append(Repair(F), Calls(k)), Results(k)))
            BY <1>8, <3>7, <3>8, TailAppend
        <3> QED
            BY <1>10, <3>5, <3>9
    <2> QED
        BY <2>1, <2>2
<1>14. /\ created' = created /\ batches' = batches /\ unnamed' = unnamed
       /\ shared' = shared /\ reused' = reused
    BY <1>1
<1>15. CASE session[r].step = MaxSteps
    <2>1. session' = [session EXCEPT ![r] = NoSession]
        BY <1>1, <1>15
    <2>m. Moves(r, NoSession)
        BY <1>o, <1>2, <1>3, <1>4, <1>12, <1>14, <2>1, InvGives, OverIsFine DEF Moves
    <2> QED
        BY <2>m, OneSession
<1>16. CASE session[r].step # MaxSteps
    <2>1. session' = [session EXCEPT ![r] = q]
        BY <1>1, <1>16
    <2> HIDE DEF h
    <2>2. /\ q \in Session /\ q.pc = "thinking" /\ q.history = h
          /\ q.step = session[r].step + 1
          /\ q.digested = session[r].digested
        <3>1. session[r].step + 1 \in 0..MaxSteps
            BY <1>4, <1>16, SizesAreNat
        <3> QED
            BY <1>3, <1>10, <3>1 DEF Session
    <2> HIDE DEF q
    <2>3. Grown(q, batches)
        <3>1. Len(g) <= HistoryLimit + 2 * session[r].step
            BY <1>3 DEF Grown
        <3>2. session[r].step \in Nat /\ HistoryLimit \in Nat
            BY <1>4, SizesAreNat
        <3>3. Len(h) = Len(g) + 1 /\ Len(g) \in Nat
            BY <1>4, <1>10
        <3> DEFINE n == session[r].step
                   x == Len(g)
        <3>4. x \in Nat /\ n \in Nat /\ HistoryLimit \in Nat /\ x <= HistoryLimit + 2 * n
            BY <3>1, <3>2, <3>3
        <3>5. Len(h) = x + 1 /\ q.step = n + 1
            BY <2>2, <3>3
        <3> HIDE DEF g, f, n, x
        <3>6. x + 1 < HistoryLimit + 2 * (n + 1) /\ x + 1 <= HistoryLimit + 2 * (n + 1)
            BY <3>4
        <3> QED
            BY <2>2, <3>5, <3>6 DEF Grown
    <2>4. Orderly => /\ Sendable(q, messages')
                     /\ lost' = 0 /\ ~q.digested => Shared(q, messages')
        BY <1>13, <2>2 DEF Sendable, Shared
    <2>m. Moves(r, q)
        BY <1>o, <1>2, <1>3, <1>4, <1>12, <1>14, <2>1, <2>2, <2>3, <2>4, InvGives DEF Moves
    <2> QED
        BY <2>m, OneSession
<1> QED
    BY <1>15, <1>16

LEMMA TranscriptInitially == TranscriptInit => TranscriptInv
<1> SUFFICES ASSUME TranscriptInit PROVE TranscriptInv
    OBVIOUS
<1>1. /\ created = FALSE /\ messages = <<>> /\ batches = 0 /\ unnamed = 0
      /\ shared = FALSE /\ reused = FALSE /\ lost = 0
      /\ session = [r \in Sessions |-> NoSession]
    BY DEF TranscriptInit
<1>2. session \in [Sessions -> Session] /\ \A r \in Sessions : session[r] = NoSession
    BY <1>1, OverIsFine
<1>3. messages \in Seq(Turns) /\ DOMAIN messages = {}
    BY <1>1
<1>4. Known(messages, batches) /\ Loose(messages)
    BY <1>3 DEF Known, Loose
<1>5. 0 \in 0..MaxLost /\ 0 \in 0..MaxBatches /\ 0 \in 0..0
    BY SizesAreNat
<1> QED
    BY <1>1, <1>2, <1>3, <1>4, <1>5, OverIsFine DEF TranscriptInv, InProgress

LEMMA TranscriptStep == TranscriptInv /\ [TranscriptNext]_transcriptVars => TranscriptInv'
<1> SUFFICES ASSUME TranscriptInv, [TranscriptNext]_transcriptVars PROVE TranscriptInv'
    OBVIOUS
<1>1. CASE UNCHANGED transcriptVars
    <2>1. /\ created' = created /\ messages' = messages /\ session' = session
          /\ batches' = batches /\ unnamed' = unnamed /\ lost' = lost
          /\ shared' = shared /\ reused' = reused
        BY <1>1 DEF transcriptVars
    <2> QED
        BY <2>1 DEF TranscriptInv, InProgress, Orderly
<1>2. ASSUME NEW r \in Sessions,
             \/ Open(r) \/ Create(r) \/ Load(r) \/ Prompt(r) \/ Fits(r) \/ Compact(r)
             \/ Answer(r) \/ Call(r) \/ Return(r) \/ Cut(r)
      PROVE  TranscriptInv'
    BY <1>2, OpenKeeps, CreateKeeps, LoadKeeps, PromptKeeps, FitsKeeps, CompactKeeps,
       AnswerKeeps, CallKeeps, ReturnKeeps, CutKeeps
<1> QED
    BY <1>1, <1>2 DEF TranscriptNext

\* TranscriptInv is an invariant: every step of every run in the conversation keeps it,
\* those that are cut off and those whose writes are lost too.
THEOREM TranscriptInvHolds == TranscriptSpec => []TranscriptInv
BY TranscriptInitially, TranscriptStep, PTL DEF TranscriptSpec

LEMMA InvIsAccepted == TranscriptInv => Accepted
<1> SUFFICES ASSUME TranscriptInv PROVE Accepted
    OBVIOUS
<1>1. TranscriptTypeOK
    <2>1. ASSUME NEW r \in Sessions
          PROVE  /\ session[r].pc \in {"idle", "creating", "loading", "prompting", "thinking",
                           "asking", "calling"}
                 /\ session[r].history \in Seq(Turns)
                 /\ Len(session[r].history) <= HistoryLimit + 2 * session[r].step
                 /\ session[r].step \in 0..MaxSteps
                 /\ session[r].digested \in BOOLEAN
        <3>1. session[r] \in Session /\ Grown(session[r], batches)
            BY InvGives
        <3> QED
            BY <3>1 DEF Session, Grown
    <2> QED
        BY <2>1 DEF TranscriptTypeOK, TranscriptInv
<1>2. ASSUME NEW r \in Sessions, session[r].pc = "asking", Orderly
      PROVE  /\ TakenByOpenAI(WireOpenAI(session[r].history))
             /\ TakenByAnthropic(WireAnthropic(session[r].history))
    <2>1. Paired(session[r].history)
        BY <1>2, InvGives DEF Sendable
    <2>2. session[r].history \in Seq(Turns)
        BY InvGives, SessionIs
    <2> QED
        BY <2>1, <2>2, PairedIsTakenByOpenAI, PairedIsTakenByAnthropic
<1>3. Batches(Repair(Window(messages)), "calls") = Batches(Repair(Window(messages)), "results")
    <2>1. messages \in Seq(Turns)
        BY DEF TranscriptInv
    <2>2. Window(messages) \in Seq(Turns)
        BY <2>1, WindowIs
    <2> QED
        BY <2>2, RepairBatches
<1> QED
    BY <1>1, <1>2, <1>3 DEF Accepted

\* Accepted, for every instance: neither service is ever sent calls without their results
\* or results without their calls (runtime.py, _drop_dangling_tool_calls), unless two
\* runs were in the conversation at once or two of its steps have the same ids
\* (openai_provider.py, stream); and even then what is read back has the results of its
\* calls and the calls of its results.
THEOREM AlwaysAccepted == TranscriptSpec => []Accepted
BY TranscriptInvHolds, InvIsAccepted, PTL

LEMMA InvIsSeen == TranscriptInv => SeenIsStored
<1> SUFFICES ASSUME TranscriptInv, NEW r \in Sessions, session[r].pc = "asking",
                    Orderly, lost = 0, ~session[r].digested
             PROVE  IsSuffix(session[r].history, Repair(messages))
    BY DEF SeenIsStored
<1>1. lost = 0
    BY SizesAreNat DEF TranscriptInv
<1>2. IsTail(session[r].history, Repair(messages))
    BY <1>1, InvGives DEF Shared
<1>3. session[r].history \in Seq(Turns) /\ Repair(messages) \in Seq(Turns)
    <2>1. session[r] \in Session /\ messages \in Seq(Turns)
        BY InvGives
    <2> QED
        BY <2>1, SessionIs, RepairIs
<1> QED
    BY <1>2, <1>3, TailIsSuffix

\* SeenIsStored, for every instance: what the model saw, and nothing else, is what the
\* next run reads back, unless a write was lost or a summary took its place.
THEOREM SeenAlwaysStored == TranscriptSpec => []SeenIsStored
BY TranscriptInvHolds, InvIsSeen, PTL

--------------------------------------------------------------------------------
(* What comes of an answer (LanguageModel).                                   *)

\* What may have come of an answer's calls.
AllSlots == UNION {[1..n -> Slot] : n \in 0..MaxCalls}

Indices(slots) == {slots[s].index : s \in DOMAIN slots}

\* No two slots are of the same call, and every one is of a call that was made.
Apart(slots, calls) ==
    /\ \A s, t \in DOMAIN slots : slots[s].index = slots[t].index => s = t
    /\ \A s \in DOMAIN slots : slots[s].index <= calls

\* The calls of an answer that comes in one piece.
Sent(calls) == [i \in 1..calls |-> [index |-> i, got |-> Pieces]]

LEMMA Counts ==
    /\ MaxCalls \in Nat /\ MaxRetries \in Nat /\ Pieces \in Nat /\ Pieces > 0
    /\ {0, 1} \subseteq 0..(MaxRetries + 1) /\ 0 \in 0..MaxCalls
BY LanguageModelAssumption DEF LanguageModelAssumption

LEMMA SlotsAreSequences ==
    ASSUME NEW slots
    PROVE  slots \in AllSlots <=> slots \in Seq(Slot) /\ Len(slots) <= MaxCalls
<1>1. ASSUME slots \in AllSlots PROVE slots \in Seq(Slot) /\ Len(slots) <= MaxCalls
    <2>1. PICK n \in 0..MaxCalls : slots \in [1..n -> Slot]
        BY <1>1 DEF AllSlots
    <2>2. n \in Nat /\ n <= MaxCalls
        BY Counts
    <2>3. slots \in Seq(Slot)
        BY <2>1, <2>2, SeqDef
    <2>4. DOMAIN slots = 1..n
        BY <2>1
    <2>5. Len(slots) = n
        BY <2>2, <2>3, <2>4
    <2> QED
        BY <2>2, <2>3, <2>5
<1>2. ASSUME slots \in Seq(Slot), Len(slots) <= MaxCalls PROVE slots \in AllSlots
    <2>1. Len(slots) \in 0..MaxCalls
        BY <1>2, Counts
    <2>2. slots \in [1..Len(slots) -> Slot]
        BY <1>2
    <2> QED
        BY <2>1, <2>2 DEF AllSlots
<1> QED
    BY <1>1, <1>2

LEMMA SlotIs ==
    ASSUME NEW x \in Slot
    PROVE  /\ x.index \in 1..MaxCalls /\ x.index \in Nat /\ x.index > 0
           /\ x.got \in 1..Pieces /\ x.got \in Nat
           /\ x = [index |-> x.index, got |-> x.got]
BY Counts DEF Slot

LEMMA UpTo ==
    ASSUME NEW m \in Nat
    PROVE  IsFiniteSet(1..m) /\ Cardinality(1..m) = m
BY FS_Interval

\* As many indices as slots.
LEMMA IndicesAre ==
    ASSUME NEW calls \in Nat, NEW slots \in Seq(Slot), Apart(slots, calls)
    PROVE  /\ Indices(slots) \in SUBSET Nat
           /\ Indices(slots) \in SUBSET (1..calls)
           /\ IsFiniteSet(Indices(slots))
           /\ Cardinality(Indices(slots)) = Len(slots)
<1> DEFINE f == [s \in 1..Len(slots) |-> slots[s].index]
           S == 1..Len(slots)
           T == Indices(slots)
<1>0. DOMAIN slots = S /\ Len(slots) \in Nat
    OBVIOUS
<1>1. \A s \in S : slots[s] \in Slot
    BY <1>0
<1>2. \A s \in S : slots[s].index \in Nat /\ slots[s].index > 0 /\ slots[s].index <= calls
    BY <1>0, <1>1, SlotIs DEF Apart
<1>3. T \in SUBSET Nat /\ T \in SUBSET (1..calls)
    BY <1>0, <1>2 DEF Indices
<1>4. f \in [S -> T] /\ \A s \in S : f[s] = slots[s].index
    BY <1>0 DEF Indices
<1>5. \A s, t \in S : f[s] = f[t] => s = t
    BY <1>0, <1>4 DEF Apart
<1>6. \A t \in T : \E s \in S : f[s] = t
    BY <1>0, <1>4 DEF Indices
<1>7. IsFiniteSet(S) /\ Cardinality(S) = Len(slots)
    BY <1>0, UpTo
<1> HIDE DEF f, S, T
<1>8. f \in Bijection(S, T)
    BY <1>4, <1>5, <1>6, Fun_IsBij
<1>9. ExistsBijection(S, T)
    BY <1>8 DEF ExistsBijection
<1>10. IsFiniteSet(T) /\ Cardinality(T) = Cardinality(S)
    BY <1>7, <1>9, FS_Bijection
<1> QED
    BY <1>3, <1>7, <1>10 DEF T

\* A call that has no slot yet leaves room for one.
LEMMA RoomForOneMore ==
    ASSUME NEW calls \in Nat, NEW slots \in Seq(Slot), Apart(slots, calls),
           NEW i \in 1..calls, i \notin Indices(slots)
    PROVE  Len(slots) + 1 <= calls
<1> DEFINE S == Indices(slots)
           T == 1..calls
<1>1. S \in SUBSET T /\ IsFiniteSet(S) /\ Cardinality(S) = Len(slots)
    BY IndicesAre
<1>2. IsFiniteSet(T) /\ Cardinality(T) = calls
    BY UpTo
<1>3. i \notin S /\ i \in T /\ Len(slots) \in Nat
    OBVIOUS
<1> HIDE DEF S, T
<1>4. Cardinality(S \cup {i}) = Len(slots) + 1
    BY <1>1, <1>3, FS_AddElement
<1>5. S \cup {i} \in SUBSET T
    BY <1>1, <1>3
<1>6. Cardinality(S \cup {i}) <= Cardinality(T)
    BY <1>2, <1>5, FS_Subset
<1> QED
    BY <1>2, <1>4, <1>6

\* One more piece: the slots stay of different calls, all of them made.
LEMMA FedIs ==
    ASSUME NEW calls \in 0..MaxCalls, NEW slots \in AllSlots, Apart(slots, calls),
           NEW i \in 1..calls, \A s \in SlotOf(slots, i) : slots[s].got < Pieces
    PROVE  Fed(slots, i) \in AllSlots /\ Apart(Fed(slots, i), calls)
<1> DEFINE new == [index |-> i, got |-> 1]
           f == Fed(slots, i)
<1>0. /\ slots \in Seq(Slot) /\ Len(slots) <= MaxCalls
      /\ calls \in Nat /\ calls <= MaxCalls /\ i \in 1..MaxCalls /\ i \in Nat
      /\ \A s \in 1..Len(slots) : slots[s] \in Slot
      /\ DOMAIN slots = 1..Len(slots) /\ Len(slots) \in Nat
    <2>1. slots \in Seq(Slot) /\ Len(slots) <= MaxCalls
        BY SlotsAreSequences
    <2> QED
        BY <2>1, Counts
<1>1. CASE SlotOf(slots, i) = {}
    <2>1. f = Append(slots, new)
        BY <1>1 DEF Fed
    <2>2. new \in Slot
        BY <1>0, Counts DEF Slot
    <2>3. i \notin Indices(slots)
        BY <1>1 DEF SlotOf, Indices
    <2>4. Len(slots) + 1 <= calls
        BY <1>0, <2>3, RoomForOneMore
    <2>5. /\ f \in Seq(Slot) /\ Len(f) = Len(slots) + 1
          /\ DOMAIN f = 1..(Len(slots) + 1)
          /\ \A s \in 1..Len(slots) : f[s] = slots[s]
          /\ f[Len(slots) + 1] = new
        BY <1>0, <2>1, <2>2, AppendProperties
    <2>6. Len(f) <= MaxCalls
        BY <1>0, <2>4, <2>5, Counts
    <2>7. f \in AllSlots
        BY <2>5, <2>6, SlotsAreSequences
    <2>8. \A s \in 1..Len(slots) : f[s].index = slots[s].index /\ f[s].index # i
        BY <1>0, <2>3, <2>5 DEF Indices
    <2>9. new.index = i
        OBVIOUS
    <2> HIDE DEF f, new
    <2>10. ASSUME NEW s \in DOMAIN f, NEW t \in DOMAIN f, f[s].index = f[t].index
           PROVE  s = t
        <3>1. CASE s \in 1..Len(slots) /\ t \in 1..Len(slots)
            BY <1>0, <2>8, <2>10, <3>1 DEF Apart
        <3>2. CASE s = Len(slots) + 1 \/ t = Len(slots) + 1
            BY <1>0, <2>5, <2>8, <2>9, <2>10, <3>2
        <3> QED
            BY <1>0, <2>5, <3>1, <3>2
    <2>11. ASSUME NEW s \in DOMAIN f PROVE f[s].index <= calls
        <3>1. CASE s \in 1..Len(slots)
            BY <1>0, <2>8, <3>1 DEF Apart
        <3>2. CASE s = Len(slots) + 1
            BY <1>0, <2>5, <2>9, <3>2
        <3> QED
            BY <1>0, <2>5, <2>11, <3>1, <3>2
    <2> QED
        BY <2>7, <2>10, <2>11 DEF Apart, f
<1>2. CASE SlotOf(slots, i) # {}
    <2> DEFINE N == 1..Len(slots)
               g(s) == slots[s].got + (IF s \in SlotOf(slots, i) THEN 1 ELSE 0)
    <2>1. f = [s \in N |-> [index |-> slots[s].index, got |-> g(s)]]
        BY <1>0, <1>2 DEF Fed
    <2>2. ASSUME NEW s \in N PROVE g(s) \in 1..Pieces
        <3>1. slots[s].got \in 1..Pieces /\ slots[s].got \in Nat
            BY <1>0, SlotIs
        <3>2. s \in SlotOf(slots, i) => slots[s].got < Pieces
            OBVIOUS
        <3> QED
            BY <3>1, <3>2, Counts
    <2>3. ASSUME NEW s \in N PROVE slots[s].index \in 1..MaxCalls
        BY <1>0, SlotIs
    <2> HIDE DEF g
    <2>4. ASSUME NEW s \in N PROVE f[s] \in Slot /\ f[s].index = slots[s].index
        BY <2>1, <2>2, <2>3 DEF Slot
    <2>5. DOMAIN f = N /\ f \in [N -> Slot]
        BY <2>1, <2>4
    <2> HIDE DEF f
    <2>6. f \in AllSlots
        <3>1. Len(slots) \in 0..MaxCalls
            BY <1>0, Counts
        <3> QED
            BY <2>5, <3>1 DEF AllSlots
    <2>7. Apart(f, calls)
        BY <1>0, <2>4, <2>5 DEF Apart
    <2> QED
        BY <2>6, <2>7 DEF f
<1> QED
    BY <1>1, <1>2

\* The n-th of the numbers up to m is n.
LEMMA NthUpTo ==
    ASSUME NEW m \in Nat, NEW n \in 1..m PROVE Nth(1..m, n) = n
<1> DEFINE S == 1..m
<1>1. S \in SUBSET Nat /\ IsFiniteSet(S) /\ n \in S
    BY FS_Interval
<1>2. Below(S, n) = 1..(n - 1)
    BY DEF Below
<1>3. Cardinality(Below(S, n)) = n - 1
    BY <1>2, FS_Interval
<1>4. Nth(S, Cardinality(Below(S, n)) + 1) = n
    BY <1>1, NthOfRank
<1>5. Cardinality(Below(S, n)) + 1 = n
    BY <1>3
<1> QED
    BY <1>4, <1>5

\* Put in order, the slots are slots, and those of an answer that is whole are the calls
\* that were sent.
LEMMA InOrderIs ==
    ASSUME NEW calls \in 0..MaxCalls, NEW slots \in AllSlots, Apart(slots, calls)
    PROVE  /\ InOrder(slots) \in AllSlots
           /\ Len(slots) = calls /\ (\A s \in DOMAIN slots : slots[s].got = Pieces)
                => InOrder(slots) = Sent(calls)
<1> DEFINE S == Indices(slots)
           N == 1..Len(slots)
           at(n) == CHOOSE s \in DOMAIN slots : slots[s].index = Nth(S, n)
           f == InOrder(slots)
<1>0. /\ slots \in Seq(Slot) /\ Len(slots) <= MaxCalls /\ calls \in Nat
      /\ DOMAIN slots = N /\ Len(slots) \in Nat
      /\ \A s \in N : slots[s] \in Slot
    <2>1. slots \in Seq(Slot) /\ Len(slots) <= MaxCalls
        BY SlotsAreSequences
    <2> QED
        BY <2>1, Counts
<1>1. /\ S \in SUBSET Nat /\ S \in SUBSET (1..calls) /\ IsFiniteSet(S)
      /\ Cardinality(S) = Len(slots)
    BY <1>0, IndicesAre
<1>2. f = [n \in N |-> slots[at(n)]]
    BY <1>0 DEF InOrder, Indices
<1>3. ASSUME NEW n \in N PROVE at(n) \in N /\ slots[at(n)].index = Nth(S, n)
    <2>1. n \in 1..Cardinality(S)
        BY <1>1
    <2>2. Nth(S, n) \in S
        BY <1>1, <2>1, NthIsThere
    <2>3. \E s \in DOMAIN slots : slots[s].index = Nth(S, n)
        BY <2>2 DEF Indices
    <2> QED
        BY <1>0, <2>3
<1> HIDE DEF at
<1>4. f \in AllSlots
    <2>1. f \in [N -> Slot]
        BY <1>0, <1>2, <1>3
    <2>2. Len(slots) \in 0..MaxCalls
        BY <1>0, Counts
    <2> HIDE DEF f
    <2> QED
        BY <2>1, <2>2 DEF AllSlots
<1>5. ASSUME Len(slots) = calls, \A s \in DOMAIN slots : slots[s].got = Pieces
      PROVE  f = Sent(calls)
    <2>1. IsFiniteSet(1..calls) /\ Cardinality(1..calls) = calls
        BY <1>0, UpTo
    <2>2. S = 1..calls
        <3> HIDE DEF S
        <3> QED
            BY <1>1, <1>5, <2>1, FS_Subset
    <2>3. ASSUME NEW n \in N PROVE slots[at(n)] = [index |-> n, got |-> Pieces]
        <3>1. Nth(S, n) = n
            BY <1>0, <1>5, <2>2, NthUpTo
        <3>2. slots[at(n)] \in Slot /\ slots[at(n)].index = n /\ slots[at(n)].got = Pieces
            BY <1>0, <1>3, <1>5, <3>1
        <3> QED
            BY <3>2, SlotIs
    <2>4. N = 1..calls
        BY <1>5
    <2> QED
        BY <1>2, <2>3, <2>4 DEF Sent
<1> QED
    BY <1>4, <1>5 DEF f

--------------------------------------------------------------------------------
(* The settings, the clients and the requests.                                *)

Busy(r) == run[r].pc # "idle"

\* Without the types.
FileIsInForce == \A k \in Keys \ stale : setting[k] = Overlay(stored)[k]

\* The client that the application caches has the settings in force, and nobody has
\* begun to close it.
CachedIsNew ==
    provider # NoClient => /\ client[provider] # None
                           /\ client[provider].config = setting
                           /\ client[provider].state = "open"

\* A run holds a client of the settings it began with, which is open if the run is the
\* bridge's.
HoldsItsOwn(r) ==
    Busy(r) => /\ run[r].client \in Clients
               /\ client[run[r].client] # None
               /\ client[run[r].client].config = run[r].wants
               /\ run[r].kind = "chat" => client[run[r].client].state = "open"

\* What has come of an answer: nothing before it begins, then slots of different calls,
\* and in the end, unless the stream was cut off, the calls that were sent.
Received(q) ==
    /\ q.pc \in {"requesting", "waiting"} => q.slots = <<>>
    /\ q.pc = "waiting" => q.attempt <= MaxRetries
    /\ q.pc = "streaming" => Apart(q.slots, q.calls)
    /\ q.pc = "answered" /\ ~q.cut => q.slots = Sent(q.calls)

Inv == /\ TypeOK /\ FileIsInForce
       /\ CachedIsNew /\ \A r \in Runs : HoldsItsOwn(r)
       /\ \A r \in Runs : Received(run[r])

LEMMA NothingIsNoClient == \A x \in Client : x # None
BY DEF Client, None

LEMMA OverlayIsConfig ==
    ASSUME NEW f \in Stored PROVE Overlay(f) \in Config
BY LanguageModelAssumption DEF Overlay, Config, Stored, LanguageModelAssumption

LEMMA RunType ==
    Run = [pc : {"idle", "ready", "answered", "failed"} \cup Asking, kind : {"chat", "task"},
           client : Clients \cup {NoClient}, wants : Config \cup {None},
           attempt : 0..(MaxRetries + 1), calls : 0..MaxCalls, slots : AllSlots,
           cut : BOOLEAN, why : {"none", "transient", "other"}]
BY DEF Run, AllSlots

LEMMA NothingYet ==
    /\ <<>> \in AllSlots
    /\ \A calls : Apart(<<>>, calls)
<1> DEFINE e == <<>>
<1>1. e \in Seq(Slot) /\ Len(e) = 0
    OBVIOUS
<1>2. \A calls : Apart(e, calls)
    BY DEF Apart
<1> HIDE DEF e
<1>3. Len(e) <= MaxCalls
    BY <1>1, Counts
<1>4. e \in AllSlots
    BY <1>1, <1>3, SlotsAreSequences
<1> QED
    BY <1>2, <1>4 DEF e

LEMMA SentIsSlots ==
    ASSUME NEW n \in 0..MaxCalls PROVE Sent(n) \in AllSlots
<1>1. \A i \in 1..n : [index |-> i, got |-> Pieces] \in Slot
    BY Counts DEF Slot
<1> QED
    BY <1>1 DEF Sent, AllSlots

LEMMA NoRunIs ==
    NoRun \in Run /\ NoRun.pc = "idle" /\ Received(NoRun)
<1>1. NoRun \in Run
    BY RunType, NothingYet, Counts DEF NoRun
<1> QED
    BY <1>1 DEF NoRun, Received

LEMMA Begins == Init => Inv
<1> SUFFICES ASSUME Init PROVE Inv
    OBVIOUS
<1>1. stored \in Stored
    BY DEF Init, NoFile, Stored
<1>2. setting \in Config
    BY <1>1, OverlayIsConfig DEF Init
<1>3. \A r \in Runs : run[r] = NoRun
    BY DEF Init
<1>4. TypeOK
    BY <1>1, <1>2, <1>3, NoRunIs DEF Init, TypeOK
<1>5. \A r \in Runs : HoldsItsOwn(r) /\ Received(run[r])
    BY <1>3, NoRunIs DEF HoldsItsOwn, Busy
<1> QED
    BY <1>4, <1>5 DEF Init, Inv, FileIsInForce, CachedIsNew

LEMMA ReceivedStays ==
    ASSUME Inv, UNCHANGED run PROVE \A r \in Runs : Received(run[r])'
BY DEF Inv, Received, Apart, Sent

\* The provider is dropped: its client begins to close, which no run of the bridge
\* holds, and every other client is left alone.
LEMMA DropIsHarmless ==
    ASSUME Inv, Quiet, DropsProvider, UNCHANGED run
    PROVE  /\ provider' \in Clients \cup {NoClient}
           /\ client' \in [Clients -> Client \cup {None}]
           /\ CachedIsNew'
           /\ \A r \in Runs : HoldsItsOwn(r)'
<1>1. provider' = NoClient
    BY DEF DropsProvider
<1>2. CASE provider = NoClient
    <2>1. client' = client
        BY <1>2 DEF DropsProvider
    <2> QED
        BY <1>1, <2>1 DEF Inv, TypeOK, CachedIsNew, HoldsItsOwn, Busy
<1>3. CASE provider # NoClient
    <2>1. provider \in Clients /\ client[provider] \in Client
        BY <1>3 DEF Inv, TypeOK, CachedIsNew, NoClient
    <2>2. client' = [client EXCEPT ![provider].state = "closing"]
        BY <1>3 DEF DropsProvider
    <2>3. client'[provider] = [client[provider] EXCEPT !.state = "closing"]
        BY <2>1, <2>2 DEF Inv, TypeOK
    <2>4. client'[provider] \in Client /\ client'[provider].config = client[provider].config
        BY <2>1, <2>3 DEF Client
    <2>5. client' \in [Clients -> Client \cup {None}]
        BY <2>1, <2>2, <2>3, <2>4 DEF Inv, TypeOK
    <2>6. ASSUME NEW r \in Runs, Busy(r) PROVE HoldsItsOwn(r)'
        <3>1. run[r].kind = "task"
            BY <2>6 DEF Quiet, Busy
        <3>2. client'[run[r].client] # None /\ client'[run[r].client].config = run[r].wants
            BY <2>1, <2>2, <2>4, <2>6, NothingIsNoClient DEF Inv, TypeOK, HoldsItsOwn
        <3> QED
            BY <2>6, <3>1, <3>2 DEF Inv, HoldsItsOwn, Busy
    <2> QED
        BY <1>1, <2>5, <2>6 DEF CachedIsNew, HoldsItsOwn, Busy
<1> QED
    BY <1>2, <1>3

\* Nothing but what the run itself has received changes.
Stays(r, q) == /\ Busy(r) /\ q.client = run[r].client
               /\ q.wants = run[r].wants /\ q.kind = run[r].kind

LEMMA RunGoesOn ==
    ASSUME Inv, NEW r \in Runs, NEW q \in Run, Goes(r, q), Received(q),
           q.pc = "idle" \/ Stays(r, q)
    PROVE  Inv'
<1>1. UNCHANGED <<stored, setting, streams, provider, client, stale>>
    BY DEF Goes
<1>2. run' = [run EXCEPT ![r] = q]
    BY DEF Goes
<1>3. run' \in [Runs -> Run] /\ run'[r] = q /\ \A s \in Runs \ {r} : run'[s] = run[s]
    BY <1>2 DEF Inv, TypeOK
<1>4. TypeOK' /\ FileIsInForce' /\ CachedIsNew'
    BY <1>1, <1>3 DEF Inv, TypeOK, FileIsInForce, CachedIsNew, Overlay
<1>5. ASSUME NEW s \in Runs PROVE HoldsItsOwn(s)' /\ Received(run'[s])
    <2>1. CASE s # r
        BY <1>1, <1>3, <2>1 DEF Inv, HoldsItsOwn, Busy
    <2>2. CASE s = r
        BY <1>1, <1>3, <2>2 DEF Inv, HoldsItsOwn, Busy, Stays
    <2> QED
        BY <2>1, <2>2
<1>6. \A s \in Runs : Received(run[s])'
    BY <1>5 DEF Received, Apart, Sent
<1> QED
    BY <1>4, <1>5, <1>6 DEF Inv

LEMMA RunIs ==
    ASSUME Inv, NEW r \in Runs
    PROVE  /\ run[r] \in Run /\ run[r].attempt \in Nat
           /\ run[r].calls \in 0..MaxCalls /\ run[r].calls \in Nat
           /\ run[r].slots \in AllSlots /\ Received(run[r])
<1>1. run[r] \in Run
    BY DEF Inv, TypeOK
<1>2. /\ run[r].attempt \in 0..(MaxRetries + 1) /\ run[r].calls \in 0..MaxCalls
      /\ run[r].slots \in AllSlots
    BY <1>1 DEF Run, AllSlots
<1> QED
    BY <1>1, <1>2, Counts DEF Inv

LEMMA FailingKeeps ==
    ASSUME Inv, NEW r \in Runs, Busy(r), NEW why \in {"transient", "other"}, Fails(r, why)
    PROVE  Inv'
<1> DEFINE q == [run[r] EXCEPT !.pc = "failed", !.why = why, !.calls = 0, !.slots = <<>>]
<1>1. Goes(r, q)
    BY DEF Fails
<1>2. q \in Run
    BY RunIs, RunType, NothingYet, Counts
<1>3. Stays(r, q) /\ q.pc = "failed"
    BY RunIs DEF Run, Stays
<1> HIDE DEF q
<1> QED
    BY <1>1, <1>2, <1>3, RunGoesOn DEF Received

LEMMA AskKeeps ==
    ASSUME Inv, NEW r \in Runs, Ask(r) PROVE Inv'
<1> DEFINE q == [run[r] EXCEPT !.pc = "requesting", !.attempt = 1, !.calls = 0,
                               !.slots = <<>>, !.cut = FALSE]
<1>1. Goes(r, q) /\ Busy(r)
    BY DEF Ask, Busy
<1>2. q \in Run
    BY RunIs, RunType, NothingYet, Counts DEF Asking
<1>3. Stays(r, q) /\ q.pc = "requesting" /\ q.slots = <<>>
    BY <1>1, RunIs DEF Run, Stays
<1> HIDE DEF q
<1> QED
    BY <1>1, <1>2, <1>3, RunGoesOn DEF Received

LEMMA CompletesKeeps ==
    ASSUME Inv, NEW r \in Runs, NEW n \in 0..MaxCalls, Completes(r, n) PROVE Inv'
<1> DEFINE q == [run[r] EXCEPT !.pc = "answered", !.calls = n, !.attempt = 0,
                               !.slots = Sent(n)]
<1>1. Goes(r, q) /\ Busy(r)
    BY DEF Completes, Busy, Sent
<1>2. q \in Run
    BY RunIs, RunType, SentIsSlots, Counts
<1>3. Stays(r, q) /\ q.pc = "answered" /\ q.calls = n /\ q.slots = Sent(n)
    BY <1>1, RunIs DEF Run, Stays
<1> HIDE DEF q
<1> QED
    BY <1>1, <1>2, <1>3, RunGoesOn DEF Received

LEMMA TroubledKeeps ==
    ASSUME Inv, NEW r \in Runs, Troubled(r) PROVE Inv'
<1>0. Busy(r) /\ run[r].pc = "requesting"
    BY DEF Troubled, Busy
<1>1. CASE streams \/ Exhausted(r)
    BY <1>0, <1>1, FailingKeeps DEF Troubled
<1>2. CASE ~(streams \/ Exhausted(r))
    <2> DEFINE q == [run[r] EXCEPT !.pc = "waiting"]
    <2>1. Goes(r, q)
        BY <1>2 DEF Troubled
    <2>2. q \in Run
        BY RunIs DEF Run, Asking
    <2>3. /\ Stays(r, q) /\ q.pc = "waiting"
          /\ q.slots = run[r].slots /\ q.attempt = run[r].attempt
        BY <1>0, RunIs DEF Run, Stays
    <2>4. run[r].slots = <<>>
        BY <1>0, RunIs DEF Received
    <2>5. run[r].attempt <= MaxRetries
        BY <1>2, RunIs, Counts DEF Exhausted
    <2> HIDE DEF q
    <2> QED
        BY <2>1, <2>2, <2>3, <2>4, <2>5, RunGoesOn DEF Received
<1> QED
    BY <1>1, <1>2

LEMMA RetriesKeeps ==
    ASSUME Inv, NEW r \in Runs, Retries(r) PROVE Inv'
<1> DEFINE q == [run[r] EXCEPT !.pc = "requesting", !.attempt = run[r].attempt + 1]
<1>1. Goes(r, q) /\ Busy(r) /\ run[r].pc = "waiting"
    BY DEF Retries, Busy
<1>2. run[r].slots = <<>> /\ run[r].attempt <= MaxRetries
    BY <1>1, RunIs DEF Received
<1>3. run[r].attempt + 1 \in 0..(MaxRetries + 1)
    BY <1>2, RunIs, Counts
<1>4. q \in Run
    BY <1>3, RunIs DEF Run, Asking
<1>5. Stays(r, q) /\ q.pc = "requesting" /\ q.slots = run[r].slots
    BY <1>1, RunIs DEF Run, Stays
<1> HIDE DEF q
<1> QED
    BY <1>1, <1>2, <1>4, <1>5, RunGoesOn DEF Received

LEMMA OpensKeeps ==
    ASSUME Inv, NEW r \in Runs, NEW n \in 0..MaxCalls, Opens(r, n) PROVE Inv'
<1> DEFINE q == [run[r] EXCEPT !.pc = "streaming", !.calls = n]
<1>1. Goes(r, q) /\ Busy(r) /\ run[r].pc = "requesting"
    BY DEF Opens, Busy
<1>2. run[r].slots = <<>>
    BY <1>1, RunIs DEF Received
<1>3. q \in Run
    BY RunIs DEF Run, Asking
<1>4. Stays(r, q) /\ q.pc = "streaming" /\ q.slots = run[r].slots
    BY <1>1, RunIs DEF Run, Stays
<1> HIDE DEF q
<1> QED
    BY <1>1, <1>2, <1>3, <1>4, NothingYet, RunGoesOn DEF Received

LEMMA PieceKeeps ==
    ASSUME Inv, NEW r \in Runs, NEW i \in 1..MaxCalls, Piece(r, i) PROVE Inv'
<1> DEFINE f == Fed(run[r].slots, i)
           q == [run[r] EXCEPT !.slots = f]
<1>1. Goes(r, q) /\ Busy(r) /\ run[r].pc = "streaming"
    BY DEF Piece, Busy
<1>2. /\ Apart(run[r].slots, run[r].calls)
      /\ \A s \in SlotOf(run[r].slots, i) : run[r].slots[s].got < Pieces
    BY <1>1, RunIs DEF Received, Piece
<1>3. i \in 1..run[r].calls
    BY RunIs, Counts DEF Piece
<1>4. f \in AllSlots /\ Apart(f, run[r].calls)
    BY <1>2, <1>3, RunIs, FedIs
<1> HIDE DEF f
<1>5. q \in Run
    BY <1>4, RunIs, RunType
<1>6. /\ Stays(r, q) /\ q.pc = "streaming"
      /\ q.slots = f /\ q.calls = run[r].calls
    BY <1>1, RunIs DEF Run, Stays
<1> HIDE DEF q
<1> QED
    BY <1>1, <1>4, <1>5, <1>6, RunGoesOn DEF Received

LEMMA StreamEndsKeeps ==
    ASSUME Inv, NEW r \in Runs, StreamEnds(r) PROVE Inv'
<1> DEFINE f == InOrder(run[r].slots)
           w == Whole(r)
           q == [run[r] EXCEPT !.pc = "answered", !.attempt = 0, !.slots = f, !.cut = ~w]
<1>1. Goes(r, q) /\ Busy(r) /\ run[r].pc = "streaming"
    BY DEF StreamEnds, Busy
<1>2. Apart(run[r].slots, run[r].calls)
    BY <1>1, RunIs DEF Received
<1>3. f \in AllSlots /\ (w => f = Sent(run[r].calls)) /\ w \in BOOLEAN
    BY <1>2, RunIs, InOrderIs DEF Whole
<1> HIDE DEF f, w
<1>4. q \in Run
    BY <1>3, RunIs, RunType, Counts
<1>5. /\ Stays(r, q) /\ q.pc = "answered"
      /\ q.slots = f /\ q.calls = run[r].calls /\ q.cut = ~w
    BY <1>1, RunIs DEF Run, Stays
<1> HIDE DEF q
<1> QED
    BY <1>1, <1>3, <1>4, <1>5, RunGoesOn DEF Received

LEMMA EndsKeeps ==
    ASSUME Inv, NEW r \in Runs, Ends(r) PROVE Inv'
<1>1. Goes(r, NoRun)
    BY DEF Ends
<1> QED
    BY <1>1, NoRunIs, RunGoesOn

\* A step of a run's requests leaves it its client.
LEMMA WorkingKeeps ==
    ASSUME Inv, NEW r \in Runs, Works(r) PROVE Inv'
<1>1. CASE Rejected(r) \/ StreamBreaks(r) \/ TimesOut(r)
    <2>1. Busy(r) /\ \E why \in {"transient", "other"} : Fails(r, why)
        BY <1>1 DEF Rejected, StreamBreaks, TimesOut, Asking, Busy
    <2> QED
        BY <2>1, FailingKeeps
<1>2. ASSUME NEW n \in 0..MaxCalls, Completes(r, n) \/ Opens(r, n) PROVE Inv'
    BY <1>2, CompletesKeeps, OpensKeeps
<1>3. ASSUME NEW i \in 1..MaxCalls, Piece(r, i) PROVE Inv'
    BY <1>3, PieceKeeps
<1> QED
    BY <1>1, <1>2, <1>3, AskKeeps, TroubledKeeps, RetriesKeeps, StreamEndsKeeps, EndsKeeps
    DEF Works

LEMMA BeginKeeps ==
    ASSUME Inv, NEW r \in Runs, NEW kind \in {"chat", "task"}, NEW c \in Clients,
           Begin(r, kind, c)
    PROVE  Inv'
<1>1. /\ Provides(c) /\ ~Busy(r)
      /\ UNCHANGED <<stored, setting, streams, stale>>
    BY DEF Begin, Busy
<1> DEFINE q == [NoRun EXCEPT !.pc = "ready", !.kind = kind, !.client = c, !.wants = setting]
<1>2. run' = [run EXCEPT ![r] = q]
    BY DEF Begin
<1>a. /\ q \in Run /\ Received(q)
      /\ q.client = c /\ q.wants = setting
    <2>1. q \in Run
        BY NoRunIs DEF NoRun, Run, Inv, TypeOK
    <2>2. q.client = c /\ q.wants = setting /\ q.pc = "ready"
        BY DEF NoRun
    <2> HIDE DEF q
    <2> QED
        BY <2>1, <2>2 DEF Received
<1> HIDE DEF q
<1>3. run' \in [Runs -> Run] /\ run'[r] = q /\ \A s \in Runs \ {r} : run'[s] = run[s]
    BY <1>2, <1>a DEF Inv, TypeOK
<1>b. \A s \in Runs : Received(run'[s])
    BY <1>3, <1>a DEF Inv
<1>c. \A s \in Runs : Received(run[s])'
    BY <1>b DEF Received, Apart, Sent
<1>4. /\ provider' = c /\ client'[c] \in Client
      /\ client'[c].config = setting /\ client'[c].state = "open"
      /\ client' \in [Clients -> Client \cup {None}]
      /\ \A d \in Clients : d # c /\ client[d] # None => client'[d] = client[d]
      /\ \A s \in Runs : Busy(s) => client'[run[s].client] = client[run[s].client]
    <2>1. CASE provider # NoClient
        BY <1>1, <2>1 DEF Provides, Inv, TypeOK, CachedIsNew, NoClient
    <2>2. CASE provider = NoClient
        <3>1. /\ provider' = c /\ Unused(c)
              /\ client' = [client EXCEPT ![c] = [config |-> setting, state |-> "open"]]
            BY <1>1, <2>2 DEF Provides
        <3>2. [config |-> setting, state |-> "open"] \in Client
            BY DEF Client, Inv, TypeOK
        <3>3. ASSUME NEW s \in Runs, Busy(s) PROVE run[s].client # c
            <4>1. run[s].client \in Clients /\ client[run[s].client] # None
                BY <3>3 DEF Inv, HoldsItsOwn
            <4> QED
                BY <3>1, <3>3, <4>1 DEF Unused, Held, Busy
        <3>4. \A s \in Runs : Busy(s) => run[s].client \in Clients
            BY DEF Inv, HoldsItsOwn
        <3>5. /\ client' \in [Clients -> Client \cup {None}]
              /\ client'[c] = [config |-> setting, state |-> "open"]
              /\ \A d \in Clients : d # c => client'[d] = client[d]
            BY <3>1, <3>2 DEF Inv, TypeOK
        <3> QED
            BY <3>1, <3>2, <3>3, <3>4, <3>5
    <2> QED
        BY <2>1, <2>2
<1>5. TypeOK' /\ FileIsInForce'
    BY <1>1, <1>3, <1>4 DEF Inv, TypeOK, FileIsInForce, Overlay
<1>6. CachedIsNew'
    BY <1>1, <1>4, NothingIsNoClient DEF CachedIsNew
<1>7. ASSUME NEW s \in Runs PROVE HoldsItsOwn(s)'
    <2>1. CASE s = r
        BY <1>1, <1>3, <1>a, <1>4, <2>1, NothingIsNoClient DEF HoldsItsOwn
    <2>2. CASE s # r
        BY <1>3, <1>4, <2>2 DEF Inv, HoldsItsOwn, Busy
    <2> QED
        BY <2>1, <2>2
<1> QED
    BY <1>5, <1>6, <1>7, <1>c DEF Inv

LEMMA SettingsKeep ==
    ASSUME Inv, SaveFails \/ \E k \in Keys : Reset(k) \/ \E v \in Values : Set(k, v)
    PROVE  Inv'
<1>1. ASSUME NEW k \in Keys, NEW v \in Values, Set(k, v) PROVE Inv'
    <2>1. Quiet /\ DropsProvider /\ UNCHANGED run
        BY <1>1 DEF Set
    <2>2. stored' \in Stored /\ setting' \in Config
        BY <1>1 DEF Set, Inv, TypeOK, Stored, Config
    <2>3. FileIsInForce'
        <3>1. /\ stored' = [stored EXCEPT ![k] = v] /\ setting' = [setting EXCEPT ![k] = v]
              /\ stale' = stale \ {k}
            BY <1>1 DEF Set
        <3>2. v # None
            BY LanguageModelAssumption DEF LanguageModelAssumption
        <3>3. ASSUME NEW j \in Keys \ stale' PROVE setting'[j] = Overlay(stored')[j]
            <4>1. CASE j = k
                BY <3>1, <3>2, <4>1 DEF Inv, TypeOK, Stored, Config, Overlay
            <4>2. CASE j # k
                BY <3>1, <3>3, <4>2 DEF Inv, TypeOK, FileIsInForce, Stored, Config, Overlay
            <4> QED
                BY <4>1, <4>2
        <3> QED
            BY <3>3 DEF FileIsInForce
    <2>4. /\ provider' \in Clients \cup {NoClient}
          /\ client' \in [Clients -> Client \cup {None}]
          /\ CachedIsNew' /\ \A r \in Runs : HoldsItsOwn(r)'
        BY <2>1, DropIsHarmless
    <2>5. streams' = streams /\ stale' \in SUBSET Keys
        BY <1>1 DEF Set, Inv, TypeOK
    <2>6. TypeOK'
        BY <2>1, <2>2, <2>4, <2>5 DEF Inv, TypeOK
    <2> QED
        BY <2>1, <2>3, <2>4, <2>6, ReceivedStays DEF Inv
<1>2. ASSUME NEW k \in Keys, Reset(k) PROVE Inv'
    <2>1. Quiet /\ DropsProvider /\ UNCHANGED run
        BY <1>2 DEF Reset
    <2>2. stored' \in Stored /\ setting' = setting
        BY <1>2 DEF Reset, Inv, TypeOK, Stored
    <2>3. FileIsInForce'
        BY <1>2, <2>2 DEF Reset, Inv, TypeOK, FileIsInForce, Stored, Overlay
    <2>4. /\ provider' \in Clients \cup {NoClient}
          /\ client' \in [Clients -> Client \cup {None}]
          /\ CachedIsNew' /\ \A r \in Runs : HoldsItsOwn(r)'
        BY <2>1, DropIsHarmless
    <2>5. streams' = streams /\ stale' \in SUBSET Keys
        BY <1>2 DEF Reset, Inv, TypeOK
    <2>6. TypeOK'
        BY <2>1, <2>2, <2>4, <2>5 DEF Inv, TypeOK
    <2> QED
        BY <2>1, <2>3, <2>4, <2>6, ReceivedStays DEF Inv
<1>3. ASSUME SaveFails PROVE Inv'
    <2>1. /\ stored' \in {stored, NoFile} /\ UNCHANGED <<setting, streams, provider, client, run>>
          /\ stale' = stale \cup {k \in Keys : stored'[k] # stored[k]}
        BY <1>3 DEF SaveFails, Remains
    <2>2. stored' \in Stored
        BY <2>1 DEF Inv, TypeOK, Stored, NoFile
    <2>3. FileIsInForce'
        BY <2>1, <2>2 DEF Inv, TypeOK, FileIsInForce, Overlay
    <2> QED
        BY <2>1, <2>2, <2>3, ReceivedStays DEF Inv, TypeOK, CachedIsNew, HoldsItsOwn, Busy
<1> QED
    BY <1>1, <1>2, <1>3

LEMMA ClosingKeeps ==
    ASSUME Inv, NEW c \in Clients, Closes(c) PROVE Inv'
<1>1. /\ client[c] \in Client /\ client[c].state = "closing"
      /\ client' = [client EXCEPT ![c].state = "closed"]
      /\ UNCHANGED <<stored, setting, streams, provider, run, stale>>
    BY DEF Closes, Inv, TypeOK
<1>2. /\ client'[c] = [client[c] EXCEPT !.state = "closed"]
      /\ \A d \in Clients : d # c => client'[d] = client[d]
    BY <1>1 DEF Inv, TypeOK
<1>3. client'[c] \in Client /\ client'[c].config = client[c].config
    BY <1>1, <1>2 DEF Client
<1>4. client' \in [Clients -> Client \cup {None}]
    BY <1>1, <1>2, <1>3 DEF Inv, TypeOK
<1>5. TypeOK' /\ FileIsInForce'
    BY <1>1, <1>4 DEF Inv, TypeOK, FileIsInForce, Overlay
<1>6. CachedIsNew'
    BY <1>1, <1>2 DEF Inv, TypeOK, CachedIsNew
<1>7. ASSUME NEW r \in Runs PROVE HoldsItsOwn(r)'
    <2>1. CASE run[r].client = c
        BY <1>1, <1>2, <1>3, <2>1, NothingIsNoClient DEF Inv, HoldsItsOwn, Busy
    <2>2. CASE run[r].client # c
        BY <1>1, <1>2, <2>2 DEF Inv, HoldsItsOwn, Busy
    <2> QED
        BY <2>1, <2>2
<1> QED
    BY <1>1, <1>5, <1>6, <1>7, ReceivedStays DEF Inv

LEMMA RestartKeeps == Inv /\ Restart => Inv'
<1> SUFFICES ASSUME Inv, Restart PROVE Inv'
    OBVIOUS
<1>1. /\ stored' = stored /\ setting' = Overlay(stored) /\ provider' = NoClient
      /\ client' = [c \in Clients |-> None] /\ run' = [r \in Runs |-> NoRun]
    BY DEF Restart
<1>2. setting' \in Config
    BY <1>1, OverlayIsConfig DEF Inv, TypeOK
<1>3. \A r \in Runs : run'[r] = NoRun
    BY <1>1
<1>4. TypeOK'
    BY <1>1, <1>2, <1>3, NoRunIs DEF Inv, TypeOK, Restart
<1>5. FileIsInForce' /\ CachedIsNew' /\ \A r \in Runs : HoldsItsOwn(r)'
    BY <1>1, <1>3 DEF FileIsInForce, CachedIsNew, HoldsItsOwn, Busy, NoRun
<1>6. \A r \in Runs : Received(run[r])'
    BY <1>3, NoRunIs DEF Received, Apart, Sent
<1> QED
    BY <1>4, <1>5, <1>6 DEF Inv

\* Inv is an invariant: every step of the settings, of the clients, of a run and of a
\* request to the model keeps it.
THEOREM InvHolds == Spec => []Inv
<1>1. Inv /\ [Next]_vars => Inv'
    <2> SUFFICES ASSUME Inv, [Next]_vars PROVE Inv'
        OBVIOUS
    <2>1. CASE SaveFails \/ \E k \in Keys : Reset(k) \/ \E v \in Values : Set(k, v)
        BY <2>1, SettingsKeep
    <2>2. CASE Restart
        BY <2>2, RestartKeeps
    <2>3. ASSUME NEW c \in Clients, Closes(c) PROVE Inv'
        BY <2>3, ClosingKeeps
    <2>4. ASSUME NEW r \in Runs, Works(r) PROVE Inv'
        BY <2>4, WorkingKeeps
    <2>5. ASSUME NEW r \in Runs, NEW kind \in {"chat", "task"}, NEW c \in Clients,
                 Begin(r, kind, c)
          PROVE  Inv'
        BY <2>5, BeginKeeps
    <2>6. CASE UNCHANGED vars
        BY <2>6, ReceivedStays DEF vars, Inv, TypeOK, FileIsInForce, CachedIsNew, HoldsItsOwn, Busy, Overlay
    <2> QED
        BY <2>1, <2>2, <2>3, <2>4, <2>5, <2>6 DEF Next
<1> QED
    BY Begins, <1>1, PTL DEF Spec

\* NewestIsUsed, for every instance: a run talks to the model that was set when it began
\* (reload_llm, "in force from the next run"), and no client is closed under a run of
\* the bridge.
THEOREM NewestIsAlwaysUsed == Spec => []NewestIsUsed
<1>1. Inv => NewestIsUsed
    BY DEF Inv, HoldsItsOwn, Busy, NewestIsUsed, QuietCloseHolds
<1> QED
    BY <1>1, InvHolds, PTL

\* SettingsInStep, for every instance: what is in force is what a restart would find, but
\* for what was reset or lost in between (local.py, "this file wins over the environment").
THEOREM SettingsStayInStep == Spec => []SettingsInStep
<1>1. Inv => SettingsInStep
    BY DEF Inv, FileIsInForce, SettingsInStep
<1> QED
    BY <1>1, InvHolds, PTL

\* StreamedIsSent, for every instance: whatever order the pieces of a streamed answer come
\* in, and however many calls it has, what is put together is what was sent
\* (openai_provider.py, "Reassembled in index order: fragments arrive interleaved").
THEOREM StreamedIsAlwaysSent == Spec => []StreamedIsSent
<1>1. Inv => StreamedIsSent
    BY DEF Inv, Received, Sent, StreamedIsSent
<1> QED
    BY <1>1, InvHolds, PTL
================================================================================
