------------------------------ MODULE ToolsProofs ------------------------------
(***************************************************************************)
(* Proofs about the tools of the browser side by side: the published page, *)
(* the tabs that compare schemas and rows, the sidebar, the saved queries, *)
(* the chat of the agent, the diagram, the search and the published        *)
(* endpoints.  They share nothing: each has variables of its own, and the  *)
(* constants that mean the same to two of them have one name.  For each    *)
(* there is what it needs of the constants (ChatAssumed), its inductive    *)
(* invariant (ChatInv), why that one is enough (ChatSuffices), and that it *)
(* holds at first and after every step (ChatBegins, ChatGoesOn).           *)
(***************************************************************************)
EXTENDS Naturals, Sequences, FiniteSets, Functions, SequencesExt, Lists, FiniteSetTheorems,
        FunctionTheorems, SequenceTheorems, WellFoundedInduction, TLAPS

CONSTANTS
    None,
    Operation, Button, Bound, OperationOf, Undeclared,  \* of the published page
    MaxRows,                                            \* bound: rows of an answer, and of a table
    MaxRowLoads, MaxClicks,
    Connection,                                         \* what is compared, browsed or saved for
    MaxSwaps, Row, MaxComparisons,
    Default, Boot, FilterText, MaxClicked,              \* of the sidebar
    ToolTab,                                            \* its data tabs; the query tabs with saved queries
    ConnectionOf, QueryName, QueryText, Stores, MaxSaves,
    Profile, WithKey, Scope, ChatLimit, MaxWords, MaxSessions, MaxHandles,  \* of the chat
    Table, MaxMoves,                                    \* of the diagram
    Workers,                                            \* requests at once, of the diagram and the search
    Databases, Worlds, Limits,                          \* of the search
    Endpoint, Address, Sql, Names, Endpoints, Drafts,   \* of the published endpoints
    MaxLoads, MaxRequests

VARIABLES
    \* The published page
    phase, rows, rowIndex, pageShown, reloads, disabled, original, pending, runs, clicks,
    catalogue, status,
    \* The tab that compares schemas
    schemasConnection, schemasDatabase, schemasListed, schemasRequests, schemasLoads,
    schemasComparing, schemasResults, schemasChanges,
    \* The tab that compares rows
    picked, compareListed, structure, chains, latest, compareLoads, keys, cap,
    compareComparing, compareResults, compareChanges,
    \* The sidebar
    sidebarConnection, sidebarDatabase, sidebarListed, sidebarRequests, tree, kept, filter,
    remembered, promise, sidebarShared, loading, stamp, panel, sidebarChanges,
    \* The saved queries
    store, ids, savedListed, selected, option, editor, dialog, savedRequests, savedChanges,
    \* The chat of the agent
    composer, words, speech, accepting, base, heard, profile, keyField, handle, handleOf,
    made, held, strays, turn, cards, chatShared, conversation, chat, session, signature,
    saved, closed, sent, dropped, used,
    \* The diagram
    objects, document, cardsStored, viewTimer, cache, refreshes, drawn, cardsChanges,
    \* The search
    world, controls, search, searchShown,
    \* The published endpoints
    apisStored, open, body, newRequest, apisLoads, writes, previews, ran, behind, nextLoad,
    apisChanges

-----------------------------------------------------------------------------
(* Lists, and how they are ordered *)

-----------------------------------------------------------------------------
(* Lists *)

LEMMA Elements ==
    ASSUME NEW S, NEW s \in Seq(S)
    PROVE  /\ ToSet(s) \subseteq S /\ (ToSet(s) = {} <=> s = <<>>)
           /\ \A x \in S : Append(s, x) \in Seq(S) /\ ToSet(Append(s, x)) = ToSet(s) \cup {x}
<1>1. Len(s) \in Nat /\ DOMAIN s = 1..Len(s) /\ \A i \in 1..Len(s) : s[i] \in S BY ElementOfSeq
<1>2. ToSet(s) \subseteq S BY <1>1 DEF ToSet
<1>3. ToSet(s) = {} <=> s = <<>> BY <1>1, EmptySeq DEF ToSet
<1>4. ASSUME NEW x \in S PROVE Append(s, x) \in Seq(S) /\ ToSet(Append(s, x)) = ToSet(s) \cup {x}
  <2> DEFINE a == Append(s, x)
  <2>1. /\ a \in Seq(S) /\ Len(a) = Len(s) + 1 /\ \A i \in 1..Len(s) : a[i] = s[i]
        /\ a[Len(s) + 1] = x
    BY <1>1, AppendProperties
  <2>2. DOMAIN a = DOMAIN s \cup {Len(s) + 1} BY <1>1, <2>1
  <2> HIDE DEF a
  <2>3. ToSet(a) = ToSet(s) \cup {x} BY <1>1, <2>1, <2>2 DEF ToSet
  <2> QED BY <2>1, <2>3 DEF a
<1> QED BY <1>2, <1>3, <1>4

LEMMA Joined ==
    ASSUME NEW S, NEW s \in Seq(S), NEW t \in Seq(S)
    PROVE  s \o t \in Seq(S) /\ ToSet(s \o t) = ToSet(s) \cup ToSet(t)
<1> DEFINE a == s \o t
<1>1. /\ Len(s) \in Nat /\ DOMAIN s = 1..Len(s) /\ Len(t) \in Nat /\ DOMAIN t = 1..Len(t)
  BY ElementOfSeq
<1>2. /\ a \in Seq(S) /\ Len(a) = Len(s) + Len(t)
      /\ \A i \in 1..(Len(s) + Len(t)) : a[i] = IF i <= Len(s) THEN s[i] ELSE t[i - Len(s)]
  BY ConcatProperties
<1>3. DOMAIN a = 1..(Len(s) + Len(t)) BY <1>2, ElementOfSeq
<1> HIDE DEF a
<1>4. ToSet(a) \subseteq ToSet(s) \cup ToSet(t)
  <2>1. ASSUME NEW i \in DOMAIN a PROVE a[i] \in ToSet(s) \cup ToSet(t)
    <3>1. CASE i <= Len(s) BY <1>1, <1>2, <1>3, <3>1 DEF ToSet
    <3>2. CASE ~(i <= Len(s))
      <4>1. i - Len(s) \in DOMAIN t /\ a[i] = t[i - Len(s)] BY <1>1, <1>2, <1>3, <3>2
      <4> QED BY <4>1 DEF ToSet
    <3> QED BY <3>1, <3>2
  <2> QED BY <2>1 DEF ToSet
<1>5. ToSet(s) \subseteq ToSet(a)
  <2>1. ASSUME NEW i \in DOMAIN s PROVE i \in DOMAIN a /\ s[i] = a[i] BY <1>1, <1>2, <1>3
  <2> QED BY <2>1 DEF ToSet
<1>6. ToSet(t) \subseteq ToSet(a)
  <2>1. ASSUME NEW i \in DOMAIN t PROVE i + Len(s) \in DOMAIN a /\ t[i] = a[i + Len(s)] BY <1>1, <1>2, <1>3
  <2> QED BY <2>1 DEF ToSet
<1> QED BY <1>2, <1>4, <1>5, <1>6 DEF a

LEMMA First ==
    ASSUME NEW S, NEW s \in Seq(S), NEW n \in 0..Len(s)
    PROVE  /\ SubSeq(s, 1, n) \in Seq(S) /\ Len(SubSeq(s, 1, n)) = n
           /\ ToSet(SubSeq(s, 1, n)) \subseteq ToSet(s)
           /\ n # 0 => s[1] \in ToSet(SubSeq(s, 1, n))
<1> DEFINE a == SubSeq(s, 1, n)
<1>1. Len(s) \in Nat /\ DOMAIN s = 1..Len(s) /\ \A i \in 1..Len(s) : s[i] \in S BY ElementOfSeq
<1>2. a = [i \in 1..n |-> s[i]]
  <2>1. a = [i \in 1..(n - 1 + 1) |-> s[i + 1 - 1]] BY <1>1
  <2>2. n - 1 + 1 = n /\ \A i \in 1..n : i + 1 - 1 = i BY <1>1
  <2> QED BY <2>1, <2>2
<1> HIDE DEF a
<1>3. n \in Nat /\ \A i \in 1..n : i \in DOMAIN s BY <1>1
<1>4. a \in [1..n -> S] BY <1>1, <1>2, <1>3
<1>5. a \in Seq(S) /\ Len(a) = n BY <1>3, <1>4, SeqDef, LenProperties
<1>6. ToSet(a) \subseteq ToSet(s) BY <1>2, <1>3 DEF ToSet
<1>7. n # 0 => s[1] \in ToSet(a)
  <2>1. n # 0 => 1 \in DOMAIN a /\ a[1] = s[1] BY <1>2, <1>3
  <2> QED BY <2>1 DEF ToSet
<1> QED BY <1>5, <1>6, <1>7 DEF a

LEMMA LeastNatural ==
    ASSUME NEW T \in SUBSET Nat, T # {} PROVE \E n \in T : \A m \in T : n <= m
<1> DEFINE U == {0..n : n \in T}
<1>1. U \subseteq FiniteSubsetsOf(Nat) /\ U # {}
  <2>1. \A n \in T : 0 \in Int /\ n \in Int /\ 0..n \in SUBSET Nat OBVIOUS
  <2>2. \A n \in T : IsFiniteSet(0..n) BY <2>1, FS_Interval
  <2> QED BY <2>1, <2>2 DEF FiniteSubsetsOf
<1>2. IsWellFoundedOn(StrictSubsetOrdering(Nat), FiniteSubsetsOf(Nat)) BY FS_StrictSubsetOrderingWellFounded
<1>3. \E x \in U : \A y \in U : ~(<<y, x>> \in StrictSubsetOrdering(Nat))
  <2> HIDE DEF U
  <2> QED BY <1>1, <1>2, WFMin
<1>4. PICK n \in T : \A m \in T : ~(<<0..m, 0..n>> \in StrictSubsetOrdering(Nat)) BY <1>3
<1>5. ASSUME NEW m \in T, m < n PROVE FALSE
  <2>1. 0..m \in SUBSET Nat /\ 0..n \in SUBSET Nat /\ 0..m \subseteq 0..n /\ n \in 0..n /\ n \notin 0..m
    BY <1>5
  <2> QED BY <1>4, <2>1 DEF StrictSubsetOrdering
<1> QED BY <1>4, <1>5


\* What the filter leaves of the first i of a list.
KeptOf(g, s, S, i) == IF i = 0 THEN <<>> ELSE IF s[i] \in S THEN Append(g[i - 1], s[i]) ELSE g[i - 1]

LEMMA KeptExists ==
    ASSUME NEW s, NEW S, NEW n \in Nat PROVE \E g : g = [i \in 0..n |-> KeptOf(g, s, S, i)]
<1> DEFINE T == {m \in Nat : ~\E g : g = [i \in 0..m |-> KeptOf(g, s, S, i)]}
<1>1. SUFFICES ASSUME T # {} PROVE FALSE OBVIOUS
<1>2. PICK m \in T : \A k \in T : m <= k BY <1>1, LeastNatural
<1>3. CASE m = 0
  <2> DEFINE g == [i \in 0..0 |-> <<>>]
  <2>1. g = [i \in 0..0 |-> KeptOf(g, s, S, i)] BY DEF KeptOf
  <2> QED BY <1>2, <1>3, <2>1
<1>4. CASE m # 0
  <2>1. m - 1 \in Nat /\ m - 1 \notin T BY <1>2, <1>4
  <2>2. PICK g : g = [i \in 0..(m - 1) |-> KeptOf(g, s, S, i)] BY <2>1
  <2> DEFINE h == [i \in 0..m |-> IF i < m THEN g[i] ELSE KeptOf(g, s, S, m)]
  <2>3. ASSUME NEW i \in 0..m PROVE h[i] = KeptOf(h, s, S, i)
    <3>1. i # 0 => i - 1 \in 0..m /\ i - 1 < m /\ h[i - 1] = g[i - 1] BY <1>2
    <3>2. KeptOf(h, s, S, i) = KeptOf(g, s, S, i) BY <3>1 DEF KeptOf
    <3>3. i < m => i \in 0..(m - 1) BY <1>2
    <3>4. i < m => g[i] = KeptOf(g, s, S, i) BY <2>2, <3>3
    <3>5. i < m \/ i = m BY <1>2
    <3> QED BY <3>2, <3>4, <3>5
  <2>4. h = [i \in 0..m |-> KeptOf(h, s, S, i)] BY <2>3
  <2> QED BY <1>2, <2>4
<1> QED BY <1>3, <1>4

\* A filter leaves those that it is to leave, and no more than there were.
LEMMA KeepIs ==
    ASSUME NEW X, NEW s \in Seq(X), NEW S
    PROVE  /\ Keep(s, S) \in Seq(X) /\ ToSet(Keep(s, S)) = ToSet(s) \cap S
           /\ Len(Keep(s, S)) <= Len(s)
<1> DEFINE G == CHOOSE g : g = [i \in 0..Len(s) |-> KeptOf(g, s, S, i)]
<1>1. Len(s) \in Nat /\ DOMAIN s = 1..Len(s) /\ \A i \in 1..Len(s) : s[i] \in X BY ElementOfSeq
<1>2. Keep(s, S) = G[Len(s)] BY DEF Keep, KeptOf
<1>3. G = [i \in 0..Len(s) |-> KeptOf(G, s, S, i)] BY <1>1, KeptExists
<1> HIDE DEF G
<1> DEFINE Fine(i) == /\ G[i] \in Seq(X) /\ ToSet(G[i]) = {s[j] : j \in 1..i} \cap S
                      /\ Len(G[i]) \in Nat /\ Len(G[i]) <= i
           T == {i \in 0..Len(s) : ~Fine(i)}
<1>4. T = {}
  <2>1. SUFFICES ASSUME T # {} PROVE FALSE OBVIOUS
  <2>2. T \in SUBSET Nat BY <1>1
  <2>3. PICK i \in T : \A k \in T : i <= k BY <2>1, <2>2, LeastNatural
  <2>4. i \in 0..Len(s) /\ ~Fine(i) /\ G[i] = KeptOf(G, s, S, i) BY <1>3, <2>3
  <2>5. CASE i = 0
    <3>1. G[i] = <<>> /\ 1..i = {} BY <2>4, <2>5 DEF KeptOf
    <3>2. G[i] \in Seq(X) /\ ToSet(G[i]) = {} /\ Len(G[i]) = 0 BY <3>1 DEF ToSet
    <3>3. {s[j] : j \in 1..i} = {} BY <3>1
    <3> QED BY <2>4, <2>5, <3>2, <3>3
  <2>6. CASE i # 0
    <3>1. i - 1 \in 0..Len(s) /\ i - 1 \notin T /\ i \in 1..Len(s)
      <4> HIDE DEF T
      <4>1. i - 1 \in 0..Len(s) /\ i \in 1..Len(s) /\ ~(i <= i - 1) BY <1>1, <2>4, <2>6
      <4> QED BY <2>3, <4>1
    <3>2. Fine(i - 1) /\ s[i] \in X BY <1>1, <3>1
    <3>3. 1..i = 1..(i - 1) \cup {i} BY <1>1, <3>1
    <3>4. {s[j] : j \in 1..i} = {s[j] : j \in 1..(i - 1)} \cup {s[i]} BY <3>3
    <3>5. CASE s[i] \notin S
      <4>1. G[i] = G[i - 1] BY <2>4, <2>6, <3>5 DEF KeptOf
      <4>2. Len(G[i]) \in Nat /\ Len(G[i]) <= i BY <1>1, <3>1, <3>2, <4>1
      <4> QED BY <2>4, <3>2, <3>4, <3>5, <4>1, <4>2
    <3>6. CASE s[i] \in S
      <4>1. G[i] = Append(G[i - 1], s[i]) BY <2>4, <2>6, <3>6 DEF KeptOf
      <4>2. G[i] \in Seq(X) /\ ToSet(G[i]) = ToSet(G[i - 1]) \cup {s[i]} BY <3>2, <4>1, Elements
      <4>3. Len(G[i]) = Len(G[i - 1]) + 1 BY <3>2, <4>1, AppendProperties
      <4>4. Len(G[i]) \in Nat /\ Len(G[i]) <= i BY <1>1, <3>1, <3>2, <4>3
      <4> QED BY <2>4, <3>2, <3>4, <3>6, <4>2, <4>4
    <3> QED BY <3>5, <3>6
  <2> QED BY <2>5, <2>6
<1>5. Len(s) \in 0..Len(s) BY <1>1
<1>6. Fine(Len(s)) BY <1>4, <1>5
<1>7. ToSet(s) = {s[j] : j \in 1..Len(s)} BY <1>1 DEF ToSet
<1> QED BY <1>2, <1>6, <1>7


LEMMA RemoveAtIs ==
    ASSUME NEW S, NEW s \in Seq(S), NEW i \in DOMAIN s
    PROVE  /\ RemoveAt(s, i) \in Seq(S) /\ ToSet(RemoveAt(s, i)) \subseteq ToSet(s)
           /\ ToSet(s) \subseteq ToSet(RemoveAt(s, i)) \cup {s[i]}
<1>1. Len(s) \in Nat /\ DOMAIN s = 1..Len(s) /\ \A j \in 1..Len(s) : s[j] \in S BY ElementOfSeq
<1>2. i \in 1..Len(s) BY <1>1
<1> DEFINE a == SubSeq(s, 1, i - 1)
           b == SubSeq(s, i + 1, Len(s))
<1>3. a \in Seq(S) /\ ToSet(a) = {s[j] : j \in 1..(i - 1)}
  <2>1. i - 1 \in Nat /\ \A j \in 1..(i - 1) : j \in DOMAIN s BY <1>1, <1>2
  <2>2. a = [j \in 1..(i - 1 - 1 + 1) |-> s[j + 1 - 1]] BY <1>1, <1>2
  <2>3. i - 1 - 1 + 1 = i - 1 /\ \A j \in 1..(i - 1) : j + 1 - 1 = j BY <1>2
  <2>4. a = [j \in 1..(i - 1) |-> s[j]] BY <2>2, <2>3
  <2> HIDE DEF a
  <2>5. a \in [1..(i - 1) -> S] BY <1>1, <2>1, <2>4
  <2>6. a \in Seq(S) BY <2>1, <2>5, SeqDef
  <2>7. ToSet(a) = {s[j] : j \in 1..(i - 1)} BY <2>4 DEF ToSet
  <2> QED BY <2>6, <2>7
<1>4. b \in Seq(S) /\ ToSet(b) = {s[j] : j \in (i + 1)..Len(s)}
  <2> DEFINE n == Len(s) - i
  <2>1. n \in Nat /\ \A j \in 1..n : j + i \in DOMAIN s /\ j + i \in (i + 1)..Len(s) BY <1>1, <1>2
  <2>2. b = [j \in 1..(Len(s) - (i + 1) + 1) |-> s[j + (i + 1) - 1]] BY <1>1, <1>2
  <2>3. Len(s) - (i + 1) + 1 = n /\ \A j \in 1..n : j + (i + 1) - 1 = j + i BY <1>1, <1>2
  <2>4. b = [j \in 1..n |-> s[j + i]] BY <2>2, <2>3
  <2>8. \A k \in (i + 1)..Len(s) : k - i \in 1..n /\ (k - i) + i = k BY <1>1, <1>2
  <2> HIDE DEF b, n
  <2>5. b \in [1..n -> S] BY <1>1, <2>1, <2>4
  <2>6. b \in Seq(S) BY <2>1, <2>5, SeqDef
  <2>7. ToSet(b) = {s[j] : j \in (i + 1)..Len(s)}
    <3>1. ASSUME NEW j \in 1..n PROVE b[j] \in {s[k] : k \in (i + 1)..Len(s)} BY <2>1, <2>4
    <3>2. ASSUME NEW k \in (i + 1)..Len(s) PROVE s[k] \in ToSet(b)
      <4>1. k - i \in DOMAIN b /\ b[k - i] = s[k] BY <2>4, <2>8
      <4> QED BY <4>1 DEF ToSet
    <3>3. ToSet(b) = {b[j] : j \in 1..n} BY <2>4 DEF ToSet
    <3> QED BY <3>1, <3>2, <3>3
  <2> QED BY <2>6, <2>7
<1> HIDE DEF a, b
<1>5. RemoveAt(s, i) = a \o b BY DEF RemoveAt, a, b
<1>6. a \o b \in Seq(S) /\ ToSet(a \o b) = ToSet(a) \cup ToSet(b) BY <1>3, <1>4, Joined
<1>7. ToSet(s) = {s[j] : j \in 1..Len(s)} BY <1>1 DEF ToSet
<1>8. ToSet(a) \cup ToSet(b) \subseteq ToSet(s) BY <1>1, <1>2, <1>3, <1>4, <1>7
<1>9. \A j \in 1..Len(s) : j \in 1..(i - 1) \/ j \in (i + 1)..Len(s) \/ j = i BY <1>1, <1>2
<1>10. ToSet(s) \subseteq ToSet(a) \cup ToSet(b) \cup {s[i]} BY <1>3, <1>4, <1>7, <1>9
<1> QED BY <1>5, <1>6, <1>8, <1>10

LEMMA SeqIn ==
    ASSUME NEW S, NEW T, S \subseteq T, NEW s \in Seq(S) PROVE s \in Seq(T)
<1>1. Len(s) \in Nat /\ DOMAIN s = 1..Len(s) /\ s \in [1..Len(s) -> S] BY LenProperties
<1>2. s \in [1..Len(s) -> T] BY <1>1
<1> QED BY <1>1, <1>2, SeqDef

LEMMA SetToSeqIs ==
    ASSUME NEW S, IsFiniteSet(S) PROVE SetToSeq(S) \in Seq(S) /\ ToSet(SetToSeq(S)) \subseteq S
<1>1. PICK f : f \in Bijection(1..Cardinality(S), S) BY FS_CardinalityType DEF ExistsBijection
<1>2. f \in [1..Cardinality(S) -> S] /\ IsInjective(f)
  BY <1>1 DEF Bijection, Injection, IsInjective
<1>3. SetToSeq(S) \in [1..Cardinality(S) -> S] BY <1>2 DEF SetToSeq
<1>4. Cardinality(S) \in Nat BY FS_CardinalityType
<1>5. SetToSeq(S) \in Seq(S) BY <1>3, <1>4, SeqDef
<1> QED BY <1>5, Elements

-----------------------------------------------------------------------------
(* Counting along an order *)

\* How many of S come before o.
Rank(S, R, o) == Cardinality({p \in S : <<p, o>> \in R})

\* Of a finite set in a strict order there are k before the k-th.
LEMMA RankIs ==
    ASSUME NEW S, IsFiniteSet(S), NEW R,
           \A a \in S : <<a, a>> \notin R,
           \A a, b, c \in S : <<a, b>> \in R /\ <<b, c>> \in R => <<a, c>> \in R,
           \A a, b \in S : a = b \/ <<a, b>> \in R \/ <<b, a>> \in R
    PROVE  /\ Cardinality(S) \in Nat /\ \A a \in S : Rank(S, R, a) \in Nat /\ Rank(S, R, a) < Cardinality(S)
           /\ \A a, b \in S : <<a, b>> \in R <=> Rank(S, R, a) < Rank(S, R, b)
           /\ \A a, b \in S : Rank(S, R, a) = Rank(S, R, b) => a = b
           /\ \A k \in 0..(Cardinality(S) - 1) : \E a \in S : Rank(S, R, a) = k
           /\ \A k \in Nat : /\ Cardinality({a \in S : Rank(S, R, a) < k}) \in Nat
                             /\ Cardinality({a \in S : Rank(S, R, a) < k}) <= k
                             /\ k <= Cardinality(S) => Cardinality({a \in S : Rank(S, R, a) < k}) = k
<1> DEFINE Before(o) == {p \in S : <<p, o>> \in R}
           n == Cardinality(S)
<1>1. n \in Nat BY FS_CardinalityType
<1>2. ASSUME NEW a \in S
      PROVE  IsFiniteSet(Before(a)) /\ Cardinality(Before(a)) \in Nat /\ Cardinality(Before(a)) < n
  <2>1. Before(a) \subseteq S /\ a \notin Before(a) OBVIOUS
  <2> HIDE DEF Before
  <2>2. IsFiniteSet(Before(a)) /\ Cardinality(Before(a)) <= n /\ Cardinality(Before(a)) # n BY <2>1, FS_Subset
  <2>3. Cardinality(Before(a)) \in Nat BY <2>2, FS_CardinalityType
  <2> QED BY <1>1, <2>2, <2>3
<1>3. ASSUME NEW a \in S, NEW b \in S, <<a, b>> \in R PROVE Cardinality(Before(a)) < Cardinality(Before(b))
  <2>1. Before(a) \subseteq Before(b) /\ a \in Before(b) /\ a \notin Before(a) BY <1>3
  <2>2. IsFiniteSet(Before(b)) /\ Cardinality(Before(a)) \in Nat /\ Cardinality(Before(b)) \in Nat BY <1>2
  <2> HIDE DEF Before
  <2>3. Cardinality(Before(a)) <= Cardinality(Before(b)) /\ Cardinality(Before(a)) # Cardinality(Before(b))
    BY <2>1, <2>2, FS_Subset
  <2> QED BY <2>2, <2>3
<1> DEFINE r == [a \in S |-> Cardinality(Before(a))]
<1>4. r \in [S -> 0..(n - 1)]
  <2> HIDE DEF Before, n
  <2>1. \A a \in S : Cardinality(Before(a)) \in 0..(n - 1)
    <3> TAKE a \in S
    <3>1. Cardinality(Before(a)) \in Nat /\ Cardinality(Before(a)) < n BY <1>2
    <3> HIDE DEF Before
    <3> QED BY <1>1, <3>1
  <2> QED BY <2>1
<1>5. \A a \in S : r[a] = Rank(S, R, a) /\ r[a] \in Nat /\ r[a] < n BY <1>2 DEF Rank
<1>6. \A a, b \in S : <<a, b>> \in R => r[a] < r[b]
  <2>1. \A a \in S : r[a] = Cardinality(Before(a)) OBVIOUS
  <2> HIDE DEF r, Before
  <2> QED BY <1>3, <2>1
<1> HIDE DEF r, Before, n
<1>7. \A a, b \in S : /\ r[a] = r[b] => a = b
                      /\ <<a, b>> \in R <=> r[a] < r[b]
  <2> TAKE a, b \in S
  <2>1. r[a] \in Nat /\ r[b] \in Nat BY <1>5
  <2>2. a = b \/ <<a, b>> \in R \/ <<b, a>> \in R OBVIOUS
  <2>3. <<a, b>> \in R => r[a] < r[b] BY <1>6
  <2>4. <<b, a>> \in R => r[b] < r[a] BY <1>6
  <2> QED BY <2>1, <2>2, <2>3, <2>4
<1>8. IsFiniteSet(0..(n - 1)) /\ Cardinality(0..(n - 1)) = n
  <2>1. 0 \in Int /\ n - 1 \in Int BY <1>1
  <2> QED BY <1>1, <2>1, FS_Interval
<1>9. r \in Injection(S, 0..(n - 1)) BY <1>4, <1>7 DEF Injection, IsInjective
<1>10. r \in Surjection(S, 0..(n - 1)) BY <1>8, <1>9, FS_Injection DEF n
<1>11. ASSUME NEW k \in Nat
       PROVE  LET T == {a \in S : r[a] < k}
              IN Cardinality(T) \in Nat /\ Cardinality(T) <= k /\ (k <= n => Cardinality(T) = k)
  <2> DEFINE T == {a \in S : r[a] < k}
             f == [a \in T |-> r[a]]
  <2>1. IsFiniteSet(0..(k - 1)) /\ Cardinality(0..(k - 1)) = k
    <3>1. 0 \in Int /\ k - 1 \in Int OBVIOUS
    <3> QED BY <3>1, FS_Interval
  <2>2. f \in [T -> 0..(k - 1)]
    <3>1. \A a \in T : r[a] \in 0..(k - 1) BY <1>5
    <3> QED BY <3>1
  <2>3. f \in Injection(T, 0..(k - 1)) BY <1>7, <2>2 DEF Injection, IsInjective
  <2> HIDE DEF f
  <2>4. IsFiniteSet(T) /\ Cardinality(T) <= k BY <2>1, <2>3, FS_Injection
  <2>5. Cardinality(T) \in Nat BY <2>4, FS_CardinalityType
  <2>6. ASSUME k <= n PROVE Cardinality(T) = k
    <3>1. \A i \in 0..(k - 1) : \E a \in T : f[a] = i
      <4> TAKE i \in 0..(k - 1)
      <4>1. i \in 0..(n - 1) BY <1>1, <2>6
      <4>2. PICK a \in S : r[a] = i BY <1>10, <4>1 DEF Surjection
      <4>3. a \in T BY <4>2
      <4> QED BY <4>2, <4>3 DEF f
    <3>2. f \in Surjection(T, 0..(k - 1)) BY <2>2, <3>1 DEF Surjection
    <3> QED BY <2>1, <2>3, <3>2, FS_Injection
  <2> QED BY <2>4, <2>5, <2>6
<1>12. \A k : {a \in S : Rank(S, R, a) < k} = {a \in S : r[a] < k} BY <1>5 DEF Rank
<1>13. \A a \in S : Rank(S, R, a) \in Nat /\ Rank(S, R, a) < n BY <1>5
<1>14. \A a, b \in S : /\ <<a, b>> \in R <=> Rank(S, R, a) < Rank(S, R, b)
                       /\ Rank(S, R, a) = Rank(S, R, b) => a = b
  <2> TAKE a, b \in S
  <2>1. Rank(S, R, a) = r[a] /\ Rank(S, R, b) = r[b] BY <1>5
  <2>2. (r[a] = r[b] => a = b) /\ (<<a, b>> \in R <=> r[a] < r[b]) BY <1>7
  <2> QED BY <2>1, <2>2
<1>15. \A k \in Nat : /\ Cardinality({a \in S : Rank(S, R, a) < k}) \in Nat
                      /\ Cardinality({a \in S : Rank(S, R, a) < k}) <= k
                      /\ k <= n => Cardinality({a \in S : Rank(S, R, a) < k}) = k
  BY <1>11, <1>12
<1>16. \A k \in 0..(n - 1) : \E a \in S : Rank(S, R, a) = k
  <2> TAKE k \in 0..(n - 1)
  <2>1. PICK a \in S : r[a] = k BY <1>10 DEF Surjection
  <2> QED BY <1>5, <2>1
<1> QED BY <1>1, <1>13, <1>14, <1>15, <1>16 DEF n

-----------------------------------------------------------------------------
(* ---- The tab that compares rows ---- *)

Compare == INSTANCE DataCompare WITH
    MaxChanges <- MaxComparisons, listed <- compareListed, loads <- compareLoads,
    comparing <- compareComparing, results <- compareResults, changes <- compareChanges

\* The modules of the library are the same in every instance.
LEMMA CompareLists ==
    /\ \A S : Compare!Cardinality(S) = Cardinality(S)
    /\ \A s : Compare!ToSet(s) = ToSet(s)
    /\ \A f : Compare!IsInjective(f) = IsInjective(f)
    /\ \A S, n : Compare!BoundedSeq(S, n) = BoundedSeq(S, n)
<1>1. \A S : Compare!Cardinality(S) = Cardinality(S) BY DEF Compare!Cardinality, Cardinality
<1>2. \A s : Compare!ToSet(s) = ToSet(s) BY DEF Compare!ToSet, ToSet
<1>3. \A f : Compare!IsInjective(f) = IsInjective(f) BY DEF Compare!IsInjective, IsInjective
<1>4. \A S, n : Compare!BoundedSeq(S, n) = BoundedSeq(S, n)
  BY DEF Compare!BoundedSeq, BoundedSeq, Compare!SeqOf, SeqOf
<1> QED BY <1>1, <1>2, <1>3, <1>4

\* The keys of rows are numbers.
CompareAssumed == Row \subseteq [key : Nat, value : {r.value : r \in Row}] /\ MaxRows \in Nat

\* A table is a sequence of rows.
LEMMA TablesAre ==
    ASSUME CompareAssumed, NEW s \in Compare!Tables
    PROVE  /\ Len(s) \in Nat /\ DOMAIN s = 1..Len(s) /\ IsFiniteSet(DOMAIN s) /\ Cardinality(DOMAIN s) = Len(s)
           /\ \A i \in DOMAIN s : s[i] \in Row /\ s[i].key \in Nat
<1>1. PICK m \in 0..MaxRows : s \in [1..m -> Row] BY CompareLists DEF Compare!Tables, BoundedSeq, SeqOf
<1>2. s \in Seq(Row) /\ Len(s) = m /\ m \in Nat BY <1>1
<1>3. 1 \in Int /\ m \in Int /\ DOMAIN s = 1..m BY <1>1, <1>2
<1>4. IsFiniteSet(1..m) /\ Cardinality(1..m) = m BY <1>2, <1>3, FS_Interval
<1>5. \A i \in 1..m : s[i] \in Row BY <1>1
<1>6. \A r \in Row : r.key \in Nat BY DEF CompareAssumed
<1> QED BY <1>2, <1>3, <1>4, <1>5, <1>6

-----------------------------------------------------------------------------
(* Rows that are loaded whole are those of the table *)

\* The order of the keys puts every row in a place of its own.
LEMMA SortedIs ==
    ASSUME CompareAssumed, NEW s \in Compare!Tables
    PROVE  \E p \in Bijection(DOMAIN s, DOMAIN s) : \A k \in DOMAIN s : Compare!Sorted(s)[k] = s[p[k]]
<1> DEFINE D == DOMAIN s
           R == {x \in D \X D : s[x[1]].key < s[x[2]].key \/ (s[x[1]].key = s[x[2]].key /\ x[1] < x[2])}
           n == Len(s)
<1>1. n \in Nat /\ D = 1..n /\ IsFiniteSet(D) /\ Cardinality(D) = n /\ \A i \in D : s[i].key \in Nat BY TablesAre
<1>2. \A i, j \in D : <<i, j>> \in R <=> s[i].key < s[j].key \/ (s[i].key = s[j].key /\ i < j) OBVIOUS
<1>3. \A i \in D : Cardinality(Compare!Before(s, i)) = Rank(D, R, i)
  <2> TAKE i \in D
  <2>1. Compare!Before(s, i) = {p \in D : <<p, i>> \in R} BY <1>2 DEF Compare!Before
  <2> QED BY <2>1 DEF Rank
<1> HIDE DEF R, D, n
<1>0. IsFiniteSet(D) BY <1>1
<1>4. \A a \in D : <<a, a>> \notin R BY <1>1, <1>2
<1>5. \A a, b, c \in D : <<a, b>> \in R /\ <<b, c>> \in R => <<a, c>> \in R
  <2> TAKE a, b, c \in D
  <2>1. s[a].key \in Nat /\ s[b].key \in Nat /\ s[c].key \in Nat /\ a \in Nat /\ b \in Nat /\ c \in Nat BY <1>1
  <2> QED BY <1>2, <2>1
<1>6. \A a, b \in D : a = b \/ <<a, b>> \in R \/ <<b, a>> \in R
  <2> TAKE a, b \in D
  <2>1. s[a].key \in Nat /\ s[b].key \in Nat /\ a \in Nat /\ b \in Nat BY <1>1
  <2> QED BY <1>2, <2>1
<1>7. /\ \A a \in D : Rank(D, R, a) \in Nat /\ Rank(D, R, a) < n
      /\ \A a, b \in D : Rank(D, R, a) = Rank(D, R, b) => a = b
      /\ \A k \in 0..(n - 1) : \E a \in D : Rank(D, R, a) = k
  <2>1. \A a \in D : Rank(D, R, a) \in Nat /\ Rank(D, R, a) < Cardinality(D) BY <1>0, <1>4, <1>5, <1>6, RankIs
  <2>3. \A a, b \in D : Rank(D, R, a) = Rank(D, R, b) => a = b BY <1>0, <1>4, <1>5, <1>6, RankIs
  <2>4. \A k \in 0..(Cardinality(D) - 1) : \E a \in D : Rank(D, R, a) = k BY <1>0, <1>4, <1>5, <1>6, RankIs
  <2>2. Cardinality(D) = n BY <1>1
  <2> QED BY <2>1, <2>2, <2>3, <2>4
<1> DEFINE q(k) == CHOOSE i \in D : Compare!Cardinality(Compare!Before(s, i)) + 1 = k
           p == [k \in D |-> q(k)]
<1>8. \A k \in D : q(k) \in D /\ Rank(D, R, q(k)) + 1 = k
  <2> TAKE k \in D
  <2>1. k \in 1..n /\ k - 1 \in 0..(n - 1) /\ k \in Nat BY <1>1
  <2>2. PICK i \in D : Rank(D, R, i) = k - 1 BY <1>7, <2>1
  <2>3. Compare!Cardinality(Compare!Before(s, i)) + 1 = k BY <1>3, <2>1, <2>2, CompareLists
  <2>4. q(k) \in D /\ Compare!Cardinality(Compare!Before(s, q(k))) + 1 = k BY <2>3
  <2> HIDE DEF q
  <2> QED BY <1>3, <2>4, CompareLists
<1>9. \A k \in D : Compare!Sorted(s)[k] = s[p[k]] BY DEF Compare!Sorted, D
<1> HIDE DEF q
<1>10. p \in [D -> D] /\ \A k \in D : p[k] = q(k) BY <1>8
<1> HIDE DEF p
<1>11. \A k, l \in D : p[k] = p[l] => k = l
  <2> TAKE k, l \in D
  <2>1. k \in Nat /\ l \in Nat BY <1>1
  <2> QED BY <1>8, <1>10, <2>1
<1>12. \A i \in D : \E k \in D : p[k] = i
  <2> TAKE i \in D
  <2>1. Rank(D, R, i) \in Nat /\ Rank(D, R, i) < n BY <1>7
  <2> DEFINE k == Rank(D, R, i) + 1
  <2>2. k \in D /\ k \in Nat BY <1>1, <2>1
  <2> HIDE DEF k
  <2>3. Rank(D, R, q(k)) + 1 = k /\ q(k) \in D /\ Rank(D, R, q(k)) \in Nat BY <1>7, <1>8, <2>2
  <2>4. Rank(D, R, q(k)) = Rank(D, R, i) BY <2>1, <2>3 DEF k
  <2>5. q(k) = i BY <1>7, <2>3, <2>4
  <2> QED BY <1>10, <2>2, <2>5
<1>13. p \in Injection(D, D) BY <1>10, <1>11 DEF Injection, IsInjective
<1>14. p \in Surjection(D, D) BY <1>10, <1>12 DEF Surjection
<1>15. p \in Bijection(D, D) BY <1>13, <1>14 DEF Bijection
<1> QED BY <1>9, <1>15 DEF D

\* A bucket holds as many rows, and the same.
LEMMA BucketsStay ==
    ASSUME CompareAssumed, NEW s \in Compare!Tables, NEW k
    PROVE  /\ IsFiniteSet(Compare!RowsOf(s, k)) /\ IsFiniteSet(Compare!RowsOf(Compare!Sorted(s), k))
           /\ Cardinality(Compare!RowsOf(Compare!Sorted(s), k)) = Cardinality(Compare!RowsOf(s, k))
           /\ {Compare!Sorted(s)[i] : i \in Compare!RowsOf(Compare!Sorted(s), k)} = {s[i] : i \in Compare!RowsOf(s, k)}
<1> DEFINE D == DOMAIN s
           A == Compare!RowsOf(Compare!Sorted(s), k)
           B == Compare!RowsOf(s, k)
<1>1. IsFiniteSet(D) /\ DOMAIN Compare!Sorted(s) = D BY TablesAre DEF Compare!Sorted
<1>2. PICK p \in Bijection(D, D) : \A j \in D : Compare!Sorted(s)[j] = s[p[j]] BY SortedIs
<1>3. p \in [D -> D] /\ (\A i, j \in D : p[i] = p[j] => i = j) /\ \A i \in D : \E j \in D : p[j] = i
  BY <1>2 DEF Bijection, Injection, IsInjective, Surjection
<1>4. A \subseteq D /\ B \subseteq D /\ A = {j \in D : Compare!Sorted(s)[j].key = k} /\ B = {i \in D : s[i].key = k}
  BY <1>1 DEF Compare!RowsOf
<1> HIDE DEF A, B, D
<1>5. IsFiniteSet(A) /\ IsFiniteSet(B) BY <1>1, <1>4, FS_Subset
<1> DEFINE f == [j \in A |-> p[j]]
<1>6. \A j \in A : p[j] \in B BY <1>2, <1>3, <1>4
<1>7. \A i \in B : \E j \in A : p[j] = i BY <1>2, <1>3, <1>4
<1>8. f \in [A -> B] /\ \A j \in A : f[j] = p[j] BY <1>6
<1> HIDE DEF f
<1>9. f \in Injection(A, B) BY <1>3, <1>4, <1>8 DEF Injection, IsInjective
<1>10. f \in Surjection(A, B) BY <1>7, <1>8 DEF Surjection
<1>11. Cardinality(A) = Cardinality(B) BY <1>5, <1>9, <1>10, FS_Injection
<1>12. {Compare!Sorted(s)[i] : i \in A} = {s[i] : i \in B}
  <2>1. \A j \in A : Compare!Sorted(s)[j] = s[p[j]] BY <1>2, <1>4
  <2> QED BY <1>6, <1>7, <2>1
<1> QED BY <1>5, <1>11, <1>12 DEF A, B

\* So what is told of a key is told of the tables.
LEMMA StatusStays ==
    ASSUME CompareAssumed, NEW s \in Compare!Tables, NEW t \in Compare!Tables
    PROVE  Compare!Differences(Compare!Sorted(s), Compare!Sorted(t)) = Compare!Differences(s, t)
<1> DEFINE keysOf(table) == {table[i].key : i \in DOMAIN table}
<1>1. ASSUME NEW x \in Compare!Tables PROVE keysOf(Compare!Sorted(x)) = keysOf(x)
  <2>1. DOMAIN Compare!Sorted(x) = DOMAIN x BY DEF Compare!Sorted
  <2>2. PICK p \in Bijection(DOMAIN x, DOMAIN x) : \A j \in DOMAIN x : Compare!Sorted(x)[j] = x[p[j]] BY SortedIs
  <2>3. p \in [DOMAIN x -> DOMAIN x] /\ \A i \in DOMAIN x : \E j \in DOMAIN x : p[j] = i
    BY <2>2 DEF Bijection, Injection, Surjection
  <2>4. \A j \in DOMAIN x : Compare!Sorted(x)[j].key = x[p[j]].key BY <2>2
  <2> QED BY <2>1, <2>3, <2>4
<1>2. ASSUME NEW x \in Compare!Tables, NEW k
      PROVE  /\ Cardinality(Compare!RowsOf(Compare!Sorted(x), k)) = Cardinality(Compare!RowsOf(x, k))
             /\ Compare!RowsOf(Compare!Sorted(x), k) = {} <=> Compare!RowsOf(x, k) = {}
             /\ \A i \in Compare!RowsOf(Compare!Sorted(x), k) : \E j \in Compare!RowsOf(x, k) : Compare!Sorted(x)[i] = x[j]
             /\ \A j \in Compare!RowsOf(x, k) : \E i \in Compare!RowsOf(Compare!Sorted(x), k) : Compare!Sorted(x)[i] = x[j]
  <2> DEFINE A == Compare!RowsOf(Compare!Sorted(x), k)
             B == Compare!RowsOf(x, k)
  <2>1. Cardinality(A) = Cardinality(B) /\ {Compare!Sorted(x)[i] : i \in A} = {x[i] : i \in B} BY BucketsStay
  <2> HIDE DEF A, B
  <2>2. \A i \in A : \E j \in B : Compare!Sorted(x)[i] = x[j] BY <2>1
  <2>3. \A j \in B : \E i \in A : Compare!Sorted(x)[i] = x[j] BY <2>1
  <2> QED BY <2>1, <2>2, <2>3 DEF A, B
<1>3. \A k : Compare!Status(Compare!Sorted(s), Compare!Sorted(t), k) = Compare!Status(s, t, k)
  <2> TAKE k
  <2>1. (\E i \in Compare!RowsOf(Compare!Sorted(s), k), j \in Compare!RowsOf(Compare!Sorted(t), k) : Compare!Sorted(s)[i] # Compare!Sorted(t)[j])
          <=> \E i \in Compare!RowsOf(s, k), j \in Compare!RowsOf(t, k) : s[i] # t[j]
    BY <1>2
  <2> QED BY <1>2, <2>1, CompareLists DEF Compare!Status
<1>4. keysOf(Compare!Sorted(s)) = keysOf(s) /\ keysOf(Compare!Sorted(t)) = keysOf(t) BY <1>1
<1>5. {<<k, Compare!Status(Compare!Sorted(s), Compare!Sorted(t), k)>> : k \in keysOf(Compare!Sorted(s)) \cup keysOf(Compare!Sorted(t))}
        = {<<k, Compare!Status(s, t, k)>> : k \in keysOf(s) \cup keysOf(t)}
  <2> HIDE DEF keysOf
  <2> QED BY <1>3, <1>4
<1> QED BY <1>5 DEF Compare!Differences

\* Up to the cap, a table that fits is loaded whole.
LEMMA LoadedIs ==
    ASSUME CompareAssumed, NEW s \in Compare!Tables, NEW n \in Nat, ~Compare!Loaded(s, n).truncated
    PROVE  Compare!Loaded(s, n).rows = Compare!Sorted(s)
<1>1. Len(s) \in Nat /\ DOMAIN s = 1..Len(s) BY TablesAre
<1>2. ~(n < Len(s)) BY DEF Compare!Loaded
<1>3. Compare!Loaded(s, n).rows = [k \in 1..Len(s) |-> Compare!Sorted(s)[k]] BY <1>2 DEF Compare!Loaded
<1>4. Compare!Sorted(s) = [k \in 1..Len(s) |-> Compare!Sorted(s)[k]] BY <1>1 DEF Compare!Sorted
<1> QED BY <1>3, <1>4

\* At most one row has a key if and only if there is no other.
LEMMA OneOrNone ==
    ASSUME CompareAssumed, NEW s \in Compare!Tables, NEW k
    PROVE  /\ Cardinality(Compare!RowsOf(s, k)) \in Nat /\ IsFiniteSet(Compare!RowsOf(s, k))
           /\ Cardinality(Compare!RowsOf(s, k)) <= 1 <=> \A i, j \in Compare!RowsOf(s, k) : i = j
           /\ Cardinality(Compare!RowsOf(s, k)) = 0 <=> Compare!RowsOf(s, k) = {}
<1> DEFINE B == Compare!RowsOf(s, k)
<1>1. IsFiniteSet(B) BY TablesAre, FS_Subset DEF Compare!RowsOf
<1> HIDE DEF B
<1>2. Cardinality(B) \in Nat BY <1>1, FS_CardinalityType
<1>3. Cardinality(B) = 0 <=> B = {} BY <1>1, FS_EmptySet
<1>4. ASSUME Cardinality(B) <= 1, NEW i \in B, NEW j \in B, i # j PROVE FALSE
  <2>1. IsFiniteSet(B \ {i}) /\ Cardinality(B \ {i}) = Cardinality(B) - 1 BY <1>1, FS_RemoveElement
  <2>2. Cardinality(B \ {i}) \in Nat BY <2>1, FS_CardinalityType
  <2>3. Cardinality(B \ {i}) = 0 BY <1>2, <1>4, <2>1, <2>2
  <2>4. B \ {i} = {} BY <2>1, <2>3, FS_EmptySet
  <2> QED BY <1>4, <2>4
<1>5. ASSUME \A i, j \in B : i = j PROVE Cardinality(B) <= 1
  <2>1. CASE B = {} BY <1>2, <1>3, <2>1
  <2>2. CASE B # {}
    <3>1. PICK i : B = {i} BY <1>5, <2>2
    <3> QED BY <3>1, FS_Singleton
  <2> QED BY <2>1, <2>2
<1> QED BY <1>1, <1>2, <1>3, <1>4, <1>5 DEF B

\* Every difference that is told is there, and no difference means the same rows.
Real(s, t, differences) ==
    /\ differences = {} <=> IsInjective([i \in DOMAIN s |-> s[i].key])
                            /\ ToSet(s) = ToSet(t) /\ Len(s) = Len(t)
    /\ \A d \in differences : d[2] \in {"source-only", "target-only"} =>
          Cardinality({i \in DOMAIN s : s[i].key = d[1]}) + Cardinality({i \in DOMAIN t : t[i].key = d[1]}) = 1

LEMMA DifferencesTell ==
    ASSUME CompareAssumed, NEW s \in Compare!Tables, NEW t \in Compare!Tables
    PROVE  Real(s, t, Compare!Differences(s, t))
<1> DEFINE A == DOMAIN s
           B == DOMAIN t
           Ks == {s[i].key : i \in A}
           Kt == {t[i].key : i \in B}
           Z == Compare!Differences(s, t)
<1>1. /\ Len(s) \in Nat /\ IsFiniteSet(A) /\ Cardinality(A) = Len(s)
      /\ Len(t) \in Nat /\ IsFiniteSet(B) /\ Cardinality(B) = Len(t)
  BY TablesAre
<1>2. Z = {d \in {<<k, Compare!Status(s, t, k)>> : k \in Ks \cup Kt} : d[2] # "same"} BY DEF Compare!Differences
<1>3. \A k : /\ Compare!RowsOf(s, k) = {i \in A : s[i].key = k}
             /\ Compare!RowsOf(t, k) = {i \in B : t[i].key = k}
  BY DEF Compare!RowsOf
<1>s. ToSet(s) = {s[i] : i \in A} /\ ToSet(t) = {t[i] : i \in B} BY DEF ToSet
<1> HIDE DEF A, B, Z
<1>4. Z = {} <=> \A k \in Ks \cup Kt : Compare!Status(s, t, k) = "same"
  <2> DEFINE K == Ks \cup Kt
  <2>1. Z = {d \in {<<k, Compare!Status(s, t, k)>> : k \in K} : d[2] # "same"} BY <1>2
  <2> HIDE DEF K
  <2>2. \A k \in K : Compare!Status(s, t, k) # "same" => <<k, Compare!Status(s, t, k)>> \in Z BY <2>1
  <2>3. \A d \in Z : \E k \in K : Compare!Status(s, t, k) # "same" BY <2>1
  <2>4. Z = {} <=> \A k \in K : Compare!Status(s, t, k) = "same" BY <2>2, <2>3
  <2> QED BY <2>4 DEF K
<1>5. \A k : Compare!Status(s, t, k) = "same" <=>
               /\ \A i, j \in Compare!RowsOf(s, k) : i = j
               /\ \A i, j \in Compare!RowsOf(t, k) : i = j
               /\ Compare!RowsOf(s, k) # {} /\ Compare!RowsOf(t, k) # {}
               /\ \A i \in Compare!RowsOf(s, k), j \in Compare!RowsOf(t, k) : s[i] = t[j]
  <2> TAKE k
  <2>1. /\ Cardinality(Compare!RowsOf(s, k)) \in Nat
        /\ Cardinality(Compare!RowsOf(s, k)) <= 1 <=> \A i, j \in Compare!RowsOf(s, k) : i = j
    BY OneOrNone
  <2>2. /\ Cardinality(Compare!RowsOf(t, k)) \in Nat
        /\ Cardinality(Compare!RowsOf(t, k)) <= 1 <=> \A i, j \in Compare!RowsOf(t, k) : i = j
    BY OneOrNone
  <2>3. Cardinality(Compare!RowsOf(s, k)) > 1 <=> ~(\A i, j \in Compare!RowsOf(s, k) : i = j) BY <2>1
  <2>4. Cardinality(Compare!RowsOf(t, k)) > 1 <=> ~(\A i, j \in Compare!RowsOf(t, k) : i = j) BY <2>2
  <2> QED BY <2>3, <2>4, CompareLists DEF Compare!Status
<1>6. \A k : Compare!Status(s, t, k) = "source-only" => Cardinality(Compare!RowsOf(s, k)) <= 1 /\ Compare!RowsOf(t, k) = {}
  <2> TAKE k
  <2>1. Cardinality(Compare!RowsOf(s, k)) \in Nat BY OneOrNone
  <2>2. Compare!Status(s, t, k) = "source-only" => ~(Cardinality(Compare!RowsOf(s, k)) > 1) /\ Compare!RowsOf(t, k) = {}
    BY CompareLists DEF Compare!Status
  <2> QED BY <2>1, <2>2
<1>7. \A k : Compare!Status(s, t, k) = "target-only" => Cardinality(Compare!RowsOf(t, k)) <= 1 /\ Compare!RowsOf(s, k) = {}
  <2> TAKE k
  <2>1. Cardinality(Compare!RowsOf(t, k)) \in Nat BY OneOrNone
  <2>2. Compare!Status(s, t, k) = "target-only" => ~(Cardinality(Compare!RowsOf(t, k)) > 1) /\ Compare!RowsOf(s, k) = {}
    BY CompareLists DEF Compare!Status
  <2> QED BY <2>1, <2>2
<1> DEFINE keyed == [i \in A |-> s[i].key]
<1>8. IsInjective(keyed) <=> \A i, j \in A : s[i].key = s[j].key => i = j BY DEF IsInjective
<1> HIDE DEF keyed
<1>9. ASSUME Z = {} PROVE IsInjective(keyed) /\ ToSet(s) = ToSet(t) /\ Len(s) = Len(t)
  <2>1. \A k \in Ks \cup Kt : /\ \A i, j \in Compare!RowsOf(s, k) : i = j
                              /\ \A i, j \in Compare!RowsOf(t, k) : i = j
                              /\ Compare!RowsOf(s, k) # {} /\ Compare!RowsOf(t, k) # {}
                              /\ \A i \in Compare!RowsOf(s, k), j \in Compare!RowsOf(t, k) : s[i] = t[j]
    BY <1>4, <1>5, <1>9
  <2>2. \A i, j \in A : s[i].key = s[j].key => i = j
    <3> TAKE i, j \in A
    <3> HAVE s[i].key = s[j].key
    <3>1. i \in Compare!RowsOf(s, s[i].key) /\ j \in Compare!RowsOf(s, s[i].key) /\ s[i].key \in Ks BY <1>3
    <3> QED BY <2>1, <3>1
  <2>3. \A i, j \in B : t[i].key = t[j].key => i = j
    <3> TAKE i, j \in B
    <3> HAVE t[i].key = t[j].key
    <3>1. i \in Compare!RowsOf(t, t[i].key) /\ j \in Compare!RowsOf(t, t[i].key) /\ t[i].key \in Kt BY <1>3
    <3> QED BY <2>1, <3>1
  <2>4. \A i \in A : s[i] \in ToSet(t)
    <3> TAKE i \in A
    <3>1. i \in Compare!RowsOf(s, s[i].key) /\ s[i].key \in Ks BY <1>3
    <3>2. PICK j \in Compare!RowsOf(t, s[i].key) : s[i] = t[j] BY <2>1, <3>1
    <3> QED BY <1>3, <1>s, <3>2
  <2>5. \A j \in B : t[j] \in ToSet(s)
    <3> TAKE j \in B
    <3>1. j \in Compare!RowsOf(t, t[j].key) /\ t[j].key \in Kt BY <1>3
    <3>2. PICK i \in Compare!RowsOf(s, t[j].key) : s[i] = t[j] BY <2>1, <3>1
    <3> QED BY <1>3, <1>s, <3>2
  <2>6. ToSet(s) = ToSet(t) BY <1>s, <2>4, <2>5
  <2> DEFINE f == [i \in A |-> s[i]]
             g == [i \in B |-> t[i]]
  <2>7. f \in [A -> ToSet(s)] /\ (\A i \in A : f[i] = s[i]) BY <1>s
  <2>8. g \in [B -> ToSet(t)] /\ (\A i \in B : g[i] = t[i]) BY <1>s
  <2> HIDE DEF f, g
  <2>9. f \in Surjection(A, ToSet(s)) /\ f \in Injection(A, ToSet(s))
    BY <1>s, <2>2, <2>7 DEF Surjection, Injection, IsInjective
  <2>10. g \in Surjection(B, ToSet(t)) /\ g \in Injection(B, ToSet(t))
    BY <1>s, <2>3, <2>8 DEF Surjection, Injection, IsInjective
  <2>11. Cardinality(A) = Cardinality(ToSet(s)) BY <1>1, <2>9, FS_Surjection
  <2>12. Cardinality(B) = Cardinality(ToSet(t)) BY <1>1, <2>10, FS_Surjection
  <2> QED BY <1>1, <1>8, <2>2, <2>6, <2>11, <2>12
<1>10. ASSUME IsInjective(keyed), ToSet(s) = ToSet(t), Len(s) = Len(t) PROVE Z = {}
  <2>1. \A i, j \in A : s[i].key = s[j].key => i = j BY <1>8, <1>10
  <2> DEFINE f == [i \in A |-> s[i]]
             g == [i \in B |-> t[i]]
  <2>2. f \in [A -> ToSet(s)] /\ (\A i \in A : f[i] = s[i]) BY <1>s
  <2>3. g \in [B -> ToSet(t)] /\ (\A i \in B : g[i] = t[i]) BY <1>s
  <2> HIDE DEF f, g
  <2>4. f \in Surjection(A, ToSet(s)) /\ f \in Injection(A, ToSet(s))
    BY <1>s, <2>1, <2>2 DEF Surjection, Injection, IsInjective
  <2>5. g \in Surjection(B, ToSet(t)) BY <1>s, <2>3 DEF Surjection
  <2>6. Cardinality(A) = Cardinality(ToSet(s)) /\ IsFiniteSet(ToSet(s)) BY <1>1, <2>4, FS_Surjection
  <2>7. Cardinality(B) = Cardinality(ToSet(t)) BY <1>1, <1>10, <2>6
  <2>8. g \in Injection(B, ToSet(t)) BY <1>1, <2>5, <2>7, FS_Surjection
  <2>9. \A i, j \in B : t[i] = t[j] => i = j BY <2>3, <2>8 DEF Injection, IsInjective
  <2>10. \A j \in B : \E i \in A : t[j] = s[i] BY <1>s, <1>10
  <2>11. \A i \in A : \E j \in B : t[j] = s[i] BY <1>s, <1>10
  <2>12. \A i, j \in B : t[i].key = t[j].key => i = j
    <3> TAKE i, j \in B
    <3> HAVE t[i].key = t[j].key
    <3>1. PICK a \in A : t[i] = s[a] BY <2>10
    <3>2. PICK b \in A : t[j] = s[b] BY <2>10
    <3>3. a = b BY <2>1, <3>1, <3>2
    <3> QED BY <2>9, <3>1, <3>2, <3>3
  <2>13. ASSUME NEW k \in Ks \cup Kt PROVE Compare!Status(s, t, k) = "same"
    <3>1. \A i, j \in Compare!RowsOf(s, k) : i = j BY <1>3, <2>1
    <3>2. \A i, j \in Compare!RowsOf(t, k) : i = j BY <1>3, <2>12
    <3>3. PICK i \in A, j \in B : s[i].key = k /\ t[j] = s[i] BY <2>10, <2>11
    <3>4. i \in Compare!RowsOf(s, k) /\ j \in Compare!RowsOf(t, k) BY <1>3, <3>3
    <3>5. \A a \in Compare!RowsOf(s, k), b \in Compare!RowsOf(t, k) : s[a] = t[b] BY <3>1, <3>2, <3>3, <3>4
    <3> QED BY <1>5, <3>1, <3>2, <3>4, <3>5
  <2> QED BY <1>4, <2>13
<1>11. ASSUME NEW d \in Z, d[2] \in {"source-only", "target-only"}
       PROVE  Cardinality({i \in A : s[i].key = d[1]}) + Cardinality({i \in B : t[i].key = d[1]}) = 1
  <2>1. PICK k \in Ks \cup Kt : d = <<k, Compare!Status(s, t, k)>> BY <1>2
  <2>2. d[1] = k /\ d[2] = Compare!Status(s, t, k) BY <2>1
  <2>3. Compare!RowsOf(s, k) # {} \/ Compare!RowsOf(t, k) # {} BY <1>3
  <2>4. /\ Cardinality(Compare!RowsOf(s, k)) \in Nat /\ (Cardinality(Compare!RowsOf(s, k)) = 0 <=> Compare!RowsOf(s, k) = {})
        /\ Cardinality(Compare!RowsOf(t, k)) \in Nat /\ (Cardinality(Compare!RowsOf(t, k)) = 0 <=> Compare!RowsOf(t, k) = {})
    BY OneOrNone
  <2>5. Cardinality(Compare!RowsOf(s, k)) + Cardinality(Compare!RowsOf(t, k)) = 1
    <3>1. CASE d[2] = "source-only"
      <4>1. Compare!Status(s, t, k) = "source-only" BY <2>2, <3>1
      <4>2. Cardinality(Compare!RowsOf(s, k)) <= 1 /\ Compare!RowsOf(t, k) = {} BY <1>6, <4>1
      <4> DEFINE m == Cardinality(Compare!RowsOf(s, k))
                 n == Cardinality(Compare!RowsOf(t, k))
      <4>3. m \in Nat /\ n \in Nat /\ m <= 1 /\ m # 0 /\ n = 0 BY <2>3, <2>4, <4>2
      <4> HIDE DEF m, n
      <4>4. m + n = 1 BY <4>3
      <4> QED BY <4>4 DEF m, n
    <3>2. CASE d[2] = "target-only"
      <4>1. Compare!Status(s, t, k) = "target-only" BY <2>2, <3>2
      <4>2. Cardinality(Compare!RowsOf(t, k)) <= 1 /\ Compare!RowsOf(s, k) = {} BY <1>7, <4>1
      <4> DEFINE m == Cardinality(Compare!RowsOf(s, k))
                 n == Cardinality(Compare!RowsOf(t, k))
      <4>3. m \in Nat /\ n \in Nat /\ n <= 1 /\ n # 0 /\ m = 0 BY <2>3, <2>4, <4>2
      <4> HIDE DEF m, n
      <4>4. m + n = 1 BY <4>3
      <4> QED BY <4>4 DEF m, n
    <3> QED BY <1>11, <3>1, <3>2
  <2> QED BY <1>3, <2>2, <2>5
<1> QED BY <1>9, <1>10, <1>11 DEF Real, A, B, Z, keyed

-----------------------------------------------------------------------------
(* The invariant *)

CompareDatabases == UNION {Compare!Database(c) : c \in Connection}
CompareObjects == UNION {Compare!Object(d) : d \in CompareDatabases}
Target == [connection : Connection, database : CompareDatabases \cup {None}, object : CompareObjects \cup {None}]
Asked == [stage : Compare!Stages, request : Nat, of : Target]

\* A request is about what was chosen before it.
CompareRequestFits(r) ==
    /\ r \in Asked
    /\ r.stage \in {"objects", "structure"} => r.of.database \in Compare!Database(r.of.connection)
    /\ r.stage = "structure" => r.of.object \in Compare!Object(r.of.database)

\* A chain has one request under way at a time.
RequestsFit(c, n) ==
    /\ IsFiniteSet(c) /\ Cardinality(c) \in Nat /\ n \in Nat
    /\ \A r \in c : CompareRequestFits(r) /\ r.request \in 1..n
    /\ \A r, q \in c : r.request = q.request => r = q

\* The newest chain is about what is chosen, and until it is over there is no structure,
\* except that of the database before.
NewestFits(c, n, p, st) ==
    \A r \in c : r.request = n => r.of = p /\ (r.stage # "objects" => st = None)

\* What is listed below a choice is of that choice, once its list has come.
ListsFit(c, n, p, l) ==
    /\ (\A r \in c : r.request = n => r.stage # "databases") =>
           (l.connection # None => l.connection = p.connection)
    /\ (\A r \in c : r.request = n => r.stage = "structure") =>
           (l.database # None => l.database = p.database /\ p.database \in Compare!Database(p.connection))

\* When the newest chain is over, a structure is that of the table chosen.
StructureFits(c, n, p, st) ==
    (\A r \in c : r.request # n) =>
        (st # None => st = p.object /\ p.database \in Compare!Database(p.connection) /\ st \in Compare!Object(p.database))

Chosen ==
    /\ picked \in Target
    /\ compareListed \in [connection : Connection \cup {None}, database : CompareDatabases \cup {None}]
    /\ RequestsFit(chains, latest) /\ compareLoads = Cardinality(chains) /\ keys \in BOOLEAN
    /\ NewestFits(chains, latest, picked, structure)
    /\ ListsFit(chains, latest, picked, compareListed)
    /\ StructureFits(chains, latest, picked, structure)

\* While rows are compared, and while their differences show, nothing is under way.
Compares ==
    /\ cap \in Nat
    /\ compareComparing # None => chains = {} /\ structure # None /\ compareComparing = [target |-> picked, cap |-> cap]
    /\ compareResults.shows = "differences" =>
           /\ chains = {} /\ compareResults.of = [target |-> picked, cap |-> cap]
           /\ ~compareResults.partial => Real(compareResults.tables[1], compareResults.tables[2], compareResults.differences)

CompareInv == Chosen /\ Compares

LEMMA CompareSuffices == CompareInv => Compare!TypeOK /\ Compare!ComparesWhatIsChosen /\ Compare!DifferencesAreReal
<1> SUFFICES ASSUME CompareInv PROVE Compare!TypeOK /\ Compare!ComparesWhatIsChosen /\ Compare!DifferencesAreReal OBVIOUS
<1>1. Compare!TypeOK BY CompareLists DEF CompareInv, Chosen, Compares, Target, Asked, RequestsFit, CompareRequestFits, Compare!TypeOK
<1>2. ~Compare!Busy => chains = {} BY FS_EmptySet DEF CompareInv, Chosen, RequestsFit, Compare!Busy
<1>3. Compare!ComparesWhatIsChosen
  <2>1. ASSUME ~Compare!Busy, structure # None
        PROVE  /\ structure = picked.object /\ picked.database \in Compare!Database(picked.connection)
               /\ structure \in Compare!Object(picked.database)
    BY <1>2, <2>1 DEF CompareInv, Chosen, StructureFits
  <2>2. compareResults.shows = "differences" => compareResults.of = [target |-> picked, cap |-> cap] BY DEF CompareInv, Compares
  <2> QED BY <2>1, <2>2 DEF Compare!ComparesWhatIsChosen
<1>4. Compare!DifferencesAreReal BY CompareLists DEF CompareInv, Compares, Real, Compare!DifferencesAreReal
<1> QED BY <1>1, <1>3, <1>4

LEMMA CompareBegins == CompareAssumed /\ Compare!Init => CompareInv
<1> SUFFICES ASSUME CompareAssumed, Compare!Init PROVE CompareInv OBVIOUS
<1> DEFINE r == [stage |-> "databases", request |-> 1, of |-> picked]
<1>1. picked \in Target BY DEF Compare!Init, Target
<1>2. r.stage = "databases" /\ r.request = 1 /\ r.of = picked /\ r \in Asked BY <1>1 DEF Asked, Compare!Stages
<1>3. chains = {r} BY DEF Compare!Init
<1> HIDE DEF r
<1>4. IsFiniteSet({r}) /\ Cardinality({r}) = 1 BY FS_Singleton
<1>5. RequestsFit(chains, latest) BY <1>2, <1>3, <1>4 DEF Compare!Init, RequestsFit, CompareRequestFits
<1>6. NewestFits(chains, latest, picked, structure) BY <1>2, <1>3 DEF Compare!Init, NewestFits
<1>7. ListsFit(chains, latest, picked, compareListed) BY <1>2, <1>3 DEF Compare!Init, ListsFit
<1>8. StructureFits(chains, latest, picked, structure) BY DEF Compare!Init, StructureFits
<1>9. Compares BY DEF Compare!Init, Compares, Compare!Nothing, CompareAssumed
<1> QED BY <1>1, <1>3, <1>4, <1>5, <1>6, <1>7, <1>8, <1>9 DEF Compare!Init, CompareInv, Chosen

-----------------------------------------------------------------------------
(* Requests come and go *)

LEMMA OneMore ==
    ASSUME NEW c, NEW n, RequestsFit(c, n), NEW r, CompareRequestFits(r), r.request = n + 1
    PROVE  RequestsFit(c \cup {r}, n + 1) /\ Cardinality(c \cup {r}) = Cardinality(c) + 1
<1>1. r \notin c BY DEF RequestsFit
<1>2. IsFiniteSet(c \cup {r}) /\ Cardinality(c \cup {r}) = Cardinality(c) + 1 BY <1>1, FS_AddElement DEF RequestsFit
<1> QED BY <1>2 DEF RequestsFit

LEMMA OneLess ==
    ASSUME NEW c, NEW n, RequestsFit(c, n), NEW r \in c
    PROVE  RequestsFit(c \ {r}, n) /\ Cardinality(c \ {r}) = Cardinality(c) - 1
<1>1. IsFiniteSet(c \ {r}) /\ Cardinality(c \ {r}) = Cardinality(c) - 1 BY FS_RemoveElement DEF RequestsFit
<1>2. Cardinality(c \ {r}) \in Nat BY <1>1, FS_CardinalityType
<1> QED BY <1>1, <1>2 DEF RequestsFit

LEMMA OneForAnother ==
    ASSUME NEW c, NEW n, RequestsFit(c, n), NEW r \in c, NEW q, CompareRequestFits(q), q.request = r.request
    PROVE  RequestsFit((c \ {r}) \cup {q}, n) /\ Cardinality((c \ {r}) \cup {q}) = Cardinality(c)
<1>1. RequestsFit(c \ {r}, n) /\ Cardinality(c \ {r}) = Cardinality(c) - 1 BY OneLess
<1>2. q \notin c \ {r} BY DEF RequestsFit
<1>3. IsFiniteSet((c \ {r}) \cup {q}) /\ Cardinality((c \ {r}) \cup {q}) = Cardinality(c \ {r}) + 1
  BY <1>1, <1>2, FS_AddElement DEF RequestsFit
<1>4. Cardinality((c \ {r}) \cup {q}) = Cardinality(c) BY <1>1, <1>3 DEF RequestsFit
<1> QED BY <1>3, <1>4 DEF RequestsFit

\* A change starts a chain of its own, and what was compared is gone.
LEMMA ChangeIsGood ==
    ASSUME CompareInv, NEW from \in Compare!Stages, NEW pick \in Target, Compare!Change(from, pick),
           CompareRequestFits([stage |-> from, request |-> latest + 1, of |-> pick]),
           compareListed' = compareListed, keys' = keys, cap' = cap, compareComparing' = compareComparing,
           from # "objects" => structure' = None,
           from # "databases" => pick.connection = picked.connection /\
                                 (compareListed.connection # None => compareListed.connection = picked.connection),
           from = "structure" => (compareListed.database # None => compareListed.database = pick.database
                                                                   /\ pick.database \in Compare!Database(pick.connection))
    PROVE  CompareInv'
<1> DEFINE r == [stage |-> from, request |-> latest + 1, of |-> pick]
<1>1. r.stage = from /\ r.request = latest + 1 /\ r.of = pick /\ CompareRequestFits(r) OBVIOUS
<1>2. /\ chains' = chains \cup {r} /\ latest' = latest + 1 /\ compareLoads' = compareLoads + 1 /\ picked' = pick
      /\ compareResults' = Compare!Nothing /\ compareComparing = None
  BY DEF Compare!Change
<1> HIDE DEF r
<1>3. RequestsFit(chains, latest) /\ latest \in Nat /\ compareLoads = Cardinality(chains) BY DEF CompareInv, Chosen, RequestsFit
<1>4. RequestsFit(chains', latest') /\ compareLoads' = Cardinality(chains') BY <1>1, <1>2, <1>3, OneMore
<1>5. \A q \in chains' : q.request = latest' => q = r BY <1>1, <1>2, <1>3 DEF RequestsFit
<1>6. r \in chains' /\ r.request = latest' BY <1>1, <1>2
<1>7. NewestFits(chains', latest', picked', structure') BY <1>1, <1>2, <1>5 DEF NewestFits
<1>8. StructureFits(chains', latest', picked', structure') BY <1>6 DEF StructureFits
<1>9. ListsFit(chains', latest', picked', compareListed') BY <1>1, <1>2, <1>6 DEF ListsFit, Compare!Stages
<1>10. Compares' BY <1>2 DEF CompareInv, Compares, Compare!Nothing
<1> QED BY <1>2, <1>4, <1>7, <1>8, <1>9, <1>10 DEF CompareInv, Chosen

LEMMA StepChange ==
    ASSUME CompareAssumed, CompareInv, \/ \E c \in Connection : Compare!PickConnection(c)
                                       \/ \E d \in CompareDatabases : Compare!PickDatabase(d) \/ \E o \in Compare!Object(d) : Compare!PickObject(o)
    PROVE  CompareInv'
<1>1. picked \in Target /\ latest \in Nat /\ RequestsFit(chains, latest) /\ compareLoads = Cardinality(chains)
  BY DEF CompareInv, Chosen, RequestsFit
<1>2. ~Compare!Busy => chains = {} BY <1>1, FS_EmptySet DEF RequestsFit, Compare!Busy
<1>3. ~Compare!Busy => /\ compareListed.connection # None => compareListed.connection = picked.connection
                       /\ compareListed.database # None => compareListed.database = picked.database /\ picked.database \in Compare!Database(picked.connection)
  BY <1>2 DEF CompareInv, Chosen, ListsFit
<1>4. ASSUME NEW c \in Connection, Compare!PickConnection(c) PROVE CompareInv'
  <2> DEFINE p == [picked EXCEPT !.connection = c]
  <2>1. p \in Target BY <1>1 DEF Target
  <2>2. /\ Compare!Change("databases", p) /\ compareListed' = compareListed /\ keys' = keys /\ cap' = cap /\ compareComparing' = compareComparing
        /\ structure' = None
    BY <1>4 DEF Compare!PickConnection
  <2> HIDE DEF p
  <2>3. CompareRequestFits([stage |-> "databases", request |-> latest + 1, of |-> p])
    BY <1>1, <2>1 DEF CompareRequestFits, Asked, Compare!Stages
  <2> QED BY <2>1, <2>2, <2>3, ChangeIsGood DEF Compare!Stages
<1>5. ASSUME NEW d \in CompareDatabases, Compare!PickDatabase(d) PROVE CompareInv'
  <2> DEFINE p == [picked EXCEPT !.database = d]
  <2>1. p \in Target /\ p.connection = picked.connection /\ p.database = d BY <1>1 DEF Target
  <2>2. /\ Compare!Change("objects", p) /\ compareListed' = compareListed /\ keys' = keys /\ cap' = cap /\ compareComparing' = compareComparing
        /\ ~Compare!Busy /\ compareListed.connection # None /\ d \in Compare!Database(compareListed.connection)
    BY <1>5 DEF Compare!PickDatabase
  <2> HIDE DEF p
  <2>3. compareListed.connection = picked.connection BY <1>3, <2>2
  <2>4. CompareRequestFits([stage |-> "objects", request |-> latest + 1, of |-> p])
    BY <1>1, <2>1, <2>2, <2>3 DEF CompareRequestFits, Asked, Compare!Stages
  <2> QED BY <2>1, <2>2, <2>3, <2>4, ChangeIsGood DEF Compare!Stages
<1>6. ASSUME NEW d \in CompareDatabases, NEW o \in Compare!Object(d), Compare!PickObject(o) PROVE CompareInv'
  <2> DEFINE p == [picked EXCEPT !.object = o]
  <2>0. o \in CompareObjects BY DEF CompareObjects
  <2>1. p \in Target /\ p.connection = picked.connection /\ p.database = picked.database /\ p.object = o
    BY <1>1, <2>0 DEF Target
  <2>2. /\ Compare!Change("structure", p) /\ compareListed' = compareListed /\ keys' = keys /\ cap' = cap /\ compareComparing' = compareComparing
        /\ structure' = None /\ ~Compare!Busy /\ compareListed.database # None /\ o \in Compare!Object(compareListed.database)
    BY <1>6 DEF Compare!PickObject
  <2> HIDE DEF p
  <2>3. compareListed.database = picked.database /\ picked.database \in Compare!Database(picked.connection) BY <1>3, <2>2
  <2>4. CompareRequestFits([stage |-> "structure", request |-> latest + 1, of |-> p])
    BY <1>1, <2>1, <2>2, <2>3 DEF CompareRequestFits, Asked, Compare!Stages
  <2>5. compareListed.connection # None => compareListed.connection = picked.connection BY <1>3, <2>2
  <2> QED BY <2>1, <2>2, <2>3, <2>4, <2>5, ChangeIsGood DEF Compare!Stages
<1> QED BY <1>4, <1>5, <1>6

\* An answer of an older chain changes nothing else.
LEMMA StaleIsGood ==
    ASSUME CompareInv, NEW r \in chains, ~Compare!Current(r), chains' = chains \ {r}, compareLoads' = compareLoads - 1,
           UNCHANGED <<picked, compareListed, structure, latest, keys, cap, compareComparing, compareResults>>
    PROVE  CompareInv'
<1>1. RequestsFit(chains', latest') /\ compareLoads' = Cardinality(chains') BY OneLess DEF CompareInv, Chosen
<1>2. \A q \in chains : q.request = latest => q \in chains' BY DEF Compare!Current
<1>3. chains' \subseteq chains /\ latest' = latest OBVIOUS
<1>4. NewestFits(chains', latest', picked', structure') BY <1>3 DEF CompareInv, Chosen, NewestFits
<1>5. ListsFit(chains', latest', picked', compareListed') BY <1>2, <1>3 DEF CompareInv, Chosen, ListsFit
<1>6. StructureFits(chains', latest', picked', structure') BY <1>2, <1>3 DEF CompareInv, Chosen, StructureFits
<1>7. Compares'
  <2>1. compareComparing = None /\ compareResults.shows # "differences" BY DEF CompareInv, Compares
  <2>2. cap' \in Nat /\ compareComparing' = None /\ compareResults'.shows # "differences" BY <2>1 DEF CompareInv, Compares
  <2> QED BY <2>2 DEF Compares
<1> QED BY <1>1, <1>4, <1>5, <1>6, <1>7 DEF CompareInv, Chosen

\* Of the newest chain there is one request, about what is chosen.
LEMMA NewestIs ==
    ASSUME CompareInv, NEW r \in chains, Compare!Current(r)
    PROVE  /\ r.of = picked /\ CompareRequestFits(r) /\ r.request = latest /\ (r.stage # "objects" => structure = None)
           /\ \A q \in chains \ {r} : q.request # latest
           /\ compareComparing = None /\ compareResults.shows # "differences" /\ cap \in Nat
BY DEF CompareInv, Chosen, Compares, RequestsFit, NewestFits, Compare!Current

\* A request goes on to the next stage of its chain.
LEMMA NextStage ==
    ASSUME NEW r \in Asked, NEW s \in Compare!Stages, NEW o \in CompareObjects \cup {None}, NEW p \in Target
    PROVE  /\ [r EXCEPT !.stage = s, !.of = p] = [stage |-> s, request |-> r.request, of |-> p]
           /\ [r EXCEPT !.stage = s, !.of.object = o]
                = [stage |-> s, request |-> r.request, of |-> [r.of EXCEPT !.object = o]]
<1> DEFINE v == [r EXCEPT !.stage = s, !.of = p]
           w == [r EXCEPT !.stage = s, !.of.object = o]
           q == [r.of EXCEPT !.object = o]
<1>1. v \in Asked /\ v.stage = s /\ v.request = r.request /\ v.of = p BY DEF Asked
<1>2. w \in [stage : Compare!Stages, request : Nat, of : {q}] /\ w.stage = s /\ w.request = r.request /\ w.of = q
  BY DEF Asked, Target
<1> HIDE DEF v, w, q
<1>3. v = [stage |-> s, request |-> r.request, of |-> p] BY <1>1 DEF Asked
<1>4. w = [stage |-> s, request |-> r.request, of |-> q] BY <1>2
<1> QED BY <1>3, <1>4 DEF v, w, q

LEMMA StepDatabases == ASSUME CompareAssumed, CompareInv, NEW r \in chains, Compare!DatabasesArrive(r) PROVE CompareInv'
<1>1. CASE ~Compare!Current(r) BY <1>1, StaleIsGood DEF Compare!DatabasesArrive
<1>2. CASE Compare!Current(r)
  <2>1. /\ r.of = picked /\ CompareRequestFits(r) /\ r.request = latest /\ r.stage = "databases" /\ structure = None
        /\ \A q \in chains \ {r} : q.request # latest
        /\ compareComparing = None /\ compareResults.shows # "differences" /\ cap \in Nat
    BY <1>2, NewestIs DEF Compare!DatabasesArrive
  <2>2. /\ structure' = None /\ latest' = latest /\ keys' = keys /\ cap' = cap /\ compareComparing' = None /\ compareResults' = compareResults
    BY <2>1 DEF Compare!DatabasesArrive
  <2>3. Compares' /\ StructureFits(chains', latest', picked', structure') BY <2>1, <2>2 DEF Compares, StructureFits
  <2>4. RequestsFit(chains, latest) /\ compareLoads = Cardinality(chains) /\ keys \in BOOLEAN /\ picked \in Target
        /\ compareListed \in [connection : Connection \cup {None}, database : CompareDatabases \cup {None}]
    BY DEF CompareInv, Chosen
  <2>5. CASE /\ picked' = [picked EXCEPT !.database = <<r.of.connection, 1>>]
             /\ compareListed' = [compareListed EXCEPT !.connection = r.of.connection]
             /\ chains' = (chains \ {r}) \cup {[r EXCEPT !.stage = "objects", !.of = picked']} /\ compareLoads' = compareLoads
    <3> DEFINE p == [picked EXCEPT !.database = <<r.of.connection, 1>>]
               q == [stage |-> "objects", request |-> r.request, of |-> p]
    <3>1. picked.connection \in Connection BY <2>4 DEF Target
    <3>2. <<picked.connection, 1>> \in Compare!Database(picked.connection) BY DEF Compare!Database
    <3>3. <<picked.connection, 1>> \in CompareDatabases BY <3>1, <3>2 DEF CompareDatabases
    <3>4. p \in Target /\ p.connection = picked.connection /\ p.database = <<picked.connection, 1>>
      BY <2>1, <2>4, <3>3 DEF Target
    <3>5. compareListed' \in [connection : Connection \cup {None}, database : CompareDatabases \cup {None}]
          /\ compareListed'.connection = picked.connection
      BY <2>1, <2>4, <2>5, <3>1
    <3>6. r \in Asked BY <2>1 DEF CompareRequestFits
    <3>7. chains' = (chains \ {r}) \cup {q}
      <4>1. [r EXCEPT !.stage = "objects", !.of = picked'] = q BY <2>5, <3>4, <3>6, NextStage DEF Compare!Stages
      <4> QED BY <2>5, <4>1
    <3>8. picked' = p BY <2>5
    <3>9. q.stage = "objects" /\ q.request = latest /\ q.of = p /\ latest \in Nat BY <2>1, <2>4 DEF RequestsFit
    <3>10. q \in Asked BY <2>1, <2>4, <3>4, <3>9 DEF Asked, Compare!Stages, RequestsFit
    <3> HIDE DEF p, q
    <3>11. CompareRequestFits(q) BY <3>2, <3>4, <3>9, <3>10 DEF CompareRequestFits
    <3>12. RequestsFit(chains', latest') /\ compareLoads' = Cardinality(chains')
      BY <2>1, <2>2, <2>4, <2>5, <3>7, <3>9, <3>11, OneForAnother
    <3>13. \A x \in chains' : x.request = latest' => x = q BY <2>1, <2>2, <3>7
    <3>14. q \in chains' /\ q.request = latest' BY <2>2, <3>7, <3>9
    <3>15. NewestFits(chains', latest', picked', structure') BY <3>8, <3>9, <3>13 DEF NewestFits
    <3>16. ListsFit(chains', latest', picked', compareListed') BY <3>4, <3>5, <3>8, <3>9, <3>14 DEF ListsFit
    <3> QED BY <2>2, <2>3, <2>4, <3>4, <3>5, <3>8, <3>12, <3>15, <3>16 DEF CompareInv, Chosen
  <2>6. CASE /\ picked' = [picked EXCEPT !.database = None, !.object = None]
             /\ compareListed' = [compareListed EXCEPT !.connection = None, !.database = None]
             /\ chains' = chains \ {r} /\ compareLoads' = compareLoads - 1
    <3>1. picked' \in Target BY <2>4, <2>6 DEF Target
    <3>2. /\ compareListed' \in [connection : Connection \cup {None}, database : CompareDatabases \cup {None}]
          /\ compareListed'.connection = None /\ compareListed'.database = None
      BY <2>4, <2>6
    <3>3. RequestsFit(chains', latest') /\ compareLoads' = Cardinality(chains') BY <2>2, <2>4, <2>6, OneLess
    <3>4. NewestFits(chains', latest', picked', structure') BY <2>1, <2>2, <2>6 DEF NewestFits
    <3>5. ListsFit(chains', latest', picked', compareListed') BY <3>2 DEF ListsFit
    <3> QED BY <2>2, <2>3, <2>4, <3>1, <3>2, <3>3, <3>4, <3>5 DEF CompareInv, Chosen
  <2> QED BY <1>2, <2>5, <2>6 DEF Compare!DatabasesArrive
<1> QED BY <1>1, <1>2

LEMMA StepObjects == ASSUME CompareAssumed, CompareInv, NEW r \in chains, Compare!ObjectsArrive(r) PROVE CompareInv'
<1>1. CASE ~Compare!Current(r) BY <1>1, StaleIsGood DEF Compare!ObjectsArrive
<1>2. CASE Compare!Current(r)
  <2>1. /\ r.of = picked /\ CompareRequestFits(r) /\ r.request = latest /\ r.stage = "objects"
        /\ \A q \in chains \ {r} : q.request # latest
        /\ compareComparing = None /\ compareResults.shows # "differences" /\ cap \in Nat
    BY <1>2, NewestIs DEF Compare!ObjectsArrive
  <2>2. latest' = latest /\ cap' = cap /\ compareComparing' = None BY <2>1 DEF Compare!ObjectsArrive
  <2>3. RequestsFit(chains, latest) /\ compareLoads = Cardinality(chains) /\ keys \in BOOLEAN /\ picked \in Target
        /\ compareListed \in [connection : Connection \cup {None}, database : CompareDatabases \cup {None}]
    BY DEF CompareInv, Chosen
  <2>4. compareListed.connection # None => compareListed.connection = picked.connection
    BY <2>1 DEF CompareInv, Chosen, ListsFit
  <2>5. picked.database \in Compare!Database(picked.connection) BY <2>1 DEF CompareRequestFits
  <2>6. picked.connection \in Connection /\ picked.database \in CompareDatabases BY <2>3, <2>5 DEF Target, CompareDatabases
  <2>7. PICK object \in {None, <<r.of.database[1], r.of.database[2], 1>>}, within \in {r.of.database, None} :
           /\ picked' = [picked EXCEPT !.object = object]
           /\ compareListed' = [compareListed EXCEPT !.database = within]
           /\ Compare!OnToStructure(r, object, chains \ {r})
    BY <1>2 DEF Compare!ObjectsArrive
  <2>8. compareResults'.shows # "differences" BY <1>2, <2>1 DEF Compare!ObjectsArrive
  <2>9. Compares' BY <2>1, <2>2, <2>8 DEF Compares
  <2>10. structure' = None BY <2>7 DEF Compare!OnToStructure
  <2>11. StructureFits(chains', latest', picked', structure') BY <2>10 DEF StructureFits
  <2>12. object = None \/ object \in Compare!Object(picked.database)
    BY <2>1, <2>7 DEF Compare!Object
  <2>13. object \in CompareObjects \cup {None} BY <2>6, <2>12 DEF CompareObjects
  <2>14. /\ picked' \in Target /\ picked'.connection = picked.connection /\ picked'.database = picked.database
         /\ picked'.object = object
    BY <2>3, <2>7, <2>13 DEF Target
  <2>15. /\ compareListed' \in [connection : Connection \cup {None}, database : CompareDatabases \cup {None}]
         /\ compareListed'.connection = compareListed.connection /\ compareListed'.database \in {picked.database, None}
    BY <2>1, <2>3, <2>6, <2>7
  <2>16. ListsFit(chains', latest', picked', compareListed') BY <2>4, <2>5, <2>14, <2>15 DEF ListsFit
  <2>17. CASE object = None
    <3>1. keys' = FALSE /\ chains' = chains \ {r} /\ compareLoads' = compareLoads - 1 BY <2>7, <2>17 DEF Compare!OnToStructure
    <3>2. RequestsFit(chains', latest') /\ compareLoads' = Cardinality(chains') BY <2>2, <2>3, <3>1, OneLess
    <3>3. NewestFits(chains', latest', picked', structure') BY <2>1, <2>2, <3>1 DEF NewestFits
    <3> QED BY <2>9, <2>11, <2>14, <2>15, <2>16, <3>1, <3>2, <3>3 DEF CompareInv, Chosen
  <2>18. CASE object # None
    <3> DEFINE p == [picked EXCEPT !.object = object]
               q == [stage |-> "structure", request |-> r.request, of |-> p]
    <3>1. p = picked' BY <2>7
    <3>2. q.stage = "structure" /\ q.request = latest /\ q.of = picked' /\ latest \in Nat BY <2>1, <2>3, <3>1 DEF RequestsFit
    <3>3. q \in Asked BY <2>14, <3>1, <2>1, <3>2 DEF Asked, Compare!Stages
    <3>4. keys' = keys /\ compareLoads' = compareLoads /\ chains' = (chains \ {r}) \cup {q}
      <4>1. r \in Asked BY <2>1 DEF CompareRequestFits
      <4>3. "structure" \in Compare!Stages BY DEF Compare!Stages
      <4>4. [r EXCEPT !.stage = "structure", !.of.object = object]
              = [stage |-> "structure", request |-> r.request, of |-> [r.of EXCEPT !.object = object]]
        BY <2>3, <2>13, <4>1, <4>3, NextStage
      <4>2. [r EXCEPT !.stage = "structure", !.of.object = object] = q BY <2>1, <4>4
      <4> QED BY <2>7, <2>18, <4>2 DEF Compare!OnToStructure
    <3> HIDE DEF p, q
    <3>5. CompareRequestFits(q) BY <2>5, <2>12, <2>14, <2>18, <3>2, <3>3 DEF CompareRequestFits
    <3>6. RequestsFit(chains', latest') /\ compareLoads' = Cardinality(chains')
      BY <2>1, <2>2, <2>3, <3>2, <3>4, <3>5, OneForAnother
    <3>7. NewestFits(chains', latest', picked', structure') BY <2>1, <2>2, <2>10, <3>2, <3>4 DEF NewestFits
    <3> QED BY <2>3, <2>9, <2>11, <2>14, <2>15, <2>16, <3>4, <3>6, <3>7 DEF CompareInv, Chosen
  <2> QED BY <2>17, <2>18
<1> QED BY <1>1, <1>2

LEMMA StepStructure == ASSUME CompareAssumed, CompareInv, NEW r \in chains, Compare!StructureArrives(r) PROVE CompareInv'
<1>1. CASE ~Compare!Current(r) BY <1>1, StaleIsGood DEF Compare!StructureArrives
<1>2. CASE Compare!Current(r)
  <2>1. /\ r.of = picked /\ CompareRequestFits(r) /\ r.request = latest /\ r.stage = "structure" /\ structure = None
        /\ \A q \in chains \ {r} : q.request # latest
        /\ compareComparing = None /\ compareResults.shows # "differences" /\ cap \in Nat
    BY <1>2, NewestIs DEF Compare!StructureArrives
  <2>2. /\ picked' = picked /\ compareListed' = compareListed /\ latest' = latest /\ cap' = cap /\ compareComparing' = None
        /\ compareResults' = compareResults /\ chains' = chains \ {r} /\ compareLoads' = compareLoads - 1
    BY <2>1 DEF Compare!StructureArrives
  <2>3. RequestsFit(chains, latest) /\ compareLoads = Cardinality(chains) /\ keys \in BOOLEAN /\ picked \in Target
        /\ compareListed \in [connection : Connection \cup {None}, database : CompareDatabases \cup {None}]
    BY DEF CompareInv, Chosen
  <2>4. picked.database \in Compare!Database(picked.connection) /\ picked.object \in Compare!Object(picked.database)
    BY <2>1 DEF CompareRequestFits
  <2>5. structure' \in {None, picked.object} /\ keys' \in BOOLEAN BY <1>2, <2>1, <2>3 DEF Compare!StructureArrives
  <2>6. RequestsFit(chains', latest') /\ compareLoads' = Cardinality(chains') BY <2>2, <2>3, OneLess
  <2>7. NewestFits(chains', latest', picked', structure') BY <2>1, <2>2 DEF NewestFits
  <2>8. StructureFits(chains', latest', picked', structure') BY <2>2, <2>4, <2>5 DEF StructureFits
  <2>9. ListsFit(chains', latest', picked', compareListed')
    <3>1. \A q \in chains : q.request = latest => q.stage = "structure" BY <2>1
    <3> QED BY <2>2, <3>1 DEF CompareInv, Chosen, ListsFit
  <2>10. Compares' BY <2>1, <2>2 DEF Compares
  <2> QED BY <2>2, <2>3, <2>5, <2>6, <2>7, <2>8, <2>9, <2>10 DEF CompareInv, Chosen
<1> QED BY <1>1, <1>2

LEMMA StepCompare ==
    ASSUME CompareAssumed, CompareInv, \/ Compare!CheckKeys \/ \E n \in 1..MaxRows : Compare!SetCap(n)
                                       \/ Compare!Compare \/ \E s, t \in Compare!Tables : Compare!Compared(s, t)
                                       \/ Compare!CompareFails
    PROVE  CompareInv'
<1>0. ~Compare!Busy => chains = {} BY FS_EmptySet DEF CompareInv, Chosen, RequestsFit, Compare!Busy
<1>s. UNCHANGED Compare!selection => Chosen' BY DEF CompareInv, Chosen, Compare!selection
<1>1. ASSUME Compare!CheckKeys PROVE CompareInv'
  <2>1. keys' \in BOOLEAN BY <1>1 DEF Compare!CheckKeys, CompareInv, Chosen
  <2>2. UNCHANGED <<picked, compareListed, structure, chains, latest, compareLoads>> BY <1>1 DEF Compare!CheckKeys
  <2>3. Chosen' BY <2>1, <2>2 DEF CompareInv, Chosen
  <2>4. Compares' BY <1>1 DEF Compare!CheckKeys, CompareInv, Compares, Compare!Nothing
  <2> QED BY <2>3, <2>4 DEF CompareInv
<1>2. ASSUME NEW n \in 1..MaxRows, Compare!SetCap(n) PROVE CompareInv'
  <2>1. n \in Nat BY DEF CompareAssumed
  <2>2. Compares' BY <1>2, <2>1 DEF Compare!SetCap, Compares, Compare!Nothing
  <2> QED BY <1>s, <1>2, <2>2 DEF Compare!SetCap, CompareInv
<1>3. ASSUME Compare!Compare PROVE CompareInv'
  <2>1. /\ chains' = {} /\ structure' # None /\ compareComparing' = [target |-> picked', cap |-> cap'] /\ compareResults'.shows = "loading"
        /\ cap' = cap
    BY <1>0, <1>3 DEF Compare!Compare, Compare!selection
  <2>2. Compares' BY <2>1 DEF CompareInv, Compares
  <2> QED BY <1>s, <1>3, <2>2 DEF Compare!Compare, CompareInv
<1>4. ASSUME NEW s \in Compare!Tables, NEW t \in Compare!Tables, Compare!Compared(s, t) PROVE CompareInv'
  <2> DEFINE a == Compare!Loaded(s, compareComparing.cap)
             b == Compare!Loaded(t, compareComparing.cap)
             z == Compare!Differences(a.rows, b.rows)
             p == a.truncated \/ b.truncated
  <2>1. /\ compareResults' = [shows |-> "differences", of |-> compareComparing, tables |-> <<s, t>>, differences |-> z, partial |-> p]
        /\ compareComparing' = None /\ cap' = cap /\ chains' = chains /\ picked' = picked /\ UNCHANGED Compare!selection
        /\ compareComparing # None
    BY <1>4 DEF Compare!Compared, Compare!selection
  <2>2. chains = {} /\ compareComparing = [target |-> picked, cap |-> cap] /\ cap \in Nat BY <2>1 DEF CompareInv, Compares
  <2>3. ~p => Real(s, t, z)
    <3> SUFFICES ASSUME ~p PROVE Real(s, t, z) OBVIOUS
    <3>1. compareComparing.cap \in Nat BY <2>2
    <3>2. ~a.truncated /\ ~b.truncated OBVIOUS
    <3>3. a.rows = Compare!Sorted(s) BY <3>1, <3>2, LoadedIs
    <3>4. b.rows = Compare!Sorted(t) BY <3>1, <3>2, LoadedIs
    <3>5. z = Compare!Differences(s, t) BY <3>3, <3>4, StatusStays
    <3> QED BY <3>5, DifferencesTell
  <2> HIDE DEF z, p
  <2>4. /\ compareResults'.shows = "differences" /\ compareResults'.of = compareComparing /\ compareResults'.tables[1] = s /\ compareResults'.tables[2] = t
        /\ compareResults'.differences = z /\ (compareResults'.partial <=> p)
    BY <2>1
  <2>5. Compares' BY <2>1, <2>2, <2>3, <2>4 DEF Compares
  <2> QED BY <1>s, <2>1, <2>5 DEF CompareInv
<1>5. ASSUME Compare!CompareFails PROVE CompareInv'
  <2>1. Compares' BY <1>5 DEF Compare!CompareFails, CompareInv, Compares
  <2> QED BY <1>s, <1>5, <2>1 DEF Compare!CompareFails, CompareInv
<1> QED BY <1>1, <1>2, <1>3, <1>4, <1>5

LEMMA CompareGoesOn == CompareAssumed /\ CompareInv /\ [Compare!Next]_(Compare!vars) => CompareInv'
<1> SUFFICES ASSUME CompareAssumed, CompareInv, [Compare!Next]_(Compare!vars) PROVE CompareInv' OBVIOUS
<1>1. CASE UNCHANGED Compare!vars
  <2>1. Chosen' BY <1>1 DEF CompareInv, Chosen, Compare!vars, Compare!selection
  <2>2. Compares' BY <1>1 DEF CompareInv, Compares, Compare!vars, Compare!selection
  <2> QED BY <2>1, <2>2 DEF CompareInv
<1>2. CASE \/ \E c \in Connection : Compare!PickConnection(c)
           \/ \E d \in CompareDatabases : Compare!PickDatabase(d) \/ \E o \in Compare!Object(d) : Compare!PickObject(o)
  BY <1>2, StepChange
<1>3. CASE \E r \in chains : Compare!DatabasesArrive(r) \/ Compare!ObjectsArrive(r) \/ Compare!StructureArrives(r)
  BY <1>3, StepDatabases, StepObjects, StepStructure
<1>4. CASE \/ Compare!CheckKeys \/ \E n \in 1..MaxRows : Compare!SetCap(n)
           \/ Compare!Compare \/ \E s, t \in Compare!Tables : Compare!Compared(s, t)
           \/ Compare!CompareFails
  BY <1>4, StepCompare
<1> QED BY <1>1, <1>2, <1>3, <1>4 DEF Compare!Next, CompareDatabases

-----------------------------------------------------------------------------
(* ---- The search ---- *)

Search == INSTANCE ObjectSearch WITH
    shown <- searchShown

\* As above, of the search.
LEMMA SearchCardinality == \A S : Search!Cardinality(S) = Cardinality(S)
BY DEF Search!Cardinality, Cardinality

-----------------------------------------------------------------------------
(* The definitions that are read *)

SearchObjects == (Nat \X Nat) \X Nat

\* Of the objects of a scope, those before the k-th are k.
OfScope(items, s) == {o \in items : o[1] = s}

LEMMA PlaceIs ==
    ASSUME NEW items \in SUBSET SearchObjects, IsFiniteSet(items), NEW s
    PROVE  /\ \A o \in OfScope(items, s) : Search!Place(o, items) \in Nat /\ Search!Place(o, items) < Cardinality(OfScope(items, s))
           /\ IsFiniteSet(OfScope(items, s)) /\ Cardinality(OfScope(items, s)) \in Nat
           /\ \A o, p \in OfScope(items, s) : Search!Place(o, items) = Search!Place(p, items) => o = p
           /\ \A k \in Nat : LET T == {o \in OfScope(items, s) : Search!Place(o, items) < k}
                             IN /\ Cardinality(T) \in Nat /\ Cardinality(T) <= k
                                /\ k <= Cardinality(OfScope(items, s)) => Cardinality(T) = k
<1> DEFINE S == OfScope(items, s)
           R == {x \in S \X S : x[1][2] < x[2][2]}
<1>1. IsFiniteSet(S) BY FS_Subset DEF OfScope
<1>2. \A a \in S : a \in SearchObjects /\ a[1] = s /\ a[2] \in Nat /\ a = <<a[1], a[2]>> BY DEF OfScope, SearchObjects
<1>3. \A a, b \in S : <<a, b>> \in R <=> a[2] < b[2] OBVIOUS
<1>4. \A o \in S : Search!Place(o, items) = Rank(S, R, o)
  <2> TAKE o \in S
  <2>1. {p \in items : p[1] = o[1] /\ p[2] < o[2]} = {p \in S : <<p, o>> \in R} BY <1>2, <1>3 DEF OfScope
  <2> QED BY <2>1, SearchCardinality DEF Search!Place, Rank
<1> HIDE DEF S, R
<1>5. \A a \in S : <<a, a>> \notin R BY <1>2, <1>3
<1>6. \A a, b, c \in S : <<a, b>> \in R /\ <<b, c>> \in R => <<a, c>> \in R
  <2> TAKE a, b, c \in S
  <2>1. a[2] \in Nat /\ b[2] \in Nat /\ c[2] \in Nat BY <1>2
  <2> QED BY <1>3, <2>1
<1>7. \A a, b \in S : a = b \/ <<a, b>> \in R \/ <<b, a>> \in R
  <2> TAKE a, b \in S
  <2>1. a[2] \in Nat /\ b[2] \in Nat /\ (a[2] = b[2] => a = b) BY <1>2
  <2> QED BY <1>3, <2>1
<1>8. /\ Cardinality(S) \in Nat /\ \A a \in S : Rank(S, R, a) \in Nat /\ Rank(S, R, a) < Cardinality(S)
      /\ \A a, b \in S : Rank(S, R, a) = Rank(S, R, b) => a = b
      /\ \A k \in Nat : /\ Cardinality({a \in S : Rank(S, R, a) < k}) \in Nat
                        /\ Cardinality({a \in S : Rank(S, R, a) < k}) <= k
                        /\ k <= Cardinality(S) => Cardinality({a \in S : Rank(S, R, a) < k}) = k
  BY <1>1, <1>5, <1>6, <1>7, RankIs
<1>9. \A k : {o \in S : Search!Place(o, items) < k} = {a \in S : Rank(S, R, a) < k} BY <1>4
<1> QED BY <1>1, <1>4, <1>8, <1>9 DEF S

LEMMA EarlierIs ==
    \A s, t, u \in Nat \X Nat :
        /\ ~Search!Earlier(s, s) /\ (Search!Earlier(s, t) /\ Search!Earlier(t, u) => Search!Earlier(s, u))
        /\ s = t \/ Search!Earlier(s, t) \/ Search!Earlier(t, s)
<1> TAKE s, t, u \in Nat \X Nat
<1>1. /\ s[1] \in Nat /\ s[2] \in Nat /\ t[1] \in Nat /\ t[2] \in Nat /\ u[1] \in Nat /\ u[2] \in Nat
      /\ (s[1] = t[1] /\ s[2] = t[2] => s = t)
  OBVIOUS
<1> QED BY <1>1 DEF Search!Earlier

\* They are taken up to the limit, and as many of one scope as of another that has enough.
LEMMA TakeFairIs ==
    ASSUME NEW items \in SUBSET SearchObjects, IsFiniteSet(items), NEW limit \in Nat
    PROVE  LET T == Search!TakeFair(items, limit)
           IN /\ T \subseteq items /\ (T # items => Cardinality(T) = limit)
              /\ \A o \in items \ T, p \in T :
                    Cardinality(OfScope(T, o[1])) + 1 >= Cardinality(OfScope(T, p[1]))
<1> DEFINE P(o) == Search!Place(o, items)
           R == {x \in items \X items : P(x[1]) < P(x[2]) \/ (P(x[1]) = P(x[2]) /\ Search!Earlier(x[1][1], x[2][1]))}
           T == Search!TakeFair(items, limit)
<1>1. \A a, b \in items : <<a, b>> \in R <=> P(a) < P(b) \/ (P(a) = P(b) /\ Search!Earlier(a[1], b[1])) OBVIOUS
<1>2. \A a \in items : a[1] \in Nat \X Nat /\ a \in OfScope(items, a[1]) /\ P(a) \in Nat
  <2> TAKE a \in items
  <2>1. a[1] \in Nat \X Nat /\ a \in OfScope(items, a[1]) BY DEF SearchObjects, OfScope
  <2> QED BY <2>1, PlaceIs
<1>3. \A a, b \in items : a[1] = b[1] /\ P(a) = P(b) => a = b
  <2> TAKE a, b \in items
  <2> HAVE a[1] = b[1] /\ P(a) = P(b)
  <2>1. a \in OfScope(items, a[1]) /\ b \in OfScope(items, a[1]) BY DEF OfScope
  <2> QED BY <2>1, PlaceIs
<1>4. T = {o \in items : Rank(items, R, o) < limit}
  <2>1. \A o \in items : {p \in items : P(p) < P(o) \/ (P(p) = P(o) /\ Search!Earlier(p[1], o[1]))} =
                             {p \in items : <<p, o>> \in R}
    BY <1>1
  <2> QED BY <2>1, SearchCardinality DEF Search!TakeFair, Rank
<1> HIDE DEF R, T, P
<1>5. \A a \in items : <<a, a>> \notin R BY <1>1, <1>2, EarlierIs
<1>6. \A a, b, c \in items : <<a, b>> \in R /\ <<b, c>> \in R => <<a, c>> \in R
  <2> TAKE a, b, c \in items
  <2>1. P(a) \in Nat /\ P(b) \in Nat /\ P(c) \in Nat BY <1>2
  <2>2. Search!Earlier(a[1], b[1]) /\ Search!Earlier(b[1], c[1]) => Search!Earlier(a[1], c[1]) BY <1>2, EarlierIs
  <2> QED BY <1>1, <2>1, <2>2
<1>7. \A a, b \in items : a = b \/ <<a, b>> \in R \/ <<b, a>> \in R
  <2> TAKE a, b \in items
  <2>1. P(a) \in Nat /\ P(b) \in Nat BY <1>2
  <2>2. a[1] = b[1] \/ Search!Earlier(a[1], b[1]) \/ Search!Earlier(b[1], a[1]) BY <1>2, EarlierIs
  <2> QED BY <1>1, <1>3, <2>1, <2>2
<1>8. /\ Cardinality(items) \in Nat
      /\ \A a \in items : Rank(items, R, a) \in Nat /\ Rank(items, R, a) < Cardinality(items)
      /\ \A a, b \in items : <<a, b>> \in R <=> Rank(items, R, a) < Rank(items, R, b)
      /\ limit <= Cardinality(items) => Cardinality({a \in items : Rank(items, R, a) < limit}) = limit
  BY <1>5, <1>6, <1>7, RankIs
<1>9. T # items => Cardinality(T) = limit
  <2> HAVE T # items
  <2>1. PICK o \in items : ~(Rank(items, R, o) < limit) BY <1>4
  <2>2. limit <= Cardinality(items) BY <1>8, <2>1
  <2> QED BY <1>4, <1>8, <2>2
<1>10. ASSUME NEW o \in items \ T, NEW p \in T
       PROVE  Cardinality(OfScope(T, o[1])) + 1 >= Cardinality(OfScope(T, p[1]))
  <2> DEFINE mine == OfScope(T, o[1])
             theirs == OfScope(T, p[1])
             k == Cardinality(mine) + 1
             all == OfScope(items, o[1])
             other == OfScope(items, p[1])
  <2>1. IsFiniteSet(T) /\ T \subseteq items BY <1>4, FS_Subset
  <2>2. IsFiniteSet(mine) /\ IsFiniteSet(theirs)
    <3>1. mine \subseteq T /\ theirs \subseteq T BY DEF OfScope
    <3> QED BY <2>1, <3>1, FS_Subset
  <2>3. Cardinality(mine) \in Nat /\ Cardinality(theirs) \in Nat BY <2>2, FS_CardinalityType
  <2>4. k \in Nat /\ mine \subseteq all /\ theirs \subseteq other /\ o \in all BY <2>1, <2>3 DEF OfScope
  <2>5. /\ P(o) < Cardinality(all) /\ Cardinality(all) \in Nat /\ IsFiniteSet(all) /\ IsFiniteSet(other)
        /\ k <= Cardinality(all) => Cardinality({q \in all : P(q) < k}) = k
        /\ Cardinality({q \in other : P(q) < k}) <= k /\ Cardinality({q \in other : P(q) < k}) \in Nat
    BY <2>4, PlaceIs DEF P
  <2>6. CASE \A q \in theirs : P(q) < k
    <3>1. theirs \subseteq {q \in other : P(q) < k} BY <2>4, <2>6
    <3>2. IsFiniteSet({q \in other : P(q) < k}) BY <2>5, FS_Subset
    <3>3. Cardinality(theirs) <= Cardinality({q \in other : P(q) < k}) BY <3>1, <3>2, FS_Subset
    <3> QED BY <2>3, <2>5, <3>3
  <2>7. CASE \E q \in theirs : ~(P(q) < k)
    <3>1. PICK q \in theirs : ~(P(q) < k) BY <2>7
    <3>2. q \in items /\ q \in T /\ P(q) \in Nat /\ P(o) \in Nat BY <1>2, <2>1 DEF OfScope
    <3>3. Rank(items, R, q) < limit /\ ~(Rank(items, R, o) < limit) BY <1>4, <3>2
    <3>4. <<q, o>> \in R BY <1>8, <3>2, <3>3
    <3>5. P(q) <= P(o) BY <1>1, <3>2, <3>4
    <3>6. {a \in all : P(a) < k} \subseteq mine
      <4> SUFFICES ASSUME NEW a \in all, P(a) < k PROVE a \in mine OBVIOUS
      <4>1. a \in items /\ a[1] = o[1] /\ P(a) \in Nat BY <1>2 DEF OfScope
      <4>2. P(a) < P(q) BY <2>4, <3>1, <3>2, <4>1
      <4>3. <<a, q>> \in R BY <1>1, <3>2, <4>1, <4>2
      <4>4. Rank(items, R, a) < limit BY <1>8, <3>2, <3>3, <4>1, <4>3
      <4> QED BY <1>4, <4>1, <4>4 DEF OfScope
    <3>7. k <= Cardinality(all) BY <2>4, <2>5, <3>1, <3>2, <3>5
    <3>8. Cardinality({a \in all : P(a) < k}) <= Cardinality(mine) BY <2>2, <3>6, FS_Subset
    <3> QED BY <2>3, <2>5, <3>7, <3>8
  <2> QED BY <2>6, <2>7
<1>11. T \subseteq items BY <1>4
<1> QED BY <1>9, <1>10, <1>11 DEF T
-----------------------------------------------------------------------------
(* What is assumed, and the invariant *)

\* Connections and their databases are numbered, each database holds finitely
\* many objects in a sequence, and limits and workers are numbers.
SearchAssumed ==
    /\ Search!Connection \subseteq Nat /\ IsFiniteSet(Search!Connection)
    /\ \A c \in Search!Connection :
          /\ IsFiniteSet(Databases[c])
          /\ \A d \in Databases[c] : d.number \in Nat /\ d.system \in BOOLEAN
          /\ \A d, e \in Databases[c] : d.number = e.number => d = e
    /\ \A w \in Worlds, s \in Search!Scope : DOMAIN w[s] \subseteq Nat /\ IsFiniteSet(DOMAIN w[s])
    /\ Limits \subseteq Nat /\ Workers \in Nat

Stages == {"databases", "objects", "definitions"}
Item == Nat \cup (Nat \X Nat) \cup SearchObjects
SearchType ==
    [at : Stages, items : SUBSET Item, waiting : SUBSET Item, running : SUBSET Item,
     scopes : SUBSET (Nat \X Nat), candidates : SUBSET SearchObjects, found : SUBSET SearchObjects,
     failed : SUBSET (Stages \X Item), omitted : Nat]

\* What there is to be listed of a connection and of a database, and what is read.
Allowed(c) == {<<c, d.number>> : d \in {e \in Databases[c] : controls.system \/ ~e.system}}
Reported(x) == {o \in Search!Object : o[1] = x /\ (controls.internal \/ ~Search!In(o, "internal"))}
NamedOf(some) == IF controls.mode = "definitions" THEN {} ELSE {o \in some : Search!In(o, "name")}
EligibleOf(some) == IF controls.mode = "names" THEN {} ELSE some \ NamedOf(some)

\* A stage has a bounded number of workers, on what it is about.
StageHolds(s) ==
    /\ s.waiting \subseteq s.items /\ s.running \subseteq s.items
    /\ IsFiniteSet(s.items) /\ Cardinality(s.running) <= Workers
    /\ s.at = "databases" => s.items = Search!Connection
    /\ s.at = "objects" => s.items = s.scopes

\* What was listed may be listed.
ListedIsAllowed(s) ==
    /\ \A x \in s.scopes : x \in Search!Scope /\ (controls.system \/ ~Search!System(x))
    /\ \A o \in s.candidates : /\ o \in Search!Object /\ o[1] \in s.scopes
                               /\ controls.internal \/ ~Search!In(o, "internal")

\* A stage loses nothing: what it has to ask about is still to be asked, has
\* failed, or its answer is there.
DatabasesRead(s) ==
    \A c \in Search!Connection : \/ s.at = "databases" /\ c \in s.waiting \cup s.running
                                 \/ <<"databases", c>> \in s.failed
                                 \/ Allowed(c) \subseteq s.scopes
ObjectsRead(s) ==
    s.at # "databases" =>
        \A x \in s.scopes : \/ s.at = "objects" /\ x \in s.waiting \cup s.running
                            \/ <<"objects", x>> \in s.failed
                            \/ Reported(x) \subseteq s.candidates
DefinitionsRead(s) ==
    s.at = "definitions" =>
        /\ s.items = Search!TakeFair(EligibleOf(s.candidates), controls.limit)
        /\ s.omitted = Cardinality(EligibleOf(s.candidates)) - Cardinality(s.items)
        /\ NamedOf(s.candidates) \subseteq s.found
        /\ \A o \in s.found : o \in NamedOf(s.candidates) \/ (o \in s.items /\ Search!In(o, "definition"))
        /\ \A o \in s.items : \/ o \in s.waiting \cup s.running
                              \/ <<"definitions", o>> \in s.failed
                              \/ Search!In(o, "definition") => o \in s.found

Sound(s) ==
    /\ s \in SearchType
    /\ StageHolds(s) /\ ListedIsAllowed(s)
    /\ DatabasesRead(s) /\ ObjectsRead(s) /\ DefinitionsRead(s)

SearchInv ==
    /\ world \in Worlds /\ controls \in Search!Settings
    /\ search # None => Sound(search)
    /\ search = None \/ searchShown = Search!Nothing
    /\ Search!MissingIsExplained

-----------------------------------------------------------------------------
(* There are finitely many objects *)

LEMMA SearchScopesAre ==
    ASSUME SearchAssumed
    PROVE  /\ IsFiniteSet(Search!Scope) /\ Search!Scope \subseteq Nat \X Nat
           /\ \A x \in Search!Scope : x[1] \in Search!Connection /\ \E d \in Databases[x[1]] : x = <<x[1], d.number>>
           /\ \A c \in Search!Connection : Allowed(c) \subseteq Search!Scope
<1> DEFINE Its(c) == {<<c, d.number>> : d \in Databases[c]}
           all == {Its(c) : c \in Search!Connection}
<1>1. \A c \in Search!Connection : IsFiniteSet(Its(c))
  <2> TAKE c \in Search!Connection
  <2>1. IsFiniteSet(Databases[c]) BY DEF SearchAssumed
  <2> DEFINE f == [d \in Databases[c] |-> <<c, d.number>>]
  <2>2. f \in Surjection(Databases[c], Its(c)) BY DEF Surjection
  <2> HIDE DEF f, Its
  <2> QED BY <2>1, <2>2, FS_Surjection
<1>2. IsFiniteSet(all)
  <2>1. IsFiniteSet(Search!Connection) BY DEF SearchAssumed
  <2> DEFINE f == [c \in Search!Connection |-> Its(c)]
  <2>2. f \in Surjection(Search!Connection, all) BY DEF Surjection
  <2> HIDE DEF f, all
  <2> QED BY <2>1, <2>2, FS_Surjection
<1>3. \A S \in all : IsFiniteSet(S) BY <1>1
<1>4. Search!Scope = UNION all BY DEF Search!Scope
<1> HIDE DEF all
<1>5. IsFiniteSet(Search!Scope) BY <1>2, <1>3, <1>4, FS_UNION
<1>6. \A x \in Search!Scope : x[1] \in Search!Connection /\ \E d \in Databases[x[1]] : x = <<x[1], d.number>>
  <2> TAKE x \in Search!Scope
  <2>1. PICK c \in Search!Connection : \E d \in Databases[c] : x = <<c, d.number>> BY DEF Search!Scope
  <2> QED BY <2>1
<1>7. Search!Scope \subseteq Nat \X Nat BY <1>6 DEF SearchAssumed
<1>8. \A c \in Search!Connection : Allowed(c) \subseteq Search!Scope BY DEF Allowed, Search!Scope
<1> QED BY <1>5, <1>6, <1>7, <1>8

LEMMA ObjectsAre ==
    ASSUME SearchAssumed, world \in Worlds
    PROVE  /\ IsFiniteSet(Search!Object) /\ Search!Object \subseteq SearchObjects
           /\ \A o \in Search!Object : o[1] \in Search!Scope
<1> DEFINE Its(s) == {<<s, i>> : i \in DOMAIN world[s]}
           all == {Its(s) : s \in Search!Scope}
<1>1. \A s \in Search!Scope : IsFiniteSet(Its(s))
  <2> TAKE s \in Search!Scope
  <2>1. IsFiniteSet(DOMAIN world[s]) BY DEF SearchAssumed
  <2> DEFINE f == [i \in DOMAIN world[s] |-> <<s, i>>]
  <2>2. f \in Surjection(DOMAIN world[s], Its(s)) BY DEF Surjection
  <2> HIDE DEF f, Its
  <2> QED BY <2>1, <2>2, FS_Surjection
<1>2. IsFiniteSet(all)
  <2>1. IsFiniteSet(Search!Scope) BY SearchScopesAre
  <2> DEFINE f == [s \in Search!Scope |-> Its(s)]
  <2>2. f \in Surjection(Search!Scope, all) BY DEF Surjection
  <2> HIDE DEF f, all
  <2> QED BY <2>1, <2>2, FS_Surjection
<1>3. \A S \in all : IsFiniteSet(S) BY <1>1
<1>4. Search!Object = UNION all BY DEF Search!Object
<1> HIDE DEF all
<1>5. IsFiniteSet(Search!Object) BY <1>2, <1>3, <1>4, FS_UNION
<1>6. \A o \in Search!Object : o[1] \in Search!Scope /\ o \in SearchObjects
  <2> TAKE o \in Search!Object
  <2>1. PICK s \in Search!Scope : \E i \in DOMAIN world[s] : o = <<s, i>> BY DEF Search!Object
  <2>3. PICK i \in DOMAIN world[s] : o = <<s, i>> BY <2>1
  <2>2. s \in Nat \X Nat /\ i \in Nat BY <2>1, SearchScopesAre DEF SearchAssumed
  <2> QED BY <2>3, <2>2 DEF SearchObjects
<1> QED BY <1>5, <1>6

LEMMA EligibleIs ==
    ASSUME SearchAssumed, SearchInv, NEW s, Sound(s)
    PROVE  LET E == EligibleOf(s.candidates)
               T == Search!TakeFair(E, controls.limit)
           IN /\ E \in SUBSET SearchObjects /\ IsFiniteSet(E) /\ IsFiniteSet(T) /\ controls.limit \in Nat /\ T \subseteq E
              /\ NamedOf(s.candidates) \in SUBSET SearchObjects
              /\ Cardinality(E) \in Nat /\ Cardinality(T) \in Nat /\ Cardinality(T) <= Cardinality(E)
              /\ T # E => Cardinality(T) < Cardinality(E)
<1> DEFINE E == EligibleOf(s.candidates)
           T == Search!TakeFair(E, controls.limit)
<1>1. IsFiniteSet(Search!Object) /\ s.candidates \subseteq Search!Object /\ s.candidates \subseteq SearchObjects
  BY ObjectsAre DEF SearchInv, Sound, ListedIsAllowed, SearchType
<1>2. NamedOf(s.candidates) \subseteq s.candidates /\ E \subseteq s.candidates BY DEF NamedOf, EligibleOf
<1>3. controls.limit \in Nat BY DEF SearchInv, Search!Settings, SearchAssumed
<1> HIDE DEF E
<1>4. E \in SUBSET SearchObjects /\ IsFiniteSet(E) BY <1>1, <1>2, FS_Subset
<1>5. T \subseteq E BY DEF Search!TakeFair
<1> HIDE DEF T
<1>6. IsFiniteSet(T) /\ Cardinality(T) <= Cardinality(E) /\ (T # E => Cardinality(T) # Cardinality(E)) BY <1>4, <1>5, FS_Subset
<1>7. Cardinality(T) \in Nat /\ Cardinality(E) \in Nat BY <1>4, <1>6, FS_CardinalityType
<1> QED BY <1>1, <1>2, <1>3, <1>4, <1>5, <1>6, <1>7 DEF E, T

LEMMA SearchSuffices == SearchAssumed /\ SearchInv => Search!TypeOK /\ Search!MissingIsExplained /\ Search!LimitIsSharedOut
<1> SUFFICES ASSUME SearchAssumed, SearchInv PROVE Search!TypeOK /\ Search!MissingIsExplained /\ Search!LimitIsSharedOut OBVIOUS
<1>1. Search!TypeOK BY SearchCardinality DEF SearchInv, Search!TypeOK, Sound, StageHolds, SearchType, Stages
<1>2. Search!LimitIsSharedOut
  <2> SUFFICES ASSUME search # None, search.at = "definitions" PROVE Search!LimitIsSharedOut!2 BY DEF Search!LimitIsSharedOut
  <2> DEFINE E == EligibleOf(search.candidates)
             T == Search!TakeFair(E, controls.limit)
  <2>1. E = Search!Eligible BY DEF Search!Eligible, EligibleOf, Search!Named, NamedOf
  <2>2. Sound(search) BY DEF SearchInv
  <2>3. search.items = T /\ search.omitted = Cardinality(E) - Cardinality(T) BY <2>2 DEF Sound, DefinitionsRead
  <2>4. /\ E \in SUBSET SearchObjects /\ IsFiniteSet(E) /\ controls.limit \in Nat
        /\ Cardinality(E) \in Nat /\ Cardinality(T) \in Nat
    BY <2>2, EligibleIs
  <2> HIDE DEF E
  <2>5. /\ T # E => Cardinality(T) = controls.limit
        /\ \A o \in E \ T, p \in T : Cardinality(OfScope(T, o[1])) + 1 >= Cardinality(OfScope(T, p[1]))
    BY <2>4, TakeFairIs
  <2> HIDE DEF T
  <2>6. Cardinality(search.items) + search.omitted = Cardinality(Search!Eligible) BY <2>1, <2>3, <2>4
  <2>7. search.omitted > 0 => Cardinality(search.items) = controls.limit BY <2>3, <2>4, <2>5
  <2> QED BY <2>1, <2>3, <2>5, <2>6, <2>7, SearchCardinality DEF OfScope
<1> QED BY <1>1, <1>2 DEF SearchInv

LEMMA SearchBegins == SearchAssumed /\ Search!Init => SearchInv
BY DEF Search!Init, SearchInv, Search!MissingIsExplained

\* What is held of a search depends on the world and the controls alone.
LEMMA Frame ==
    ASSUME UNCHANGED <<world, controls>>, SearchInv,
           search' # None => Sound(search'), search' = None \/ searchShown' = Search!Nothing, Search!MissingIsExplained'
    PROVE  SearchInv'
<1>1. Sound(search)' <=> Sound(search')
  BY DEF Sound, StageHolds, ListedIsAllowed, DatabasesRead, ObjectsRead, DefinitionsRead, Allowed, Reported,
         NamedOf, EligibleOf, Search!Object, Search!In
<1>2. world' \in Worlds /\ controls' \in Search!Settings BY DEF SearchInv
<1> QED BY <1>1, <1>2 DEF SearchInv, Search!Nothing

\* Nothing is shown while a search is under way.
LEMMA Hidden ==
    ASSUME UNCHANGED <<world, controls>>, SearchInv, search' # None => Sound(search'), searchShown' = Search!Nothing
    PROVE  SearchInv'
<1>1. Search!MissingIsExplained' BY DEF Search!MissingIsExplained, Search!Nothing
<1> QED BY <1>1, Frame

LEMMA Begun ==
    ASSUME SearchAssumed, SearchInv, Search!Search
    PROVE  SearchInv'
<1> DEFINE t == [at |-> "databases", items |-> Search!Connection, waiting |-> Search!Connection, running |-> {},
                 scopes |-> {}, candidates |-> {}, found |-> {}, failed |-> {}, omitted |-> 0]
<1>1. t.at = "databases" /\ t.items = Search!Connection /\ t.waiting = Search!Connection /\ t.running = {} /\ t.scopes = {}
      /\ t.candidates = {}
  OBVIOUS
<1>2. Search!Connection \in SUBSET Item /\ IsFiniteSet(Search!Connection) BY DEF SearchAssumed, Item
<1>3. t \in SearchType BY <1>2 DEF SearchType, Stages
<1>4. search' = t /\ searchShown' = Search!Nothing BY DEF Search!Search
<1> HIDE DEF t
<1>5. Cardinality({}) = 0 /\ Workers \in Nat BY FS_EmptySet DEF SearchAssumed
<1>6. StageHolds(t) BY <1>1, <1>2, <1>5 DEF StageHolds
<1>7. ListedIsAllowed(t) BY <1>1 DEF ListedIsAllowed
<1>8. DatabasesRead(t) /\ ObjectsRead(t) /\ DefinitionsRead(t) BY <1>1 DEF DatabasesRead, ObjectsRead, DefinitionsRead
<1> QED BY <1>3, <1>4, <1>6, <1>7, <1>8, Hidden DEF Sound, Search!Search

LEMMA Taken ==
    ASSUME SearchAssumed, SearchInv, NEW i \in search.items, Search!Take(i)
    PROVE  SearchInv'
<1> DEFINE t == [search EXCEPT !.waiting = @ \ {i}, !.running = @ \cup {i}]
<1>1. Sound(search) /\ search \in SearchType BY DEF SearchInv, Search!Take, Sound
<1>2. i \in Item BY <1>1 DEF SearchType
<1>3. t \in SearchType BY <1>1, <1>2 DEF SearchType
<1>4. /\ t.at = search.at /\ t.items = search.items /\ t.scopes = search.scopes /\ t.candidates = search.candidates
      /\ t.found = search.found /\ t.failed = search.failed /\ t.omitted = search.omitted
      /\ t.waiting = search.waiting \ {i} /\ t.running = search.running \cup {i}
  BY <1>1 DEF SearchType
<1>5. search' = t BY DEF Search!Take
<1> HIDE DEF t
<1>6. StageHolds(t)
  <2>1. IsFiniteSet(search.items) /\ search.running \subseteq search.items BY <1>1 DEF Sound, StageHolds
  <2>2. IsFiniteSet(search.running) BY <2>1, FS_Subset
  <2>3. Cardinality(search.running) \in Nat BY <2>2, FS_CardinalityType
  <2>4. Cardinality(search.running \cup {i}) \in {Cardinality(search.running), Cardinality(search.running) + 1}
    BY <2>2, FS_AddElement
  <2>5. IsFiniteSet(search.running \cup {i}) BY <2>2, FS_AddElement
  <2>6. Cardinality(search.running \cup {i}) \in Nat BY <2>5, FS_CardinalityType
  <2>7. Cardinality(search.running) < Workers /\ Workers \in Nat BY SearchCardinality DEF Search!Take, SearchAssumed
  <2>8. Cardinality(t.running) <= Workers BY <1>4, <2>3, <2>4, <2>6, <2>7
  <2> QED BY <1>1, <1>4, <2>8 DEF Sound, StageHolds
<1>7. t.waiting \cup t.running = search.waiting \cup search.running BY <1>4 DEF Search!Take
<1>8. ListedIsAllowed(t) BY <1>1, <1>4 DEF Sound, ListedIsAllowed
<1>9. DatabasesRead(t) /\ ObjectsRead(t) BY <1>1, <1>4, <1>7 DEF Sound, DatabasesRead, ObjectsRead
<1>10. DefinitionsRead(t) BY <1>1, <1>4, <1>7 DEF Sound, DefinitionsRead
<1>11. search # None /\ searchShown' = Search!Nothing BY DEF Search!Take, SearchInv
<1> QED BY <1>3, <1>5, <1>6, <1>8, <1>9, <1>10, <1>11, Hidden DEF Sound, Search!Take

\* One that runs has its answer or its failure.
LEMMA AnswerGood ==
    ASSUME SearchAssumed, SearchInv, NEW i \in search.items, NEW fails \in BOOLEAN, Search!Answer(i, fails)
    PROVE  SearchInv'
<1> DEFINE s == search
           r == [search EXCEPT !.running = @ \ {i}]
           t == search'
<1>1. Sound(s) /\ s \in SearchType /\ i \in s.running BY DEF SearchInv, Search!Answer, Sound
<1>2. i \in Item BY <1>1 DEF SearchType
<1>3. /\ r \in SearchType
      /\ r.at = s.at /\ r.items = s.items /\ r.scopes = s.scopes /\ r.candidates = s.candidates
      /\ r.found = s.found /\ r.failed = s.failed /\ r.omitted = s.omitted
      /\ r.waiting = s.waiting /\ r.running = s.running \ {i}
  BY <1>1 DEF SearchType
<1>4. t = IF fails THEN [r EXCEPT !.failed = @ \cup {<<r.at, i>>}] ELSE Search!Answered(r, i) BY DEF Search!Answer
<1> HIDE DEF r
<1>5. s.at \in Stages BY <1>1 DEF SearchType
<1>a. s.at = "databases" => i \in Search!Connection BY <1>1 DEF Sound, StageHolds
<1>b. s.at = "objects" => i \in s.scopes BY <1>1 DEF Sound, StageHolds
<1>6. /\ t \in SearchType
      /\ t.at = s.at /\ t.items = s.items /\ t.waiting = s.waiting /\ t.running = s.running \ {i} /\ t.omitted = s.omitted
      /\ fails => /\ t.failed = s.failed \cup {<<s.at, i>>} /\ t.scopes = s.scopes /\ t.candidates = s.candidates
                  /\ t.found = s.found
      /\ ~fails => /\ t.failed = s.failed
                   /\ t.scopes = IF s.at = "databases" THEN s.scopes \cup Allowed(i) ELSE s.scopes
                   /\ t.candidates = IF s.at = "objects" THEN s.candidates \cup Reported(i) ELSE s.candidates
                   /\ t.found = IF s.at = "definitions" /\ Search!In(i, "definition") THEN s.found \cup {i} ELSE s.found
  <2>1. CASE fails
    <3>1. t = [r EXCEPT !.failed = @ \cup {<<r.at, i>>}] BY <1>4, <2>1
    <3>2. s.failed \cup {<<s.at, i>>} \in SUBSET (Stages \X Item) BY <1>1, <1>2, <1>5 DEF SearchType
    <3> QED BY <1>3, <2>1, <3>1, <3>2 DEF SearchType
  <2>2. CASE ~fails /\ s.at = "databases"
    <3>1. t = [r EXCEPT !.scopes = @ \cup Allowed(i)] BY <1>3, <1>4, <2>2 DEF Search!Answered, Allowed
    <3>2. Allowed(i) \in SUBSET (Nat \X Nat) BY <1>a, <2>2, SearchScopesAre
    <3> QED BY <1>3, <2>2, <3>1, <3>2 DEF SearchType
  <2>3. CASE ~fails /\ s.at = "objects"
    <3>1. t = [r EXCEPT !.candidates = @ \cup Reported(i)] BY <1>3, <1>4, <2>3 DEF Search!Answered, Reported
    <3>2. Reported(i) \in SUBSET SearchObjects BY ObjectsAre DEF Reported, SearchInv
    <3> QED BY <1>3, <2>3, <3>1, <3>2 DEF SearchType
  <2>4. CASE ~fails /\ s.at = "definitions"
    <3>1. t = [r EXCEPT !.found = IF Search!In(i, "definition") THEN @ \cup {i} ELSE @] BY <1>3, <1>4, <2>4 DEF Search!Answered
    <3>2. i \in SearchObjects
      <4>1. s.items = Search!TakeFair(EligibleOf(s.candidates), controls.limit) BY <1>1, <2>4 DEF Sound, DefinitionsRead
      <4> QED BY <1>1, <4>1, EligibleIs
    <3> QED BY <1>3, <2>4, <3>1, <3>2 DEF SearchType
  <2> QED BY <1>5, <2>1, <2>2, <2>3, <2>4 DEF Stages
<1>7. searchShown' = Search!Nothing /\ UNCHANGED <<world, controls>> BY DEF Search!Answer, SearchInv
<1> HIDE DEF s, t
<1>8. StageHolds(t)
  <2>1. IsFiniteSet(s.items) /\ s.running \subseteq s.items /\ Cardinality(s.running) <= Workers BY <1>1 DEF Sound, StageHolds
  <2>2. IsFiniteSet(s.running) BY <2>1, FS_Subset
  <2>3. IsFiniteSet(s.running \ {i}) /\ Cardinality(s.running \ {i}) <= Cardinality(s.running) BY <2>2, FS_Subset
  <2>4. Cardinality(s.running) \in Nat /\ Cardinality(s.running \ {i}) \in Nat BY <2>2, <2>3, FS_CardinalityType
  <2>5. Cardinality(t.running) <= Workers BY <1>6, <2>1, <2>3, <2>4 DEF SearchAssumed
  <2>6. t.at = "objects" => t.scopes = s.scopes BY <1>6
  <2> QED BY <1>1, <1>6, <2>5, <2>6 DEF Sound, StageHolds
<1>9. /\ s.scopes \subseteq t.scopes /\ s.candidates \subseteq t.candidates /\ s.found \subseteq t.found
      /\ s.failed \subseteq t.failed
      /\ \A j \in s.waiting \cup s.running : j \in t.waiting \cup t.running \/ j = i
  BY <1>6
<1>10. ListedIsAllowed(t)
  <2>1. \A x \in t.scopes : x \in Search!Scope /\ (controls.system \/ ~Search!System(x))
    <3> SUFFICES ASSUME NEW x \in t.scopes, x \notin s.scopes PROVE x \in Search!Scope /\ (controls.system \/ ~Search!System(x))
      BY <1>1 DEF Sound, ListedIsAllowed
    <3>1. s.at = "databases" /\ x \in Allowed(i) BY <1>6
    <3>2. i \in Search!Connection BY <1>a, <3>1
    <3>3. PICK d \in Databases[i] : x = <<i, d.number>> /\ (controls.system \/ ~d.system) BY <3>1 DEF Allowed
    <3>4. x \in Search!Scope BY <3>1, <3>2, SearchScopesAre
    <3>5. \A e \in Databases[i] : e.number = d.number => e = d BY <3>2 DEF SearchAssumed
    <3> QED BY <3>3, <3>4, <3>5 DEF Search!System
  <2>2. \A o \in t.candidates : o \in Search!Object /\ o[1] \in t.scopes /\ (controls.internal \/ ~Search!In(o, "internal"))
    <3> SUFFICES ASSUME NEW o \in t.candidates, o \notin s.candidates
                 PROVE  o \in Search!Object /\ o[1] \in t.scopes /\ (controls.internal \/ ~Search!In(o, "internal"))
      BY <1>1, <1>9 DEF Sound, ListedIsAllowed
    <3>1. s.at = "objects" /\ o \in Reported(i) BY <1>6
    <3> QED BY <1>b, <1>9, <3>1 DEF Reported
  <2> QED BY <2>1, <2>2 DEF ListedIsAllowed
<1>11. DatabasesRead(t)
  <2> SUFFICES ASSUME NEW c \in Search!Connection
               PROVE  \/ t.at = "databases" /\ c \in t.waiting \cup t.running
                      \/ <<"databases", c>> \in t.failed \/ Allowed(c) \subseteq t.scopes
    BY DEF DatabasesRead
  <2>1. \/ s.at = "databases" /\ c \in s.waiting \cup s.running
        \/ <<"databases", c>> \in s.failed \/ Allowed(c) \subseteq s.scopes
    BY <1>1 DEF Sound, DatabasesRead
  <2>2. ASSUME s.at = "databases", c = i PROVE <<"databases", c>> \in t.failed \/ Allowed(c) \subseteq t.scopes BY <1>6, <2>2
  <2> QED BY <1>6, <1>9, <2>1, <2>2
<1>12. ObjectsRead(t)
  <2> SUFFICES ASSUME t.at # "databases", NEW x \in t.scopes
               PROVE  \/ t.at = "objects" /\ x \in t.waiting \cup t.running
                      \/ <<"objects", x>> \in t.failed \/ Reported(x) \subseteq t.candidates
    BY DEF ObjectsRead
  <2>1. s.at # "databases" /\ x \in s.scopes BY <1>6
  <2>2. \/ s.at = "objects" /\ x \in s.waiting \cup s.running
        \/ <<"objects", x>> \in s.failed \/ Reported(x) \subseteq s.candidates
    BY <1>1, <2>1 DEF Sound, ObjectsRead
  <2>3. ASSUME s.at = "objects", x = i PROVE <<"objects", x>> \in t.failed \/ Reported(x) \subseteq t.candidates BY <1>6, <2>3
  <2> QED BY <1>6, <1>9, <2>2, <2>3
<1>13. DefinitionsRead(t)
  <2> SUFFICES ASSUME t.at = "definitions" PROVE DefinitionsRead(t) BY DEF DefinitionsRead
  <2>1. s.at = "definitions" /\ t.candidates = s.candidates BY <1>6
  <2>2. /\ s.items = Search!TakeFair(EligibleOf(s.candidates), controls.limit)
        /\ s.omitted = Cardinality(EligibleOf(s.candidates)) - Cardinality(s.items)
        /\ NamedOf(s.candidates) \subseteq s.found
        /\ \A o \in s.found : o \in NamedOf(s.candidates) \/ (o \in s.items /\ Search!In(o, "definition"))
        /\ \A o \in s.items : \/ o \in s.waiting \cup s.running
                              \/ <<"definitions", o>> \in s.failed
                              \/ Search!In(o, "definition") => o \in s.found
    BY <1>1, <2>1 DEF Sound, DefinitionsRead
  <2>3. \A o \in t.found : o \in s.found \/ (o = i /\ Search!In(i, "definition")) BY <1>6
  <2>4. i \in s.items BY <1>1 DEF Sound, StageHolds
  <2>5. <<"definitions", i>> \in t.failed \/ (Search!In(i, "definition") => i \in t.found) BY <1>6, <2>1
  <2>6. \A o \in t.items : \/ o \in t.waiting \cup t.running
                           \/ <<"definitions", o>> \in t.failed
                           \/ Search!In(o, "definition") => o \in t.found
    BY <1>6, <1>9, <2>2, <2>5
  <2>7. \A o \in t.found : o \in NamedOf(t.candidates) \/ (o \in t.items /\ Search!In(o, "definition"))
    BY <1>6, <2>1, <2>2, <2>3, <2>4
  <2>8. NamedOf(t.candidates) \subseteq t.found BY <1>9, <2>1, <2>2
  <2> QED BY <1>6, <2>1, <2>2, <2>6, <2>7, <2>8 DEF DefinitionsRead
<1>14. Sound(t) BY <1>6, <1>8, <1>10, <1>11, <1>12, <1>13 DEF Sound
<1> QED BY <1>7, <1>14, Hidden DEF t

LEMMA Listed ==
    ASSUME SearchAssumed, SearchInv, Search!ListObjects
    PROVE  SearchInv'
<1> DEFINE s == search
           t == Search!Begin("objects", search.scopes, search)
<1>1. Sound(s) /\ s \in SearchType /\ s.at = "databases" /\ s.waiting = {} /\ s.running = {}
  BY DEF SearchInv, Search!ListObjects, Search!StageDone, Sound
<1>2. s.scopes \subseteq Search!Scope BY <1>1 DEF Sound, ListedIsAllowed
<1>3. IsFiniteSet(s.scopes) BY <1>2, SearchScopesAre, FS_Subset
<1>4. s.scopes \in SUBSET Item BY <1>2, SearchScopesAre DEF Item
<1>5. /\ t \in SearchType
      /\ t.at = "objects" /\ t.items = s.scopes /\ t.waiting = s.scopes /\ t.running = {} /\ t.scopes = s.scopes
      /\ t.candidates = s.candidates /\ t.found = s.found /\ t.failed = s.failed
  BY <1>1, <1>4 DEF Search!Begin, SearchType, Stages
<1>6. search' = t /\ searchShown' = Search!Nothing BY DEF Search!ListObjects, SearchInv, Search!StageDone
<1> HIDE DEF t, s
<1>7. Cardinality({}) = 0 /\ Workers \in Nat BY FS_EmptySet DEF SearchAssumed
<1>8. StageHolds(t) BY <1>3, <1>5, <1>7 DEF StageHolds
<1>9. ListedIsAllowed(t) BY <1>1, <1>5 DEF Sound, ListedIsAllowed
<1>10. DatabasesRead(t) BY <1>1, <1>5 DEF Sound, DatabasesRead
<1>11. ObjectsRead(t) /\ DefinitionsRead(t) BY <1>5 DEF ObjectsRead, DefinitionsRead
<1> QED BY <1>5, <1>6, <1>8, <1>9, <1>10, <1>11, Hidden DEF Sound, Search!ListObjects

LEMMA DefinitionsGood ==
    ASSUME SearchAssumed, SearchInv, Search!ReadDefinitions
    PROVE  SearchInv'
<1> DEFINE s == search
           t == search'
           E == EligibleOf(s.candidates)
           T == Search!TakeFair(E, controls.limit)
<1>1. Sound(s) /\ s \in SearchType /\ s.at = "objects" /\ s.waiting = {} /\ s.running = {}
  BY DEF SearchInv, Search!ReadDefinitions, Search!StageDone, Sound
<1>2. Search!Named = NamedOf(s.candidates) /\ Search!Eligible = E BY DEF Search!Named, NamedOf, Search!Eligible, EligibleOf
<1>3. t = [Search!Begin("definitions", T, s) EXCEPT !.found = NamedOf(s.candidates), !.omitted = Cardinality(E) - Cardinality(T)]
  BY <1>2, SearchCardinality DEF Search!ReadDefinitions
<1>4. /\ IsFiniteSet(T) /\ T \subseteq E /\ E \in SUBSET SearchObjects /\ NamedOf(s.candidates) \in SUBSET SearchObjects
      /\ Cardinality(E) \in Nat /\ Cardinality(T) \in Nat /\ Cardinality(T) <= Cardinality(E)
  BY <1>1, EligibleIs
<1>5. searchShown' = Search!Nothing BY DEF Search!ReadDefinitions, SearchInv, Search!StageDone
<1> HIDE DEF T
<1>6. T \in SUBSET Item BY <1>4 DEF Item
<1> DEFINE n == Cardinality(E) - Cardinality(T)
<1>7. n \in Nat BY <1>4
<1> HIDE DEF n, E
<1>8. /\ t \in SearchType
      /\ t.at = "definitions" /\ t.items = T /\ t.waiting = T /\ t.running = {} /\ t.scopes = s.scopes
      /\ t.candidates = s.candidates /\ t.found = NamedOf(s.candidates) /\ t.failed = s.failed /\ t.omitted = n
  BY <1>1, <1>3, <1>4, <1>6, <1>7 DEF Search!Begin, SearchType, Stages, n
<1> HIDE DEF t, s
<1>9. Cardinality({}) = 0 /\ Workers \in Nat BY FS_EmptySet DEF SearchAssumed
<1>10. StageHolds(t) BY <1>4, <1>8, <1>9 DEF StageHolds
<1>11. ListedIsAllowed(t) BY <1>1, <1>8 DEF Sound, ListedIsAllowed
<1>12. DatabasesRead(t) BY <1>1, <1>8 DEF Sound, DatabasesRead
<1>13. ObjectsRead(t) BY <1>1, <1>8 DEF Sound, ObjectsRead
<1>14. DefinitionsRead(t) BY <1>8 DEF DefinitionsRead, n, T, E
<1>15. Sound(t) BY <1>8, <1>10, <1>11, <1>12, <1>13, <1>14 DEF Sound
<1>16. UNCHANGED <<world, controls>> BY DEF Search!ReadDefinitions
<1> QED BY <1>5, <1>15, <1>16, Hidden DEF t

\* What is missing from the results was given up on the way, or not read.
LEMMA ResultsGood ==
    ASSUME SearchAssumed, SearchInv, Search!Results
    PROVE  SearchInv'
<1> DEFINE s == search
           E == EligibleOf(s.candidates)
           T == Search!TakeFair(E, controls.limit)
<1>1. /\ Sound(s) /\ s \in SearchType /\ s.at = "definitions" /\ s.waiting = {} /\ s.running = {}
      /\ controls \in Search!Settings
  BY DEF SearchInv, Search!Results, Search!StageDone, Sound
<1>2. /\ searchShown' = [at |-> "results", settings |-> controls, found |-> s.found, failed |-> s.failed, omitted |-> s.omitted]
      /\ search' = None /\ UNCHANGED <<world, controls>>
  BY DEF Search!Results
<1>3. /\ searchShown'.settings = controls /\ searchShown'.found = s.found /\ searchShown'.failed = s.failed /\ searchShown'.omitted = s.omitted
  BY <1>2
<1>4. /\ s.items = T /\ s.omitted = Cardinality(E) - Cardinality(T)
      /\ NamedOf(s.candidates) \subseteq s.found
      /\ \A o \in s.found : o \in NamedOf(s.candidates) \/ (o \in T /\ Search!In(o, "definition"))
      /\ \A o \in T : <<"definitions", o>> \in s.failed \/ (Search!In(o, "definition") => o \in s.found)
  BY <1>1 DEF Sound, DefinitionsRead
<1>5. /\ T \subseteq E /\ Cardinality(E) \in Nat /\ Cardinality(T) \in Nat
      /\ T # E => Cardinality(T) < Cardinality(E)
  BY <1>1, EligibleIs
<1>6. /\ \A o \in s.candidates : /\ o \in Search!Object /\ o[1] \in s.scopes
                                 /\ controls.internal \/ ~Search!In(o, "internal")
      /\ \A x \in s.scopes : controls.system \/ ~Search!System(x)
  BY <1>1 DEF Sound, ListedIsAllowed
<1> HIDE DEF s, T
<1>7. \A o \in s.found : Search!Sought(o, controls)
  <2> TAKE o \in s.found
  <2>1. o \in NamedOf(s.candidates) \/ (o \in E /\ Search!In(o, "definition")) BY <1>4, <1>5
  <2>2. o \in NamedOf(s.candidates) => o \in s.candidates /\ controls.mode # "definitions" /\ Search!In(o, "name") BY DEF NamedOf
  <2>3. o \in E => o \in s.candidates /\ controls.mode # "names" BY DEF EligibleOf
  <2> HIDE DEF E
  <2> QED BY <1>6, <2>1, <2>2, <2>3 DEF Search!Sought
<1>8. ASSUME NEW o \in Search!Object \ s.found, Search!Sought(o, controls)
      PROVE  \/ s.failed \cap {<<"databases", o[1][1]>>, <<"objects", o[1]>>, <<"definitions", o>>} # {}
             \/ s.omitted > 0 /\ (controls.mode = "all" => ~Search!In(o, "name"))
  <2> SUFFICES ASSUME <<"databases", o[1][1]>> \notin s.failed, <<"objects", o[1]>> \notin s.failed,
                      <<"definitions", o>> \notin s.failed
               PROVE  s.omitted > 0 /\ (controls.mode = "all" => ~Search!In(o, "name"))
    OBVIOUS
  <2>1. o[1] \in Search!Scope /\ o[1][1] \in Search!Connection BY ObjectsAre, SearchScopesAre DEF SearchInv
  <2>2. PICK d \in Databases[o[1][1]] : o[1] = <<o[1][1], d.number>> BY <2>1, SearchScopesAre
  <2>3. controls.system \/ ~d.system BY <1>8, <2>1, <2>2 DEF Search!Sought, Search!System
  <2>4. o[1] \in Allowed(o[1][1]) BY <2>2, <2>3 DEF Allowed
  <2>5. Allowed(o[1][1]) \subseteq s.scopes BY <1>1, <2>1 DEF Sound, DatabasesRead
  <2>6. Reported(o[1]) \subseteq s.candidates BY <1>1, <2>4, <2>5 DEF Sound, ObjectsRead
  <2>7. o \in s.candidates BY <1>8, <2>6 DEF Reported, Search!Sought
  <2>8. ~(controls.mode # "definitions" /\ Search!In(o, "name")) BY <1>4, <2>7 DEF NamedOf
  <2>9. controls.mode # "names" /\ Search!In(o, "definition") BY <1>8, <2>8 DEF Search!Sought
  <2>10. o \in E BY <2>7, <2>8, <2>9 DEF EligibleOf, NamedOf
  <2>11. o \notin T BY <1>4, <2>9
  <2>12. s.omitted > 0 BY <1>4, <1>5, <2>10, <2>11
  <2> QED BY <2>8, <2>12
<1>9. Search!Object' = Search!Object /\ \A o, w : Search!In(o, w)' = Search!In(o, w) BY <1>2 DEF Search!Object, Search!In
<1>10. Search!MissingIsExplained' BY <1>2, <1>3, <1>7, <1>8, <1>9 DEF Search!MissingIsExplained, Search!Sought, Search!In, Search!System
<1> QED BY <1>2, <1>10, Frame

LEMMA SearchGoesOn == SearchAssumed /\ SearchInv /\ [Search!Next]_(Search!vars) => SearchInv'
<1> SUFFICES ASSUME SearchAssumed, SearchInv, [Search!Next]_(Search!vars) PROVE SearchInv' OBVIOUS
<1>1. CASE Search!Search BY <1>1, Begun
<1>2. CASE Search!SearchTooShort
  <2>1. search' = None /\ searchShown' = Search!Nothing /\ UNCHANGED <<world, controls>> BY <1>2 DEF Search!SearchTooShort
  <2> QED BY <2>1, Hidden
<1>3. CASE Search!ListObjects BY <1>3, Listed
<1>4. CASE Search!ReadDefinitions BY <1>4, DefinitionsGood
<1>5. CASE Search!Results BY <1>5, ResultsGood
<1>6. CASE Search!Cancel
  <2>1. search' = None /\ searchShown' = Search!Nothing /\ UNCHANGED <<world, controls>> BY <1>6 DEF Search!Cancel
  <2> QED BY <2>1, Hidden
<1>7. CASE search # None /\ \E i \in search.items : Search!Take(i) \/ Search!Answer(i, TRUE) \/ Search!Answer(i, FALSE)
  BY <1>7, Taken, AnswerGood
<1>8. CASE \E settings \in Search!Settings : Search!Change(settings)
  <2>1. controls' \in Search!Settings /\ search' = None /\ search = None /\ UNCHANGED <<world, searchShown>> BY <1>8 DEF Search!Change
  <2>2. Search!MissingIsExplained' BY <2>1 DEF SearchInv, Search!MissingIsExplained, Search!Object, Search!In, Search!Sought
  <2> QED BY <2>1, <2>2 DEF SearchInv
<1>9. CASE UNCHANGED Search!vars
  <2>1. search' = search /\ searchShown' = searchShown /\ UNCHANGED <<world, controls>> BY <1>9 DEF Search!vars
  <2>2. Search!MissingIsExplained' BY <2>1 DEF SearchInv, Search!MissingIsExplained, Search!Object, Search!In, Search!Sought
  <2> QED BY <2>1, <2>2, Frame DEF SearchInv
<1> QED BY <1>1, <1>2, <1>3, <1>4, <1>5, <1>6, <1>7, <1>8, <1>9 DEF Search!Next

-----------------------------------------------------------------------------
(* ---- The chat of the agent ---- *)

Chat == INSTANCE AgentTab WITH
    Limit <- ChatLimit, shared <- chatShared

\* As above, of the chat.
LEMMA ChatLists == (\A s : Chat!ToSet(s) = ToSet(s)) /\ \A s, S : Chat!Keep(s, S) = Keep(s, S)
BY DEF Chat!ToSet, ToSet, Chat!Keep, Keep

Turn == [at : {"key", "stream"}, message : Seq(Nat), answered : BOOLEAN]

ChatAssumed == ChatLimit \in Nat \ {0} /\ MaxWords \in Nat /\ None \notin Turn /\ None \notin Nat

-----------------------------------------------------------------------------
(* The invariant *)

TurnIs == turn \in Turn \cup {None} /\ closed \in BOOLEAN /\ (closed => turn = None)

\* While the composer takes what is heard, nothing of it was sent.
Spoken ==
    /\ words \in 0..MaxWords /\ speech \in {"off", "starting", "on", "ending"}
    /\ accepting \in BOOLEAN /\ (accepting => speech # "off" /\ turn = None)
    /\ {composer, base, heard} \subseteq Seq(Nat)
    /\ ToSet(composer) \cup ToSet(base) \cup ToSet(heard) \subseteq 1..words
    /\ turn # None => ToSet(turn.message) \subseteq 1..words
    /\ \A s \in sent : /\ ToSet(s.message) \subseteq 1..words
                       /\ ToSet(s.message) \cap ToSet(composer) = {}
                       /\ accepting => ToSet(s.message) \cap (ToSet(base) \cup ToSet(heard)) = {}

Record == [chat : Nat, messages : Seq(Seq(Nat))]
KeptIn(s, d, records) == s.chat \in d \/ \E r \in ToSet(records) : r.chat = s.chat /\ s.message \in ToSet(r.messages)

\* What was sent in this chat is in its transcript, and what was sent in another one, or
\* before the turn that is under way, is in the record of it; the signature is recorded.
Recorded ==
    /\ chat \in Nat \ {0} /\ {conversation, signature} \subseteq Seq(Seq(Nat))
    /\ saved \in Seq(Record) /\ Len(saved) <= ChatLimit
    /\ \A r, q \in ToSet(saved) : r.chat = q.chat => r = q
    /\ \A s \in sent : /\ s.chat \in 1..chat
                       /\ s.chat = chat /\ ~closed => s.message \in ToSet(conversation)
                       /\ s.chat # chat \/ turn = None => KeptIn(s, dropped, saved)
    /\ turn = None /\ ~closed => signature = conversation
    /\ signature # <<>> => chat \in dropped \/ \E r \in ToSet(saved) : r.chat = chat /\ r.messages = signature

Separate ==
    /\ session \in Nat /\ profile \in Profile /\ used \subseteq [session : Nat, profile : Profile, chat : Nat]
    /\ \A u \in used : u.session <= session /\ (u.session = session => u.profile = profile /\ u.chat = chat)
    /\ Chat!SessionsAreNotMixed

\* A handle was made before it is used, and a stray key before it is asked for.
KeysAreOurs ==
    /\ made \in Nat /\ held \subseteq 1..made /\ (handle = None \/ handle \in 1..made)
    /\ strays \subseteq [key : 1..made, asked : BOOLEAN]
    /\ Chat!KeysAreTakenBack

CardRecord == [scope : Scope, open : BOOLEAN, answer : {"yes", "no", None}]
Carded ==
    /\ cards \subseteq CardRecord
    /\ \A c \in cards : c.open \/ c.answer # None
    /\ Chat!NoCardOutlivesItsTurn

ChatInv == ChatAssumed /\ TurnIs /\ Spoken /\ Recorded /\ Separate /\ KeysAreOurs /\ Carded

LEMMA ChatSuffices ==
    ChatInv => Chat!TypeOK /\ Chat!NothingSentComesBack /\ Chat!SentIsKept /\ Chat!SessionsAreNotMixed /\ Chat!KeysAreTakenBack
               /\ Chat!NoCardOutlivesItsTurn
<1> SUFFICES ASSUME ChatInv
             PROVE  Chat!TypeOK /\ Chat!NothingSentComesBack /\ Chat!SentIsKept /\ Chat!SessionsAreNotMixed /\ Chat!KeysAreTakenBack
                    /\ Chat!NoCardOutlivesItsTurn
  OBVIOUS
<1>1. Chat!TypeOK BY ChatLists DEF ChatInv, TurnIs, Turn, Spoken, Recorded, Separate, KeysAreOurs, Carded, CardRecord, Chat!TypeOK
<1>2. Chat!NothingSentComesBack BY ChatLists DEF ChatInv, Spoken, Chat!NothingSentComesBack
<1>3. Chat!SentIsKept BY ChatLists DEF ChatInv, Recorded, KeptIn, Chat!SentIsKept
<1> QED BY <1>1, <1>2, <1>3 DEF ChatInv, Separate, KeysAreOurs, Carded

-----------------------------------------------------------------------------
(* What a step leaves alone *)

LEMMA AssumedStays == ChatAssumed => ChatAssumed' BY DEF ChatAssumed, Turn

LEMMA TurnStays == TurnIs /\ UNCHANGED <<turn, closed>> => TurnIs' BY DEF TurnIs

LEMMA SpokenStays == Spoken /\ UNCHANGED <<Chat!text, turn, sent>> => Spoken' BY DEF Spoken, Chat!text, Chat!dictation

LEMMA RecordedStays == Recorded /\ UNCHANGED <<Chat!dialogue, Chat!record, turn, closed, sent>> => Recorded'
BY DEF Recorded, Chat!dialogue, Chat!record, KeptIn

LEMMA SeparateStays == Separate /\ UNCHANGED <<session, chat, profile, used>> => Separate'
BY DEF Separate, Chat!SessionsAreNotMixed

LEMMA OurKeysStay ==
    KeysAreOurs /\ UNCHANGED <<handle, handleOf, made, held, strays, profile, closed>> => KeysAreOurs'
BY DEF KeysAreOurs, Chat!KeysAreTakenBack
LEMMA KeysStay == KeysAreOurs /\ UNCHANGED <<Chat!keys, closed>> => KeysAreOurs'
BY OurKeysStay DEF Chat!keys

\* A key whose removal is asked for becomes a stray, and that is all that does.
LEMMA TakenBackIs ==
    ASSUME ChatAssumed, KeysAreOurs
    PROVE  /\ Chat!TakenBack(handle) \subseteq [key : 1..made, asked : BOOLEAN]
           /\ \A k \in held : \E s \in strays \cup Chat!TakenBack(handle) : s.key = k
           /\ \A s \in strays \cup Chat!TakenBack(handle) : s.key \in 1..made
<1> DEFINE own == [key |-> handle, asked |-> TRUE]
<1>1. own.key = handle /\ (handle # None => own \in [key : 1..made, asked : BOOLEAN])
  BY DEF KeysAreOurs
<1>2. Chat!TakenBack(handle) = IF handle = None THEN {} ELSE {own} BY DEF Chat!TakenBack
<1> HIDE DEF own
<1>3. held \subseteq 1..made /\ held \subseteq {handle} \cup {s.key : s \in strays}
  BY DEF KeysAreOurs, Chat!KeysAreTakenBack
<1>4. strays \subseteq [key : 1..made, asked : BOOLEAN] BY DEF KeysAreOurs
<1>5. CASE handle # None BY <1>1, <1>2, <1>3, <1>4, <1>5
<1>6. CASE handle = None
  <2>1. \A k \in held : k # None BY <1>3 DEF ChatAssumed
  <2> QED BY <1>2, <1>3, <1>4, <1>6, <2>1
<1> QED BY <1>5, <1>6

LEMMA CardsStay ==
    ASSUME Carded, UNCHANGED cards, turn' = None => turn = None PROVE Carded'
BY DEF Carded, Chat!NoCardOutlivesItsTurn

-----------------------------------------------------------------------------
(* The composer *)

LEMMA ComposerStep ==
    ASSUME ChatInv,
           Chat!Type \/ Chat!ToggleDictation \/ Chat!DictationStarts \/ Chat!DictationEnds \/ \E more \in {0, 1} : Chat!DictationResult(more)
    PROVE  ChatInv'
<1>1. UNCHANGED <<Chat!keys, turn, Chat!permissions, Chat!dialogue, Chat!record, closed, Chat!history>>
  BY DEF Chat!Type, Chat!ToggleDictation, Chat!DictationStarts, Chat!DictationEnds, Chat!DictationResult
<1>2. ChatAssumed' /\ TurnIs' /\ Recorded' /\ Separate' /\ KeysAreOurs' /\ Carded'
  <2>1. UNCHANGED <<turn, closed, Chat!dialogue, Chat!record, sent, session, chat, profile, used, Chat!keys, cards>>
    BY <1>1 DEF Chat!dialogue, Chat!history, Chat!keys, Chat!permissions
  <2> QED BY <2>1, AssumedStays, TurnStays, RecordedStays, SeparateStays, KeysStay, CardsStay DEF ChatInv
<1>3. /\ words \in Nat /\ composer \in Seq(Nat) /\ base \in Seq(Nat) /\ heard \in Seq(Nat)
      /\ turn' = turn /\ sent' = sent /\ MaxWords \in Nat /\ words \in 0..MaxWords
      /\ 1..words \subseteq 1..(words + 1) /\ words + 1 \notin 1..words /\ words + 1 \in 1..(words + 1)
      /\ words + 1 \in Nat
  BY <1>1 DEF ChatInv, Spoken, ChatAssumed, Chat!history
<1>4. /\ Append(composer, words + 1) \in Seq(Nat) /\ ToSet(Append(composer, words + 1)) = ToSet(composer) \cup {words + 1}
      /\ Append(heard, words + 1) \in Seq(Nat) /\ ToSet(Append(heard, words + 1)) = ToSet(heard) \cup {words + 1}
  BY <1>3, Elements
<1>12. base \o heard \in Seq(Nat) /\ ToSet(base \o heard) = ToSet(base) \cup ToSet(heard) BY <1>3, Joined
<1>13. <<>> \in Seq(Nat) /\ ToSet(<<>>) = {} BY DEF ToSet
<1>5. base \o Append(heard, words + 1) \in Seq(Nat)
      /\ ToSet(base \o Append(heard, words + 1)) = ToSet(base) \cup ToSet(heard) \cup {words + 1}
  <2> DEFINE h == Append(heard, words + 1)
  <2>1. base \in Seq(Nat) /\ h \in Seq(Nat) /\ ToSet(h) = ToSet(heard) \cup {words + 1} BY <1>3, <1>4
  <2> HIDE DEF h
  <2>2. base \o h \in Seq(Nat) /\ ToSet(base \o h) = ToSet(base) \cup ToSet(h) BY <2>1, Joined
  <2>3. ToSet(base \o h) = ToSet(base) \cup ToSet(heard) \cup {words + 1} BY <2>1, <2>2
  <2> QED BY <2>2, <2>3 DEF h
<1>14. \A s \in sent : words + 1 \notin ToSet(s.message) /\ ToSet(s.message) \subseteq 1..(words + 1)
  BY <1>3 DEF ChatInv, Spoken
<1>15. ToSet(composer) \cup ToSet(base) \cup ToSet(heard) \subseteq 1..(words + 1) /\ (turn # None => ToSet(turn.message) \subseteq 1..(words + 1))
  BY <1>3 DEF ChatInv, Spoken
<1>6. ASSUME Chat!Type PROVE Spoken'
  <2>1. /\ words' = words + 1 /\ words' \in 0..MaxWords /\ composer' = Append(composer, words + 1)
        /\ UNCHANGED <<turn, sent>>
    BY <1>3, <1>6 DEF Chat!Type, ChatInv, Spoken
  <2>2. composer' \in Seq(Nat) /\ ToSet(composer') = ToSet(composer) \cup {words + 1} BY <1>4, <2>1
  <2>3. \A s \in sent : ToSet(s.message) \cap ToSet(composer') = {} BY <1>14, <2>2 DEF ChatInv, Spoken
  <2>4. ASSUME speech \in {"on", "ending"} PROVE Spoken'
    <3>1. ~accepting' /\ accepting' \in BOOLEAN /\ speech' = "ending" /\ UNCHANGED <<base, heard>>
      BY <1>6, <2>4 DEF Chat!Type, Chat!StopDictation
    <3> QED BY <1>14, <1>15, <2>1, <2>2, <2>3, <3>1 DEF ChatInv, Spoken
  <2>5. ASSUME speech \notin {"on", "ending"} PROVE Spoken'
    <3>1. UNCHANGED <<accepting, speech, base, heard>> BY <1>6, <2>5 DEF Chat!Type, Chat!dictation
    <3> QED BY <1>14, <1>15, <2>1, <2>2, <2>3, <3>1 DEF ChatInv, Spoken
  <2> QED BY <2>4, <2>5
<1>7. ASSUME Chat!ToggleDictation PROVE Spoken'
  BY <1>1, <1>3, <1>13, <1>7 DEF ChatInv, Spoken, Chat!ToggleDictation, Chat!Idle, Chat!StopDictation
<1>8. ASSUME Chat!DictationStarts PROVE Spoken' BY <1>1, <1>3, <1>8 DEF ChatInv, Spoken, Chat!DictationStarts
<1>9. ASSUME Chat!DictationEnds PROVE Spoken' BY <1>1, <1>3, <1>13, <1>9 DEF ChatInv, Spoken, Chat!DictationEnds
<1>10. ASSUME NEW more \in {0, 1}, Chat!DictationResult(more) PROVE Spoken'
  <2>1. /\ words' = words + more /\ words + more <= MaxWords /\ speech \in {"on", "ending"}
        /\ heard' = IF more = 1 THEN Append(heard, words + more) ELSE heard
        /\ composer' = IF accepting THEN base \o heard' ELSE composer
        /\ UNCHANGED <<speech, accepting, base>>
    BY <1>10 DEF Chat!DictationResult, Chat!Takes
  <2>2. CASE more = 1
    <3>1. /\ words' = words + 1 /\ words' \in 0..MaxWords /\ heard' = Append(heard, words + 1)
          /\ composer' = IF accepting THEN base \o Append(heard, words + 1) ELSE composer
      BY <1>3, <2>1, <2>2
    <3>2. ASSUME accepting PROVE Spoken'
      <4>1. /\ composer' \in Seq(Nat) /\ ToSet(composer') = ToSet(base) \cup ToSet(heard) \cup {words + 1}
            /\ heard' \in Seq(Nat) /\ ToSet(heard') = ToSet(heard) \cup {words + 1}
        BY <1>4, <1>5, <3>1, <3>2
      <4>2. \A s \in sent : ToSet(s.message) \cap (ToSet(base) \cup ToSet(heard)) = {}
        BY <3>2 DEF ChatInv, Spoken
      <4>3. \A s \in sent : /\ ToSet(s.message) \cap ToSet(composer') = {}
                            /\ ToSet(s.message) \cap (ToSet(base) \cup ToSet(heard')) = {}
        BY <1>14, <4>1, <4>2
      <4>4. ToSet(composer') \cup ToSet(base) \cup ToSet(heard') \subseteq 1..(words + 1) BY <1>3, <1>15, <4>1
      <4> QED BY <1>3, <1>14, <1>15, <2>1, <3>1, <4>1, <4>3, <4>4 DEF ChatInv, Spoken
    <3>3. ASSUME ~accepting PROVE Spoken' BY <1>3, <1>4, <1>14, <1>15, <2>1, <3>1, <3>3 DEF ChatInv, Spoken
    <3> QED BY <3>2, <3>3
  <2>3. CASE more = 0 BY <1>3, <1>12, <2>1, <2>3 DEF ChatInv, Spoken
  <2> QED BY <2>2, <2>3
<1>11. Spoken' BY <1>6, <1>7, <1>8, <1>9, <1>10
<1> QED BY <1>2, <1>11 DEF ChatInv

-----------------------------------------------------------------------------
(* Permission cards *)

LEMMA Changed ==
    ASSUME NEW c \in CardRecord
    PROVE  /\ \A o \in BOOLEAN : /\ [c EXCEPT !.open = o] \in CardRecord /\ [c EXCEPT !.open = o].open = o
                                 /\ [c EXCEPT !.open = o].answer = c.answer
           /\ \A a \in {"yes", "no", None} : /\ [c EXCEPT !.answer = a] \in CardRecord
                                             /\ [c EXCEPT !.answer = a].open = c.open
                                             /\ [c EXCEPT !.answer = a].answer = a
BY DEF CardRecord

LEMMA UnsettledIs ==
    ASSUME Carded PROVE Chat!Unsettled \subseteq CardRecord /\ \A c \in Chat!Unsettled : ~c.open /\ c.answer # None
<1> SUFFICES ASSUME NEW c \in Chat!Unsettled PROVE c \in CardRecord /\ ~c.open /\ c.answer # None OBVIOUS
<1>1. PICK d \in cards : d.answer # None /\ c = [d EXCEPT !.open = FALSE] BY DEF Chat!Unsettled
<1>2. d \in CardRecord BY DEF Carded
<1> QED BY <1>1, <1>2, Changed

LEMMA CardsStep ==
    ASSUME ChatInv,
           \/ \E scope \in Scope : Chat!PermissionRequest(scope) \/ Chat!ShareBox(scope)
           \/ \E c \in cards : Chat!AnswerTaken(c) \/ Chat!AnswerFails(c) \/ Chat!PermissionResolved(c)
                               \/ \E granted \in {"yes", "no"} : Chat!Answer(c, granted)
    PROVE  ChatInv'
<1>1. UNCHANGED <<Chat!text, Chat!keys, turn, Chat!dialogue, Chat!record, closed, Chat!history>>
  BY DEF Chat!PermissionRequest, Chat!ShareBox, Chat!AnswerTaken, Chat!AnswerFails, Chat!PermissionResolved, Chat!Answer
<1>2. ChatAssumed' /\ TurnIs' /\ Spoken' /\ Recorded' /\ Separate' /\ KeysAreOurs'
  <2>1. UNCHANGED <<turn, closed, Chat!text, Chat!dialogue, Chat!record, sent, session, chat, profile, used, Chat!keys>>
    BY <1>1 DEF Chat!dialogue, Chat!history, Chat!keys
  <2> QED BY <2>1, AssumedStays, TurnStays, SpokenStays, RecordedStays, SeparateStays, KeysStay DEF ChatInv
<1>3. cards \subseteq CardRecord /\ (\A c \in cards : c.open \/ c.answer # None) /\ (turn = None => \A c \in cards : ~c.open)
  BY DEF ChatInv, Carded, Chat!NoCardOutlivesItsTurn
<1>4. ASSUME NEW new \in CardRecord, new.open \/ new.answer # None, turn # None \/ ~new.open,
             cards' \subseteq cards \cup {new}
      PROVE  Carded'
  BY <1>1, <1>3, <1>4 DEF Carded, Chat!NoCardOutlivesItsTurn
<1>5. ASSUME cards' \subseteq cards PROVE Carded' BY <1>1, <1>3, <1>5 DEF Carded, Chat!NoCardOutlivesItsTurn
<1>6. ASSUME NEW scope \in Scope, Chat!PermissionRequest(scope) PROVE Carded'
  <2> DEFINE new == [scope |-> scope, open |-> TRUE, answer |-> None]
  <2>1. new \in CardRecord /\ new.open BY DEF CardRecord
  <2>2. turn # None /\ cards' \subseteq cards \cup {new} BY <1>6 DEF Chat!PermissionRequest, Chat!Streaming
  <2> HIDE DEF new
  <2> QED BY <1>4, <2>1, <2>2
<1>7. ASSUME NEW c \in cards, Chat!AnswerFails(c) PROVE Carded'
  <2> DEFINE new == [c EXCEPT !.answer = None]
  <2>1. new \in CardRecord /\ new.open = c.open BY <1>3, Changed
  <2>2. c.open => cards' \subseteq cards \cup {new} BY <1>7 DEF Chat!AnswerFails
  <2>3. ~c.open => cards' \subseteq cards BY <1>7 DEF Chat!AnswerFails
  <2> HIDE DEF new
  <2> QED BY <1>3, <1>4, <1>5, <2>1, <2>2, <2>3
<1>8. ASSUME NEW c \in cards, Chat!PermissionResolved(c) PROVE Carded'
  <2> DEFINE new == [c EXCEPT !.open = FALSE]
  <2>1. new \in CardRecord /\ ~new.open /\ new.answer = c.answer BY <1>3, Changed
  <2>2. c.answer # None => cards' \subseteq cards \cup {new} BY <1>8 DEF Chat!PermissionResolved
  <2>3. c.answer = None => cards' \subseteq cards BY <1>8 DEF Chat!PermissionResolved
  <2> HIDE DEF new
  <2> QED BY <1>3, <1>4, <1>5, <2>1, <2>2, <2>3
<1>9. ASSUME NEW c \in cards, NEW granted \in {"yes", "no"}, Chat!Answer(c, granted) PROVE Carded'
  <2> DEFINE new == [c EXCEPT !.answer = granted]
  <2>1. new \in CardRecord /\ new.open = c.open BY <1>3, Changed
  <2>2. c.open /\ cards' \subseteq cards \cup {new} BY <1>9 DEF Chat!Answer
  <2> HIDE DEF new
  <2> QED BY <1>3, <1>4, <2>1, <2>2
<1>10. ASSUME NEW c \in cards, Chat!AnswerTaken(c) PROVE Carded' BY <1>5, <1>10 DEF Chat!AnswerTaken
<1>11. ASSUME NEW scope \in Scope, Chat!ShareBox(scope) PROVE Carded' BY <1>5, <1>11 DEF Chat!ShareBox
<1> QED BY <1>2, <1>6, <1>7, <1>8, <1>9, <1>10, <1>11 DEF ChatInv

-----------------------------------------------------------------------------
(* The records *)

\* One record a chat, and not too many.
RecordsFit(records) ==
    /\ records \in Seq(Record) /\ Len(records) <= ChatLimit
    /\ \A r, q \in ToSet(records) : r.chat = q.chat => r = q

\* A transcript is written before the others.
LEMMA WriteKeeps ==
    ASSUME ChatAssumed, RecordsFit(saved), NEW messages \in Seq(Seq(Nat)), chat \in Nat,
           Chat!Write(<<[chat |-> chat, messages |-> messages]>> \o Chat!Others(chat))
    PROVE  /\ RecordsFit(saved') /\ dropped \subseteq dropped'
           /\ [chat |-> chat, messages |-> messages] \in ToSet(saved')
           /\ \A r \in ToSet(saved) : r.chat # chat => r \in ToSet(saved') \/ r.chat \in dropped'
<1> DEFINE new == [chat |-> chat, messages |-> messages]
           others == Chat!Others(chat)
           all == <<new>> \o others
<1>1. new \in Record /\ new.chat = chat BY DEF Record
<1>2. others \in Seq(Record) /\ ToSet(others) = {r \in ToSet(saved) : r.chat # chat}
  <2> DEFINE S == {r \in ToSet(saved) : r.chat # chat}
  <2>1. others = Keep(saved, S) BY ChatLists DEF Chat!Others
  <2>2. saved \in Seq(Record) BY DEF RecordsFit
  <2>3. ToSet(saved) \cap S = S OBVIOUS
  <2> HIDE DEF S, others
  <2>4. others \in Seq(Record) /\ ToSet(others) = S BY <2>1, <2>2, <2>3, KeepIs
  <2> QED BY <2>4 DEF S
<1> HIDE DEF new, others
<1>3. <<new>> \in Seq(Record) /\ ToSet(<<new>>) = {new} /\ Len(<<new>>) = 1 /\ <<new>>[1] = new BY <1>1 DEF ToSet
<1>4. all \in Seq(Record) /\ ToSet(all) = {new} \cup ToSet(others)
  <2> DEFINE one == <<new>>
  <2>1. one \in Seq(Record) /\ ToSet(one) = {new} BY <1>3
  <2> HIDE DEF one
  <2>2. one \o others \in Seq(Record) /\ ToSet(one \o others) = ToSet(one) \cup ToSet(others) BY <1>2, <2>1, Joined
  <2> QED BY <2>1, <2>2 DEF one
<1>5. Len(all) \in Nat /\ Len(all) >= 1 /\ all[1] = new
  <2>1. Len(others) \in Nat BY <1>2, ElementOfSeq
  <2> QED BY <1>2, <1>3, <2>1, ConcatProperties
<1>6. PICK room \in 1..ChatLimit : saved' = SubSeq(all, 1, IF Len(all) < room THEN Len(all) ELSE room)
  BY DEF Chat!Write, new, others
<1>7. dropped' = dropped \cup (Chat!Chats(all) \ Chat!Chats(saved')) BY DEF Chat!Write, new, others
<1> HIDE DEF all
<1> DEFINE n == IF Len(all) < room THEN Len(all) ELSE room
<1>8. n \in 0..Len(all) /\ n # 0 /\ n <= ChatLimit BY <1>5 DEF ChatAssumed
<1>9. saved' = SubSeq(all, 1, n) BY <1>6
<1> HIDE DEF n
<1>10. saved' \in Seq(Record) /\ Len(saved') = n /\ ToSet(saved') \subseteq ToSet(all) /\ new \in ToSet(saved')
  BY <1>4, <1>5, <1>8, <1>9, First
<1>11. \A r, q \in ToSet(saved') : r.chat = q.chat => r = q
  BY <1>1, <1>2, <1>4, <1>10 DEF RecordsFit
<1>12. RecordsFit(saved') BY <1>8, <1>10, <1>11 DEF RecordsFit
<1>13. ASSUME NEW r \in ToSet(saved), r.chat # chat PROVE r \in ToSet(saved') \/ r.chat \in dropped'
  <2>1. r \in ToSet(all) BY <1>2, <1>4, <1>13
  <2>2. CASE r.chat \in Chat!Chats(saved')
    <3>1. PICK q \in ToSet(saved') : q.chat = r.chat BY <2>2, ChatLists DEF Chat!Chats
    <3>2. q \in ToSet(saved) BY <1>1, <1>2, <1>4, <1>10, <1>13, <3>1
    <3>3. q = r BY <3>1, <3>2 DEF RecordsFit
    <3> QED BY <3>1, <3>3
  <2>3. CASE r.chat \notin Chat!Chats(saved') BY <1>7, <2>1, <2>3, ChatLists DEF Chat!Chats
  <2> QED BY <2>2, <2>3
<1> QED BY <1>7, <1>10, <1>12, <1>13 DEF new

\* Whatever is persisted, what was kept stays so, and the transcript is kept if there is one.
LEMMA PersistKeeps ==
    ASSUME ChatInv, NEW messages \in Seq(Seq(Nat)), Chat!Persist(messages),
           \A s \in sent : s.chat = chat => s.message \in ToSet(messages)
    PROVE  /\ RecordsFit(saved')
           /\ \A s \in sent : (s.chat = chat \/ KeptIn(s, dropped, saved)) => KeptIn(s, dropped', saved')
           /\ messages # <<>> => chat \in dropped' \/ \E r \in ToSet(saved') : r.chat = chat /\ r.messages = messages
<1>1. RecordsFit(saved) /\ chat \in Nat /\ ChatAssumed BY DEF ChatInv, Recorded, RecordsFit
<1>2. CASE messages \in {<<>>, signature}
  <2>1. UNCHANGED <<saved, dropped>> BY <1>2 DEF Chat!Persist
  <2>2. messages # <<>> => chat \in dropped \/ \E r \in ToSet(saved) : r.chat = chat /\ r.messages = messages
    BY <1>2 DEF ChatInv, Recorded
  <2>3. ASSUME NEW s \in sent, s.chat = chat PROVE KeptIn(s, dropped, saved)
    <3>1. s.message \in ToSet(messages) BY <2>3
    <3>2. messages # <<>> BY <3>1 DEF ToSet
    <3> QED BY <2>2, <2>3, <3>1, <3>2 DEF KeptIn
  <2> QED BY <1>1, <2>1, <2>2, <2>3
<1>3. CASE messages \notin {<<>>, signature}
  <2> DEFINE new == [chat |-> chat, messages |-> messages]
  <2>1. Chat!Write(<<new>> \o Chat!Others(chat)) BY <1>3 DEF Chat!Persist
  <2>2. /\ RecordsFit(saved') /\ dropped \subseteq dropped' /\ new \in ToSet(saved')
        /\ \A r \in ToSet(saved) : r.chat # chat => r \in ToSet(saved') \/ r.chat \in dropped'
    BY <1>1, <2>1, WriteKeeps
  <2>3. new.chat = chat /\ new.messages = messages OBVIOUS
  <2> HIDE DEF new
  <2>4. ASSUME NEW s \in sent, s.chat = chat \/ KeptIn(s, dropped, saved) PROVE KeptIn(s, dropped', saved')
    <3>1. CASE s.chat = chat BY <2>2, <2>3, <3>1 DEF KeptIn
    <3>2. CASE s.chat # chat BY <2>2, <2>4, <3>2 DEF KeptIn
    <3> QED BY <3>1, <3>2
  <2> QED BY <2>2, <2>3, <2>4
<1> QED BY <1>2, <1>3

LEMMA ChatDeleteStep == ASSUME ChatInv, NEW key \in 1..MaxSessions, Chat!DeleteChat(key) PROVE ChatInv'
<1>1. /\ saved' = Chat!Others(key) /\ dropped' = dropped \cup {key}
      /\ UNCHANGED <<signature, Chat!text, Chat!keys, turn, Chat!permissions, Chat!dialogue, closed, Chat!history>>
  BY DEF Chat!DeleteChat
<1>2. ChatAssumed' /\ TurnIs' /\ Spoken' /\ Separate' /\ KeysAreOurs' /\ Carded'
  <2>1. UNCHANGED <<turn, closed, Chat!text, sent, session, chat, profile, used, Chat!keys, cards>>
    BY <1>1 DEF Chat!dialogue, Chat!history, Chat!keys, Chat!permissions
  <2> QED BY <2>1, AssumedStays, TurnStays, SpokenStays, SeparateStays, KeysStay, CardsStay DEF ChatInv
<1> DEFINE S == {r \in ToSet(saved) : r.chat # key}
<1>3. saved \in Seq(Record) /\ Len(saved) <= ChatLimit /\ Len(saved) \in Nat /\ ChatLimit \in Nat
  BY ElementOfSeq DEF ChatInv, Recorded, ChatAssumed
<1>4. saved' = Keep(saved, S) /\ ToSet(saved) \cap S = S BY <1>1, ChatLists DEF Chat!Others
<1> HIDE DEF S
<1>5. saved' \in Seq(Record) /\ ToSet(saved') = S /\ Len(saved') <= Len(saved) BY <1>3, <1>4, KeepIs
<1>6. Len(saved') \in Nat /\ Len(saved') <= ChatLimit BY <1>3, <1>5, ElementOfSeq
<1>7. \A s : KeptIn(s, dropped, saved) => KeptIn(s, dropped', saved') BY <1>1, <1>5 DEF KeptIn, S
<1>8. UNCHANGED <<signature, conversation, chat, sent, turn, closed>> BY <1>1 DEF Chat!dialogue, Chat!history
<1>9. Recorded'
  <2>1. \A r, q \in ToSet(saved') : r.chat = q.chat => r = q BY <1>5 DEF ChatInv, Recorded, S
  <2>2. signature # <<>> => chat \in dropped' \/ \E r \in ToSet(saved') : r.chat = chat /\ r.messages = signature
    BY <1>1, <1>5 DEF ChatInv, Recorded, S
  <2>3. \A s \in sent : /\ s.chat \in 1..chat
                        /\ s.chat = chat /\ ~closed => s.message \in ToSet(conversation)
                        /\ s.chat # chat \/ turn = None => KeptIn(s, dropped', saved')
    BY <1>7 DEF ChatInv, Recorded
  <2>4. signature' = signature BY <1>1
  <2>5. /\ chat \in Nat \ {0} /\ {conversation, signature} \subseteq Seq(Seq(Nat))
        /\ turn = None /\ ~closed => signature = conversation
    BY DEF ChatInv, Recorded
  <2> QED BY <1>5, <1>6, <1>8, <2>1, <2>2, <2>3, <2>4, <2>5 DEF Recorded
<1> QED BY <1>2, <1>9 DEF ChatInv

LEMMA NewChatStep == ASSUME ChatInv, Chat!NewChat PROVE ChatInv'
<1>1. /\ turn = None /\ ~closed /\ Chat!Persist(conversation) /\ signature' = <<>> /\ conversation' = <<>>
      /\ chat' = chat + 1 /\ session' = session + 1 /\ composer' = <<>>
      /\ UNCHANGED <<words, Chat!dictation, Chat!keys, turn, Chat!permissions, closed, Chat!history>>
  BY DEF Chat!NewChat, Chat!Idle
<1>2. UNCHANGED <<turn, closed, words, accepting, speech, base, heard, sent, used, profile, Chat!keys, cards>>
  BY <1>1 DEF Chat!dictation, Chat!history, Chat!keys, Chat!permissions
<1>3. ChatAssumed' /\ TurnIs' /\ KeysAreOurs' /\ Carded'
  BY <1>2, AssumedStays, TurnStays, KeysStay, CardsStay DEF ChatInv
<1>4. Spoken'
  <2>1. ToSet(<<>>) = {} /\ <<>> \in Seq(Nat) BY DEF ToSet
  <2> QED BY <1>1, <1>2, <2>1 DEF ChatInv, Spoken
<1>5. Separate' BY <1>1, <1>2 DEF ChatInv, Separate, Chat!SessionsAreNotMixed
<1>6. Recorded'
  <2>1. conversation \in Seq(Seq(Nat)) /\ \A s \in sent : s.chat = chat => s.message \in ToSet(conversation)
    BY <1>1 DEF ChatInv, Recorded
  <2>2. /\ RecordsFit(saved')
        /\ \A s \in sent : (s.chat = chat \/ KeptIn(s, dropped, saved)) => KeptIn(s, dropped', saved')
    BY <1>1, <2>1, PersistKeeps
  <2>3. \A s \in sent : s.chat \in 1..chat /\ (s.chat # chat => KeptIn(s, dropped, saved)) BY DEF ChatInv, Recorded
  <2>4. chat \in Nat \ {0} /\ chat + 1 \in Nat \ {0} /\ <<>> \in Seq(Seq(Nat)) BY DEF ChatInv, Recorded
  <2>5. \A s \in sent : s.chat \in 1..(chat + 1) /\ s.chat # chat + 1 BY <2>3, <2>4
  <2> QED BY <1>1, <1>2, <2>2, <2>3, <2>4, <2>5 DEF Recorded, RecordsFit
<1> QED BY <1>3, <1>4, <1>5, <1>6 DEF ChatInv

-----------------------------------------------------------------------------
(* A turn *)

LEMMA TypeKeyStep == ASSUME ChatInv, Chat!TypeKey PROVE ChatInv'
<1>1. /\ UNCHANGED <<handle, handleOf, made, held, strays, profile, closed>>
      /\ UNCHANGED <<Chat!text, turn, Chat!permissions, Chat!dialogue, Chat!record, Chat!history>>
  BY DEF Chat!TypeKey
<1>2. UNCHANGED <<turn, closed, Chat!text, Chat!dialogue, Chat!record, sent, session, chat, profile, used, cards>>
  BY <1>1 DEF Chat!dialogue, Chat!history, Chat!permissions
<1>3. KeysAreOurs' BY <1>1, OurKeysStay DEF ChatInv
<1> QED BY <1>2, <1>3, AssumedStays, TurnStays, SpokenStays, RecordedStays, SeparateStays, CardsStay DEF ChatInv

\* The tab has no key any more, having asked for the removal of the one it had.
LEMMA KeysDiscarded ==
    ASSUME ChatAssumed, KeysAreOurs, handle' = None, strays' = strays \cup Chat!TakenBack(handle),
           UNCHANGED <<made, held>>
    PROVE  KeysAreOurs'
<1>1. /\ strays' \subseteq [key : 1..made, asked : BOOLEAN]
      /\ \A k \in held : \E s \in strays' : s.key = k
      /\ \A s \in strays' : s.key \in 1..made
  BY TakenBackIs DEF KeysAreOurs
<1>2. \A s \in strays' : s.key # handle' BY <1>1 DEF ChatAssumed, KeysAreOurs
<1> QED BY <1>1, <1>2 DEF KeysAreOurs, Chat!KeysAreTakenBack

\* A request for a key that fails may leave a key that the tab is never told of: the tab
\* keeps the key it has, or has none and asks for the removal of the one it had.
LEMMA KeysAborted ==
    ASSUME ChatAssumed, KeysAreOurs,
           \/ Chat!AbortKey({}) /\ UNCHANGED <<handle, handleOf, profile, closed>>
           \/ Chat!AbortKey(Chat!TakenBack(handle)) /\ handle' = None
    PROVE  KeysAreOurs'
<1> DEFINE one == [key |-> made', asked |-> FALSE]
<1>1. PICK more \in {{}, Chat!TakenBack(handle)} :
        /\ Chat!AbortKey(more)
        /\ \/ more = {} /\ UNCHANGED <<handle, handleOf, profile, closed>>
           \/ more = Chat!TakenBack(handle) /\ handle' = None
  OBVIOUS
<1>2. /\ strays \cup more \subseteq [key : 1..made, asked : BOOLEAN]
      /\ \A k \in held : k = handle' \/ \E s \in strays \cup more : s.key = k
      /\ \A s \in strays \cup more : s.key # handle'
      /\ handle' = None \/ handle' \in 1..made
  <2>1. CASE more = {} /\ UNCHANGED handle
    <3>1. strays \cup more = strays BY <2>1
    <3> QED BY <2>1, <3>1 DEF KeysAreOurs, Chat!KeysAreTakenBack
  <2>2. CASE handle' = None /\ more = Chat!TakenBack(handle)
    BY <2>2, TakenBackIs DEF ChatAssumed, KeysAreOurs
  <2> QED BY <1>1, <2>1, <2>2
<1>3. handle' # None => handleOf' = profile' /\ ~closed'
  BY <1>1 DEF KeysAreOurs, Chat!KeysAreTakenBack
<1>4. CASE strays' = strays \cup more /\ UNCHANGED <<made, held>>
  BY <1>2, <1>3, <1>4 DEF KeysAreOurs, Chat!KeysAreTakenBack
<1>5. CASE made' = made + 1 /\ held' = held \cup {made'} /\ strays' = strays \cup more \cup {one}
  <2>1. made \in Nat /\ made' \in Nat /\ 1..made \subseteq 1..made' /\ made' \in 1..made' /\ made' \notin 1..made
    BY <1>5 DEF KeysAreOurs
  <2>2. one \in [key : 1..made', asked : BOOLEAN] /\ one.key = made' BY <2>1
  <2> HIDE DEF one
  <2>3. strays' \subseteq [key : 1..made', asked : BOOLEAN] BY <1>2, <1>5, <2>1, <2>2
  <2>4. held' \subseteq 1..made' /\ held' \subseteq {handle'} \cup {s.key : s \in strays'}
    BY <1>2, <1>5, <2>1, <2>2 DEF KeysAreOurs
  <2>5. \A s \in strays' : s.key # handle'
    <3>1. one.key # handle' BY <1>2, <2>1, <2>2 DEF ChatAssumed
    <3> QED BY <1>2, <1>5, <3>1
  <2>6. handle' = None \/ handle' \in 1..made' BY <1>2, <2>1
  <2> QED BY <1>3, <2>1, <2>3, <2>4, <2>5, <2>6 DEF KeysAreOurs, Chat!KeysAreTakenBack
<1> QED BY <1>1, <1>4, <1>5 DEF Chat!AbortKey

\* A removal arrives or fails, or a key runs out of time: none is forgotten by it.
LEMMA RemovalStep ==
    ASSUME ChatInv,
           \/ \E stray \in strays : Chat!RemovalArrives(stray) \/ Chat!RemovalFails(stray)
           \/ \E key \in held : Chat!KeyExpires(key)
    PROVE  ChatInv'
<1>1. /\ UNCHANGED <<Chat!text, profile, keyField, handle, handleOf, made>>
      /\ UNCHANGED <<turn, Chat!permissions, Chat!dialogue, Chat!record, closed, Chat!history>>
  BY DEF Chat!RemovalArrives, Chat!RemovalFails, Chat!KeyExpires
<1>2. UNCHANGED <<turn, closed, Chat!text, Chat!dialogue, Chat!record, sent, session, chat, profile, used, cards>>
  BY <1>1 DEF Chat!dialogue, Chat!history, Chat!permissions
<1> DEFINE NoneForgotten == /\ strays' \subseteq [key : 1..made, asked : BOOLEAN] /\ held' \subseteq held
                            /\ \A k \in held' : k = handle \/ \E s \in strays' : s.key = k
                            /\ \A s \in strays' : s.key # handle
<1>3. NoneForgotten
  <2>0. /\ strays \subseteq [key : 1..made, asked : BOOLEAN] /\ held \subseteq 1..made
        /\ \A k \in held : k = handle \/ \E s \in strays : s.key = k
        /\ \A s \in strays : s.key # handle
    BY DEF ChatInv, KeysAreOurs, Chat!KeysAreTakenBack
  <2>1. ASSUME NEW stray \in strays, Chat!RemovalArrives(stray) PROVE NoneForgotten
    <3>1. held' = held \ {stray.key} /\ strays' = strays \ {stray} BY <2>1 DEF Chat!RemovalArrives
    <3> QED BY <2>0, <3>1
  <2>2. ASSUME NEW stray \in strays, Chat!RemovalFails(stray) PROVE NoneForgotten
    <3> DEFINE failed == [stray EXCEPT !.asked = FALSE]
    <3>1. /\ strays' = (strays \ {stray}) \cup {failed} /\ UNCHANGED held
      BY <2>2 DEF Chat!RemovalFails
    <3>2. failed \in [key : 1..made, asked : BOOLEAN] /\ failed.key = stray.key BY <2>0
    <3> HIDE DEF failed
    <3> QED BY <2>0, <3>1, <3>2
  <2>3. ASSUME NEW key \in held, Chat!KeyExpires(key) PROVE NoneForgotten
    <3>1. held' = held \ {key} /\ strays' = {s \in strays : s.key # key}
      BY <2>3 DEF Chat!KeyExpires
    <3> QED BY <2>0, <3>1
  <2> QED BY <2>1, <2>2, <2>3
<1>4. KeysAreOurs' BY <1>1, <1>3 DEF ChatInv, KeysAreOurs, Chat!KeysAreTakenBack
<1> QED BY <1>2, <1>4, AssumedStays, TurnStays, SpokenStays, RecordedStays, SeparateStays, CardsStay DEF ChatInv

LEMMA ChooseStep == ASSUME ChatInv, NEW p \in Profile, Chat!ChooseProfile(p) PROVE ChatInv'
<1>1. /\ turn = None /\ ~closed /\ profile' = p /\ session' = session + 1 /\ handle' = None /\ handleOf' = None
      /\ strays' = strays \cup Chat!TakenBack(handle) /\ UNCHANGED <<made, held>>
      /\ UNCHANGED <<Chat!text, turn, Chat!permissions, conversation, chat, Chat!record, closed, Chat!history>>
  BY DEF Chat!ChooseProfile, Chat!Idle, Chat!DiscardCredential
<1>2. UNCHANGED <<turn, closed, Chat!text, Chat!record, sent, cards, used, conversation, chat>>
  BY <1>1 DEF Chat!history, Chat!permissions
<1>3. KeysAreOurs' BY <1>1, KeysDiscarded DEF ChatInv
<1>4. Separate' BY <1>1, <1>2 DEF ChatInv, Separate, Chat!SessionsAreNotMixed
<1>5. Recorded' BY <1>2 DEF ChatInv, Recorded, Chat!record, KeptIn
<1> QED BY <1>2, <1>3, <1>4, <1>5, AssumedStays, TurnStays, SpokenStays, CardsStay DEF ChatInv

\* A message goes out: it is no longer in the composer, and in the transcript.
LEMMA DispatchIsGood ==
    ASSUME ChatInv, NEW message \in Seq(Nat), ToSet(message) \subseteq 1..words, Chat!Dispatch(message), ~closed,
           UNCHANGED <<words, chat, session, profile, Chat!record, closed, cards>>,
           ~accepting', accepting' \in BOOLEAN, speech' \in {"off", "starting", "on", "ending"}, UNCHANGED <<base, heard>>
    PROVE  TurnIs' /\ Spoken' /\ Recorded' /\ Separate' /\ Carded'
<1> DEFINE now == [at |-> "stream", message |-> message, answered |-> FALSE]
           one == [chat |-> chat, message |-> message]
           use == [session |-> session, profile |-> profile, chat |-> chat]
<1>1. /\ composer' = <<>> /\ conversation' = Append(conversation, message) /\ turn' = now
      /\ sent' = sent \cup {one} /\ used' = used \cup {use}
  BY DEF Chat!Dispatch
<1>8. /\ now \in Turn /\ now.message = message /\ one.chat = chat /\ one.message = message
      /\ use.session = session /\ use.profile = profile /\ use.chat = chat
  BY DEF Turn
<1>9. use \in [session : Nat, profile : Profile, chat : Nat] BY DEF ChatInv, Separate, Recorded
<1> HIDE DEF now, one
<1>2. /\ now \in Turn /\ now # None /\ now.message = message /\ one.chat = chat /\ one.message = message
      /\ use \in [session : Nat, profile : Profile, chat : Nat]
      /\ use.session = session /\ use.profile = profile /\ use.chat = chat
  BY <1>8, <1>9 DEF ChatInv, ChatAssumed
<1>3. TurnIs' BY <1>1, <1>2 DEF ChatInv, TurnIs
<1>4. Carded' BY <1>1, <1>2, CardsStay DEF ChatInv
<1>5. Spoken'
  <2>1. ToSet(<<>>) = {} /\ <<>> \in Seq(Nat) BY DEF ToSet
  <2> QED BY <1>1, <1>2, <2>1 DEF ChatInv, Spoken
<1>6. Separate'
  <2>1. \A u \in used : u.session = session => u = use
    <3> SUFFICES ASSUME NEW u \in used, u.session = session PROVE u = use OBVIOUS
    <3>1. u \in [session : Nat, profile : Profile, chat : Nat] /\ u.profile = profile /\ u.chat = chat
      BY DEF ChatInv, Separate
    <3> QED BY <3>1
  <2>2. session \in Nat BY DEF ChatInv, Separate
  <2> HIDE DEF use
  <2>3. \A u, v \in used' : u.session = v.session => u = v
    BY <1>1, <1>2, <2>1 DEF ChatInv, Separate, Chat!SessionsAreNotMixed
  <2>4. Chat!SessionsAreNotMixed' BY <2>3 DEF Chat!SessionsAreNotMixed
  <2>5. \A u \in used' : u.session <= session /\ (u.session = session => u.profile = profile /\ u.chat = chat)
    BY <1>1, <1>2, <2>2 DEF ChatInv, Separate
  <2>6. used' \subseteq [session : Nat, profile : Profile, chat : Nat] BY <1>1, <1>2 DEF ChatInv, Separate
  <2> QED BY <2>2, <2>4, <2>5, <2>6 DEF ChatInv, Separate
<1>7. Recorded'
  <2>1. conversation \in Seq(Seq(Nat)) /\ chat \in Nat \ {0} BY DEF ChatInv, Recorded
  <2>2. conversation' \in Seq(Seq(Nat)) /\ ToSet(conversation') = ToSet(conversation) \cup {message}
    BY <1>1, <2>1, Elements
  <2>3. turn' # None BY <1>1, <1>2
  <2>4. \A s \in sent' : /\ s.chat \in 1..chat
                         /\ s.chat = chat => s.message \in ToSet(conversation')
                         /\ s.chat # chat => KeptIn(s, dropped, saved)
    BY <1>1, <1>2, <2>1, <2>2 DEF ChatInv, Recorded
  <2>5. UNCHANGED <<signature, saved, dropped>> BY DEF Chat!record
  <2>6. /\ signature \in Seq(Seq(Nat)) /\ saved \in Seq(Record) /\ Len(saved) <= ChatLimit
        /\ \A r, q \in ToSet(saved) : r.chat = q.chat => r = q
        /\ signature # <<>> => chat \in dropped \/ \E r \in ToSet(saved) : r.chat = chat /\ r.messages = signature
    BY DEF ChatInv, Recorded
  <2> QED BY <2>1, <2>2, <2>3, <2>4, <2>5, <2>6 DEF Recorded
<1> QED BY <1>3, <1>4, <1>5, <1>6, <1>7

LEMMA SendStep == ASSUME ChatInv, Chat!Send PROVE ChatInv'
<1>1. /\ ~closed /\ accepting' = (accepting /\ ~TRUE) /\ speech' = IF speech = "off" THEN "off" ELSE "ending"
      /\ UNCHANGED <<handle, handleOf, made, held, strays, profile, closed>>
      /\ UNCHANGED <<base, heard, words, Chat!permissions, chat, session, Chat!record>>
  BY DEF Chat!Send, Chat!StopDictation
<1>2. ~accepting' /\ accepting' \in BOOLEAN /\ speech' \in {"off", "ending"} BY <1>1
<1>3. KeysAreOurs' BY <1>1, OurKeysStay DEF ChatInv
<1>4. ChatAssumed' BY AssumedStays DEF ChatInv
<1>5. UNCHANGED <<words, chat, session, profile, Chat!record, closed, cards, base, heard, signature, saved, dropped>>
  BY <1>1 DEF Chat!permissions, Chat!record
<1>6. CASE turn # None \/ composer = <<>> \/ ~Chat!HasRequiredCredential
  <2>1. UNCHANGED <<composer, conversation, turn, sent, used>> BY <1>6 DEF Chat!Send, Chat!history
  <2>2. Spoken' BY <1>2, <1>5, <2>1 DEF ChatInv, Spoken
  <2>3. UNCHANGED <<Chat!dialogue, Chat!record, turn, closed, sent>> BY <1>5, <2>1 DEF Chat!dialogue
  <2> QED BY <1>3, <1>4, <1>5, <2>1, <2>2, <2>3, TurnStays, RecordedStays, SeparateStays, CardsStay DEF ChatInv
<1>7. CASE ~(turn # None \/ composer = <<>> \/ ~Chat!HasRequiredCredential) /\ keyField
  <2> DEFINE now == [at |-> "key", message |-> composer, answered |-> FALSE]
  <2>1. turn' = now /\ UNCHANGED <<composer, conversation, sent, used>> BY <1>7 DEF Chat!Send, Chat!history
  <2>2. composer \in Seq(Nat) /\ ToSet(composer) \subseteq 1..words BY DEF ChatInv, Spoken
  <2>8. now \in Turn /\ now.message = composer BY <2>2 DEF Turn
  <2> HIDE DEF now
  <2>3. now \in Turn /\ now # None /\ now.message = composer BY <2>8 DEF ChatInv, ChatAssumed
  <2>4. TurnIs' BY <1>1, <2>1, <2>3 DEF ChatInv, TurnIs
  <2>5. Spoken' BY <1>2, <1>5, <2>1, <2>2, <2>3 DEF ChatInv, Spoken
  <2>6. Recorded' BY <1>5, <2>1, <2>3 DEF ChatInv, Recorded, KeptIn
  <2> QED BY <1>3, <1>4, <1>5, <2>1, <2>3, <2>4, <2>5, <2>6, SeparateStays, CardsStay DEF ChatInv
<1>8. CASE ~(turn # None \/ composer = <<>> \/ ~Chat!HasRequiredCredential) /\ ~keyField
  <2>1. Chat!Dispatch(composer) BY <1>8 DEF Chat!Send
  <2>2. composer \in Seq(Nat) /\ ToSet(composer) \subseteq 1..words BY DEF ChatInv, Spoken
  <2>3. TurnIs' /\ Spoken' /\ Recorded' /\ Separate' /\ Carded'
    BY <1>1, <1>2, <1>5, <2>1, <2>2, DispatchIsGood
  <2> QED BY <1>3, <1>4, <2>3 DEF ChatInv
<1> QED BY <1>6, <1>7, <1>8

LEMMA KeyStoredStep == ASSUME ChatInv, Chat!KeyStored PROVE ChatInv'
<1>1. /\ turn # None /\ made' = made + 1 /\ handle' = made' /\ handleOf' = profile
      /\ held' = held \cup {made'} /\ strays' = strays \cup Chat!TakenBack(handle)
      /\ Chat!Dispatch(turn.message)
      /\ UNCHANGED <<words, speech, accepting, base, heard, profile, chat, session, Chat!record, closed, cards>>
  BY DEF Chat!KeyStored, Chat!dictation, Chat!permissions
<1>2. /\ turn.message \in Seq(Nat) /\ ToSet(turn.message) \subseteq 1..words /\ ~closed /\ ~accepting
      /\ accepting \in BOOLEAN /\ speech \in {"off", "starting", "on", "ending"}
  BY <1>1 DEF ChatInv, TurnIs, Spoken, Turn
<1>3. KeysAreOurs'
  <2>1. made \in Nat /\ made' \in Nat /\ 1..made \subseteq 1..made' /\ made' \in 1..made' /\ made' \notin 1..made
    BY <1>1 DEF ChatInv, KeysAreOurs
  <2>2. strays' \subseteq [key : 1..made', asked : BOOLEAN] /\ \A s \in strays' : s.key # handle'
    BY <1>1, <2>1, TakenBackIs DEF ChatInv, KeysAreOurs
  <2>3. held' \subseteq 1..made' /\ held' \subseteq {handle'} \cup {s.key : s \in strays'}
    BY <1>1, <2>1, TakenBackIs DEF ChatInv, KeysAreOurs
  <2> QED BY <1>1, <1>2, <2>1, <2>2, <2>3 DEF KeysAreOurs, Chat!KeysAreTakenBack
<1>4. TurnIs' /\ Spoken' /\ Recorded' /\ Separate' /\ Carded' BY <1>1, <1>2, DispatchIsGood
<1> QED BY <1>3, <1>4, AssumedStays DEF ChatInv

LEMMA DeltaStep == ASSUME ChatInv, Chat!Delta PROVE ChatInv'
<1>1. /\ turn # None /\ turn' = [turn EXCEPT !.answered = TRUE]
      /\ UNCHANGED <<Chat!text, Chat!keys, Chat!permissions, Chat!dialogue, Chat!record, closed, Chat!history>>
  BY DEF Chat!Delta, Chat!Streaming
<1>2. turn \in Turn BY <1>1 DEF ChatInv, TurnIs
<1>3. turn' \in Turn /\ turn'.message = turn.message BY <1>1, <1>2 DEF Turn
<1>4. turn' # None BY <1>3 DEF ChatInv, ChatAssumed
<1>5. UNCHANGED <<closed, session, chat, profile, used, sent, Chat!keys, cards, conversation, signature, saved, dropped>>
  BY <1>1 DEF Chat!dialogue, Chat!history, Chat!permissions, Chat!record, Chat!keys
<1>6. TurnIs' BY <1>1, <1>3, <1>4, <1>5 DEF ChatInv, TurnIs
<1>7. Spoken' BY <1>1, <1>3, <1>4, <1>5 DEF ChatInv, Spoken, Chat!text, Chat!dictation
<1>8. Recorded' BY <1>1, <1>4, <1>5 DEF ChatInv, Recorded, KeptIn
<1> QED BY <1>4, <1>5, <1>6, <1>7, <1>8, AssumedStays, SeparateStays, KeysStay, CardsStay DEF ChatInv

\* A turn is over: its transcript is kept, and no card waits.
LEMMA ChatEndIsGood ==
    ASSUME ChatInv, turn # None, NEW answer \in Seq(Nat),
           NEW messages \in {conversation, Append(conversation, answer)}, Chat!Finally(messages),
           UNCHANGED <<Chat!text, profile, chat, session, closed, Chat!history>>, KeysAreOurs'
    PROVE  ChatInv'
<1>1. /\ turn' = None /\ conversation' = messages /\ cards' = Chat!Unsettled /\ Chat!Persist(messages) /\ signature' = messages
      /\ UNCHANGED <<sent, used, closed, chat, session, profile>>
  BY DEF Chat!Finally, Chat!history
<1>2. ~closed /\ conversation \in Seq(Seq(Nat)) /\ chat \in Nat \ {0} BY DEF ChatInv, TurnIs, Recorded
<1>3. messages \in Seq(Seq(Nat)) /\ ToSet(conversation) \subseteq ToSet(messages)
  <2>1. /\ Append(conversation, answer) \in Seq(Seq(Nat))
        /\ ToSet(Append(conversation, answer)) = ToSet(conversation) \cup {answer}
    BY <1>2, Elements
  <2> QED BY <1>2, <2>1
<1>4. TurnIs' BY <1>1, <1>2 DEF ChatInv, TurnIs
<1>5. Spoken' BY <1>1 DEF ChatInv, Spoken, Chat!text, Chat!dictation
<1>6. Separate' BY <1>1, SeparateStays DEF ChatInv
<1>8. Carded' BY <1>1, UnsettledIs DEF ChatInv, Carded, Chat!NoCardOutlivesItsTurn
<1>9. Recorded'
  <2>1. \A s \in sent : s.chat = chat => s.message \in ToSet(messages) BY <1>2, <1>3 DEF ChatInv, Recorded
  <2>2. /\ RecordsFit(saved')
        /\ \A s \in sent : (s.chat = chat \/ KeptIn(s, dropped, saved)) => KeptIn(s, dropped', saved')
        /\ messages # <<>> => chat \in dropped' \/ \E r \in ToSet(saved') : r.chat = chat /\ r.messages = messages
    BY <1>1, <1>3, <2>1, PersistKeeps
  <2>3. \A s \in sent : s.chat \in 1..chat /\ (s.chat # chat => KeptIn(s, dropped, saved)) BY DEF ChatInv, Recorded
  <2> QED BY <1>1, <1>2, <1>3, <2>1, <2>2, <2>3 DEF Recorded, RecordsFit
<1> QED BY <1>4, <1>5, <1>6, <1>8, <1>9, AssumedStays DEF ChatInv

LEMMA EndStep == ASSUME ChatInv, Chat!KeyFails \/ Chat!StreamCompletes \/ Chat!StreamFails \/ Chat!Cancel PROVE ChatInv'
<1>1. turn # None /\ UNCHANGED <<Chat!text, profile, handle, handleOf, chat, session, closed, Chat!history>>
  BY DEF Chat!KeyFails, Chat!StreamCompletes, Chat!StreamFails, Chat!Cancel, Chat!Streaming, Chat!AroundTurn
<1>4. KeysAreOurs'
  <2>1. CASE UNCHANGED <<made, held, strays>>
    BY <1>1, <2>1 DEF ChatInv, KeysAreOurs, Chat!KeysAreTakenBack
  <2>2. CASE Chat!AbortKey({}) BY <1>1, <2>2, KeysAborted DEF ChatInv
  <2> QED BY <2>1, <2>2 DEF Chat!KeyFails, Chat!StreamCompletes, Chat!StreamFails, Chat!Cancel
<1>2. Chat!Finally(conversation) \/ Chat!Finally(Append(conversation, <<0>>))
  BY DEF Chat!KeyFails, Chat!StreamCompletes, Chat!StreamFails, Chat!Cancel
<1>3. <<0>> \in Seq(Nat) OBVIOUS
<1> QED BY <1>1, <1>2, <1>3, <1>4, ChatEndIsGood

LEMMA CloseStep == ASSUME ChatInv, Chat!Close PROVE ChatInv'
<1>1. /\ ~closed /\ closed' = TRUE /\ turn' = None /\ handle' = None
      /\ Chat!AbortKey(Chat!TakenBack(handle))
      /\ accepting' = (accepting /\ ~TRUE) /\ speech' = IF speech = "off" THEN "off" ELSE "ending"
      /\ Chat!Persist(conversation) /\ signature' = IF conversation = <<>> THEN signature ELSE conversation
      /\ conversation' = <<>> /\ cards' = Chat!Unsettled
      /\ UNCHANGED <<base, heard, composer, words, profile, chat, session, sent, used>>
  BY DEF Chat!Close, Chat!StopDictation, Chat!DiscardCredential, Chat!history
<1>2. ~accepting' /\ accepting' \in BOOLEAN /\ speech' \in {"off", "ending"} BY <1>1
<1>3. TurnIs' BY <1>1 DEF TurnIs
<1>4. Spoken' BY <1>1, <1>2 DEF ChatInv, Spoken
<1>5. Separate' BY <1>1, SeparateStays DEF ChatInv
<1>6. KeysAreOurs' BY <1>1, KeysAborted DEF ChatInv
<1>7. Carded' BY <1>1, UnsettledIs DEF ChatInv, Carded, Chat!NoCardOutlivesItsTurn
<1>8. Recorded'
  <2>1. /\ conversation \in Seq(Seq(Nat)) /\ chat \in Nat \ {0} /\ signature \in Seq(Seq(Nat)) /\ <<>> \in Seq(Seq(Nat))
        /\ \A s \in sent : s.chat = chat => s.message \in ToSet(conversation)
    BY <1>1 DEF ChatInv, Recorded
  <2>2. /\ RecordsFit(saved')
        /\ \A s \in sent : (s.chat = chat \/ KeptIn(s, dropped, saved)) => KeptIn(s, dropped', saved')
        /\ conversation # <<>> =>
             chat \in dropped' \/ \E r \in ToSet(saved') : r.chat = chat /\ r.messages = conversation
    BY <1>1, <2>1, PersistKeeps
  <2>3. \A s \in sent : s.chat \in 1..chat /\ (s.chat # chat => KeptIn(s, dropped, saved)) BY DEF ChatInv, Recorded
  <2>4. signature' # <<>> =>
          chat \in dropped' \/ \E r \in ToSet(saved') : r.chat = chat /\ r.messages = signature'
    <3>1. CASE conversation # <<>> BY <1>1, <2>2, <3>1
    <3>2. CASE conversation = <<>>
      <4>1. UNCHANGED <<signature, saved, dropped>> BY <1>1, <3>2 DEF Chat!Persist
      <4> QED BY <4>1 DEF ChatInv, Recorded
    <3> QED BY <3>1, <3>2
  <2>5. signature' \in Seq(Seq(Nat)) BY <1>1, <2>1
  <2> QED BY <1>1, <2>1, <2>2, <2>3, <2>4, <2>5 DEF Recorded, RecordsFit
<1> QED BY <1>3, <1>4, <1>5, <1>6, <1>7, <1>8, AssumedStays DEF ChatInv

-----------------------------------------------------------------------------

LEMMA ChatBegins == ASSUME ChatAssumed, Chat!Init PROVE ChatInv
<1>1. <<>> \in Seq(Nat) /\ ToSet(<<>>) = {} /\ Len(<<>>) = 0 BY DEF ToSet
<1>4. TurnIs /\ Separate /\ KeysAreOurs /\ Carded
  <2>1. turn = None /\ closed = FALSE /\ used = {} /\ cards = {} /\ held = {} /\ strays = {} /\ made = 0
      /\ handle = None /\ session = 1 /\ profile \in Profile
    BY DEF Chat!Init
  <2> QED BY <2>1 DEF TurnIs, Separate, Chat!SessionsAreNotMixed, KeysAreOurs, Chat!KeysAreTakenBack, Carded, Chat!NoCardOutlivesItsTurn
<1>5. Spoken
  <2>1. /\ composer = <<>> /\ words = 0 /\ speech = "off" /\ accepting = FALSE /\ base = <<>> /\ heard = <<>>
        /\ turn = None /\ sent = {} /\ MaxWords \in Nat
    BY DEF Chat!Init, ChatAssumed
  <2>2. ~accepting /\ accepting \in BOOLEAN BY <2>1
  <2>3. 0 \in 0..MaxWords /\ words = 0 BY <2>1
  <2>4. ToSet(composer) \cup ToSet(base) \cup ToSet(heard) \subseteq 1..words BY <1>1, <2>1
  <2>5. {composer, base, heard} \subseteq Seq(Nat) BY <1>1, <2>1
  <2>6. speech = "off" /\ turn = None /\ sent = {} BY <2>1
  <2> QED BY <2>2, <2>3, <2>4, <2>5, <2>6 DEF Spoken
<1>2. TurnIs /\ Spoken /\ Separate /\ KeysAreOurs /\ Carded BY <1>4, <1>5
<1>3. Recorded
  <2>1. conversation \in Seq(Seq(Nat)) /\ chat = 1 /\ signature = conversation /\ sent = {}
    <3>1. chat = 1 /\ signature = conversation /\ sent = {} /\ conversation \in {<<>>, <<<<0>>>>} BY DEF Chat!Init
    <3>2. <<0>> \in Seq(Nat) OBVIOUS
    <3>3. <<<<0>>>> \in Seq(Seq(Nat)) BY <3>2
    <3>4. <<>> \in Seq(Seq(Nat)) OBVIOUS
    <3> QED BY <3>1, <3>3, <3>4
  <2>2. CASE conversation = <<>>
    <3>1. saved = <<>> /\ saved \in Seq(Record) BY <2>2 DEF Chat!Init
    <3> QED BY <1>1, <2>1, <2>2, <3>1 DEF Recorded, ChatAssumed
  <2>3. CASE conversation # <<>>
    <3> DEFINE new == [chat |-> chat, messages |-> conversation]
    <3>1. new \in Record /\ new.chat = chat /\ new.messages = conversation BY <2>1 DEF Record
    <3>2. saved = <<new>> BY <2>3 DEF Chat!Init
    <3> HIDE DEF new
    <3>3. saved \in Seq(Record) /\ Len(saved) = 1 /\ ToSet(saved) = {new} BY <3>1, <3>2 DEF ToSet
    <3> QED BY <2>1, <3>1, <3>3 DEF Recorded, ChatAssumed
  <2> QED BY <2>2, <2>3
<1> QED BY <1>2, <1>3 DEF ChatInv

LEMMA ChatGoesOn == ASSUME ChatInv, [Chat!Next]_(Chat!vars) PROVE ChatInv'
<1>1. CASE UNCHANGED Chat!vars
  <2>1. UNCHANGED <<Chat!text, Chat!keys, turn, Chat!permissions, Chat!dialogue, Chat!record, closed, Chat!history>> BY <1>1 DEF Chat!vars
  <2>2. UNCHANGED <<sent, used, cards, session, chat, profile>> BY <2>1 DEF Chat!history, Chat!permissions, Chat!dialogue, Chat!keys
  <2> QED BY <2>1, <2>2, AssumedStays, TurnStays, SpokenStays, RecordedStays, SeparateStays, KeysStay, CardsStay
      DEF ChatInv
<1>2. CASE Chat!Next
  BY <1>2, ComposerStep, CardsStep, ChatDeleteStep, NewChatStep, TypeKeyStep, ChooseStep, SendStep, KeyStoredStep,
     DeltaStep, EndStep, RemovalStep, CloseStep
  DEF Chat!Next
<1> QED BY <1>1, <1>2

-----------------------------------------------------------------------------
(* ---- The diagram ---- *)

Cards == INSTANCE Diagram WITH
    MaxChanges <- MaxMoves, stored <- cardsStored, changes <- cardsChanges

\* As above, of the diagram.
LEMMA CardsLists ==
    /\ \A s : Cards!ToSet(s) = ToSet(s)
    /\ \A s, S : Cards!Keep(s, S) = Keep(s, S)
    /\ \A s, i : Cards!RemoveAt(s, i) = RemoveAt(s, i)
    /\ \A S : Cards!SetToSeq(S) = SetToSeq(S)
<1>1. \A s : Cards!ToSet(s) = ToSet(s) BY DEF Cards!ToSet, ToSet
<1>2. \A s, S : Cards!Keep(s, S) = Keep(s, S) BY DEF Cards!Keep, Keep
<1>3. \A s, i : Cards!RemoveAt(s, i) = RemoveAt(s, i) BY DEF Cards!RemoveAt, RemoveAt
<1>4. \A S : Cards!Cardinality(S) = Cardinality(S) BY DEF Cards!Cardinality, Cardinality
<1>5. \A f : Cards!IsInjective(f) = IsInjective(f) BY DEF Cards!IsInjective, IsInjective
<1>6. \A S : Cards!SetToSeq(S) = SetToSeq(S) BY <1>4, <1>5 DEF Cards!SetToSeq, SetToSeq
<1> QED BY <1>1, <1>2, <1>3, <1>6

CardsAssumed == IsFiniteSet(Table)

Document == [tables : Seq(Table), placed : SUBSET Table, view : Nat]
Refreshing == [wanted : Seq(Table), pending : Seq(Table), n : Nat]

\* A refresh still fetches every table it will draw that the database has and that is not
\* fetched yet.
Fetches(r, os, known) ==
    /\ r \in Refreshing /\ ToSet(r.pending) \subseteq ToSet(r.wanted) \cap os
    /\ ToSet(r.wanted) \cap os \subseteq known \cup ToSet(r.pending)

CardsInv ==
    /\ CardsAssumed /\ cardsChanges \in Nat
    /\ objects \subseteq Table /\ document \in Document /\ cardsStored \in Document
    /\ cache \in [known : SUBSET Table, failed : SUBSET Table] /\ Cards!Cached \subseteq objects
    /\ \A r \in refreshes : Fetches(r, objects, Cards!Cached)
    /\ Cards!CardsTellWhatThereIs

LEMMA CardsSuffices == CardsInv => Cards!TypeOK /\ Cards!CardsTellWhatThereIs
<1> SUFFICES ASSUME CardsInv PROVE Cards!TypeOK BY DEF CardsInv
<1>1. Cards!Included \subseteq Table BY Elements, CardsLists DEF CardsInv, Document, Cards!Included
<1> QED BY <1>1, CardsLists DEF CardsInv, Document, Fetches, Cards!TypeOK

\* What is drawn says what the cache and the database say, once all of it is fetched.
LEMMA Drawn ==
    ASSUME NEW tables \in Seq(Table), NEW k, k.known \cup k.failed \subseteq objects,
           ToSet(tables) \cap objects \subseteq k.known \cup k.failed, Cards!Draw(tables, k)
    PROVE  \A card \in drawn' : card.says = "missing" <=> card.table \notin objects
BY CardsLists DEF Cards!Draw, Cards!Card

LEMMA PlacedIs ==
    ASSUME NEW doc \in Document, NEW tables \in Seq(Table)
    PROVE  Cards!Placed(doc, tables) \in Document /\ Cards!Placed(doc, tables).tables = doc.tables
BY Elements, CardsLists DEF Cards!Placed, Document

LEMMA RefreshIsGood ==
    ASSUME CardsInv, NEW doc \in Document, Cards!Refresh(doc), cardsStored' = doc, UNCHANGED <<objects, cache>>, cardsChanges' \in Nat
    PROVE  CardsInv'
<1> DEFINE waiting == Keep(doc.tables, objects \ Cards!Cached)
<1>1. doc.tables \in Seq(Table) BY DEF Document
<1>2. waiting \in Seq(Table) /\ ToSet(waiting) = ToSet(doc.tables) \cap (objects \ Cards!Cached) BY <1>1, KeepIs
<1>3. \/ /\ waiting = <<>> /\ Cards!Draw(doc.tables, cache) /\ document' = Cards!Placed(doc, doc.tables) /\ UNCHANGED refreshes
      \/ /\ refreshes' = refreshes \cup {[wanted |-> doc.tables, pending |-> waiting, n |-> cardsChanges']}
         /\ document' = doc /\ UNCHANGED drawn
  BY CardsLists DEF Cards!Refresh
<1> HIDE DEF waiting
<1>4. CardsAssumed' /\ UNCHANGED Cards!Cached BY DEF CardsInv, CardsAssumed, Cards!Cached
<1>5. \A r \in refreshes : Fetches(r, objects, Cards!Cached) BY DEF CardsInv
<1>6. /\ objects' \subseteq Table /\ cardsStored' \in Document /\ Cards!Cached' \subseteq objects'
      /\ cache' \in [known : SUBSET Table, failed : SUBSET Table]
  BY <1>4 DEF CardsInv
<1>7. CASE waiting = <<>> /\ Cards!Draw(doc.tables, cache) /\ document' = Cards!Placed(doc, doc.tables) /\ UNCHANGED refreshes
  <2>1. ToSet(doc.tables) \cap objects \subseteq cache.known \cup cache.failed
    BY <1>2, <1>7 DEF ToSet, Cards!Cached
  <2>2. cache.known \cup cache.failed \subseteq objects BY DEF CardsInv, Cards!Cached
  <2>3. \A card \in drawn' : card.says = "missing" <=> card.table \notin objects BY <1>1, <1>7, <2>1, <2>2, Drawn
  <2>4. document' \in Document /\ document'.tables = doc.tables BY <1>1, <1>7, PlacedIs
  <2> QED BY <1>4, <1>5, <1>6, <1>7, <2>3, <2>4 DEF CardsInv, Cards!CardsTellWhatThereIs
<1>8. CASE /\ refreshes' = refreshes \cup {[wanted |-> doc.tables, pending |-> waiting, n |-> cardsChanges']}
           /\ document' = doc /\ UNCHANGED drawn
  <2> DEFINE new == [wanted |-> doc.tables, pending |-> waiting, n |-> cardsChanges']
  <2>1. new \in Refreshing /\ new.wanted = doc.tables /\ new.pending = waiting BY <1>1, <1>2 DEF Refreshing
  <2> HIDE DEF new
  <2>2. Fetches(new, objects, Cards!Cached) BY <1>2, <2>1 DEF Fetches
  <2>3. refreshes' = refreshes \cup {new} BY <1>8 DEF new
  <2>4. \A r \in refreshes' : Fetches(r, objects', Cards!Cached') BY <1>4, <1>5, <2>2, <2>3
  <2> QED BY <1>4, <1>6, <1>8, <2>4 DEF CardsInv, Cards!CardsTellWhatThereIs
<1> QED BY <1>3, <1>7, <1>8

LEMMA ArrivesStep == ASSUME CardsInv, NEW r, NEW i, Cards!MetadataArrives(r, i) PROVE CardsInv'
<1>1. r \in refreshes /\ i \in DOMAIN r.pending /\ UNCHANGED <<objects, cardsStored, viewTimer, cardsChanges>>
  BY DEF Cards!MetadataArrives
<1> DEFINE t == r.pending[i]
           left == [r EXCEPT !.pending = RemoveAt(@, i)]
<1>2. Fetches(r, objects, Cards!Cached) /\ r \in Refreshing BY <1>1 DEF CardsInv, Fetches
<1>3. /\ RemoveAt(r.pending, i) \in Seq(Table) /\ ToSet(RemoveAt(r.pending, i)) \subseteq ToSet(r.pending)
      /\ ToSet(r.pending) \subseteq ToSet(RemoveAt(r.pending, i)) \cup {t}
  BY <1>1, <1>2, RemoveAtIs DEF Refreshing
<1>4. t \in objects /\ t \in Table
  <2>1. t \in ToSet(r.pending) BY <1>1 DEF ToSet
  <2> QED BY <1>2, <2>1 DEF Fetches, CardsInv
<1>5. /\ cache' \in [known : SUBSET Table, failed : SUBSET Table] /\ Cards!Cached' = Cards!Cached \cup {t}
  <2>1. \/ cache' = [cache EXCEPT !.known = @ \cup {t}, !.failed = @ \ {t}]
        \/ cache' = [cache EXCEPT !.failed = @ \cup {t}, !.known = @ \ {t}]
    BY DEF Cards!MetadataArrives
  <2> HIDE DEF t
  <2> QED BY <1>4, <2>1 DEF CardsInv, Cards!Cached
<1>6. left \in Refreshing /\ left.wanted = r.wanted /\ left.pending = RemoveAt(r.pending, i)
  BY <1>2, <1>3 DEF Refreshing
<1>7. IF left.pending # <<>> THEN refreshes' = (refreshes \ {r}) \cup {left} /\ UNCHANGED <<document, drawn>>
      ELSE refreshes' = refreshes \ {r} /\ Cards!Draw(r.wanted, cache') /\ document' = Cards!Placed(document, r.wanted)
  BY CardsLists DEF Cards!MetadataArrives
<1> HIDE DEF t, left
<1>8. Cards!Cached' \subseteq objects /\ \A q \in refreshes : Fetches(q, objects, Cards!Cached')
  BY <1>4, <1>5 DEF CardsInv, Fetches
<1>9. Fetches(left, objects, Cards!Cached') BY <1>2, <1>3, <1>5, <1>6 DEF Fetches
<1>10. CardsAssumed' /\ cardsChanges' \in Nat /\ objects' \subseteq Table /\ cardsStored' \in Document BY <1>1 DEF CardsInv, CardsAssumed
<1>11. CASE left.pending # <<>>
  <2>1. refreshes' = (refreshes \ {r}) \cup {left} /\ UNCHANGED <<document, drawn>> BY <1>7, <1>11
  <2> QED BY <1>1, <1>5, <1>8, <1>9, <1>10, <2>1 DEF CardsInv, Cards!CardsTellWhatThereIs
<1>12. CASE left.pending = <<>>
  <2>1. refreshes' = refreshes \ {r} /\ Cards!Draw(r.wanted, cache') /\ document' = Cards!Placed(document, r.wanted)
    BY <1>7, <1>12
  <2>2. r.wanted \in Seq(Table) /\ document \in Document BY <1>2 DEF Refreshing, CardsInv
  <2>3. ToSet(r.wanted) \cap objects \subseteq Cards!Cached' BY <1>6, <1>9, <1>12 DEF Fetches, ToSet
  <2>4. \A card \in drawn' : card.says = "missing" <=> card.table \notin objects
    BY <1>8, <2>1, <2>2, <2>3, Drawn DEF Cards!Cached
  <2>5. document' \in Document /\ document'.tables = document.tables BY <2>1, <2>2, PlacedIs
  <2> QED BY <1>1, <1>5, <1>8, <1>10, <2>1, <2>4, <2>5 DEF CardsInv, Cards!CardsTellWhatThereIs
<1> QED BY <1>11, <1>12

LEMMA CardsChangingIs == ASSUME CardsInv, Cards!Changing PROVE cardsChanges' \in Nat BY DEF CardsInv, Cards!Changing

LEMMA AddStep == ASSUME CardsInv, NEW added, Cards!AddTables(added) PROVE CardsInv'
<1> DEFINE doc == [document EXCEPT !.tables = @ \o SetToSeq(added)]
<1>1. Cards!Refresh(doc) /\ cardsStored' = doc /\ UNCHANGED <<objects, cache>> /\ Cards!Changing /\ added \subseteq objects
  BY CardsLists DEF Cards!AddTables
<1>2. IsFiniteSet(added) /\ added \subseteq Table BY <1>1, FS_Subset DEF CardsInv, CardsAssumed
<1>3. SetToSeq(added) \in Seq(added) BY <1>2, SetToSeqIs
<1>4. SetToSeq(added) \in Seq(Table) BY <1>2, <1>3, SeqIn
<1>5. document.tables \o SetToSeq(added) \in Seq(Table) BY <1>4, Joined DEF CardsInv, Document
<1>6. doc \in Document BY <1>5 DEF CardsInv, Document
<1> HIDE DEF doc
<1> QED BY <1>1, <1>6, CardsChangingIs, RefreshIsGood

LEMMA RemoveStep == ASSUME CardsInv, NEW t \in Table, Cards!RemoveTable(t) PROVE CardsInv'
<1> DEFINE doc == [document EXCEPT !.tables = Keep(@, Table \ {t}), !.placed = @ \ {t}]
<1>1. Cards!Refresh(doc) /\ cardsStored' = doc /\ UNCHANGED <<objects, cache>> /\ Cards!Changing
  BY CardsLists DEF Cards!RemoveTable
<1>2. Keep(document.tables, Table \ {t}) \in Seq(Table) BY KeepIs DEF CardsInv, Document
<1>3. doc \in Document BY <1>2 DEF CardsInv, Document
<1> HIDE DEF doc
<1> QED BY <1>1, <1>3, CardsChangingIs, RefreshIsGood

LEMMA ViewStep == ASSUME CardsInv, Cards!MoveView \/ Cards!ViewStored \/ \E t \in Table : Cards!MoveCard(t) PROVE CardsInv'
<1>1. UNCHANGED <<objects, cache, refreshes, drawn>> /\ cardsChanges' \in Nat
  BY CardsChangingIs DEF Cards!MoveView, Cards!ViewStored, Cards!MoveCard, CardsInv
<1>2. /\ document' \in Document /\ document'.tables = document.tables /\ cardsStored' \in {cardsStored, document'}
  BY DEF Cards!MoveView, Cards!ViewStored, Cards!MoveCard, Cards!Persist, CardsInv, Document
<1> QED BY <1>1, <1>2 DEF CardsInv, Cards!CardsTellWhatThereIs, Cards!Cached, CardsAssumed

LEMMA OpenedIs ==
    ASSUME CardsAssumed, NEW doc \in Document, NEW found \in SUBSET Table
    PROVE  /\ \A r \in Cards!Opened(doc, found).refreshes : Fetches(r, found, {})
           /\ \A card \in Cards!Opened(doc, found).drawn : card.says = "missing" /\ card.table \notin found
           /\ Cards!Opened(doc, found).document \in Document /\ Cards!Opened(doc, found).document.tables = doc.tables
<1> DEFINE waiting == Keep(doc.tables, found)
           shown == IF waiting = <<>> THEN ToSet(doc.tables) ELSE {}
           one == [wanted |-> doc.tables, pending |-> waiting, n |-> 0]
           o == Cards!Opened(doc, found)
<1>1. doc.tables \in Seq(Table) BY DEF Document
<1>2. waiting \in Seq(Table) /\ ToSet(waiting) = ToSet(doc.tables) \cap found BY <1>1, KeepIs
<1>3. shown \subseteq Table /\ \A t \in shown : t \notin found
  <2>1. ToSet(doc.tables) \subseteq Table BY <1>1, Elements
  <2>2. waiting = <<>> => ToSet(waiting) = {} BY DEF ToSet
  <2> QED BY <1>2, <2>1, <2>2
<1>4. SetToSeq(shown) \in Seq(Table)
  <2> HIDE DEF shown
  <2>1. IsFiniteSet(shown) BY <1>3, FS_Subset DEF CardsAssumed
  <2>2. SetToSeq(shown) \in Seq(shown) BY <2>1, SetToSeqIs
  <2> QED BY <1>3, <2>2, SeqIn
<1>5. /\ o.refreshes = IF waiting = <<>> THEN {} ELSE {one}
      /\ o.drawn = {[table |-> t, says |-> "missing"] : t \in shown}
      /\ o.document = Cards!Placed(doc, SetToSeq(shown))
  BY CardsLists DEF Cards!Opened
<1>6. one \in Refreshing /\ one.wanted = doc.tables /\ one.pending = waiting BY <1>1, <1>2 DEF Refreshing
<1> HIDE DEF waiting, shown, one, o
<1>7. Fetches(one, found, {}) BY <1>2, <1>6 DEF Fetches
<1>8. o.document \in Document /\ o.document.tables = doc.tables BY <1>4, <1>5, PlacedIs
<1>9. \A card \in o.drawn : card.says = "missing" /\ card.table \notin found BY <1>3, <1>5
<1>10. \A r \in o.refreshes : Fetches(r, found, {}) BY <1>5, <1>7
<1> QED BY <1>8, <1>9, <1>10 DEF o

LEMMA CardsReloadStep == ASSUME CardsInv, NEW found \in SUBSET Table, Cards!Reload(found) PROVE CardsInv'
<1>1. /\ objects' = found /\ cache' = [known |-> {}, failed |-> {}] /\ UNCHANGED cardsStored /\ cardsChanges' \in Nat
      /\ refreshes' = Cards!Opened(cardsStored, found).refreshes /\ drawn' = Cards!Opened(cardsStored, found).drawn
      /\ document' = Cards!Opened(cardsStored, found).document
  BY CardsChangingIs DEF Cards!Reload
<1>2. cardsStored \in Document /\ CardsAssumed BY DEF CardsInv
<1>3. Cards!Cached' = {} BY <1>1 DEF Cards!Cached
<1>4. /\ \A r \in refreshes' : Fetches(r, found, {})
      /\ \A card \in drawn' : card.says = "missing" /\ card.table \notin found
      /\ document' \in Document /\ document'.tables = cardsStored.tables
  BY <1>1, <1>2, OpenedIs
<1>5. cache' \in [known : SUBSET Table, failed : SUBSET Table] BY <1>1
<1> QED BY <1>1, <1>2, <1>3, <1>4, <1>5 DEF CardsInv, Cards!CardsTellWhatThereIs, CardsAssumed

LEMMA CardsBegins == ASSUME CardsAssumed, Cards!Init PROVE CardsInv
<1>1. objects \subseteq Table /\ IsFiniteSet(objects) BY FS_Subset DEF CardsAssumed, Cards!Init
<1>2. SetToSeq(objects) \in Seq(Table) /\ <<>> \in Seq(Table)
  <2>1. SetToSeq(objects) \in Seq(objects) BY <1>1, SetToSeqIs
  <2> QED BY <1>1, <2>1, SeqIn
<1>3. document \in Document /\ cardsStored = document /\ cardsChanges = 0 /\ drawn = {}
  <2>1. PICK tables \in {SetToSeq(objects), <<>>} : document = [tables |-> tables, placed |-> {}, view |-> 0]
    BY CardsLists DEF Cards!Init
  <2>2. tables \in Seq(Table) BY <1>2
  <2>3. document \in Document BY <2>1, <2>2 DEF Document
  <2> QED BY <2>3 DEF Cards!Init
<1>4. Cards!Cached = {} /\ cache \in [known : SUBSET Table, failed : SUBSET Table] BY DEF Cards!Init, Cards!Cached
<1>5. \A r \in refreshes : Fetches(r, objects, {}) BY <1>1, <1>3, OpenedIs DEF Cards!Init
<1> QED BY <1>1, <1>3, <1>4, <1>5 DEF CardsInv, Cards!CardsTellWhatThereIs

LEMMA CardsGoesOn == ASSUME CardsInv, [Cards!Next]_(Cards!vars) PROVE CardsInv'
<1>1. CASE UNCHANGED Cards!vars BY <1>1 DEF Cards!vars, CardsInv, Cards!CardsTellWhatThereIs, Cards!Cached, CardsAssumed
<1>2. CASE Cards!Next BY <1>2, ArrivesStep, AddStep, RemoveStep, ViewStep, CardsReloadStep DEF Cards!Next
<1> QED BY <1>1, <1>2

-----------------------------------------------------------------------------
(* ---- The published endpoints ---- *)

Apis == INSTANCE PublishedApis WITH
    Known <- Endpoints, MaxChanges <- MaxRequests, stored <- apisStored, loads <- apisLoads,
    changes <- apisChanges

Lists == [Endpoint -> Apis!Content \cup {None}]

ApisAssumed == MaxLoads \in Nat /\ MaxRequests \in Nat /\ Endpoints \subseteq Lists /\ Drafts \subseteq Apis!Content

\* A form, whose text may be another than that of its parameters.
Forms == UNION {[address : Address, sql : Sql, parameters : [Names[s] -> Apis!Setting]] : s \in Sql}
Bodies ==
    [is : {"nothing", "loading", "error"}] \cup [is : {"list"}, endpoints : Lists]
    \cup [is : {"editor"}, id : Endpoint, endpoint : Apis!Content, form : Forms]
Loading == [nr : Nat, seen : Lists \cup {None}]
Writing ==
    [kind : {"publish", "save", "run"}, id : Endpoint, content : Apis!Content, done : BOOLEAN, tab : BOOLEAN]
    \cup [kind : {"delete"}, id : Endpoint, content : {None}, done : BOOLEAN, tab : BOOLEAN]
Preview ==
    [address : Address \cup {None}, sent : Address \cup {None}, waits : BOOLEAN,
     text : [of : Address \cup {None}, json : BOOLEAN] \cup {None}, pretty : BOOLEAN, enabled : BOOLEAN,
     view : {"hint", "waiting", "empty", "raw", "pretty"}]

Typed ==
    /\ apisStored \in Lists /\ open \in BOOLEAN /\ newRequest \in BOOLEAN /\ behind \in BOOLEAN
    /\ body \in Bodies /\ apisLoads \subseteq Loading /\ writes \subseteq Writing
    /\ nextLoad \in 0..MaxLoads /\ apisChanges \in 0..MaxRequests

\* Below, b is a body, nr whether "New request" shows, ls are loads of which n is the
\* next, ws are writes, and st is what the server holds.
DoneIn(ws) == \E w \in ws : w.done

LoadsFit(ls, n) == (\A l \in ls : l.nr < n) /\ \A l, m \in ls : l.nr = m.nr => l = m

Fits(b, nr, ls, ws, st, n) ==
    /\ nr <=> b.is # "editor"
    /\ b.is = "list" => b.endpoints = st \/ DoneIn(ws)
    /\ b.is \in {"list", "editor"} => \A l \in ls : l.nr + 1 # n
    /\ \A l \in ls : l.nr + 1 = n /\ l.seen # None => l.seen = st \/ DoneIn(ws)

\* A response that can be looked at is that of the last request.
Shown(p) ==
    /\ p.waits <=> p.view = "waiting"
    /\ p.enabled => ~p.waits /\ (p.text # None => p.text.of = p.sent)
    /\ p.view \in {"raw", "pretty"} => p.text.of = p.sent
    /\ p.view = "pretty" => p.text.json

PreviewsHold ==
    /\ previews \in [Endpoint -> Preview \cup {None}]
    /\ \A id \in Endpoint : previews[id] # None => Shown(previews[id])

TabHolds ==
    /\ Typed /\ LoadsFit(apisLoads, nextLoad)
    /\ ~open => apisLoads = {} /\ body.is = "nothing"
    /\ ~behind => Fits(body, newRequest, apisLoads, writes, apisStored, nextLoad)

RanHolds == ran # None => ran.called = ran.meant

ApisInv == ApisAssumed /\ TabHolds /\ RanHolds /\ PreviewsHold

-----------------------------------------------------------------------------
(* What is in the tab *)

LEMMA BodiesAre ==
    ASSUME NEW b \in Bodies
    PROVE  /\ b.is \in {"nothing", "loading", "list", "error", "editor"}
           /\ b.is = "list" => b.endpoints \in Lists
           /\ b.is = "editor" => /\ b.id \in Endpoint /\ b.endpoint \in Apis!Content /\ b.form \in Forms
                                 /\ \A f \in Forms : [b EXCEPT !.form = f] \in Bodies
                                                     /\ [b EXCEPT !.form = f].is = "editor"
  BY DEF Bodies

LEMMA BodiesThere ==
    /\ \A x \in {"nothing", "loading", "error"} : [is |-> x] \in Bodies
    /\ \A es \in Lists : [is |-> "list", endpoints |-> es] \in Bodies
    /\ \A id \in Endpoint, e \in Apis!Content, f \in Forms : [is |-> "editor", id |-> id, endpoint |-> e, form |-> f] \in Bodies
  BY DEF Bodies

LEMMA ContentIsAForm ==
    ASSUME NEW e \in Apis!Content
    PROVE  e \in Forms /\ e.address \in Address /\ e.sql \in Sql /\ e.parameters \in [Names[e.sql] -> Apis!Setting]
  BY DEF Apis!Content, Forms

\* What is saved is an endpoint, and one that is not changed is saved as it is.
LEMMA SavedIs ==
    ASSUME NEW f \in Forms PROVE Apis!Saved(f) \in Apis!Content /\ (f \in Apis!Content => Apis!Saved(f) = f)
<1> DEFINE set == [p \in Names[f.sql] |-> IF p \in DOMAIN f.parameters THEN f.parameters[p] ELSE "required"]
<1>1. PICK s \in Sql : f \in [address : Address, sql : Sql, parameters : [Names[s] -> Apis!Setting]] BY DEF Forms
<1>2. set \in [Names[f.sql] -> Apis!Setting] BY <1>1 DEF Apis!Setting
<1>3. Apis!Saved(f) = [f EXCEPT !.parameters = set] BY DEF Apis!Saved
<1>4. f \in Apis!Content => set = f.parameters BY ContentIsAForm
<1> HIDE DEF set
<1>5. /\ Apis!Saved(f) \in [address : Address, sql : Sql, parameters : {set}] /\ Apis!Saved(f).sql = f.sql
      /\ f.sql \in Sql
  BY <1>1, <1>3
<1>6. Apis!Saved(f) \in [address : Address, sql : {f.sql}, parameters : [Names[f.sql] -> Apis!Setting]] BY <1>2, <1>5
<1>7. Apis!Saved(f) \in Apis!Content BY <1>5, <1>6 DEF Apis!Content
<1>8. f \in Apis!Content => Apis!Saved(f) = f BY <1>1, <1>3, <1>4
<1> QED BY <1>7, <1>8

LEMMA FormsAre ==
    ASSUME NEW f \in Forms
    PROVE  /\ f.address \in Address /\ f.sql \in Sql
           /\ \A a \in Address : [f EXCEPT !.address = a] \in Forms
           /\ \A s \in Sql : [f EXCEPT !.sql = s] \in Forms
           /\ \A p \in DOMAIN f.parameters, v \in Apis!Setting : [f EXCEPT !.parameters[p] = v] \in Forms
<1>1. PICK s \in Sql : f \in [address : Address, sql : Sql, parameters : [Names[s] -> Apis!Setting]] BY DEF Forms
<1>2. \A a \in Address : [f EXCEPT !.address = a] \in [address : Address, sql : Sql, parameters : [Names[s] -> Apis!Setting]]
  BY <1>1
<1>3. \A t \in Sql : [f EXCEPT !.sql = t] \in [address : Address, sql : Sql, parameters : [Names[s] -> Apis!Setting]]
  BY <1>1
<1>4. \A p \in DOMAIN f.parameters, v \in Apis!Setting :
         [f EXCEPT !.parameters[p] = v] \in [address : Address, sql : Sql, parameters : [Names[s] -> Apis!Setting]]
  BY <1>1
<1> QED BY <1>1, <1>2, <1>3, <1>4 DEF Forms

LEMMA WritingIs ==
    ASSUME NEW w \in Writing
    PROVE  /\ w.id \in Endpoint /\ w.content \in Apis!Content \cup {None} /\ w.done \in BOOLEAN /\ w.tab \in BOOLEAN
           /\ w.kind = "run" => w.content \in Apis!Content
           /\ [w EXCEPT !.done = TRUE] \in Writing /\ [w EXCEPT !.done = TRUE].done
           /\ [w EXCEPT !.tab = FALSE] \in Writing /\ [w EXCEPT !.tab = FALSE].done = w.done
  BY DEF Writing

LEMMA WriteIsTyped ==
    /\ \A kind \in {"publish", "save", "run"}, id \in Endpoint, e \in Apis!Content :
          Apis!Write(kind, id, e) \in Writing /\ ~Apis!Write(kind, id, e).done
    /\ \A id \in Endpoint : Apis!Write("delete", id, None) \in Writing /\ ~Apis!Write("delete", id, None).done
  BY DEF Apis!Write, Writing

-----------------------------------------------------------------------------
(* The list *)

\* A list that is asked for is the newest, and shows once it is there.
LEMMA ReloadedIsGood ==
    ASSUME ApisAssumed, TabHolds, Apis!Reloaded, apisStored' = apisStored, apisChanges' \in 0..MaxRequests,
           open' = TRUE, writes' \subseteq Writing
    PROVE  TabHolds'
<1>1. /\ nextLoad < MaxLoads /\ nextLoad' = nextLoad + 1 /\ newRequest' = TRUE /\ body' = [is |-> "loading"]
      /\ apisLoads' = apisLoads \cup {[nr |-> nextLoad, seen |-> None]} /\ behind' = FALSE
  BY DEF Apis!Reloaded
<1>2. nextLoad \in Nat /\ nextLoad' \in 0..MaxLoads BY <1>1 DEF ApisAssumed, TabHolds, Typed
<1>3. [nr |-> nextLoad, seen |-> None] \in Loading BY <1>2 DEF Loading
<1>4. body' \in Bodies /\ body'.is = "loading" BY <1>1, BodiesThere
<1>5. Typed' BY <1>1, <1>2, <1>3, <1>4 DEF TabHolds, Typed
<1>6. \A l \in apisLoads : l.nr \in Nat /\ l.nr < nextLoad BY DEF TabHolds, Typed, LoadsFit, Loading
<1>7. LoadsFit(apisLoads', nextLoad') BY <1>1, <1>2, <1>6 DEF TabHolds, LoadsFit
<1>8. \A l \in apisLoads' : l.nr + 1 = nextLoad' => l.seen = None BY <1>1, <1>2, <1>6
<1>9. Fits(body', newRequest', apisLoads', writes', apisStored', nextLoad') BY <1>1, <1>4, <1>8 DEF Fits
<1> QED BY <1>5, <1>7, <1>9 DEF TabHolds

\* Nothing of the list changes.
LEMMA TabStands ==
    ASSUME ApisAssumed, TabHolds, UNCHANGED <<apisStored, open, body, newRequest, apisLoads, behind, nextLoad>>,
           writes' \subseteq Writing, DoneIn(writes) => DoneIn(writes'), apisChanges' \in 0..MaxRequests
    PROVE  TabHolds'
  BY DEF TabHolds, Typed, Fits

LEMMA ChangesAreTyped == ApisAssumed /\ TabHolds /\ (Apis!Changing \/ apisChanges' = apisChanges) => apisChanges' \in 0..MaxRequests
  BY DEF ApisAssumed, TabHolds, Typed, Apis!Changing

LEMMA OpeningIsGood == ASSUME ApisAssumed, TabHolds, Apis!OpenApisTab \/ Apis!CloseTab PROVE TabHolds'
<1>1. CASE Apis!OpenApisTab
  <2>1. open' = TRUE /\ Apis!Reloaded /\ UNCHANGED <<apisStored, writes, apisChanges>> BY <1>1 DEF Apis!OpenApisTab
  <2> QED BY <2>1, ReloadedIsGood DEF TabHolds, Typed
<1>2. CASE Apis!CloseTab
  <2>1. /\ open' = FALSE /\ body' = [is |-> "nothing"] /\ newRequest' = TRUE /\ apisLoads' = {}
        /\ writes' = {[w EXCEPT !.tab = FALSE] : w \in writes} /\ UNCHANGED <<apisStored, behind, nextLoad, apisChanges>>
    BY <1>2 DEF Apis!CloseTab
  <2>2. body' \in Bodies /\ body'.is = "nothing" BY <2>1, BodiesThere
  <2>3. writes' \subseteq Writing
    <3>1. \A w \in writes : [w EXCEPT !.tab = FALSE] \in Writing BY WritingIs DEF TabHolds, Typed
    <3> QED BY <2>1, <3>1
  <2>4. Typed' BY <2>1, <2>2, <2>3 DEF TabHolds, Typed
  <2>5. LoadsFit(apisLoads', nextLoad') /\ Fits(body', newRequest', apisLoads', writes', apisStored', nextLoad')
    BY <2>1, <2>2 DEF LoadsFit, Fits
  <2> QED BY <2>1, <2>2, <2>4, <2>5 DEF TabHolds
<1> QED BY <1>1, <1>2

LEMMA LoadsAreGood ==
    ASSUME ApisAssumed, TabHolds, NEW l \in apisLoads, Apis!ServeList(l) \/ Apis!ShowList(l) \/ Apis!LoadFails(l) PROVE TabHolds'
<1>1. /\ l \in Loading /\ l.nr \in Nat /\ l.seen \in Lists \cup {None} /\ l.nr < nextLoad /\ nextLoad \in Nat
      /\ \A m \in apisLoads : m.nr \in Nat /\ (m.nr = l.nr => m = l)
  BY DEF TabHolds, Typed, Loading, LoadsFit
<1>2. open /\ UNCHANGED <<apisStored, open, newRequest, writes, nextLoad, apisChanges>>
  BY DEF TabHolds, Typed, Apis!ServeList, Apis!ShowList, Apis!LoadFails
<1>3. CASE Apis!ServeList(l)
  <2> DEFINE m == [l EXCEPT !.seen = apisStored]
  <2>1. m \in Loading /\ m.nr = l.nr /\ m.seen = apisStored BY <1>1 DEF Loading, TabHolds, Typed
  <2>2. apisLoads' = (apisLoads \ {l}) \cup {m} /\ UNCHANGED <<body, behind>> BY <1>3 DEF Apis!ServeList
  <2> HIDE DEF m
  <2>3. Typed' BY <1>2, <2>1, <2>2 DEF TabHolds, Typed
  <2>4. LoadsFit(apisLoads', nextLoad') BY <1>1, <1>2, <2>1, <2>2 DEF TabHolds, LoadsFit
  <2>5. ~behind => Fits(body', newRequest', apisLoads', writes', apisStored', nextLoad')
    BY <1>1, <1>2, <2>1, <2>2 DEF TabHolds, Fits
  <2> QED BY <1>2, <2>2, <2>3, <2>4, <2>5 DEF TabHolds
<1>4. CASE Apis!ShowList(l) \/ Apis!LoadFails(l)
  <2>1. /\ apisLoads' = apisLoads \ {l} /\ behind' = (behind \/ l.nr + 1 < nextLoad)
        /\ \/ body' = [is |-> "list", endpoints |-> l.seen] /\ l.seen # None
           \/ body' = [is |-> "error"]
    BY <1>4 DEF Apis!ShowList, Apis!LoadFails
  <2>2. body' \in Bodies /\ body'.is \in {"list", "error"} /\ (body'.is = "list" => l.seen # None /\ body'.endpoints = l.seen)
    BY <1>1, <2>1, BodiesThere
  <2>3. Typed' BY <1>2, <2>1, <2>2 DEF TabHolds, Typed
  <2>4. LoadsFit(apisLoads', nextLoad') BY <1>2, <2>1 DEF TabHolds, LoadsFit
  <2>5. ASSUME ~behind' PROVE Fits(body', newRequest', apisLoads', writes', apisStored', nextLoad')
    <3>0. ~behind /\ ~(l.nr + 1 < nextLoad) BY <2>1, <2>5
    <3>1. ~behind /\ l.nr + 1 = nextLoad BY <1>1, <3>0
    <3>2. Fits(body, newRequest, apisLoads, writes, apisStored, nextLoad) BY <3>1 DEF TabHolds
    <3>3. body.is # "editor" /\ newRequest BY <3>1, <3>2 DEF Fits
    <3>4. \A m \in apisLoads' : m.nr + 1 # nextLoad BY <1>1, <2>1, <3>1
    <3> QED BY <1>2, <2>2, <3>1, <3>2, <3>3, <3>4 DEF Fits
  <2> QED BY <1>2, <2>3, <2>4, <2>5 DEF TabHolds
<1> QED BY <1>3, <1>4

LEMMA EditingIsGood ==
    ASSUME ApisAssumed, TabHolds, (\E id \in Endpoint : Apis!EditEndpoint(id)) \/ (\E form \in Forms : Apis!Fill(form)) \/ Apis!Cancel
    PROVE  TabHolds'
<1>1. ASSUME NEW id \in Endpoint, Apis!EditEndpoint(id) PROVE TabHolds'
  <2>1. /\ body.is = "list" /\ body.endpoints[id] # None /\ newRequest' = FALSE
        /\ body' = [is |-> "editor", id |-> id, endpoint |-> body.endpoints[id], form |-> body.endpoints[id]]
        /\ UNCHANGED <<apisStored, open, apisLoads, writes, behind, nextLoad, apisChanges>>
    BY <1>1 DEF Apis!EditEndpoint
  <2>2. body.endpoints[id] \in Apis!Content BY <2>1, BodiesAre DEF TabHolds, Typed, Lists
  <2>3. body' \in Bodies /\ body'.is = "editor" BY <2>1, <2>2, BodiesThere, ContentIsAForm
  <2>4. Typed' BY <2>1, <2>3 DEF TabHolds, Typed
  <2>5. ~behind => Fits(body', newRequest', apisLoads', writes', apisStored', nextLoad') BY <2>1, <2>3 DEF TabHolds, Fits
  <2> QED BY <2>1, <2>4, <2>5 DEF TabHolds
<1>2. ASSUME NEW form \in Forms, Apis!Fill(form) PROVE TabHolds'
  <2>1. /\ body.is = "editor" /\ Apis!Changing /\ body' = [body EXCEPT !.form = form]
        /\ UNCHANGED <<apisStored, open, newRequest, apisLoads, writes, behind, nextLoad>>
    BY <1>2 DEF Apis!Fill
  <2>2. body' \in Bodies /\ body'.is = "editor" BY <2>1, BodiesAre DEF TabHolds, Typed
  <2>3. Typed' BY <2>1, <2>2, ChangesAreTyped DEF TabHolds, Typed
  <2>4. ~behind => Fits(body', newRequest', apisLoads', writes', apisStored', nextLoad') BY <2>1, <2>2 DEF TabHolds, Fits
  <2> QED BY <2>1, <2>3, <2>4 DEF TabHolds
<1>3. CASE Apis!Cancel
  <2>1. body.is = "editor" /\ Apis!Reloaded /\ UNCHANGED <<apisStored, open, writes, apisChanges>> BY <1>3 DEF Apis!Cancel, Apis!Reload
  <2> QED BY <2>1, ReloadedIsGood DEF TabHolds, Typed
<1> QED BY <1>1, <1>2, <1>3
-----------------------------------------------------------------------------
(* Writes *)

LEMMA WritesAreAdded ==
    ASSUME ApisAssumed, TabHolds,
           \/ \E e \in Drafts : Apis!Publish(e)
           \/ \E kind \in {"save", "run"} : Apis!Save(kind)
           \/ \E id \in Endpoint : Apis!Delete(id)
    PROVE  TabHolds'
<1>1. ASSUME NEW w \in Writing, writes' = writes \cup {w}, Apis!Changing,
             UNCHANGED <<apisStored, open, body, newRequest, apisLoads, behind, nextLoad>>
      PROVE  TabHolds'
  <2>1. writes' \subseteq Writing BY <1>1 DEF TabHolds, Typed
  <2>2. DoneIn(writes) => DoneIn(writes') BY <1>1 DEF DoneIn
  <2> QED BY <1>1, <2>1, <2>2, ChangesAreTyped, TabStands
<1>2. ASSUME NEW e \in Drafts, Apis!Publish(e) PROVE TabHolds'
  <2>1. PICK id \in Endpoint : writes' = writes \cup {Apis!Write("publish", id, e)} BY <1>2 DEF Apis!Publish
  <2>2. Apis!Write("publish", id, e) \in Writing BY WriteIsTyped DEF ApisAssumed
  <2> QED BY <1>1, <1>2, <2>1, <2>2 DEF Apis!Publish
<1>3. ASSUME NEW kind \in {"save", "run"}, Apis!Save(kind) PROVE TabHolds'
  <2>1. body.is = "editor" /\ writes' = writes \cup {Apis!Write(kind, body.id, Apis!Saved(body.form))} BY <1>3 DEF Apis!Save
  <2>2. body.id \in Endpoint /\ Apis!Saved(body.form) \in Apis!Content BY <2>1, BodiesAre, SavedIs DEF TabHolds, Typed
  <2>3. Apis!Write(kind, body.id, Apis!Saved(body.form)) \in Writing BY <2>2, WriteIsTyped
  <2> QED BY <1>1, <1>3, <2>1, <2>3 DEF Apis!Save
<1>4. ASSUME NEW id \in Endpoint, Apis!Delete(id) PROVE TabHolds'
  <2>1. writes' = writes \cup {Apis!Write("delete", id, None)} BY <1>4 DEF Apis!Delete
  <2> QED BY <1>1, <1>4, <2>1, WriteIsTyped DEF Apis!Delete
<1> QED BY <1>2, <1>3, <1>4

LEMMA WritesAreAnswered ==
    ASSUME ApisAssumed, TabHolds, NEW w \in writes, Apis!ServeWrite(w) \/ Apis!Wrote(w) \/ Apis!WriteFails(w) PROVE TabHolds'
<1>1. w \in Writing /\ writes \subseteq Writing /\ apisChanges \in 0..MaxRequests /\ behind \in BOOLEAN /\ open \in BOOLEAN
  BY DEF TabHolds, Typed
<1>2. CASE Apis!ServeWrite(w)
  <2> DEFINE v == [w EXCEPT !.done = TRUE]
  <2>1. /\ apisStored' = [apisStored EXCEPT ![w.id] = w.content] /\ writes' = (writes \ {w}) \cup {v}
        /\ UNCHANGED <<open, body, newRequest, apisLoads, behind, nextLoad, apisChanges>>
    BY <1>2 DEF Apis!ServeWrite
  <2>2. v \in Writing /\ v.done BY <1>1, WritingIs
  <2> HIDE DEF v
  <2>3. DoneIn(writes') BY <2>1, <2>2 DEF DoneIn
  <2>4. apisStored' \in Lists BY <1>1, <2>1, WritingIs DEF TabHolds, Typed, Lists
  <2>5. Typed' BY <1>1, <2>1, <2>2, <2>4 DEF TabHolds, Typed
  <2>6. ~behind => Fits(body', newRequest', apisLoads', writes', apisStored', nextLoad') BY <2>1, <2>3 DEF TabHolds, Fits
  <2> QED BY <2>1, <2>5, <2>6 DEF TabHolds
<1>3. ASSUME writes' = writes \ {w}, behind' \in BOOLEAN, behind' \/ (behind' = behind /\ (~w.done \/ ~open)),
             UNCHANGED <<apisStored, open, body, newRequest, apisLoads, nextLoad, apisChanges>>
      PROVE  TabHolds'
  <2>1. Typed' BY <1>3 DEF TabHolds, Typed
  <2>2. ASSUME ~behind' PROVE Fits(body', newRequest', apisLoads', writes', apisStored', nextLoad')
    <3>1. CASE ~open
      <4>1. apisLoads = {} /\ body.is = "nothing" /\ Fits(body, newRequest, apisLoads, writes, apisStored, nextLoad)
        BY <1>3, <2>2, <3>1 DEF TabHolds
      <4> QED BY <1>3, <4>1 DEF Fits
    <3>2. CASE ~w.done
      <4>1. DoneIn(writes) => DoneIn(writes') BY <1>3, <3>2 DEF DoneIn
      <4> QED BY <1>3, <2>2, <3>2, <4>1 DEF TabHolds, Fits
    <3> QED BY <1>3, <2>2, <3>1, <3>2
  <2> QED BY <1>3, <2>1, <2>2 DEF TabHolds
<1>4. CASE Apis!Wrote(w)
  <2>1. writes' = writes \ {w} /\ UNCHANGED <<apisStored, open, apisChanges>> /\ writes' \subseteq Writing BY <1>1, <1>4 DEF Apis!Wrote
  <2>2. CASE open /\ Apis!Reload
    <3>1. open' = TRUE /\ apisStored' = apisStored /\ apisChanges' \in 0..MaxRequests BY <1>1, <2>1, <2>2
    <3> QED BY <2>1, <2>2, <3>1, ReloadedIsGood DEF Apis!Reload
  <2>3. CASE behind' = (open \/ behind) /\ UNCHANGED <<nextLoad, newRequest, body, apisLoads>>
    <3>1. behind' \in BOOLEAN BY <1>1, <2>3
    <3>2. behind' \/ (behind' = behind /\ ~open) BY <1>1, <2>3
    <3> QED BY <1>3, <2>1, <2>3, <3>1, <3>2
  <2> QED BY <1>4, <2>2, <2>3 DEF Apis!Wrote
<1>5. CASE Apis!WriteFails(w)
  <2>1. writes' = writes \ {w} /\ behind' = (behind \/ w.done) /\ w.done \in BOOLEAN
        /\ UNCHANGED <<apisStored, open, body, newRequest, apisLoads, nextLoad, apisChanges>>
    BY <1>1, <1>5, WritingIs DEF Apis!WriteFails
  <2>2. behind' \in BOOLEAN BY <1>1, <2>1
  <2>3. behind' \/ (behind' = behind /\ ~w.done) BY <1>1, <2>1
  <2> QED BY <1>3, <2>1, <2>2, <2>3
<1> QED BY <1>2, <1>4, <1>5

-----------------------------------------------------------------------------
(* The requests that call an endpoint *)

LEMMA PreviewReplaced ==
    ASSUME PreviewsHold, NEW id \in Endpoint, NEW p \in Preview \cup {None}, p # None => Shown(p),
           previews' = [previews EXCEPT ![id] = p]
    PROVE  PreviewsHold'
  BY DEF PreviewsHold

LEMMA PreviewedIs ==
    ASSUME PreviewsHold, NEW id \in Endpoint, NEW a \in Address, Apis!Previewed(id, a) PROVE PreviewsHold'
<1> DEFINE p == IF previews[id] = None THEN Apis!NewPreview ELSE previews[id]
           q == [p EXCEPT !.address = a]
<1>1. Apis!NewPreview \in Preview /\ Shown(Apis!NewPreview) BY DEF Apis!NewPreview, Preview, Shown
<1>2. p \in Preview /\ Shown(p) BY <1>1 DEF PreviewsHold
<1>3. previews' = [previews EXCEPT ![id] = q] BY DEF Apis!Previewed
<1> HIDE DEF p
<1>4. /\ q \in Preview
      /\ q.sent = p.sent /\ q.waits = p.waits /\ q.text = p.text /\ q.enabled = p.enabled /\ q.view = p.view
  BY <1>2 DEF Preview
<1>5. Shown(q) BY <1>2, <1>4 DEF Shown
<1> HIDE DEF q
<1> QED BY <1>3, <1>4, <1>5, PreviewReplaced

\* What is drawn is the response that is held.
LEMMA DrawnIs ==
    ASSUME NEW p \in Preview, ~p.waits, p.text # None => p.text.of = p.sent
    PROVE  Apis!Drawn(p) \in Preview /\ Shown(Apis!Drawn(p))
<1> DEFINE view == IF p.text = None THEN "empty" ELSE IF p.pretty /\ p.text.json THEN "pretty" ELSE "raw"
           q == Apis!Drawn(p)
<1>1. q = [p EXCEPT !.view = view] BY DEF Apis!Drawn
<1>2. view \in {"empty", "raw", "pretty"} /\ (view # "empty" => p.text # None) /\ (view = "pretty" => p.text.json)
  OBVIOUS
<1> HIDE DEF view, q
<1>3. /\ q \in Preview /\ q.sent = p.sent /\ q.waits = p.waits /\ q.text = p.text /\ q.enabled = p.enabled
      /\ q.view = view
  BY <1>1, <1>2 DEF Preview
<1>4. Shown(q) BY <1>2, <1>3 DEF Shown
<1> QED BY <1>3, <1>4 DEF q

LEMMA PreviewsAreGood ==
    ASSUME ApisAssumed, TabHolds, PreviewsHold, NEW id \in Endpoint,
           \/ Apis!OpenApiPreviewTab(id) \/ Apis!ClosePreview(id) \/ Apis!Send(id)
           \/ \E b \in BOOLEAN : Apis!Answer(id, b) \/ Apis!Present(id, b)
    PROVE  PreviewsHold'
<1> DEFINE p == previews[id]
<1>1. p \in Preview \cup {None} /\ (p # None => p \in Preview /\ Shown(p)) BY DEF PreviewsHold
<1>2. CASE Apis!OpenApiPreviewTab(id)
  <2>1. body.is = "list" /\ body.endpoints[id] # None /\ Apis!Previewed(id, body.endpoints[id].address)
    BY <1>2 DEF Apis!OpenApiPreviewTab
  <2>2. body.endpoints[id] \in Apis!Content BY <2>1, BodiesAre DEF TabHolds, Typed, Lists
  <2> QED BY <2>1, <2>2, ContentIsAForm, PreviewedIs
<1>3. CASE Apis!ClosePreview(id) BY <1>3, PreviewReplaced DEF Apis!ClosePreview
<1>4. CASE Apis!Send(id)
  <2> DEFINE q == Apis!Sent(p)
  <2>1. p # None /\ p \in Preview /\ previews' = [previews EXCEPT ![id] = q] BY <1>1, <1>4 DEF Apis!Send
  <2>2. q = [p EXCEPT !.waits = TRUE, !.sent = p.address, !.enabled = FALSE, !.view = "waiting"] BY DEF Apis!Sent
  <2> HIDE DEF q, p
  <2>3. q \in Preview /\ q.waits /\ q.view = "waiting" /\ ~q.enabled BY <2>1, <2>2 DEF Preview
  <2>4. Shown(q) BY <2>3 DEF Shown
  <2> QED BY <2>1, <2>3, <2>4, PreviewReplaced
<1>5. ASSUME NEW b \in BOOLEAN, Apis!Answer(id, b) PROVE PreviewsHold'
  <2> DEFINE text == [of |-> p.sent, json |-> b]
             a == [p EXCEPT !.waits = FALSE, !.text = text, !.pretty = b, !.enabled = TRUE]
  <2>1. p # None /\ p \in Preview /\ previews' = [previews EXCEPT ![id] = Apis!Drawn(a)] BY <1>1, <1>5 DEF Apis!Answer, Apis!Answered
  <2> HIDE DEF p
  <2>2. text \in [of : Address \cup {None}, json : BOOLEAN] /\ text.of = p.sent BY <2>1 DEF Preview
  <2> HIDE DEF text
  <2>3. a \in Preview /\ ~a.waits /\ a.text = text /\ a.sent = p.sent BY <2>1, <2>2 DEF Preview
  <2> HIDE DEF a
  <2>4. Apis!Drawn(a) \in Preview /\ Shown(Apis!Drawn(a)) BY <2>2, <2>3, DrawnIs
  <2> QED BY <2>1, <2>4, PreviewReplaced
<1>6. ASSUME NEW b \in BOOLEAN, Apis!Present(id, b) PROVE PreviewsHold'
  <2> DEFINE a == [p EXCEPT !.pretty = b]
  <2>1. p # None /\ p.enabled /\ p \in Preview /\ Shown(p) /\ previews' = [previews EXCEPT ![id] = Apis!Drawn(a)]
    BY <1>1, <1>6 DEF Apis!Present
  <2> HIDE DEF p
  <2>2. a \in Preview /\ a.waits = p.waits /\ a.text = p.text /\ a.sent = p.sent BY <2>1 DEF Preview
  <2> HIDE DEF a
  <2>3. ~a.waits /\ (a.text # None => a.text.of = a.sent) BY <2>1, <2>2 DEF Shown
  <2>4. Apis!Drawn(a) \in Preview /\ Shown(Apis!Drawn(a)) BY <2>2, <2>3, DrawnIs
  <2> QED BY <2>1, <2>4, PreviewReplaced
<1> QED BY <1>2, <1>3, <1>4, <1>5, <1>6

-----------------------------------------------------------------------------
(* Every step leaves the invariant standing *)

LEMMA FillsAreForms == ASSUME TabHolds, Apis!Fills PROVE \E form \in Forms : Apis!Fill(form)
<1>1. body.is = "editor" BY DEF Apis!Fills, Apis!Fill
<1>2. body.form \in Forms BY <1>1, BodiesAre DEF TabHolds, Typed
<1> QED BY <1>2, FormsAre DEF Apis!Fills

LEMMA TabIsGood ==
    ASSUME ApisInv, \/ Apis!OpenApisTab \/ Apis!CloseTab \/ Apis!Fills \/ Apis!Cancel \/ \E l \in apisLoads : Apis!ServeList(l) \/ Apis!ShowList(l) \/ Apis!LoadFails(l)
                    \/ \E id \in Endpoint : Apis!EditEndpoint(id)
    PROVE  ApisInv'
<1>1. TabHolds' BY OpeningIsGood, LoadsAreGood, EditingIsGood, FillsAreForms DEF ApisInv
<1>2. UNCHANGED <<previews, ran>>
  BY DEF Apis!OpenApisTab, Apis!CloseTab, Apis!Fills, Apis!Fill, Apis!Cancel, Apis!ServeList, Apis!ShowList, Apis!LoadFails, Apis!EditEndpoint
<1> QED BY <1>1, <1>2 DEF ApisInv, RanHolds, PreviewsHold, ApisAssumed

LEMMA CallsAreGood ==
    ASSUME ApisInv, NEW id \in Endpoint,
           \/ Apis!OpenApiPreviewTab(id) \/ Apis!ClosePreview(id) \/ Apis!Send(id)
           \/ \E b \in BOOLEAN : Apis!Answer(id, b) \/ Apis!Present(id, b)
    PROVE  ApisInv'
<1>1. PreviewsHold' BY PreviewsAreGood DEF ApisInv
<1>2. /\ UNCHANGED <<apisStored, open, body, newRequest, apisLoads, writes, ran, behind, nextLoad>>
      /\ Apis!Changing \/ apisChanges' = apisChanges
  BY DEF Apis!OpenApiPreviewTab, Apis!ClosePreview, Apis!Send, Apis!Answer, Apis!Present
<1>3. TabHolds' BY <1>2, ChangesAreTyped, TabStands DEF ApisInv, TabHolds, Typed
<1> QED BY <1>1, <1>2, <1>3 DEF ApisInv, RanHolds, ApisAssumed

LEMMA WritesAreGood ==
    ASSUME ApisInv, \/ \E e \in Drafts : Apis!Publish(e)
                    \/ Apis!Save("save") /\ UNCHANGED ran
                    \/ \E id \in Endpoint : Apis!Delete(id)
                    \/ Apis!Run
                    \/ \E w \in writes : Apis!ServeWrite(w) \/ Apis!Wrote(w) \/ Apis!WriteFails(w)
    PROVE  ApisInv'
<1>1. CASE (\E e \in Drafts : Apis!Publish(e)) \/ (Apis!Save("save") /\ UNCHANGED ran) \/ (\E id \in Endpoint : Apis!Delete(id))
  <2>1. TabHolds' BY <1>1, WritesAreAdded DEF ApisInv
  <2>2. UNCHANGED <<previews, ran>> BY <1>1 DEF Apis!Publish, Apis!Save, Apis!Delete
  <2> QED BY <2>1, <2>2 DEF ApisInv, RanHolds, PreviewsHold, ApisAssumed
<1>2. CASE Apis!Run
  <2>1. CASE Apis!Save("run") /\ UNCHANGED ran
    <3>1. TabHolds' BY <2>1, WritesAreAdded DEF ApisInv
    <3> QED BY <2>1, <3>1 DEF Apis!Save, ApisInv, RanHolds, PreviewsHold, ApisAssumed
  <2>2. CASE /\ ~Apis!HasUnsavedChanges /\ Apis!Changing /\ Apis!Previewed(body.id, body.endpoint.address)
             /\ ran' = [meant |-> Apis!Saved(body.form), called |-> body.endpoint]
             /\ UNCHANGED <<apisStored, open, body, newRequest, apisLoads, writes, behind, nextLoad>>
    <3>1. body.is = "editor" BY <1>2 DEF Apis!Run
    <3>2. body.endpoint \in Apis!Content /\ body.id \in Endpoint BY <3>1, BodiesAre DEF ApisInv, TabHolds, Typed
    <3>3. PreviewsHold' BY <2>2, <3>2, ContentIsAForm, PreviewedIs DEF ApisInv
    <3>4. Apis!Saved(body.form) = body.endpoint BY <2>2, <3>2, ContentIsAForm, SavedIs DEF Apis!HasUnsavedChanges
    <3>5. TabHolds' BY <2>2, ChangesAreTyped, TabStands DEF ApisInv, TabHolds, Typed
    <3> QED BY <2>2, <3>3, <3>4, <3>5 DEF ApisInv, RanHolds, ApisAssumed
  <2> QED BY <1>2, <2>1, <2>2 DEF Apis!Run
<1>3. ASSUME NEW w \in writes, Apis!ServeWrite(w) \/ Apis!Wrote(w) \/ Apis!WriteFails(w) PROVE ApisInv'
  <2>1. TabHolds' BY <1>3, WritesAreAnswered DEF ApisInv
  <2>2. CASE UNCHANGED <<previews, ran>> BY <2>1, <2>2 DEF ApisInv, RanHolds, PreviewsHold, ApisAssumed
  <2>3. CASE /\ w.kind = "run" /\ Apis!Previewed(w.id, w.content.address)
             /\ ran' = [meant |-> w.content, called |-> w.content]
    <3>1. w.id \in Endpoint /\ w.content \in Apis!Content BY <2>3, WritingIs DEF ApisInv, TabHolds, Typed
    <3>2. PreviewsHold' BY <2>3, <3>1, ContentIsAForm, PreviewedIs DEF ApisInv
    <3> QED BY <2>1, <2>3, <3>2 DEF ApisInv, RanHolds, ApisAssumed
  <2> QED BY <1>3, <2>2, <2>3 DEF Apis!ServeWrite, Apis!Wrote, Apis!WriteFails
<1> QED BY <1>1, <1>2, <1>3

LEMMA ApisBegins == ApisAssumed /\ Apis!Init => ApisInv
<1> SUFFICES ASSUME ApisAssumed, Apis!Init PROVE ApisInv OBVIOUS
<1>1. body \in Bodies /\ body.is = "nothing" BY BodiesThere DEF Apis!Init
<1>2. Typed
  <2>1. apisStored \in Lists BY DEF Apis!Init, ApisAssumed
  <2>2. open \in BOOLEAN /\ newRequest \in BOOLEAN /\ behind \in BOOLEAN /\ apisLoads = {} /\ writes = {} BY DEF Apis!Init
  <2>3. nextLoad \in 0..MaxLoads /\ apisChanges \in 0..MaxRequests BY DEF Apis!Init, ApisAssumed
  <2> QED BY <1>1, <2>1, <2>2, <2>3 DEF Typed
<1>3. LoadsFit(apisLoads, nextLoad) /\ Fits(body, newRequest, apisLoads, writes, apisStored, nextLoad)
  BY <1>1 DEF Apis!Init, LoadsFit, Fits
<1>4. TabHolds BY <1>1, <1>2, <1>3 DEF Apis!Init, TabHolds
<1>5. RanHolds /\ PreviewsHold BY DEF Apis!Init, RanHolds, PreviewsHold
<1> QED BY <1>4, <1>5 DEF ApisInv

LEMMA ApisGoesOn == ApisInv /\ [Apis!Next]_(Apis!vars) => ApisInv'
<1> SUFFICES ASSUME ApisInv, [Apis!Next]_(Apis!vars) PROVE ApisInv' OBVIOUS
<1>1. CASE Apis!Next BY <1>1, TabIsGood, CallsAreGood, WritesAreGood DEF Apis!Next
<1>2. CASE UNCHANGED Apis!vars BY <1>2 DEF Apis!vars, ApisInv, TabHolds, Typed, RanHolds, PreviewsHold, ApisAssumed
<1> QED BY <1>1, <1>2

LEMMA ApisSuffices ==
    ApisInv => /\ Apis!TypeOK
               /\ Apis!ListIsCurrent /\ Apis!ButtonFitsTheBody /\ Apis!RunsWhatIsShown /\ Apis!ResponseIsOfItsRequest
<1> SUFFICES ASSUME ApisInv
             PROVE  Apis!TypeOK /\ Apis!ListIsCurrent /\ Apis!ButtonFitsTheBody /\ Apis!RunsWhatIsShown /\ Apis!ResponseIsOfItsRequest
  OBVIOUS
<1>1. Apis!TypeOK
  <2>1. body.is \in {"nothing", "loading", "list", "error", "editor"} BY BodiesAre DEF ApisInv, TabHolds, Typed
  <2>2. body.is = "editor" => body.endpoint \in Apis!Content /\ body.form.sql \in Sql
    BY BodiesAre, FormsAre DEF ApisInv, TabHolds, Typed
  <2>3. \A w \in writes : w.done \in BOOLEAN BY WritingIs DEF ApisInv, TabHolds, Typed
  <2> QED BY <2>1, <2>2, <2>3 DEF ApisInv, TabHolds, Typed, LoadsFit, Lists, Apis!TypeOK
<1>2. Apis!ListIsCurrent BY DEF ApisInv, TabHolds, Fits, DoneIn, Apis!ListIsCurrent
<1>3. Apis!ButtonFitsTheBody BY DEF ApisInv, TabHolds, Fits, Apis!ButtonFitsTheBody
<1>4. Apis!RunsWhatIsShown BY DEF ApisInv, RanHolds, Apis!RunsWhatIsShown
<1>5. Apis!ResponseIsOfItsRequest BY DEF ApisInv, PreviewsHold, Shown, Apis!ResponseIsOfItsRequest
<1> QED BY <1>1, <1>2, <1>3, <1>4, <1>5

-----------------------------------------------------------------------------
(* ---- The saved queries ---- *)

Saved == INSTANCE SavedQueries WITH
    Tab <- ToolTab, Name <- QueryName, Sql <- QueryText, MaxChanges <- MaxSaves,
    listed <- savedListed, requests <- savedRequests, changes <- savedChanges

\* The modules of the library are the same in every instance.
LEMMA SavedCardinality == \A S : Saved!Cardinality(S) = Cardinality(S)
BY DEF Saved!Cardinality, Cardinality

SavedAssumed ==
    /\ IsFiniteSet(ToolTab) /\ ConnectionOf \in [ToolTab -> Connection] /\ MaxSaves \in Nat
    /\ Stores \subseteq Seq(Saved!Query)

\* Below, n is how many ids were given and nm the name that each of them goes by: what may
\* name a query, a list, a dialog or a request, names it so.
ListFits(a, n, nm) ==
    DOMAIN a \subseteq 1..n /\ \A id \in DOMAIN a : a[id] \in Saved!Query /\ a[id].name = nm[id]

DialogFits(d, c, n, nm) ==
    /\ d.kind \in {"save", "delete"} /\ d.n \in Nat /\ d.n <= c
    /\ d.id \in 1..n \cup {None} /\ (d.id # None => d.name = nm[d.id])
    /\ d.kind = "save" => d.sql \in QueryText
    /\ d.kind = "delete" => d.id \in 1..n /\ d.name = nm[d.id]

SavedRequestFits(r, n, nm) ==
    /\ r.tab \in ToolTab /\ r.kind \in {"list", "save", "delete"} /\ r.id \in 1..n \cup {None}
    /\ r.kind = "list" => (r.answer # None => \A a \in r.answer : ListFits(a, n, nm))
    /\ r.kind = "save" => /\ r.query \in Saved!Query /\ (r.id # None => r.query.name = nm[r.id])
                          /\ r.answer # None => r.answer \subseteq 1..n
    /\ r.kind = "delete" => r.id \in 1..n /\ r.name = nm[r.id]

NamesHold(n, nm) ==
    /\ nm \in [1..n -> QueryName]
    /\ ListFits(store, n, nm)
    /\ \A t \in ToolTab : ListFits(savedListed[t], n, nm) /\ (dialog[t] # None => DialogFits(dialog[t], savedChanges, n, nm))
    /\ \A r \in savedRequests : SavedRequestFits(r, n, nm)

PageHolds ==
    /\ DOMAIN savedListed = ToolTab /\ DOMAIN selected = ToolTab /\ DOMAIN option = ToolTab /\ DOMAIN dialog = ToolTab
    /\ editor \in [ToolTab -> QueryText \cup {None}] /\ savedChanges \in 0..MaxSaves /\ ids \in Nat
    /\ \A t \in ToolTab : /\ selected[t] \in 1..ids \cup {None}
                          /\ option[t] # None => option[t] = selected[t] /\ Saved!Chosen(t)
                          /\ Saved!Chosen(t) => option[t] = selected[t]

Counted == IsFiniteSet(savedRequests) /\ Cardinality(savedRequests) <= savedChanges + Cardinality(ToolTab)

SavedInv == SavedAssumed /\ PageHolds /\ Counted /\ \E nm : NamesHold(ids, nm)

LEMMA SavedSuffices == SavedInv => Saved!TypeOK /\ Saved!SavedAreAsNamed
<1> SUFFICES ASSUME SavedInv PROVE Saved!TypeOK /\ Saved!SavedAreAsNamed OBVIOUS
<1>1. PICK nm : NamesHold(ids, nm) BY DEF SavedInv
<1>2. Saved!TypeOK
  <2>1. Saved!Range(store) \subseteq Saved!Query /\ \A t \in ToolTab : Saved!Range(savedListed[t]) \subseteq Saved!Query
    BY <1>1 DEF NamesHold, ListFits, Saved!Range
  <2>2. \A t \in ToolTab : option[t] \in 1..ids \cup {None} BY DEF SavedInv, PageHolds
  <2> QED BY <1>1, <2>1, <2>2, SavedCardinality DEF SavedInv, PageHolds, Counted, NamesHold, ListFits, DialogFits, Saved!TypeOK
<1>3. Saved!SavedAreAsNamed BY <1>1 DEF SavedInv, PageHolds, NamesHold, ListFits, SavedRequestFits, Saved!SavedAreAsNamed
<1> QED BY <1>2, <1>3

LEMMA SavedBegins == ASSUME SavedAssumed, Saved!Init PROVE SavedInv
<1> DEFINE n == Len(store)
<1>0. store \in Seq(Saved!Query) BY DEF SavedAssumed, Saved!Init
<1>1. n \in Nat /\ store \in [1..n -> Saved!Query] BY <1>0, ElementOfSeq, SeqDef
<1> HIDE DEF n
<1>2. ids = n BY <1>1, FS_Interval, SavedCardinality DEF Saved!Init
<1> DEFINE nm == [id \in 1..ids |-> store[id].name]
           first(t) == Saved!Listing(0, t, None, None)
<1>3. nm \in [1..ids -> QueryName] /\ ListFits(store, ids, nm) BY <1>1, <1>2 DEF ListFits, Saved!Query
<1>4. \A t \in ToolTab : ListFits(savedListed[t], ids, nm) BY DEF Saved!Init, ListFits
<1>5. \A r \in savedRequests : SavedRequestFits(r, ids, nm) BY DEF Saved!Init, SavedRequestFits, Saved!Listing
<1>6. NamesHold(ids, nm) BY <1>3, <1>4, <1>5 DEF NamesHold, Saved!Init
<1>7. PageHolds BY <1>1, <1>2 DEF Saved!Init, PageHolds, Saved!Chosen, SavedAssumed
<1>8. Counted
  <2>1. [t \in ToolTab |-> first(t)] \in Surjection(ToolTab, savedRequests) BY DEF Surjection, Saved!Init
  <2>2. IsFiniteSet(savedRequests) /\ Cardinality(savedRequests) <= Cardinality(ToolTab) BY <2>1, FS_Surjection DEF SavedAssumed
  <2>3. Cardinality(ToolTab) \in Nat /\ Cardinality(savedRequests) \in Nat BY <2>2, FS_CardinalityType DEF SavedAssumed
  <2> QED BY <2>2, <2>3 DEF Counted, Saved!Init
<1> QED BY <1>6, <1>7, <1>8 DEF SavedInv

-----------------------------------------------------------------------------
(* Names *)

\* One more id does not touch the names before it.
LEMMA Grow ==
    ASSUME NEW n \in Nat, NEW nm, NEW more,
           \A id \in 1..n : more[id] = nm[id]
    PROVE  /\ \A a : ListFits(a, n, nm) => ListFits(a, n + 1, more)
           /\ \A d, c : DialogFits(d, c, n, nm) => DialogFits(d, c, n + 1, more)
           /\ \A r : SavedRequestFits(r, n, nm) => SavedRequestFits(r, n + 1, more)
<1>1. 1..n \subseteq 1..(n + 1) OBVIOUS
<1>2. \A a : ListFits(a, n, nm) => ListFits(a, n + 1, more) BY <1>1 DEF ListFits
<1>3. \A d, c : DialogFits(d, c, n, nm) => DialogFits(d, c, n + 1, more) BY <1>1 DEF DialogFits
<1>4. \A r : SavedRequestFits(r, n, nm) => SavedRequestFits(r, n + 1, more) BY <1>1, <1>2 DEF SavedRequestFits
<1> QED BY <1>2, <1>3, <1>4

\* A step of the person or of an answer leaves the store alone and names nothing anew.
LEMMA NamesStay ==
    ASSUME SavedInv, UNCHANGED <<store, ids>>, savedChanges' >= savedChanges, savedChanges' \in Nat,
           NEW nm, NamesHold(ids, nm),
           \A t \in ToolTab : \/ savedListed'[t] = savedListed[t]
                              \/ ListFits(savedListed'[t], ids, nm),
           \A t \in ToolTab : dialog'[t] \in {dialog[t], None} \/ DialogFits(dialog'[t], savedChanges', ids, nm),
           \A r \in savedRequests' : r \in savedRequests \/ SavedRequestFits(r, ids, nm)
    PROVE  \E names : NamesHold(ids, names)'
<1>1. \A t \in ToolTab : ListFits(savedListed'[t], ids, nm) BY DEF NamesHold
<1>2. \A t \in ToolTab : dialog'[t] # None => DialogFits(dialog'[t], savedChanges', ids, nm)
  <2> SUFFICES ASSUME NEW t \in ToolTab, dialog'[t] # None, dialog'[t] = dialog[t] PROVE DialogFits(dialog'[t], savedChanges', ids, nm)
    OBVIOUS
  <2>1. DialogFits(dialog[t], savedChanges, ids, nm) BY DEF NamesHold
  <2>2. savedChanges \in Nat BY DEF SavedInv, PageHolds
  <2> QED BY <2>1, <2>2 DEF DialogFits
<1>3. \A r \in savedRequests' : SavedRequestFits(r, ids, nm) BY DEF NamesHold
<1>4. NamesHold(ids, nm)'
  BY <1>1, <1>2, <1>3 DEF NamesHold
<1> QED BY <1>4

\* A request takes the place of another, or is over, and each thing the person does asks
\* once at most.
LEMMA CountStays ==
    ASSUME SavedInv, savedChanges' \in Nat, savedChanges' >= savedChanges,
           \/ savedRequests' \subseteq savedRequests
           \/ \E r \in savedRequests : \E new : savedRequests' = (savedRequests \ {r}) \cup {new}
           \/ savedChanges' = savedChanges + 1 /\ \E new : savedRequests' = savedRequests \cup {new}
    PROVE  Counted'
<1>1. /\ IsFiniteSet(savedRequests) /\ Cardinality(savedRequests) \in Nat /\ Cardinality(ToolTab) \in Nat /\ savedChanges \in Nat
      /\ Cardinality(savedRequests) <= savedChanges + Cardinality(ToolTab)
  BY FS_CardinalityType DEF SavedInv, SavedAssumed, Counted, PageHolds
<1>2. CASE savedRequests' \subseteq savedRequests
  <2>1. IsFiniteSet(savedRequests') /\ Cardinality(savedRequests') <= Cardinality(savedRequests) BY <1>1, <1>2, FS_Subset
  <2>2. Cardinality(savedRequests') \in Nat BY <2>1, FS_CardinalityType
  <2> QED BY <1>1, <2>1, <2>2 DEF Counted
<1>3. ASSUME NEW r \in savedRequests, NEW new, savedRequests' = (savedRequests \ {r}) \cup {new} PROVE Counted'
  <2>1. IsFiniteSet(savedRequests \ {r}) /\ Cardinality(savedRequests \ {r}) = Cardinality(savedRequests) - 1
    BY <1>1, FS_RemoveElement
  <2>2. IsFiniteSet(savedRequests') /\ Cardinality(savedRequests') <= Cardinality(savedRequests \ {r}) + 1
    <3>1. IsFiniteSet((savedRequests \ {r}) \cup {new})
          /\ Cardinality((savedRequests \ {r}) \cup {new}) \in {Cardinality(savedRequests \ {r}), Cardinality(savedRequests \ {r}) + 1}
      BY <2>1, FS_AddElement
    <3>2. Cardinality(savedRequests \ {r}) \in Nat BY <2>1, FS_CardinalityType
    <3> QED BY <1>3, <3>1, <3>2
  <2>3. Cardinality(savedRequests') \in Nat BY <2>2, FS_CardinalityType
  <2> QED BY <1>1, <2>1, <2>2, <2>3 DEF Counted
<1>4. ASSUME NEW new, savedRequests' = savedRequests \cup {new}, savedChanges' = savedChanges + 1 PROVE Counted'
  <2>1. IsFiniteSet(savedRequests') /\ Cardinality(savedRequests') <= Cardinality(savedRequests) + 1
    BY <1>1, <1>4, FS_AddElement
  <2>2. Cardinality(savedRequests') \in Nat BY <2>1, FS_CardinalityType
  <2> QED BY <1>1, <1>4, <2>1, <2>2 DEF Counted
<1> QED BY <1>2, <1>3, <1>4

-----------------------------------------------------------------------------
(* The person *)

LEMMA SavedChangingIs == ASSUME SavedInv, Saved!Changing PROVE savedChanges' = savedChanges + 1 /\ savedChanges' \in 0..MaxSaves
BY DEF SavedInv, PageHolds, SavedAssumed, Saved!Changing

LEMMA TypeStep == ASSUME SavedInv, NEW t \in ToolTab, NEW sql \in QueryText \cup {None}, Saved!Type(t, sql) PROVE SavedInv'
<1>1. /\ savedChanges' = savedChanges + 1 /\ savedChanges' \in 0..MaxSaves /\ editor' = [editor EXCEPT ![t] = sql]
      /\ UNCHANGED <<store, ids, savedListed, selected, option, dialog, savedRequests>>
  BY SavedChangingIs DEF Saved!Type
<1>2. PageHolds' BY <1>1 DEF SavedInv, PageHolds, Saved!Chosen
<1>3. PICK nm : NamesHold(ids, nm) BY DEF SavedInv
<1>4. \E names : NamesHold(ids, names)'
  <2>1. savedChanges' >= savedChanges /\ savedChanges' \in Nat BY <1>1 DEF SavedInv, PageHolds
  <2> QED BY <1>1, <1>3, <2>1, NamesStay
<1>5. Counted' BY <1>1, CountStays DEF SavedInv, PageHolds
<1> QED BY <1>2, <1>4, <1>5 DEF SavedInv, SavedAssumed

LEMMA PickStep ==
    ASSUME SavedInv, NEW t \in ToolTab, NEW id \in DOMAIN savedListed[t] \cup {None}, Saved!Pick(t, id) PROVE SavedInv'
<1>1. /\ savedChanges' = savedChanges + 1 /\ savedChanges' \in 0..MaxSaves
      /\ option' = [option EXCEPT ![t] = id] /\ selected' = [selected EXCEPT ![t] = id]
      /\ editor' = IF id = None THEN editor ELSE [editor EXCEPT ![t] = savedListed[t][id].sql]
      /\ UNCHANGED <<store, ids, savedListed, dialog, savedRequests>>
  BY SavedChangingIs DEF Saved!Pick
<1>3. PICK nm : NamesHold(ids, nm) BY DEF SavedInv
<1>6. id \in 1..ids \cup {None} /\ (id # None => savedListed[t][id].sql \in QueryText)
  BY <1>3 DEF NamesHold, ListFits, Saved!Query
<1>2. PageHolds' BY <1>1, <1>6 DEF SavedInv, PageHolds, Saved!Chosen
<1>4. \E names : NamesHold(ids, names)'
  <2>1. savedChanges' >= savedChanges /\ savedChanges' \in Nat BY <1>1 DEF SavedInv, PageHolds
  <2> QED BY <1>1, <1>3, <2>1, NamesStay
<1>5. Counted' BY <1>1, CountStays DEF SavedInv, PageHolds
<1> QED BY <1>2, <1>4, <1>5 DEF SavedInv, SavedAssumed

\* A dialog opens, which fits, or the one that is open closes.
LEMMA DialogIsGood ==
    ASSUME SavedInv, NEW t \in ToolTab, NEW d, Saved!Changing, UNCHANGED <<store, ids, Saved!page, savedRequests>>,
           dialog' = [dialog EXCEPT ![t] = d],
           NEW nm, NamesHold(ids, nm), d = None \/ DialogFits(d, savedChanges, ids, nm)
    PROVE  SavedInv'
<1>1. savedChanges' = savedChanges + 1 /\ savedChanges' \in 0..MaxSaves BY SavedChangingIs
<1>2. PageHolds' BY <1>1 DEF SavedInv, PageHolds, Saved!Chosen, Saved!page
<1>3. savedChanges' >= savedChanges /\ savedChanges' \in Nat /\ savedChanges \in Nat BY <1>1 DEF SavedInv, PageHolds
<1>4. d = None \/ DialogFits(d, savedChanges', ids, nm) BY <1>1, <1>3 DEF DialogFits
<1>5. \A u \in ToolTab : dialog'[u] \in {dialog[u], None} \/ DialogFits(dialog'[u], savedChanges', ids, nm)
  BY <1>4 DEF SavedInv, PageHolds
<1>6. \E names : NamesHold(ids, names)' BY <1>3, <1>5, NamesStay DEF Saved!page
<1>7. Counted' BY <1>1, <1>3, CountStays
<1> QED BY <1>2, <1>6, <1>7 DEF SavedInv, SavedAssumed

LEMMA SavedClickStep == ASSUME SavedInv, NEW t \in ToolTab, Saved!ClickSave(t) \/ Saved!ClickDelete(t) \/ Saved!Cancel(t) PROVE SavedInv'
<1>1. PICK nm : NamesHold(ids, nm) BY DEF SavedInv
<1>2. Saved!Chosen(t) => /\ selected[t] \in 1..ids /\ savedListed[t][selected[t]].name = nm[selected[t]]
  BY <1>1 DEF NamesHold, ListFits, Saved!Chosen
<1>3. savedChanges \in Nat BY DEF SavedInv, PageHolds
<1>4. CASE Saved!ClickSave(t)
  <2> DEFINE d == [kind |-> "save", n |-> savedChanges, sql |-> editor[t], id |-> IF Saved!Chosen(t) THEN selected[t] ELSE None,
                   name |-> IF Saved!Chosen(t) THEN savedListed[t][selected[t]].name ELSE None]
  <2>1. editor[t] \in QueryText BY <1>4 DEF Saved!ClickSave, SavedInv, PageHolds
  <2>2. DialogFits(d, savedChanges, ids, nm) BY <1>2, <1>3, <2>1 DEF DialogFits
  <2>3. Saved!Changing /\ UNCHANGED <<store, ids, Saved!page, savedRequests>> /\ dialog' = [dialog EXCEPT ![t] = d]
    BY <1>4 DEF Saved!ClickSave, Saved!Open
  <2> QED BY <1>1, <2>2, <2>3, DialogIsGood
<1>5. CASE Saved!ClickDelete(t)
  <2> DEFINE d == [kind |-> "delete", n |-> savedChanges, id |-> selected[t], name |-> savedListed[t][selected[t]].name]
  <2>1. DialogFits(d, savedChanges, ids, nm) BY <1>2, <1>3, <1>5 DEF DialogFits, Saved!ClickDelete
  <2>2. Saved!Changing /\ UNCHANGED <<store, ids, Saved!page, savedRequests>> /\ dialog' = [dialog EXCEPT ![t] = d]
    BY <1>5 DEF Saved!ClickDelete, Saved!Open
  <2> QED BY <1>1, <2>1, <2>2, DialogIsGood
<1>6. CASE Saved!Cancel(t) BY <1>1, <1>6, DialogIsGood DEF Saved!Cancel
<1> QED BY <1>4, <1>5, <1>6

\* What a dialog asks for names what it holds on to.
LEMMA AskingIsGood ==
    ASSUME SavedInv, NEW new, Saved!Changing, Saved!Send(new), UNCHANGED <<store, ids, Saved!page, dialog>>,
           NEW nm, NamesHold(ids, nm), SavedRequestFits(new, ids, nm)
    PROVE  SavedInv'
<1>1. savedChanges' = savedChanges + 1 /\ savedChanges' \in 0..MaxSaves BY SavedChangingIs
<1>2. PageHolds' BY <1>1 DEF SavedInv, PageHolds, Saved!Chosen, Saved!page
<1>3. savedChanges' >= savedChanges /\ savedChanges' \in Nat BY <1>1 DEF SavedInv, PageHolds
<1>4. \E names : NamesHold(ids, names)' BY <1>3, NamesStay DEF Saved!page, Saved!Send
<1>5. Counted' BY <1>1, <1>3, CountStays DEF Saved!Send
<1> QED BY <1>2, <1>4, <1>5 DEF SavedInv, SavedAssumed

LEMMA SaveStep == ASSUME SavedInv, NEW t \in ToolTab, NEW name \in QueryName, Saved!Save(t, name) PROVE SavedInv'
<1>1. PICK nm : NamesHold(ids, nm) BY DEF SavedInv
<1> DEFINE query == [name |-> name, sql |-> dialog[t].sql, connection |-> ConnectionOf[t]]
           new == [n |-> savedChanges + 1, tab |-> t, kind |-> "save", dialog |-> dialog[t], answer |-> None,
                   id |-> IF Saved!Overwrites(dialog[t], name) THEN dialog[t].id ELSE None, query |-> query]
<1>2. DialogFits(dialog[t], savedChanges, ids, nm) /\ dialog[t].kind = "save" BY <1>1 DEF Saved!Save, NamesHold
<1>3. query \in Saved!Query BY <1>2 DEF DialogFits, Saved!Query, SavedInv, SavedAssumed
<1>4. SavedRequestFits(new, ids, nm) BY <1>2, <1>3 DEF DialogFits, SavedRequestFits, Saved!Overwrites
<1>5. Saved!Changing /\ Saved!Send(new) /\ UNCHANGED <<store, ids, Saved!page, dialog>> BY DEF Saved!Save
<1> QED BY <1>1, <1>4, <1>5, AskingIsGood

LEMMA SavedDeleteStep == ASSUME SavedInv, NEW t \in ToolTab, Saved!Delete(t) PROVE SavedInv'
<1>1. PICK nm : NamesHold(ids, nm) BY DEF SavedInv
<1> DEFINE new == [n |-> savedChanges + 1, tab |-> t, kind |-> "delete", dialog |-> dialog[t], answer |-> None,
                   id |-> dialog[t].id, name |-> dialog[t].name]
<1>2. DialogFits(dialog[t], savedChanges, ids, nm) /\ dialog[t].kind = "delete" BY <1>1 DEF Saved!Delete, NamesHold
<1>3. SavedRequestFits(new, ids, nm) BY <1>2 DEF DialogFits, SavedRequestFits
<1>4. Saved!Changing /\ Saved!Send(new) /\ UNCHANGED <<store, ids, Saved!page, dialog>> BY DEF Saved!Delete
<1> QED BY <1>1, <1>3, <1>4, AskingIsGood

-----------------------------------------------------------------------------
(* The server *)

\* A request that is served still names what it named.
LEMMA ToldFits ==
    ASSUME NEW r, NEW answer, NEW n \in Nat, NEW nm, SavedRequestFits(r, n, nm),
           r.kind = "list" => \A a \in answer : ListFits(a, n, nm),
           r.kind = "save" => answer \subseteq 1..n
    PROVE  SavedRequestFits([r EXCEPT !.answer = answer], n, nm)
<1> DEFINE s == [r EXCEPT !.answer = answer]
<1>1. /\ s.tab = r.tab /\ s.kind = r.kind /\ s.id = r.id /\ s.query = r.query /\ s.name = r.name
      /\ s.answer = answer
  OBVIOUS
<1> HIDE DEF s
<1>2. SavedRequestFits(s, n, nm) BY <1>1 DEF SavedRequestFits
<1> QED BY <1>2 DEF s

\* What the page and the requests hold, when the store or the number of ids changes.
LEMMA ServedIsGood ==
    ASSUME SavedInv, NEW r \in savedRequests, UNCHANGED <<Saved!page, dialog, savedChanges>>,
           NEW answer, Saved!Told(r, answer), ids' \in Nat, ids' >= ids,
           NEW more, more \in [1..ids' -> QueryName], ListFits(store', ids', more),
           \A t \in ToolTab : /\ ListFits(savedListed[t], ids', more)
                              /\ dialog[t] # None => DialogFits(dialog[t], savedChanges, ids', more),
           \A q \in savedRequests : SavedRequestFits(q, ids', more),
           r.kind = "list" => \A a \in answer : ListFits(a, ids', more),
           r.kind = "save" => answer \subseteq 1..ids'
    PROVE  SavedInv'
<1> DEFINE s == [r EXCEPT !.answer = answer]
<1>1. savedRequests' = (savedRequests \ {r}) \cup {s} BY DEF Saved!Told
<1>2. SavedRequestFits(s, ids', more) BY ToldFits
<1> HIDE DEF s
<1>3. \E names : NamesHold(ids, names)'
  <2>1. \A t \in ToolTab : /\ ListFits(savedListed'[t], ids', more)
                           /\ dialog'[t] # None => DialogFits(dialog'[t], savedChanges', ids', more)
    BY DEF Saved!page
  <2>2. \A q \in savedRequests' : SavedRequestFits(q, ids', more) BY <1>1, <1>2
  <2>3. NamesHold(ids, more)' BY <2>1, <2>2 DEF NamesHold
  <2> QED BY <2>3
<1>4. PageHolds' BY DEF SavedInv, PageHolds, Saved!page, Saved!Chosen
<1>5. Counted'
  <2>1. savedChanges' = savedChanges /\ savedChanges' \in Nat BY DEF SavedInv, PageHolds
  <2>2. \E q \in savedRequests : \E new : savedRequests' = (savedRequests \ {q}) \cup {new} BY <1>1
  <2>3. savedChanges' \in Nat /\ savedChanges' >= savedChanges BY <2>1
  <2> QED BY <2>2, <2>3, CountStays
<1>6. SavedAssumed' BY DEF SavedInv, SavedAssumed
<1> QED BY <1>3, <1>4, <1>5, <1>6 DEF SavedInv

LEMMA ServeStep == ASSUME SavedInv, NEW r \in savedRequests, Saved!Serve(r) PROVE SavedInv'
<1>1. PICK nm : NamesHold(ids, nm) BY DEF SavedInv
<1>2. SavedRequestFits(r, ids, nm) /\ nm \in [1..ids -> QueryName] /\ ListFits(store, ids, nm) BY <1>1 DEF NamesHold
<1>3. ids \in Nat BY DEF SavedInv, PageHolds
<1>4. UNCHANGED <<Saved!page, dialog, savedChanges>> BY DEF Saved!Serve
<1>5. /\ \A t \in ToolTab : /\ ListFits(savedListed[t], ids, nm)
                            /\ dialog[t] # None => DialogFits(dialog[t], savedChanges, ids, nm)
      /\ \A q \in savedRequests : SavedRequestFits(q, ids, nm)
  BY <1>1 DEF NamesHold
<1>6. CASE Saved!ServeList(r)
  <2> DEFINE own == Saved!Restrict(store, {id \in DOMAIN store : store[id].connection = ConnectionOf[r.tab]})
  <2>1. ListFits(own, ids, nm) BY <1>2 DEF ListFits, Saved!Restrict
  <2>2. Saved!Told(r, {own}) /\ UNCHANGED <<store, ids>> /\ r.kind = "list" BY <1>6 DEF Saved!ServeList
  <2> HIDE DEF own
  <2> QED BY <1>2, <1>3, <1>4, <1>5, <2>1, <2>2, ServedIsGood
<1>7. CASE Saved!ServeSave(r) /\ r.id # None
  <2>1. /\ r.kind = "save" /\ Saved!Told(r, {r.id}) /\ ids' = ids /\ r.id \in 1..ids
        /\ store' = [i \in DOMAIN store \cup {r.id} |-> IF i = r.id THEN r.query ELSE store[i]]
    BY <1>2, <1>7 DEF Saved!ServeSave, SavedRequestFits
  <2>2. r.query \in Saved!Query /\ r.query.name = nm[r.id] BY <1>2, <1>7, <2>1 DEF SavedRequestFits
  <2>3. DOMAIN store \subseteq 1..ids /\ \A id \in DOMAIN store : store[id] \in Saved!Query /\ store[id].name = nm[id]
    BY <1>2 DEF ListFits
  <2>4. DOMAIN store' = DOMAIN store \cup {r.id} BY <2>1
  <2>5. \A id \in DOMAIN store' : store'[id] \in Saved!Query /\ store'[id].name = nm[id] BY <2>1, <2>2, <2>3
  <2>6. ListFits(store', ids, nm) BY <2>1, <2>3, <2>4, <2>5 DEF ListFits
  <2>7. ids' \in Nat /\ ids' >= ids /\ nm \in [1..ids' -> QueryName] /\ ListFits(store', ids', nm) /\ {r.id} \subseteq 1..ids'
    BY <1>2, <1>3, <2>1, <2>6
  <2>8. /\ \A t \in ToolTab : /\ ListFits(savedListed[t], ids', nm)
                              /\ dialog[t] # None => DialogFits(dialog[t], savedChanges, ids', nm)
        /\ \A q \in savedRequests : SavedRequestFits(q, ids', nm)
    BY <1>5, <2>1
  <2> QED BY <1>4, <2>1, <2>7, <2>8, ServedIsGood
<1>8. CASE Saved!ServeSave(r) /\ r.id = None
  <2> DEFINE more == [i \in 1..(ids + 1) |-> IF i = ids + 1 THEN r.query.name ELSE nm[i]]
  <2>1. /\ r.kind = "save" /\ Saved!Told(r, {ids + 1}) /\ ids' = ids + 1
        /\ store' = [i \in DOMAIN store \cup {ids + 1} |-> IF i = ids + 1 THEN r.query ELSE store[i]]
    BY <1>8 DEF Saved!ServeSave
  <2>2. r.query \in Saved!Query /\ r.query.name \in QueryName BY <1>2, <2>1 DEF SavedRequestFits, Saved!Query
  <2>3. more \in [1..(ids + 1) -> QueryName] BY <1>2, <1>3, <2>2
  <2>4. (\A i \in 1..ids : more[i] = nm[i]) /\ more[ids + 1] = r.query.name BY <1>3
  <2> HIDE DEF more
  <2>5. ListFits(store, ids + 1, more) BY <1>2, <1>3, <2>4, Grow
  <2>6. ListFits(store', ids + 1, more) BY <1>3, <2>1, <2>2, <2>4, <2>5 DEF ListFits
  <2>7. /\ \A t \in ToolTab : /\ ListFits(savedListed[t], ids + 1, more)
                              /\ dialog[t] # None => DialogFits(dialog[t], savedChanges, ids + 1, more)
        /\ \A q \in savedRequests : SavedRequestFits(q, ids + 1, more)
    BY <1>3, <1>5, <2>4, Grow
  <2>8. ids' \in Nat /\ ids' >= ids /\ {ids + 1} \subseteq 1..ids' BY <1>3, <2>1
  <2> QED BY <1>4, <2>1, <2>3, <2>6, <2>7, <2>8, ServedIsGood
<1>9. CASE Saved!ServeDelete(r)
  <2> DEFINE answer == {r.id \in DOMAIN store}
  <2>1. store' = [id \in DOMAIN store \ {r.id} |-> store[id]] BY <1>9 DEF Saved!ServeDelete, Saved!Restrict
  <2>2. r.kind = "delete" /\ Saved!Told(r, answer) /\ UNCHANGED ids BY <1>9 DEF Saved!ServeDelete
  <2> HIDE DEF answer
  <2>3. ListFits(store', ids, nm) BY <1>2, <2>1 DEF ListFits
  <2>4. ids' \in Nat /\ ids' >= ids /\ nm \in [1..ids' -> QueryName] /\ ListFits(store', ids', nm)
    BY <1>2, <1>3, <2>2, <2>3
  <2>5. /\ \A t \in ToolTab : /\ ListFits(savedListed[t], ids', nm)
                              /\ dialog[t] # None => DialogFits(dialog[t], savedChanges, ids', nm)
        /\ \A q \in savedRequests : SavedRequestFits(q, ids', nm)
    BY <1>5, <2>2
  <2> QED BY <1>4, <2>2, <2>4, <2>5, ServedIsGood
<1> QED BY <1>6, <1>7, <1>8, <1>9 DEF Saved!Serve

-----------------------------------------------------------------------------
(* The answers *)

LEMMA ListToldStep ==
    ASSUME SavedInv, NEW r \in savedRequests, NEW nm, NamesHold(ids, nm), NEW queries, ListFits(queries, ids, nm),
           Saved!ListTold(r, queries), UNCHANGED <<store, ids>>
    PROVE  SavedInv'
<1>1. SavedRequestFits(r, ids, nm) BY DEF NamesHold
<1>2. /\ savedListed' = [savedListed EXCEPT ![r.tab] = queries] /\ selected' = [selected EXCEPT ![r.tab] = r.id]
      /\ option' = [option EXCEPT ![r.tab] = IF r.id \in DOMAIN queries THEN r.id ELSE None]
      /\ dialog' = [dialog EXCEPT ![r.tab] = IF @ = r.dialog THEN None ELSE @]
      /\ savedRequests' = savedRequests \ {r} /\ UNCHANGED <<editor, savedChanges>>
  BY DEF Saved!ListTold, Saved!Closed
<1>3. r.tab \in ToolTab /\ r.id \in 1..ids \cup {None} BY <1>1 DEF SavedRequestFits
<1>4. PageHolds' BY <1>2, <1>3 DEF SavedInv, PageHolds, Saved!Chosen
<1>5. savedChanges' >= savedChanges /\ savedChanges' \in Nat BY <1>2 DEF SavedInv, PageHolds
<1>6. \A t \in ToolTab : savedListed'[t] = savedListed[t] \/ ListFits(savedListed'[t], ids, nm) BY <1>2 DEF SavedInv, PageHolds
<1>7. \A t \in ToolTab : dialog'[t] \in {dialog[t], None} BY <1>2 DEF SavedInv, PageHolds
<1>8. \E names : NamesHold(ids, names)' BY <1>2, <1>5, <1>6, <1>7, NamesStay
<1>9. Counted' BY <1>2, <1>5, CountStays
<1>10. SavedAssumed' BY DEF SavedInv, SavedAssumed
<1> QED BY <1>4, <1>8, <1>9, <1>10 DEF SavedInv

\* Of the request alone, and of dialogs that close.
LEMMA PassedOnIsGood ==
    ASSUME SavedInv, NEW r \in savedRequests, NEW nm, NamesHold(ids, nm), UNCHANGED <<store, ids, Saved!page, savedChanges>>,
           DOMAIN dialog' = ToolTab, \A t \in ToolTab : dialog'[t] \in {dialog[t], None},
           \/ savedRequests' = savedRequests \ {r}
           \/ \E new : savedRequests' = (savedRequests \ {r}) \cup {new} /\ SavedRequestFits(new, ids, nm)
    PROVE  SavedInv'
<1>1. PageHolds' BY DEF SavedInv, PageHolds, Saved!page, Saved!Chosen
<1>2. savedChanges' >= savedChanges /\ savedChanges' \in Nat BY DEF SavedInv, PageHolds
<1>3. \E names : NamesHold(ids, names)' BY <1>2, NamesStay DEF Saved!page
<1>4. Counted' BY <1>2, CountStays
<1>5. SavedAssumed' BY DEF SavedInv, SavedAssumed
<1> QED BY <1>1, <1>3, <1>4, <1>5 DEF SavedInv

LEMMA SavedAnswerStep == ASSUME SavedInv, NEW r \in savedRequests, Saved!Answer(r) \/ Saved!Fail(r) PROVE SavedInv'
<1>1. PICK nm : NamesHold(ids, nm) BY DEF SavedInv
<1>2. SavedRequestFits(r, ids, nm) BY <1>1 DEF NamesHold
<1>3. UNCHANGED <<store, ids>> BY DEF Saved!Answer, Saved!Fail
<1>4. DOMAIN dialog = ToolTab BY DEF SavedInv, PageHolds
<1>5. ASSUME NEW queries, Saved!ListTold(r, queries), ListFits(queries, ids, nm) PROVE SavedInv'
  BY <1>1, <1>3, <1>5, ListToldStep
<1>6. ASSUME NEW select, NEW closes, Saved!Refresh(r, select, closes), select \in 1..ids \cup {None},
             dialog' = dialog \/ Saved!Closed(r.tab, r.dialog)
      PROVE  SavedInv'
  <2> DEFINE new == Saved!Listing(r.n, r.tab, select, closes)
  <2>1. SavedRequestFits(new, ids, nm) BY <1>2, <1>6 DEF SavedRequestFits, Saved!Listing
  <2>2. savedRequests' = (savedRequests \ {r}) \cup {new} /\ UNCHANGED <<Saved!page, savedChanges>> BY <1>6 DEF Saved!Refresh
  <2>3. DOMAIN dialog' = ToolTab /\ \A t \in ToolTab : dialog'[t] \in {dialog[t], None} BY <1>4, <1>6 DEF Saved!Closed
  <2> HIDE DEF new
  <2> QED BY <1>1, <1>3, <2>1, <2>2, <2>3, PassedOnIsGood
<1>7. ASSUME savedRequests' = savedRequests \ {r}, UNCHANGED <<Saved!page, dialog, savedChanges>> PROVE SavedInv'
  <2>1. DOMAIN dialog' = ToolTab /\ \A t \in ToolTab : dialog'[t] \in {dialog[t], None} BY <1>4, <1>7
  <2>2. UNCHANGED <<Saved!page, savedChanges>> BY <1>7
  <2> QED BY <1>1, <1>3, <1>7, <2>1, <2>2, PassedOnIsGood
<1>8. CASE Saved!Answer(r)
  <2>1. PICK answer \in r.answer :
          \/ r.kind = "list" /\ Saved!ListTold(r, answer)
          \/ r.kind = "save" /\ Saved!Refresh(r, answer, None) /\ Saved!Closed(r.tab, r.dialog)
          \/ r.kind = "delete" /\ answer /\ Saved!Refresh(r, None, r.dialog) /\ UNCHANGED dialog
          \/ r.kind = "delete" /\ ~answer /\ savedRequests' = savedRequests \ {r} /\ UNCHANGED <<Saved!page, dialog, savedChanges>>
    BY <1>8 DEF Saved!Answer
  <2>2. r.answer # None BY <1>8 DEF Saved!Answer
  <2>3. CASE r.kind = "list" /\ Saved!ListTold(r, answer) BY <1>2, <1>5, <2>2, <2>3 DEF SavedRequestFits
  <2>4. CASE r.kind = "save" /\ Saved!Refresh(r, answer, None) /\ Saved!Closed(r.tab, r.dialog)
    <3>1. answer \in 1..ids BY <1>2, <2>2, <2>4 DEF SavedRequestFits
    <3> QED BY <1>6, <2>4, <3>1
  <2>5. CASE r.kind = "delete" /\ answer /\ Saved!Refresh(r, None, r.dialog) /\ UNCHANGED dialog BY <1>6, <2>5
  <2>6. CASE r.kind = "delete" /\ ~answer /\ savedRequests' = savedRequests \ {r} /\ UNCHANGED <<Saved!page, dialog, savedChanges>>
    BY <1>7, <2>6
  <2> QED BY <2>1, <2>3, <2>4, <2>5, <2>6
<1>9. CASE Saved!Fail(r)
  <2>1. ListFits(<<>>, ids, nm) BY DEF ListFits
  <2>2. \/ r.kind = "list" /\ Saved!ListTold(r, <<>>)
        \/ r.kind # "list" /\ savedRequests' = savedRequests \ {r} /\ UNCHANGED <<Saved!page, dialog, savedChanges>>
    BY <1>9 DEF Saved!Fail
  <2> QED BY <1>5, <1>7, <2>1, <2>2
<1> QED BY <1>8, <1>9

LEMMA SavedGoesOn == ASSUME SavedInv, [Saved!Next]_(Saved!vars) PROVE SavedInv'
<1>1. CASE UNCHANGED Saved!vars
  <2>1. UNCHANGED <<store, ids, Saved!page, dialog, savedRequests, savedChanges>> BY <1>1 DEF Saved!vars
  <2>2. PageHolds' /\ SavedAssumed' /\ Counted' BY <2>1 DEF SavedInv, PageHolds, Saved!page, Saved!Chosen, SavedAssumed, Counted
  <2>3. savedChanges' >= savedChanges /\ savedChanges' \in Nat BY <2>1 DEF SavedInv, PageHolds
  <2>4. PICK nm : NamesHold(ids, nm) BY DEF SavedInv
  <2>5. \E names : NamesHold(ids, names)' BY <2>1, <2>3, <2>4, NamesStay DEF Saved!page
  <2> QED BY <2>2, <2>5 DEF SavedInv
<1>2. CASE Saved!Next
  <2>1. ASSUME NEW t \in ToolTab,
               \/ \E sql \in QueryText \cup {None} : Saved!Type(t, sql)
               \/ \E id \in DOMAIN savedListed[t] \cup {None} : Saved!Pick(t, id)
               \/ Saved!ClickSave(t) \/ Saved!ClickDelete(t) \/ Saved!Cancel(t) \/ Saved!Delete(t)
               \/ \E name \in QueryName : Saved!Save(t, name)
        PROVE  SavedInv'
    BY <2>1, TypeStep, PickStep, SavedClickStep, SavedDeleteStep, SaveStep
  <2>2. ASSUME NEW r \in savedRequests, Saved!Serve(r) \/ Saved!Answer(r) \/ Saved!Fail(r) PROVE SavedInv'
    BY <2>2, ServeStep, SavedAnswerStep
  <2> QED BY <1>2, <2>1, <2>2 DEF Saved!Next
<1> QED BY <1>1, <1>2

-----------------------------------------------------------------------------
(* ---- The sidebar ---- *)

Sidebar == INSTANCE Sidebar WITH
    Text <- FilterText, Tab <- ToolTab, MaxChanges <- MaxClicked,
    connection <- sidebarConnection, database <- sidebarDatabase, listed <- sidebarListed,
    requests <- sidebarRequests, shared <- sidebarShared, changes <- sidebarChanges

SidebarAssumed == Boot \in Connection

\* Whatever the pickers say is asked for, unless it is drawn already.
Drawing ==
    sidebarDatabase # None =>
        \/ \E r \in sidebarRequests : r.kind = "objects" /\ r.scope = Sidebar!Current
        \/ tree = Sidebar!Current /\ filter = remembered[Sidebar!Current]

\* What is shared is of now, and whoever waits for an assembly waits for one that began
\* after it asked.
Relating ==
    /\ stamp \in Nat /\ sidebarChanges \in Nat /\ DOMAIN panel = ToolTab /\ DOMAIN remembered = Sidebar!Scope
    /\ sidebarShared # None => sidebarShared.begun = stamp
    /\ \A l \in loading : /\ l.id \in Nat /\ l.id <= sidebarChanges /\ l.begun \in Nat
                          /\ sidebarShared # None /\ l.id = sidebarShared.id => l.begun = stamp
    /\ \A t \in ToolTab : panel[t].at = "loading" =>
           /\ panel[t].asked \in Nat
           /\ \A l \in loading : l.id = panel[t].waits => l.begun >= panel[t].asked

SidebarInv == SidebarAssumed /\ Sidebar!TypeOK /\ Drawing /\ Relating /\ Sidebar!ReferencesAreFresh

LEMMA SidebarBegins == ASSUME SidebarAssumed, Sidebar!Init PROVE SidebarInv
<1>1. Sidebar!Home \in Sidebar!Scope /\ Sidebar!Current = Sidebar!Home /\ sidebarConnection \in Connection /\ sidebarDatabase \in Sidebar!Database
  BY DEF SidebarAssumed, Sidebar!Init, Sidebar!Home, Sidebar!Current, Sidebar!Scope, Sidebar!Database
<1>2. \A t \in ToolTab : panel[t] = Sidebar!Asking /\ panel[t].at = "asking" BY DEF Sidebar!Init, Sidebar!Asking
<1>3. Sidebar!TypeOK BY <1>1, <1>2 DEF Sidebar!Init, Sidebar!TypeOK, SidebarAssumed
<1>4. Drawing BY <1>1 DEF Sidebar!Init, Drawing
<1>5. Relating BY <1>2 DEF Sidebar!Init, Relating
<1>6. Sidebar!ReferencesAreFresh BY <1>2 DEF Sidebar!ReferencesAreFresh
<1> QED BY <1>3, <1>4, <1>5, <1>6 DEF SidebarInv

LEMMA SidebarSuffices == SidebarInv => Sidebar!TypeOK /\ Sidebar!TreeIsThePickers /\ Sidebar!ReferencesAreFresh
BY DEF SidebarInv, Sidebar!TreeIsThePickers, Drawing

LEMMA SidebarScopesAre ==
    ASSUME SidebarAssumed
    PROVE  /\ Sidebar!Home \in Sidebar!Scope
           /\ \A c \in Connection : <<c, None>> \in Sidebar!Scope /\ \A d \in Sidebar!Database : <<c, d>> \in Sidebar!Scope
           /\ \A s \in Sidebar!Scope : s[1] \in Connection
           /\ \A c \in Connection : Sidebar!DatabasesOf(c) \subseteq Sidebar!Database
BY DEF SidebarAssumed, Sidebar!Home, Sidebar!Scope, Sidebar!Database, Sidebar!DatabasesOf

\* What concerns the relations is left alone, or given up.
Forgetting ==
    /\ UNCHANGED <<loading, panel>> /\ DOMAIN remembered' = Sidebar!Scope
    /\ sidebarChanges' \in Nat /\ sidebarChanges' >= sidebarChanges /\ stamp' \in Nat /\ stamp' >= stamp
    /\ \/ UNCHANGED <<stamp, sidebarShared>>
       \/ sidebarShared' = None

LEMMA ForgettingIsGood ==
    ASSUME SidebarInv, Forgetting
    PROVE  /\ Relating' /\ Sidebar!ReferencesAreFresh' /\ (sidebarShared' # None => sidebarShared'.begun <= stamp')
           /\ \A t \in ToolTab : panel'[t].at = "loading" => \E l \in loading' : l.id = panel'[t].waits
<1>1. Relating' BY DEF SidebarInv, Forgetting, Relating
<1> QED BY <1>1 DEF SidebarInv, Forgetting, Relating, Sidebar!TypeOK, Sidebar!ReferencesAreFresh

-----------------------------------------------------------------------------
(* The pickers and the objects *)

LEMMA SelectConnectionStep == ASSUME SidebarInv, NEW c \in Connection, Sidebar!SelectConnection(c) PROVE SidebarInv'
<1>1. Forgetting BY DEF Sidebar!SelectConnection, Sidebar!Changing, Sidebar!relations, Sidebar!filters, Forgetting, SidebarInv, Relating
<1>2. sidebarDatabase' = None /\ UNCHANGED <<sidebarListed, tree>> /\ sidebarConnection' = c
      /\ sidebarRequests' = sidebarRequests \cup {Sidebar!Request("databases", <<c, None>>)}
  BY DEF Sidebar!SelectConnection
<1>3. Sidebar!TypeOK' BY <1>1, <1>2, ForgettingIsGood, SidebarScopesAre DEF SidebarInv, Sidebar!TypeOK, Sidebar!Request
<1> QED BY <1>1, <1>2, <1>3, ForgettingIsGood DEF SidebarInv, SidebarAssumed, Drawing

LEMMA SelectDatabaseStep ==
    ASSUME SidebarInv, NEW d \in Sidebar!Database, NEW others \in SUBSET sidebarRequests, Sidebar!SelectDatabase(d, others),
           sidebarListed' \in Connection, sidebarChanges' \in Nat, sidebarChanges' >= sidebarChanges
    PROVE  SidebarInv'
<1>1. Forgetting BY DEF Sidebar!SelectDatabase, Sidebar!filters, Forgetting, SidebarInv, Relating
<1>2. /\ sidebarDatabase' = d /\ UNCHANGED <<sidebarConnection, tree>>
      /\ sidebarRequests' = others \cup {Sidebar!Request("objects", <<sidebarConnection, d>>)}
  BY DEF Sidebar!SelectDatabase
<1> DEFINE new == Sidebar!Request("objects", <<sidebarConnection, d>>)
<1>5. new.kind = "objects" /\ new.scope = <<sidebarConnection, d>> BY DEF Sidebar!Request
<1>6. <<sidebarConnection, d>> \in Sidebar!Scope /\ sidebarConnection \in Connection BY SidebarScopesAre DEF SidebarInv, Sidebar!TypeOK
<1>7. sidebarRequests' = others \cup {new} BY <1>2
<1> HIDE DEF new
<1>3. Sidebar!TypeOK' BY <1>1, <1>2, <1>5, <1>6, <1>7, ForgettingIsGood DEF SidebarInv, Sidebar!TypeOK
<1>4. Drawing' BY <1>2, <1>5, <1>7 DEF Drawing, Sidebar!Current
<1> QED BY <1>1, <1>3, <1>4, ForgettingIsGood DEF SidebarInv, SidebarAssumed

LEMMA FirstIsThere == ASSUME SidebarInv, NEW c \in Connection PROVE Sidebar!First(c) \in Sidebar!Database
BY DEF SidebarInv, Sidebar!TypeOK, Sidebar!First, Sidebar!Database, Sidebar!DatabasesOf

LEMMA DatabasesArriveStep == ASSUME SidebarInv, NEW r \in sidebarRequests, Sidebar!DatabasesArrive(r) PROVE SidebarInv'
<1>1. r.scope[1] \in Connection BY SidebarScopesAre DEF SidebarInv, Sidebar!TypeOK
<1>2. Sidebar!First(r.scope[1]) \in Sidebar!Database BY <1>1, FirstIsThere
<1>3. Sidebar!SelectDatabase(Sidebar!First(r.scope[1]), sidebarRequests \ {r}) /\ sidebarListed' \in Connection /\ sidebarChanges' = sidebarChanges
  BY <1>1 DEF Sidebar!DatabasesArrive
<1>4. sidebarChanges' \in Nat /\ sidebarChanges' >= sidebarChanges BY <1>3 DEF SidebarInv, Relating
<1>5. sidebarRequests \ {r} \in SUBSET sidebarRequests OBVIOUS
<1> QED BY <1>2, <1>3, <1>4, <1>5, SelectDatabaseStep

LEMMA ChooseDatabaseStep == ASSUME SidebarInv, NEW d \in Sidebar!Database, Sidebar!ChooseDatabase(d) PROVE SidebarInv'
<1>1. Sidebar!SelectDatabase(d, sidebarRequests) /\ sidebarListed' \in Connection BY DEF Sidebar!ChooseDatabase, SidebarInv, Sidebar!TypeOK
<1>2. sidebarChanges' \in Nat /\ sidebarChanges' >= sidebarChanges BY DEF Sidebar!ChooseDatabase, Sidebar!Changing, SidebarInv, Relating
<1> QED BY <1>1, <1>2, SelectDatabaseStep

LEMMA DatabasesFailStep == ASSUME SidebarInv, NEW r \in sidebarRequests, Sidebar!DatabasesFail(r) PROVE SidebarInv'
<1>1. Forgetting BY DEF Sidebar!DatabasesFail, Sidebar!relations, Sidebar!filters, Forgetting, SidebarInv, Relating
<1>2. /\ r.kind = "databases" /\ sidebarRequests' = sidebarRequests \ {r}
      /\ UNCHANGED <<sidebarConnection, sidebarDatabase, sidebarListed, tree, filter, remembered>>
  BY DEF Sidebar!DatabasesFail, Sidebar!filters
<1>3. Sidebar!TypeOK' BY <1>1, <1>2, ForgettingIsGood DEF SidebarInv, Sidebar!TypeOK
<1>4. Drawing' BY <1>2 DEF SidebarInv, Drawing, Sidebar!Current
<1> QED BY <1>1, <1>3, <1>4, ForgettingIsGood DEF SidebarInv, SidebarAssumed

LEMMA RefreshStep == ASSUME SidebarInv, Sidebar!Refresh PROVE SidebarInv'
<1>1. Forgetting BY DEF Sidebar!Refresh, Sidebar!Changing, Sidebar!relations, Sidebar!filters, Forgetting, SidebarInv, Relating
<1>2. /\ sidebarRequests' = sidebarRequests \cup {Sidebar!Request("objects", Sidebar!Current)}
      /\ UNCHANGED <<sidebarConnection, sidebarDatabase, sidebarListed, tree, filter, remembered>>
  BY DEF Sidebar!Refresh, Sidebar!filters
<1>3. Sidebar!Current \in Sidebar!Scope BY SidebarScopesAre DEF SidebarInv, Sidebar!TypeOK, Sidebar!Current
<1>4. Sidebar!TypeOK' BY <1>1, <1>2, <1>3, ForgettingIsGood DEF SidebarInv, Sidebar!TypeOK, Sidebar!Request
<1>5. Drawing' BY <1>2 DEF SidebarInv, Drawing, Sidebar!Current
<1> QED BY <1>1, <1>4, <1>5, ForgettingIsGood DEF SidebarInv, SidebarAssumed

LEMMA ObjectsArriveStep ==
    ASSUME SidebarInv, NEW r \in sidebarRequests, NEW what \in {"objects", "none"}, Sidebar!ObjectsArrive(r, what) PROVE SidebarInv'
<1>1. /\ sidebarRequests' = sidebarRequests \ {r} /\ Sidebar!Draw(r.scope) /\ UNCHANGED <<sidebarConnection, sidebarDatabase, sidebarListed>>
      /\ r.scope \in Sidebar!Scope
  BY DEF Sidebar!ObjectsArrive, SidebarInv, Sidebar!TypeOK
<1>2. Forgetting BY DEF Sidebar!ObjectsArrive, Sidebar!Invalidate, Sidebar!Draw, Sidebar!filters, Forgetting, SidebarInv, Relating
<1>3. tree' \in {tree, r.scope} BY <1>1 DEF Sidebar!Draw
<1>4. Sidebar!TypeOK' BY <1>1, <1>2, <1>3, ForgettingIsGood DEF SidebarInv, Sidebar!TypeOK
<1>5. Drawing' BY <1>1 DEF SidebarInv, Drawing, Sidebar!Current, Sidebar!Draw, Sidebar!filters
<1> QED BY <1>2, <1>4, <1>5, ForgettingIsGood DEF SidebarInv, SidebarAssumed

LEMMA TypeFilterStep == ASSUME SidebarInv, NEW text \in FilterText, Sidebar!TypeFilter(text) PROVE SidebarInv'
<1>1. Forgetting BY DEF Sidebar!TypeFilter, Sidebar!Changing, Sidebar!relations, Forgetting, SidebarInv, Relating
<1>2. /\ UNCHANGED <<sidebarConnection, sidebarDatabase, sidebarListed, sidebarRequests, tree>>
      /\ filter' = text /\ remembered' = [remembered EXCEPT ![Sidebar!Current] = text]
  BY DEF Sidebar!TypeFilter, Sidebar!pickers
<1>3. Sidebar!Current \in Sidebar!Scope BY SidebarScopesAre DEF SidebarInv, Sidebar!TypeOK, Sidebar!Current
<1>4. Sidebar!TypeOK' BY <1>1, <1>2, ForgettingIsGood DEF SidebarInv, Sidebar!TypeOK
<1>5. Drawing' BY <1>2, <1>3 DEF SidebarInv, Relating, Drawing, Sidebar!Current
<1> QED BY <1>1, <1>4, <1>5, ForgettingIsGood DEF SidebarInv, SidebarAssumed

-----------------------------------------------------------------------------
(* Incoming relationships *)

LEMMA OpenStep == ASSUME SidebarInv, NEW t \in ToolTab, Sidebar!Open(t) PROVE SidebarInv'
BY DEF SidebarInv, SidebarAssumed, Sidebar!Open, Sidebar!pickers, Sidebar!filters, Sidebar!TypeOK, Drawing, Relating, Sidebar!ReferencesAreFresh, Sidebar!Current

LEMMA SelectRowStep == ASSUME SidebarInv, NEW t \in ToolTab, Sidebar!SelectRow(t) PROVE SidebarInv'
<1>1. /\ panel' = [panel EXCEPT ![t] = Sidebar!Asking] /\ Sidebar!Asking.at = "asking"
      /\ UNCHANGED <<Sidebar!pickers, Sidebar!filters, promise, sidebarShared, loading, stamp, sidebarChanges>>
  BY DEF Sidebar!SelectRow, Sidebar!Asking
<1> QED BY <1>1 DEF SidebarInv, SidebarAssumed, Sidebar!pickers, Sidebar!filters, Sidebar!TypeOK, Drawing, Relating, Sidebar!ReferencesAreFresh, Sidebar!Current

LEMMA InspectStep == ASSUME SidebarInv, NEW t \in ToolTab, Sidebar!Inspect(t) PROVE SidebarInv'
<1>1. /\ sidebarChanges' = sidebarChanges + 1 /\ UNCHANGED <<Sidebar!pickers, Sidebar!filters, stamp>> /\ (Sidebar!Join(t) \/ Sidebar!Assemble(t))
  BY DEF Sidebar!Inspect, Sidebar!Changing
<1>2. Drawing' BY <1>1 DEF SidebarInv, Sidebar!pickers, Sidebar!filters, Drawing, Sidebar!Current
<1>3. CASE Sidebar!Join(t) /\ \E l \in loading : l.id = promise[t]
  <2>1. /\ panel' = [panel EXCEPT ![t] = [at |-> "loading", waits |-> promise[t], asked |-> stamp]]
        /\ UNCHANGED <<sidebarShared, loading>> /\ sidebarShared # None /\ sidebarShared.id = promise[t]
    BY <1>3 DEF Sidebar!Join, Sidebar!SharesOwn
  <2> QED BY <1>1, <1>2, <1>3, <2>1 DEF SidebarInv, SidebarAssumed, Sidebar!pickers, Sidebar!filters, Sidebar!TypeOK, Relating, Sidebar!ReferencesAreFresh
<1>4. CASE Sidebar!Join(t) /\ ~\E l \in loading : l.id = promise[t]
  <2>1. /\ panel' = [panel EXCEPT ![t] = [at |-> "shown", begun |-> sidebarShared.begun, asked |-> stamp]]
        /\ UNCHANGED <<sidebarShared, loading>> /\ sidebarShared # None
    BY <1>4 DEF Sidebar!Join, Sidebar!SharesOwn
  <2> QED BY <1>1, <1>2, <2>1 DEF SidebarInv, SidebarAssumed, Sidebar!pickers, Sidebar!filters, Sidebar!TypeOK, Relating, Sidebar!ReferencesAreFresh
<1>5. CASE Sidebar!Assemble(t)
  <2> DEFINE new == [id |-> sidebarChanges', begun |-> stamp, by |-> t, listed |-> kept[Sidebar!Home] # None]
  <2>1. /\ panel' = [panel EXCEPT ![t] = [at |-> "loading", waits |-> sidebarChanges', asked |-> stamp]]
        /\ sidebarShared' = [id |-> sidebarChanges', begun |-> stamp] /\ loading' = loading \cup {new}
        /\ new.id = sidebarChanges' /\ new.begun = stamp
    BY <1>5 DEF Sidebar!Assemble
  <2> HIDE DEF new
  <2>2. \A l \in loading : l.id # sidebarChanges' BY <1>1 DEF SidebarInv, Relating
  <2>3. Sidebar!TypeOK' BY <1>1, <2>1 DEF SidebarInv, Sidebar!pickers, Sidebar!filters, Sidebar!TypeOK, Relating
  <2>4. Relating' BY <1>1, <2>1, <2>2 DEF SidebarInv, Sidebar!TypeOK, Relating, Sidebar!filters
  <2> QED BY <1>2, <2>1, <2>3, <2>4 DEF SidebarInv, SidebarAssumed, Sidebar!ReferencesAreFresh, Relating
<1> QED BY <1>1, <1>3, <1>4, <1>5

LEMMA AssemblyListsStep == ASSUME SidebarInv, NEW l \in loading, Sidebar!AssemblyLists(l) PROVE SidebarInv'
<1> DEFINE new == [l EXCEPT !.listed = TRUE]
<1>1. /\ loading' = (loading \ {l}) \cup {new}
      /\ UNCHANGED <<sidebarConnection, sidebarDatabase, sidebarListed, sidebarRequests, tree, Sidebar!filters, promise, sidebarShared, panel, stamp, sidebarChanges>>
  BY DEF Sidebar!AssemblyLists
<1>2. new.id = l.id /\ new.begun = l.begun OBVIOUS
<1> HIDE DEF new
<1> QED BY <1>1, <1>2 DEF SidebarInv, SidebarAssumed, Sidebar!filters, Sidebar!TypeOK, Drawing, Relating, Sidebar!ReferencesAreFresh, Sidebar!Current

\* Whoever waited for an assembly waits no more, and what it is shown is fresh.
LEMMA SettleIsGood ==
    ASSUME SidebarInv, NEW l \in loading, NEW at \in {"shown", "incomplete", "failed"}, Sidebar!Settle(l, at),
           loading' = loading \ {l}, UNCHANGED <<stamp, sidebarChanges>>, sidebarShared' \in {sidebarShared, None},
           UNCHANGED <<Sidebar!pickers, Sidebar!filters>>
    PROVE  SidebarInv'
<1>1. \A t \in ToolTab : \/ panel'[t] = panel[t] /\ ~(panel[t].at = "loading" /\ panel[t].waits = l.id)
                         \/ /\ panel[t].at = "loading" /\ panel[t].waits = l.id /\ panel'[t].at = at
                            /\ panel'[t].begun = l.begun /\ panel'[t].asked = panel[t].asked
  BY DEF Sidebar!Settle
<1>2. DOMAIN panel' = ToolTab BY DEF Sidebar!Settle
<1>3. Sidebar!TypeOK' BY <1>1 DEF SidebarInv, Sidebar!TypeOK, Sidebar!pickers, Sidebar!filters
<1>4. Relating' BY <1>1, <1>2 DEF SidebarInv, Relating, Sidebar!filters
<1>5. Sidebar!ReferencesAreFresh' BY <1>1 DEF SidebarInv, Relating, Sidebar!ReferencesAreFresh
<1> QED BY <1>3, <1>4, <1>5 DEF SidebarInv, SidebarAssumed, Drawing, Sidebar!Current, Sidebar!pickers, Sidebar!filters

LEMMA AssemblyEndsStep == ASSUME SidebarInv, NEW l \in loading, Sidebar!AssemblyEnds(l) PROVE SidebarInv'
BY SettleIsGood DEF Sidebar!AssemblyEnds

LEMMA AssemblyFailsStep ==
    ASSUME SidebarInv, NEW l \in loading, NEW at \in {"incomplete", "failed"}, Sidebar!AssemblyFails(l, at) PROVE SidebarInv'
<1>1. sidebarShared' \in {sidebarShared, None} BY DEF Sidebar!AssemblyFails
<1> QED BY <1>1, SettleIsGood DEF Sidebar!AssemblyFails

LEMMA SidebarGoesOn == SidebarInv /\ [Sidebar!Next]_(Sidebar!vars) => SidebarInv'
<1> SUFFICES ASSUME SidebarInv, [Sidebar!Next]_(Sidebar!vars) PROVE SidebarInv' OBVIOUS
<1>1. CASE UNCHANGED Sidebar!vars
  BY <1>1 DEF Sidebar!vars, Sidebar!pickers, Sidebar!filters, Sidebar!relations, SidebarInv, SidebarAssumed, Sidebar!TypeOK, Drawing, Relating, Sidebar!ReferencesAreFresh, Sidebar!Current
<1>2. CASE \E r \in sidebarRequests : Sidebar!DatabasesArrive(r) \/ Sidebar!DatabasesFail(r) \/ Sidebar!ObjectsArrive(r, "objects") \/ Sidebar!ObjectsArrive(r, "none")
  BY <1>2, DatabasesArriveStep, DatabasesFailStep, ObjectsArriveStep
<1>3. CASE \E l \in loading : \/ Sidebar!AssemblyLists(l) \/ Sidebar!AssemblyEnds(l)
                              \/ Sidebar!AssemblyFails(l, "incomplete") \/ Sidebar!AssemblyFails(l, "failed")
  BY <1>3, AssemblyListsStep, AssemblyEndsStep, AssemblyFailsStep
<1> QED
  BY <1>1, <1>2, <1>3, SelectConnectionStep, ChooseDatabaseStep, RefreshStep, TypeFilterStep, OpenStep,
     SelectRowStep, InspectStep
  DEF Sidebar!Next

-----------------------------------------------------------------------------
(* ---- The published page ---- *)

Page == INSTANCE ComponentPage WITH
    MaxReloads <- MaxRowLoads, shown <- pageShown

PageAssumed ==
    /\ OperationOf \in [Button -> Operation \cup {Undeclared}]
    /\ MaxRows \in Nat /\ MaxRowLoads \in Nat /\ MaxClicks \in Nat

Run == [id : 1..MaxClicks, operation : Operation, at : {"catalogue", "sent"}]

PageInv ==
    /\ PageAssumed /\ Page!TypeOK /\ clicks \in Nat
    /\ Page!OneRequestPerOperation /\ Page!PageShowsItsRow

LEMMA PageSuffices == PageInv => Page!TypeOK /\ Page!OneRequestPerOperation /\ Page!PageShowsItsRow
BY DEF PageInv

LEMMA PageBegins == ASSUME PageAssumed, Page!Init PROVE PageInv
BY DEF PageAssumed, Page!Init, PageInv, Page!TypeOK, Page!OneRequestPerOperation, Page!PageShowsItsRow, Page!Nothing

\* Drawing again gives every button a state.
LEMMA RedrawIsTyped ==
    ASSUME NEW n \in Nat, NEW i \in Nat, NEW before \in [Button -> BOOLEAN]
    PROVE  Page!Redraw(n, i, before) \in [Button -> BOOLEAN]
<1> DEFINE f(b) == IF b \in Bound THEN i # 0 ELSE before[b]
<1>1. Page!Redraw(n, i, before) = [b \in Button |-> f(b)] BY DEF Page!Redraw
<1>2. ASSUME NEW b \in Button PROVE f(b) \in BOOLEAN
  <2>1. before[b] \in BOOLEAN OBVIOUS
  <2>2. (i # 0) \in BOOLEAN OBVIOUS
  <2> QED BY <2>1, <2>2
<1> HIDE DEF f
<1> QED BY <1>1, <1>2

LEMMA RowsStep ==
    ASSUME PageInv, NEW n \in 0..MaxRows, Page!StartRows(n) \/ Page!Reloaded(n) \/ Page!GoTo(n)
    PROVE  PageInv'
<1> USE DEF PageInv, PageAssumed
<1>1. CASE Page!StartRows(n)
  BY <1>1 DEF Page!StartRows, Page!actions, Page!TypeOK, Page!OneRequestPerOperation, Page!PageShowsItsRow
<1>2. CASE Page!Reloaded(n)
  <2>1. rowIndex' = 0 /\ pageShown' = [rows |-> n, index |-> 0] /\ rows' = n /\ reloads' \in 0..MaxRowLoads
    BY <1>2 DEF Page!Reloaded, Page!AfterReload, Page!Drawn, Page!TypeOK
  <2>3. disabled' = Page!Redraw(n, rowIndex', disabled) /\ n \in Nat /\ rowIndex' \in Nat BY <1>2, <2>1 DEF Page!Reloaded
  <2>4. disabled \in [Button -> BOOLEAN] BY DEF Page!TypeOK
  <2>2. disabled' \in [Button -> BOOLEAN] BY <2>3, <2>4, RedrawIsTyped
  <2> QED BY <1>2, <2>1, <2>2 DEF Page!Reloaded, Page!actions, Page!TypeOK, Page!OneRequestPerOperation, Page!PageShowsItsRow, Page!Drawn
<1>3. CASE Page!GoTo(n)
  <2>1. rowIndex' \in Nat /\ (rowIndex' = 0 \/ rowIndex' < rows) BY <1>3 DEF Page!GoTo, Page!TypeOK
  <2>2. disabled' \in [Button -> BOOLEAN] BY <1>3, <2>1, RedrawIsTyped DEF Page!GoTo, Page!TypeOK
  <2> QED BY <1>3, <2>1, <2>2 DEF Page!GoTo, Page!actions, Page!TypeOK, Page!OneRequestPerOperation, Page!PageShowsItsRow, Page!Drawn
<1> QED BY <1>1, <1>2, <1>3

LEMMA ReadyStep == ASSUME PageInv, Page!Ready PROVE PageInv'
<1> USE DEF PageInv, PageAssumed
<1> DEFINE f(b) == \/ phase' = "closed" \/ OperationOf[b] = Undeclared
                   \/ Page!Redraw(rows, rowIndex, disabled)[b]
<1>2. disabled' = [b \in Button |-> f(b)] BY DEF Page!Ready
<1>3. ASSUME NEW b \in Button PROVE f(b) \in BOOLEAN OBVIOUS
<1>1. disabled' \in [Button -> BOOLEAN]
  <2> HIDE DEF f
  <2> QED BY <1>2, <1>3
<1> QED BY <1>1 DEF Page!Ready, Page!actions, Page!TypeOK, Page!OneRequestPerOperation, Page!PageShowsItsRow, Page!Drawn

LEMMA PageReloadStep == ASSUME PageInv, Page!Reload PROVE PageInv'
BY DEF PageInv, PageAssumed, Page!Reload, Page!actions, Page!TypeOK, Page!OneRequestPerOperation, Page!PageShowsItsRow, Page!Drawn

\* What ends leaves the other operations pending, and its buttons as they were.
LEMMA PageEndIsGood ==
    ASSUME PageInv, NEW ended \in SUBSET runs, NEW left, NEW outcome \in {"success", "error"},
           left \subseteq Run, {r.operation : r \in left} = {r.operation : r \in runs \ ended},
           Page!End(ended, left, outcome)
    PROVE  /\ runs' = left /\ pending' = {r.operation : r \in left}
           /\ disabled' \in [Button -> BOOLEAN] /\ status' \in {"none", "pending", "success", "error"}
           /\ left = {} => status' # "pending"
<1> USE DEF PageInv, PageAssumed
<1>1. runs' = left /\ pending' = pending \ {r.operation : r \in ended} BY DEF Page!End
<1>2. {r.operation : r \in runs} \ {r.operation : r \in ended} = {r.operation : r \in runs \ ended}
  BY DEF Page!OneRequestPerOperation
<1> DEFINE f(b) == IF b \in Page!ButtonsOf({r.operation : r \in ended}) THEN TRUE \in original[b] ELSE disabled[b]
<1>6. disabled' = [b \in Button |-> f(b)] BY DEF Page!End
<1>7. ASSUME NEW b \in Button PROVE f(b) \in BOOLEAN
  <2>1. disabled[b] \in BOOLEAN BY DEF Page!TypeOK
  <2>2. (TRUE \in original[b]) \in BOOLEAN OBVIOUS
  <2> QED BY <2>1, <2>2
<1>3. disabled' \in [Button -> BOOLEAN]
  <2> HIDE DEF f
  <2> QED BY <1>6, <1>7
<1>4. left = {} => runs = ended BY <1>2
<1>5. status' \in {"none", "pending", "success", "error"} /\ (left = {} => status' # "pending")
  BY <1>4 DEF Page!End, Page!TypeOK
<1> QED BY <1>1, <1>2, <1>3, <1>5 DEF Page!TypeOK

LEMMA PageClickStep == ASSUME PageInv, NEW b \in Button, Page!Click(b) PROVE PageInv'
<1> USE DEF PageInv, PageAssumed
<1> DEFINE operation == OperationOf[b]
           r == [id |-> clicks + 1, operation |-> operation, at |-> IF catalogue = "loaded" THEN "sent" ELSE "catalogue"]
<1>1. operation \in Operation /\ operation \notin pending BY DEF Page!Click, Page!Listens
<1>2. r \in Run /\ clicks' = clicks + 1 /\ runs' = runs \cup {r} /\ pending' = pending \cup {operation}
  BY <1>1 DEF Page!Click, Run
<1>3. disabled' \in [Button -> BOOLEAN] /\ original' \in [Button -> SUBSET BOOLEAN] BY DEF Page!Click, Page!TypeOK
<1>4. pending' = {q.operation : q \in runs'} BY <1>2 DEF Page!TypeOK
<1>5. Page!OneRequestPerOperation' BY <1>1, <1>2 DEF Page!OneRequestPerOperation, Page!TypeOK
<1>6. /\ catalogue' \in {"none", "loading", "loaded"} /\ status' = "pending"
      /\ (\E q \in runs' : q.at = "catalogue") => catalogue' = "loading"
  BY <1>2 DEF Page!Click, Page!TypeOK
<1>7. UNCHANGED Page!data BY DEF Page!Click
<1> QED BY <1>2, <1>3, <1>4, <1>5, <1>6, <1>7 DEF Page!TypeOK, Page!data, Page!PageShowsItsRow, Page!Drawn, Run

LEMMA CatalogueStep ==
    ASSUME PageInv, Page!CatalogueFails \/ \E failing \in SUBSET runs : Page!CatalogueLoads(failing) PROVE PageInv'
<1> USE DEF PageInv, PageAssumed
<1> DEFINE waiting == {r \in runs : r.at = "catalogue"}
<1>1. CASE Page!CatalogueFails
  <2>1. runs \ waiting \subseteq Run BY DEF Page!TypeOK, Run
  <2>2. Page!End(waiting, runs \ waiting, "error") /\ UNCHANGED <<Page!data, original, clicks>> /\ catalogue' = "none"
    BY <1>1 DEF Page!CatalogueFails
  <2> HIDE DEF waiting
  <2>3. waiting \in SUBSET runs /\ \A r \in runs \ waiting : r.at # "catalogue" BY DEF waiting
  <2>4. /\ runs' = runs \ waiting /\ pending' = {r.operation : r \in runs \ waiting}
        /\ disabled' \in [Button -> BOOLEAN] /\ status' \in {"none", "pending", "success", "error"}
        /\ runs \ waiting = {} => status' # "pending"
    BY <2>1, <2>2, <2>3, PageEndIsGood
  <2> QED BY <2>1, <2>2, <2>3, <2>4 DEF Page!TypeOK, Page!data, Page!OneRequestPerOperation, Page!PageShowsItsRow, Page!Drawn, Run
<1>2. ASSUME NEW failing \in SUBSET runs, Page!CatalogueLoads(failing) PROVE PageInv'
  <2> DEFINE told(r) == IF r.at = "catalogue" THEN [r EXCEPT !.at = "sent"] ELSE r
             left == {told(r) : r \in runs \ failing}
  <2>1. \A r \in runs : told(r) \in Run /\ told(r).operation = r.operation /\ told(r).at = "sent"
    BY DEF Page!TypeOK, Run
  <2>2. Page!End(failing, left, "error") /\ UNCHANGED <<Page!data, original, clicks>> /\ catalogue' = "loaded"
    BY <1>2 DEF Page!CatalogueLoads
  <2> HIDE DEF told
  <2>3. left \subseteq Run /\ {r.operation : r \in left} = {r.operation : r \in runs \ failing} BY <2>1
  <2>4. \A r, q \in left : r.operation = q.operation => r = q BY <2>1 DEF Page!OneRequestPerOperation
  <2>5. \A r \in left : r.at = "sent" BY <2>1
  <2> HIDE DEF left
  <2>6. /\ runs' = left /\ pending' = {r.operation : r \in left}
        /\ disabled' \in [Button -> BOOLEAN] /\ status' \in {"none", "pending", "success", "error"}
        /\ left = {} => status' # "pending"
    BY <2>2, <2>3, PageEndIsGood
  <2> QED BY <2>2, <2>3, <2>4, <2>5, <2>6 DEF Page!TypeOK, Page!data, Page!OneRequestPerOperation, Page!PageShowsItsRow, Page!Drawn, Run
<1> QED BY <1>1, <1>2

LEMMA AnsweredStep == ASSUME PageInv, NEW r \in runs, Page!Answered(r) PROVE PageInv'
<1> USE DEF PageInv, PageAssumed
<1>1. PICK outcome \in {"success", "error"} : Page!End({r}, runs \ {r}, outcome) BY DEF Page!Answered
<1>2. runs \ {r} \subseteq Run BY DEF Page!TypeOK, Run
<1>3. /\ runs' = runs \ {r} /\ pending' = {q.operation : q \in runs \ {r}}
      /\ disabled' \in [Button -> BOOLEAN] /\ status' \in {"none", "pending", "success", "error"}
      /\ runs \ {r} = {} => status' # "pending"
  BY <1>1, <1>2, PageEndIsGood
<1>4. UNCHANGED <<Page!data, original, clicks, catalogue>> BY DEF Page!Answered
<1> QED BY <1>2, <1>3, <1>4 DEF Page!TypeOK, Page!data, Page!OneRequestPerOperation, Page!PageShowsItsRow, Page!Drawn, Run

LEMMA PageGoesOn == PageInv /\ [Page!Next]_(Page!vars) => PageInv'
<1> SUFFICES ASSUME PageInv, [Page!Next]_(Page!vars) PROVE PageInv' OBVIOUS
<1>1. CASE UNCHANGED Page!vars
  BY <1>1 DEF Page!vars, Page!data, Page!actions, PageInv, PageAssumed, Page!TypeOK, Page!OneRequestPerOperation, Page!PageShowsItsRow, Page!Drawn
<1> QED BY <1>1, RowsStep, ReadyStep, PageReloadStep, PageClickStep, CatalogueStep, AnsweredStep DEF Page!Next

-----------------------------------------------------------------------------
(* ---- The tab that compares schemas ---- *)

Schemas == INSTANCE SchemaCompareTab WITH
    MaxChanges <- MaxSwaps, connection <- schemasConnection, database <- schemasDatabase,
    listed <- schemasListed, requests <- schemasRequests, loads <- schemasLoads,
    comparing <- schemasComparing, results <- schemasResults, changes <- schemasChanges

\* A side whose list has come, or failed to come.
Settled(side) == ~\E load \in schemasLoads : load.side = side /\ Schemas!Current(load)

SchemasDatabases == UNION {Schemas!Database(c) : c \in Connection}

\* The newest request of a side is for its connection; and the database of a side that waits
\* for no list is one of its connection.
SidesHold ==
    /\ schemasRequests \in [Schemas!Side -> Nat]
    /\ schemasDatabase \in [Schemas!Side -> SchemasDatabases \cup {None}]
    /\ schemasListed \in [Schemas!Side -> Connection \cup {None}]
    /\ \A load \in schemasLoads : load.of \in Connection /\ (Schemas!Current(load) => load.of = schemasConnection[load.side])
    /\ \A side \in Schemas!Side : Settled(side) /\ schemasDatabase[side] # None =>
           schemasListed[side] = schemasConnection[side] /\ schemasDatabase[side] \in Schemas!Database(schemasConnection[side])

SchemasInv ==
    /\ Schemas!TypeOK /\ SidesHold /\ Schemas!ComparesTheirOwn
    /\ schemasComparing # None => schemasLoads = {}

LEMMA SchemasBegins == ASSUME Schemas!Init PROVE SchemasInv
<1>1. PICK second \in 1..2 :
          schemasLoads = {[side |-> side, request |-> 1, of |-> schemasConnection[side], job |-> 0,
                           preferred |-> <<schemasConnection[side], second>>] : side \in Schemas!Side}
  BY DEF Schemas!Init
<1>2. \A load \in schemasLoads : /\ load.side \in Schemas!Side /\ load.request = 1 /\ load.of = schemasConnection[load.side]
  BY <1>1
<1>3. Schemas!TypeOK BY <1>2 DEF Schemas!Init, Schemas!TypeOK
<1>4. SidesHold BY <1>2 DEF Schemas!Init, SidesHold
<1> QED BY <1>3, <1>4 DEF Schemas!Init, SchemasInv, Schemas!ComparesTheirOwn

LEMMA SchemasScopesAre ==
    \A side \in Schemas!Side : Schemas!Scopes[side].connection = schemasConnection[side] /\ Schemas!Scopes[side].database = schemasDatabase[side]
BY DEF Schemas!Scopes, Schemas!Scope

LEMMA ChangeConnectionStep ==
    ASSUME SchemasInv, NEW side \in Schemas!Side, NEW c \in Connection, Schemas!ChangeConnection(side, c) PROVE SchemasInv'
<1> DEFINE new == Schemas!Load(side, c, schemasChanges + 1, None)
<1>1. /\ schemasComparing = None /\ schemasComparing' = None /\ UNCHANGED <<schemasDatabase, schemasListed, schemasResults>>
      /\ schemasConnection' = [schemasConnection EXCEPT ![side] = c] /\ schemasRequests' = [schemasRequests EXCEPT ![side] = @ + 1]
      /\ schemasLoads' = schemasLoads \cup {new}
  BY DEF Schemas!ChangeConnection
<1>2. new.side = side /\ new.of = c /\ new.request = schemasRequests[side] + 1 BY DEF Schemas!Load
<1> HIDE DEF new
<1>3. Schemas!TypeOK' BY <1>1, <1>2 DEF SchemasInv, Schemas!TypeOK, SidesHold
<1>4. \A load \in schemasLoads : load.side = side => load.request # schemasRequests'[side]
  BY <1>1 DEF SchemasInv, Schemas!TypeOK, SidesHold
<1>5. SidesHold'
  BY <1>1, <1>2, <1>4 DEF SchemasInv, Schemas!TypeOK, SidesHold, Settled, Schemas!Current
<1>6. schemasLoads' # {} BY <1>1
<1> QED BY <1>1, <1>3, <1>5, <1>6 DEF SchemasInv, Schemas!ComparesTheirOwn

LEMMA ChangeDatabaseStep ==
    ASSUME SchemasInv, NEW side \in Schemas!Side, NEW c \in Connection, NEW d \in Schemas!Database(c), Schemas!ChangeDatabase(side, d) PROVE SchemasInv'
<1>1. /\ schemasComparing = None /\ schemasDatabase[side] # None /\ Settled(side) /\ d \in Schemas!Database(schemasListed[side])
      /\ schemasDatabase' = [schemasDatabase EXCEPT ![side] = d]
      /\ UNCHANGED <<schemasConnection, schemasListed, schemasRequests, schemasLoads, schemasComparing, schemasResults>>
  BY DEF Schemas!ChangeDatabase, Settled
<1>2. schemasListed[side] = schemasConnection[side] /\ schemasConnection[side] \in Connection BY <1>1 DEF SchemasInv, Schemas!TypeOK, SidesHold
<1>3. schemasDatabase' \in [Schemas!Side -> SchemasDatabases \cup {None}] BY <1>1, <1>2 DEF SchemasInv, SidesHold, SchemasDatabases
<1>4. SidesHold' BY <1>1, <1>2, <1>3 DEF SchemasInv, SidesHold, Settled, Schemas!Current
<1> QED BY <1>1, <1>4 DEF SchemasInv, Schemas!TypeOK, Schemas!ComparesTheirOwn

LEMMA SwapStep == ASSUME SchemasInv, Schemas!Swap PROVE SchemasInv'
<1> DEFINE new(side) == Schemas!Load(side, schemasConnection[Schemas!Other(side)], schemasChanges + 1, schemasDatabase[Schemas!Other(side)])
<1>1. /\ schemasComparing = None /\ schemasComparing' = None /\ UNCHANGED <<schemasDatabase, schemasListed, schemasResults>>
      /\ schemasConnection' = [side \in Schemas!Side |-> schemasConnection[Schemas!Other(side)]]
      /\ schemasRequests' = [side \in Schemas!Side |-> schemasRequests[side] + 1]
      /\ schemasLoads' = {new(side) : side \in Schemas!Side}
  BY DEF Schemas!Swap
<1>2. \A side \in Schemas!Side : /\ Schemas!Other(side) \in Schemas!Side /\ new(side).side = side /\ new(side).of = schemasConnection[Schemas!Other(side)]
                                 /\ new(side).request = schemasRequests[side] + 1
  BY DEF Schemas!Load, Schemas!Side, Schemas!Other
<1> HIDE DEF new
<1>3. Schemas!TypeOK' BY <1>1, <1>2 DEF SchemasInv, Schemas!TypeOK, SidesHold
<1>4. \A side \in Schemas!Side : new(side) \in schemasLoads' /\ ~Settled(side)' BY <1>1, <1>2 DEF Settled, Schemas!Current
<1>5. SidesHold' BY <1>1, <1>2, <1>4 DEF SchemasInv, Schemas!TypeOK, SidesHold, Schemas!Current
<1>6. schemasLoads' # {} BY <1>4 DEF Schemas!Side
<1> QED BY <1>1, <1>3, <1>5, <1>6 DEF SchemasInv, Schemas!ComparesTheirOwn

\* The last answer of a change clears the results.
LEMMA ClearedIs == ASSUME NEW load \in schemasLoads, schemasLoads \ {load} = {} PROVE Schemas!Cleared(load) = None
BY DEF Schemas!Cleared

LEMMA SchemasAnswerStep ==
    ASSUME SchemasInv, NEW load \in schemasLoads, Schemas!DatabasesArrive(load) \/ Schemas!DatabasesFail(load) PROVE SchemasInv'
<1>1. /\ schemasLoads' = schemasLoads \ {load} /\ schemasResults' = Schemas!Cleared(load) /\ UNCHANGED <<schemasConnection, schemasRequests, schemasComparing>>
      /\ schemasComparing = None
  BY DEF Schemas!DatabasesArrive, Schemas!DatabasesFail, SchemasInv
<1>2. load.side \in Schemas!Side /\ load.of \in Connection BY DEF SchemasInv, Schemas!TypeOK, SidesHold
<1>3. CASE ~Schemas!Current(load)
  <2>1. UNCHANGED <<schemasListed, schemasDatabase>> BY <1>3 DEF Schemas!DatabasesArrive, Schemas!DatabasesFail
  <2>2. \A side \in Schemas!Side : Settled(side)' => Settled(side) BY <1>1, <1>3 DEF Settled, Schemas!Current
  <2> QED BY <1>1, <2>1, <2>2, ClearedIs DEF SchemasInv, Schemas!TypeOK, SidesHold, Schemas!ComparesTheirOwn, Schemas!Current
<1>4. CASE Schemas!Current(load) /\ Schemas!DatabasesArrive(load)
  <2> DEFINE d == IF load.preferred \in Schemas!Database(load.of) THEN load.preferred ELSE <<load.of, 1>>
  <2>1. schemasListed' = [schemasListed EXCEPT ![load.side] = load.of] /\ schemasDatabase' = [schemasDatabase EXCEPT ![load.side] = d]
    BY <1>4 DEF Schemas!DatabasesArrive
  <2>2. d \in Schemas!Database(load.of) /\ load.of = schemasConnection[load.side]
    BY <1>4 DEF Schemas!Database, SchemasInv, SidesHold
  <2> HIDE DEF d
  <2>5. schemasDatabase' \in [Schemas!Side -> SchemasDatabases \cup {None}]
    BY <1>2, <2>1, <2>2 DEF SchemasInv, SidesHold, SchemasDatabases
  <2>3. \A side \in Schemas!Side : side # load.side /\ Settled(side)' => Settled(side) BY <1>1 DEF Settled, Schemas!Current
  <2>6. \A side \in Schemas!Side : Settled(side)' /\ schemasDatabase'[side] # None =>
            schemasListed'[side] = schemasConnection[side] /\ schemasDatabase'[side] \in Schemas!Database(schemasConnection[side])
    BY <1>1, <1>2, <2>1, <2>2, <2>3 DEF SchemasInv, SidesHold
  <2>4. SidesHold' BY <1>1, <1>2, <2>1, <2>5, <2>6 DEF SchemasInv, SidesHold, Schemas!Current
  <2> QED BY <1>1, <2>4, ClearedIs DEF SchemasInv, Schemas!TypeOK, Schemas!ComparesTheirOwn
<1>5. CASE Schemas!Current(load) /\ Schemas!DatabasesFail(load)
  <2>1. UNCHANGED schemasListed /\ schemasDatabase' = [schemasDatabase EXCEPT ![load.side] = None]
    BY <1>5 DEF Schemas!DatabasesFail
  <2>3. \A side \in Schemas!Side : side # load.side /\ Settled(side)' => Settled(side) BY <1>1 DEF Settled, Schemas!Current
  <2>4. SidesHold' BY <1>1, <1>2, <2>1, <2>3 DEF SchemasInv, SidesHold, Schemas!Current
  <2> QED BY <1>1, <2>4, ClearedIs DEF SchemasInv, Schemas!TypeOK, Schemas!ComparesTheirOwn
<1> QED BY <1>3, <1>4, <1>5

LEMMA CompareStep == ASSUME SchemasInv, Schemas!Compare PROVE SchemasInv'
<1>1. /\ schemasLoads = {} /\ \A side \in Schemas!Side : schemasDatabase[side] # None
      /\ schemasComparing' = Schemas!Scopes /\ schemasResults' = None
      /\ UNCHANGED <<schemasConnection, schemasDatabase, schemasListed, schemasRequests, schemasLoads>>
  BY DEF Schemas!Compare
<1>2. Schemas!Scopes' = Schemas!Scopes BY <1>1 DEF Schemas!Scopes, Schemas!Scope
<1>3. \A side \in Schemas!Side : Settled(side) BY <1>1 DEF Settled
<1>4. Schemas!ComparesTheirOwn' BY <1>1, <1>3, SchemasScopesAre DEF SchemasInv, SidesHold, Schemas!ComparesTheirOwn
<1> QED BY <1>1, <1>2, <1>4 DEF SchemasInv, Schemas!TypeOK, SidesHold, Settled, Schemas!Current

LEMMA ComparedStep == ASSUME SchemasInv, Schemas!Compared PROVE SchemasInv'
<1>1. /\ schemasComparing # None /\ schemasComparing' = None /\ schemasResults' \in {schemasComparing, None}
      /\ UNCHANGED <<schemasConnection, schemasDatabase, schemasListed, schemasRequests, schemasLoads>>
  BY DEF Schemas!Compared
<1>2. schemasComparing = Schemas!Scopes BY <1>1 DEF SchemasInv, Schemas!TypeOK
<1>3. Schemas!ComparesTheirOwn' BY <1>1, <1>2, SchemasScopesAre DEF SchemasInv, Schemas!ComparesTheirOwn
<1> QED BY <1>1, <1>3 DEF SchemasInv, Schemas!TypeOK, SidesHold, Settled, Schemas!Current

LEMMA SchemasGoesOn == SchemasInv /\ [Schemas!Next]_(Schemas!vars) => SchemasInv'
<1> SUFFICES ASSUME SchemasInv, [Schemas!Next]_(Schemas!vars) PROVE SchemasInv' OBVIOUS
<1>1. CASE UNCHANGED Schemas!vars
  BY <1>1 DEF Schemas!vars, SchemasInv, Schemas!TypeOK, SidesHold, Settled, Schemas!Current, Schemas!ComparesTheirOwn, Schemas!Scopes, Schemas!Scope
<1> QED
  BY <1>1, ChangeConnectionStep, ChangeDatabaseStep, SwapStep, SchemasAnswerStep, CompareStep, ComparedStep DEF Schemas!Next

-----------------------------------------------------------------------------
(* What is proved of the tools *)

\* No operation of a published page is under way twice, however often its buttons are
\* clicked, and the page shows the row it says it is on (runtime.js runAction, refresh).
THEOREM PageIsServed == PageAssumed /\ Page!Spec => [](Page!OneRequestPerOperation /\ Page!PageShowsItsRow)
<1> SUFFICES ASSUME PageAssumed PROVE Page!Spec => [](Page!OneRequestPerOperation /\ Page!PageShowsItsRow) OBVIOUS
<1>1. Page!Init => PageInv BY PageBegins
<1>2. PageInv /\ [Page!Next]_(Page!vars) => PageInv' BY PageGoesOn
<1>3. PageInv => Page!OneRequestPerOperation /\ Page!PageShowsItsRow BY PageSuffices
<1> QED BY <1>1, <1>2, <1>3, PTL DEF Page!Spec

\* Schemas are compared of what the controls name, and what is shown is their comparison
\* (app.js loadSchemaCompareTab).
THEOREM SchemasAreTheirOwn == Schemas!Spec => []Schemas!ComparesTheirOwn
<1>1. Schemas!Init => SchemasInv BY SchemasBegins
<1>2. SchemasInv /\ [Schemas!Next]_(Schemas!vars) => SchemasInv' BY SchemasGoesOn
<1>3. SchemasInv => Schemas!ComparesTheirOwn BY DEF SchemasInv
<1> QED BY <1>1, <1>2, <1>3, PTL DEF Schemas!Spec

\* Rows are compared of what is chosen, in whichever order the answers to the choices came,
\* and the differences that show are those there are (app.js loadDataCompareTab,
\* compareDataRows).
THEOREM DifferencesAreThere ==
    CompareAssumed /\ Compare!Spec => [](Compare!ComparesWhatIsChosen /\ Compare!DifferencesAreReal)
<1> SUFFICES ASSUME CompareAssumed
             PROVE  Compare!Spec =>
             [](Compare!ComparesWhatIsChosen /\ Compare!DifferencesAreReal)
  OBVIOUS
<1>1. Compare!Init => CompareInv BY CompareBegins
<1>2. CompareInv /\ [Compare!Next]_(Compare!vars) => CompareInv' BY CompareGoesOn
<1>3. CompareInv => Compare!ComparesWhatIsChosen /\ Compare!DifferencesAreReal BY CompareSuffices
<1> QED BY <1>1, <1>2, <1>3, PTL DEF Compare!Spec

\* Once nothing is under way the sidebar shows what its pickers name, and references are
\* worked out of what is stored now (app.js loadObjects, getReferences).
THEOREM SidebarIsThePickers ==
    SidebarAssumed /\ Sidebar!Spec => [](Sidebar!TreeIsThePickers /\ Sidebar!ReferencesAreFresh)
<1> SUFFICES ASSUME SidebarAssumed PROVE Sidebar!Spec => [](Sidebar!TreeIsThePickers /\ Sidebar!ReferencesAreFresh) OBVIOUS
<1>1. Sidebar!Init => SidebarInv BY SidebarBegins
<1>2. SidebarInv /\ [Sidebar!Next]_(Sidebar!vars) => SidebarInv' BY SidebarGoesOn
<1>3. SidebarInv => Sidebar!TreeIsThePickers /\ Sidebar!ReferencesAreFresh BY SidebarSuffices
<1> QED BY <1>1, <1>2, <1>3, PTL DEF Sidebar!Spec

\* A saved query goes by its own name and keeps it (app.js saveQuery, loadSavedQueries).
THEOREM SavedKeepTheirNames == SavedAssumed /\ Saved!Spec => []Saved!SavedAreAsNamed
<1> SUFFICES ASSUME SavedAssumed PROVE Saved!Spec => []Saved!SavedAreAsNamed OBVIOUS
<1>1. Saved!Init => SavedInv BY SavedBegins
<1>2. SavedInv /\ [Saved!Next]_(Saved!vars) => SavedInv' BY SavedGoesOn
<1>3. SavedInv => Saved!SavedAreAsNamed BY SavedSuffices
<1> QED BY <1>1, <1>2, <1>3, PTL DEF Saved!Spec

\* What is sent in a chat is sent once and kept, to a session and with a key of its model,
\* and no question of the agent outlives its turn (app.js openAgentTab).
THEOREM ChatIsKept ==
    ChatAssumed /\ Chat!Spec =>
        [](/\ Chat!NothingSentComesBack /\ Chat!SentIsKept /\ Chat!SessionsAreNotMixed
           /\ Chat!KeysAreTakenBack /\ Chat!NoCardOutlivesItsTurn)
<1> SUFFICES ASSUME ChatAssumed
             PROVE  Chat!Spec =>
             [](/\ Chat!NothingSentComesBack /\ Chat!SentIsKept /\ Chat!SessionsAreNotMixed
                /\ Chat!KeysAreTakenBack /\ Chat!NoCardOutlivesItsTurn)
  OBVIOUS
<1>1. Chat!Init => ChatInv BY ChatBegins
<1>2. ChatInv /\ [Chat!Next]_(Chat!vars) => ChatInv' BY ChatGoesOn
<1>3. ChatInv => /\ Chat!NothingSentComesBack /\ Chat!SentIsKept /\ Chat!SessionsAreNotMixed
                 /\ Chat!KeysAreTakenBack /\ Chat!NoCardOutlivesItsTurn
  BY ChatSuffices
<1> QED BY <1>1, <1>2, <1>3, PTL DEF Chat!Spec

\* Once nothing is fetched, the cards of a diagram tell which of its tables there are
\* (app.js refreshDefinitions, render).
THEOREM CardsTell == CardsAssumed /\ Cards!Spec => []Cards!CardsTellWhatThereIs
<1> SUFFICES ASSUME CardsAssumed PROVE Cards!Spec => []Cards!CardsTellWhatThereIs OBVIOUS
<1>1. Cards!Init => CardsInv BY CardsBegins
<1>2. CardsInv /\ [Cards!Next]_(Cards!vars) => CardsInv' BY CardsGoesOn
<1>3. CardsInv => Cards!CardsTellWhatThereIs BY CardsSuffices
<1> QED BY <1>1, <1>2, <1>3, PTL DEF Cards!Spec

\* What a search does not show it either did not find or says why, and the definitions it
\* reads are shared out over the databases (app.js loadObjectSearchTab).
THEOREM SearchTells == SearchAssumed /\ Search!Spec => [](Search!MissingIsExplained /\ Search!LimitIsSharedOut)
<1> SUFFICES ASSUME SearchAssumed PROVE Search!Spec => [](Search!MissingIsExplained /\ Search!LimitIsSharedOut) OBVIOUS
<1>1. Search!Init => SearchInv BY SearchBegins
<1>2. SearchInv /\ [Search!Next]_(Search!vars) => SearchInv' BY SearchGoesOn
<1>3. SearchInv => Search!MissingIsExplained /\ Search!LimitIsSharedOut BY SearchSuffices
<1> QED BY <1>1, <1>2, <1>3, PTL DEF Search!Spec

\* Once nothing is under way the list of endpoints is what the server holds, what Run calls
\* is what its form showed, and a response is that of the request above it (app.js
\* openApisTab, openPublishDialog, editEndpoint, createApiPreview).
THEOREM ApisAreCurrent ==
    ApisAssumed /\ Apis!Spec =>
        [](Apis!ListIsCurrent /\ Apis!ButtonFitsTheBody /\ Apis!RunsWhatIsShown /\ Apis!ResponseIsOfItsRequest)
<1> SUFFICES ASSUME ApisAssumed
             PROVE  Apis!Spec =>
             [](Apis!ListIsCurrent /\ Apis!ButtonFitsTheBody /\ Apis!RunsWhatIsShown /\ Apis!ResponseIsOfItsRequest)
  OBVIOUS
<1>1. Apis!Init => ApisInv BY ApisBegins
<1>2. ApisInv /\ [Apis!Next]_(Apis!vars) => ApisInv' BY ApisGoesOn
<1>3. ApisInv => Apis!ListIsCurrent /\ Apis!ButtonFitsTheBody /\ Apis!RunsWhatIsShown /\ Apis!ResponseIsOfItsRequest
  BY ApisSuffices
<1> QED BY <1>1, <1>2, <1>3, PTL DEF Apis!Spec
=============================================================================
