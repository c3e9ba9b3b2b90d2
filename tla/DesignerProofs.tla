--------------------------- MODULE DesignerProofs ---------------------------
(***************************************************************************)
(* Proofs about Designer, for any documents, modules, edits and presses.    *)
(* Three things are kept, each on its own.  The rows on screen, and those   *)
(* being read, are of the earliest document that is still to be followed:   *)
(* the one the next follow-through goes from, or else the one a run of      *)
(* typing began with, or else the one on screen (RowsFollow).  The modules  *)
(* that formulas call are that document's too, unless a build that will     *)
(* make them so has still to stop what runs (ScopeFollows).  And whoever    *)
(* stops or starts the behaviour does so alone and in turn, so that of a    *)
(* stop the instances from the next one on are up, and of a start those     *)
(* before it (RunFollows).                                                  *)
(*                                                                          *)
(* adrift and overlapped say when a step breaks the first two, or the       *)
(* third: the invariants are of what they leave.                            *)
(***************************************************************************)
EXTENDS Designer, SequenceTheorems, FiniteSetTheorems, WellFoundedInduction, TLAPS

Assumed ==
    /\ IsFiniteSet(Module) /\ Classes \in Nat /\ HistoryDepth \in Nat /\ MaxInstances \in Nat
    /\ Classes * Cardinality(Module) <= MaxInstances

\* What an owner may be doing where n instances have been built.
Doing(n) ==
    {t \in [at : {"idle", "stop", "load", "connect"}, start : BOOLEAN, list : Seq(1..n), next : Nat,
            names : SUBSET Module, overtaken : BOOLEAN] : t.at = "connect" => t.next # 0}

DrawnTypes ==
    /\ doc \in Document /\ past \in Seq(Document) /\ future \in Seq(Document)
    /\ Len(past) + Len(future) <= HistoryDepth /\ key \in {"none", "box", "document"}
FollowTypes ==
    /\ typed \in Document \cup {NoDocument} /\ followFrom \in Document \cup {NoDocument}
    /\ follow \in [at : {"idle", "rows", "scope"}, from : Document \cup {NoDocument}]
ViewTypes ==
    /\ mode \in Mode /\ wanted \in Mode \cup {None}
    /\ switch \in [at : {"idle", "settle", "rows", "scope"}, to : Mode \cup {None}, wait : Nat]
    /\ switch.at # "idle" => switch.to \in Mode
ReadTypes ==
    rows \in Source \cup {None} /\ reading \in Source \cup {None} /\ reader \in {"panel", "follow", "switch"}
RunTypes ==
    /\ scope \subseteq Module /\ built \in 0..MaxInstances /\ instances \in Seq(1..built)
    /\ attached \in Nat /\ alive \subseteq connected /\ connected \subseteq 1..built
    /\ task \in [Owner -> Doing(built)]
OwnerTypes ==
    (task["follow"] # Idle => follow.at = "scope") /\ (task["switch"] # Idle => switch.at = "scope")
DesignTypes == DrawnTypes /\ FollowTypes /\ ViewTypes /\ ReadTypes /\ RunTypes /\ OwnerTypes

\* A build that begins, and a stop that goes on after i.
Begun(start, names) == [Idle EXCEPT !.at = "load", !.start = start, !.names = names]
After(t, i) == [t EXCEPT !.at = "stop", !.next = i + 1]

-----------------------------------------------------------------------------
(* Sequences, and the least of some numbers *)

LEMMA SeqIn ==
    ASSUME NEW S, NEW T, S \subseteq T, NEW s \in Seq(S) PROVE s \in Seq(T)
<1>1. Len(s) \in Nat /\ DOMAIN s = 1..Len(s) /\ s \in [1..Len(s) -> S] BY LenProperties
<1>2. s \in [1..Len(s) -> T] BY <1>1
<1> QED BY <1>1, <1>2, SeqDef

LEMMA LeastNatural ==
    ASSUME NEW T \in SUBSET Nat, T # {} PROVE \E n \in T : \A m \in T : n <= m
<1> DEFINE U == {0..n : n \in T}
<1>1. U \subseteq FiniteSubsetsOf(Nat) /\ U # {}
  <2>1. \A n \in T : 0 \in Int /\ n \in Int /\ 0..n \in SUBSET Nat OBVIOUS
  <2>2. \A n \in T : IsFiniteSet(0..n) BY <2>1, FS_Interval
  <2> QED BY <2>1, <2>2 DEF FiniteSubsetsOf
<1>2. IsWellFoundedOn(StrictSubsetOrdering(Nat), FiniteSubsetsOf(Nat)) BY FS_StrictSubsetOrderingWellFounded
<1>3. \E x \in U : \A y \in U : ~(<<y, x>> \in StrictSubsetOrdering(Nat))
  <2> HIDE DEF U
  <2> QED BY <1>1, <1>2, WFMin
<1>4. PICK n \in T : \A m \in T : ~(<<0..m, 0..n>> \in StrictSubsetOrdering(Nat)) BY <1>3
<1>5. ASSUME NEW m \in T, m < n PROVE FALSE
  <2>1. 0..m \in SUBSET Nat /\ 0..n \in SUBSET Nat /\ 0..m \subseteq 0..n /\ n \in 0..n /\ n \notin 0..m
    BY <1>5
  <2> QED BY <1>4, <2>1 DEF StrictSubsetOrdering
<1> QED BY <1>4, <1>5

-----------------------------------------------------------------------------
(* Types *)

LEMMA TypesSuffice == Assumed /\ DesignTypes => TypeOK
<1> SUFFICES ASSUME Assumed, DesignTypes PROVE TypeOK OBVIOUS
<1>1. Len(past) <= HistoryDepth
  <2>1. Len(past) \in Nat /\ Len(future) \in Nat BY DEF DesignTypes, DrawnTypes
  <2> QED BY <2>1 DEF DesignTypes, DrawnTypes, Assumed
<1>2. instances \in Seq(1..MaxInstances)
  <2>1. 1..built \subseteq 1..MaxInstances BY DEF DesignTypes, RunTypes, Assumed
  <2> QED BY <2>1, SeqIn DEF DesignTypes, RunTypes
<1>3. \A o \in Owner : task[o].at \in {"idle", "stop", "load", "connect"} BY DEF DesignTypes, RunTypes, Doing
<1> QED BY <1>1, <1>2, <1>3
  DEF TypeOK, DesignTypes, DrawnTypes, FollowTypes, ViewTypes, ReadTypes, RunTypes, OwnerTypes

LEMMA NoIsNone == NoDocument \notin Document BY DEF NoDocument, Document

LEMMA IdleIs == \A n \in Nat : Idle \in Doing(n)
<1> TAKE n \in Nat
<1>1. <<>> \in Seq(1..n) BY EmptySeq
<1> QED BY <1>1 DEF Idle, Doing

LEMMA DoingMore == ASSUME NEW n \in Nat, NEW m \in Nat, n <= m PROVE Doing(n) \subseteq Doing(m)
<1>1. 1..n \subseteq 1..m OBVIOUS
<1>2. Seq(1..n) \subseteq Seq(1..m) BY <1>1, SeqIn
<1> QED BY <1>2 DEF Doing

\* What becomes of whoever stops the behaviour: he awaits another instance, or the close is
\* over, or a build begins, which overtakes the others.
LEMMA StoppingIs ==
    ASSUME DesignTypes, NEW o \in Owner, NEW t \in Doing(built), NEW d \in Document, Stopping(o, t, d)
    PROVE  /\ connected' = connected /\ built' = built
           /\ \/ /\ NextConnected(t) # {}
                 /\ \E i \in NextConnected(t) :
                       /\ task' = [task EXCEPT ![o] = After(t, i)]
                       /\ alive' = alive \ {t.list[i]}
                 /\ UNCHANGED <<scope, instances, attached, adrift>>
              \/ /\ NextConnected(t) = {} /\ instances' = <<>> /\ attached' = 0 /\ alive' = alive
                 /\ o = "close" /\ task' = [task EXCEPT ![o] = Idle] /\ UNCHANGED <<scope, adrift>>
              \/ /\ NextConnected(t) = {} /\ instances' = <<>> /\ attached' = 0 /\ alive' = alive
                 /\ o # "close" /\ scope' = {} /\ adrift' = adrift \cup (Early(d) \cap {"scope"})
                 /\ task' = [Overtake(task) EXCEPT ![o] = Begun(t.start, d.modules)]
<1>1. CASE NextConnected(t) # {}
  <2>1. (CHOOSE i \in NextConnected(t) : TRUE) \in NextConnected(t) BY <1>1
  <2> QED BY <1>1, <2>1 DEF Stopping, After
<1>2. CASE NextConnected(t) = {} BY <1>2 DEF Stopping, Begun
<1> QED BY <1>1, <1>2

LEMMA StoppingTypes ==
    ASSUME DesignTypes, NEW o \in Owner, NEW t \in Doing(built), NEW d \in Document, Stopping(o, t, d)
    PROVE  RunTypes' /\ \A p \in Owner : p # o => (task[p] = Idle <=> task'[p] = Idle)
<1>1. \A i \in NextConnected(t) : After(t, i) \in Doing(built)
  <2>1. t.next \in Nat /\ Len(t.list) \in Nat BY DEF Doing
  <2>2. \A i \in NextConnected(t) : i + 1 \in Nat BY <2>1 DEF NextConnected
  <2> QED BY <2>2 DEF Doing, After
<1>2. built \in Nat /\ Idle \in Doing(built)
  <2>1. built \in Nat BY DEF DesignTypes, RunTypes
  <2> QED BY <2>1, IdleIs
<1>3. Begun(t.start, d.modules) \in Doing(built)
  BY <1>2 DEF Doing, Document, Idle, Begun
<1>4. Overtake(task) \in [Owner -> Doing(built)]
  BY DEF Overtake, Doing, DesignTypes, RunTypes
<1>5. ASSUME NEW p \in Owner PROVE task[p] = Idle <=> Overtake(task)[p] = Idle
  <2>1. CASE task[p].at = "load"
    <3>1. Overtake(task)[p].at = "load" BY <1>2, <2>1 DEF Overtake, DesignTypes, RunTypes, Doing
    <3> QED BY <2>1, <3>1 DEF Idle
  <2>2. CASE task[p].at # "load" BY <2>2 DEF Overtake
  <2> QED BY <2>1, <2>2
<1>6. <<>> \in Seq(1..built) BY EmptySeq
<1>7. /\ scope \subseteq Module /\ built \in 0..MaxInstances /\ instances \in Seq(1..built)
      /\ attached \in Nat /\ alive \subseteq connected /\ connected \subseteq 1..built
      /\ task \in [Owner -> Doing(built)]
  BY DEF DesignTypes, RunTypes
<1>8. connected' = connected /\ built' = built BY StoppingIs
<1>9. CASE NextConnected(t) # {}
  <2>1. PICK i \in NextConnected(t) : task' = [task EXCEPT ![o] = After(t, i)]
    BY <1>9, StoppingIs
  <2>2. /\ scope' = scope /\ instances' = instances /\ attached' = attached /\ alive' \subseteq alive
    BY <1>9, StoppingIs
  <2>3. task' \in [Owner -> Doing(built)] BY <1>1, <1>7, <2>1
  <2>4. \A p \in Owner : p # o => task'[p] = task[p] BY <1>7, <2>1
  <2> QED BY <1>7, <1>8, <2>2, <2>3, <2>4 DEF RunTypes
<1>10. CASE NextConnected(t) = {}
  <2>1. instances' = <<>> /\ attached' = 0 /\ alive' = alive /\ scope' \subseteq Module
    BY <1>7, <1>10, StoppingIs
  <2>2. \/ task' = [task EXCEPT ![o] = Idle]
        \/ task' = [Overtake(task) EXCEPT ![o] = Begun(t.start, d.modules)]
    BY <1>10, StoppingIs
  <2>3. task' \in [Owner -> Doing(built)] BY <1>2, <1>3, <1>4, <1>7, <2>2
  <2>4. \A p \in Owner : p # o => task'[p] \in {task[p], Overtake(task)[p]} BY <1>4, <1>7, <2>2
  <2> QED BY <1>5, <1>6, <1>7, <1>8, <2>1, <2>3, <2>4 DEF RunTypes
<1> QED BY <1>9, <1>10

\* How a stop begins: with the first of the instances there are.
Opening(start) == [Idle EXCEPT !.start = start, !.list = instances, !.next = 1]

LEMMA BeginIs ==
    ASSUME DesignTypes, NEW o \in Owner, NEW start \in BOOLEAN, NEW d \in Document, Begin(o, start, d)
    PROVE  /\ task[o] = Idle /\ Opening(start) \in Doing(built) /\ Stopping(o, Opening(start), d)
           /\ RunTypes' /\ \A p \in Owner : p # o => (task[p] = Idle <=> task'[p] = Idle)
<1>1. built \in Nat /\ instances \in Seq(1..built) BY DEF DesignTypes, RunTypes
<1>2. Opening(start) \in Doing(built) BY <1>1, IdleIs DEF Opening, Doing, Idle
<1>3. task[o] = Idle /\ Stopping(o, Opening(start), d) BY DEF Begin, Opening
<1> QED BY <1>2, <1>3, StoppingTypes

\* Recording an edit keeps the undo history within its depth.
LEMMA RecordTypes ==
    ASSUME Assumed, DrawnTypes, NEW d \in Document, NEW run \in {"none", "box", "document"}, Record(d, run)
    PROVE  DrawnTypes'
<1>1. PICK quick \in BOOLEAN :
        LET continues == run # "none" /\ run = key /\ quick
            longer == Append(past, doc)
        IN /\ IF continues THEN UNCHANGED <<past, future>>
              ELSE /\ past' = IF Len(longer) > HistoryDepth THEN Tail(longer) ELSE longer
                   /\ future' = <<>>
           /\ key' = run /\ doc' = d
  BY DEF Record
<1>2. doc' = d /\ key' = run BY <1>1
<1>3. CASE UNCHANGED <<past, future>> BY <1>2, <1>3 DEF DrawnTypes
<1>4. CASE ~UNCHANGED <<past, future>>
  <2> DEFINE longer == Append(past, doc)
  <2>1. future' = <<>> /\ past' = IF Len(longer) > HistoryDepth THEN Tail(longer) ELSE longer BY <1>1, <1>4
  <2>2. longer \in Seq(Document) /\ Len(longer) = Len(past) + 1 BY AppendProperties DEF DrawnTypes
  <2>3. Tail(longer) \in Seq(Document) /\ Len(Tail(longer)) = Len(past)
    <3>0. Len(longer) # 0 /\ Len(<<>>) = 0
      <4>1. Len(past) \in Nat BY DEF DrawnTypes
      <4> QED BY <2>2, <4>1
    <3>1. longer # <<>> BY <3>0
    <3> QED BY <2>2, <3>1, HeadTailProperties DEF DrawnTypes
  <2>4. Len(past) \in Nat /\ Len(future) \in Nat /\ HistoryDepth \in Nat /\ Len(past) + Len(future) <= HistoryDepth
    BY DEF DrawnTypes, Assumed
  <2> HIDE DEF longer
  <2>5. past' \in Seq(Document) /\ Len(past') <= HistoryDepth BY <2>1, <2>2, <2>3, <2>4
  <2>6. future' \in Seq(Document) /\ Len(future') = 0 BY <2>1, EmptySeq
  <2>7. Len(past') \in Nat BY <2>5
  <2> QED BY <1>2, <2>4, <2>5, <2>6, <2>7 DEF DrawnTypes
<1> QED BY <1>3, <1>4

LEMMA TravelTypes ==
    ASSUME Assumed, DrawnTypes, FollowTypes,
           \/ Travel(past, future, past', future')
           \/ Travel(future, past, future', past')
    PROVE  DrawnTypes' /\ doc' \in Document /\ FollowTypes'
<1>1. ASSUME NEW from \in Seq(Document), NEW to \in Seq(Document), from # <<>>
      PROVE  /\ Last(from) \in Document /\ Front(from) \in Seq(Document) /\ Len(Front(from)) = Len(from) - 1
             /\ Append(to, doc) \in Seq(Document) /\ Len(Append(to, doc)) = Len(to) + 1
  <2>1. Len(from) \in Nat /\ Len(from) # 0 BY <1>1, EmptySeq
  <2>2. Front(from) = [i \in 1..(Len(from) - 1) |-> from[i]]
    <3>1. Front(from) = [i \in 1..(Len(from) - 1 - 1 + 1) |-> from[i + 1 - 1]] BY <2>1 DEF Front
    <3>2. Len(from) - 1 - 1 + 1 = Len(from) - 1 /\ \A i \in 1..(Len(from) - 1) : i + 1 - 1 = i BY <2>1
    <3> QED BY <3>1, <3>2
  <2>3. Len(from) - 1 \in Nat BY <2>1
  <2>4. \A i \in 1..(Len(from) - 1) : from[i] \in Document BY <2>1
  <2>5. Front(from) \in [1..(Len(from) - 1) -> Document] BY <2>2, <2>4
  <2>6. Front(from) \in Seq(Document) /\ Len(Front(from)) = Len(from) - 1 BY <2>3, <2>5, SeqDef, LenProperties
  <2>7. Last(from) \in Document BY <2>1 DEF Last
  <2>8. Append(to, doc) \in Seq(Document) /\ Len(Append(to, doc)) = Len(to) + 1 BY AppendProperties DEF DrawnTypes
  <2> QED BY <2>6, <2>7, <2>8
<1>2. Len(past) \in Nat /\ Len(future) \in Nat /\ HistoryDepth \in Nat /\ Len(past) + Len(future) <= HistoryDepth
  BY DEF DrawnTypes, Assumed
<1>3. doc \in Document /\ past \in Seq(Document) /\ future \in Seq(Document) BY DEF DrawnTypes
<1>4. /\ doc' \in Document /\ key' = "none" /\ past' \in Seq(Document) /\ future' \in Seq(Document)
      /\ Len(past') + Len(future') = Len(past) + Len(future)
  <2>1. CASE Travel(past, future, past', future')
    <3>1. /\ past # <<>> /\ key' = "none" /\ doc' = Last(past)
          /\ past' = Front(past) /\ future' = Append(future, doc)
      BY <2>1 DEF Travel
    <3>2. /\ Last(past) \in Document /\ Front(past) \in Seq(Document) /\ Len(Front(past)) = Len(past) - 1
          /\ Append(future, doc) \in Seq(Document) /\ Len(Append(future, doc)) = Len(future) + 1
      BY <1>1, <1>3, <3>1
    <3>3. Len(past') = Len(past) - 1 /\ Len(future') = Len(future) + 1 BY <3>1, <3>2
    <3> QED BY <1>2, <3>1, <3>2, <3>3
  <2>2. CASE Travel(future, past, future', past')
    <3>1. /\ future # <<>> /\ key' = "none" /\ doc' = Last(future)
          /\ future' = Front(future) /\ past' = Append(past, doc)
      BY <2>2 DEF Travel
    <3>2. /\ Last(future) \in Document /\ Front(future) \in Seq(Document) /\ Len(Front(future)) = Len(future) - 1
          /\ Append(past, doc) \in Seq(Document) /\ Len(Append(past, doc)) = Len(past) + 1
      BY <1>1, <1>3, <3>1
    <3>3. Len(future') = Len(future) - 1 /\ Len(past') = Len(past) + 1 BY <3>1, <3>2
    <3> QED BY <1>2, <3>1, <3>2, <3>3
  <2> QED BY <2>1, <2>2
<1>5. typed' = NoDocument /\ followFrom' \in {doc, followFrom} /\ follow' = follow BY DEF Travel
<1> QED BY <1>2, <1>3, <1>4, <1>5 DEF DrawnTypes, FollowTypes

LEMMA TypesBegin == Assumed /\ Init => DesignTypes
<1> SUFFICES ASSUME Assumed, Init PROVE DesignTypes OBVIOUS
<1>1. doc \in Document /\ doc.modules = Module BY DEF Init, Document
<1>2. built = Classes * Cardinality(Module) /\ Cardinality(Module) \in Nat
  BY <1>1, FS_CardinalityType DEF Init, Assumed
<1>3. Classes * Cardinality(Module) \in Nat
  <2>1. \A a, b \in Nat : a * b \in Nat OBVIOUS
  <2> QED BY <1>2, <2>1 DEF Assumed
<1>4. built \in 0..MaxInstances BY <1>2, <1>3 DEF Assumed
<1>5. DrawnTypes
  <2>1. past = <<>> /\ future = <<>> /\ key = "none" BY DEF Init
  <2>2. <<>> \in Seq(Document) /\ Len(<<>>) = 0 BY EmptySeq
  <2> QED BY <1>1, <2>1, <2>2 DEF DrawnTypes, Assumed
<1>6. FollowTypes BY DEF Init, FollowTypes, Resting
<1>7. ViewTypes BY DEF Init, ViewTypes, Mode, Still
<1>8. ReadTypes BY <1>1 DEF Init, ReadTypes, Document
<1>9. RunTypes
  <2>1. instances = [i \in 1..built |-> i] BY DEF Init
  <2>2. instances \in [1..built -> 1..built] BY <2>1
  <2>3. instances \in Seq(1..built) BY <1>4, <2>2, SeqDef
  <2>4. scope = Module /\ attached \in {0, 1} /\ alive = connected /\ connected \subseteq 1..built
    BY <1>1 DEF Init
  <2>5. task = [o \in Owner |-> Idle] BY DEF Init
  <2>6. task \in [Owner -> Doing(built)] BY <1>4, <2>5, IdleIs
  <2> QED BY <1>4, <2>3, <2>4, <2>6 DEF RunTypes
<1>10. OwnerTypes BY DEF Init, OwnerTypes, Owner
<1> QED BY <1>5, <1>6, <1>7, <1>8, <1>9, <1>10 DEF DesignTypes

LEMMA StopTypes ==
    ASSUME Assumed, DesignTypes, NEW o \in Owner, Stop(o) PROVE DesignTypes'
<1>1. task[o] \in Doing(built) /\ doc \in Document BY DEF DesignTypes, RunTypes, DrawnTypes
<1>2. Stopping(o, task[o], doc) /\ task[o] # Idle BY DEF Stop, Idle
<1>3. RunTypes' /\ \A p \in Owner : p # o => (task[p] = Idle <=> task'[p] = Idle)
  BY <1>1, <1>2, StoppingTypes
<1>4. UNCHANGED <<history, follows, views, reads>> BY DEF Stop
<1>5. DrawnTypes' /\ FollowTypes' /\ ViewTypes' /\ ReadTypes'
  BY <1>4 DEF DesignTypes, DrawnTypes, FollowTypes, ViewTypes, ReadTypes, history, follows, views, reads
<1>6. OwnerTypes' BY <1>2, <1>3, <1>4 DEF DesignTypes, OwnerTypes, Owner, follows, views
<1> QED BY <1>3, <1>5, <1>6 DEF DesignTypes

\* The instances that are built are new.
NewInstances(o) == [i \in 1..(Classes * Cardinality(task[o].names \cap doc.modules)) |-> built + i]

LEMMA NewInstancesAre ==
    ASSUME Assumed, DesignTypes, NEW o \in Owner
    PROVE  /\ NewInstances(o) \in Seq(Nat) /\ Len(NewInstances(o)) \in Nat
           /\ \A i \in 1..Len(NewInstances(o)) : NewInstances(o)[i] = built + i
<1> DEFINE n == Classes * Cardinality(task[o].names \cap doc.modules)
<1>1. task[o].names \subseteq Module BY DEF DesignTypes, RunTypes, Doing
<1>2. Cardinality(task[o].names \cap doc.modules) \in Nat
  BY <1>1, FS_CardinalityType, FS_Subset DEF Assumed
<1>3. n \in Nat
  <2>1. \A a, b \in Nat : a * b \in Nat OBVIOUS
  <2> QED BY <1>2, <2>1 DEF Assumed
<1>4. built \in Nat BY DEF DesignTypes, RunTypes
<1> HIDE DEF n
<1>5. NewInstances(o) = [i \in 1..n |-> built + i] BY DEF NewInstances, n
<1>6. NewInstances(o) \in [1..n -> Nat] BY <1>3, <1>4, <1>5
<1>7. NewInstances(o) \in Seq(Nat) BY <1>3, <1>6, SeqDef
<1>8. Len(NewInstances(o)) = n BY <1>3, <1>5
<1> QED BY <1>3, <1>5, <1>7, <1>8

\* What is connected next.
Connecting(list, i) == [Idle EXCEPT !.at = "connect", !.list = list, !.next = i + 1]

LEMMA ConnectingIs ==
    ASSUME NEW n \in Nat, NEW list \in Seq(1..n), NEW i \in Nat
    PROVE  /\ Connecting(list, i) \in Doing(n)
           /\ Connecting(list, i).at = "connect" /\ Connecting(list, i).list = list
           /\ Connecting(list, i).next = i + 1
<1>1. Idle \in Doing(n) BY IdleIs
<1>2. i + 1 \in Nat /\ i + 1 # 0 OBVIOUS
<1>3. /\ Connecting(list, i) \in [at : {"idle", "stop", "load", "connect"}, start : BOOLEAN, list : Seq(1..n),
                                  next : Nat, names : SUBSET Module, overtaken : BOOLEAN]
      /\ Connecting(list, i).at = "connect" /\ Connecting(list, i).list = list
      /\ Connecting(list, i).next = i + 1
  BY <1>1, <1>2 DEF Doing, Connecting
<1> QED BY <1>2, <1>3 DEF Doing

LEMMA LoadIs ==
    ASSUME Assumed, DesignTypes, NEW o \in Owner, Load(o)
    PROVE  /\ task[o].at = "load"
           /\ \/ task[o].overtaken /\ UNCHANGED <<scope, instances, built>>
              \/ /\ ~task[o].overtaken /\ scope' = task[o].names /\ instances' = instances \o NewInstances(o)
                 /\ built' = built + Len(NewInstances(o)) /\ built' <= MaxInstances
           /\ \/ /\ task[o].start /\ ~task[o].overtaken /\ instances' # <<>>
                 /\ connected' = connected \cup {instances'[1]} /\ alive' = alive \cup {instances'[1]}
                 /\ task' = [task EXCEPT ![o] = Connecting(instances', 1)] /\ attached' = attached
              \/ /\ task[o].start => task[o].overtaken \/ instances' = <<>>
                 /\ task' = [task EXCEPT ![o] = Idle] /\ UNCHANGED <<connected, alive>>
                 /\ attached' = IF task[o].start /\ ~task[o].overtaken THEN attached + 1 ELSE attached
           /\ UNCHANGED <<history, follows, views, reads, others>>
BY DEF Load, ConnectUpTo, NewInstances, Connecting

LEMMA LoadTypes ==
    ASSUME Assumed, DesignTypes, NEW o \in Owner, Load(o) PROVE DesignTypes'
<1>1. /\ scope \subseteq Module /\ built \in 0..MaxInstances /\ instances \in Seq(1..built)
      /\ attached \in Nat /\ alive \subseteq connected /\ connected \subseteq 1..built
      /\ task \in [Owner -> Doing(built)] /\ MaxInstances \in Nat
  BY DEF DesignTypes, RunTypes, Assumed
<1>2. task[o].at = "load" /\ task[o].names \subseteq Module BY <1>1, LoadIs DEF Doing
<1>3. scope' \subseteq Module BY <1>1, <1>2, LoadIs
<1>4. built' \in 0..MaxInstances /\ built <= built' /\ instances' \in Seq(1..built')
  <2>1. CASE task[o].overtaken BY <1>1, <2>1, LoadIs
  <2>2. CASE ~task[o].overtaken
    <3> DEFINE new == NewInstances(o)
    <3>1. /\ new \in Seq(Nat) /\ Len(new) \in Nat /\ \A i \in 1..Len(new) : new[i] = built + i
      BY NewInstancesAre
    <3>2. instances' = instances \o new /\ built' = built + Len(new) /\ built' <= MaxInstances
      BY <2>2, LoadIs
    <3> HIDE DEF new
    <3>3. built' \in 0..MaxInstances /\ built <= built' BY <1>1, <3>1, <3>2
    <3>4. 1..built \subseteq 1..built' BY <1>1, <3>3
    <3>5. instances \in Seq(1..built') BY <1>1, <3>4, SeqIn
    <3>6. \A i \in 1..Len(new) : new[i] \in 1..built' BY <1>1, <3>1, <3>2
    <3>7. new \in Seq(1..built')
      <4>1. new \in [1..Len(new) -> 1..built'] BY <3>1, <3>6, LenProperties
      <4>2. new \in UNION {[1..n -> 1..built'] : n \in Nat} BY <3>1, <4>1
      <4> QED BY <4>2, SeqDef
    <3>8. instances \o new \in Seq(1..built') BY <3>5, <3>7, ConcatProperties
    <3> QED BY <3>2, <3>3, <3>8
  <2> QED BY <2>1, <2>2
<1>5. connected \subseteq 1..built' BY <1>1, <1>4
<1>6. Doing(built) \subseteq Doing(built') BY <1>1, <1>4, DoingMore
<1>7. attached' \in Nat BY <1>1, LoadIs
<1>8. Idle \in Doing(built') BY <1>4, IdleIs
<1>9. ASSUME instances' # <<>> PROVE instances'[1] \in 1..built' /\ Connecting(instances', 1) \in Doing(built')
  <2>1. Len(instances') \in Nat /\ Len(instances') # 0 BY <1>4, <1>9, EmptySeq
  <2>2. instances'[1] \in 1..built' BY <1>4, <2>1, ElementOfSeq
  <2>3. Connecting(instances', 1) \in Doing(built') BY <1>4, ConnectingIs
  <2> QED BY <2>2, <2>3
<1>10. task' \in [Owner -> Doing(built')] /\ \A p \in Owner : p # o => task'[p] = task[p]
  BY <1>1, <1>6, <1>8, <1>9, LoadIs
<1>11. alive' \subseteq connected' /\ connected' \subseteq 1..built' BY <1>1, <1>5, <1>9, LoadIs
<1>12. RunTypes' BY <1>3, <1>4, <1>7, <1>10, <1>11 DEF RunTypes
<1>13. UNCHANGED <<history, follows, views, reads>> BY LoadIs
<1>14. DrawnTypes' /\ FollowTypes' /\ ViewTypes' /\ ReadTypes'
  BY <1>13 DEF DesignTypes, DrawnTypes, FollowTypes, ViewTypes, ReadTypes, history, follows, views, reads
<1>15. task[o] # Idle BY <1>2 DEF Idle
<1>16. OwnerTypes' BY <1>10, <1>13, <1>15 DEF DesignTypes, OwnerTypes, Owner, follows, views
<1> QED BY <1>12, <1>14, <1>16 DEF DesignTypes

LEMMA ConnectTypes ==
    ASSUME Assumed, DesignTypes, NEW o \in Owner, Connect(o) \/ Attach(o) PROVE DesignTypes'
<1>1. /\ scope \subseteq Module /\ built \in 0..MaxInstances /\ instances \in Seq(1..built)
      /\ attached \in Nat /\ alive \subseteq connected /\ connected \subseteq 1..built
      /\ task \in [Owner -> Doing(built)]
  BY DEF DesignTypes, RunTypes
<1>2. UNCHANGED <<scope, instances, built, history, follows, views, reads>> /\ task[o].at = "connect"
  BY DEF Connect, Attach
<1>3. built \in Nat /\ task[o].list \in Seq(1..built) /\ task[o].next \in Nat /\ Idle \in Doing(built)
  <2>1. built \in Nat BY <1>1
  <2> QED BY <1>1, <2>1, IdleIs DEF Doing
<1>4. ASSUME Connect(o)
      PROVE  /\ connected' \subseteq 1..built /\ alive' \subseteq connected' /\ attached' \in Nat
             /\ task' \in [Owner -> Doing(built)] /\ \A p \in Owner : p # o => task'[p] = task[p]
  <2> DEFINE list == task[o].list
             next == task[o].next
  <2>1. /\ next <= Len(list) /\ attached' = attached
        /\ connected' = connected \cup {list[next]} /\ alive' = alive \cup {list[next]}
        /\ task' = [task EXCEPT ![o] = Connecting(list, next)]
    BY <1>4 DEF Connect, ConnectUpTo, Connecting
  <2>2. Connecting(list, next) \in Doing(built) BY <1>3, ConnectingIs
  <2>3. next # 0 BY <1>1, <1>2 DEF Doing
  <2>4. list[next] \in 1..built
    <3>1. next \in 1..Len(list) BY <1>3, <2>1, <2>3
    <3> QED BY <1>3, <3>1, ElementOfSeq
  <2> HIDE DEF list, next
  <2>5. task' \in [Owner -> Doing(built)] /\ \A p \in Owner : p # o => task'[p] = task[p]
    BY <1>1, <2>1, <2>2
  <2> QED BY <1>1, <2>1, <2>4, <2>5
<1>5. ASSUME Attach(o)
      PROVE  /\ connected' \subseteq 1..built /\ alive' \subseteq connected' /\ attached' \in Nat
             /\ task' \in [Owner -> Doing(built)] /\ \A p \in Owner : p # o => task'[p] = task[p]
  BY <1>1, <1>3, <1>5 DEF Attach
<1>6. RunTypes' /\ \A p \in Owner : p # o => task'[p] = task[p]
  <2>1. connected' \subseteq 1..built /\ alive' \subseteq connected' /\ attached' \in Nat
        /\ task' \in [Owner -> Doing(built)] /\ \A p \in Owner : p # o => task'[p] = task[p]
    BY <1>1, <1>4, <1>5
  <2> QED BY <1>1, <1>2, <2>1 DEF RunTypes
<1>7. DrawnTypes' /\ FollowTypes' /\ ViewTypes' /\ ReadTypes'
  BY <1>2 DEF DesignTypes, DrawnTypes, FollowTypes, ViewTypes, ReadTypes, history, follows, views, reads
<1>8. task[o] # Idle BY <1>2 DEF Idle
<1>9. OwnerTypes' BY <1>2, <1>6, <1>8 DEF DesignTypes, OwnerTypes, Owner, follows, views
<1> QED BY <1>6, <1>7, <1>9 DEF DesignTypes

LEMMA SameTypes ==
    ASSUME DesignTypes
    PROVE  /\ UNCHANGED history => DrawnTypes'
           /\ UNCHANGED follows => FollowTypes'
           /\ UNCHANGED views => ViewTypes'
           /\ UNCHANGED reads => ReadTypes'
           /\ UNCHANGED behaviour => RunTypes' /\ task' = task
<1>1. UNCHANGED history => DrawnTypes' BY DEF DesignTypes, DrawnTypes, history
<1>2. UNCHANGED follows => FollowTypes' BY DEF DesignTypes, FollowTypes, follows
<1>3. UNCHANGED views => ViewTypes' BY DEF DesignTypes, ViewTypes, views
<1>4. UNCHANGED reads => ReadTypes' BY DEF DesignTypes, ReadTypes, reads
<1>5. UNCHANGED behaviour => RunTypes' /\ task' = task BY DEF DesignTypes, RunTypes, behaviour
<1> QED BY <1>1, <1>2, <1>3, <1>4, <1>5

\* The documents an edit makes.
LEMMA EditedIs ==
    ASSUME DesignTypes
    PROVE  /\ [doc EXCEPT !.body = 1 - @] \in Document
           /\ \A s \in Source \cup {None} : [doc EXCEPT !.source = s] \in Document
           /\ \A names \in SUBSET Module : [doc EXCEPT !.modules = names] \in Document
<1>1. doc \in Document BY DEF DesignTypes, DrawnTypes
<1>2. doc.body \in {0, 1} BY <1>1 DEF Document
<1>3. 1 - doc.body \in {0, 1} BY <1>2
<1> QED BY <1>1, <1>3 DEF Document

LEMMA EditTypes ==
    ASSUME Assumed, DesignTypes,
           \/ \E run \in {"none", "box"} : Draw(run)
           \/ \E s \in Source \cup {None} : ChooseSource(s)
           \/ \E m \in Module : Tick(m) \/ NewModule(m)
           \/ \E d \in Document : TypeDocument(d)
    PROVE  DesignTypes'
<1> USE SameTypes, EditedIs
<1>0. doc \in Document /\ doc.modules \subseteq Module BY DEF DesignTypes, DrawnTypes, Document
<1>1. ASSUME NEW run \in {"none", "box"}, Draw(run) PROVE DesignTypes'
  <2>1. Record([doc EXCEPT !.body = 1 - @], run) BY <1>1 DEF Draw
  <2>2. DrawnTypes' BY <2>1, RecordTypes DEF DesignTypes
  <2>3. UNCHANGED <<follows, views, reads, behaviour>> BY <1>1 DEF Draw
  <2>4. FollowTypes' /\ ViewTypes' /\ ReadTypes' /\ RunTypes' /\ task' = task BY <2>3
  <2>5. OwnerTypes' BY <2>3, <2>4 DEF DesignTypes, OwnerTypes, follows, views
  <2> QED BY <2>2, <2>4, <2>5 DEF DesignTypes
<1>2. ASSUME NEW s \in Source \cup {None}, ChooseSource(s) PROVE DesignTypes'
  <2>1. Record([doc EXCEPT !.source = s], "none") BY <1>2 DEF ChooseSource
  <2>2. DrawnTypes' BY <2>1, RecordTypes DEF DesignTypes
  <2>3. UNCHANGED <<follows, views, behaviour>> BY <1>2 DEF ChooseSource
  <2>4. doc' \in Document BY <2>2 DEF DrawnTypes
  <2>5. ReadTypes' BY <1>2, <2>4 DEF ChooseSource, ReadRows, ReadTypes, Document
  <2>6. FollowTypes' /\ ViewTypes' /\ RunTypes' /\ task' = task BY <2>3
  <2>7. OwnerTypes' BY <2>3, <2>6 DEF DesignTypes, OwnerTypes, follows, views
  <2> QED BY <2>2, <2>5, <2>6, <2>7 DEF DesignTypes
<1>3. ASSUME NEW m \in Module, Tick(m) PROVE DesignTypes'
  <2> DEFINE names == IF m \in doc.modules THEN doc.modules \ {m} ELSE doc.modules \cup {m}
  <2>1. names \in SUBSET Module BY <1>0
  <2>2. Record([doc EXCEPT !.modules = names], "none") BY <1>3 DEF Tick
  <2>3. DrawnTypes' BY <2>1, <2>2, RecordTypes DEF DesignTypes
  <2>4. doc' \in Document BY <2>3 DEF DrawnTypes
  <2>5. Begin("tick", mode = "preview", doc') /\ UNCHANGED <<follows, views, reads>> BY <1>3 DEF Tick
  <2>6. RunTypes' /\ \A p \in Owner : p # "tick" => (task[p] = Idle <=> task'[p] = Idle)
    BY <2>4, <2>5, BeginIs DEF Owner
  <2>7. FollowTypes' /\ ViewTypes' /\ ReadTypes' BY <2>5
  <2>8. OwnerTypes' BY <2>5, <2>6 DEF DesignTypes, OwnerTypes, Owner, follows, views
  <2> QED BY <2>3, <2>6, <2>7, <2>8 DEF DesignTypes
<1>4. ASSUME NEW m \in Module, NewModule(m) PROVE DesignTypes'
  <2>1. doc.modules \cup {m} \in SUBSET Module BY <1>0
  <2>2. Record([doc EXCEPT !.modules = @ \cup {m}], "none") BY <1>4 DEF NewModule
  <2>3. DrawnTypes' BY <2>1, <2>2, RecordTypes DEF DesignTypes
  <2>4. UNCHANGED <<follows, views, reads, behaviour>> BY <1>4 DEF NewModule
  <2>5. FollowTypes' /\ ViewTypes' /\ ReadTypes' /\ RunTypes' /\ task' = task BY <2>4
  <2>6. OwnerTypes' BY <2>4, <2>5 DEF DesignTypes, OwnerTypes, follows, views
  <2> QED BY <2>3, <2>5, <2>6 DEF DesignTypes
<1>5. ASSUME NEW d \in Document, TypeDocument(d) PROVE DesignTypes'
  <2>1. Record(d, "document") BY <1>5 DEF TypeDocument
  <2>2. DrawnTypes' BY <2>1, RecordTypes DEF DesignTypes
  <2>3. UNCHANGED <<followFrom, follow, views, reads, behaviour>> /\ typed' \in {doc, typed} BY <1>5 DEF TypeDocument
  <2>4. FollowTypes' BY <1>0, <2>3 DEF DesignTypes, FollowTypes
  <2>5. ViewTypes' /\ ReadTypes' /\ RunTypes' /\ task' = task BY <2>3
  <2>6. OwnerTypes' BY <2>3, <2>5 DEF DesignTypes, OwnerTypes, views
  <2> QED BY <2>2, <2>4, <2>5, <2>6 DEF DesignTypes
<1> QED BY <1>1, <1>2, <1>3, <1>4, <1>5

LEMMA TravelsTypes ==
    ASSUME Assumed, DesignTypes, Undo \/ Redo PROVE DesignTypes'
<1>1. Travel(past, future, past', future') \/ Travel(future, past, future', past') BY DEF Undo, Redo
<1>2. DrawnTypes' /\ FollowTypes' BY <1>1, TravelTypes DEF DesignTypes
<1>3. UNCHANGED <<follow, views, reads, behaviour>> BY <1>1 DEF Travel
<1>4. ViewTypes' /\ ReadTypes' /\ RunTypes' /\ task' = task BY <1>3, SameTypes
<1>5. OwnerTypes' BY <1>3, <1>4 DEF DesignTypes, OwnerTypes, views
<1> QED BY <1>2, <1>4, <1>5 DEF DesignTypes

LEMMA FollowsTypes ==
    ASSUME Assumed, DesignTypes, TypedRunEnds \/ FollowBegins \/ FollowModules \/ FollowEnds \/ Landed
    PROVE  DesignTypes'
<1> USE SameTypes
<1>0. doc \in Document /\ task \in [Owner -> Doing(built)] BY DEF DesignTypes, DrawnTypes, RunTypes
<1>1. CASE TypedRunEnds
  <2>1. UNCHANGED <<history, views, reads, behaviour>> /\ follow' = follow /\ typed' = NoDocument
        /\ followFrom' \in {typed, followFrom}
    BY <1>1 DEF TypedRunEnds
  <2>2. FollowTypes' BY <2>1 DEF DesignTypes, FollowTypes
  <2>3. DrawnTypes' /\ ViewTypes' /\ ReadTypes' /\ RunTypes' /\ task' = task BY <2>1
  <2>4. OwnerTypes' BY <2>1, <2>3 DEF DesignTypes, OwnerTypes, views
  <2> QED BY <2>2, <2>3, <2>4 DEF DesignTypes
<1>2. CASE FollowBegins
  <2>1. UNCHANGED <<history, views, behaviour>> /\ follow = Resting /\ follow'.at = "rows"
        /\ typed' = typed /\ followFrom' = NoDocument /\ follow' = [at |-> "rows", from |-> followFrom]
    BY <1>2 DEF FollowBegins
  <2>2. FollowTypes' BY <2>1 DEF DesignTypes, FollowTypes
  <2>3. DrawnTypes' /\ ViewTypes' /\ RunTypes' /\ task' = task BY <2>1
  <2>4. UNCHANGED reads \/ ReadRows(doc, "follow") BY <1>2 DEF FollowBegins
  <2>5. ReadTypes' BY <1>0, <2>4 DEF ReadTypes, ReadRows, Document
  <2>6. OwnerTypes' BY <2>1, <2>3 DEF DesignTypes, OwnerTypes, views, Resting
  <2> QED BY <2>2, <2>3, <2>5, <2>6 DEF DesignTypes
<1>3. CASE FollowModules
  <2>1. UNCHANGED <<history, typed, followFrom, views, reads>> /\ follow' = [follow EXCEPT !.at = "scope"]
    BY <1>3 DEF FollowModules
  <2>2. FollowTypes' /\ follow'.at = "scope" BY <2>1 DEF DesignTypes, FollowTypes
  <2>3. DrawnTypes' /\ ViewTypes' /\ ReadTypes' BY <2>1
  <2>4. RunTypes' /\ \A p \in Owner : p # "follow" => (task[p] = Idle <=> task'[p] = Idle)
    <3>1. CASE UNCHANGED behaviour BY <3>1
    <3>2. CASE Begin("follow", mode = "preview", doc) BY <1>0, <3>2, BeginIs DEF Owner
    <3> QED BY <1>3, <3>1, <3>2 DEF FollowModules
  <2>5. OwnerTypes' BY <2>1, <2>2, <2>4 DEF DesignTypes, OwnerTypes, Owner, views
  <2> QED BY <2>2, <2>3, <2>4, <2>5 DEF DesignTypes
<1>4. CASE FollowEnds
  <2>1. /\ UNCHANGED <<history, typed, followFrom, mode, wanted, reads, behaviour>> /\ follow' = Resting
        /\ task["follow"] = Idle /\ switch' = [switch EXCEPT !.wait = IF @ > 0 THEN @ - 1 ELSE 0]
    BY <1>4 DEF FollowEnds
  <2>2. FollowTypes' BY <2>1 DEF DesignTypes, FollowTypes, Resting
  <2>3. DrawnTypes' /\ ReadTypes' /\ RunTypes' /\ task' = task BY <2>1
  <2>4. switch.wait \in Nat /\ switch'.at = switch.at
    BY <2>1 DEF DesignTypes, ViewTypes
  <2>5. (IF switch.wait > 0 THEN switch.wait - 1 ELSE 0) \in Nat BY <2>4
  <2>6. ViewTypes' BY <2>1, <2>5 DEF DesignTypes, ViewTypes
  <2>7. OwnerTypes' BY <2>1, <2>3, <2>4 DEF DesignTypes, OwnerTypes
  <2> QED BY <2>2, <2>3, <2>6, <2>7 DEF DesignTypes
<1>5. CASE Landed
  <2>1. /\ UNCHANGED <<history, follows, views, behaviour>> /\ reading' = None /\ reader' = "panel"
        /\ rows' \in {None, reading}
    BY <1>5 DEF Landed
  <2>2. ReadTypes' BY <2>1 DEF DesignTypes, ReadTypes
  <2>3. DrawnTypes' /\ FollowTypes' /\ ViewTypes' /\ RunTypes' /\ task' = task BY <2>1
  <2>4. OwnerTypes' BY <2>1, <2>3 DEF DesignTypes, OwnerTypes, follows, views
  <2> QED BY <2>2, <2>3, <2>4 DEF DesignTypes
<1> QED BY <1>1, <1>2, <1>3, <1>4, <1>5

\* A view that is entered, and the run of typing that is settled first.
LEMMA EnterTypes ==
    ASSUME DesignTypes, NEW m \in Mode, Enter(m)
    PROVE  /\ FollowTypes' \/ follow' # follow
           /\ switch' \in [at : {"idle", "settle", "rows", "scope"}, to : Mode \cup {None}, wait : Nat]
           /\ switch'.at = "settle" /\ switch'.to = m
<1>1. /\ typed' = NoDocument /\ followFrom' \in {typed, followFrom}
      /\ \E n \in {0, 1, 2} : switch' = [at |-> "settle", to |-> m, wait |-> n]
  BY DEF Enter
<1> QED BY <1>1 DEF DesignTypes, FollowTypes

LEMMA PressTypes ==
    ASSUME Assumed, DesignTypes, \E m \in Mode : Press(m) PROVE DesignTypes'
<1> PICK m \in Mode : Press(m) OBVIOUS
<1>1. /\ UNCHANGED <<history, follow, mode, reads, behaviour>>
      /\ \/ switch # Still /\ wanted' = m /\ UNCHANGED <<typed, followFrom, switch>>
         \/ switch = Still /\ Enter(m) /\ wanted' = wanted
  BY DEF Press
<1>2. DrawnTypes' /\ ReadTypes' /\ RunTypes' /\ task' = task BY <1>1, SameTypes
<1>3. FollowTypes' /\ ViewTypes' /\ (switch' = switch \/ switch = Still)
  <2>1. CASE switch # Still BY <1>1, <2>1 DEF DesignTypes, FollowTypes, ViewTypes
  <2>2. CASE switch = Still
    <3>1. Enter(m) /\ wanted' = wanted /\ follow' = follow /\ mode' = mode BY <1>1, <2>2
    <3>2. FollowTypes' BY <3>1, EnterTypes
    <3>3. ViewTypes' BY <3>1, EnterTypes DEF DesignTypes, ViewTypes
    <3> QED BY <2>2, <3>2, <3>3
  <2> QED BY <2>1, <2>2
<1>4. OwnerTypes' BY <1>1, <1>2, <1>3 DEF DesignTypes, OwnerTypes, Still
<1> QED BY <1>2, <1>3, <1>4 DEF DesignTypes

LEMMA SwitchTypes ==
    ASSUME Assumed, DesignTypes, TakeMode \/ SwitchBehaviour \/ SwitchEnds PROVE DesignTypes'
<1> USE SameTypes
<1>0. doc \in Document /\ task \in [Owner -> Doing(built)] BY DEF DesignTypes, DrawnTypes, RunTypes
<1>1. CASE TakeMode
  <2>1. /\ UNCHANGED <<history, follows, wanted, behaviour>> /\ switch.at = "settle"
        /\ mode' = switch.to /\ switch' = [switch EXCEPT !.at = "rows"]
        /\ ReadRows(doc, "switch") \/ UNCHANGED reads
    BY <1>1 DEF TakeMode
  <2>2. DrawnTypes' /\ FollowTypes' /\ RunTypes' /\ task' = task BY <2>1
  <2>3. ViewTypes' BY <2>1 DEF DesignTypes, ViewTypes
  <2>4. ReadTypes' BY <1>0, <2>1 DEF ReadTypes, ReadRows, Document
  <2>5. OwnerTypes' BY <2>1, <2>2 DEF DesignTypes, OwnerTypes, follows
  <2> QED BY <2>2, <2>3, <2>4, <2>5 DEF DesignTypes
<1>2. CASE SwitchBehaviour
  <2>1. /\ UNCHANGED <<history, follows, mode, wanted, reads>> /\ switch.at = "rows"
        /\ switch' = [switch EXCEPT !.at = "scope"] /\ Begin("switch", mode = "preview", doc)
    BY <1>2 DEF SwitchBehaviour
  <2>2. DrawnTypes' /\ FollowTypes' /\ ReadTypes' BY <2>1
  <2>3. ViewTypes' /\ switch'.at = "scope" BY <2>1 DEF DesignTypes, ViewTypes
  <2>4. RunTypes' /\ \A p \in Owner : p # "switch" => (task[p] = Idle <=> task'[p] = Idle)
    BY <1>0, <2>1, BeginIs DEF Owner
  <2>5. OwnerTypes' BY <2>1, <2>3, <2>4 DEF DesignTypes, OwnerTypes, Owner, follows
  <2> QED BY <2>2, <2>3, <2>4, <2>5 DEF DesignTypes
<1>3. CASE SwitchEnds
  <2>1. /\ UNCHANGED <<history, follow, mode, reads, behaviour>> /\ wanted' = None /\ task["switch"] = Idle
        /\ \/ switch' = Still /\ UNCHANGED <<typed, followFrom>>
           \/ wanted \in Mode /\ Enter(wanted)
    BY <1>3 DEF SwitchEnds, DesignTypes, ViewTypes
  <2>2. DrawnTypes' /\ ReadTypes' /\ RunTypes' /\ task' = task BY <2>1
  <2>3. FollowTypes' /\ ViewTypes'
    <3>1. CASE switch' = Still /\ UNCHANGED <<typed, followFrom>>
      BY <2>1, <3>1 DEF DesignTypes, FollowTypes, ViewTypes, Still
    <3>2. CASE wanted \in Mode /\ Enter(wanted)
      <4>1. FollowTypes' BY <2>1, <3>2, EnterTypes
      <4>2. ViewTypes' BY <2>1, <3>2, EnterTypes DEF DesignTypes, ViewTypes
      <4> QED BY <4>1, <4>2
    <3> QED BY <2>1, <3>1, <3>2
  <2>4. OwnerTypes' BY <2>1, <2>2 DEF DesignTypes, OwnerTypes
  <2> QED BY <2>2, <2>3, <2>4 DEF DesignTypes
<1> QED BY <1>1, <1>2, <1>3

LEMMA SavedTypes ==
    ASSUME Assumed, DesignTypes, ModuleSaved \/ Close PROVE DesignTypes'
<1>0. doc \in Document BY DEF DesignTypes, DrawnTypes
<1>1. /\ UNCHANGED <<history, follows, mode, switch, wanted, reads>>
      /\ \E o \in {"saved", "close"}, start \in BOOLEAN : Begin(o, start, doc)
  <2>1. CASE ModuleSaved BY <2>1 DEF ModuleSaved
  <2>2. CASE Close BY <2>2 DEF Close, views
  <2> QED BY <2>1, <2>2
<1>2. PICK o \in {"saved", "close"}, start \in BOOLEAN : Begin(o, start, doc) BY <1>1
<1>3. RunTypes' /\ \A p \in Owner : p # o => (task[p] = Idle <=> task'[p] = Idle)
  BY <1>0, <1>2, BeginIs DEF Owner
<1>4. DrawnTypes' /\ FollowTypes' /\ ReadTypes' BY <1>1, SameTypes
<1>5. ViewTypes' BY <1>1 DEF DesignTypes, ViewTypes
<1>6. OwnerTypes' BY <1>1, <1>3 DEF DesignTypes, OwnerTypes, Owner, follows
<1> QED BY <1>3, <1>4, <1>5, <1>6 DEF DesignTypes

LEMMA TypesGoOn == Assumed /\ DesignTypes /\ [Next]_vars => DesignTypes'
<1> SUFFICES ASSUME Assumed, DesignTypes, [Next]_vars PROVE DesignTypes' OBVIOUS
<1>1. CASE UNCHANGED vars
  <2>1. UNCHANGED <<history, follows, views, reads, behaviour>> BY <1>1 DEF vars
  <2>2. DrawnTypes' /\ FollowTypes' /\ ViewTypes' /\ ReadTypes' /\ RunTypes' /\ task' = task BY <2>1, SameTypes
  <2>3. OwnerTypes' BY <2>1, <2>2 DEF DesignTypes, OwnerTypes, follows, views
  <2> QED BY <2>2, <2>3 DEF DesignTypes
<1>2. CASE Next
  BY <1>2, EditTypes, TravelsTypes, FollowsTypes, PressTypes, SwitchTypes, SavedTypes,
     StopTypes, LoadTypes, ConnectTypes DEF Next
<1> QED BY <1>1, <1>2

-----------------------------------------------------------------------------
(* The rows are those of the earliest document still to be followed *)

\* The earliest document that what is read or built may still be of.
Earliest == IF followFrom # NoDocument THEN followFrom ELSE IF typed # NoDocument THEN typed ELSE doc
Shown(d) == rows \in {None, d.source} /\ reading \in {None, d.source}

\* A follow-through is about to begin.
Due == follow = Resting /\ typed = NoDocument /\ followFrom # NoDocument
RowsFollow == "rows" \notin adrift => Shown(Earliest) \/ (Due /\ ~SameSource(followFrom, doc))

LEMMA EarlyMeans ==
    ASSUME DesignTypes, NEW d
    PROVE  /\ "rows" \notin Early(d) <=>
                  /\ typed # NoDocument => SameSource(typed, d)
                  /\ followFrom # NoDocument => SameSource(followFrom, d)
           /\ "scope" \notin Early(d) <=>
                  /\ typed # NoDocument => SameModules(typed, d)
                  /\ followFrom # NoDocument => SameModules(followFrom, d)
           /\ "rows" \notin UnlikeRun(d) <=> (typed # NoDocument => SameSource(typed, d))
           /\ "scope" \notin UnlikeRun(d) <=> (typed # NoDocument => SameModules(typed, d))
BY DEF Early, UnlikeRun, Unlike

LEMMA EarliestIs ==
    ASSUME DesignTypes
    PROVE  Earliest \in Document /\ doc \in Document
BY DEF Earliest, DesignTypes, DrawnTypes, FollowTypes

\* A run of typing that ends is followed from where it began.
LEMMA EnterKeeps ==
    ASSUME DesignTypes, NEW m, Enter(m), doc' = doc
    PROVE  Earliest' = Earliest /\ typed' = NoDocument /\ (typed = NoDocument => followFrom' = followFrom)
BY DEF Enter, Earliest

\* Nothing is forgotten of what has drifted.
LEMMA StoppingDrifts ==
    ASSUME DesignTypes, NEW o \in Owner, NEW t \in Doing(built), NEW d \in Document, Stopping(o, t, d)
    PROVE  adrift \subseteq adrift' /\ ("rows" \in adrift' => "rows" \in adrift)
BY StoppingIs

LEMMA BeginDrifts ==
    ASSUME DesignTypes, NEW o \in Owner, NEW start \in BOOLEAN, NEW d \in Document, Begin(o, start, d)
    PROVE  adrift \subseteq adrift'
BY BeginIs, StoppingDrifts

LEMMA RecordIs ==
    ASSUME NEW d, NEW run, Record(d, run) PROVE doc' = d
BY DEF Record

\* A step that leaves the rows and what is to be followed as they are.
LEMMA RowsStay ==
    ASSUME RowsFollow, adrift \subseteq adrift', UNCHANGED reads, SameSource(Earliest, Earliest'),
           Due /\ ~SameSource(followFrom, doc) => Due' /\ followFrom' = followFrom /\ SameSource(doc, doc')
    PROVE  RowsFollow'
BY DEF RowsFollow, Shown, reads, SameSource

LEMMA EditRows ==
    ASSUME Assumed, DesignTypes, RowsFollow,
           \/ \E run \in {"none", "box"} : Draw(run)
           \/ \E s \in Source \cup {None} : ChooseSource(s)
           \/ \E m \in Module : Tick(m) \/ NewModule(m)
           \/ \E d \in Document : TypeDocument(d)
    PROVE  RowsFollow'
<1>0. doc \in Document BY DEF DesignTypes, DrawnTypes
<1>1. Prompt /\ doc # NoDocument
  <2>1. Edited BY DEF Draw, ChooseSource, Tick, NewModule, TypeDocument
  <2> QED BY <1>0, <2>1, NoIsNone DEF Edited
<1>2. ~Due BY <1>1 DEF Due, Prompt
<1>3. ASSUME NEW run \in {"none", "box"}, Draw(run) PROVE RowsFollow'
  <2>1. doc' = [doc EXCEPT !.body = 1 - @] /\ UNCHANGED <<follows, reads, adrift>>
    BY <1>3, RecordIs DEF Draw
  <2>2. doc'.source = doc.source BY <1>0, <2>1 DEF Document
  <2>3. SameSource(Earliest, Earliest') BY <2>1, <2>2 DEF Earliest, SameSource, follows
  <2> QED BY <1>2, <2>1, <2>3, RowsStay
<1>4. ASSUME NEW s \in Source \cup {None}, ChooseSource(s) PROVE RowsFollow'
  <2>1. /\ rows' = None /\ reading' = doc'.source /\ adrift' = adrift \cup (Early(doc') \cap {"rows"})
        /\ UNCHANGED follows
    BY <1>4 DEF ChooseSource, ReadRows
  <2>2. SUFFICES ASSUME "rows" \notin adrift' PROVE Shown(Earliest)' BY DEF RowsFollow
  <2>3. /\ typed # NoDocument => typed.source = doc'.source
        /\ followFrom # NoDocument => followFrom.source = doc'.source
    BY <2>1, <2>2, EarlyMeans DEF SameSource
  <2>4. Earliest'.source = doc'.source BY <2>1, <2>3 DEF Earliest, follows
  <2> QED BY <2>1, <2>4 DEF Shown
<1>5. ASSUME NEW m \in Module, Tick(m) PROVE RowsFollow'
  <2>1. doc' = [doc EXCEPT !.modules = IF m \in @ THEN @ \ {m} ELSE @ \cup {m}] /\ UNCHANGED <<follows, reads>>
    BY <1>5, RecordIs DEF Tick
  <2>2. doc'.source = doc.source /\ doc' \in Document
    <3>1. doc.modules \subseteq Module BY <1>0 DEF Document
    <3> QED BY <1>0, <2>1, <3>1 DEF Document
  <2>3. SameSource(Earliest, Earliest') BY <2>1, <2>2 DEF Earliest, SameSource, follows
  <2>4. adrift \subseteq adrift' BY <1>5, <2>2, BeginDrifts DEF Tick, Owner
  <2> QED BY <1>2, <2>1, <2>3, <2>4, RowsStay
<1>6. ASSUME NEW m \in Module, NewModule(m) PROVE RowsFollow'
  <2>1. doc' = [doc EXCEPT !.modules = @ \cup {m}] /\ UNCHANGED <<follows, reads>> /\ adrift \subseteq adrift'
    BY <1>6, RecordIs DEF NewModule
  <2>2. doc'.source = doc.source BY <1>0, <2>1 DEF Document
  <2>3. SameSource(Earliest, Earliest') BY <2>1, <2>2 DEF Earliest, SameSource, follows
  <2> QED BY <1>2, <2>1, <2>3, RowsStay
<1>7. ASSUME NEW d \in Document, TypeDocument(d) PROVE RowsFollow'
  <2>1. /\ typed' = IF typed = NoDocument THEN doc ELSE typed
        /\ UNCHANGED <<followFrom, follow, reads, adrift>>
    BY <1>7 DEF TypeDocument
  <2>2. Earliest' = Earliest BY <1>1, <2>1 DEF Earliest
  <2> QED BY <1>2, <2>1, <2>2, RowsStay DEF SameSource
<1> QED BY <1>3, <1>4, <1>5, <1>6, <1>7

\* What a step leaves of a dropped run to be followed.
LEMMA TravelIs ==
    ASSUME DesignTypes, Undo \/ Redo
    PROVE  /\ Prompt /\ ~Due /\ typed' = NoDocument /\ adrift' = adrift \cup Dropped(doc')
           /\ followFrom' = IF followFrom = NoDocument THEN doc ELSE followFrom
           /\ UNCHANGED <<follow, views, reads, behaviour, overlapped, closed>>
           /\ Earliest' = (IF followFrom = NoDocument THEN doc ELSE followFrom)
<1>1. Travel(past, future, past', future') \/ Travel(future, past, future', past') BY DEF Undo, Redo
<1>2. /\ Prompt /\ typed' = NoDocument /\ adrift' = adrift \cup Dropped(doc')
      /\ followFrom' = IF followFrom = NoDocument THEN doc ELSE followFrom
      /\ UNCHANGED <<follow, views, reads, behaviour, overlapped, closed>>
  BY <1>1 DEF Travel, Edited
<1>3. ~Due BY <1>2 DEF Due, Prompt
<1>4. doc # NoDocument BY NoIsNone DEF DesignTypes, DrawnTypes
<1> QED BY <1>2, <1>3, <1>4 DEF Earliest

LEMMA TravelRows ==
    ASSUME DesignTypes, RowsFollow, Undo \/ Redo PROVE RowsFollow'
<1>1. doc # NoDocument BY NoIsNone DEF DesignTypes, DrawnTypes
<1> SUFFICES ASSUME "rows" \notin adrift' PROVE RowsFollow' BY DEF RowsFollow
<1>2. "rows" \notin adrift /\ "rows" \notin Dropped(doc') /\ rows' = rows /\ reading' = reading
  BY TravelIs DEF reads
<1>3. Shown(Earliest) BY <1>2, TravelIs DEF RowsFollow
<1>4. CASE followFrom # NoDocument \/ typed = NoDocument
  <2>1. Earliest' = Earliest BY <1>4, TravelIs DEF Earliest
  <2> QED BY <1>2, <1>3, <2>1 DEF RowsFollow, Shown
<1>5. CASE followFrom = NoDocument /\ typed # NoDocument
  <2>1. Earliest = typed /\ Earliest' = doc BY <1>5, TravelIs DEF Earliest
  <2>2. SameSource(typed, doc) \/ (follow = Resting /\ ~SameSource(doc, doc'))
    BY <1>2, <1>5, EarlyMeans DEF Dropped, Unlike
  <2>3. CASE SameSource(typed, doc) BY <1>2, <1>3, <2>1, <2>3 DEF RowsFollow, Shown, SameSource
  <2>4. CASE follow = Resting /\ ~SameSource(doc, doc')
    <3>1. Due' /\ followFrom' = doc BY <1>1, <1>5, <2>4, TravelIs DEF Due
    <3> QED BY <2>4, <3>1 DEF RowsFollow, SameSource
  <2> QED BY <2>2, <2>3, <2>4
<1> QED BY <1>4, <1>5

LEMMA FollowRows ==
    ASSUME DesignTypes, RowsFollow, TypedRunEnds \/ FollowBegins \/ FollowModules \/ FollowEnds \/ Landed
    PROVE  RowsFollow'
<1>0. doc \in Document BY DEF DesignTypes, DrawnTypes
<1>1. CASE TypedRunEnds
  <2>1. UNCHANGED <<doc, reads, adrift>> /\ Earliest' = Earliest /\ ~Due
    BY <1>1 DEF TypedRunEnds, Earliest, Due, history, others
  <2> QED BY <2>1, RowsStay DEF SameSource
<1>2. CASE FollowBegins
  <2>1. /\ followFrom # NoDocument /\ followFrom' = NoDocument /\ UNCHANGED <<doc, typed>>
        /\ adrift' = adrift \cup (UnlikeRun(doc) \cap {"rows"})
        /\ IF SameSource(followFrom, doc) THEN UNCHANGED reads ELSE ReadRows(doc, "follow")
    BY <1>2 DEF FollowBegins, history
  <2>2. SUFFICES ASSUME "rows" \notin adrift' PROVE Shown(Earliest)' BY DEF RowsFollow
  <2>3. Earliest'.source = doc.source
    <3>1. typed # NoDocument => SameSource(typed, doc) BY <2>1, <2>2, EarlyMeans
    <3> QED BY <2>1, <3>1 DEF Earliest, SameSource
  <2>4. CASE SameSource(followFrom, doc)
    <3>1. Shown(followFrom) BY <2>1, <2>2, <2>4 DEF RowsFollow, Earliest
    <3> QED BY <2>1, <2>3, <2>4, <3>1 DEF Shown, reads, SameSource
  <2>5. CASE ~SameSource(followFrom, doc) BY <2>1, <2>3, <2>5 DEF Shown, ReadRows
  <2> QED BY <2>4, <2>5
<1>3. CASE FollowModules
  <2>1. UNCHANGED <<history, typed, followFrom, reads>> /\ follow.at = "rows" BY <1>3 DEF FollowModules
  <2>2. Earliest' = Earliest /\ ~Due BY <2>1 DEF Earliest, Due, Resting, history
  <2>3. adrift \subseteq adrift' BY <1>0, <1>3, BeginDrifts DEF FollowModules, Owner
  <2> QED BY <2>1, <2>2, <2>3, RowsStay DEF SameSource
<1>4. CASE FollowEnds
  <2>1. UNCHANGED <<history, typed, followFrom, reads, adrift>> /\ follow.at = "scope"
    BY <1>4 DEF FollowEnds, others
  <2>2. Earliest' = Earliest /\ ~Due BY <2>1 DEF Earliest, Due, Resting, history
  <2> QED BY <2>1, <2>2, RowsStay DEF SameSource
<1>5. CASE Landed
  <2>1. UNCHANGED <<doc, typed, followFrom, follow, adrift>> /\ reading' = None /\ rows' \in {None, reading}
    BY <1>5 DEF Landed, history, follows, others
  <2>2. Earliest' = Earliest /\ Due' = Due BY <2>1 DEF Earliest, Due
  <2> QED BY <2>1, <2>2 DEF RowsFollow, Shown, SameSource
<1> QED BY <1>1, <1>2, <1>3, <1>4, <1>5

\* A view that is entered settles the run of typing; the rest of the switch leaves it alone.
LEMMA ViewsKeep ==
    ASSUME DesignTypes, (\E m \in Mode : Press(m)) \/ SwitchEnds
    PROVE  /\ UNCHANGED <<doc, follow, reads, behaviour, adrift, mode, closed, overlapped>>
           /\ Earliest' = Earliest
           /\ typed = NoDocument => UNCHANGED <<typed, followFrom>>
           /\ UNCHANGED switch \/ switch' = Still \/ switch'.at = "settle"
<1>1. UNCHANGED <<doc, follow, reads, behaviour, adrift, mode, closed, overlapped>>
  BY DEF Press, SwitchEnds, history, others
<1>2. (UNCHANGED <<typed, followFrom>> /\ (UNCHANGED switch \/ switch' = Still)) \/ \E m : Enter(m)
  BY DEF Press, SwitchEnds
<1>3. CASE UNCHANGED <<typed, followFrom>> /\ (UNCHANGED switch \/ switch' = Still)
  BY <1>1, <1>3 DEF Earliest
<1>4. CASE \E m : Enter(m)
  <2>1. PICK m : Enter(m) BY <1>4
  <2>2. switch'.at = "settle" BY <2>1 DEF Enter
  <2> QED BY <1>1, <2>1, <2>2, EnterKeeps
<1> QED BY <1>1, <1>2, <1>3, <1>4

LEMMA ViewRows ==
    ASSUME DesignTypes, RowsFollow,
           \/ \E m \in Mode : Press(m)
           \/ TakeMode \/ SwitchBehaviour \/ SwitchEnds \/ ModuleSaved \/ Close
    PROVE  RowsFollow'
<1>0. doc \in Document BY DEF DesignTypes, DrawnTypes
<1>1. CASE (\E m \in Mode : Press(m)) \/ SwitchEnds
  <2>1. UNCHANGED <<doc, follow, reads, adrift>> /\ Earliest' = Earliest
        /\ (typed = NoDocument => UNCHANGED <<typed, followFrom>>)
    BY <1>1, ViewsKeep
  <2>2. Due => Due' /\ followFrom' = followFrom BY <2>1 DEF Due
  <2> QED BY <2>1, <2>2, RowsStay DEF SameSource
<1>2. CASE TakeMode
  <2>1. UNCHANGED <<history, follows>> BY <1>2 DEF TakeMode
  <2>2. Earliest' = Earliest /\ Due' = Due BY <2>1 DEF Earliest, Due, history, follows
  <2>3. CASE UNCHANGED <<reads, adrift>> BY <2>1, <2>2, <2>3, RowsStay DEF SameSource, history, follows
  <2>4. CASE ReadRows(doc, "switch") /\ adrift' = adrift \cup (Early(doc) \cap {"rows"})
    <3>1. SUFFICES ASSUME "rows" \notin adrift' PROVE Shown(Earliest)' BY DEF RowsFollow
    <3>2. Earliest.source = doc.source
      BY <2>4, <3>1, EarlyMeans DEF Earliest, SameSource
    <3> QED BY <2>2, <2>4, <3>2 DEF Shown, ReadRows
  <2> QED BY <1>2, <2>3, <2>4 DEF TakeMode
<1>3. CASE SwitchBehaviour \/ ModuleSaved \/ Close
  <2>1. UNCHANGED <<history, follows, reads>> BY <1>3 DEF SwitchBehaviour, ModuleSaved, Close
  <2>2. Earliest' = Earliest /\ Due' = Due BY <2>1 DEF Earliest, Due, history, follows
  <2>3. \E o \in Owner, start \in BOOLEAN : Begin(o, start, doc)
    BY <1>3 DEF SwitchBehaviour, ModuleSaved, Close, Owner
  <2>4. adrift \subseteq adrift' BY <1>0, <2>3, BeginDrifts
  <2> QED BY <2>1, <2>2, <2>4, RowsStay DEF SameSource, history, follows
<1> QED BY <1>1, <1>2, <1>3

\* Whoever brings the behaviour up to date leaves the rows alone.
LEMMA TaskKeeps ==
    ASSUME DesignTypes, \E o \in Owner : Stop(o) \/ Load(o) \/ Connect(o) \/ Attach(o)
    PROVE  UNCHANGED <<history, follows, views, reads, closed, overlapped>> /\ adrift \subseteq adrift'
<1>1. UNCHANGED <<history, follows, views, reads, closed, overlapped>>
  BY DEF Stop, Load, Connect, Attach, others
<1>2. ASSUME NEW o \in Owner, Stop(o) PROVE adrift \subseteq adrift'
  <2>1. task[o] \in Doing(built) /\ doc \in Document /\ Stopping(o, task[o], doc)
    BY <1>2 DEF Stop, DesignTypes, RunTypes, DrawnTypes
  <2> QED BY <2>1, StoppingDrifts
<1>3. ASSUME NEW o \in Owner, Load(o) \/ Connect(o) \/ Attach(o) PROVE adrift' = adrift
  BY <1>3 DEF Load, Connect, Attach, others
<1> QED BY <1>1, <1>2, <1>3

LEMMA TaskRows ==
    ASSUME DesignTypes, RowsFollow, \E o \in Owner : Stop(o) \/ Load(o) \/ Connect(o) \/ Attach(o)
    PROVE  RowsFollow'
<1>1. UNCHANGED <<history, follows, reads>> /\ adrift \subseteq adrift' BY TaskKeeps
<1>2. Earliest' = Earliest /\ Due' = Due BY <1>1 DEF Earliest, Due, history, follows
<1> QED BY <1>1, <1>2, RowsStay DEF SameSource, history, follows

LEMMA RowsGoOn == Assumed /\ DesignTypes /\ RowsFollow /\ [Next]_vars => RowsFollow'
<1> SUFFICES ASSUME Assumed, DesignTypes, RowsFollow, [Next]_vars PROVE RowsFollow' OBVIOUS
<1>1. CASE UNCHANGED vars
  BY <1>1 DEF vars, RowsFollow, Shown, Earliest, Due, SameSource, history, follows, reads, others
<1>2. CASE Next BY <1>2, EditRows, TravelRows, FollowRows, ViewRows, TaskRows DEF Next
<1> QED BY <1>1, <1>2

-----------------------------------------------------------------------------
(* Formulas call the modules of that document *)

\* A build that goes on reading the modules' files and will count.
Live(o) == task[o].at = "load" /\ ~task[o].overtaken
OneLive == \A o, p \in Owner : Live(o) /\ Live(p) => o = p

\* The scope is that of the document, or becomes it.
Scoped(d) ==
    \/ \E o \in Owner : Live(o) /\ task[o].names = d.modules
    \/ (\A o \in Owner : ~Live(o)) /\ scope = d.modules
Unbuilt == \E o \in Owner \ {"close"} : task[o].at = "stop"

ScopeFollows ==
    /\ OneLive
    /\ "scope" \notin adrift =>
          \/ Unbuilt
          \/ Scoped(Earliest)
          \/ follow.at = "rows" /\ (Scoped(follow.from) \/ ~SameModules(follow.from, Earliest))
          \/ Due /\ ~SameModules(followFrom, doc)

LEMMA LivesStay ==
    ASSUME UNCHANGED behaviour
    PROVE  /\ OneLive => OneLive' /\ (Unbuilt => Unbuilt')
           /\ \A d, e : d.modules = e.modules /\ Scoped(d) => Scoped(e)'
BY DEF OneLive, Live, Unbuilt, Scoped, behaviour

\* A step that leaves the behaviour and what is to be followed as they are.
LEMMA ScopeStays ==
    ASSUME ScopeFollows, adrift \subseteq adrift', UNCHANGED behaviour, UNCHANGED follow,
           SameModules(Earliest, Earliest'),
           Due /\ ~SameModules(followFrom, doc) => Due' /\ followFrom' = followFrom /\ SameModules(doc, doc')
    PROVE  ScopeFollows'
<1>1. OneLive' /\ (Unbuilt => Unbuilt') BY LivesStay DEF ScopeFollows
<1> SUFFICES ASSUME "scope" \notin adrift' PROVE ScopeFollows' BY <1>1 DEF ScopeFollows
<1>2. CASE Unbuilt BY <1>1, <1>2 DEF ScopeFollows
<1>3. CASE Scoped(Earliest)
  <2>1. Scoped(Earliest)' BY <1>3, LivesStay DEF SameModules
  <2> QED BY <1>1, <2>1 DEF ScopeFollows
<1>4. CASE follow.at = "rows" /\ (Scoped(follow.from) \/ ~SameModules(follow.from, Earliest))
  <2>1. Scoped(follow.from) => Scoped(follow.from)' BY LivesStay
  <2> QED BY <1>1, <1>4, <2>1 DEF ScopeFollows, SameModules
<1>5. CASE Due /\ ~SameModules(followFrom, doc) BY <1>1, <1>5 DEF ScopeFollows, SameModules
<1> QED BY <1>2, <1>3, <1>4, <1>5 DEF ScopeFollows

\* A stop leads to a build of the document's modules, which is the only one that counts.
LEMMA StoppingScope ==
    ASSUME DesignTypes, OneLive, NEW o \in Owner, NEW t \in Doing(built), NEW d \in Document, Stopping(o, t, d),
           task[o].at # "load"
    PROVE  /\ OneLive'
           /\ \/ o # "close" /\ Unbuilt'
              \/ /\ o # "close" /\ adrift' = adrift \cup (Early(d) \cap {"scope"})
                 /\ \A e : e.modules = d.modules => Scoped(e)'
              \/ /\ o = "close" /\ scope' = scope /\ adrift' = adrift /\ (Unbuilt => Unbuilt')
                 /\ \A p \in Owner : (Live(p)' <=> Live(p)) /\ (Live(p) => task'[p] = task[p])
<1>1. task \in [Owner -> Doing(built)] BY DEF DesignTypes, RunTypes
<1>2. CASE NextConnected(t) # {}
  <2>1. PICK i \in NextConnected(t) : task' = [task EXCEPT ![o] = After(t, i)] BY <1>2, StoppingIs
  <2>2. scope' = scope /\ adrift' = adrift BY <1>2, StoppingIs
  <2>3. task'[o].at = "stop" BY <1>1, <2>1 DEF After, Doing
  <2>4. \A p \in Owner : p # o => task'[p] = task[p] BY <1>1, <2>1
  <2>5. \A p \in Owner : (Live(p)' <=> Live(p)) /\ (Live(p) => task'[p] = task[p]) BY <2>3, <2>4 DEF Live
  <2>6. OneLive' BY <2>5 DEF OneLive
  <2>7. CASE o = "close"
    <3>1. Unbuilt => Unbuilt' BY <2>4, <2>7 DEF Unbuilt
    <3> QED BY <2>2, <2>5, <2>6, <2>7, <3>1
  <2>8. CASE o # "close" BY <2>3, <2>6, <2>8 DEF Unbuilt
  <2> QED BY <2>7, <2>8
<1>3. CASE NextConnected(t) = {} /\ o = "close"
  <2>1. task' = [task EXCEPT ![o] = Idle] /\ scope' = scope /\ adrift' = adrift BY <1>3, StoppingIs
  <2>2. task'[o].at = "idle" BY <1>1, <2>1 DEF Idle
  <2>3. \A p \in Owner : p # o => task'[p] = task[p] BY <1>1, <2>1
  <2>4. \A p \in Owner : (Live(p)' <=> Live(p)) /\ (Live(p) => task'[p] = task[p]) BY <2>2, <2>3 DEF Live
  <2>5. OneLive' /\ (Unbuilt => Unbuilt') BY <1>3, <2>3, <2>4 DEF OneLive, Unbuilt
  <2> QED BY <1>3, <2>1, <2>4, <2>5
<1>4. CASE NextConnected(t) = {} /\ o # "close"
  <2>1. /\ task' = [Overtake(task) EXCEPT ![o] = Begun(t.start, d.modules)]
        /\ adrift' = adrift \cup (Early(d) \cap {"scope"})
    BY <1>4, StoppingIs
  <2>2. /\ Overtake(task) \in [Owner -> Doing(built)]
        /\ \A p \in Owner : Overtake(task)[p].at = "load" => Overtake(task)[p].overtaken
    BY <1>1 DEF Overtake, Doing
  <2>3. /\ Begun(t.start, d.modules).at = "load" /\ Begun(t.start, d.modules).names = d.modules
        /\ ~Begun(t.start, d.modules).overtaken
    BY DEF Begun, Idle
  <2>4. task'[o] = Begun(t.start, d.modules) /\ \A p \in Owner : p # o => task'[p] = Overtake(task)[p]
    BY <2>1, <2>2
  <2>5. \A p \in Owner : Live(p)' <=> p = o BY <2>2, <2>3, <2>4 DEF Live
  <2>6. OneLive' BY <2>5 DEF OneLive
  <2>7. \A e : e.modules = d.modules => Scoped(e)' BY <2>3, <2>4, <2>5 DEF Scoped
  <2> QED BY <1>4, <2>1, <2>6, <2>7
<1> QED BY <1>2, <1>3, <1>4

LEMMA StoppingFollows ==
    ASSUME DesignTypes, ScopeFollows, NEW o \in Owner, NEW t \in Doing(built), NEW d \in Document,
           Stopping(o, t, d), task[o].at # "load", UNCHANGED <<typed, followFrom>>, d = doc',
           o = "close" => UNCHANGED <<doc, follow>>
    PROVE  ScopeFollows'
<1>1. OneLive BY DEF ScopeFollows
<1>2. OneLive' BY <1>1, StoppingScope
<1> SUFFICES ASSUME "scope" \notin adrift' PROVE ScopeFollows' BY <1>2 DEF ScopeFollows
<1>3. CASE o # "close" /\ Unbuilt' BY <1>2, <1>3 DEF ScopeFollows
<1>4. CASE /\ o # "close" /\ adrift' = adrift \cup (Early(d) \cap {"scope"})
           /\ \A e : e.modules = d.modules => Scoped(e)'
  <2>1. Earliest'.modules = d.modules BY <1>4, EarlyMeans DEF Earliest, SameModules
  <2>2. Scoped(Earliest)' BY <1>4, <2>1 DEF Scoped
  <2> QED BY <1>2, <2>2 DEF ScopeFollows
<1>5. CASE /\ o = "close" /\ scope' = scope /\ adrift' = adrift /\ (Unbuilt => Unbuilt')
           /\ \A p \in Owner : (Live(p)' <=> Live(p)) /\ (Live(p) => task'[p] = task[p])
  <2>1. UNCHANGED <<doc, follow>> /\ Earliest' = Earliest /\ Due' = Due BY <1>5 DEF Earliest, Due
  <2>2. \A e : Scoped(e) => /\ \/ \E p \in Owner : Live(p)' /\ task'[p].names = e.modules
                               \/ (\A p \in Owner : ~Live(p)') /\ scope' = e.modules
    BY <1>5 DEF Scoped
  <2>3. Scoped(Earliest) => Scoped(Earliest)' BY <2>1, <2>2 DEF Scoped
  <2>4. Scoped(follow.from) => Scoped(follow.from)' BY <2>1, <2>2 DEF Scoped
  <2> QED BY <1>2, <1>5, <2>1, <2>3, <2>4 DEF ScopeFollows, SameModules
<1> QED BY <1>1, <1>3, <1>4, <1>5, StoppingScope

LEMMA BeginFollows ==
    ASSUME DesignTypes, ScopeFollows, NEW o \in Owner, NEW start \in BOOLEAN, NEW d \in Document, Begin(o, start, d),
           UNCHANGED <<typed, followFrom>>, d = doc', o = "close" => UNCHANGED <<doc, follow>>
    PROVE  ScopeFollows'
<1>1. task[o] = Idle /\ Opening(start) \in Doing(built) /\ Stopping(o, Opening(start), d) BY BeginIs
<1>2. task[o].at # "load" BY <1>1 DEF Idle
<1> QED BY <1>1, <1>2, StoppingFollows

LEMMA EditScope ==
    ASSUME Assumed, DesignTypes, ScopeFollows,
           \/ \E run \in {"none", "box"} : Draw(run)
           \/ \E s \in Source \cup {None} : ChooseSource(s)
           \/ \E m \in Module : Tick(m) \/ NewModule(m)
           \/ \E d \in Document : TypeDocument(d)
    PROVE  ScopeFollows'
<1>0. doc \in Document BY DEF DesignTypes, DrawnTypes
<1>1. Prompt /\ doc # NoDocument
  <2>1. Edited BY DEF Draw, ChooseSource, Tick, NewModule, TypeDocument
  <2> QED BY <1>0, <2>1, NoIsNone DEF Edited
<1>2. ~Due BY <1>1 DEF Due, Prompt
<1>3. ASSUME NEW run \in {"none", "box"}, Draw(run) PROVE ScopeFollows'
  <2>1. doc' = [doc EXCEPT !.body = 1 - @] /\ UNCHANGED <<follows, behaviour, adrift>>
    BY <1>3, RecordIs DEF Draw
  <2>2. doc'.modules = doc.modules BY <1>0, <2>1 DEF Document
  <2>3. SameModules(Earliest, Earliest') BY <2>1, <2>2 DEF Earliest, SameModules, follows
  <2> QED BY <1>2, <2>1, <2>3, ScopeStays DEF follows
<1>4. ASSUME NEW s \in Source \cup {None}, ChooseSource(s) PROVE ScopeFollows'
  <2>1. doc' = [doc EXCEPT !.source = s] /\ UNCHANGED <<follows, behaviour>> /\ adrift \subseteq adrift'
    BY <1>4, RecordIs DEF ChooseSource
  <2>2. doc'.modules = doc.modules BY <1>0, <2>1 DEF Document
  <2>3. SameModules(Earliest, Earliest') BY <2>1, <2>2 DEF Earliest, SameModules, follows
  <2> QED BY <1>2, <2>1, <2>3, ScopeStays DEF follows
<1>5. ASSUME NEW m \in Module, Tick(m) PROVE ScopeFollows'
  <2>1. doc' = [doc EXCEPT !.modules = IF m \in @ THEN @ \ {m} ELSE @ \cup {m}] /\ UNCHANGED follows
        /\ Begin("tick", mode = "preview", doc')
    BY <1>5, RecordIs DEF Tick
  <2>2. doc' \in Document
    <3>1. doc.modules \subseteq Module BY <1>0 DEF Document
    <3> QED BY <1>0, <2>1, <3>1 DEF Document
  <2> QED BY <2>1, <2>2, BeginFollows DEF Owner, follows
<1>6. ASSUME NEW m \in Module, NewModule(m) PROVE ScopeFollows'
  <2>1. adrift' = adrift \cup {"scope"} /\ UNCHANGED behaviour BY <1>6 DEF NewModule
  <2>2. OneLive' BY <2>1, LivesStay DEF ScopeFollows
  <2> QED BY <2>1, <2>2 DEF ScopeFollows
<1>7. ASSUME NEW d \in Document, TypeDocument(d) PROVE ScopeFollows'
  <2>1. /\ typed' = IF typed = NoDocument THEN doc ELSE typed
        /\ UNCHANGED <<followFrom, follow, behaviour, adrift>>
    BY <1>7 DEF TypeDocument
  <2>2. Earliest' = Earliest BY <1>1, <2>1 DEF Earliest
  <2> QED BY <1>2, <2>1, <2>2, ScopeStays DEF SameModules
<1> QED BY <1>3, <1>4, <1>5, <1>6, <1>7

LEMMA TravelScope ==
    ASSUME DesignTypes, ScopeFollows, Undo \/ Redo PROVE ScopeFollows'
<1>1. doc # NoDocument BY NoIsNone DEF DesignTypes, DrawnTypes
<1>2. UNCHANGED <<behaviour, follow>> /\ adrift \subseteq adrift' /\ ~Due BY TravelIs
<1>3. CASE followFrom # NoDocument \/ typed = NoDocument
  <2>1. Earliest' = Earliest BY <1>3, TravelIs DEF Earliest
  <2> QED BY <1>2, <2>1, ScopeStays DEF SameModules
<1>4. CASE followFrom = NoDocument /\ typed # NoDocument
  <2>1. Earliest = typed /\ Earliest' = doc BY <1>4, TravelIs DEF Earliest
  <2>2. OneLive' BY <1>2, LivesStay DEF ScopeFollows
  <2> SUFFICES ASSUME "scope" \notin adrift' PROVE ScopeFollows' BY <2>2 DEF ScopeFollows
  <2>3. "scope" \notin Dropped(doc') BY TravelIs
  <2>4. SameModules(typed, doc) \/ (follow = Resting /\ ~SameModules(doc, doc'))
    BY <1>4, <2>3, EarlyMeans DEF Dropped, Unlike
  <2>5. CASE SameModules(typed, doc) BY <1>2, <2>1, <2>5, ScopeStays
  <2>6. CASE follow = Resting /\ ~SameModules(doc, doc')
    <3>1. Due' /\ followFrom' = doc BY <1>1, <1>4, <2>6, TravelIs DEF Due
    <3> QED BY <2>2, <2>6, <3>1 DEF ScopeFollows, SameModules
  <2> QED BY <2>4, <2>5, <2>6
<1> QED BY <1>3, <1>4

LEMMA FollowScope ==
    ASSUME DesignTypes, ScopeFollows, TypedRunEnds \/ FollowBegins \/ FollowModules \/ FollowEnds \/ Landed
    PROVE  ScopeFollows'
<1>0. doc \in Document BY DEF DesignTypes, DrawnTypes
<1>1. CASE TypedRunEnds
  <2>1. UNCHANGED <<doc, follow, behaviour, adrift>> /\ Earliest' = Earliest /\ ~Due
    BY <1>1 DEF TypedRunEnds, Earliest, Due, history, others
  <2> QED BY <2>1, ScopeStays DEF SameModules
<1>2. CASE FollowBegins
  <2>1. /\ follow = Resting /\ followFrom # NoDocument /\ followFrom' = NoDocument /\ UNCHANGED <<doc, typed, behaviour>>
        /\ follow' = [at |-> "rows", from |-> followFrom] /\ adrift \subseteq adrift'
    BY <1>2 DEF FollowBegins, history
  <2>2. OneLive' /\ (Unbuilt => Unbuilt') BY <2>1, LivesStay DEF ScopeFollows
  <2> SUFFICES ASSUME "scope" \notin adrift' PROVE ScopeFollows' BY <2>2 DEF ScopeFollows
  <2>3. Earliest = followFrom /\ follow'.at = "rows" /\ follow'.from = followFrom BY <2>1 DEF Earliest
  <2>4. CASE Unbuilt BY <2>2, <2>4 DEF ScopeFollows
  <2>5. CASE Scoped(Earliest)
    <3>1. Scoped(follow.from)' BY <2>1, <2>3, <2>5, LivesStay
    <3> QED BY <2>2, <2>3, <3>1 DEF ScopeFollows
  <2>6. CASE Due /\ ~SameModules(followFrom, doc)
    <3>1. Earliest' = doc BY <2>1, <2>6 DEF Due, Earliest
    <3> QED BY <2>2, <2>3, <2>6, <3>1 DEF ScopeFollows, SameModules
  <2> QED BY <2>1, <2>4, <2>5, <2>6 DEF ScopeFollows, Resting
<1>3. CASE FollowModules
  <2>1. UNCHANGED <<doc, typed, followFrom>> /\ follow.at = "rows" /\ Earliest' = Earliest /\ ~Due
    BY <1>3 DEF FollowModules, history, Earliest, Due, Resting
  <2>2. CASE Begin("follow", mode = "preview", doc)
    BY <1>0, <2>1, <2>2, BeginFollows DEF Owner
  <2>3. CASE /\ SameModules(follow.from, doc) /\ UNCHANGED behaviour
             /\ adrift' = adrift \cup (Early(doc) \cap {"scope"})
    <3>1. OneLive' /\ (Unbuilt => Unbuilt') BY <2>3, LivesStay DEF ScopeFollows
    <3> SUFFICES ASSUME "scope" \notin adrift' PROVE ScopeFollows' BY <3>1 DEF ScopeFollows
    <3>2. Earliest.modules = doc.modules BY <2>3, EarlyMeans DEF Earliest, SameModules
    <3>3. CASE Unbuilt BY <3>1, <3>3 DEF ScopeFollows
    <3>4. CASE Scoped(Earliest) \/ Scoped(follow.from)
      <4>1. Scoped(Earliest)' BY <2>1, <2>3, <3>2, <3>4, LivesStay DEF SameModules
      <4> QED BY <3>1, <4>1 DEF ScopeFollows
    <3> QED BY <2>1, <2>3, <3>2, <3>3, <3>4 DEF ScopeFollows, SameModules
  <2> QED BY <1>3, <2>2, <2>3 DEF FollowModules
<1>4. CASE FollowEnds
  <2>1. /\ UNCHANGED <<doc, typed, followFrom, behaviour, adrift>> /\ follow.at = "scope" /\ Earliest' = Earliest
        /\ ~Due
    BY <1>4 DEF FollowEnds, others, history, Earliest, Due, Resting
  <2>2. OneLive' /\ (Unbuilt => Unbuilt') BY <2>1, LivesStay DEF ScopeFollows
  <2>3. Scoped(Earliest) => Scoped(Earliest)' BY <2>1, LivesStay
  <2> QED BY <2>1, <2>2, <2>3 DEF ScopeFollows
<1>5. CASE Landed
  <2>1. UNCHANGED <<doc, typed, followFrom, follow, adrift, behaviour>>
    BY <1>5 DEF Landed, history, follows, others
  <2>2. Earliest' = Earliest /\ Due' = Due BY <2>1 DEF Earliest, Due
  <2> QED BY <2>1, <2>2, ScopeStays DEF SameModules
<1> QED BY <1>1, <1>2, <1>3, <1>4, <1>5

LEMMA ViewScope ==
    ASSUME DesignTypes, ScopeFollows,
           \/ \E m \in Mode : Press(m)
           \/ TakeMode \/ SwitchBehaviour \/ SwitchEnds \/ ModuleSaved \/ Close
    PROVE  ScopeFollows'
<1>0. doc \in Document BY DEF DesignTypes, DrawnTypes
<1>1. CASE (\E m \in Mode : Press(m)) \/ SwitchEnds
  <2>1. UNCHANGED <<doc, follow, behaviour, adrift>> /\ Earliest' = Earliest
        /\ (typed = NoDocument => UNCHANGED <<typed, followFrom>>)
    BY <1>1, ViewsKeep
  <2>2. Due => Due' /\ followFrom' = followFrom BY <2>1 DEF Due
  <2> QED BY <2>1, <2>2, ScopeStays DEF SameModules
<1>2. CASE TakeMode
  <2>1. UNCHANGED <<history, follows, behaviour>> /\ adrift \subseteq adrift' BY <1>2 DEF TakeMode
  <2>2. Earliest' = Earliest /\ Due' = Due BY <2>1 DEF Earliest, Due, history, follows
  <2> QED BY <2>1, <2>2, ScopeStays DEF SameModules, history, follows
<1>3. CASE SwitchBehaviour \/ ModuleSaved \/ Close
  <2>1. UNCHANGED <<history, follows>> BY <1>3 DEF SwitchBehaviour, ModuleSaved, Close
  <2>2. \E o \in Owner, start \in BOOLEAN : Begin(o, start, doc)
    BY <1>3 DEF SwitchBehaviour, ModuleSaved, Close, Owner
  <2> QED BY <1>0, <2>1, <2>2, BeginFollows DEF history, follows
<1> QED BY <1>1, <1>2, <1>3

LEMMA ConnectingAt ==
    ASSUME NEW list, NEW i PROVE Connecting(list, i).at = "connect"
<1>1. Idle.at = "idle" /\ "at" \in DOMAIN Idle BY DEF Idle
<1> QED BY <1>1 DEF Connecting

LEMMA TaskScope ==
    ASSUME DesignTypes, ScopeFollows, \E o \in Owner : Stop(o) \/ Load(o) \/ Connect(o) \/ Attach(o), Assumed
    PROVE  ScopeFollows'
<1>0. /\ UNCHANGED <<doc, typed, followFrom, follow>> /\ adrift \subseteq adrift' /\ Earliest' = Earliest /\ Due' = Due
      /\ task \in [Owner -> Doing(built)] /\ doc \in Document
  BY TaskKeeps DEF history, follows, Earliest, Due, DesignTypes, RunTypes, DrawnTypes
<1>1. ASSUME NEW o \in Owner, Stop(o) PROVE ScopeFollows'
  <2>1. task[o] \in Doing(built) /\ Stopping(o, task[o], doc) /\ task[o].at # "load" BY <1>0, <1>1 DEF Stop
  <2> QED BY <1>0, <2>1, StoppingFollows
<1>2. ASSUME NEW o \in Owner, Load(o) \/ Connect(o) \/ Attach(o) PROVE ScopeFollows'
  <2>1. /\ task[o].at \in {"load", "connect"} /\ task'[o].at \in {"idle", "connect"}
        /\ \A p \in Owner : p # o => task'[p] = task[p]
    <3>1. CASE Load(o)
      <4>1. task[o].at = "load" /\ \E t \in {Idle, Connecting(instances', 1)} : task' = [task EXCEPT ![o] = t]
        BY <3>1, LoadIs
      <4>2. task'[o] \in {Idle, Connecting(instances', 1)} /\ \A p \in Owner : p # o => task'[p] = task[p]
        BY <1>0, <4>1
      <4> QED BY <4>1, <4>2, ConnectingAt DEF Idle
    <3>2. CASE Connect(o) \/ Attach(o)
      <4>1. /\ task[o].at = "connect"
            /\ \E t \in {Idle, Connecting(task[o].list, task[o].next)} : task' = [task EXCEPT ![o] = t]
        BY <3>2 DEF Connect, Attach, ConnectUpTo, Connecting
      <4>2. /\ task'[o] \in {Idle, Connecting(task[o].list, task[o].next)}
            /\ \A p \in Owner : p # o => task'[p] = task[p]
        BY <1>0, <4>1
      <4> QED BY <4>1, <4>2, ConnectingAt DEF Idle
    <3> QED BY <1>2, <3>1, <3>2
  <2>2. \A p \in Owner : Live(p)' <=> (Live(p) /\ p # o) BY <2>1 DEF Live
  <2>3. OneLive' BY <2>2 DEF ScopeFollows, OneLive
  <2>4. Unbuilt => Unbuilt' BY <2>1 DEF Unbuilt
  <2>5. IF Live(o) THEN scope' = task[o].names ELSE scope' = scope
    <3>1. CASE Load(o) BY <3>1, LoadIs DEF Live
    <3>2. CASE Connect(o) \/ Attach(o) BY <3>2 DEF Connect, Attach, Live
    <3> QED BY <1>2, <3>1, <3>2
  <2>6. ASSUME NEW d, Scoped(d)
        PROVE  \/ \E p \in Owner : Live(p)' /\ task'[p].names = d.modules
               \/ (\A p \in Owner : ~Live(p)') /\ scope' = d.modules
    <3>1. CASE Live(o)
      <4>1. \A p \in Owner : Live(p) => p = o BY <3>1 DEF ScopeFollows, OneLive
      <4>2. task[o].names = d.modules BY <2>6, <3>1, <4>1 DEF Scoped
      <4> QED BY <2>2, <2>5, <3>1, <4>1, <4>2
    <3>2. CASE ~Live(o) BY <2>1, <2>2, <2>5, <2>6, <3>2 DEF Scoped
    <3> QED BY <3>1, <3>2
  <2>7. Scoped(Earliest) => Scoped(Earliest)' BY <1>0, <2>6 DEF Scoped
  <2>8. Scoped(follow.from) => Scoped(follow.from)' BY <1>0, <2>6 DEF Scoped
  <2> QED BY <1>0, <2>3, <2>4, <2>7, <2>8 DEF ScopeFollows, SameModules
<1> QED BY <1>1, <1>2

LEMMA ScopeGoesOn == Assumed /\ DesignTypes /\ ScopeFollows /\ [Next]_vars => ScopeFollows'
<1> SUFFICES ASSUME Assumed, DesignTypes, ScopeFollows, [Next]_vars PROVE ScopeFollows' OBVIOUS
<1>1. CASE UNCHANGED vars
  <2>1. UNCHANGED <<doc, typed, followFrom, follow, adrift, behaviour>>
    BY <1>1 DEF vars, history, follows, others
  <2>2. Earliest' = Earliest /\ Due' = Due BY <2>1 DEF Earliest, Due
  <2> QED BY <2>1, <2>2, ScopeStays DEF SameModules
<1>2. CASE Next BY <1>2, EditScope, TravelScope, FollowScope, ViewScope, TaskScope DEF Next
<1> QED BY <1>1, <1>2

-----------------------------------------------------------------------------
(* The behaviour is stopped and started by one at a time, and in turn *)

\* Nobody else brings the behaviour up to date, and no instance is held twice.
Alone == \A o, p \in Owner : task[o] # Idle /\ task[p] # Idle => o = p
Distinct == \A i, j \in 1..Len(instances) : instances[i] = instances[j] => i = j

\* The view is the one the behaviour was last brought up to date for.
Applied == switch.at # "rows"

\* The behaviour runs as a whole or not at all.
Up == alive = ToSet(instances) /\ attached = 1
Down == alive = {} /\ attached = 0 /\ ToSet(instances) \cap connected = {}
AtRest ==
    (\A o \in Owner : task[o] = Idle) =>
        /\ Up \/ Down
        /\ Applied => IF mode = "preview" /\ ~closed THEN Up ELSE Down

\* What a stop has still to disconnect, and what a start has connected.
StillUp(t) == {x \in connected : \E i \in t.next..Len(t.list) : x = t.list[i]}
UpTo(t) == {x \in connected : \E i \in 1..(t.next - 1) : x = t.list[i]}

Running(o) ==
    LET t == task[o]
    IN /\ Applied /\ o # "close" => IF t.at = "connect" THEN mode = "preview" ELSE t.start <=> mode = "preview"
       /\ t.at = "stop" => t.next # 0 /\ instances = t.list /\ alive = StillUp(t)
       /\ t.at = "load" => /\ o # "close" /\ ~t.overtaken
                           /\ instances = <<>> /\ alive = {} /\ attached = 0
       /\ t.at = "connect" => /\ o # "close" /\ instances = t.list /\ alive = UpTo(t) /\ attached = 0
                              /\ t.next <= Len(t.list) + 1
                              /\ \A i \in 1..(t.next - 1) : t.list[i] \in connected
                              /\ \A i \in t.next..Len(t.list) : t.list[i] \notin connected

\* Once closed, only what was closed goes on.
Shut ==
    /\ closed => /\ switch = Still /\ follow = Resting /\ followFrom = NoDocument
                 /\ \A o \in Owner \ {"close"} : task[o] = Idle
    /\ task["close"] # Idle => closed

RunFollows ==
    ~overlapped => Alone /\ Distinct /\ AtRest /\ (\A o \in Owner : task[o] # Idle => Running(o)) /\ Shut

\* A step that leaves the behaviour alone, and the view unless it is being switched.
LEMMA RunStays ==
    ASSUME RunFollows, UNCHANGED <<behaviour, overlapped, closed>>,
           ~Applied' \/ (mode' = mode /\ Applied),
           closed => UNCHANGED <<switch, follow, followFrom>>
    PROVE  RunFollows'
<1> SUFFICES ASSUME ~overlapped' PROVE RunFollows' BY DEF RunFollows
<1>1. ~overlapped /\ closed' = closed /\ UNCHANGED <<scope, instances, attached, connected, alive, built, task>>
  BY DEF behaviour
<1>2. Alone /\ Distinct /\ AtRest /\ (\A o \in Owner : task[o] # Idle => Running(o)) /\ Shut BY <1>1 DEF RunFollows
<1>3. Alone' /\ Distinct' BY <1>1, <1>2 DEF Alone, Distinct
<1>4. (Up' <=> Up) /\ (Down' <=> Down) BY <1>1 DEF Up, Down
<1>5. AtRest' BY <1>1, <1>2, <1>4 DEF AtRest
<1>6. Shut' BY <1>1, <1>2 DEF Shut
<1>7. \A t : StillUp(t)' = StillUp(t) /\ UpTo(t)' = UpTo(t) BY <1>1 DEF StillUp, UpTo
<1>8. ASSUME NEW o \in Owner, task'[o] # Idle PROVE Running(o)'
  <2>1. Running(o) /\ task'[o] = task[o] BY <1>1, <1>2, <1>8
  <2>2. StillUp(task[o])' = StillUp(task[o]) /\ UpTo(task[o])' = UpTo(task[o])
    BY <1>1 DEF StillUp, UpTo
  <2>3. Applied' => Applied /\ mode' = mode OBVIOUS
  <2> QED BY <1>1, <2>1, <2>2, <2>3 DEF Running
<1> QED BY <1>3, <1>5, <1>6, <1>8 DEF RunFollows

LEMMA NoneStill ==
    ASSUME NEW n, NEW t \in Doing(n), NextConnected(t) = {} PROVE StillUp(t) = {}
<1> DEFINE T == {i \in t.next..Len(t.list) : t.list[i] \in connected}
<1>1. t.next \in Nat /\ Len(t.list) \in Nat BY DEF Doing
<1>2. SUFFICES ASSUME T # {} PROVE FALSE BY DEF StillUp
<1>3. T \in SUBSET Nat BY <1>1
<1>4. PICK i \in T : \A j \in T : i <= j
  <2> HIDE DEF T
  <2> QED BY <1>2, <1>3, LeastNatural
<1>5. \A j \in t.next..(i - 1) : t.list[j] \notin connected
  <2> SUFFICES ASSUME NEW j \in t.next..(i - 1), t.list[j] \in connected PROVE FALSE OBVIOUS
  <2>1. i \in Nat /\ i <= Len(t.list) BY <1>1
  <2>2. j \in T BY <1>1, <2>1
  <2>3. i <= j BY <1>4, <2>2
  <2> QED BY <1>1, <2>1, <2>3
<1>6. i \in NextConnected(t) BY <1>5 DEF NextConnected
<1> QED BY <1>6

LEMMA AfterIs ==
    ASSUME NEW n, NEW t \in Doing(n), NEW i
    PROVE  /\ After(t, i).at = "stop" /\ After(t, i).next = i + 1 /\ After(t, i).list = t.list
           /\ After(t, i).start = t.start
BY DEF After, Doing

LEMMA BegunIs ==
    ASSUME NEW start, NEW names
    PROVE  /\ Begun(start, names).at = "load" /\ Begun(start, names).start = start
           /\ ~Begun(start, names).overtaken /\ Begun(start, names).names = names
BY DEF Begun, Idle

\* A stop goes on, alone.
LEMMA StoppingRun ==
    ASSUME DesignTypes, NEW o \in Owner, NEW t \in Doing(built), NEW d \in Document, Stopping(o, t, d),
           Distinct, \A p \in Owner : p # o => task[p] = Idle,
           t.next # 0, instances = t.list, alive = StillUp(t),
           Applied' /\ o # "close" => (t.start <=> mode' = "preview"),
           closed' <=> o = "close",
           closed' => switch' = Still /\ follow' = Resting /\ followFrom' = NoDocument
    PROVE  RunFollows'
<1>1. connected' = connected /\ built' = built BY StoppingIs
<1>2. \A p \in Owner : p # o => task'[p] = Idle BY StoppingTypes
<1>3. Alone' /\ Shut'
  <2>1. Alone' BY <1>2 DEF Alone
  <2>2. closed' => \A p \in Owner \ {"close"} : task'[p] = Idle BY <1>2
  <2>3. task'["close"] # Idle => closed' BY <1>2 DEF Owner
  <2> QED BY <2>1, <2>2, <2>3 DEF Shut
<1>4. t.next \in Nat /\ Len(t.list) \in Nat /\ task \in [Owner -> Doing(built)] BY DEF Doing, DesignTypes, RunTypes
<1>5. CASE NextConnected(t) # {}
  <2>1. PICK i \in NextConnected(t) : task' = [task EXCEPT ![o] = After(t, i)] /\ alive' = alive \ {t.list[i]}
    BY <1>5, StoppingIs
  <2>2. UNCHANGED <<scope, instances, attached, adrift>> BY <1>5, StoppingIs
  <2>3. task'[o] = After(t, i) BY <1>4, <2>1
  <2>4. i \in t.next..Len(t.list) /\ \A j \in t.next..(i - 1) : t.list[j] \notin connected
    BY DEF NextConnected
  <2>5. i \in Nat /\ i + 1 # 0 BY <1>4, <2>4
  <2>6. alive' = StillUp(After(t, i))'
    <3>1. StillUp(After(t, i))' = {x \in connected : \E k \in (i + 1)..Len(t.list) : x = t.list[k]}
      BY <1>1, AfterIs DEF StillUp
    <3>2. ASSUME NEW x \in alive, x # t.list[i]
          PROVE  x \in connected /\ \E k \in (i + 1)..Len(t.list) : x = t.list[k]
      <4>1. PICK k \in t.next..Len(t.list) : x = t.list[k] BY DEF StillUp
      <4>2. x \in connected BY DEF StillUp
      <4>3. k # i /\ k \notin t.next..(i - 1) BY <2>4, <3>2, <4>1, <4>2
      <4>4. k \in (i + 1)..Len(t.list) BY <1>4, <2>5, <4>3
      <4> QED BY <4>1, <4>2, <4>4
    <3>3. ASSUME NEW x \in connected, NEW k \in (i + 1)..Len(t.list), x = t.list[k]
          PROVE  x \in alive /\ x # t.list[i]
      <4>1. k \in t.next..Len(t.list) /\ k \in 1..Len(t.list) /\ i \in 1..Len(t.list) /\ k # i
        BY <1>4, <2>4, <2>5
      <4>2. x \in alive BY <3>3, <4>1 DEF StillUp
      <4>3. t.list[k] # t.list[i] BY <4>1 DEF Distinct
      <4> QED BY <3>3, <4>2, <4>3
    <3> QED BY <2>1, <3>1, <3>2, <3>3
  <2>7. Running(o)'
    <3>1. /\ task'[o].at = "stop" /\ task'[o].next = i + 1 /\ task'[o].list = t.list /\ task'[o].start = t.start
      BY <2>3, AfterIs
    <3>2. alive' = StillUp(task[o])' BY <2>3, <2>6 DEF StillUp
    <3> QED BY <2>2, <2>5, <3>1, <3>2 DEF Running
  <2>8. task'[o] # Idle BY <2>3, AfterIs DEF Idle
  <2>9. AtRest' BY <2>8 DEF AtRest
  <2>10. Distinct' BY <2>2 DEF Distinct
  <2> QED BY <1>2, <1>3, <2>7, <2>9, <2>10 DEF RunFollows
<1>6. CASE NextConnected(t) = {}
  <2>1. instances' = <<>> /\ attached' = 0 /\ alive' = {} BY <1>6, NoneStill, StoppingIs
  <2>2. Distinct' BY <2>1 DEF Distinct
  <2>3. Down'
    <3>1. ToSet(<<>>) = {} BY DEF ToSet
    <3> QED BY <2>1, <3>1 DEF Down, ToSet
  <2>4. CASE o = "close"
    <3>1. task'[o] = Idle
      <4>1. task' = [task EXCEPT ![o] = Idle] BY <1>6, <2>4, StoppingIs
      <4> QED BY <1>4, <4>1
    <3>2. AtRest' BY <2>3, <2>4 DEF AtRest
    <3> QED BY <1>2, <1>3, <2>2, <3>1, <3>2 DEF RunFollows
  <2>5. CASE o # "close"
    <3>1. task'[o] = Begun(t.start, d.modules)
      <4>1. task' = [Overtake(task) EXCEPT ![o] = Begun(t.start, d.modules)] BY <1>6, <2>5, StoppingIs
      <4> QED BY <4>1 DEF Overtake
    <3>2. task'[o].at = "load" /\ task'[o].start = t.start /\ ~task'[o].overtaken BY <3>1, BegunIs
    <3>3. AtRest' BY <3>2 DEF AtRest, Idle
    <3>4. Running(o)' BY <2>1, <2>5, <3>2 DEF Running
    <3> QED BY <1>2, <1>3, <2>2, <3>3, <3>4 DEF RunFollows
  <2> QED BY <2>4, <2>5
<1> QED BY <1>5, <1>6

LEMMA StopRun ==
    ASSUME DesignTypes, RunFollows, NEW o \in Owner, Stop(o) PROVE RunFollows'
<1> SUFFICES ASSUME ~overlapped' PROVE RunFollows' BY DEF RunFollows
<1>1. /\ task[o].at = "stop" /\ Stopping(o, task[o], doc) /\ ~overlapped
      /\ UNCHANGED <<closed, mode, switch, follow, followFrom>>
  BY DEF Stop, views, follows
<1>2. task[o] # Idle BY <1>1 DEF Idle
<1>3. Alone /\ Distinct /\ Running(o) /\ Shut BY <1>1, <1>2 DEF RunFollows
<1>4. \A p \in Owner : p # o => task[p] = Idle BY <1>2, <1>3 DEF Alone
<1>5. closed <=> o = "close" BY <1>2, <1>3 DEF Shut, Owner
<1>6. task[o] \in Doing(built) /\ doc \in Document BY DEF DesignTypes, RunTypes, DrawnTypes
<1>7. task[o].next # 0 /\ instances = task[o].list /\ alive = StillUp(task[o]) BY <1>1, <1>3 DEF Running
<1>8. Applied' /\ o # "close" => (task[o].start <=> mode' = "preview") BY <1>1, <1>3 DEF Running, Applied
<1>9. closed' => switch' = Still /\ follow' = Resting /\ followFrom' = NoDocument BY <1>1, <1>3 DEF Shut
<1> QED BY <1>1, <1>3, <1>4, <1>5, <1>6, <1>7, <1>8, <1>9, StoppingRun

\* A stop begins with all that is up, when nobody else is at it.
LEMMA BeginRun ==
    ASSUME DesignTypes, RunFollows, NEW o \in Owner, NEW start \in BOOLEAN, NEW d \in Document, Begin(o, start, d),
           Applied' /\ o # "close" => (start <=> mode' = "preview"),
           closed' <=> o = "close", ~closed,
           o = "close" => UNCHANGED <<switch, follow, followFrom>>
    PROVE  RunFollows'
<1> SUFFICES ASSUME ~overlapped' PROVE RunFollows' BY DEF RunFollows
<1>1. /\ ~overlapped /\ \A p \in Owner : task[p] = Idle
      /\ o = "close" => switch = Still /\ follow = Resting /\ followFrom = NoDocument
  BY DEF Begin
<1>2. Distinct /\ (Up \/ Down) BY <1>1 DEF RunFollows, AtRest
<1> DEFINE t == Opening(start)
<1>3. t \in Doing(built) /\ Stopping(o, t, d) BY BeginIs
<1>4. t.next = 1 /\ t.list = instances /\ t.start = start
  <2>1. built \in Nat BY DEF DesignTypes, RunTypes
  <2>2. Idle \in Doing(built) BY <2>1, IdleIs
  <2> QED BY <2>2 DEF Opening, Doing
<1> HIDE DEF t
<1>5. alive = StillUp(t)
  <2>1. /\ ToSet(instances) = {instances[i] : i \in 1..Len(instances)} /\ alive \subseteq connected
    BY DEF ToSet, DesignTypes, RunTypes
  <2>2. StillUp(t) = {x \in connected : \E i \in 1..Len(instances) : x = instances[i]} BY <1>4 DEF StillUp
  <2>3. StillUp(t) = ToSet(instances) \cap connected BY <2>1, <2>2
  <2> QED BY <1>2, <2>1, <2>3 DEF Up, Down
<1> QED BY <1>1, <1>2, <1>3, <1>4, <1>5, StoppingRun

LEMMA LoadRun ==
    ASSUME Assumed, DesignTypes, RunFollows, NEW o \in Owner, Load(o) PROVE RunFollows'
<1> SUFFICES ASSUME ~overlapped' PROVE RunFollows' BY DEF RunFollows
<1>1. /\ task[o].at = "load" /\ ~overlapped /\ UNCHANGED <<closed, mode, switch, follow, followFrom>>
  BY LoadIs DEF views, follows, others
<1>2. task[o] # Idle BY <1>1 DEF Idle
<1>3. Alone /\ Distinct /\ Running(o) /\ Shut BY <1>1, <1>2 DEF RunFollows
<1>4. \A p \in Owner : p # o => task[p] = Idle BY <1>2, <1>3 DEF Alone
<1>5. o # "close" /\ ~closed /\ ~task[o].overtaken /\ instances = <<>> /\ alive = {} /\ attached = 0
  BY <1>1, <1>2, <1>3 DEF Running, Shut
<1>6. Applied => (task[o].start <=> mode = "preview") BY <1>1, <1>3, <1>5 DEF Running
<1> DEFINE new == NewInstances(o)
<1>7. /\ new \in Seq(Nat) /\ Len(new) \in Nat /\ \A i \in 1..Len(new) : new[i] = built + i
  BY NewInstancesAre
<1>8. instances' = new BY <1>5, <1>7, LoadIs
<1>9. built \in Nat /\ connected \subseteq 1..built /\ task \in [Owner -> Doing(built)] BY DEF DesignTypes, RunTypes
<1> HIDE DEF new
<1>10. \A i \in 1..Len(new) : new[i] \notin connected
  <2> SUFFICES ASSUME NEW i \in 1..Len(new) PROVE new[i] \notin 1..built BY <1>9
  <2> QED BY <1>7, <1>9
<1>11. Distinct'
  <2> SUFFICES ASSUME NEW i \in 1..Len(new), NEW j \in 1..Len(new), new[i] = new[j] PROVE i = j
    BY <1>8 DEF Distinct
  <2>1. built + i = built + j BY <1>7
  <2> QED BY <1>7, <1>9, <2>1
<1>12. ToSet(new) = {new[i] : i \in 1..Len(new)} BY <1>7 DEF ToSet
<1>13. CASE task[o].start /\ instances' # <<>>
  <2>1. /\ connected' = connected \cup {new[1]} /\ alive' = {new[1]}
        /\ task' = [task EXCEPT ![o] = Connecting(new, 1)] /\ attached' = 0
    BY <1>5, <1>8, <1>13, LoadIs
  <2>2. task'[o] = Connecting(new, 1) /\ \A p \in Owner : p # o => task'[p] = Idle BY <1>4, <1>9, <2>1
  <2>3. 1 \in 1..Len(new) BY <1>7, <1>8, <1>13, EmptySeq
  <2>4. /\ task'[o].at = "connect" /\ task'[o].list = new /\ task'[o].next = 2
    <3>1. new \in Seq(1..(built + Len(new)))
      <4>1. \A i \in 1..Len(new) : new[i] \in 1..(built + Len(new)) BY <1>7, <1>9
      <4>2. new \in [1..Len(new) -> 1..(built + Len(new))] BY <1>7, <4>1, LenProperties
      <4>3. new \in UNION {[1..n -> 1..(built + Len(new))] : n \in Nat} BY <1>7, <4>2
      <4> QED BY <4>3, SeqDef
    <3>2. built + Len(new) \in Nat BY <1>7, <1>9
    <3>3. /\ Connecting(new, 1).at = "connect" /\ Connecting(new, 1).list = new
          /\ Connecting(new, 1).next = 1 + 1
      BY <3>1, <3>2, ConnectingIs
    <3> QED BY <2>2, <3>3
  <2>5. \A i \in 2..Len(new) : new[i] \notin connected'
    <3> SUFFICES ASSUME NEW i \in 2..Len(new) PROVE new[i] \notin connected' OBVIOUS
    <3>1. i \in 1..Len(new) /\ i # 1 BY <1>7
    <3>2. new[i] # new[1] BY <1>8, <1>11, <2>3, <3>1 DEF Distinct
    <3> QED BY <1>10, <2>1, <3>1, <3>2
  <2>6. UpTo(task[o])' = {new[1]} BY <2>1, <2>4 DEF UpTo
  <2>7. Running(o)'
    <3>1. Applied' => mode' = "preview" BY <1>1, <1>6, <1>13 DEF Applied
    <3>2. 2 <= Len(new) + 1 BY <1>7, <2>3
    <3>3. \A i \in 1..(2 - 1) : new[i] \in connected' BY <2>1
    <3> QED BY <1>5, <1>8, <2>1, <2>4, <2>5, <2>6, <3>1, <3>2, <3>3 DEF Running
  <2>8. Alone' BY <2>2 DEF Alone
  <2>9. task'[o] # Idle BY <2>4 DEF Idle
  <2>10. AtRest' BY <2>9 DEF AtRest
  <2>11. Shut' BY <1>1, <1>5, <2>2 DEF Shut, Owner
  <2> QED BY <1>11, <2>2, <2>7, <2>8, <2>10, <2>11 DEF RunFollows
<1>14. CASE ~(task[o].start /\ instances' # <<>>)
  <2>1. /\ task[o].start => instances' = <<>>
        /\ task' = [task EXCEPT ![o] = Idle] /\ UNCHANGED <<connected, alive>>
        /\ attached' = IF task[o].start THEN 1 ELSE 0
    BY <1>5, <1>14, LoadIs
  <2>2. \A p \in Owner : task'[p] = Idle BY <1>4, <1>9, <2>1
  <2>3. Alone' /\ Shut' BY <1>1, <1>5, <2>2 DEF Alone, Shut, Owner
  <2>4. IF task[o].start THEN Up' ELSE Down'
    <3>1. CASE task[o].start
      <4>1. ToSet(instances') = {}
        <5>1. instances' = <<>> BY <2>1, <3>1
        <5> QED BY <5>1 DEF ToSet
      <4> QED BY <1>5, <2>1, <3>1, <4>1 DEF Up
    <3>2. CASE ~task[o].start
      <4>1. ToSet(instances') \cap connected' = {} BY <1>8, <1>10, <1>12, <2>1
      <4> QED BY <1>5, <2>1, <3>2, <4>1 DEF Down
    <3> QED BY <3>1, <3>2
  <2>5. AtRest'
    <3>1. Applied' => (task[o].start <=> mode' = "preview") BY <1>1, <1>6 DEF Applied
    <3>2. ~closed' BY <1>1, <1>5
    <3> QED BY <2>4, <3>1, <3>2 DEF AtRest
  <2> QED BY <1>11, <2>2, <2>3, <2>5 DEF RunFollows
<1> QED BY <1>13, <1>14

LEMMA ConnectRun ==
    ASSUME DesignTypes, RunFollows, NEW o \in Owner, Connect(o) \/ Attach(o) PROVE RunFollows'
<1> SUFFICES ASSUME ~overlapped' PROVE RunFollows' BY DEF RunFollows
<1> DEFINE list == task[o].list
           next == task[o].next
<1>1. /\ task[o].at = "connect" /\ ~overlapped /\ UNCHANGED <<closed, mode, switch, follow, followFrom, instances>>
  BY DEF Connect, Attach, views, follows, others
<1>2. task[o] # Idle BY <1>1 DEF Idle
<1>3. Alone /\ Distinct /\ Running(o) /\ Shut BY <1>1, <1>2 DEF RunFollows
<1>4. \A p \in Owner : p # o => task[p] = Idle BY <1>2, <1>3 DEF Alone
<1>5. /\ o # "close" /\ ~closed /\ instances = list /\ alive = UpTo(task[o]) /\ attached = 0
      /\ next <= Len(list) + 1
      /\ \A i \in 1..(next - 1) : list[i] \in connected
      /\ \A i \in next..Len(list) : list[i] \notin connected
  BY <1>1, <1>2, <1>3 DEF Running, Shut
<1>6. Applied => mode = "preview" BY <1>1, <1>3, <1>5 DEF Running
<1>7. /\ task \in [Owner -> Doing(built)] /\ built \in Nat /\ list \in Seq(1..built) /\ Len(list) \in Nat
      /\ next \in Nat /\ next # 0
  <2>1. task \in [Owner -> Doing(built)] /\ built \in Nat BY DEF DesignTypes, RunTypes
  <2> QED BY <1>1, <2>1 DEF Doing
<1>8. Distinct' BY <1>1, <1>3 DEF Distinct
<1>9. alive = {x \in connected : \E i \in 1..(next - 1) : x = list[i]} BY <1>5 DEF UpTo
<1> HIDE DEF list, next
<1>10. CASE Connect(o)
  <2>1. /\ next <= Len(list) /\ attached' = 0
        /\ connected' = connected \cup {list[next]} /\ alive' = alive \cup {list[next]}
        /\ task' = [task EXCEPT ![o] = Connecting(list, next)]
    BY <1>5, <1>10 DEF Connect, ConnectUpTo, Connecting, list, next
  <2>2. task'[o] = Connecting(list, next) /\ \A p \in Owner : p # o => task'[p] = Idle BY <1>4, <1>7, <2>1
  <2>3. task'[o].at = "connect" /\ task'[o].list = list /\ task'[o].next = next + 1
    BY <1>7, <2>2, ConnectingIs
  <2>4. \A i \in (next + 1)..Len(list) : list[i] \notin connected'
    <3> SUFFICES ASSUME NEW i \in (next + 1)..Len(list) PROVE list[i] \notin connected' OBVIOUS
    <3>1. i \in next..Len(list) /\ i \in 1..Len(list) /\ next \in 1..Len(list) /\ i # next BY <1>7, <2>1
    <3>2. list[i] # list[next] BY <1>3, <1>5, <3>1 DEF Distinct
    <3> QED BY <1>5, <2>1, <3>1, <3>2
  <2>5. \A i \in 1..next : list[i] \in connected'
    <3> SUFFICES ASSUME NEW i \in 1..next PROVE list[i] \in connected' OBVIOUS
    <3>1. i \in 1..(next - 1) \/ i = next BY <1>7
    <3> QED BY <1>5, <2>1, <3>1
  <2>6. next + 1 - 1 = next /\ next + 1 <= Len(list) + 1 BY <1>7, <2>1
  <2>7. alive' = {x \in connected' : \E i \in 1..next : x = list[i]}
    <3>1. ASSUME NEW x \in alive' PROVE x \in connected' /\ \E i \in 1..next : x = list[i]
      <4>1. CASE x = list[next]
        <5>1. next \in 1..next BY <1>7
        <5> QED BY <2>1, <4>1, <5>1
      <4>2. CASE x \in alive
        <5>1. PICK i \in 1..(next - 1) : x = list[i] BY <1>9, <4>2
        <5>2. i \in 1..next BY <1>7
        <5> QED BY <1>9, <2>1, <4>2, <5>1, <5>2
      <4> QED BY <2>1, <4>1, <4>2
    <3>2. ASSUME NEW i \in 1..next PROVE list[i] \in alive'
      <4>1. i \in 1..(next - 1) \/ i = next BY <1>7
      <4> QED BY <1>5, <1>9, <2>1, <4>1
    <3> QED BY <3>1, <3>2
  <2>8. UpTo(task[o])' = alive'
    <3>1. UpTo(task[o])' = {x \in connected' : \E i \in 1..(task'[o].next - 1) : x = task'[o].list[i]} BY DEF UpTo
    <3>2. task'[o].next - 1 = next /\ task'[o].list = list BY <1>7, <2>3
    <3> QED BY <2>7, <3>1, <3>2
  <2>9. Running(o)'
    <3>1. Applied' => mode' = "preview" BY <1>1, <1>6 DEF Applied
    <3>2. /\ \A i \in 1..(task'[o].next - 1) : task'[o].list[i] \in connected'
          /\ \A i \in task'[o].next..Len(task'[o].list) : task'[o].list[i] \notin connected'
          /\ task'[o].next <= Len(task'[o].list) + 1
      <4>1. task'[o].next - 1 = next /\ task'[o].list = list BY <1>7, <2>3
      <4> QED BY <2>3, <2>4, <2>5, <2>6, <4>1
    <3>3. instances' = task'[o].list BY <1>1, <1>5, <2>3
    <3> QED BY <1>5, <2>1, <2>3, <2>8, <3>1, <3>2, <3>3 DEF Running
  <2>10. Alone' BY <2>2 DEF Alone
  <2>11. task'[o] # Idle BY <2>3 DEF Idle
  <2>12. AtRest' BY <2>11 DEF AtRest
  <2>13. Shut' BY <1>1, <1>5, <2>2 DEF Shut, Owner
  <2> QED BY <1>8, <2>2, <2>9, <2>10, <2>12, <2>13 DEF RunFollows
<1>11. CASE Attach(o)
  <2>1. /\ next > Len(list) /\ attached' = 1 /\ task' = [task EXCEPT ![o] = Idle] /\ UNCHANGED <<connected, alive>>
    BY <1>5, <1>11 DEF Attach, list, next
  <2>2. \A p \in Owner : task'[p] = Idle BY <1>4, <1>7, <2>1
  <2>3. Alone' /\ Shut' BY <1>1, <1>5, <2>2 DEF Alone, Shut, Owner
  <2>4. Up'
    <3>1. next - 1 = Len(list) BY <1>5, <1>7, <2>1
    <3>2. ToSet(list) = {list[i] : i \in 1..Len(list)} BY <1>7 DEF ToSet
    <3>3. alive = ToSet(list) BY <1>5, <1>9, <3>1, <3>2
    <3> QED BY <1>1, <1>5, <2>1, <3>3 DEF Up
  <2>5. AtRest'
    <3>1. Applied' => mode' = "preview" BY <1>1, <1>6 DEF Applied
    <3>2. ~closed' BY <1>1, <1>5
    <3> QED BY <2>4, <3>1, <3>2 DEF AtRest
  <2> QED BY <1>8, <2>2, <2>3, <2>5 DEF RunFollows
<1> QED BY <1>10, <1>11

LEMMA EditRun ==
    ASSUME Assumed, DesignTypes, RunFollows,
           \/ \E run \in {"none", "box"} : Draw(run)
           \/ \E s \in Source \cup {None} : ChooseSource(s)
           \/ \E m \in Module : Tick(m) \/ NewModule(m)
           \/ \E d \in Document : TypeDocument(d)
           \/ Undo \/ Redo
    PROVE  RunFollows'
<1>0. doc \in Document BY DEF DesignTypes, DrawnTypes
<1>1. ~closed /\ UNCHANGED <<closed, views, follow>>
  <2>1. Edited /\ UNCHANGED <<views, follow>>
    BY DEF Draw, ChooseSource, Tick, NewModule, TypeDocument, Undo, Redo, Travel, follows
  <2> QED BY <2>1 DEF Edited
<1>2. CASE UNCHANGED <<behaviour, overlapped>>
  <2>1. ~Applied' \/ (mode' = mode /\ Applied) BY <1>1 DEF Applied, views
  <2> QED BY <1>1, <1>2, <2>1, RunStays
<1>3. ASSUME NEW m \in Module, Tick(m) PROVE RunFollows'
  <2>1. doc' \in Document
    <3>1. doc' = [doc EXCEPT !.modules = IF m \in @ THEN @ \ {m} ELSE @ \cup {m}] BY <1>3, RecordIs DEF Tick
    <3>2. doc.modules \subseteq Module BY <1>0 DEF Document
    <3> QED BY <1>0, <3>1, <3>2 DEF Document
  <2>2. Begin("tick", mode = "preview", doc') BY <1>3 DEF Tick
  <2>3. (mode = "preview") <=> mode' = "preview" BY <1>1 DEF views
  <2> QED BY <1>1, <2>1, <2>2, <2>3, BeginRun DEF Owner
<1> QED BY <1>2, <1>3 DEF Draw, ChooseSource, NewModule, TypeDocument, Undo, Redo, Travel

LEMMA FollowRun ==
    ASSUME DesignTypes, RunFollows, TypedRunEnds \/ FollowBegins \/ FollowModules \/ FollowEnds \/ Landed
    PROVE  RunFollows'
<1>0. doc \in Document BY DEF DesignTypes, DrawnTypes
<1> SUFFICES ASSUME ~overlapped' PROVE RunFollows' BY DEF RunFollows
<1>1. mode' = mode /\ switch'.at = switch.at /\ closed' = closed
  BY DEF TypedRunEnds, FollowBegins, FollowModules, FollowEnds, Landed, views, others, DesignTypes, ViewTypes
<1>2. ~Applied' \/ (mode' = mode /\ Applied) BY <1>1 DEF Applied
<1>3. ~overlapped => Shut BY DEF RunFollows
<1>4. CASE TypedRunEnds
  <2>1. UNCHANGED <<behaviour, overlapped>> /\ ~closed BY <1>4 DEF TypedRunEnds, others
  <2> QED BY <1>1, <1>2, <2>1, RunStays
<1>5. CASE FollowBegins
  <2>1. UNCHANGED <<behaviour, overlapped>> /\ ~closed
    BY <1>3, <1>5 DEF FollowBegins, Shut
  <2> QED BY <1>1, <1>2, <2>1, RunStays
<1>6. CASE FollowModules
  <2>1. CASE UNCHANGED <<behaviour, overlapped>>
    <3>1. ~closed BY <1>3, <1>6, <2>1 DEF FollowModules, Shut, Resting
    <3> QED BY <1>1, <1>2, <2>1, <3>1, RunStays
  <2>2. CASE Begin("follow", mode = "preview", doc)
    <3>1. ~overlapped BY <2>2 DEF Begin
    <3>2. ~closed BY <1>3, <1>6, <3>1 DEF FollowModules, Shut, Resting
    <3>3. (mode = "preview") <=> mode' = "preview" BY <1>1
    <3> QED BY <1>0, <1>1, <2>2, <3>2, <3>3, BeginRun DEF Owner
  <2> QED BY <1>6, <2>1, <2>2 DEF FollowModules
<1>7. CASE FollowEnds
  <2>1. UNCHANGED <<behaviour, overlapped>> /\ ~closed
    BY <1>3, <1>7 DEF FollowEnds, Shut, Resting, others
  <2> QED BY <1>1, <1>2, <2>1, RunStays
<1>8. CASE Landed
  <2>1. UNCHANGED <<behaviour, overlapped, switch, follow, followFrom>>
    BY <1>8 DEF Landed, views, follows, others
  <2> QED BY <1>1, <1>2, <2>1, RunStays
<1> QED BY <1>4, <1>5, <1>6, <1>7, <1>8

LEMMA ViewRun ==
    ASSUME DesignTypes, RunFollows,
           \/ \E m \in Mode : Press(m)
           \/ TakeMode \/ SwitchBehaviour \/ SwitchEnds \/ ModuleSaved \/ Close
    PROVE  RunFollows'
<1>0. doc \in Document BY DEF DesignTypes, DrawnTypes
<1> SUFFICES ASSUME ~overlapped' PROVE RunFollows' BY DEF RunFollows
<1>1. ~overlapped => Shut BY DEF RunFollows
<1>2. CASE (\E m \in Mode : Press(m)) \/ SwitchEnds
  <2>1. /\ UNCHANGED <<behaviour, mode, closed, overlapped>>
        /\ UNCHANGED switch \/ switch' = Still \/ switch'.at = "settle"
    BY <1>2, ViewsKeep
  <2>2. ~closed
    <3>1. CASE \E m \in Mode : Press(m) BY <3>1 DEF Press
    <3>2. CASE SwitchEnds BY <1>1, <2>1, <3>2 DEF SwitchEnds, Shut, Still
    <3> QED BY <1>2, <3>1, <3>2
  <2>3. ~Applied' \/ (mode' = mode /\ Applied)
    <3>1. CASE \E m \in Mode : Press(m)
      <4>1. UNCHANGED switch \/ switch = Still BY <3>1 DEF Press
      <4> QED BY <2>1, <4>1 DEF Applied, Still
    <3>2. CASE SwitchEnds BY <2>1, <3>2 DEF SwitchEnds, Applied
    <3> QED BY <1>2, <3>1, <3>2
  <2> QED BY <2>1, <2>2, <2>3, RunStays
<1>3. CASE TakeMode
  <2>1. UNCHANGED <<behaviour, overlapped, closed>> /\ switch.at = "settle"
        /\ switch' = [switch EXCEPT !.at = "rows"]
    BY <1>3 DEF TakeMode
  <2>2. ~closed BY <1>1, <2>1 DEF Shut, Still
  <2>3. ~Applied' BY <2>1 DEF Applied, DesignTypes, ViewTypes
  <2> QED BY <2>1, <2>2, <2>3, RunStays
<1>4. CASE SwitchBehaviour
  <2>1. /\ switch.at = "rows" /\ Begin("switch", mode = "preview", doc) /\ UNCHANGED <<mode, closed>>
    BY <1>4 DEF SwitchBehaviour
  <2>2. ~closed BY <1>1, <2>1 DEF Begin, Shut, Still
  <2>3. (mode = "preview") <=> mode' = "preview" BY <2>1
  <2> QED BY <1>0, <2>1, <2>2, <2>3, BeginRun DEF Owner
<1>5. CASE ModuleSaved
  <2>1. /\ Begin("saved", mode = "preview" /\ switch.at # "rows", doc) /\ UNCHANGED <<mode, closed, switch>> /\ ~closed
    BY <1>5 DEF ModuleSaved
  <2>2. Applied' => ((mode = "preview" /\ switch.at # "rows") <=> mode' = "preview") BY <2>1 DEF Applied
  <2> QED BY <1>0, <2>1, <2>2, BeginRun DEF Owner
<1>6. CASE Close
  <2>1. Begin("close", FALSE, doc) /\ ~closed /\ closed' = TRUE /\ UNCHANGED <<switch, follow, followFrom>>
    BY <1>6 DEF Close, views, follows
  <2> QED BY <1>0, <2>1, BeginRun DEF Owner
<1> QED BY <1>2, <1>3, <1>4, <1>5, <1>6

LEMMA RunGoesOn == Assumed /\ DesignTypes /\ RunFollows /\ [Next]_vars => RunFollows'
<1> SUFFICES ASSUME Assumed, DesignTypes, RunFollows, [Next]_vars PROVE RunFollows' OBVIOUS
<1>1. CASE UNCHANGED vars
  <2>1. UNCHANGED <<behaviour, overlapped, closed, mode, switch, follow, followFrom>>
    BY <1>1 DEF vars, views, follows, others
  <2>2. ~Applied' \/ (mode' = mode /\ Applied) BY <2>1 DEF Applied
  <2> QED BY <2>1, <2>2, RunStays
<1>2. CASE Next BY <1>2, EditRun, FollowRun, ViewRun, StopRun, LoadRun, ConnectRun DEF Next
<1> QED BY <1>1, <1>2

-----------------------------------------------------------------------------
(* All of it together *)

Followed == RowsFollow /\ ScopeFollows /\ RunFollows

LEMMA FollowedBegins == Assumed /\ Init => Followed
<1> SUFFICES ASSUME Assumed, Init PROVE Followed OBVIOUS
<1>1. DesignTypes BY TypesBegin
<1>2. Earliest = doc /\ doc \in Document BY DEF Init, Earliest, Document
<1>3. RowsFollow BY <1>2 DEF RowsFollow, Shown, Init
<1>4. \A o \in Owner : task[o] = Idle BY DEF Init
<1>5. \A o \in Owner : ~Live(o) BY <1>4 DEF Live, Idle
<1>6. ScopeFollows
  <2>1. scope = doc.modules BY DEF Init
  <2> QED BY <1>2, <1>5, <2>1 DEF ScopeFollows, OneLive, Scoped
<1>7. RunFollows
  <2>1. /\ instances = [i \in 1..built |-> i] /\ built \in Nat /\ switch = Still /\ ~closed
        /\ connected = (IF mode = "preview" THEN 1..built ELSE {}) /\ alive = connected
        /\ attached = (IF mode = "preview" THEN 1 ELSE 0)
    BY <1>1 DEF Init, DesignTypes, RunTypes
  <2>2. ToSet(instances) = 1..built BY <2>1 DEF ToSet
  <2>3. IF mode = "preview" THEN Up ELSE Down BY <2>1, <2>2 DEF Up, Down
  <2>4. AtRest BY <2>1, <2>3 DEF AtRest
  <2>5. Distinct
    <3>1. Len(instances) = built /\ \A i \in 1..built : instances[i] = i BY <2>1
    <3> QED BY <3>1 DEF Distinct
  <2>6. Alone BY <1>4 DEF Alone
  <2>7. Shut BY <1>4, <2>1 DEF Shut, Owner
  <2> QED BY <1>4, <2>4, <2>5, <2>6, <2>7 DEF RunFollows
<1> QED BY <1>3, <1>6, <1>7 DEF Followed

LEMMA FollowedMeans == DesignTypes /\ Followed => DocumentIsFollowed /\ RunsWhatItHolds
<1> SUFFICES ASSUME DesignTypes, Followed PROVE DocumentIsFollowed /\ RunsWhatItHolds OBVIOUS
<1>1. Settled => Earliest = doc /\ ~Due BY DEF Settled, Earliest, Due
<1>2. Settled => \A o \in Owner : ~Live(o) /\ task[o].at # "stop" BY DEF Settled, Live, Idle
<1>3. DocumentIsFollowed
  <2> SUFFICES ASSUME Settled
      PROVE  /\ "rows" \notin adrift => rows \in {None, doc.source} /\ reading \in {None, doc.source}
             /\ "scope" \notin adrift => scope = doc.modules
    BY DEF DocumentIsFollowed
  <2>1. "rows" \notin adrift => rows \in {None, doc.source} /\ reading \in {None, doc.source}
    BY <1>1 DEF Followed, RowsFollow, Shown
  <2>2. "scope" \notin adrift => scope = doc.modules
    <3>1. follow.at # "rows" BY DEF Settled, Resting
    <3> QED BY <1>1, <1>2, <3>1 DEF Followed, ScopeFollows, Scoped, Unbuilt
  <2> QED BY <2>1, <2>2
<1>4. RunsWhatItHolds
  <2> SUFFICES ASSUME Settled, ~overlapped
      PROVE  IF mode = "preview" /\ ~closed
             THEN alive = ToSet(instances) /\ attached = 1
             ELSE alive = {} /\ attached = 0
    BY DEF RunsWhatItHolds
  <2>1. Applied BY DEF Settled, Applied, Still
  <2>2. AtRest /\ \A o \in Owner : task[o] = Idle BY DEF Followed, RunFollows, Settled
  <2> QED BY <2>1, <2>2 DEF AtRest, Up, Down
<1> QED BY <1>3, <1>4

IInv == Assumed /\ DesignTypes /\ Followed

LEMMA InitGood == Assumed /\ Init => IInv
BY TypesBegin, FollowedBegins DEF IInv

LEMMA StepGood == IInv /\ [Next]_vars => IInv'
<1> SUFFICES ASSUME IInv, [Next]_vars PROVE IInv' OBVIOUS
<1>1. DesignTypes' BY TypesGoOn DEF IInv
<1>2. Followed' BY RowsGoOn, ScopeGoesOn, RunGoesOn DEF IInv, Followed
<1> QED BY <1>1, <1>2 DEF IInv, Assumed

LEMMA IInvSuffices == IInv => TypeOK /\ DocumentIsFollowed /\ RunsWhatItHolds
BY TypesSuffice, FollowedMeans DEF IInv

LEMMA IInvHolds == Assumed /\ Spec => []IInv
<1>1. Assumed /\ Init => IInv BY InitGood
<1>2. IInv /\ [Next]_vars => IInv' BY StepGood
<1> QED BY <1>1, <1>2, PTL DEF Spec

-----------------------------------------------------------------------------
(* What is proved of the designer *)

\* Once nothing is under way, the rows on screen and the modules that formulas call are
\* those of the document on screen, but for what is known to have drifted (designer.js
\* followDocumentChange, followTypedDocument, travel, loadRows, rebuildScope).
THEOREM DocumentFollowed == Assumed /\ Spec => []DocumentIsFollowed
<1>1. IInv => DocumentIsFollowed BY IInvSuffices
<1> QED BY <1>1, IInvHolds, PTL

\* Then, too, the behaviour runs as a whole in Preview and not at all elsewhere, unless two
\* had been stopping and starting it at once (designer.js startBehaviour, stopBehaviour).
THEOREM BehaviourRuns == Assumed /\ Spec => []RunsWhatItHolds
<1>1. IInv => RunsWhatItHolds BY IInvSuffices
<1> QED BY <1>1, IInvHolds, PTL
=============================================================================
