-------------------------- MODULE WorkspaceProofs --------------------------
(***************************************************************************)
(* Proofs about Workspace, for any tabs, answers and reloads, and about     *)
(* DataTab, for any bounds: the bar of tabs and the tab of a table, side by *)
(* side.                                                                    *)
(*                                                                          *)
(* What an operation on the tabs that waits for a dialog has found out      *)
(* about those it began with stays true while the list changes under the    *)
(* dialog: tabs are added at the end and removed, so that a tab only moves  *)
(* to the left, and none gets anything to lose while a dialog is open.      *)
(*                                                                          *)
(* In a data tab a structure that is read for the generation of now was     *)
(* served after the last refresh; and no load of the data is newer than the *)
(* active one, so that of the loads that wait for the structure only that   *)
(* one comes to the screen.                                                 *)
(***************************************************************************)
EXTENDS Workspace, SequenceTheorems, FiniteSetTheorems, WellFoundedInduction, TLAPS

CONSTANTS MaxRenders, MaxChanges, MaxFilters, MaxEdits  \* of the data tab

VARIABLES
    \* The data tab
    object, schema, generation, refreshed, cache, reads, promise, view, renders, dataActive,
    body, filters, ddl, editor, dataSent, definition, dialog

-----------------------------------------------------------------------------
(* ---- The bar of tabs ---- *)

Assumed == None \notin Tab /\ MaxAnswers \in Nat /\ MaxReloads \in Nat

TypedTabs ==
    /\ tabs \in Seq(Tab) /\ active \in Tab \cup {None}
    /\ work \in [Tab -> {"idle", "running", "unsaved"}] /\ asking \in Seq(Op)

\* What is not about the tabs.
RestTyped ==
    /\ answers \subseteq [does : {"open", "drop", "rename"}, tab : Tab] /\ sent \in 0..MaxAnswers
    /\ restored \in BOOLEAN /\ reading \in Session \cup {None} /\ saved \in Session
    /\ reloads \in 0..MaxReloads

\* A tab is open once, and one that is not open has nothing to lose.
TabsFit == IsInjective(tabs) /\ \A t \in Tab : work[t] # "idle" => t \in Open

\* Below, ts is a list of tabs and w what they would lose.  The tab has been closed,
\* or has nothing to lose, or is to the left of n.
MovedBefore(t, n, ts, w) == w[t] = "idle" \/ \E j \in DOMAIN ts : j < n /\ ts[j] = t

\* The tabs an operation began with have moved to the left since.
Ahead(op, ts, w) == \A k \in DOMAIN op.under : MovedBefore(op.under[k], k + 1, ts, w)

\* Those that a loop has passed have nothing to lose.
Passed(op, n, ts, w) ==
    \A k \in DOMAIN op.under : k < n => op.under[k] = op.tab \/ MovedBefore(op.under[k], k, ts, w)

\* What an operation has found out.
FoundOut(op, n, ts, w) ==
    /\ op.name \in {"add", "switch", "close", "closeOthers"} => op.tab \in Tab
    /\ op.name = "add" => op.tab \notin ToSet(ts)
    /\ op.name = "switch" => op.tab \in ToSet(op.under)
    /\ op.name = "close" => op.index \in DOMAIN op.under /\ op.under[op.index] = op.tab
    /\ op.name = "closeAll" => op.tab = None
    /\ Loops(op) => n > 0 /\ Ahead(op, ts, w) /\ Passed(op, n, ts, w)

\* One that waits knows besides what the agreement will settle.
Waits(op, ts, w) ==
    /\ op.name = "close" => op.asked = op.tab
    /\ FoundOut(op, op.index + 1, ts, [w EXCEPT ![op.asked] = "idle"])

\* The tabs to be added.
Adds(ops) == {ops[i].tab : i \in {i \in DOMAIN ops : ops[i].name = "add"}}

AllWait(ops, ts, w) ==
    /\ \A i \in DOMAIN ops : Waits(ops[i], ts, w)
    /\ \A i, j \in DOMAIN ops : ops[i].name = "add" /\ ops[j].name = "add" /\ ops[i].tab = ops[j].tab => i = j

TabsHold == TypedTabs /\ TabsFit /\ AllWait(asking, tabs, work)

IInv == Assumed /\ TabsHold /\ RestTyped

-----------------------------------------------------------------------------
(* Sequences of tabs *)

LEMMA RemovedAt ==
    ASSUME NEW s \in Seq(Tab), NEW n \in DOMAIN s
    PROVE  /\ RemoveAt(s, n) \in Seq(Tab) /\ Len(RemoveAt(s, n)) = Len(s) - 1
           /\ \A j \in 1..(Len(s) - 1) : RemoveAt(s, n)[j] = IF j < n THEN s[j] ELSE s[j + 1]
<1> DEFINE left == SubSeq(s, 1, n - 1)
           right == SubSeq(s, n + 1, Len(s))
<1>1. Len(s) \in Nat /\ n \in 1..Len(s) /\ \A i \in 1..Len(s) : s[i] \in Tab BY ElementOfSeq
<1>2. /\ left \in Seq(Tab) /\ Len(left) = n - 1
      /\ \A i \in 1..(n - 1) : left[i] = s[i]
  <2>1. 1 \in Nat /\ n - 1 \in Nat /\ \A i \in 1..(n - 1) : s[i] \in Tab BY <1>1
  <2>2. /\ left \in Seq(Tab) /\ Len(left) = (IF 1 <= n - 1 THEN n - 1 - 1 + 1 ELSE 0)
        /\ \A i \in 1..(n - 1 - 1 + 1) : left[i] = s[1 + i - 1]
    BY <2>1, SubSeqProperties
  <2> QED BY <1>1, <2>2
<1>3. /\ right \in Seq(Tab) /\ Len(right) = Len(s) - n
      /\ \A i \in 1..(Len(s) - n) : right[i] = s[n + i]
  <2>1. n + 1 \in Nat /\ Len(s) \in Nat /\ \A i \in (n + 1)..Len(s) : s[i] \in Tab BY <1>1
  <2>2. /\ right \in Seq(Tab) /\ Len(right) = (IF n + 1 <= Len(s) THEN Len(s) - (n + 1) + 1 ELSE 0)
        /\ \A i \in 1..(Len(s) - (n + 1) + 1) : right[i] = s[n + 1 + i - 1]
    BY <2>1, SubSeqProperties
  <2> QED BY <1>1, <2>2
<1> HIDE DEF left, right
<1>4. /\ left \o right \in Seq(Tab) /\ Len(left \o right) = Len(left) + Len(right)
      /\ \A i \in 1..(Len(left) + Len(right)) :
            (left \o right)[i] = IF i <= Len(left) THEN left[i] ELSE right[i - Len(left)]
  BY <1>2, <1>3, ConcatProperties
<1>5. ASSUME NEW j \in 1..(Len(s) - 1) PROVE (left \o right)[j] = IF j < n THEN s[j] ELSE s[j + 1]
  <2>1. CASE j < n BY <1>1, <1>2, <1>3, <1>4, <2>1
  <2>2. CASE j >= n
    <3>1. (left \o right)[j] = right[j - (n - 1)]
      <4>1. j \in 1..(Len(left) + Len(right)) /\ ~(j <= Len(left)) BY <1>1, <1>2, <1>3, <2>2
      <4> QED BY <1>2, <1>4, <4>1
    <3>2. j - (n - 1) \in 1..(Len(s) - n) BY <1>1, <2>2
    <3>3. n + (j - (n - 1)) = j + 1 BY <1>1
    <3> QED BY <1>1, <1>3, <2>2, <3>1, <3>2, <3>3
  <2>3. j < n \/ j >= n BY <1>1
  <2> QED BY <2>1, <2>2, <2>3
<1>6. Len(left \o right) = Len(s) - 1 BY <1>1, <1>2, <1>3, <1>4
<1> QED BY <1>4, <1>5, <1>6 DEF RemoveAt, left, right

LEMMA AppendedAt ==
    ASSUME NEW s \in Seq(Tab), NEW t \in Tab
    PROVE  /\ Append(s, t) \in Seq(Tab) /\ Len(Append(s, t)) = Len(s) + 1
           /\ \A j \in DOMAIN s : Append(s, t)[j] = s[j]
           /\ Append(s, t)[Len(s) + 1] = t
  BY AppendProperties

LEMMA Places == ASSUME NEW s, NEW t PROVE t \in ToSet(s) <=> \E i \in DOMAIN s : s[i] = t
  BY DEF ToSet

\* The list has lost tabs, or has got one at its end.
Shifted(ts) ==
    /\ ts \in Seq(Tab) /\ IsInjective(ts)
    /\ \A j \in DOMAIN tabs : tabs[j] \in ToSet(ts) => \E i \in DOMAIN ts : i <= j /\ ts[i] = tabs[j]

LEMMA StandingIsShifted == TypedTabs /\ TabsFit => Shifted(tabs)
<1> SUFFICES ASSUME TypedTabs, TabsFit PROVE Shifted(tabs) OBVIOUS
<1>1. tabs \in Seq(Tab) /\ IsInjective(tabs) BY DEF TypedTabs, TabsFit
<1>2. \A j \in DOMAIN tabs : j <= j BY <1>1
<1> QED BY <1>1, <1>2 DEF Shifted

LEMMA ClosingShifts ==
    ASSUME TypedTabs, TabsFit, NEW n \in DOMAIN tabs
    PROVE  /\ Shifted(RemoveAt(tabs, n))
           /\ \A t : t \in Open /\ t # tabs[n] => t \in ToSet(RemoveAt(tabs, n))
           /\ ToSet(RemoveAt(tabs, n)) \subseteq Open
<1>1. tabs \in Seq(Tab) /\ IsInjective(tabs) /\ Len(tabs) \in Nat /\ DOMAIN tabs = 1..Len(tabs) /\ n \in Nat
  BY DEF TypedTabs, TabsFit
<1> DEFINE left == RemoveAt(tabs, n)
<1>2. /\ left \in Seq(Tab) /\ Len(left) = Len(tabs) - 1 /\ DOMAIN left = 1..(Len(tabs) - 1)
      /\ \A j \in 1..(Len(tabs) - 1) : left[j] = IF j < n THEN tabs[j] ELSE tabs[j + 1]
  <2>1. /\ left \in Seq(Tab) /\ Len(left) = Len(tabs) - 1
        /\ \A j \in 1..(Len(tabs) - 1) : left[j] = IF j < n THEN tabs[j] ELSE tabs[j + 1]
    BY <1>1, RemovedAt
  <2> HIDE DEF left
  <2>2. DOMAIN left = 1..Len(left) BY <2>1
  <2> QED BY <2>1, <2>2
<1> HIDE DEF left
<1>3. ASSUME NEW i \in DOMAIN left, NEW j \in DOMAIN left, left[i] = left[j] PROVE i = j
  <2> DEFINE Old(k) == IF k < n THEN k ELSE k + 1
  <2>1. Old(i) \in DOMAIN tabs /\ Old(j) \in DOMAIN tabs BY <1>1, <1>2
  <2>2. left[i] = tabs[Old(i)] /\ left[j] = tabs[Old(j)] BY <1>1, <1>2
  <2>3. Old(i) = Old(j) BY <1>1, <1>3, <2>1, <2>2 DEF IsInjective
  <2> QED BY <1>1, <1>2, <2>3
<1>4. ASSUME NEW j \in DOMAIN tabs, j # n
      PROVE  \E i \in DOMAIN left : i <= j /\ left[i] = tabs[j]
  <2> DEFINE i == IF j < n THEN j ELSE j - 1
  <2>1. i \in 1..(Len(tabs) - 1) /\ i <= j BY <1>1, <1>4
  <2>2. left[i] = tabs[j]
    <3>1. CASE j < n BY <1>1, <1>2, <2>1, <3>1
    <3>2. CASE j > n
      <4>1. i = j - 1 /\ ~(j - 1 < n) /\ (j - 1) + 1 = j BY <1>1, <3>2
      <4> QED BY <1>2, <2>1, <4>1
    <3> QED BY <1>1, <1>4, <3>1, <3>2
  <2> QED BY <1>2, <2>1, <2>2
<1>5. ASSUME tabs[n] \in ToSet(left) PROVE FALSE
  <2>1. PICK i \in DOMAIN left : left[i] = tabs[n] BY <1>5 DEF ToSet
  <2>2. (IF i < n THEN i ELSE i + 1) \in DOMAIN tabs /\ tabs[IF i < n THEN i ELSE i + 1] = tabs[n]
    BY <1>1, <1>2, <2>1
  <2>3. (IF i < n THEN i ELSE i + 1) = n BY <1>1, <2>2 DEF IsInjective
  <2> QED BY <1>1, <1>2, <2>3
<1>6. Shifted(left) BY <1>2, <1>3, <1>4, <1>5 DEF Shifted, IsInjective
<1>7. \A t : t \in Open /\ t # tabs[n] => t \in ToSet(left) BY <1>4 DEF Open, ToSet
<1>8. ToSet(left) \subseteq Open
  <2> SUFFICES ASSUME NEW i \in DOMAIN left PROVE left[i] \in Open BY DEF ToSet
  <2>1. (IF i < n THEN i ELSE i + 1) \in DOMAIN tabs BY <1>1, <1>2
  <2> QED BY <1>1, <1>2, <2>1 DEF Open, ToSet
<1> QED BY <1>6, <1>7, <1>8 DEF left

LEMMA AddingShifts ==
    ASSUME TypedTabs, TabsFit, NEW t \in Tab, t \notin Open
    PROVE  Shifted(Append(tabs, t)) /\ ToSet(Append(tabs, t)) = Open \cup {t}
<1>1. tabs \in Seq(Tab) /\ IsInjective(tabs) /\ Len(tabs) \in Nat /\ DOMAIN tabs = 1..Len(tabs)
  BY DEF TypedTabs, TabsFit
<1>2. /\ Append(tabs, t) \in Seq(Tab) /\ DOMAIN Append(tabs, t) = 1..(Len(tabs) + 1)
      /\ \A j \in DOMAIN tabs : Append(tabs, t)[j] = tabs[j]
      /\ Append(tabs, t)[Len(tabs) + 1] = t
  BY <1>1, AppendedAt
<1>3. \A j \in DOMAIN tabs : tabs[j] # t BY DEF Open, ToSet
<1>4. IsInjective(Append(tabs, t)) BY <1>1, <1>2, <1>3 DEF IsInjective
<1>5. \A j \in DOMAIN tabs : j \in DOMAIN Append(tabs, t) /\ j <= j BY <1>1, <1>2
<1>6. Shifted(Append(tabs, t)) BY <1>2, <1>4, <1>5 DEF Shifted
<1>7. ToSet(Append(tabs, t)) = Open \cup {t}
  <2>1. \A j \in 1..(Len(tabs) + 1) : j \in DOMAIN tabs \/ j = Len(tabs) + 1 BY <1>1
  <2>2. \A u \in ToSet(Append(tabs, t)) : u \in Open \cup {t} BY <1>2, <2>1 DEF ToSet, Open
  <2>3. \A u \in Open \cup {t} : u \in ToSet(Append(tabs, t))
    <3>1. Len(tabs) + 1 \in DOMAIN Append(tabs, t) BY <1>1, <1>2
    <3> QED BY <1>2, <1>5, <3>1 DEF ToSet, Open
  <2> QED BY <2>2, <2>3
<1> QED BY <1>6, <1>7

-----------------------------------------------------------------------------
(* What an operation has found out stays true *)

WorkState == [Tab -> {"idle", "running", "unsaved"}]

\* Nothing gets anything to lose, and what has closed has nothing to lose.
Lowers(w, ts) == w \in WorkState /\ \A t \in Tab : w[t] # "idle" => w[t] = work[t] /\ t \in ToSet(ts)

LEMMA MovedOn ==
    ASSUME TypedTabs, NEW ts, Shifted(ts), NEW v, NEW w, NEW t, NEW n \in Nat,
           t \in ToSet(ts) \/ w[t] = "idle", v[t] = "idle" => w[t] = "idle", MovedBefore(t, n, tabs, v)
    PROVE  MovedBefore(t, n, ts, w)
<1>1. CASE w[t] = "idle" BY <1>1 DEF MovedBefore
<1>2. CASE w[t] # "idle"
  <2>1. PICK j \in DOMAIN tabs : j < n /\ tabs[j] = t BY <1>2 DEF MovedBefore
  <2>2. PICK i \in DOMAIN ts : i <= j /\ ts[i] = t BY <1>2, <2>1 DEF Shifted
  <2>3. DOMAIN tabs \subseteq Nat /\ DOMAIN ts \subseteq Nat BY DEF TypedTabs, Shifted
  <2>4. i < n BY <2>1, <2>2, <2>3
  <2> QED BY <2>2, <2>4 DEF MovedBefore
<1> QED BY <1>1, <1>2

LEMMA WaitsOn ==
    ASSUME TypedTabs, NEW ts, Shifted(ts), NEW w, Lowers(w, ts), NEW op \in Op, Waits(op, tabs, work),
           op.name = "add" => op.tab \notin ToSet(ts)
    PROVE  Waits(op, ts, w)
<1> DEFINE v0 == [work EXCEPT ![op.asked] = "idle"]
           w0 == [w EXCEPT ![op.asked] = "idle"]
<1>1. /\ op.under \in Seq(Tab) /\ DOMAIN op.under \subseteq Nat
      /\ \A k \in DOMAIN op.under : op.under[k] \in Tab /\ k + 1 \in Nat
  BY DEF Op
<1>2. \A t \in Tab : (t \in ToSet(ts) \/ w0[t] = "idle") /\ (v0[t] = "idle" => w0[t] = "idle")
  BY DEF Lowers, WorkState, TypedTabs
<1> HIDE DEF v0, w0
<1>3. \A k \in DOMAIN op.under, n \in Nat : MovedBefore(op.under[k], n, tabs, v0) => MovedBefore(op.under[k], n, ts, w0)
  BY <1>1, <1>2, MovedOn
<1>4. FoundOut(op, op.index + 1, tabs, v0) /\ (op.name = "close" => op.asked = op.tab) BY DEF Waits, v0
<1>5. Ahead(op, tabs, v0) => Ahead(op, ts, w0) BY <1>1, <1>3 DEF Ahead
<1>6. Passed(op, op.index + 1, tabs, v0) => Passed(op, op.index + 1, ts, w0) BY <1>1, <1>3 DEF Passed
<1>7. FoundOut(op, op.index + 1, ts, w0) BY <1>4, <1>5, <1>6 DEF FoundOut
<1> QED BY <1>4, <1>7 DEF Waits, w0

LEMMA AllWaitOn ==
    ASSUME TypedTabs, NEW ts, Shifted(ts), NEW w, Lowers(w, ts), NEW ops \in Seq(Op), AllWait(ops, tabs, work),
           \A t \in Adds(ops) : t \notin ToSet(ts)
    PROVE  AllWait(ops, ts, w)
<1>1. \A i \in DOMAIN ops : ops[i] \in Op /\ (ops[i].name = "add" => ops[i].tab \in Adds(ops)) BY DEF Adds
<1>2. \A i \in DOMAIN ops : Waits(ops[i], ts, w) BY <1>1, WaitsOn DEF AllWait
<1> QED BY <1>2 DEF AllWait

LEMMA AddsAreNew ==
    ASSUME NEW ops \in Seq(Op), NEW ts, NEW w, AllWait(ops, ts, w) PROVE \A t \in Adds(ops) : t \notin ToSet(ts)
  BY DEF AllWait, Adds, Waits, FoundOut

\* The dialog on top is answered.
LEMMA OthersWait ==
    ASSUME NEW ops \in Seq(Op), ops # <<>>, NEW ts, NEW w, AllWait(ops, ts, w)
    PROVE  /\ Head(ops) \in Op /\ Tail(ops) \in Seq(Op) /\ Waits(Head(ops), ts, w) /\ AllWait(Tail(ops), ts, w)
           /\ Head(ops).name = "add" => Head(ops).tab \notin Adds(Tail(ops))
<1>1. /\ Len(ops) \in Nat /\ Len(ops) > 0 /\ Head(ops) = ops[1] /\ Tail(ops) \in Seq(Op)
      /\ DOMAIN ops = 1..Len(ops) /\ DOMAIN Tail(ops) = 1..(Len(ops) - 1)
      /\ \A i \in 1..(Len(ops) - 1) : Tail(ops)[i] = ops[i + 1]
  BY HeadTailProperties, EmptySeq
<1>2. 1 \in DOMAIN ops /\ \A i \in 1..(Len(ops) - 1) : i + 1 \in DOMAIN ops /\ i + 1 # 1 BY <1>1
<1>3. AllWait(Tail(ops), ts, w) BY <1>1, <1>2 DEF AllWait
<1>4. Head(ops).name = "add" => Head(ops).tab \notin Adds(Tail(ops)) BY <1>1, <1>2 DEF AllWait, Adds
<1> QED BY <1>1, <1>2, <1>3, <1>4 DEF AllWait

\* A dialog opens on top of the others.
LEMMA OneMoreWaits ==
    ASSUME NEW ops \in Seq(Op), NEW op \in Op, NEW ts, NEW w, AllWait(ops, ts, w), Waits(op, ts, w),
           op.name = "add" => op.tab \notin Adds(ops)
    PROVE  <<op>> \o ops \in Seq(Op) /\ AllWait(<<op>> \o ops, ts, w)
<1> DEFINE all == <<op>> \o ops
<1>1. /\ all \in Seq(Op) /\ Len(all) = 1 + Len(ops) /\ Len(ops) \in Nat
      /\ \A i \in 1..(1 + Len(ops)) : all[i] = IF i <= 1 THEN op ELSE ops[i - 1]
  BY ConcatProperties
<1> HIDE DEF all
<1>2. /\ DOMAIN all = 1..(1 + Len(ops)) /\ DOMAIN ops = 1..Len(ops)
      /\ all[1] = op /\ \A i \in 2..(1 + Len(ops)) : all[i] = ops[i - 1] /\ i - 1 \in DOMAIN ops
  BY <1>1
<1>3. \A i \in DOMAIN all : i = 1 \/ i \in 2..(1 + Len(ops)) BY <1>2, <1>1
<1>4. \A i \in DOMAIN all : Waits(all[i], ts, w) BY <1>2, <1>3 DEF AllWait
<1>5. ASSUME NEW i \in DOMAIN all, NEW j \in DOMAIN all, all[i].name = "add", all[j].name = "add", all[i].tab = all[j].tab
      PROVE  i = j
  <2>1. \A k \in 2..(1 + Len(ops)) : all[k].name = "add" => all[k].tab \in Adds(ops) BY <1>2 DEF Adds
  <2>2. CASE i = 1 BY <1>2, <1>3, <1>5, <2>1, <2>2
  <2>3. CASE j = 1 BY <1>2, <1>3, <1>5, <2>1, <2>3
  <2>4. CASE i # 1 /\ j # 1
    <3>1. i \in 2..(1 + Len(ops)) /\ j \in 2..(1 + Len(ops)) BY <1>3, <2>4
    <3>2. i - 1 = j - 1 BY <1>2, <1>5, <3>1 DEF AllWait
    <3> QED BY <3>1, <3>2
  <2> QED BY <2>2, <2>3, <2>4
<1> QED BY <1>1, <1>4, <1>5 DEF AllWait, all

-----------------------------------------------------------------------------
(* An operation asks, or finishes *)

\* Nobody that is asked about now has been asked about before.
LEMMA AsksWait ==
    ASSUME TypedTabs, TabsFit, NEW op \in Op, NEW w \in WorkState, FoundOut(op, op.index, tabs, w), NEW o \in Asks(op, w)
    PROVE  o \in Op /\ Waits(o, tabs, w) /\ o.name = op.name /\ o.tab = op.tab
<1>1. tabs \in Seq(Tab) /\ Len(tabs) \in Nat /\ DOMAIN tabs = 1..Len(tabs) /\ active \in Tab \cup {None}
  BY DEF TypedTabs
<1>2. CASE Loops(op)
  <2>1. PICK i \in op.index..Len(tabs) :
            /\ i \in Objectors(op, w) /\ \A j \in Objectors(op, w) : i <= j
            /\ o = [op EXCEPT !.index = i, !.asked = tabs[i]]
    BY <1>2 DEF Asks, Objectors
  <2>2. op.index \in Nat /\ op.index > 0 /\ i \in Nat /\ i \in DOMAIN tabs /\ tabs[i] \in Tab
    BY <1>1, <1>2, <2>1 DEF FoundOut, Op
  <2>3. /\ o \in Op /\ o.name = op.name /\ o.tab = op.tab /\ o.index = i /\ o.asked = tabs[i] /\ o.under = op.under
    BY <2>1, <2>2 DEF Op
  <2> DEFINE v == [w EXCEPT ![tabs[i]] = "idle"]
  <2>4. v \in WorkState /\ v[tabs[i]] = "idle" /\ \A t \in Tab : w[t] = "idle" => v[t] = "idle"
    BY <2>2 DEF WorkState
  <2> HIDE DEF v
  <2>5. /\ op.under \in Seq(Tab) /\ DOMAIN op.under \subseteq Nat /\ \A k \in DOMAIN op.under : op.under[k] \in Tab
    BY DEF Op
  <2>6. Ahead(o, tabs, v)
    BY <1>2, <2>3, <2>4, <2>5 DEF FoundOut, Ahead, MovedBefore
  <2>7. Passed(o, i + 1, tabs, v)
    <3> SUFFICES ASSUME NEW k \in DOMAIN op.under, k < i + 1
                 PROVE  op.under[k] = op.tab \/ MovedBefore(op.under[k], k, tabs, v)
      BY <2>3 DEF Passed
    <3>1. CASE k < op.index BY <1>2, <2>4, <2>5, <3>1 DEF FoundOut, Passed, MovedBefore
    <3>2. CASE k >= op.index /\ w[op.under[k]] = "idle" BY <2>4, <2>5, <3>2 DEF MovedBefore
    <3>3. CASE k >= op.index /\ w[op.under[k]] # "idle"
      <4>1. PICK j \in DOMAIN tabs : j < k + 1 /\ tabs[j] = op.under[k]
        BY <1>2, <3>3 DEF FoundOut, Ahead, MovedBefore
      <4>2. CASE j < k BY <4>1, <4>2 DEF MovedBefore
      <4>3. CASE j = k
        <5>1. CASE k = i BY <2>4, <4>1, <4>3, <5>1 DEF MovedBefore
        <5>2. CASE k < i
          <6>1. k \in op.index..Len(tabs) /\ k \notin Objectors(op, w)
            BY <1>1, <2>1, <2>2, <2>5, <3>3, <4>1, <4>3, <5>2
          <6> QED BY <3>3, <4>1, <4>3, <6>1 DEF Objectors
        <5> QED BY <2>2, <2>5, <5>1, <5>2
      <4> QED BY <1>1, <2>5, <4>1, <4>2, <4>3
    <3> QED BY <2>2, <2>5, <3>1, <3>2, <3>3
  <2>8. Loops(o) /\ i + 1 > 0 BY <1>2, <2>2, <2>3 DEF Loops
  <2>9. FoundOut(o, o.index + 1, tabs, v)
    BY <1>2, <2>3, <2>6, <2>7, <2>8 DEF FoundOut, Loops
  <2>10. Waits(o, tabs, w) BY <1>2, <2>3, <2>9 DEF Waits, Loops, v
  <2> QED BY <2>3, <2>10
<1>3. CASE ~Loops(op)
  <2>1. PICK t \in Tab : o = [op EXCEPT !.asked = t] /\ (op.name = "close" => t = op.tab)
    BY <1>1, <1>3 DEF Asks, Open, ToSet, FoundOut
  <2>2. /\ o \in Op /\ o.name = op.name /\ o.tab = op.tab /\ o.index = op.index /\ o.under = op.under
        /\ o.asked = t
    BY <2>1 DEF Op
  <2> QED BY <1>3, <2>1, <2>2 DEF Waits, FoundOut, Loops
<1> QED BY <1>2, <1>3

\* What an operation leaves of the tabs.
LEMMA OutcomeShifts ==
    ASSUME Assumed, TypedTabs, TabsFit, NEW op \in Op, NEW n, NEW w, FoundOut(op, n, tabs, w)
    PROVE  /\ Shifted(Outcome(op).tabs) /\ Outcome(op).active \in Tab \cup {None}
           /\ ToSet(Outcome(op).tabs) \subseteq IF op.name = "add" THEN Open \cup {op.tab} ELSE Open
<1>1. tabs \in Seq(Tab) /\ Len(tabs) \in Nat /\ DOMAIN tabs = 1..Len(tabs) /\ active \in Tab \cup {None}
  BY DEF TypedTabs
<1>2. CASE op.name = "add" BY <1>2, AddingShifts DEF FoundOut, Outcome, Open
<1>3. CASE op.name = "switch" BY <1>3, StandingIsShifted DEF FoundOut, Outcome, Open
<1>4. CASE op.name = "close"
  <2>1. op.index \in Nat /\ op.index >= 1
    <3>1. op.under \in Seq(Tab) /\ op.index \in DOMAIN op.under BY <1>4 DEF Op, FoundOut
    <3> QED BY <3>1
  <2> DEFINE left == IF op.index <= Len(tabs) THEN RemoveAt(tabs, op.index) ELSE tabs
  <2>2. Shifted(left) /\ ToSet(left) \subseteq Open
    <3>1. CASE op.index <= Len(tabs)
      <4>1. op.index \in DOMAIN tabs BY <1>1, <2>1, <3>1
      <4> QED BY <3>1, <4>1, ClosingShifts
    <3>2. CASE ~(op.index <= Len(tabs)) BY <3>2, StandingIsShifted DEF Open
    <3> QED BY <3>1, <3>2
  <2>3. \A i \in DOMAIN left : left[i] \in Tab BY <2>2 DEF Shifted
  <2>4. Outcome(op).tabs = left BY <1>4 DEF Outcome, CloseAt
  <2> DEFINE neighbour == IF op.index = 1 THEN 1 ELSE op.index - 1
  <2>5. Outcome(op).active \in {active, None} \/ (neighbour \in DOMAIN left /\ Outcome(op).active = left[neighbour])
    BY <1>4 DEF Outcome, CloseAt
  <2> HIDE DEF left, neighbour
  <2> QED BY <1>1, <1>4, <2>2, <2>3, <2>4, <2>5
<1>5. CASE op.name = "closeAll"
  <2>1. Outcome(op).tabs = <<>> /\ Outcome(op).active = None BY <1>5 DEF Outcome
  <2>2. Shifted(<<>>) /\ ToSet(<<>>) = {} BY DEF Shifted, IsInjective, ToSet
  <2> QED BY <2>1, <2>2
<1>6. CASE op.name = "closeOthers"
  <2>1. op.tab \in Tab /\ Outcome(op).active = op.tab BY <1>6 DEF FoundOut, Outcome
  <2>2. CASE op.tab \notin Open
    <3>1. Outcome(op).tabs = <<>> BY <1>6, <2>2 DEF Outcome
    <3>2. Shifted(<<>>) /\ ToSet(<<>>) = {} BY DEF Shifted, IsInjective, ToSet
    <3> QED BY <2>1, <3>1, <3>2
  <2>3. CASE op.tab \in Open
    <3>1. Outcome(op).tabs = <<op.tab>> BY <1>6, <2>3 DEF Outcome
    <3>2. <<op.tab>> \in Seq(Tab) /\ DOMAIN <<op.tab>> = {1} /\ ToSet(<<op.tab>>) = {op.tab} BY <2>1 DEF ToSet
    <3>3. \A j \in DOMAIN tabs : 1 <= j BY <1>1
    <3>4. Shifted(<<op.tab>>) BY <3>2, <3>3 DEF Shifted, IsInjective
    <3> QED BY <1>6, <2>1, <2>3, <3>1, <3>2, <3>4
  <2> QED BY <2>2, <2>3
<1> QED BY <1>2, <1>3, <1>4, <1>5, <1>6 DEF Op

\* The work as the agreement leaves it.
Settled(w) == w \in WorkState /\ \A t \in Tab : w[t] # "idle" => w[t] = work[t]

LEMMA FinishIsGood ==
    ASSUME Assumed, TypedTabs, TabsFit, NEW op \in Op, NEW n, NEW w, Settled(w), FoundOut(op, n, tabs, w),
           NEW below \in Seq(Op), AllWait(below, tabs, work), op.name = "add" => op.tab \notin Adds(below),
           Finish(op, w, below)
    PROVE  TypedTabs' /\ TabsFit' /\ AllWait(asking', tabs', work')
<1>1. /\ tabs' = Outcome(op).tabs /\ active' = Outcome(op).active /\ asking' = below
      /\ work' = [t \in Tab |-> IF t \in ToSet(Outcome(op).tabs) THEN w[t] ELSE "idle"]
  BY DEF Finish, RenderTabs
<1>2. Shifted(tabs') /\ active' \in Tab \cup {None}
  BY <1>1, OutcomeShifts
<1>3. work' \in WorkState BY <1>1 DEF Settled, WorkState
<1>4. Lowers(work', tabs') BY <1>1, <1>3 DEF Lowers, Settled, WorkState
<1>5. \A t \in Adds(below) : t \notin ToSet(tabs')
  <2>1. ToSet(tabs') \subseteq IF op.name = "add" THEN Open \cup {op.tab} ELSE Open BY <1>1, OutcomeShifts
  <2> QED BY <2>1, AddsAreNew DEF Open
<1>6. AllWait(below, tabs', work') BY <1>2, <1>4, <1>5, AllWaitOn
<1>7. TypedTabs' BY <1>1, <1>2, <1>3 DEF TypedTabs, Shifted, WorkState
<1>8. TabsFit' BY <1>2, <1>4 DEF TabsFit, Shifted, Lowers, Open
<1> QED BY <1>1, <1>6, <1>7, <1>8

LEMMA ProceedIsGood ==
    ASSUME Assumed, TypedTabs, TabsFit, NEW op \in Op, NEW w, Settled(w), FoundOut(op, op.index, tabs, w),
           NEW below \in Seq(Op), AllWait(below, tabs, work), op.name = "add" => op.tab \notin Adds(below),
           Proceed(op, w, below)
    PROVE  TypedTabs' /\ TabsFit' /\ AllWait(asking', tabs', work')
<1>1. CASE Finish(op, w, below) BY <1>1, FinishIsGood
<1>2. ASSUME NEW asks \in Asks(op, w), asking' = <<asks>> \o below, work' = w, UNCHANGED <<tabs, active, saved>>
      PROVE  TypedTabs' /\ TabsFit' /\ AllWait(asking', tabs', work')
  <2>1. w \in WorkState BY DEF Settled
  <2>2. asks \in Op /\ Waits(asks, tabs, w) /\ asks.name = op.name /\ asks.tab = op.tab BY <2>1, AsksWait
  <2>3. Shifted(tabs) /\ Lowers(w, tabs) BY StandingIsShifted DEF Settled, Lowers, TabsFit, Open
  <2>4. AllWait(below, tabs, w) BY <2>3, AddsAreNew, AllWaitOn
  <2>5. asking' \in Seq(Op) /\ AllWait(asking', tabs, w) BY <1>2, <2>2, <2>4, OneMoreWaits
  <2>6. TypedTabs' BY <1>2, <2>1, <2>5 DEF TypedTabs, WorkState
  <2>7. TabsFit' BY <1>2, <2>3 DEF TabsFit, Lowers, Open
  <2> QED BY <1>2, <2>5, <2>6, <2>7
<1> QED BY <1>1, <1>2 DEF Proceed

-----------------------------------------------------------------------------
(* The tabs that come back: induction by the least counterexample *)

LEMMA LeastNatural ==
    ASSUME NEW T \in SUBSET Nat, T # {} PROVE \E n \in T : \A m \in T : n <= m
<1> DEFINE U == {0..n : n \in T}
<1>1. U \subseteq FiniteSubsetsOf(Nat) /\ U # {}
  <2>1. \A n \in T : 0 \in Int /\ n \in Int /\ 0..n \in SUBSET Nat OBVIOUS
  <2>2. \A n \in T : IsFiniteSet(0..n) BY <2>1, FS_Interval
  <2> QED BY <2>1, <2>2 DEF FiniteSubsetsOf
<1>2. IsWellFoundedOn(StrictSubsetOrdering(Nat), FiniteSubsetsOf(Nat)) BY FS_StrictSubsetOrderingWellFounded
<1>3. \E x \in U : \A y \in U : ~(<<y, x>> \in StrictSubsetOrdering(Nat))
  <2> HIDE DEF U
  <2> QED BY <1>1, <1>2, WFMin
<1>4. PICK n \in T : \A m \in T : ~(<<0..m, 0..n>> \in StrictSubsetOrdering(Nat)) BY <1>3
<1>5. ASSUME NEW m \in T, m < n PROVE FALSE
  <2>1. 0..m \in SUBSET Nat /\ 0..n \in SUBSET Nat /\ 0..m \subseteq 0..n /\ n \in 0..n /\ n \notin 0..m
    BY <1>5
  <2> QED BY <1>4, <2>1 DEF StrictSubsetOrdering
<1> QED BY <1>4, <1>5

\* What the first n tabs leave of the session.
KeptOf(g, ts, i) ==
    IF i = 0 THEN <<>> ELSE IF ts[i] \in Ephemeral THEN g[i - 1] ELSE Append(g[i - 1], ts[i])

LEMMA KeptExists ==
    ASSUME NEW ts, NEW n \in Nat PROVE \E g : g = [i \in 0..n |-> KeptOf(g, ts, i)]
<1> DEFINE T == {m \in Nat : ~\E g : g = [i \in 0..m |-> KeptOf(g, ts, i)]}
<1>1. SUFFICES ASSUME T # {} PROVE FALSE OBVIOUS
<1>2. PICK m \in T : \A k \in T : m <= k BY <1>1, LeastNatural
<1>3. CASE m = 0
  <2> DEFINE g == [i \in 0..0 |-> <<>>]
  <2>1. g = [i \in 0..0 |-> KeptOf(g, ts, i)] BY DEF KeptOf
  <2> QED BY <1>2, <1>3, <2>1
<1>4. CASE m # 0
  <2>1. m - 1 \in Nat /\ m - 1 \notin T BY <1>2, <1>4
  <2>2. PICK g : g = [i \in 0..(m - 1) |-> KeptOf(g, ts, i)] BY <2>1
  <2> DEFINE h == [i \in 0..m |-> IF i < m THEN g[i] ELSE KeptOf(g, ts, m)]
  <2>3. ASSUME NEW i \in 0..m PROVE h[i] = KeptOf(h, ts, i)
    <3>1. i # 0 => i - 1 \in 0..m /\ i - 1 < m /\ h[i - 1] = g[i - 1] BY <1>2
    <3>2. KeptOf(h, ts, i) = KeptOf(g, ts, i) BY <3>1 DEF KeptOf
    <3>3. i < m => i \in 0..(m - 1) BY <1>2
    <3>4. i < m => g[i] = KeptOf(g, ts, i) BY <2>2, <3>3
    <3>5. i < m \/ i = m BY <1>2
    <3> QED BY <3>2, <3>4, <3>5
  <2>4. h = [i \in 0..m |-> KeptOf(h, ts, i)] BY <2>3
  <2> QED BY <1>2, <2>4
<1> QED BY <1>3, <1>4

\* The session names the tabs that come back, and no others.
LEMMA DescribableIs ==
    ASSUME NEW ts \in Seq(Tab)
    PROVE  Describable(ts) \in Seq(Tab) /\ ToSet(Describable(ts)) = ToSet(ts) \ Ephemeral
<1> DEFINE Kept == CHOOSE g : g = [i \in 0..Len(ts) |-> KeptOf(g, ts, i)]
<1>1. Len(ts) \in Nat /\ DOMAIN ts = 1..Len(ts) /\ \A i \in 1..Len(ts) : ts[i] \in Tab BY ElementOfSeq
<1>2. Describable(ts) = Kept[Len(ts)] BY DEF Describable, KeptOf
<1>3. Kept = [i \in 0..Len(ts) |-> KeptOf(Kept, ts, i)] BY <1>1, KeptExists
<1> HIDE DEF Kept
<1> DEFINE Fine(i) == Kept[i] \in Seq(Tab) /\ ToSet(Kept[i]) = {ts[j] : j \in 1..i} \ Ephemeral
           T == {i \in 0..Len(ts) : ~Fine(i)}
<1>4. T = {}
  <2>1. SUFFICES ASSUME T # {} PROVE FALSE OBVIOUS
  <2>2. T \in SUBSET Nat BY <1>1
  <2>3. PICK i \in T : \A k \in T : i <= k BY <2>1, <2>2, LeastNatural
  <2>4. i \in 0..Len(ts) /\ ~Fine(i) /\ Kept[i] = KeptOf(Kept, ts, i) BY <1>3, <2>3
  <2>5. CASE i = 0
    <3>1. Kept[i] = <<>> /\ 1..i = {} BY <2>4, <2>5 DEF KeptOf
    <3> QED BY <2>4, <3>1 DEF ToSet
  <2>6. CASE i # 0
    <3>1. i - 1 \in 0..Len(ts) /\ i - 1 \notin T /\ i \in 1..Len(ts)
      <4> HIDE DEF T
      <4>1. i - 1 \in 0..Len(ts) /\ i \in 1..Len(ts) /\ ~(i <= i - 1) BY <1>1, <2>4, <2>6
      <4> QED BY <2>3, <4>1
    <3>2. Fine(i - 1) /\ ts[i] \in Tab BY <1>1, <3>1
    <3>3. 1..i = 1..(i - 1) \cup {i} BY <1>1, <3>1
    <3>4. {ts[j] : j \in 1..i} = {ts[j] : j \in 1..(i - 1)} \cup {ts[i]} BY <3>3
    <3>5. CASE ts[i] \in Ephemeral
      <4>1. Kept[i] = Kept[i - 1] BY <2>4, <2>6, <3>5 DEF KeptOf
      <4> QED BY <2>4, <3>2, <3>4, <3>5, <4>1
    <3>6. CASE ts[i] \notin Ephemeral
      <4>1. Kept[i] = Append(Kept[i - 1], ts[i]) BY <2>4, <2>6, <3>6 DEF KeptOf
      <4>2. ToSet(Append(Kept[i - 1], ts[i])) = ToSet(Kept[i - 1]) \cup {ts[i]}
        <5> DEFINE s == Kept[i - 1]
        <5>1. s \in Seq(Tab) BY <3>2
        <5> HIDE DEF s
        <5>2. /\ Append(s, ts[i]) \in Seq(Tab) /\ Len(Append(s, ts[i])) = Len(s) + 1 /\ Len(s) \in Nat
              /\ \A j \in DOMAIN s : Append(s, ts[i])[j] = s[j]
              /\ Append(s, ts[i])[Len(s) + 1] = ts[i]
          BY <3>2, <5>1, AppendedAt
        <5>3. DOMAIN Append(s, ts[i]) = DOMAIN s \cup {Len(s) + 1} BY <5>1, <5>2
        <5>4. ToSet(Append(s, ts[i])) = ToSet(s) \cup {ts[i]} BY <5>2, <5>3 DEF ToSet
        <5> QED BY <5>4 DEF s
      <4>3. Kept[i] \in Seq(Tab) BY <3>2, <4>1, AppendedAt
      <4> QED BY <2>4, <3>2, <3>4, <3>6, <4>1, <4>2, <4>3
    <3> QED BY <3>5, <3>6
  <2> QED BY <2>5, <2>6
<1>5. Len(ts) \in 0..Len(ts) BY <1>1
<1>6. Fine(Len(ts)) BY <1>4, <1>5
<1>7. ToSet(ts) = {ts[j] : j \in 1..Len(ts)} BY <1>1 DEF ToSet
<1> QED BY <1>2, <1>6, <1>7

\* The session says which of them was in front.
LEMMA SavedIs ==
    ASSUME NEW ts \in Seq(Tab), NEW a
    PROVE  /\ SaveSession(ts, a) \in Session
           /\ a \in ToSet(ts) \ Ephemeral =>
                 /\ SaveSession(ts, a).active \in DOMAIN SaveSession(ts, a).tabs
                 /\ SaveSession(ts, a).tabs[SaveSession(ts, a).active] = a
<1> DEFINE kept == Describable(ts)
<1>1. kept \in Seq(Tab) /\ ToSet(kept) = ToSet(ts) \ Ephemeral BY DescribableIs
<1>2. SaveSession(ts, a) = [tabs |-> kept, active |-> IF a \in ToSet(kept) THEN Index(kept, a) ELSE 1]
  BY DEF SaveSession
<1> HIDE DEF kept
<1>3. a \in ToSet(kept) => Index(kept, a) \in DOMAIN kept /\ kept[Index(kept, a)] = a BY DEF Index, ToSet
<1>4. DOMAIN kept \subseteq Nat \ {0} BY <1>1
<1>5. (IF a \in ToSet(kept) THEN Index(kept, a) ELSE 1) \in Nat \ {0} BY <1>3, <1>4
<1> QED BY <1>1, <1>2, <1>3, <1>5 DEF Session

-----------------------------------------------------------------------------
(* Every step leaves the invariant standing *)

LEMMA NoneWait == <<>> \in Seq(Op) /\ \A ts, w : AllWait(<<>>, ts, w)
  BY DEF AllWait

LEMMA WorkIsSettled == TypedTabs => Settled(work)
  BY DEF TypedTabs, Settled, WorkState

LEMMA AgreeingSettles == ASSUME TypedTabs, NEW t PROVE Settled([work EXCEPT ![t] = "idle"])
  BY DEF TypedTabs, Settled, WorkState

\* An operation that begins finds the tabs as they are.
LEMMA BegunIsFound ==
    ASSUME TypedTabs, NEW name \in {"add", "switch", "close", "closeAll", "closeOthers"}, NEW t \in Tab \cup {None},
           IF name = "closeAll" THEN t = None ELSE t \in Tab, name \in {"switch", "close"} => t \in Open,
           name = "add" => t \notin Open
    PROVE  /\ Operation(name, t) \in Op /\ FoundOut(Operation(name, t), Operation(name, t).index, tabs, work)
           /\ Operation(name, t).name = name /\ Operation(name, t).tab = t /\ Operation(name, t).under = tabs
<1> DEFINE n == IF name = "close" THEN Index(tabs, t) ELSE 1
           op == Operation(name, t)
<1>1. tabs \in Seq(Tab) /\ DOMAIN tabs \subseteq Nat BY DEF TypedTabs
<1>2. name = "close" => n \in DOMAIN tabs /\ tabs[n] = t BY DEF Index, Open, ToSet
<1>3. n \in Nat BY <1>1, <1>2
<1>4. op = [name |-> name, tab |-> t, asked |-> None, under |-> tabs, index |-> n] BY DEF Operation
<1> HIDE DEF n, op
<1>5. op \in Op BY <1>1, <1>3, <1>4 DEF Op
<1>6. Ahead(op, tabs, work)
  <2>1. \A k \in DOMAIN tabs : k < k + 1 BY <1>1
  <2> QED BY <1>4, <2>1 DEF Ahead, MovedBefore
<1>7. Loops(op) => n = 1 /\ Passed(op, n, tabs, work)
  <2>1. Loops(op) => n = 1 BY <1>4 DEF n, Loops
  <2>2. \A k \in DOMAIN tabs : ~(k < 1) BY <1>1
  <2> QED BY <1>4, <2>1, <2>2 DEF Passed
<1>8. FoundOut(op, n, tabs, work) BY <1>2, <1>4, <1>6, <1>7 DEF FoundOut, Open, Loops
<1> QED BY <1>4, <1>5, <1>8 DEF op

LEMMA BeginningIsGood ==
    ASSUME Assumed, TabsHold, NEW name \in {"add", "switch", "close", "closeAll", "closeOthers"},
           NEW t \in Tab \cup {None}, IF name = "closeAll" THEN t = None ELSE t \in Tab,
           name \in {"switch", "close"} => t \in Open,
           name = "add" => t \notin Open \cup Pending, NEW below \in {<<>>, asking},
           Proceed(Operation(name, t), work, below) \/ Finish(Operation(name, t), work, below)
    PROVE  TabsHold'
<1> DEFINE op == Operation(name, t)
<1>1. op \in Op /\ FoundOut(op, op.index, tabs, work) /\ op.name = name /\ op.tab = t
  BY BegunIsFound DEF TabsHold
<1>2. Settled(work) BY WorkIsSettled DEF TabsHold
<1>3. below \in Seq(Op) /\ AllWait(below, tabs, work)
  BY NoneWait DEF TabsHold, TypedTabs
<1>4. op.name = "add" => op.tab \notin Adds(below)
  <2>1. \A u \in Adds(asking) : u \in Pending BY DEF Adds, Pending, ToSet
  <2>2. Adds(<<>>) = {} BY DEF Adds
  <2> QED BY <1>1, <2>1, <2>2
<1> HIDE DEF op
<1>5. CASE Proceed(op, work, below) BY <1>1, <1>2, <1>3, <1>4, <1>5, ProceedIsGood DEF TabsHold
<1>6. CASE Finish(op, work, below) BY <1>1, <1>2, <1>3, <1>4, <1>6, FinishIsGood DEF TabsHold
<1> QED BY <1>5, <1>6 DEF op

LEMMA StandingIsGood ==
    ASSUME TabsHold, UNCHANGED <<tabs, active, work>>, asking' \in {<<>>, asking} PROVE TabsHold'
<1>1. TypedTabs' BY NoneWait DEF TabsHold, TypedTabs
<1>2. TabsFit' BY DEF TabsHold, TabsFit, Open
<1>3. AllWait(asking', tabs, work) BY NoneWait DEF TabsHold
<1> QED BY <1>1, <1>2, <1>3 DEF TabsHold

LEMMA ShowIsGood ==
    ASSUME Assumed, TabsHold, NEW t \in Tab, NEW below \in {<<>>, asking}, Show(t, below) PROVE TabsHold'
<1>1. CASE t \notin Open \cup Pending /\ Proceed(Operation("add", t), work, below) BY <1>1, BeginningIsGood
<1>2. CASE t \in Open /\ Proceed(Operation("switch", t), work, below) BY <1>2, BeginningIsGood
<1>3. CASE asking' = below /\ UNCHANGED <<tabs, active, work, saved>> BY <1>3, StandingIsGood
<1> QED BY <1>1, <1>2, <1>3 DEF Show

LEMMA LoopGoesOn ==
    ASSUME NEW op \in Op
    PROVE  LET o == [op EXCEPT !.index = @ + 1]
           IN o \in Op /\ o.index = op.index + 1 /\ o.name = op.name /\ o.tab = op.tab /\ o.under = op.under
  BY DEF Op

LEMMA AgreeIsGood == ASSUME Assumed, TabsHold, Agree PROVE TabsHold'
<1> DEFINE op == Head(asking)
           w == [work EXCEPT ![op.asked] = "idle"]
<1>1. /\ op \in Op /\ Tail(asking) \in Seq(Op) /\ Waits(op, tabs, work) /\ AllWait(Tail(asking), tabs, work)
      /\ op.name = "add" => op.tab \notin Adds(Tail(asking))
  BY OthersWait DEF Agree, Free, TabsHold, TypedTabs
<1>2. Settled(w) BY AgreeingSettles DEF TabsHold
<1>3. CASE Loops(op) /\ Proceed([op EXCEPT !.index = @ + 1], w, Tail(asking))
  <2> DEFINE o == [op EXCEPT !.index = @ + 1]
  <2>1. o \in Op /\ o.index = op.index + 1 /\ o.name = op.name /\ o.tab = op.tab /\ o.under = op.under
    BY <1>1, LoopGoesOn
  <2>2. FoundOut(op, op.index + 1, tabs, w) BY <1>1 DEF Waits
  <2> HIDE DEF op, w, o
  <2>3. FoundOut(o, o.index, tabs, w) BY <1>3, <2>1, <2>2 DEF FoundOut, Loops, Ahead, Passed
  <2>4. Proceed(o, w, Tail(asking)) BY <1>3 DEF o
  <2> QED BY <1>1, <1>2, <2>1, <2>3, <2>4, ProceedIsGood DEF TabsHold
<1>4. CASE Finish(op, w, Tail(asking))
  <2>1. FoundOut(op, op.index + 1, tabs, w) BY <1>1 DEF Waits
  <2> HIDE DEF op, w
  <2> QED BY <1>1, <1>2, <1>4, <2>1, FinishIsGood DEF TabsHold
<1> QED BY <1>3, <1>4 DEF Agree

\* The tabs are drawn and the session is written, or nothing is.
Draws == saved' \in {saved, SaveSession(tabs', active')}

LEMMA ProceedDraws ==
    ASSUME NEW op, NEW w, NEW below, Proceed(op, w, below) \/ Finish(op, w, below) PROVE Draws
  BY DEF Proceed, Finish, RenderTabs, Draws

LEMMA ShowDraws == ASSUME NEW t, NEW below, Show(t, below) PROVE Draws
  BY ProceedDraws DEF Show, Draws

LEMMA DrawnIsTyped == TabsHold' /\ RestTyped /\ Draws => saved' \in Session
  BY SavedIs DEF TabsHold, TypedTabs, RestTyped, Draws

LEMMA PersonIsGood ==
    ASSUME IInv, (\E t \in Tab : OpenTab(t) \/ CloseTab(t) \/ CloseOtherTabs(t)) \/ CloseAllTabs \/ Agree
    PROVE  IInv'
<1>1. TabsHold' /\ Draws
  <2>1. ASSUME NEW t \in Tab, OpenTab(t) PROVE TabsHold' /\ Draws
    BY <2>1, ShowIsGood, ShowDraws DEF OpenTab, IInv
  <2>2. ASSUME NEW t \in Tab, CloseTab(t) PROVE TabsHold' /\ Draws
    BY <2>2, BeginningIsGood, ProceedDraws DEF CloseTab, IInv
  <2>3. ASSUME NEW t \in Tab, CloseOtherTabs(t) PROVE TabsHold' /\ Draws
    BY <2>3, BeginningIsGood, ProceedDraws DEF CloseOtherTabs, IInv
  <2>4. CASE CloseAllTabs BY <2>4, BeginningIsGood, ProceedDraws DEF CloseAllTabs, IInv
  <2>5. CASE Agree BY <2>5, AgreeIsGood, ProceedDraws DEF Agree, IInv
  <2> QED BY <2>1, <2>2, <2>3, <2>4, <2>5
<1>2. UNCHANGED <<answers, sent, restored, reading, reloads>>
  BY DEF OpenTab, CloseTab, CloseOtherTabs, CloseAllTabs, Agree
<1> QED BY <1>1, <1>2, DrawnIsTyped DEF IInv, RestTyped, Assumed

LEMMA WorkIsGood ==
    ASSUME IInv, (\E kind \in {"running", "unsaved"} : Work(kind)) \/ (\E t \in Tab : WorkEnds(t)) \/ Stay
    PROVE  IInv'
<1>1. TypedTabs /\ TabsFit /\ AllWait(asking, tabs, work) BY DEF IInv, TabsHold
<1>2. ASSUME NEW kind \in {"running", "unsaved"}, Work(kind) PROVE TabsHold'
  <2>1. /\ asking = <<>> /\ active \in Open /\ work' = [work EXCEPT ![active] = kind]
        /\ UNCHANGED <<tabs, active, asking>>
    BY <1>2 DEF Work, Free
  <2>2. active \in Tab BY <1>1, <2>1 DEF TypedTabs, Open, ToSet
  <2>3. TypedTabs' /\ TabsFit' BY <1>1, <2>1, <2>2 DEF TypedTabs, TabsFit, Open
  <2> QED BY <2>1, <2>3, NoneWait DEF TabsHold
<1>3. ASSUME NEW t \in Tab, WorkEnds(t) PROVE TabsHold'
  <2>1. work' = [work EXCEPT ![t] = "idle"] /\ UNCHANGED <<tabs, active, asking>> BY <1>3 DEF WorkEnds
  <2>2. Shifted(tabs) /\ Lowers(work', tabs)
    BY <1>1, <2>1, StandingIsShifted DEF Lowers, TypedTabs, WorkState, TabsFit, Open
  <2>3. AllWait(asking, tabs, work') BY <1>1, <2>2, AllWaitOn, AddsAreNew DEF TypedTabs
  <2>4. TypedTabs' /\ TabsFit' BY <1>1, <2>1, <2>2 DEF TypedTabs, TabsFit, Open, Lowers, WorkState
  <2> QED BY <2>1, <2>3, <2>4 DEF TabsHold
<1>4. ASSUME Stay PROVE TabsHold'
  <2>1. asking' = Tail(asking) /\ asking # <<>> /\ UNCHANGED <<tabs, active, work>> BY <1>4 DEF Stay, Free
  <2>2. asking' \in Seq(Op) /\ AllWait(asking', tabs, work) BY <1>1, <2>1, OthersWait DEF TypedTabs
  <2> QED BY <1>1, <2>1, <2>2 DEF TabsHold, TypedTabs, TabsFit, Open
<1>5. UNCHANGED <<answers, sent, restored, reading, saved, reloads>> BY DEF Work, WorkEnds, Stay
<1> QED BY <1>2, <1>3, <1>4, <1>5 DEF IInv, RestTyped, Assumed

LEMMA AnswersAreGood ==
    ASSUME IInv, (\E does \in {"open", "drop", "rename"}, t \in Tab : Send(does, t)) \/ (\E a \in answers : Answered(a))
    PROVE  IInv'
<1>1. ASSUME NEW does \in {"open", "drop", "rename"}, NEW t \in Tab, Send(does, t) PROVE IInv'
  <2>1. TabsHold' BY <1>1, StandingIsGood DEF Send, IInv
  <2> QED BY <1>1, <2>1 DEF Send, IInv, RestTyped, Assumed
<1>2. ASSUME NEW a \in answers, Answered(a) PROVE IInv'
  <2>1. a.tab \in Tab BY DEF IInv, RestTyped
  <2>2. ASSUME Show(a.tab, asking) PROVE TabsHold' /\ Draws BY <2>1, <2>2, ShowIsGood, ShowDraws DEF IInv
  <2>3. ASSUME a.tab \in Open,
               Proceed(Operation("close", a.tab), work, asking) \/ Finish(Operation("close", a.tab), work, asking)
        PROVE  TabsHold' /\ Draws
    BY <2>1, <2>3, BeginningIsGood, ProceedDraws DEF IInv
  <2>4. ASSUME UNCHANGED <<tabs, active, work, asking, saved>> PROVE TabsHold' /\ Draws
    BY <2>4, StandingIsGood DEF IInv, Draws
  <2>5. TabsHold' /\ Draws BY <1>2, <2>2, <2>3, <2>4 DEF Answered
  <2> QED BY <1>2, <2>5, DrawnIsTyped DEF Answered, IInv, RestTyped, Assumed
<1> QED BY <1>1, <1>2

LEMMA RestoringIsGood == ASSUME IInv, Reload \/ RestoreSession \/ RestoreTab \/ RestoreFront PROVE IInv'
<1>1. CASE Reload
  <2>1. TabsHold'
    <3>1. tabs' = <<>> /\ active' = None /\ asking' = <<>> /\ work' = [t \in Tab |-> "idle"] BY <1>1 DEF Reload
    <3> QED BY <3>1, NoneWait DEF TabsHold, TypedTabs, TabsFit, IsInjective, Open
  <2>2. saved' \in Session BY <1>1, SavedIs DEF Reload, IInv, TabsHold, TypedTabs, RestTyped
  <2>3. reloads' \in 0..MaxReloads BY <1>1 DEF Reload, IInv, RestTyped, Assumed
  <2>4. answers' = {} /\ restored' = FALSE /\ reading' = None /\ sent' = sent BY <1>1 DEF Reload
  <2> QED BY <2>1, <2>2, <2>3, <2>4 DEF IInv, RestTyped, Assumed
<1>2. CASE RestoreSession
  <2>1. TabsHold' BY <1>2, StandingIsGood DEF RestoreSession, IInv
  <2> QED BY <1>2, <2>1 DEF RestoreSession, IInv, RestTyped, Assumed
<1>3. CASE RestoreTab
  <2>1. reading \in Session /\ reading.tabs \in Seq(Tab) /\ reading.tabs # <<>> BY <1>3 DEF RestoreTab, IInv, RestTyped, Session
  <2>2. Head(reading.tabs) \in Tab /\ Tail(reading.tabs) \in Seq(Tab) BY <2>1, HeadTailProperties
  <2>3. reading' \in Session BY <1>3, <2>1, <2>2 DEF RestoreTab, Session
  <2>4. TabsHold' /\ Draws
    <3>1. CASE Show(Head(reading.tabs), asking) BY <2>2, <3>1, ShowIsGood, ShowDraws DEF IInv
    <3>2. CASE UNCHANGED <<tabs, active, work, asking, saved>> BY <3>2, StandingIsGood DEF IInv, Draws
    <3> QED BY <1>3, <3>1, <3>2 DEF RestoreTab
  <2> QED BY <1>3, <2>3, <2>4, DrawnIsTyped DEF RestoreTab, IInv, RestTyped, Assumed
<1>4. CASE RestoreFront
  <2>1. reading.active \in Nat \ {0} BY <1>4 DEF RestoreFront, IInv, RestTyped, Session
  <2>2. TabsHold' /\ Draws
    <3>1. CASE reading.active <= Len(tabs) /\ Show(tabs[reading.active], asking)
      <4>1. tabs[reading.active] \in Tab BY <2>1, <3>1 DEF IInv, TabsHold, TypedTabs
      <4> QED BY <3>1, <4>1, ShowIsGood, ShowDraws DEF IInv
    <3>2. CASE UNCHANGED <<tabs, active, work, asking, saved>> BY <3>2, StandingIsGood DEF IInv, Draws
    <3> QED BY <1>4, <3>1, <3>2 DEF RestoreFront
  <2> QED BY <1>4, <2>2, DrawnIsTyped DEF RestoreFront, IInv, RestTyped, Assumed
<1> QED BY <1>1, <1>2, <1>3, <1>4

LEMMA InitGood == Assumed /\ Init => IInv
<1> SUFFICES ASSUME Assumed, Init PROVE IInv OBVIOUS
<1>1. TabsHold
  <2>1. tabs = <<>> /\ active = None /\ asking = <<>> /\ work = [t \in Tab |-> "idle"] BY DEF Init
  <2> QED BY <2>1, NoneWait DEF TabsHold, TypedTabs, TabsFit, IsInjective, Open
<1>2. [tabs |-> <<>>, active |-> 1] \in Session BY DEF Session
<1>3. RestTyped
  <2>1. 0 \in 0..MaxAnswers /\ 0 \in 0..MaxReloads BY DEF Assumed
  <2>2. answers = {} /\ sent = 0 /\ restored = FALSE /\ reading = None /\ reloads = 0
        /\ saved = [tabs |-> <<>>, active |-> 1]
    BY DEF Init
  <2> QED BY <1>2, <2>1, <2>2 DEF RestTyped
<1> QED BY <1>1, <1>3 DEF IInv

LEMMA StepGood == IInv /\ [Next]_vars => IInv'
<1> SUFFICES ASSUME IInv, [Next]_vars PROVE IInv' OBVIOUS
<1>1. CASE Next
  BY <1>1, PersonIsGood, WorkIsGood, AnswersAreGood, RestoringIsGood DEF Next
<1>2. CASE UNCHANGED vars
  BY <1>2, StandingIsGood DEF vars, IInv, RestTyped, Assumed
<1> QED BY <1>1, <1>2

LEMMA IInvSuffices == IInv => TypeOK
  BY DEF IInv, TabsHold, TypedTabs, TabsFit, RestTyped, TypeOK

-----------------------------------------------------------------------------
(* Tabs close as agreed *)

LEMMA NobodyObjects ==
    ASSUME TypedTabs, NEW op \in Op, NEW w, Loops(op), op.index > 0, Asks(op, w) = {}
    PROVE  \A i \in DOMAIN tabs : i >= op.index => tabs[i] = op.tab \/ w[tabs[i]] = "idle"
<1>1. op.index \in Nat /\ tabs \in Seq(Tab) /\ DOMAIN tabs = 1..Len(tabs) /\ Len(tabs) \in Nat
  BY DEF Op, TypedTabs
<1>2. Objectors(op, w) \in SUBSET Nat BY <1>1 DEF Objectors
<1>3. Objectors(op, w) = {}
  <2>1. SUFFICES ASSUME Objectors(op, w) # {} PROVE FALSE OBVIOUS
  <2>2. PICK i \in Objectors(op, w) : \A j \in Objectors(op, w) : i <= j BY <1>2, <2>1, LeastNatural
  <2>3. [op EXCEPT !.index = i, !.asked = tabs[i]] \in Asks(op, w) BY <2>2 DEF Asks
  <2> QED BY <2>3
<1> QED BY <1>1, <1>3 DEF Objectors

\* An operation that finds the tabs as they were when it began.
LEMMA FinishAgrees ==
    ASSUME Assumed, TabsHold, NEW op \in Op, NEW n \in Nat, NEW w, NEW below, FoundOut(op, n, tabs, w),
           op.under = tabs, Finish(op, w, below),
           Loops(op) => \A i \in DOMAIN tabs : i >= n => tabs[i] = op.tab \/ w[tabs[i]] = "idle"
    PROVE  /\ \A t \in Open \ ToSet(tabs') : (op.name = "close" /\ t = op.tab) \/ (Loops(op) /\ w[t] = "idle")
           /\ active \in Open \/ Open = {} => tabs' = <<>> \/ active' \in ToSet(tabs')
<1>1. /\ tabs \in Seq(Tab) /\ Len(tabs) \in Nat /\ DOMAIN tabs = 1..Len(tabs) /\ IsInjective(tabs)
      /\ TypedTabs /\ TabsFit
  BY DEF TabsHold, TypedTabs, TabsFit
<1>2. tabs' = Outcome(op).tabs /\ active' = Outcome(op).active BY DEF Finish, RenderTabs
<1>3. CASE op.name = "add"
  <2>1. tabs' = Append(tabs, op.tab) /\ active' = op.tab BY <1>2, <1>3 DEF Outcome
  <2>2. ToSet(tabs') = Open \cup {op.tab} BY <1>1, <1>3, <2>1, AddingShifts DEF FoundOut, Open
  <2> QED BY <2>1, <2>2
<1>4. CASE op.name = "switch"
  <2>1. tabs' = tabs /\ active' = op.tab BY <1>2, <1>4 DEF Outcome
  <2> QED BY <1>4, <2>1 DEF FoundOut, Open
<1>5. CASE op.name = "close"
  <2>1. op.index \in DOMAIN tabs /\ tabs[op.index] = op.tab BY <1>5 DEF FoundOut
  <2> DEFINE left == RemoveAt(tabs, op.index)
             neighbour == IF op.index = 1 THEN 1 ELSE op.index - 1
  <2>2. /\ tabs' = left
        /\ active' = IF active # op.tab THEN active
                     ELSE IF left = <<>> THEN None
                     ELSE IF neighbour \in DOMAIN left THEN left[neighbour] ELSE active
    BY <1>1, <1>2, <1>5, <2>1 DEF Outcome, CloseAt
  <2>3. /\ \A t : t \in Open /\ t # op.tab => t \in ToSet(left)
        /\ left \in Seq(Tab) /\ Len(left) = Len(tabs) - 1
    BY <1>1, <2>1, ClosingShifts, RemovedAt
  <2>4. Open # {} BY <2>1 DEF Open, ToSet
  <2> HIDE DEF left
  <2>5. left # <<>> => neighbour \in DOMAIN left
    <3>1. op.index \in 1..Len(tabs) /\ DOMAIN left = 1..(Len(tabs) - 1) BY <1>1, <2>1, <2>3
    <3>2. left # <<>> => Len(left) > 0 BY <2>3, EmptySeq
    <3> QED BY <1>1, <2>3, <3>1, <3>2
  <2>6. active \in Open => left = <<>> \/ active' \in ToSet(left)
    <3>1. left # <<>> => left[neighbour] \in ToSet(left) BY <2>5 DEF ToSet
    <3> HIDE DEF neighbour
    <3> QED BY <2>2, <2>3, <2>5, <3>1
  <2> QED BY <1>5, <2>2, <2>3, <2>4, <2>6
<1>6. CASE Loops(op)
  <2>1. \A t \in Open \ ToSet(tabs') : t # op.tab
    <3>1. op.name = "closeAll" => op.tab \notin Open BY <1>1 DEF FoundOut, Assumed, Open, ToSet
    <3>2. op.name = "closeOthers" /\ op.tab \in Open => op.tab \in ToSet(tabs')
      <4>1. op.tab \in Open /\ op.name = "closeOthers" => tabs' = <<op.tab>> BY <1>2 DEF Outcome
      <4>2. op.tab \in ToSet(<<op.tab>>)
        <5>1. 1 \in DOMAIN <<op.tab>> /\ <<op.tab>>[1] = op.tab OBVIOUS
        <5> QED BY <5>1 DEF ToSet
      <4> QED BY <4>1, <4>2
    <3> QED BY <1>6, <3>1, <3>2 DEF Loops
  <2>2. ASSUME NEW t \in Open \ ToSet(tabs') PROVE w[t] = "idle"
    <3>1. PICK k \in DOMAIN tabs : tabs[k] = t BY DEF Open, ToSet
    <3>2. t # op.tab BY <2>1
    <3>3. CASE k >= n BY <1>6, <3>1, <3>2, <3>3
    <3>4. CASE k < n
      <4>1. MovedBefore(t, k, tabs, w) BY <1>6, <3>1, <3>2, <3>4 DEF FoundOut, Passed
      <4>2. \A j \in DOMAIN tabs : tabs[j] = t => j = k BY <1>1, <3>1 DEF IsInjective
      <4> QED BY <1>1, <4>1, <4>2 DEF MovedBefore
    <3> QED BY <1>1, <3>3, <3>4
  <2>3. tabs' = <<>> \/ active' \in ToSet(tabs')
    <3>1. op.name = "closeOthers" /\ op.tab \in Open => tabs' = <<op.tab>> /\ active' = op.tab BY <1>2 DEF Outcome
    <3>2. op.tab \in ToSet(<<op.tab>>)
      <4>1. 1 \in DOMAIN <<op.tab>> /\ <<op.tab>>[1] = op.tab OBVIOUS
      <4> QED BY <4>1 DEF ToSet
    <3>3. op.name = "closeAll" \/ op.tab \notin Open => tabs' = <<>> BY <1>2, <1>6 DEF Outcome, Loops
    <3> QED BY <1>6, <3>1, <3>2, <3>3 DEF Loops
  <2> QED BY <1>6, <2>2, <2>3
<1> QED BY <1>3, <1>4, <1>5, <1>6 DEF Op, Loops

\* A step that closes only tabs with nothing to lose, and leaves an open tab in front.
Quietly ==
    /\ \A t \in Open \ ToSet(tabs') : work[t] = "idle"
    /\ active \in Open \/ Open = {} => tabs' = <<>> \/ active' \in ToSet(tabs')

LEMMA QuietlyAgrees == Quietly => OnlyAgreedTabsClose /\ FrontStaysOpen
  BY DEF Quietly, OnlyAgreedTabsClose, FrontStaysOpen

LEMMA StandingIsQuiet == ASSUME TypedTabs, UNCHANGED <<tabs, active>> PROVE Quietly
<1>1. Open = {} => tabs = <<>>
  <2>1. tabs \in Seq(Tab) /\ (tabs # <<>> => Len(tabs) > 0) BY EmptySeq DEF TypedTabs
  <2>2. tabs # <<>> => 1 \in DOMAIN tabs BY <2>1
  <2> QED BY <2>2 DEF Open, ToSet
<1> QED BY <1>1 DEF Quietly, Open

LEMMA ProceedAgrees ==
    ASSUME Assumed, TabsHold, NEW op \in Op, NEW w, NEW below, FoundOut(op, op.index, tabs, w),
           op.under = tabs, Proceed(op, w, below)
    PROVE  /\ \A t \in Open \ ToSet(tabs') : w[t] = "idle"
           /\ active \in Open \/ Open = {} => tabs' = <<>> \/ active' \in ToSet(tabs')
<1>1. CASE UNCHANGED <<tabs, active>> BY <1>1, StandingIsQuiet DEF Quietly, Open, TabsHold
<1>2. CASE Asks(op, w) = {} /\ Finish(op, w, below)
  <2>1. op.index \in Nat BY DEF Op
  <2>2. Loops(op) => \A i \in DOMAIN tabs : i >= op.index => tabs[i] = op.tab \/ w[tabs[i]] = "idle"
    BY <1>2, NobodyObjects DEF FoundOut, TabsHold
  <2>3. op.name = "close" => w[op.tab] = "idle" BY <1>2 DEF Asks, Loops
  <2> QED BY <1>2, <2>1, <2>2, <2>3, FinishAgrees
<1> QED BY <1>1, <1>2 DEF Proceed

LEMMA BeginningIsQuiet ==
    ASSUME Assumed, TabsHold, NEW name \in {"add", "switch", "close", "closeAll", "closeOthers"},
           NEW t \in Tab \cup {None}, IF name = "closeAll" THEN t = None ELSE t \in Tab,
           name \in {"switch", "close"} => t \in Open, name = "add" => t \notin Open, NEW below,
           Proceed(Operation(name, t), work, below)
    PROVE  Quietly
<1> DEFINE op == Operation(name, t)
<1>1. op \in Op /\ FoundOut(op, op.index, tabs, work) /\ op.under = tabs BY BegunIsFound DEF TabsHold
<1> HIDE DEF op
<1>2. Proceed(op, work, below) BY DEF op
<1> QED BY <1>1, <1>2, ProceedAgrees DEF Quietly

LEMMA ShowIsQuiet == ASSUME Assumed, TabsHold, NEW t \in Tab, NEW below, Show(t, below) PROVE Quietly
<1>1. CASE t \notin Open \cup Pending /\ Proceed(Operation("add", t), work, below) BY <1>1, BeginningIsQuiet
<1>2. CASE t \in Open /\ Proceed(Operation("switch", t), work, below) BY <1>2, BeginningIsQuiet
<1>3. CASE UNCHANGED <<tabs, active, work, saved>> BY <1>3, StandingIsQuiet DEF TabsHold
<1> QED BY <1>1, <1>2, <1>3 DEF Show

LEMMA AgreeAgrees == ASSUME Assumed, TabsHold, Agree PROVE OnlyAgreedTabsClose /\ FrontStaysOpen
<1> DEFINE op == Head(asking)
           w == [work EXCEPT ![op.asked] = "idle"]
<1>1. op \in Op /\ Waits(op, tabs, work) /\ ~Free BY OthersWait DEF Agree, Free, TabsHold, TypedTabs
<1>2. CASE op.under # tabs BY <1>1, <1>2 DEF OnlyAgreedTabsClose, FrontStaysOpen
<1>3. CASE op.under = tabs
  <2>1. FoundOut(op, op.index + 1, tabs, w) /\ (op.name = "close" => op.asked = op.tab) BY <1>1 DEF Waits
  <2>2. \A t \in Open : w[t] = "idle" => work[t] = "idle" \/ op.asked = t
    BY DEF TabsHold, TypedTabs, Open, ToSet
  <2>3. /\ \A t \in Open \ ToSet(tabs') : w[t] = "idle" \/ op.asked = t
        /\ active \in Open \/ Open = {} => tabs' = <<>> \/ active' \in ToSet(tabs')
    <3>1. CASE Loops(op) /\ Proceed([op EXCEPT !.index = @ + 1], w, Tail(asking))
      <4> DEFINE o == [op EXCEPT !.index = @ + 1]
      <4>1. o \in Op /\ o.index = op.index + 1 /\ o.name = op.name /\ o.tab = op.tab /\ o.under = op.under
        BY <1>1, LoopGoesOn
      <4> HIDE DEF op, w, o
      <4>2. FoundOut(o, o.index, tabs, w) BY <2>1, <3>1, <4>1 DEF FoundOut, Loops, Ahead, Passed
      <4>3. Proceed(o, w, Tail(asking)) BY <3>1 DEF o
      <4> QED BY <1>3, <4>1, <4>2, <4>3, ProceedAgrees
    <3>2. CASE ~Loops(op) /\ Finish(op, w, Tail(asking))
      <4>1. op.index + 1 \in Nat BY <1>1 DEF Op
      <4> HIDE DEF op, w
      <4> QED BY <1>1, <1>3, <2>1, <3>2, <4>1, FinishAgrees
    <3> QED BY <3>1, <3>2 DEF Agree
  <2> QED BY <1>1, <2>2, <2>3 DEF OnlyAgreedTabsClose, FrontStaysOpen
<1> QED BY <1>2, <1>3

LEMMA AnsweredAgrees == ASSUME IInv, NEW a \in answers, Answered(a) PROVE OnlyAgreedTabsClose /\ FrontStaysOpen
<1>1. a.tab \in Tab /\ a = [does |-> a.does, tab |-> a.tab] /\ Assumed /\ TabsHold BY DEF IInv, RestTyped
<1>2. CASE Show(a.tab, asking) BY <1>1, <1>2, ShowIsQuiet, QuietlyAgrees
<1>3. CASE a.tab \in Open /\ Proceed(Operation("close", a.tab), work, asking)
  BY <1>1, <1>3, BeginningIsQuiet, QuietlyAgrees
<1>4. CASE a.does = "rename" /\ a.tab \in Open /\ Finish(Operation("close", a.tab), work, asking)
  <2> DEFINE op == Operation("close", a.tab)
  <2>1. /\ op \in Op /\ FoundOut(op, op.index, tabs, work) /\ op.under = tabs /\ op.name = "close" /\ op.tab = a.tab
        /\ op.index \in Nat
    BY <1>1, <1>4, BegunIsFound DEF TabsHold, Op
  <2> HIDE DEF op
  <2>2. Finish(op, work, asking) BY <1>4 DEF op
  <2>3. /\ \A t \in Open \ ToSet(tabs') : t = a.tab
        /\ active \in Open \/ Open = {} => tabs' = <<>> \/ active' \in ToSet(tabs')
    BY <1>1, <2>1, <2>2, FinishAgrees DEF Loops
  <2>4. a \in answers \ answers' BY DEF Answered
  <2>5. [does |-> "rename", tab |-> a.tab] \in answers \ answers' BY <1>1, <1>4, <2>4
  <2> QED BY <2>3, <2>5 DEF OnlyAgreedTabsClose, FrontStaysOpen
<1>5. CASE UNCHANGED <<tabs, active, work, asking, saved>> BY <1>1, <1>5, StandingIsQuiet, QuietlyAgrees DEF TabsHold
<1> QED BY <1>2, <1>3, <1>4, <1>5 DEF Answered

LEMMA RestoringAgrees ==
    ASSUME IInv, Reload \/ RestoreSession \/ RestoreTab \/ RestoreFront PROVE OnlyAgreedTabsClose /\ FrontStaysOpen
<1>1. CASE Reload
  <2>1. reloads' # reloads /\ tabs' = <<>> BY <1>1 DEF Reload, IInv, RestTyped, Assumed
  <2> QED BY <2>1 DEF OnlyAgreedTabsClose, FrontStaysOpen
<1>2. CASE RestoreSession
  BY <1>2, StandingIsQuiet, QuietlyAgrees DEF RestoreSession, IInv, TabsHold
<1>3. CASE RestoreTab
  <2>1. reading \in Session /\ reading.tabs \in Seq(Tab) /\ reading.tabs # <<>> BY <1>3 DEF RestoreTab, IInv, RestTyped, Session
  <2>2. Head(reading.tabs) \in Tab BY <2>1, HeadTailProperties
  <2>3. CASE Show(Head(reading.tabs), asking) BY <2>2, <2>3, ShowIsQuiet, QuietlyAgrees DEF IInv
  <2>4. CASE UNCHANGED <<tabs, active, work, asking, saved>>
    BY <2>4, StandingIsQuiet, QuietlyAgrees DEF IInv, TabsHold
  <2> QED BY <1>3, <2>3, <2>4 DEF RestoreTab
<1>4. CASE RestoreFront
  <2>1. reading.active \in Nat \ {0} BY <1>4 DEF RestoreFront, IInv, RestTyped, Session
  <2>2. CASE reading.active <= Len(tabs) /\ Show(tabs[reading.active], asking)
    <3>1. tabs[reading.active] \in Tab BY <2>1, <2>2 DEF IInv, TabsHold, TypedTabs
    <3> QED BY <2>2, <3>1, ShowIsQuiet, QuietlyAgrees DEF IInv
  <2>3. CASE UNCHANGED <<tabs, active, work, asking, saved>>
    BY <2>3, StandingIsQuiet, QuietlyAgrees DEF IInv, TabsHold
  <2> QED BY <1>4, <2>2, <2>3 DEF RestoreFront
<1> QED BY <1>1, <1>2, <1>3, <1>4

LEMMA ReloadComesBack == IInv /\ [Next]_vars => FrontComesBack
<1> SUFFICES ASSUME IInv, [Next]_vars, reloads' # reloads, restored, active \in Open \ Ephemeral
             PROVE  saved'.active \in DOMAIN saved'.tabs /\ saved'.tabs[saved'.active] = active
  BY DEF FrontComesBack
<1>1. Reload
  BY DEF Next, vars, OpenTab, CloseTab, CloseOtherTabs, WorkEnds, CloseAllTabs, Stay, Agree, Work, Send, Answered,
         RestoreSession, RestoreTab, RestoreFront
<1>2. saved' = SaveSession(tabs, active) BY <1>1 DEF Reload
<1>3. tabs \in Seq(Tab) BY DEF IInv, TabsHold, TypedTabs
<1> QED BY <1>2, <1>3, SavedIs DEF Open

LEMMA StepAgrees == IInv /\ [Next]_vars => OnlyAgreedTabsClose /\ FrontStaysOpen
<1> SUFFICES ASSUME IInv, [Next]_vars PROVE OnlyAgreedTabsClose /\ FrontStaysOpen OBVIOUS
<1>1. Assumed /\ TabsHold /\ TypedTabs BY DEF IInv, TabsHold
<1>2. ASSUME NEW t \in Tab, OpenTab(t) PROVE Quietly BY <1>1, <1>2, ShowIsQuiet DEF OpenTab
<1>3. ASSUME NEW t \in Tab, CloseTab(t) PROVE Quietly BY <1>1, <1>3, BeginningIsQuiet DEF CloseTab
<1>4. ASSUME NEW t \in Tab, CloseOtherTabs(t) PROVE Quietly BY <1>1, <1>4, BeginningIsQuiet DEF CloseOtherTabs
<1>5. CASE CloseAllTabs BY <1>1, <1>5, BeginningIsQuiet, QuietlyAgrees DEF CloseAllTabs
<1>6. ASSUME UNCHANGED <<tabs, active>> PROVE Quietly BY <1>1, <1>6, StandingIsQuiet
<1>7. ASSUME \/ \E t \in Tab : WorkEnds(t)
             \/ Stay \/ \E kind \in {"running", "unsaved"} : Work(kind)
             \/ \E does \in {"open", "drop", "rename"}, t \in Tab : Send(does, t)
             \/ UNCHANGED vars
      PROVE  Quietly
  BY <1>6, <1>7 DEF WorkEnds, Stay, Work, Send, vars
<1>8. CASE Agree BY <1>1, <1>8, AgreeAgrees
<1>9. CASE \E a \in answers : Answered(a) BY <1>9, AnsweredAgrees
<1>10. CASE Reload \/ RestoreSession \/ RestoreTab \/ RestoreFront BY <1>10, RestoringAgrees
<1> QED BY <1>2, <1>3, <1>4, <1>5, <1>7, <1>8, <1>9, <1>10, QuietlyAgrees DEF Next

LEMMA IInvHolds == Assumed /\ Spec => []IInv
<1>1. Assumed /\ Init => IInv BY InitGood
<1>2. IInv /\ [Next]_vars => IInv' BY StepGood
<1> QED BY <1>1, <1>2, PTL DEF Spec

-----------------------------------------------------------------------------
(* ---- The data tab ---- *)

Data == INSTANCE DataTab WITH
    active <- dataActive, sent <- dataSent

DataAssumed == {MaxChanges, MaxFilters, MaxEdits} \subseteq Nat

Reading == [generation : Nat, version : 0..Data!Nothing, at : {"sent", "served", "done", "failed"}]
Rendering(n) ==
    [view : Data!Views, at : {"structure", "request", "done", "dropped"}, read : 0..n, filters : 0..MaxFilters]

\* Below, g is a generation, re what was refreshed, c a cached structure, rs are reads,
\* p is a promise, and rn are renders of which a is active, b on screen, with filters f.
VersionsFit(sc, g, re, c) ==
    /\ sc \in 0..MaxChanges /\ re \in 0..sc /\ g \in Nat /\ c \in 0..Data!Nothing
    /\ c # Data!Nothing => c >= re

\* What was read for the generation of now was served after the refresh.
ReadsFit(rs, g, re) ==
    /\ rs \in Seq(Reading)
    /\ \A r \in DOMAIN rs : /\ rs[r].generation <= g
                            /\ rs[r].at = "served" /\ rs[r].generation = g => rs[r].version >= re

PromiseFits(p, rs) ==
    /\ p \in [read : 0..Len(rs), generation : Nat]
    /\ p.read # 0 => rs[p.read].at # "failed"

\* The data on screen are of the newest load that was not left waiting.
Newest(rn, a, b, f) ==
    b.render # 0 /\ rn[b.render].view = "Data" =>
       /\ \A n \in DOMAIN rn : n > b.render /\ rn[n].view = "Data" => rn[n].at \in {"structure", "dropped"}
       /\ a = 0 => rn[b.render].filters = f

\* The active load is the newest, and has asked with the filters of now.
ActiveFits(rn, a, f) ==
    a # 0 => /\ rn[a].view = "Data" /\ (rn[a].at = "request" => rn[a].filters = f)
             /\ \A n \in DOMAIN rn : n > a => rn[n].view # "Data"

ScreenFits(rn, a, b, f) ==
    /\ a \in 0..Len(rn) /\ b \in [render : 0..Len(rn), loading : BOOLEAN] /\ f \in 0..MaxFilters
    /\ ActiveFits(rn, a, f) /\ Newest(rn, a, b, f)

EditTyped ==
    /\ editor \in [on : BOOLEAN, text : 0..MaxEdits, applied : 0..MaxEdits, unsaved : BOOLEAN, guarded : BOOLEAN]
    /\ dataSent \in [text : 0..MaxEdits, own : BOOLEAN] \cup {Data!NotSent}

DataRestTyped ==
    /\ object \in {"table", "view"} /\ view \in Data!Views /\ ddl \in {"none", "sent", "done"}
    /\ definition \in 0..MaxEdits /\ dialog \in Data!Views \cup {"none", "close", "closed"}

Metadata ==
    VersionsFit(schema, generation, refreshed, cache) /\ ReadsFit(reads, generation, refreshed) /\ PromiseFits(promise, reads)
Screen == renders \in Seq(Rendering(Len(reads))) /\ ScreenFits(renders, dataActive, body, filters)

DataInv == DataAssumed /\ Metadata /\ Screen /\ EditTyped /\ DataRestTyped

-----------------------------------------------------------------------------
(* The last of the loads *)

LEMMA Greatest ==
    ASSUME NEW N \in Nat, NEW T \in SUBSET (1..N), T # {} PROVE \E n \in T : \A m \in T : m <= n
<1> DEFINE U == {n..N : n \in T}
<1>1. U \subseteq FiniteSubsetsOf(Nat) /\ U # {}
  <2>1. \A n \in T : N \in Int /\ n \in Int /\ n..N \in SUBSET Nat OBVIOUS
  <2>2. \A n \in T : IsFiniteSet(n..N) BY <2>1, FS_Interval
  <2> QED BY <2>1, <2>2 DEF FiniteSubsetsOf
<1>2. IsWellFoundedOn(StrictSubsetOrdering(Nat), FiniteSubsetsOf(Nat)) BY FS_StrictSubsetOrderingWellFounded
<1>3. \E x \in U : \A y \in U : ~(<<y, x>> \in StrictSubsetOrdering(Nat))
  <2> HIDE DEF U
  <2> QED BY <1>1, <1>2, WFMin
<1>4. PICK n \in T : \A m \in T : ~(<<m..N, n..N>> \in StrictSubsetOrdering(Nat)) BY <1>3
<1>5. ASSUME NEW m \in T, m > n PROVE FALSE
  <2>1. m..N \in SUBSET Nat /\ n..N \in SUBSET Nat /\ m..N \subseteq n..N /\ n \in n..N /\ n \notin m..N
    BY <1>5
  <2> QED BY <1>4, <2>1 DEF StrictSubsetOrdering
<1>6. \A m \in T : m <= n BY <1>5
<1> QED BY <1>6

-----------------------------------------------------------------------------
(* Reads *)

LEMMA ReadOfTyped ==
    ASSUME DataAssumed, NEW g \in Nat, NEW c \in 0..Data!Nothing
    PROVE  Data!ReadOf(g, c) \in Reading /\ Data!ReadOf(g, c).generation = g /\ Data!ReadOf(g, c).at \in {"sent", "done"}
  BY DEF DataAssumed, Data!Nothing, Data!ReadOf, Reading

\* A read is added, or shared.
LEMMA EnsuredFits ==
    ASSUME DataAssumed, NEW g \in Nat, NEW c \in 0..Data!Nothing, NEW re, ReadsFit(reads, g, re), PromiseFits(promise, reads)
    PROVE  LET new == Data!Ensured(g, c)
           IN /\ ReadsFit(new.reads, g, re) /\ PromiseFits(new.promise, new.reads)
              /\ Len(new.reads) \in Nat /\ Len(reads) <= Len(new.reads) /\ new.promise.read \in 0..Len(new.reads)
<1> DEFINE new == Data!Ensured(g, c)
<1>1. reads \in Seq(Reading) /\ Len(reads) \in Nat BY DEF ReadsFit
<1>2. promise \in [read : 0..Len(reads), generation : Nat] BY DEF PromiseFits
<1>3. CASE promise.read # 0 /\ promise.generation = g
  <2>1. new.reads = reads /\ new.promise = promise BY <1>3 DEF Data!Ensured
  <2> QED BY <1>1, <1>2, <2>1
<1>4. CASE ~(promise.read # 0 /\ promise.generation = g)
  <2> DEFINE x == Data!ReadOf(g, c)
  <2>1. new.reads = Append(reads, x) /\ new.promise = [read |-> Len(reads) + 1, generation |-> g]
    BY <1>4 DEF Data!Ensured
  <2>2. x \in Reading /\ x.generation = g /\ x.at \in {"sent", "done"} BY ReadOfTyped
  <2> HIDE DEF x, new
  <2>3. /\ Append(reads, x) \in Seq(Reading) /\ Len(Append(reads, x)) = Len(reads) + 1
        /\ \A r \in 1..Len(reads) : Append(reads, x)[r] = reads[r]
        /\ Append(reads, x)[Len(reads) + 1] = x
    BY <1>1, <2>2, AppendProperties
  <2>4. \A r \in DOMAIN Append(reads, x) : r \in DOMAIN reads \/ r = Len(reads) + 1 BY <1>1, <2>3
  <2>5. ReadsFit(Append(reads, x), g, re) BY <1>1, <2>2, <2>3, <2>4 DEF ReadsFit
  <2>6. PromiseFits(new.promise, Append(reads, x)) BY <1>1, <2>1, <2>2, <2>3 DEF PromiseFits
  <2>7. /\ ReadsFit(new.reads, g, re) /\ PromiseFits(new.promise, new.reads)
        /\ Len(new.reads) \in Nat /\ Len(reads) <= Len(new.reads) /\ new.promise.read \in 0..Len(new.reads)
    BY <1>1, <2>1, <2>3, <2>5, <2>6
  <2> QED BY <2>7 DEF new
<1> QED BY <1>3, <1>4

\* A refresh leaves every read behind.
LEMMA LeftBehind ==
    ASSUME NEW rs, NEW g \in Nat, NEW re, NEW now, ReadsFit(rs, g, re) PROVE ReadsFit(rs, g + 1, now)
<1>1. \A x \in Reading : x.generation \in Nat BY DEF Reading
<1>2. \A r \in DOMAIN rs : rs[r] \in Reading BY DEF ReadsFit
<1>3. \A r \in DOMAIN rs : rs[r].generation <= g + 1 /\ rs[r].generation # g + 1
  <2> TAKE r \in DOMAIN rs
  <2>1. rs[r].generation \in Nat /\ rs[r].generation <= g BY <1>1, <1>2 DEF ReadsFit
  <2> QED BY <2>1
<1> QED BY <1>3 DEF ReadsFit

-----------------------------------------------------------------------------
(* Renders *)

LEMMA MoreReads ==
    ASSUME NEW n \in Nat, NEW m \in Nat, n <= m PROVE Seq(Rendering(n)) \subseteq Seq(Rendering(m))
<1>1. \A x \in Rendering(n) : x \in Rendering(m) BY DEF Rendering
<1> QED BY <1>1

\* Another render is added: one of the data is the active one, waiting or on screen;
\* another view takes the screen, and there is no active one.
LEMMA Rendered ==
    ASSUME NEW n \in Nat, renders \in Seq(Rendering(n)), ScreenFits(renders, dataActive, body, filters),
           NEW x \in Rendering(n), NEW b, NEW a,
           a = IF x.view = "Data" THEN Data!Number ELSE 0,
           \/ b \in [render : {Data!Number}, loading : BOOLEAN]
           \/ b = body /\ x.view = "Data" /\ x.at = "structure"
    PROVE  /\ Append(renders, x) \in Seq(Rendering(n)) /\ Len(Append(renders, x)) = Data!Number
           /\ ScreenFits(Append(renders, x), a, b, x.filters)
<1> DEFINE new == Append(renders, x)
<1>1. Len(renders) \in Nat /\ Data!Number = Len(renders) + 1 /\ DOMAIN renders = 1..Len(renders) BY DEF Data!Number
<1>2. /\ new \in Seq(Rendering(n)) /\ Len(new) = Data!Number /\ new[Data!Number] = x /\ DOMAIN new = 1..Data!Number
      /\ \A i \in DOMAIN renders : new[i] = renders[i]
  BY <1>1, AppendProperties
<1> HIDE DEF new
<1>3. x.filters \in 0..MaxFilters /\ x.view \in Data!Views BY DEF Rendering
<1>4. body.render \in 0..Len(renders) /\ body \in [render : 0..Data!Number, loading : BOOLEAN] BY <1>1 DEF ScreenFits
<1>5. a \in 0..Len(new) /\ b \in [render : 0..Len(new), loading : BOOLEAN] BY <1>1, <1>2, <1>4
<1>6. \A i \in DOMAIN new : i \in DOMAIN renders \/ i = Data!Number BY <1>1, <1>2
<1>7. ActiveFits(new, a, x.filters) BY <1>1, <1>2 DEF ActiveFits
<1>8. Newest(new, a, b, x.filters)
  <2>1. CASE b \in [render : {Data!Number}, loading : BOOLEAN]
    <3>1. b.render = Data!Number /\ \A i \in DOMAIN new : ~(i > Data!Number) BY <1>1, <1>2, <2>1
    <3>2. a = 0 => new[b.render].view # "Data" BY <1>1, <1>2, <3>1
    <3> QED BY <3>1, <3>2 DEF Newest
  <2>2. CASE b = body /\ x.view = "Data" /\ x.at = "structure"
    <3>1. a # 0 BY <1>1, <2>2
    <3>2. body.render # 0 => new[body.render] = renders[body.render] BY <1>1, <1>2, <1>4
    <3> QED BY <1>2, <1>6, <2>2, <3>1, <3>2 DEF Newest, ScreenFits
  <2> QED BY <2>1, <2>2
<1> QED BY <1>2, <1>3, <1>5, <1>7, <1>8 DEF new, ScreenFits

\* A view is rendered, for the generation and with the cache there will be.
LEMMA RenderFits ==
    ASSUME DataAssumed, NEW g \in Nat, NEW c \in 0..Data!Nothing, NEW re, ReadsFit(reads, g, re), PromiseFits(promise, reads),
           Screen, NEW v \in Data!Views, NEW f \in 0..MaxFilters, Data!Render(v, f, g, c)
    PROVE  /\ ReadsFit(reads', g, re) /\ PromiseFits(promise', reads')
           /\ renders' \in Seq(Rendering(Len(reads'))) /\ ScreenFits(renders', dataActive', body', f)
<1>1. Len(reads) \in Nat /\ renders \in Seq(Rendering(Len(reads))) /\ ScreenFits(renders, dataActive, body, filters)
  BY DEF ReadsFit, Screen
<1>2. dataActive' = IF v = "Data" THEN Data!Number ELSE 0 BY DEF Data!Render
<1>3. CASE Data!Await(v, f, g, c)
  <2> DEFINE new == Data!Ensured(g, c)
             ready == new.reads[new.promise.read].at = "done"
             x == Data!Fresh(v, IF ~ready THEN "structure" ELSE IF v = "Data" THEN "request" ELSE "done", new.promise.read, f)
  <2>2. /\ ReadsFit(new.reads, g, re) /\ PromiseFits(new.promise, new.reads)
        /\ Len(new.reads) \in Nat /\ Len(reads) <= Len(new.reads) /\ new.promise.read \in 0..Len(new.reads)
    BY EnsuredFits
  <2>3. /\ reads' = new.reads /\ promise' = new.promise /\ renders' = Append(renders, x)
        /\ body' = IF ~ready /\ v = "Data" THEN body ELSE [render |-> Data!Number, loading |-> ~ready]
    BY <1>3 DEF Data!Await
  <2>4. x \in Rendering(Len(new.reads)) /\ x.view = v /\ x.filters = f BY <2>2 DEF Data!Fresh, Rendering
  <2>5. (~ready /\ v = "Data" => x.at = "structure") /\ (~ready) \in BOOLEAN BY DEF Data!Fresh
  <2> HIDE DEF new, ready, x
  <2>6. renders \in Seq(Rendering(Len(new.reads))) BY <1>1, <2>2, MoreReads
  <2>7. body' \in [render : {Data!Number}, loading : BOOLEAN] \/ (body' = body /\ x.view = "Data" /\ x.at = "structure")
    BY <2>3, <2>4, <2>5
  <2>8. renders' \in Seq(Rendering(Len(new.reads))) /\ ScreenFits(renders', dataActive', body', f)
    BY <1>1, <1>2, <2>2, <2>3, <2>4, <2>6, <2>7, Rendered
  <2> QED BY <2>2, <2>3, <2>8
<1>4. CASE Data!AtOnce(v, f)
  <2> DEFINE x == Data!Fresh(v, "request", 0, f)
  <2>1. /\ renders' = Append(renders, x) /\ body' = [render |-> Data!Number, loading |-> v # "Data"]
        /\ reads' = reads /\ promise' = promise
    BY <1>4 DEF Data!AtOnce
  <2>2. x \in Rendering(Len(reads)) /\ x.view = v /\ x.filters = f BY <1>1 DEF Data!Fresh, Rendering
  <2>3. body' \in [render : {Data!Number}, loading : BOOLEAN] BY <2>1
  <2> HIDE DEF x
  <2> QED BY <1>1, <1>2, <2>1, <2>2, <2>3, Rendered
<1> QED BY <1>3, <1>4 DEF Data!Render
\* What the end of a read sets going: of the data, the active load.
LEMMA GoOnFits ==
    ASSUME Screen, NEW r, NEW n \in Nat, Len(reads) <= n, Len(reads) \in Nat, Data!GoOn(r, Data!Continuing(r)),
           UNCHANGED <<dataActive, filters>>
    PROVE  renders' \in Seq(Rendering(n)) /\ ScreenFits(renders', dataActive', body', filters')
<1> DEFINE goOn == Data!Continuing(r)
<1>1. /\ renders \in Seq(Rendering(n)) /\ ScreenFits(renders, dataActive, body, filters)
      /\ Len(renders) \in Nat /\ DOMAIN renders = 1..Len(renders)
  BY MoreReads DEF Screen
<1>2. /\ goOn \subseteq 1..Len(renders)
      /\ \A m \in goOn : renders[m].at = "structure" /\ renders[m].read = r /\ (renders[m].view = "Data" => dataActive = m)
  BY <1>1 DEF Data!Continuing
<1> HIDE DEF goOn
<1>3. /\ renders' = [m \in DOMAIN renders |->
            IF renders[m].at # "structure" \/ renders[m].read # r THEN renders[m]
            ELSE IF m \in goOn /\ renders[m].view = "Data"
                 THEN [renders[m] EXCEPT !.at = "request", !.filters = filters]
            ELSE [renders[m] EXCEPT !.at = IF m \in goOn THEN "done" ELSE "dropped"]]
      /\ body' = IF goOn = {} THEN body
                 ELSE [render |-> CHOOSE m \in goOn : \A k \in goOn : k <= m, loading |-> FALSE]
  BY DEF Data!GoOn, goOn
<1>4. filters \in 0..MaxFilters BY <1>1 DEF ScreenFits
<1>5. ASSUME NEW m \in DOMAIN renders
      PROVE  /\ renders'[m] \in Rendering(n) /\ renders'[m].view = renders[m].view
             /\ renders'[m] = renders[m] \/ renders[m].at = "structure"
             /\ m \notin goOn => renders'[m] = renders[m] \/ renders'[m].at = "dropped"
             /\ renders'[m] # renders[m] /\ renders'[m].at = "request" => renders'[m].filters = filters
  <2>1. renders[m] \in Rendering(n) BY <1>1
  <2>2. CASE renders'[m] = renders[m] BY <2>1, <2>2
  <2>3. CASE /\ m \in goOn /\ renders[m].view = "Data" /\ renders[m].at = "structure"
             /\ renders'[m] = [renders[m] EXCEPT !.at = "request", !.filters = filters]
    BY <1>4, <2>1, <2>3 DEF Rendering
  <2>4. CASE /\ renders[m].at = "structure"
             /\ renders'[m] = [renders[m] EXCEPT !.at = IF m \in goOn THEN "done" ELSE "dropped"]
    BY <2>1, <2>4 DEF Rendering
  <2> QED BY <1>3, <2>2, <2>3, <2>4
<1>6. /\ renders' \in Seq(Rendering(n)) /\ Len(renders') = Len(renders) /\ DOMAIN renders' = DOMAIN renders
  <2>1. renders' \in [1..Len(renders) -> Rendering(n)] BY <1>1, <1>3, <1>5
  <2> QED BY <1>1, <2>1, SeqDef
<1>7. /\ body' = body \/ (body'.render \in goOn /\ body' \in [render : 0..Len(renders), loading : BOOLEAN])
      /\ goOn # {} => body'.render \in goOn
  <2>1. CASE goOn = {} BY <1>3, <2>1
  <2>2. CASE goOn # {}
    <3> DEFINE last == CHOOSE m \in goOn : \A k \in goOn : k <= m
    <3>1. \E m \in goOn : \A k \in goOn : k <= m BY <1>1, <1>2, <2>2, Greatest
    <3>2. last \in goOn BY <3>1
    <3>3. body' = [render |-> last, loading |-> FALSE] BY <1>3, <2>2
    <3> HIDE DEF last
    <3>4. last \in 0..Len(renders) BY <1>1, <1>2, <3>2
    <3> QED BY <2>2, <3>2, <3>3, <3>4
  <2> QED BY <2>1, <2>2
<1>8. dataActive \in 0..Len(renders) /\ ActiveFits(renders', dataActive, filters)
  <2>1. dataActive \in 0..Len(renders) /\ ActiveFits(renders, dataActive, filters) BY <1>1 DEF ScreenFits
  <2>2. dataActive # 0 => dataActive \in DOMAIN renders BY <1>1, <2>1
  <2>3. dataActive # 0 /\ renders'[dataActive].at = "request" => renders'[dataActive].filters = filters
    BY <1>5, <2>1, <2>2 DEF ActiveFits
  <2>4. dataActive # 0 => renders'[dataActive].view = "Data" /\ \A m \in DOMAIN renders' : m > dataActive => renders'[m].view # "Data"
    BY <1>5, <1>6, <2>1, <2>2 DEF ActiveFits
  <2> QED BY <2>1, <2>3, <2>4 DEF ActiveFits
<1>9. Newest(renders', dataActive, body', filters)
  <2>1. CASE goOn = {}
    <3>1. body' = body BY <1>3, <2>1
    <3>2. Newest(renders, dataActive, body, filters) /\ body.render \in 0..Len(renders) BY <1>1 DEF ScreenFits
    <3>3. \A m \in DOMAIN renders : /\ renders'[m].view = renders[m].view
                                    /\ renders'[m] = renders[m] \/ (renders[m].at = "structure" /\ renders'[m].at = "dropped")
      BY <1>5, <2>1
    <3>4. \A m \in DOMAIN renders : m > body.render /\ renders'[m].view = "Data" /\ body.render # 0
                                    /\ renders[body.render].view = "Data" => renders'[m].at \in {"structure", "dropped"}
      BY <3>2, <3>3 DEF Newest
    <3>5. body.render # 0 => body.render \in DOMAIN renders BY <1>1, <3>2
    <3>6. ASSUME dataActive = 0, body.render # 0, renders'[body.render].view = "Data" PROVE renders'[body.render].filters = filters
      <4>1. body.render \in DOMAIN renders /\ renders[body.render].filters = filters /\ renders[body.render].view = "Data"
        BY <3>2, <3>3, <3>5, <3>6 DEF Newest
      <4>2. CASE renders'[body.render] = renders[body.render] BY <4>1, <4>2
      <4>3. CASE renders[body.render].at = "structure"
        <5>1. renders'[body.render] = [renders[body.render] EXCEPT !.at = "dropped"] \/ renders'[body.render] = renders[body.render]
          BY <1>3, <2>1, <4>1
        <5>2. renders[body.render] \in Rendering(n) BY <1>1, <4>1
        <5>3. renders'[body.render].filters = renders[body.render].filters BY <5>1, <5>2 DEF Rendering
        <5> QED BY <4>1, <5>3
      <4> QED BY <3>3, <4>1, <4>2, <4>3
    <3> QED BY <1>6, <3>1, <3>3, <3>4, <3>5, <3>6 DEF Newest
  <2>2. CASE goOn # {}
    <3>1. body'.render \in goOn /\ body'.render \in DOMAIN renders BY <1>1, <1>2, <1>7, <2>2
    <3>2. renders'[body'.render].view = "Data" => body'.render = dataActive BY <1>2, <1>5, <3>1
    <3>3. dataActive # 0 => \A m \in DOMAIN renders' : m > dataActive => renders'[m].view # "Data" BY <1>8 DEF ActiveFits
    <3> QED BY <3>2, <3>3 DEF Newest
  <2> QED BY <2>1, <2>2
<1>10. body' \in [render : 0..Len(renders), loading : BOOLEAN] BY <1>1, <1>7 DEF ScreenFits
<1> QED BY <1>4, <1>6, <1>8, <1>9, <1>10 DEF ScreenFits

-----------------------------------------------------------------------------
(* Every step leaves the invariant standing *)

Editing == [on : BOOLEAN, text : 0..MaxEdits, applied : 0..MaxEdits, unsaved : BOOLEAN, guarded : BOOLEAN]

LEMMA EditorsTyped ==
    ASSUME DataAssumed
    PROVE  /\ Data!NoEditor \in Editing
           /\ \A d \in 0..MaxEdits :
                 [Data!NoEditor EXCEPT !.on = TRUE, !.text = d, !.applied = d, !.guarded = TRUE] \in Editing
           /\ \A s \in [text : 0..MaxEdits, own : BOOLEAN] \cup {Data!NotSent} :
                 [s EXCEPT !.own = FALSE] \in [text : 0..MaxEdits, own : BOOLEAN] \cup {Data!NotSent}
<1>1. Data!NoEditor \in Editing BY DEF DataAssumed, Data!NoEditor, Editing
<1>2. \A d \in 0..MaxEdits :
         [Data!NoEditor EXCEPT !.on = TRUE, !.text = d, !.applied = d, !.guarded = TRUE] \in Editing
  BY DEF DataAssumed, Data!NoEditor, Editing
<1>3. ASSUME NEW s \in [text : 0..MaxEdits, own : BOOLEAN]
      PROVE  [s EXCEPT !.own = FALSE] \in [text : 0..MaxEdits, own : BOOLEAN]
  OBVIOUS
<1>4. [Data!NotSent EXCEPT !.own = FALSE] = Data!NotSent
  <2> DEFINE Some == [text : {MaxEdits + 1}, own : {FALSE}]
  <2>1. Data!NotSent \in Some BY DEF Data!NotSent
  <2>2. \A s \in Some : [s EXCEPT !.own = FALSE] = s OBVIOUS
  <2> QED BY <2>1, <2>2
<1> QED BY <1>1, <1>2, <1>3, <1>4

LEMMA LeavingIsTyped == ASSUME DataAssumed, EditTyped, Data!LeaveEditor PROVE EditTyped'
  BY EditorsTyped DEF EditTyped, Data!LeaveEditor, Editing

LEMMA ScreenStands ==
    ASSUME Screen, UNCHANGED <<renders, dataActive, body, filters>>, Len(reads') = Len(reads) PROVE Screen'
  BY DEF Screen

LEMMA MetadataStands == ASSUME Metadata, UNCHANGED Data!metadata PROVE Metadata' /\ Len(reads') = Len(reads)
  BY DEF Metadata, Data!metadata

LEMMA EnterIsGood ==
    ASSUME DataInv, NEW v \in Data!Views, Data!Enter(v), dialog' \in Data!Views \cup {"none", "close", "closed"} PROVE DataInv'
<1>1. /\ view' = v /\ Data!Render(v, filters, generation, cache) /\ Data!LeaveEditor
      /\ UNCHANGED <<object, schema, generation, refreshed, cache, filters, ddl, definition>>
  BY DEF Data!Enter
<1>2. filters \in 0..MaxFilters /\ generation \in Nat /\ cache \in 0..Data!Nothing
  BY DEF DataInv, Metadata, VersionsFit, Screen, ScreenFits
<1>3. /\ ReadsFit(reads', generation, refreshed) /\ PromiseFits(promise', reads')
      /\ renders' \in Seq(Rendering(Len(reads'))) /\ ScreenFits(renders', dataActive', body', filters)
  BY <1>1, <1>2, RenderFits DEF DataInv, Metadata
<1>4. Metadata' BY <1>1, <1>3 DEF DataInv, Metadata
<1>5. Screen' BY <1>1, <1>3 DEF Screen
<1>6. EditTyped' BY <1>1, LeavingIsTyped DEF DataInv
<1> QED BY <1>1, <1>4, <1>5, <1>6 DEF DataInv, DataRestTyped, DataAssumed

LEMMA ReadReplaced ==
    ASSUME NEW rs \in Seq(Reading), NEW r \in DOMAIN rs, NEW x \in Reading
    PROVE  LET new == [rs EXCEPT ![r] = x]
           IN /\ new \in Seq(Reading) /\ Len(new) = Len(rs) /\ DOMAIN new = DOMAIN rs /\ new[r] = x
              /\ \A i \in DOMAIN rs : i # r => new[i] = rs[i]
  OBVIOUS

\* A read goes on as x, which fits, and the cache is left alone or gets what was read.
LEMMA ReadGoesOn ==
    ASSUME DataInv, NEW r \in DOMAIN reads, NEW x \in Reading, reads' = [reads EXCEPT ![r] = x],
           x.generation <= generation, x.at = "served" /\ x.generation = generation => x.version >= refreshed,
           UNCHANGED <<schema, generation, refreshed>>,
           \/ UNCHANGED cache
           \/ cache' = reads[r].version /\ reads[r].at = "served" /\ reads[r].generation = generation,
           promise' \in {promise, [promise EXCEPT !.read = 0]}, promise' = promise /\ promise.read = r => x.at # "failed"
    PROVE  Metadata' /\ Len(reads') = Len(reads) /\ Len(reads) \in Nat
<1>1. reads \in Seq(Reading) /\ Len(reads) \in Nat /\ promise \in [read : 0..Len(reads), generation : Nat]
  BY DEF DataInv, Metadata, ReadsFit, PromiseFits
<1>2. /\ reads' \in Seq(Reading) /\ Len(reads') = Len(reads) /\ DOMAIN reads' = DOMAIN reads /\ reads'[r] = x
      /\ \A i \in DOMAIN reads : i # r => reads'[i] = reads[i]
  BY <1>1, ReadReplaced
<1>3. ReadsFit(reads', generation, refreshed) BY <1>2 DEF DataInv, Metadata, ReadsFit
<1>4. PromiseFits(promise', reads')
  <2>1. promise' \in [read : 0..Len(reads'), generation : Nat] BY <1>1, <1>2
  <2>2. promise.read # 0 => promise.read \in DOMAIN reads /\ reads[promise.read].at # "failed"
    BY <1>1 DEF DataInv, Metadata, PromiseFits
  <2>3. promise'.read # 0 => promise' = promise BY <1>1
  <2> QED BY <1>2, <2>1, <2>2, <2>3 DEF PromiseFits
<1>5. VersionsFit(schema, generation, refreshed, cache')
  <2>1. reads[r] \in Reading BY <1>1
  <2>2. reads[r].version \in 0..Data!Nothing BY <2>1 DEF Reading
  <2>3. reads[r].at = "served" /\ reads[r].generation = generation => reads[r].version >= refreshed
    BY DEF DataInv, Metadata, ReadsFit
  <2> QED BY <2>2, <2>3 DEF DataInv, Metadata, VersionsFit
<1> QED BY <1>1, <1>2, <1>3, <1>4, <1>5 DEF Metadata

LEMMA ReadsAreGood ==
    ASSUME DataInv, NEW r \in DOMAIN reads, Data!ReadServed(r) \/ Data!ReadDone(r) \/ Data!ReadFails(r) PROVE DataInv'
<1>1. /\ reads \in Seq(Reading) /\ reads[r] \in Reading /\ reads[r].generation <= generation
      /\ schema \in 0..MaxChanges /\ refreshed \in 0..schema /\ generation \in Nat /\ cache \in 0..Data!Nothing
      /\ promise \in [read : 0..Len(reads), generation : Nat] /\ DataAssumed
  BY DEF DataInv, Metadata, ReadsFit, VersionsFit, PromiseFits
<1>2. UNCHANGED <<object, view, ddl, Data!edit, filters, dataActive, schema, generation, refreshed>>
  BY DEF Data!ReadServed, Data!ReadDone, Data!ReadFails, Data!screen
<1>3. EditTyped' /\ DataRestTyped' /\ DataAssumed' BY <1>2 DEF DataInv, EditTyped, DataRestTyped, Data!edit, DataAssumed
<1>4. CASE Data!ReadServed(r)
  <2> DEFINE x == [reads[r] EXCEPT !.at = "served", !.version = schema]
  <2>1. x \in Reading /\ x.generation = reads[r].generation /\ x.version = schema /\ x.at = "served"
    <3>1. schema \in 0..Data!Nothing BY <1>1 DEF Data!Nothing, DataAssumed
    <3> QED BY <1>1, <3>1 DEF Reading
  <2>2. reads' = [reads EXCEPT ![r] = x] /\ UNCHANGED <<cache, promise, Data!screen>> BY <1>4 DEF Data!ReadServed
  <2>3. schema >= refreshed BY <1>1
  <2> HIDE DEF x
  <2>4. Metadata' /\ Len(reads') = Len(reads) BY <1>1, <1>2, <2>1, <2>2, <2>3, ReadGoesOn
  <2>5. Screen' BY <1>2, <2>2, <2>4, ScreenStands DEF DataInv, Data!screen
  <2> QED BY <1>3, <2>4, <2>5 DEF DataInv
<1>5. CASE Data!ReadDone(r) /\ reads[r].generation = generation
  <2> DEFINE x == [reads[r] EXCEPT !.at = "done"]
  <2>1. x \in Reading /\ x.generation = reads[r].generation /\ x.at = "done" BY <1>1 DEF Reading
  <2>2. /\ reads' = [reads EXCEPT ![r] = x] /\ cache' = reads[r].version /\ reads[r].at = "served"
        /\ UNCHANGED promise /\ Data!GoOn(r, Data!Continuing(r))
    BY <1>5 DEF Data!ReadDone
  <2> HIDE DEF x
  <2>3. Metadata' /\ Len(reads') = Len(reads) /\ Len(reads) \in Nat BY <1>1, <1>2, <1>5, <2>1, <2>2, ReadGoesOn
  <2>4. renders' \in Seq(Rendering(Len(reads))) /\ ScreenFits(renders', dataActive', body', filters')
    BY <1>2, <2>2, <2>3, GoOnFits DEF DataInv
  <2> QED BY <1>3, <2>3, <2>4 DEF DataInv, Screen
<1>6. CASE Data!ReadDone(r) /\ reads[r].generation # generation
  <2> DEFINE x == Data!ReadOf(generation, cache)
  <2>1. x \in Reading /\ x.generation = generation /\ x.at \in {"sent", "done"} BY <1>1, ReadOfTyped
  <2>2. /\ reads' = [reads EXCEPT ![r] = x] /\ UNCHANGED <<cache, promise>>
        /\ UNCHANGED <<renders, body>> \/ Data!GoOn(r, Data!Continuing(r))
    BY <1>6 DEF Data!ReadDone
  <2> HIDE DEF x
  <2>0. x.generation <= generation /\ x.at # "served" /\ x.at # "failed" BY <1>1, <2>1
  <2>3. Metadata' /\ Len(reads') = Len(reads) /\ Len(reads) \in Nat BY <1>2, <2>0, <2>1, <2>2, ReadGoesOn
  <2>4. Screen'
    <3>1. CASE UNCHANGED <<renders, body>> BY <1>2, <2>3, <3>1, ScreenStands DEF DataInv
    <3>2. CASE Data!GoOn(r, Data!Continuing(r))
      <4>1. renders' \in Seq(Rendering(Len(reads))) /\ ScreenFits(renders', dataActive', body', filters')
        BY <1>2, <2>3, <3>2, GoOnFits DEF DataInv
      <4> QED BY <2>3, <4>1 DEF Screen
    <3> QED BY <2>2, <3>1, <3>2
  <2> QED BY <1>3, <2>3, <2>4 DEF DataInv
<1>7. CASE Data!ReadFails(r)
  <2> DEFINE x == [reads[r] EXCEPT !.at = "failed"]
  <2>1. x \in Reading /\ x.generation = reads[r].generation /\ x.at = "failed" BY <1>1 DEF Reading
  <2>2. /\ reads' = [reads EXCEPT ![r] = x] /\ UNCHANGED cache /\ Data!GoOn(r, Data!Continuing(r))
        /\ promise' = IF promise.read = r THEN [promise EXCEPT !.read = 0] ELSE promise
    BY <1>7 DEF Data!ReadFails
  <2>3. r \in Nat \ {0} BY <1>1
  <2>4. promise' = promise => promise.read # r BY <1>1, <2>2, <2>3
  <2> HIDE DEF x
  <2>5. Metadata' /\ Len(reads') = Len(reads) /\ Len(reads) \in Nat BY <1>1, <1>2, <2>1, <2>2, <2>4, ReadGoesOn
  <2>6. renders' \in Seq(Rendering(Len(reads))) /\ ScreenFits(renders', dataActive', body', filters')
    BY <1>2, <2>2, <2>5, GoOnFits DEF DataInv
  <2> QED BY <1>3, <2>5, <2>6 DEF DataInv, Screen
<1> QED BY <1>4, <1>5, <1>6, <1>7

LEMMA ViewsAreGood ==
    ASSUME DataInv, (\E v \in Data!Views : Data!SwitchView(v)) \/ Data!SetFilters \/ Data!LetGo \/ Data!Stay \/ Data!Close PROVE DataInv'
<1>1. ASSUME NEW v \in Data!Views, Data!SwitchView(v) PROVE DataInv'
  <2>1. CASE Data!Enter(v) /\ UNCHANGED dialog BY <2>1, EnterIsGood DEF DataInv, DataRestTyped
  <2>2. CASE dialog' = v /\ UNCHANGED <<object, Data!metadata, Data!screen, filters, ddl, editor, dataSent, definition>>
    <3>1. Metadata' /\ Screen' BY <2>2, MetadataStands, ScreenStands DEF DataInv, Data!screen
    <3> QED BY <2>2, <3>1 DEF DataInv, EditTyped, DataRestTyped, Data!screen, DataAssumed
  <2> QED BY <1>1, <2>1, <2>2 DEF Data!SwitchView
<1>2. CASE Data!SetFilters
  <2>1. /\ filters' = filters + 1 /\ filters < MaxFilters /\ Data!Render("Data", filters', generation, cache) /\ Data!LeaveEditor
        /\ UNCHANGED <<object, schema, generation, refreshed, cache, view, ddl, definition, dialog>>
    BY <1>2 DEF Data!SetFilters
  <2>2. filters' \in 0..MaxFilters /\ generation \in Nat /\ cache \in 0..Data!Nothing
    BY <2>1 DEF DataInv, DataAssumed, Metadata, VersionsFit, Screen, ScreenFits
  <2>3. "Data" \in Data!Views BY DEF Data!Views
  <2>4. /\ ReadsFit(reads', generation, refreshed) /\ PromiseFits(promise', reads')
        /\ renders' \in Seq(Rendering(Len(reads'))) /\ ScreenFits(renders', dataActive', body', filters')
    BY <2>1, <2>2, <2>3, RenderFits DEF DataInv, Metadata
  <2>5. Metadata' BY <2>1, <2>4 DEF DataInv, Metadata
  <2>6. EditTyped' BY <2>1, LeavingIsTyped DEF DataInv
  <2> QED BY <2>1, <2>4, <2>5, <2>6 DEF DataInv, DataRestTyped, Screen, DataAssumed
<1>3. CASE Data!LetGo
  <2>1. CASE dialog \in Data!Views /\ dialog' = "none" /\ Data!Enter(dialog) BY <2>1, EnterIsGood
  <2>2. CASE /\ dialog' = "closed" /\ editor' = Data!NoEditor
             /\ UNCHANGED <<object, Data!metadata, Data!screen, filters, ddl, dataSent, definition>>
    <3>1. Metadata' /\ Screen' BY <2>2, MetadataStands, ScreenStands DEF DataInv, Data!screen
    <3>2. EditTyped' BY <2>2 DEF DataInv, EditTyped, Data!NoEditor, DataAssumed
    <3> QED BY <2>2, <3>1, <3>2 DEF DataInv, DataRestTyped, Data!screen, DataAssumed
  <2> QED BY <1>3, <2>1, <2>2 DEF Data!LetGo
<1>4. CASE Data!Stay \/ Data!Close
  <2>1. /\ dialog' \in {"none", "close", "closed"} /\ editor' \in {editor, Data!NoEditor}
        /\ UNCHANGED <<object, Data!metadata, Data!screen, filters, ddl, dataSent, definition>>
    BY <1>4 DEF Data!Stay, Data!Close
  <2>2. Metadata' /\ Screen' BY <2>1, MetadataStands, ScreenStands DEF DataInv, Data!screen
  <2>3. EditTyped' BY <2>1, EditorsTyped DEF DataInv, EditTyped, Editing
  <2> QED BY <2>1, <2>2, <2>3 DEF DataInv, DataRestTyped, Data!screen, DataAssumed
<1> QED BY <1>1, <1>2, <1>3, <1>4

LEMMA RequestsAreGood ==
    ASSUME DataInv, NEW n \in DOMAIN renders, Data!StreamEnds(n) \/ Data!Answered(n) PROVE DataInv'
<1>1. /\ Len(reads) \in Nat /\ renders \in Seq(Rendering(Len(reads))) /\ ScreenFits(renders, dataActive, body, filters)
      /\ Len(renders) \in Nat /\ DOMAIN renders = 1..Len(renders)
  BY DEF DataInv, Metadata, ReadsFit, Screen
<1>2. UNCHANGED <<object, Data!metadata, view, filters, ddl>> /\ renders' = [renders EXCEPT ![n].at = "done"]
  BY DEF Data!StreamEnds, Data!Answered
<1> DEFINE x == [renders[n] EXCEPT !.at = "done"]
<1>3. x \in Rendering(Len(reads)) /\ x.view = renders[n].view /\ x.filters = renders[n].filters /\ x.at = "done"
  <2>1. renders[n] \in Rendering(Len(reads)) BY <1>1
  <2> QED BY <2>1 DEF Rendering
<1>4. renders' = [renders EXCEPT ![n] = x] BY <1>2
<1> HIDE DEF x
<1>5. /\ renders' \in Seq(Rendering(Len(reads))) /\ Len(renders') = Len(renders) /\ DOMAIN renders' = DOMAIN renders
      /\ renders'[n] = x /\ \A m \in DOMAIN renders : m # n => renders'[m] = renders[m]
      /\ \A m \in DOMAIN renders : renders'[m].view = renders[m].view /\ renders'[m].filters = renders[m].filters
  BY <1>1, <1>3, <1>4
<1>6. Metadata' /\ Len(reads') = Len(reads) BY <1>2, MetadataStands DEF DataInv
<1>7. /\ dataActive \in 0..Len(renders) /\ body.render \in 0..Len(renders) /\ filters \in 0..MaxFilters
      /\ ActiveFits(renders, dataActive, filters) /\ Newest(renders, dataActive, body, filters)
  BY <1>1 DEF ScreenFits
<1>8. \A m \in DOMAIN renders : renders'[m].at = "request" => renders'[m] = renders[m] BY <1>3, <1>5
<1>10. dataActive # 0 => dataActive \in DOMAIN renders BY <1>1, <1>7
<1>11. body.render # 0 => body.render \in DOMAIN renders BY <1>1, <1>7
<1>12. ActiveFits(renders', dataActive, filters)
  BY <1>5, <1>7, <1>8, <1>10 DEF ActiveFits
<1>13. CASE Data!StreamEnds(n)
  <2>1. /\ renders[n].view = "Data" /\ renders[n].at = "request" /\ body' = body
        /\ dataActive' = (IF dataActive = n THEN 0 ELSE dataActive) /\ UNCHANGED Data!edit
    BY <1>13 DEF Data!StreamEnds
  <2>2. ActiveFits(renders', dataActive', filters) BY <1>12, <2>1 DEF ActiveFits
  <2>3. Newest(renders', dataActive', body, filters)
    <3> SUFFICES ASSUME body.render # 0, renders'[body.render].view = "Data"
                 PROVE  /\ \A m \in DOMAIN renders' : m > body.render /\ renders'[m].view = "Data"
                                                      => renders'[m].at \in {"structure", "dropped"}
                        /\ dataActive' = 0 => renders'[body.render].filters = filters
      BY DEF Newest
    <3>1. body.render \in DOMAIN renders /\ renders[body.render].view = "Data" BY <1>5, <1>11
    <3>2. \A m \in DOMAIN renders : m > body.render /\ renders[m].view = "Data" => renders[m].at \in {"structure", "dropped"}
      BY <1>7, <3>1 DEF Newest
    <3>3. ~(n > body.render) BY <2>1, <3>2
    <3>4. \A m \in DOMAIN renders' : m > body.render /\ renders'[m].view = "Data" => renders'[m].at \in {"structure", "dropped"}
      BY <1>5, <3>2, <3>3
    <3>5. dataActive = 0 => renders'[body.render].filters = filters BY <1>5, <1>7, <3>1 DEF Newest
    <3>6. ASSUME dataActive = n, dataActive # 0 PROVE renders'[body.render].filters = filters
      <4>1. ~(body.render > n) BY <1>7, <3>1, <3>6 DEF ActiveFits
      <4>2. body.render = n BY <1>1, <3>1, <3>3, <4>1
      <4>3. renders[n].filters = filters BY <1>7, <2>1, <3>6 DEF ActiveFits
      <4> QED BY <1>5, <4>2, <4>3
    <3> QED BY <2>1, <3>4, <3>5, <3>6
  <2>4. dataActive' \in 0..Len(renders) BY <1>1, <1>7, <2>1
  <2>5. ScreenFits(renders', dataActive', body', filters') BY <1>1, <1>2, <1>5, <2>1, <2>2, <2>3, <2>4 DEF ScreenFits
  <2>6. EditTyped' /\ DataRestTyped' BY <1>2, <2>1 DEF DataInv, EditTyped, DataRestTyped, Data!edit
  <2> QED BY <1>5, <1>6, <2>5, <2>6 DEF DataInv, Screen, DataAssumed
<1>14. CASE Data!Answered(n)
  <2>1. /\ renders[n].view # "Data" /\ body' = [render |-> n, loading |-> FALSE]
        /\ UNCHANGED <<dataActive, definition, dialog>>
        /\ \/ editor' = [Data!NoEditor EXCEPT !.on = TRUE, !.text = definition, !.applied = definition, !.guarded = TRUE]
              /\ dataSent' = [dataSent EXCEPT !.own = FALSE]
           \/ Data!LeaveEditor
    BY <1>14 DEF Data!Answered
  <2>2. Newest(renders', dataActive', body', filters) BY <1>5, <2>1 DEF Newest
  <2>3. body' \in [render : 0..Len(renders), loading : BOOLEAN] BY <1>1, <2>1
  <2>4. ScreenFits(renders', dataActive', body', filters') BY <1>2, <1>5, <1>7, <1>12, <2>1, <2>2, <2>3 DEF ScreenFits
  <2>5. EditTyped'
    <3>1. CASE Data!LeaveEditor BY <3>1, LeavingIsTyped DEF DataInv
    <3>2. CASE /\ editor' = [Data!NoEditor EXCEPT !.on = TRUE, !.text = definition, !.applied = definition, !.guarded = TRUE]
               /\ dataSent' = [dataSent EXCEPT !.own = FALSE]
      BY <3>2, EditorsTyped DEF DataInv, DataRestTyped, EditTyped, Editing
    <3> QED BY <2>1, <3>1, <3>2
  <2> QED BY <1>2, <1>5, <1>6, <2>1, <2>4, <2>5 DEF DataInv, Screen, DataRestTyped, DataAssumed
<1> QED BY <1>13, <1>14

LEMMA ChangesAreGood ==
    ASSUME DataInv, Data!Refresh \/ Data!Altered \/ Data!SendDdl \/ Data!DdlApplied \/ Data!DdlAnswered PROVE DataInv'
<1>1. /\ ReadsFit(reads, generation, refreshed) /\ PromiseFits(promise, reads) /\ DataAssumed /\ Screen
      /\ schema \in 0..MaxChanges /\ refreshed \in 0..schema /\ generation \in Nat /\ cache \in 0..Data!Nothing
      /\ cache # Data!Nothing => cache >= refreshed
  BY DEF DataInv, Metadata, VersionsFit
<1>2. ReadsFit(reads, generation + 1, schema) BY <1>1, LeftBehind
<1>3. VersionsFit(schema, generation + 1, schema, Data!Nothing) BY <1>1 DEF VersionsFit, Data!Nothing, DataAssumed
<1>4. CASE Data!Refresh
  <2>1. /\ generation' = generation + 1 /\ refreshed' = schema /\ cache' = Data!Nothing /\ Data!LeaveEditor
        /\ UNCHANGED <<object, schema, view, filters, ddl, definition, dialog>>
        /\ Data!Render("Data", filters, generation + 1, Data!Nothing) \/ UNCHANGED <<reads, promise, renders, dataActive, body>>
    BY <1>4 DEF Data!Refresh, Data!Invalidate
  <2>2. filters \in 0..MaxFilters /\ generation + 1 \in Nat /\ Data!Nothing \in 0..Data!Nothing /\ "Data" \in Data!Views
    BY <1>1 DEF Screen, ScreenFits, Data!Nothing, DataAssumed, Data!Views
  <2>3. /\ ReadsFit(reads', generation + 1, schema) /\ PromiseFits(promise', reads')
        /\ renders' \in Seq(Rendering(Len(reads'))) /\ ScreenFits(renders', dataActive', body', filters)
    <3>1. CASE Data!Render("Data", filters, generation + 1, Data!Nothing) BY <1>1, <1>2, <2>2, <3>1, RenderFits
    <3>2. CASE UNCHANGED <<reads, promise, renders, dataActive, body>> BY <1>1, <1>2, <3>2 DEF Screen
    <3> QED BY <2>1, <3>1, <3>2
  <2>4. Metadata' BY <1>3, <2>1, <2>3 DEF Metadata
  <2>5. Screen' BY <2>1, <2>3 DEF Screen
  <2>6. EditTyped' BY <2>1, LeavingIsTyped DEF DataInv
  <2> QED BY <2>1, <2>4, <2>5, <2>6 DEF DataInv, DataRestTyped, DataAssumed
<1>5. CASE Data!Altered \/ Data!DdlApplied
  <2>1. /\ schema' = schema + 1 /\ schema < MaxChanges /\ ddl' \in {ddl, "done"}
        /\ UNCHANGED <<object, generation, refreshed, cache, reads, promise, Data!screen, filters, Data!edit>>
    BY <1>5 DEF Data!Altered, Data!DdlApplied
  <2>2. VersionsFit(schema + 1, generation, refreshed, cache) BY <1>1, <2>1 DEF VersionsFit, DataAssumed
  <2>3. Metadata' BY <1>1, <2>1, <2>2 DEF Metadata
  <2>4. Screen' BY <1>1, <2>1, ScreenStands DEF Data!screen
  <2> QED BY <2>1, <2>3, <2>4 DEF DataInv, EditTyped, DataRestTyped, Data!edit, Data!screen, DataAssumed
<1>6. CASE Data!SendDdl
  <2>1. ddl' = "sent" /\ UNCHANGED <<object, Data!metadata, Data!screen, filters, Data!edit>> BY <1>6 DEF Data!SendDdl
  <2>2. Metadata' /\ Screen' BY <2>1, MetadataStands, ScreenStands DEF DataInv, Data!screen
  <2> QED BY <2>1, <2>2 DEF DataInv, EditTyped, DataRestTyped, Data!edit, Data!screen, DataAssumed
<1>7. CASE Data!DdlAnswered
  <2> DEFINE x == Data!Fresh("Structure", "request", 0, filters)
  <2>1. /\ ddl' = "none" /\ generation' = generation + 1 /\ refreshed' = schema /\ cache' = Data!Nothing
        /\ promise' = [read |-> 0, generation |-> 0] /\ renders' = Append(renders, x)
        /\ body' = [render |-> Data!Number, loading |-> TRUE] /\ Data!LeaveEditor
        /\ UNCHANGED <<object, schema, reads, view, dataActive, filters, definition, dialog>>
    BY <1>7 DEF Data!DdlAnswered, Data!Invalidate
  <2>2. /\ Len(renders) \in Nat /\ Data!Number = Len(renders) + 1 /\ renders \in Seq(Rendering(Len(reads)))
        /\ ScreenFits(renders, dataActive, body, filters) /\ Len(reads) \in Nat
    BY <1>1 DEF Screen, ReadsFit, Data!Number
  <2>3. filters \in 0..MaxFilters BY <2>2 DEF ScreenFits
  <2>4. x \in Rendering(Len(reads)) /\ x.view = "Structure" BY <2>2, <2>3 DEF Data!Fresh, Rendering, Data!Views
  <2> HIDE DEF x
  <2>5. /\ renders' \in Seq(Rendering(Len(reads))) /\ Len(renders') = Data!Number /\ renders'[Data!Number] = x
        /\ DOMAIN renders' = 1..Data!Number /\ \A i \in 1..Len(renders) : renders'[i] = renders[i]
    BY <2>1, <2>2, <2>4, AppendProperties
  <2>6. ActiveFits(renders', dataActive, filters)
    <3>1. dataActive \in 0..Len(renders) /\ ActiveFits(renders, dataActive, filters) BY <2>2 DEF ScreenFits
    <3>2. \A i \in DOMAIN renders' : i \in DOMAIN renders \/ i = Data!Number BY <2>2, <2>5
    <3>3. dataActive # 0 => dataActive \in 1..Len(renders) BY <2>2, <3>1
    <3> QED BY <2>2, <2>4, <2>5, <3>1, <3>2, <3>3 DEF ActiveFits
  <2>7. Newest(renders', dataActive, body', filters) BY <2>1, <2>4, <2>5 DEF Newest
  <2>8. dataActive \in 0..Len(renders') /\ body' \in [render : 0..Len(renders'), loading : BOOLEAN]
    BY <2>1, <2>2, <2>5 DEF ScreenFits
  <2>9. Screen' BY <2>1, <2>3, <2>5, <2>6, <2>7, <2>8 DEF Screen, ScreenFits
  <2>10. PromiseFits(promise', reads) BY <2>1, <2>2 DEF PromiseFits
  <2>11. Metadata' BY <1>2, <1>3, <2>1, <2>10 DEF Metadata
  <2>12. EditTyped' BY <2>1, LeavingIsTyped DEF DataInv
  <2> QED BY <2>1, <2>9, <2>11, <2>12 DEF DataInv, DataRestTyped, DataAssumed
<1> QED BY <1>4, <1>5, <1>6, <1>7

LEMMA EditingIsGood == ASSUME DataInv, Data!Edit \/ Data!Execute \/ Data!Executed \/ Data!ExecuteFails PROVE DataInv'
<1>1. UNCHANGED <<object, Data!metadata, Data!screen, filters, ddl, dialog>> BY DEF Data!Edit, Data!Execute, Data!Executed, Data!ExecuteFails
<1>2. Metadata' /\ Screen' BY <1>1, MetadataStands, ScreenStands DEF DataInv, Data!screen
<1>3. EditTyped' /\ definition' \in 0..MaxEdits
  <2>1. CASE Data!Edit
    <3> DEFINE differs == editor.text + 1 # editor.applied
    <3>1. editor' = [editor EXCEPT !.text = @ + 1, !.unsaved = differs] /\ editor.text < MaxEdits
          /\ UNCHANGED <<dataSent, definition>>
      BY <2>1 DEF Data!Edit
    <3>2. differs \in BOOLEAN OBVIOUS
    <3> HIDE DEF differs
    <3>3. editor.text + 1 \in 0..MaxEdits BY <3>1 DEF DataInv, EditTyped, DataAssumed
    <3> QED BY <3>1, <3>2, <3>3 DEF DataInv, EditTyped, DataRestTyped
  <2>2. CASE Data!Execute BY <2>2 DEF Data!Execute, DataInv, EditTyped, DataRestTyped
  <2>3. CASE Data!Executed BY <2>3 DEF Data!Executed, DataInv, EditTyped, DataRestTyped
  <2>4. CASE Data!ExecuteFails BY <2>4 DEF Data!ExecuteFails, DataInv, EditTyped, DataRestTyped
  <2> QED BY <2>1, <2>2, <2>3, <2>4
<1> QED BY <1>1, <1>2, <1>3 DEF DataInv, DataRestTyped, Data!screen, DataAssumed

LEMMA DataBegins == DataAssumed /\ Data!Init => DataInv
<1> SUFFICES ASSUME DataAssumed, Data!Init PROVE DataInv OBVIOUS
<1>1. Metadata
  <2>1. <<>> \in Seq(Reading) /\ Len(<<>>) = 0 OBVIOUS
  <2> QED BY <2>1 DEF Data!Init, Metadata, VersionsFit, ReadsFit, PromiseFits, Data!Nothing, DataAssumed
<1>2. Screen
  <2>1. <<>> \in Seq(Rendering(Len(reads))) /\ Len(<<>>) = 0 OBVIOUS
  <2>2. renders = <<>> /\ dataActive = 0 /\ body = [render |-> 0, loading |-> FALSE] /\ filters = 0 BY DEF Data!Init
  <2> QED BY <2>1, <2>2 DEF Screen, ScreenFits, ActiveFits, Newest, DataAssumed
<1>3. EditTyped /\ DataRestTyped BY DEF Data!Init, EditTyped, DataRestTyped, Data!NoEditor, Data!NotSent, Data!Views, DataAssumed
<1> QED BY <1>1, <1>2, <1>3 DEF DataInv

LEMMA DataGoesOn == DataInv /\ [Data!Next]_(Data!vars) => DataInv'
<1> SUFFICES ASSUME DataInv, [Data!Next]_(Data!vars) PROVE DataInv' OBVIOUS
<1>1. CASE Data!Next
  BY <1>1, ReadsAreGood, ViewsAreGood, RequestsAreGood, ChangesAreGood, EditingIsGood DEF Data!Next
<1>2. CASE UNCHANGED Data!vars
  <2>1. Metadata' /\ Screen' BY <1>2, MetadataStands, ScreenStands DEF DataInv, Data!vars, Data!screen
  <2> QED BY <1>2, <2>1 DEF Data!vars, Data!edit, Data!screen, DataInv, EditTyped, DataRestTyped, DataAssumed
<1> QED BY <1>1, <1>2

LEMMA DataSuffices == DataInv => Data!TypeOK /\ Data!StructureIsFresh /\ Data!GridIsTheNewest
<1> SUFFICES ASSUME DataInv PROVE Data!TypeOK /\ Data!StructureIsFresh /\ Data!GridIsTheNewest OBVIOUS
<1>1. {schema, refreshed} \subseteq 0..MaxChanges BY DEF DataInv, Metadata, VersionsFit, DataAssumed
<1>2. Data!TypeOK
  BY <1>1 DEF DataInv, Metadata, VersionsFit, ReadsFit, PromiseFits, Screen, ScreenFits, EditTyped, DataRestTyped,
              Reading, Rendering, Data!TypeOK
<1>3. Data!StructureIsFresh BY DEF DataInv, Metadata, VersionsFit, PromiseFits, Data!StructureIsFresh
<1>4. Data!GridIsTheNewest BY DEF DataInv, Screen, ScreenFits, Newest, Data!GridIsTheNewest, Data!Shows
<1> QED BY <1>2, <1>3, <1>4

LEMMA DataHolds == DataAssumed /\ Data!Spec => []DataInv
<1>1. DataAssumed /\ Data!Init => DataInv BY DataBegins
<1>2. DataInv /\ [Data!Next]_(Data!vars) => DataInv' BY DataGoesOn
<1> QED BY <1>1, <1>2, PTL DEF Data!Spec

-----------------------------------------------------------------------------
(* What is proved of the tabs *)

\* A tab is open once, and every variable keeps its type (app.js state.tabs,
\* saveSession, restoreSession).
THEOREM TabsAreTyped == Assumed /\ Spec => []TypeOK
<1>1. IInv => TypeOK BY IInvSuffices
<1> QED BY <1>1, IInvHolds, PTL

\* A tab with something to lose closes only when its own dialog was agreed to,
\* but for a rename, a reload and a list that changed under the dialog (app.js
\* closeTab, closeAllTabs, closeOtherTabs, setActiveTab).
THEOREM TabsCloseAgreed == Assumed /\ Spec => [][OnlyAgreedTabsClose]_vars
<1>1. IInv /\ [Next]_vars => [OnlyAgreedTabsClose]_vars BY StepAgrees
<1> QED BY <1>1, IInvHolds, PTL DEF Spec

\* The tab in front stays an open one, unless the list changed under a dialog
\* (app.js closeTab, setActiveTab).
THEOREM FrontIsOpen == Assumed /\ Spec => [][FrontStaysOpen]_vars
<1>1. IInv /\ [Next]_vars => [FrontStaysOpen]_vars BY StepAgrees
<1> QED BY <1>1, IInvHolds, PTL DEF Spec

\* After a reload the tab that was in front is the one the session names
\* (app.js saveSession, restoreSession).
THEOREM FrontIsRestored == Assumed /\ Spec => [][FrontComesBack]_vars
<1>1. IInv /\ [Next]_vars => [FrontComesBack]_vars BY ReloadComesBack
<1> QED BY <1>1, IInvHolds, PTL DEF Spec

-----------------------------------------------------------------------------
(* What is proved of a data tab *)

\* A cached structure was read after the last refresh, and no promise that failed is
\* kept (app.js loadStructureMetadata, ensureStructure).
THEOREM StructuresAreFresh == DataAssumed /\ Data!Spec => []Data!StructureIsFresh
<1>1. DataInv => Data!StructureIsFresh BY DataSuffices
<1> QED BY <1>1, DataHolds, PTL

\* The grid on screen is that of the newest load that got past the structure, asked for
\* with the filters of now when none is under way (app.js renderData).
THEOREM GridsAreTheNewest == DataAssumed /\ Data!Spec => []Data!GridIsTheNewest
<1>1. DataInv => Data!GridIsTheNewest BY DataSuffices
<1> QED BY <1>1, DataHolds, PTL
=============================================================================
