----------------------------- MODULE Workspace -----------------------------
(***************************************************************************)
(* The tabs of the browser (app.js): opening, switching and closing them    *)
(* behind the questions a tab may ask, and the session that is written to   *)
(* localStorage at every change and read back after a reload.               *)
(*                                                                         *)
(* A dialog is modal, so the person does nothing else while it is open; but *)
(* a dialog can be dismissed while its request runs, and the answer then    *)
(* opens a tab (a script) or closes one (a drop, a rename) at any moment,   *)
(* also under another dialog.  What a tab shows is left out.                *)
(***************************************************************************)
EXTENDS Naturals, Sequences, SequencesExt

CONSTANTS Tab,         \* tabs, named by what they show
          None,
          Ephemeral,   \* tabs that describe no way back: a new table, a chat
          MaxAnswers,  \* bound: requests whose answer opens or closes a tab
          MaxReloads   \* bound: reloads of the page

VARIABLES
    tabs,       \* state.tabs
    active,     \* state.activeTabId
    work,       \* what a tab would lose: nothing, a running query, an edit
    asking,     \* the operations that wait for a dialog, the topmost first
    answers,    \* the requests in flight
    sent,       \* their number so far
    restored,   \* sessionRestored
    reading,    \* the session that restoreSession is rebuilding, or None
    saved,      \* the session in localStorage
    reloads

vars == <<tabs, active, work, asking, answers, sent, restored, reading, saved, reloads>>

Session == [tabs : Seq(Tab), active : Nat \ {0}]
\* index: the position closeTab found, or that of the loop over the tabs;
\* under: the tabs there were when the operation began.
Op == [name : {"add", "switch", "close", "closeAll", "closeOthers"}, tab : Tab \cup {None},
       index : Nat, asked : Tab \cup {None}, under : Seq(Tab)]

TypeOK ==
    /\ IsInjective(tabs) /\ tabs \in Seq(Tab) /\ active \in Tab \cup {None}
    /\ work \in [Tab -> {"idle", "running", "unsaved"}] /\ asking \in Seq(Op)
    /\ answers \subseteq [does : {"open", "drop", "rename"}, tab : Tab] /\ sent \in 0..MaxAnswers
    /\ restored \in BOOLEAN /\ reading \in Session \cup {None} /\ saved \in Session
    /\ reloads \in 0..MaxReloads

Open == ToSet(tabs)
Index(ts, t) == CHOOSE i \in DOMAIN ts : ts[i] = t
Free == asking = <<>>   \* no dialog is open

-----------------------------------------------------------------------------
(* The session *)

\* The tabs that come back, in their order.
Describable(ts) ==
    LET Kept[i \in 0..Len(ts)] ==
            IF i = 0 THEN <<>> ELSE IF ts[i] \in Ephemeral THEN Kept[i - 1] ELSE Append(Kept[i - 1], ts[i])
    IN Kept[Len(ts)]

\* Mutated: the position in the tab bar.
SaveTabBar(ts, a) ==
    LET kept == Describable(ts)
    IN [tabs |-> kept, active |-> IF a \in ToSet(kept) THEN Index(ts, a) ELSE 1]

\* saveSession counts the tabs that can be described before the active one.
SaveSession(ts, a) ==
    LET kept == Describable(ts)
    IN [tabs |-> kept, active |-> IF a \in ToSet(kept) THEN Index(kept, a) ELSE 1]

\* renderTabs draws, loads the active tab and saves.
RenderTabs(ts, a) ==
    /\ tabs' = ts /\ active' = a
    /\ saved' = IF restored THEN SaveSession(ts, a) ELSE saved

Init ==
    /\ tabs = <<>> /\ active = None
    /\ work = [t \in Tab |-> "idle"]
    /\ asking = <<>> /\ answers = {} /\ sent = 0
    /\ restored = FALSE /\ reading = None
    /\ saved = [tabs |-> <<>>, active |-> 1] /\ reloads = 0

-----------------------------------------------------------------------------
(* An operation on the tabs: whom it must ask, and what it does in the end *)

Loops(op) == op.name \in {"closeAll", "closeOthers"}

Operation(name, t) ==
    [name |-> name, tab |-> t, asked |-> None, under |-> tabs,
     index |-> IF name = "close" THEN Index(tabs, t) ELSE 1]

\* Mutated: closing asks only what leaving asks.
ObjectorsToLeaving(op, w) == {i \in op.index..Len(tabs) : tabs[i] # op.tab /\ w[tabs[i]] = "running"}

\* The positions the loop has not passed, and whose tabs object.  A loop sees
\* the tabs that come and go while it waits.
Objectors(op, w) == {i \in op.index..Len(tabs) : tabs[i] # op.tab /\ w[tabs[i]] # "idle"}

\* beforeLeave is a matter of running queries, beforeClose of any work.
Asks(op, w) ==
    IF Loops(op) THEN {[op EXCEPT !.index = i, !.asked = tabs[i]] :
                           i \in {i \in Objectors(op, w) : \A j \in Objectors(op, w) : i <= j}}
    ELSE IF op.name = "close" THEN {[op EXCEPT !.asked = t] : t \in {t \in {op.tab} : w[t] # "idle"}}
    ELSE {[op EXCEPT !.asked = t] : t \in {t \in {active} \cap Open : w[t] = "running"}}

\* Mutated: goes to the index of the closed tab.
CloseAtToTheRight(op) ==
    LET left == IF op.index <= Len(tabs) THEN RemoveAt(tabs, op.index) ELSE tabs
    IN [tabs |-> left, active |-> IF active # op.tab THEN active
                                  ELSE IF left = <<>> THEN None
                                  ELSE IF op.index \in DOMAIN left THEN left[op.index]
                                  ELSE active]

\* closeTab removes what is now at the index it found, and goes to its left.
CloseAt(op) ==
    LET left == IF op.index <= Len(tabs) THEN RemoveAt(tabs, op.index) ELSE tabs
        neighbour == IF op.index = 1 THEN 1 ELSE op.index - 1
    IN [tabs |-> left, active |-> IF active # op.tab THEN active
                                  ELSE IF left = <<>> THEN None
                                  ELSE IF neighbour \in DOMAIN left THEN left[neighbour]
                                  ELSE active]

Outcome(op) ==
    CASE op.name = "add" -> [tabs |-> Append(tabs, op.tab), active |-> op.tab]
      [] op.name = "switch" -> [tabs |-> tabs, active |-> op.tab]
      [] op.name = "close" -> CloseAt(op)
      [] op.name = "closeAll" -> [tabs |-> <<>>, active |-> None]
      [] op.name = "closeOthers" ->
            [tabs |-> IF op.tab \in Open THEN <<op.tab>> ELSE <<>>, active |-> op.tab]

\* A tab that leaves the list is disposed of.
Finish(op, w, below) ==
    /\ RenderTabs(Outcome(op).tabs, Outcome(op).active)
    /\ work' = [t \in Tab |-> IF t \in ToSet(Outcome(op).tabs) THEN w[t] ELSE "idle"]
    /\ asking' = below

Proceed(op, w, below) ==
    \/ /\ \E asks \in Asks(op, w) : asking' = <<asks>> \o below
       /\ work' = w /\ UNCHANGED <<tabs, active, saved>>
    \/ Asks(op, w) = {} /\ Finish(op, w, below)

-----------------------------------------------------------------------------
(* The person *)

\* The tabs that are added as soon as the tab in front may be left.
Pending == {op.tab : op \in {op \in ToSet(asking) : op.name = "add"}}

\* openQueryTab and the like; a tab that is there comes to the front.
Show(t, below) ==
    \/ t \notin Open \cup Pending /\ Proceed(Operation("add", t), work, below)
    \/ t \in Open /\ t # active /\ Proceed(Operation("switch", t), work, below)
    \/ t \in Open /\ t = active /\ asking' = below /\ UNCHANGED <<tabs, active, work, saved>>

OpenTab(t) ==
    /\ Free /\ t # active /\ Show(t, <<>>)
    /\ UNCHANGED <<answers, sent, restored, reading, reloads>>

CloseTab(t) ==
    /\ Free /\ t \in Open /\ Proceed(Operation("close", t), work, <<>>)
    /\ UNCHANGED <<answers, sent, restored, reading, reloads>>

CloseAllTabs ==
    /\ Free /\ tabs # <<>> /\ Proceed(Operation("closeAll", None), work, <<>>)
    /\ UNCHANGED <<answers, sent, restored, reading, reloads>>

CloseOtherTabs(t) ==
    /\ Free /\ t \in Open /\ Proceed(Operation("closeOthers", t), work, <<>>)
    /\ UNCHANGED <<answers, sent, restored, reading, reloads>>

\* The person runs a query on the session of the tab, or edits a definition.
Work(kind) ==
    /\ Free /\ active \in Open /\ work[active] = "idle"
    /\ work' = [work EXCEPT ![active] = kind]
    /\ UNCHANGED <<tabs, active, asking, answers, sent, restored, reading, saved, reloads>>

\* The query ends, at any moment; the definition is executed.
WorkEnds(t) ==
    /\ work[t] = "running" \/ (work[t] = "unsaved" /\ Free)
    /\ work' = [work EXCEPT ![t] = "idle"]
    /\ UNCHANGED <<tabs, active, asking, answers, sent, restored, reading, saved, reloads>>

Stay ==
    /\ ~Free /\ asking' = Tail(asking)
    /\ UNCHANGED <<tabs, active, work, answers, sent, restored, reading, saved, reloads>>

\* "Stop query", "Discard changes": the tab has nothing left to lose.
Agree ==
    /\ ~Free
    /\ LET op == Head(asking)
           w == [work EXCEPT ![op.asked] = "idle"]
       IN \/ Loops(op) /\ Proceed([op EXCEPT !.index = @ + 1], w, Tail(asking))
          \/ ~Loops(op) /\ Finish(op, w, Tail(asking))
    /\ UNCHANGED <<answers, sent, restored, reading, reloads>>

-----------------------------------------------------------------------------
(* Requests whose dialog may be gone when they are answered *)

\* A script for a new tab, the drop or the renaming of an object.
Send(does, t) ==
    /\ Free /\ sent < MaxAnswers
    /\ sent' = sent + 1 /\ answers' = answers \cup {[does |-> does, tab |-> t]}
    /\ UNCHANGED <<tabs, active, work, asking, restored, reading, saved, reloads>>

Answered(a) ==
    /\ a \in answers /\ answers' = answers \ {a}
    /\ \/ a.does = "open" /\ a.tab \notin Open /\ Show(a.tab, asking)
       \/ a.does = "drop" /\ a.tab \in Open /\ Proceed(Operation("close", a.tab), work, asking)
       \/ a.does = "rename" /\ a.tab \in Open /\ Finish(Operation("close", a.tab), work, asking)
       \/ a.does # "open" /\ a.tab \notin Open /\ UNCHANGED <<tabs, active, work, asking, saved>>
    /\ UNCHANGED <<sent, restored, reading, reloads>>

-----------------------------------------------------------------------------
(* Reload and restoreSession *)

\* What the page had is gone; pagehide saves what saveSession saves.
Reload ==
    /\ reloads < MaxReloads /\ reloads' = reloads + 1
    /\ saved' = IF restored THEN SaveSession(tabs, active) ELSE saved
    /\ tabs' = <<>> /\ active' = None /\ work' = [t \in Tab |-> "idle"]
    /\ asking' = <<>> /\ answers' = {} /\ restored' = FALSE /\ reading' = None
    /\ UNCHANGED sent

RestoreSession ==
    /\ ~restored /\ restored' = TRUE
    /\ reading' = IF saved.tabs = <<>> THEN None ELSE saved
    /\ UNCHANGED <<tabs, active, work, asking, answers, sent, saved, reloads>>

\* A descriptor after the other; one that cannot be rebuilt is passed over.
RestoreTab ==
    /\ reading # None /\ reading.tabs # <<>>
    /\ reading' = [reading EXCEPT !.tabs = Tail(@)]
    /\ \/ Show(Head(reading.tabs), asking)
       \/ UNCHANGED <<tabs, active, work, asking, saved>>
    /\ UNCHANGED <<answers, sent, restored, reloads>>

RestoreFront ==
    /\ reading # None /\ reading.tabs = <<>>
    /\ reading' = None
    /\ \/ reading.active <= Len(tabs) /\ Show(tabs[reading.active], asking)
       \/ reading.active > Len(tabs) /\ UNCHANGED <<tabs, active, work, asking, saved>>
    /\ UNCHANGED <<answers, sent, restored, reloads>>

-----------------------------------------------------------------------------
Next ==
    \/ \E t \in Tab : OpenTab(t) \/ CloseTab(t) \/ CloseOtherTabs(t) \/ WorkEnds(t)
    \/ CloseAllTabs \/ Stay \/ Agree \/ \E kind \in {"running", "unsaved"} : Work(kind)
    \/ \E does \in {"open", "drop", "rename"}, t \in Tab : Send(does, t)
    \/ \E a \in answers : Answered(a)
    \/ Reload \/ RestoreSession \/ RestoreTab \/ RestoreFront

Spec == Init /\ [][Next]_vars

-----------------------------------------------------------------------------
(* Properties *)

\* A tab with a running query or an unsaved edit leaves the tab bar only after
\* its own dialog was agreed to.  The exceptions are a renamed object, whose
\* tab is closed unasked, a reload, and a list that changed under the dialog,
\* where closeTab removes the wrong tab (app.js closeTab, closeAllTabs).
OnlyAgreedTabsClose ==
    \A t \in Open \ ToSet(tabs') :
       \/ work[t] = "idle" \/ reloads' # reloads
       \/ [does |-> "rename", tab |-> t] \in answers \ answers'
       \/ ~Free /\ (Head(asking).asked = t \/ Head(asking).under # tabs)

\* The tab in front is an open one, unless the list of tabs changed under a
\* dialog: then a closed tab may be brought to the front, and the page is blank
\* (app.js closeTab, setActiveTab).
FrontStaysOpen ==
    (active \in Open \/ Open = {}) /\ active' \notin ToSet(tabs') /\ tabs' # <<>>
       => ~Free /\ Head(asking).under # tabs

\* The session a page leaves behind names the tab in front, counted among the
\* tabs that come back (app.js saveSession at pagehide, restoreSession).
FrontComesBack ==
    reloads' # reloads /\ restored /\ active \in Open \ Ephemeral
       => /\ saved'.active \in DOMAIN saved'.tabs
          /\ saved'.tabs[saved'.active] = active

\* Said of restoreSession, and not so: while tabs are still to be rebuilt the
\* session in localStorage has them all.
SessionSurvivesItsReading ==
    reading # None => ToSet(reading.tabs) \subseteq ToSet(saved.tabs)
=============================================================================
