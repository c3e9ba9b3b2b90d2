------------------------------ MODULE Designer ------------------------------
(***************************************************************************)
(* The component designer of one tab (designer.js buildDesigner): the       *)
(* document with its undo history, the three views, the rows read from the  *)
(* document's source, the modules that formulas call, and the behaviour     *)
(* that runs in Preview.  Each action is the code between two awaits.       *)
(*                                                                         *)
(* A document is its source, its modules and a body that stands for all     *)
(* that is only drawn.  Timers fire at any time.                            *)
(***************************************************************************)
EXTENDS Naturals, FiniteSets, Sequences, SequencesExt

CONSTANTS Source, Module, None,
          Classes,       \* the classes a document attaches of each module
          HistoryDepth,  \* HISTORY_DEPTH
          MaxEdits,      \* bound: edits and steps taken back or again
          MaxPresses,    \* bound: presses of the view switcher, one more while it
                         \* switches, and modules saved
          MaxInstances   \* bound: instances built

Mode == {"design", "code", "preview"}
Document == [source : Source \cup {None}, modules : SUBSET Module, body : {0, 1}]
NoDocument == [source |-> None, modules |-> {}, body |-> 2]

\* Who brings the scope or the behaviour up to date: the view switch, the
\* follow-through, a tick in Settings, a module saved in its tab, the close.
Owner == {"switch", "follow", "tick", "saved", "close"}

VARIABLES
    doc, past, future, key,     \* model.doc and history, whose state is doc
    typed,                      \* typedFrom: the document a run of typing began with
    followFrom, follow,         \* the follow-through waiting, and the one running
    mode, switch, wanted,       \* wanted: what a press during a switch asked for
    rows, reading, reader,      \* the source of the rows on screen; of the latest read; who waits for it
    scope, instances, attached, \* what formulas call; behaviour.instances; handler sets
    connected,                  \* instances marked as started
    alive,                      \* instances connected() and not yet disconnected()
    built,                      \* how many instances there were
    task,                       \* per owner, refreshExpressionScope or startBehaviour
    closed, edits, presses,
    adrift, overlapped  \* history: of known departures, see the properties

history == <<doc, past, future, key>>
follows == <<typed, followFrom, follow>>
views == <<mode, switch, wanted, presses>>
reads == <<rows, reading, reader>>
behaviour == <<scope, instances, attached, connected, alive, built, task>>
others == <<closed, edits, adrift, overlapped>>
vars == <<history, follows, views, reads, behaviour, others>>

Idle == [at |-> "idle", start |-> FALSE, list |-> <<>>, next |-> 0, names |-> {}, overtaken |-> FALSE]
Resting == [at |-> "idle", from |-> NoDocument]
Still == [at |-> "idle", to |-> None, wait |-> 0]

TypeOK ==
    /\ doc \in Document /\ past \in Seq(Document) /\ future \in Seq(Document)
    /\ Len(past) <= HistoryDepth /\ key \in {"none", "box", "document"}
    /\ typed \in Document \cup {NoDocument} /\ followFrom \in Document \cup {NoDocument}
    /\ follow.at \in {"idle", "rows", "scope"} /\ switch.at \in {"idle", "settle", "rows", "scope"}
    /\ mode \in Mode /\ wanted \in Mode \cup {None}
    /\ rows \in Source \cup {None} /\ reading \in Source \cup {None} /\ reader \in {"panel", "follow", "switch"}
    /\ scope \subseteq Module /\ instances \in Seq(1..MaxInstances)
    /\ attached \in Nat /\ alive \subseteq connected /\ connected \subseteq 1..built
    /\ \A o \in Owner : task[o].at \in {"idle", "stop", "load", "connect"}
    /\ (task["follow"] # Idle => follow.at = "scope") /\ (task["switch"] # Idle => switch.at = "scope")

Init ==
    /\ doc \in [source : Source, modules : {Module}, body : {0}]
    /\ past = <<>> /\ future = <<>> /\ key = "none"
    /\ typed = NoDocument /\ followFrom = NoDocument /\ follow = Resting
    /\ mode \in Mode /\ switch = Still /\ wanted = None /\ presses = 0
    /\ rows = doc.source /\ reading = None /\ reader = "panel"
    /\ scope = doc.modules /\ built = Classes * Cardinality(doc.modules) /\ instances = [i \in 1..built |-> i]
    /\ connected = (IF mode = "preview" THEN 1..built ELSE {}) /\ alive = connected
    /\ attached = (IF mode = "preview" THEN 1 ELSE 0)
    /\ task = [o \in Owner |-> Idle]
    /\ closed = FALSE /\ edits = 0 /\ adrift = {} /\ overlapped = FALSE

SameSource(d, e) == d.source = e.source
SameModules(d, e) == d.modules = e.modules

\* A follow-through begins as soon as none runs, before anything else happens.
Prompt == follow # Resting \/ followFrom = NoDocument

\* What of one document is not of another.
Unlike(d, e) == {what \in {"rows", "scope"} : IF what = "rows" THEN ~SameSource(d, e) ELSE ~SameModules(d, e)}
UnlikeRun(d) == IF typed = NoDocument THEN {} ELSE Unlike(typed, d)

\* What a follow-through is still to be measured for: a read or a build that begins
\* now may be of a document it will not see.
Early(d) == UnlikeRun(d) \cup (IF followFrom = NoDocument THEN {} ELSE Unlike(followFrom, d))

-----------------------------------------------------------------------------
(* The scope and the behaviour *)

\* Mutated: nobody is told.
NoneConnected(t) == {}

\* stopBehaviour, from the next connected instance on: it is disconnected, and
\* awaited.  The instances and handlers are forgotten at the end.
NextConnected(t) ==
    {i \in t.next..Len(t.list) : t.list[i] \in connected /\ \A j \in t.next..(i - 1) : t.list[j] \notin connected}

\* Mutated: a scope built meanwhile does not count.
OvertakeNone(tasks) == tasks

\* scopeBuild: a build that begins overtakes those still reading.
Overtake(tasks) ==
    [o \in Owner |-> IF tasks[o].at = "load" THEN [tasks[o] EXCEPT !.overtaken = TRUE] ELSE tasks[o]]

\* From the call of startBehaviour or refreshExpressionScope, and after each await
\* of its stop; then the build begins.
Stopping(o, t, d) ==
    IF NextConnected(t) # {}
    THEN LET i == CHOOSE i \in NextConnected(t) : TRUE
         IN /\ task' = [task EXCEPT ![o] = [t EXCEPT !.at = "stop", !.next = i + 1]]
            /\ alive' = alive \ {t.list[i]}
            /\ UNCHANGED <<scope, instances, attached, connected, built, adrift>>
    ELSE /\ instances' = <<>> /\ attached' = 0
         /\ IF o = "close" THEN task' = [task EXCEPT ![o] = Idle] /\ UNCHANGED <<scope, adrift>>
            ELSE /\ task' = [Overtake(task) EXCEPT ![o] =
                                [Idle EXCEPT !.at = "load", !.start = t.start, !.names = d.modules]]
                 /\ scope' = {} /\ adrift' = adrift \cup (Early(d) \cap {"scope"})
         /\ UNCHANGED <<connected, alive, built>>

Begin(o, start, d) ==
    /\ task[o] = Idle
    /\ Stopping(o, [Idle EXCEPT !.start = start, !.list = instances, !.next = 1], d)
    /\ overlapped' = \/ overlapped
                     \/ \E p \in Owner : task[p] # Idle
                     \/ o = "close" /\ <<switch, follow, followFrom>> # <<Still, Resting, NoDocument>>

Stop(o) ==
    /\ task[o].at = "stop" /\ Stopping(o, task[o], doc)
    /\ UNCHANGED <<history, follows, views, reads, closed, edits, overlapped>>

\* The instances a start has connected up to i, and the handlers it then attaches.
ConnectUpTo(o, list, i) ==
    /\ connected' = connected \cup {list[i]} /\ alive' = alive \cup {list[i]}
    /\ task' = [task EXCEPT ![o] = [Idle EXCEPT !.at = "connect", !.list = list, !.next = i + 1]]
    /\ UNCHANGED attached

\* The files are read.  A build that was overtaken leaves things to the other;
\* else what the modules export is the scope, and their classes are built where
\* the document still names them.  startBehaviour goes on to connect them.
Load(o) ==
    LET t == task[o]
        new == [i \in 1..(Classes * Cardinality(t.names \cap doc.modules)) |-> built + i]
        starts == t.start /\ ~t.overtaken
    IN /\ t.at = "load" /\ built + Len(new) <= MaxInstances
       /\ IF t.overtaken THEN UNCHANGED <<scope, instances, built>>
          ELSE scope' = t.names /\ instances' = instances \o new /\ built' = built + Len(new)
       /\ IF starts /\ instances' # <<>> THEN ConnectUpTo(o, instances', 1)
          ELSE /\ task' = [task EXCEPT ![o] = Idle]
               /\ attached' = IF starts THEN attached + 1 ELSE attached
               /\ UNCHANGED <<connected, alive>>
       /\ UNCHANGED <<history, follows, views, reads, others>>

\* Each connected() is awaited; attachHandlers comes after the last.
Connect(o) ==
    /\ task[o].at = "connect" /\ task[o].next <= Len(task[o].list)
    /\ ConnectUpTo(o, task[o].list, task[o].next)
    /\ UNCHANGED <<scope, instances, built, history, follows, views, reads, others>>

Attach(o) ==
    /\ task[o].at = "connect" /\ task[o].next > Len(task[o].list)
    /\ attached' = attached + 1 /\ task' = [task EXCEPT ![o] = Idle]
    /\ UNCHANGED <<scope, instances, connected, alive, built, history, follows, views, reads, others>>

-----------------------------------------------------------------------------
(* The document *)

\* loadRows: the rows are gone until this read, the latest, lands.
ReadRows(d, who) == rows' = None /\ reading' = d.source /\ reader' = who
Waits(who) == reading # None /\ reader = who

\* recordHistory: an edit joins the run it continues, which is over after a while.
Record(d, run) ==
    \E quick \in BOOLEAN :
        LET continues == run # "none" /\ run = key /\ quick
            longer == Append(past, doc)
        IN /\ quick => run # "none" /\ run = key
           /\ IF continues THEN UNCHANGED <<past, future>>
              ELSE /\ past' = IF Len(longer) > HistoryDepth THEN Tail(longer) ELSE longer
                   /\ future' = <<>>
           /\ key' = run /\ doc' = d

Edited == edits < MaxEdits /\ edits' = edits + 1 /\ ~closed /\ Prompt /\ UNCHANGED closed

\* Drawing, or a property: nothing but the drawing follows.
Draw(run) ==
    /\ Edited /\ Record([doc EXCEPT !.body = 1 - @], run)
    /\ UNCHANGED <<follows, views, reads, behaviour, adrift, overlapped>>

\* Another endpoint is chosen in Settings.
ChooseSource(s) ==
    /\ s # doc.source /\ Edited /\ Record([doc EXCEPT !.source = s], "none")
    /\ ReadRows(doc', "panel") /\ adrift' = adrift \cup (Early(doc') \cap {"rows"})
    /\ UNCHANGED <<follows, views, behaviour, overlapped>>

\* A module is ticked or cleared: followModules.
Tick(m) ==
    /\ Edited
    /\ Record([doc EXCEPT !.modules = IF m \in @ THEN @ \ {m} ELSE @ \cup {m}], "none")
    /\ Begin("tick", mode = "preview", doc')
    /\ UNCHANGED <<follows, views, reads>>

\* A module is made here: the document names it, and nothing follows.
NewModule(m) ==
    /\ m \notin doc.modules /\ Edited
    /\ Record([doc EXCEPT !.modules = @ \cup {m}], "none")
    /\ adrift' = adrift \cup {"scope"}
    /\ UNCHANGED <<follows, views, reads, behaviour, overlapped>>

\* A character typed in Code that makes a document (documentEdited); one that
\* makes none leaves the last that did.  It is followed when the run is over.
\* Bound: what is only drawn stays.
TypeDocument(d) ==
    /\ mode = "code" /\ d # doc /\ d.body = doc.body /\ Edited /\ Record(d, "document")
    /\ typed' = IF typed = NoDocument THEN doc ELSE typed
    /\ UNCHANGED <<followFrom, follow, views, reads, behaviour, adrift, overlapped>>

\* What a dropped run had to bring up to date, and the step does not, or may not as
\* more steps come before it is followed.
Dropped(d) ==
    IF followFrom # NoDocument THEN {}
    ELSE UnlikeRun(doc) \ (IF follow = Resting THEN Unlike(doc, d) ELSE {})

\* travel: the run of typing is dropped, and the step followed.
Travel(from, to, newFrom, newTo) ==
    /\ from # <<>> /\ Edited /\ key' = "none"
    /\ doc' = Last(from) /\ newFrom = Front(from) /\ newTo = Append(to, doc)
    /\ typed' = NoDocument /\ adrift' = adrift \cup Dropped(doc')
    /\ followFrom' = IF followFrom = NoDocument THEN doc ELSE followFrom
    /\ UNCHANGED <<follow, views, reads, behaviour, overlapped>>

Undo == Travel(past, future, past', future')
Redo == Travel(future, past, future', past')

-----------------------------------------------------------------------------
(* Following the document: one at a time, each from the earliest waiting *)

\* followTypedDocument's timer.
TypedRunEnds ==
    /\ typed # NoDocument /\ ~closed /\ Prompt /\ typed' = NoDocument
    /\ followFrom' = IF followFrom = NoDocument THEN typed ELSE followFrom
    /\ UNCHANGED <<history, follow, views, reads, behaviour, others>>

\* followDocument: the rows first.  A run of typing goes on, whatever it began with.
FollowBegins ==
    /\ follow = Resting /\ followFrom # NoDocument /\ followFrom' = NoDocument
    /\ follow' = [at |-> "rows", from |-> followFrom]
    /\ IF SameSource(followFrom, doc) THEN UNCHANGED reads ELSE ReadRows(doc, "follow")
    /\ adrift' = adrift \cup (UnlikeRun(doc) \cap {"rows"})
    /\ UNCHANGED <<history, typed, views, behaviour, closed, edits, overlapped>>

\* Then the modules, when its read is over or a later one makes it useless.
FollowModules ==
    /\ follow.at = "rows" /\ ~Waits("follow")
    /\ IF SameModules(follow.from, doc)
       THEN /\ follow' = [follow EXCEPT !.at = "scope"]
            /\ adrift' = adrift \cup (Early(doc) \cap {"scope"}) /\ UNCHANGED <<behaviour, overlapped>>
       ELSE follow' = [follow EXCEPT !.at = "scope"] /\ Begin("follow", mode = "preview", doc)
    /\ UNCHANGED <<history, typed, followFrom, views, reads, closed, edits>>

FollowEnds ==
    /\ follow.at = "scope" /\ task["follow"] = Idle
    /\ follow' = Resting /\ switch' = [switch EXCEPT !.wait = IF @ > 0 THEN @ - 1 ELSE 0]
    /\ UNCHANGED <<history, typed, followFrom, mode, wanted, presses, reads, behaviour, others>>

\* A read lands, or fails; one that is not the latest does neither.
Landed ==
    /\ reading # None /\ reading' = None /\ reader' = "panel" /\ rows' \in {None, reading}
    /\ UNCHANGED <<history, follows, views, behaviour, others>>

-----------------------------------------------------------------------------
(* The views *)

\* setMode and enterMode up to its first await: the run of typing is settled.
Enter(m) ==
    LET settles == typed # NoDocument
    IN /\ switch' = [at |-> "settle", to |-> m,
                     wait |-> IF settles THEN 1 + (IF follow # Resting THEN 1 ELSE 0) ELSE 0]
       /\ typed' = NoDocument
       /\ followFrom' = IF settles /\ followFrom = NoDocument THEN typed ELSE followFrom

Press(m) ==
    /\ presses < MaxPresses + (IF switch = Still THEN 0 ELSE 1) /\ presses' = presses + 1 /\ ~closed /\ Prompt
    /\ IF switch # Still THEN wanted' = m /\ UNCHANGED <<typed, followFrom, switch>>
       ELSE m # mode /\ Enter(m) /\ UNCHANGED wanted
    /\ UNCHANGED <<history, follow, mode, reads, behaviour, others>>

\* The mode is taken, and Preview reads its rows.
TakeMode ==
    /\ switch.at = "settle" /\ switch.wait = 0
    /\ mode' = switch.to /\ switch' = [switch EXCEPT !.at = "rows"]
    /\ IF switch.to = "preview" 
       THEN ReadRows(doc, "switch") /\ adrift' = adrift \cup (Early(doc) \cap {"rows"})
       ELSE UNCHANGED <<reads, adrift>>
    /\ UNCHANGED <<history, follows, wanted, presses, behaviour, closed, edits, overlapped>>

SwitchBehaviour ==
    /\ switch.at = "rows" /\ ~Waits("switch") /\ switch' = [switch EXCEPT !.at = "scope"]
    /\ Begin("switch", mode = "preview", doc)
    /\ UNCHANGED <<history, follows, mode, wanted, presses, reads, closed, edits>>

\* Whatever was pressed last meanwhile is entered next.
SwitchEnds ==
    /\ switch.at = "scope" /\ task["switch"] = Idle /\ wanted' = None
    /\ IF wanted \in {None, mode} THEN switch' = Still /\ UNCHANGED <<typed, followFrom>> ELSE Enter(wanted)
    /\ UNCHANGED <<history, follow, mode, presses, reads, behaviour, others>>

\* moduleSaved, for a module this component uses.
ModuleSaved ==
    /\ presses < MaxPresses /\ presses' = presses + 1
    /\ doc.modules # {} /\ ~closed /\ Prompt /\ Begin("saved", mode = "preview" /\ switch.at # "rows", doc)
    /\ UNCHANGED <<history, follows, mode, switch, wanted, reads, closed, edits>>

\* tab.onClose
Close ==
    /\ ~closed /\ Prompt /\ closed' = TRUE /\ Begin("close", FALSE, doc)
    /\ UNCHANGED <<history, follows, views, reads, edits>>

-----------------------------------------------------------------------------
Next ==
    \/ \E run \in {"none", "box"} : Draw(run)
    \/ \E s \in Source \cup {None} : ChooseSource(s)
    \/ \E m \in Module : Tick(m) \/ NewModule(m)
    \/ \E d \in Document : TypeDocument(d)
    \/ Undo \/ Redo \/ TypedRunEnds \/ FollowBegins \/ FollowModules \/ FollowEnds \/ Landed
    \/ \E m \in Mode : Press(m)
    \/ TakeMode \/ SwitchBehaviour \/ SwitchEnds \/ ModuleSaved \/ Close
    \/ \E o \in Owner : Stop(o) \/ Load(o) \/ Connect(o) \/ Attach(o)

Spec == Init /\ [][Next]_vars

-----------------------------------------------------------------------------
(* Properties *)

Settled ==
    /\ typed = NoDocument /\ followFrom = NoDocument /\ follow = Resting /\ switch = Still
    /\ \A o \in Owner : task[o] = Idle

\* When all is followed, the rows on screen are those of the document's source
\* and formulas reach what its modules export, however edits, undo, views and
\* late reads interleaved; but for a run of typing that a step dropped or that went
\* on while something else was followed, and a new module (designer.js
\* followDocumentChange, followTypedDocument, loadRows, rebuildScope).
DocumentIsFollowed ==
    Settled /\ ~closed =>
        /\ "rows" \notin adrift => rows \in {None, doc.source} /\ reading \in {None, doc.source}
        /\ "scope" \notin adrift => scope = doc.modules

\* Unless two of them overlapped, Preview has connected each instance it holds,
\* once, and attached its handlers once; elsewhere, and once closed, nothing runs
\* (designer.js startBehaviour, stopBehaviour).
RunsWhatItHolds ==
    Settled /\ ~overlapped =>
        IF mode = "preview" /\ ~closed
        THEN alive = ToSet(instances) /\ attached = 1
        ELSE alive = {} /\ attached = 0

\* The comment on the behaviour says that "leaving the component takes it all away again and
\* running it twice cannot stack up two sets of listeners" (designer.js:8945-8946).
ListenersNeverStack == attached <= 1
=============================================================================
