------------------------------ MODULE DataTab ------------------------------
(***************************************************************************)
(* The tab of a table or a view (buildDataObjectTab in app.js): its four    *)
(* views, the structure it caches, the data it streams and the definition   *)
(* that is edited in it.  Each action is the code between two awaits; a     *)
(* render that waits for the structure goes on when the structure is there, *)
(* whichever view is on by then.                                            *)
(*                                                                         *)
(* A structure is the version of the schema it was read at, a filter or a   *)
(* sort is a version of the filters.  Columns, rows and profiles are left   *)
(* out.                                                                    *)
(***************************************************************************)
EXTENDS Naturals, Sequences

CONSTANTS MaxRenders,  \* bound: renders of a view
          MaxChanges,  \* bound: changes of the schema, and refreshes
          MaxFilters,  \* bound: changes of the filters
          MaxEdits     \* bound: edits of the definition

VARIABLES
    object,      \* "table" or "view"
    schema,      \* the version of the schema in the database
    generation,  \* state.metadataGeneration
    refreshed,   \* the schema at the last refresh
    cache,       \* the structure in state.structures, or Nothing
    reads,       \* the loads of the structure
    promise,     \* structurePromise and structureGeneration
    view,        \* currentView
    renders,     \* the renders of a view
    active,      \* activeDataLoad, as the number of its render; 0 is null
    body,        \* the render whose content is on screen, and whether it loads
    filters,     \* grid.filters, grid.sort
    ddl,         \* a change of the table is on its way
    editor,      \* the editor of the definition
    sent,        \* the text being executed, and whether its editor is on screen
    definition,  \* the definition in the database
    dialog       \* what the person is asked to let go for

metadata == <<schema, generation, refreshed, cache, reads, promise>>
screen == <<view, renders, active, body>>
edit == <<editor, sent, definition, dialog>>
vars == <<object, metadata, screen, filters, ddl, edit>>

Nothing == MaxChanges + 1
Views == {"Data", "Profile", "Structure", "Definition"}
NoEditor == [on |-> FALSE, text |-> 0, applied |-> 0, unsaved |-> FALSE, guarded |-> FALSE]
NotSent == [text |-> MaxEdits + 1, own |-> FALSE]

TypeOK ==
    /\ object \in {"table", "view"}
    /\ {schema, refreshed} \subseteq 0..MaxChanges /\ generation \in Nat
    /\ cache \in 0..Nothing
    /\ reads \in Seq([generation : Nat, version : 0..Nothing, at : {"sent", "served", "done", "failed"}])
    /\ promise \in [read : 0..Len(reads), generation : Nat]
    /\ view \in Views
    /\ renders \in Seq([view : Views, at : {"structure", "request", "done", "dropped"},
                        read : 0..Len(reads), filters : 0..MaxFilters])
    /\ active \in 0..Len(renders)
    /\ body \in [render : 0..Len(renders), loading : BOOLEAN]
    /\ filters \in 0..MaxFilters /\ ddl \in {"none", "sent", "done"}
    /\ editor \in [on : BOOLEAN, text : 0..MaxEdits, applied : 0..MaxEdits,
                   unsaved : BOOLEAN, guarded : BOOLEAN]
    /\ sent \in [text : 0..MaxEdits, own : BOOLEAN] \cup {NotSent}
    /\ definition \in 0..MaxEdits /\ dialog \in Views \cup {"none", "close", "closed"}

Init ==
    /\ object \in {"table", "view"}
    /\ schema = 0 /\ generation = 0 /\ refreshed = 0 /\ cache = Nothing
    /\ reads = <<>> /\ promise = [read |-> 0, generation |-> 0]
    /\ view = "Data" /\ renders = <<>> /\ active = 0
    /\ body = [render |-> 0, loading |-> FALSE]
    /\ filters = 0 /\ ddl = "none"
    /\ editor = NoEditor /\ sent = NotSent /\ definition = 0 /\ dialog = "none"

Free == dialog = "none"   \* no dialog, and the tab is open
Shows(v) == body.render # 0 /\ renders[body.render].view = v

-----------------------------------------------------------------------------
(* The structure *)

\* What ensureStructure leaves in reads and promise: a promise of generation g
\* is shared, a structure c in the cache is there at once.
ReadOf(g, c) == [generation |-> g, version |-> c, at |-> IF c = Nothing THEN "sent" ELSE "done"]
Ensured(g, c) ==
    IF promise.read # 0 /\ promise.generation = g
    THEN [reads |-> reads, promise |-> promise]
    ELSE [reads |-> Append(reads, ReadOf(g, c)),
          promise |-> [read |-> Len(reads) + 1, generation |-> g]]

ReadServed(r) ==
    /\ reads[r].at = "sent"
    /\ reads' = [reads EXCEPT ![r].at = "served", ![r].version = schema]
    /\ UNCHANGED <<object, schema, generation, refreshed, cache, promise, screen, filters, ddl, edit>>

\* Mutated: whether the render is still the active one is not looked at.
ContinuingAll(r) == {n \in DOMAIN renders : renders[n].at = "structure" /\ renders[n].read = r}

\* The renders that the end of a read sets going, the last of which is seen.
\* A render of the data that is no longer the active one ends; a profile goes on.
Continuing(r) ==
    {n \in DOMAIN renders : renders[n].at = "structure" /\ renders[n].read = r
                            /\ (renders[n].view = "Data" => active = n)}

\* A profile that has its columns waits for the person.
GoOn(r, goOn) ==
    /\ renders' = [n \in DOMAIN renders |->
          IF renders[n].at # "structure" \/ renders[n].read # r THEN renders[n]
          ELSE IF n \in goOn /\ renders[n].view = "Data"
               THEN [renders[n] EXCEPT !.at = "request", !.filters = filters]
          ELSE [renders[n] EXCEPT !.at = IF n \in goOn THEN "done" ELSE "dropped"]]
    /\ body' = IF goOn = {} THEN body
               ELSE [render |-> CHOOSE n \in goOn : \A m \in goOn : m <= n, loading |-> FALSE]

\* Mutated: whatever came is cached.
ReadDoneStale(r) ==
    /\ reads[r].at = "served"
    /\ reads' = [reads EXCEPT ![r].at = "done"] /\ cache' = reads[r].version
    /\ GoOn(r, Continuing(r))
    /\ UNCHANGED <<object, schema, generation, refreshed, promise, view, active, filters, ddl, edit>>

\* loadStructureMetadata: a structure from before a refresh is read again.
ReadDone(r) ==
    /\ reads[r].at = "served"
    /\ \/ /\ reads[r].generation = generation
          /\ reads' = [reads EXCEPT ![r].at = "done"] /\ cache' = reads[r].version
          /\ GoOn(r, Continuing(r))
       \/ /\ reads[r].generation # generation
          /\ reads' = [reads EXCEPT ![r] = ReadOf(generation, cache)]
          /\ IF cache = Nothing THEN UNCHANGED <<renders, body>> ELSE GoOn(r, Continuing(r))
          /\ UNCHANGED cache
    /\ UNCHANGED <<object, schema, generation, refreshed, promise, view, active, filters, ddl, edit>>

\* The data are shown raw, the profile shows the error; the next one tries again.
ReadFails(r) ==
    /\ reads[r].at \in {"sent", "served"}
    /\ reads' = [reads EXCEPT ![r].at = "failed"]
    /\ promise' = IF promise.read = r THEN [promise EXCEPT !.read = 0] ELSE promise
    /\ GoOn(r, Continuing(r))
    /\ UNCHANGED <<object, schema, generation, refreshed, cache, view, active, filters, ddl, edit>>

-----------------------------------------------------------------------------
(* Rendering a view, with filters f, generation g and the cached structure c *)

Fresh(v, at, r, f) == [view |-> v, at |-> at, read |-> r, filters |-> f]
Number == Len(renders) + 1

\* Data of a table, and profiles, need the structure first.
Await(v, f, g, c) ==
    LET r == Ensured(g, c).promise.read
        ready == Ensured(g, c).reads[r].at = "done"
        at == IF ~ready THEN "structure" ELSE IF v = "Data" THEN "request" ELSE "done"
    IN /\ reads' = Ensured(g, c).reads /\ promise' = Ensured(g, c).promise
       /\ renders' = Append(renders, Fresh(v, at, r, f))
       /\ body' = IF ~ready /\ v = "Data" THEN body
                  ELSE [render |-> Number, loading |-> ~ready]

AtOnce(v, f) ==
    /\ renders' = Append(renders, Fresh(v, "request", 0, f))
    /\ body' = [render |-> Number, loading |-> v # "Data"]
    /\ UNCHANGED <<reads, promise>>

Render(v, f, g, c) ==
    /\ Number <= MaxRenders
    /\ active' = IF v = "Data" THEN Number ELSE 0
    /\ IF v = "Profile" \/ (v = "Data" /\ object = "table") THEN Await(v, f, g, c)
       ELSE AtOnce(v, f)

\* The editor goes with the body it is in; what it has sent is still answered.
LeaveEditor ==
    LET leaves == body' # body
    IN /\ editor' = IF leaves THEN NoEditor ELSE editor
       /\ sent' = IF leaves THEN [sent EXCEPT !.own = FALSE] ELSE sent

\* switchView, once the edit may go.
Enter(v) ==
    /\ view' = v /\ Render(v, filters, generation, cache)
    /\ LeaveEditor
    /\ UNCHANGED <<object, schema, generation, refreshed, cache, filters, ddl, definition>>

\* The guard is not asked when the view is clicked that is on.
SwitchView(v) ==
    /\ Free
    /\ IF v # view /\ editor.guarded /\ editor.unsaved
       THEN dialog' = v /\ UNCHANGED <<object, metadata, screen, filters, ddl, editor, sent, definition>>
       ELSE Enter(v) /\ UNCHANGED dialog

\* A filter or a sort is chosen, rows are imported: renderData.
SetFilters ==
    /\ Free /\ view = "Data" /\ Shows("Data")
    /\ filters < MaxFilters /\ filters' = filters + 1
    /\ Render("Data", filters', generation, cache) /\ LeaveEditor
    /\ UNCHANGED <<object, schema, generation, refreshed, cache, view, ddl, definition, dialog>>

\* The rows are all there, the stream fails, or it is cancelled.
StreamEnds(n) ==
    /\ renders[n].view = "Data" /\ renders[n].at = "request"
    /\ renders' = [renders EXCEPT ![n].at = "done"]
    /\ active' = IF active = n THEN 0 ELSE active
    /\ UNCHANGED <<object, metadata, view, body, filters, ddl, edit>>

\* renderStructure and renderTableDefinition take the body, whoever has it.
Answered(n) ==
    /\ renders[n].view \in {"Structure", "Definition"} /\ renders[n].at = "request"
    /\ renders' = [renders EXCEPT ![n].at = "done"]
    /\ body' = [render |-> n, loading |-> FALSE]
    /\ IF renders[n].view = "Definition" /\ object = "view"
       THEN /\ editor' = [NoEditor EXCEPT !.on = TRUE, !.text = definition,
                                          !.applied = definition, !.guarded = TRUE]
            /\ sent' = [sent EXCEPT !.own = FALSE]
       ELSE LeaveEditor
    /\ UNCHANGED <<object, metadata, view, active, filters, ddl, definition, dialog>>

-----------------------------------------------------------------------------
(* Changes of the schema and refreshes *)

Invalidate ==
    /\ generation' = generation + 1 /\ refreshed' = schema /\ cache' = Nothing

\* loadObjects: the sidebar is refreshed; the data in front are read again.
Refresh ==
    /\ generation < MaxChanges /\ Invalidate
    /\ \/ /\ view = "Data" /\ renders # <<>> /\ dialog # "closed"
          /\ Render("Data", filters, generation + 1, Nothing)
       \/ UNCHANGED <<reads, promise, renders, active, body>>
    /\ LeaveEditor
    /\ UNCHANGED <<object, schema, view, filters, ddl, definition, dialog>>

\* Another user changes the table.
Altered ==
    /\ schema < MaxChanges /\ schema' = schema + 1
    /\ UNCHANGED <<object, generation, refreshed, cache, reads, promise, screen, filters, ddl, edit>>

\* A column or a constraint is changed in the Structure view.
SendDdl ==
    /\ Free /\ ddl = "none" /\ object = "table" /\ Shows("Structure") /\ ~body.loading
    /\ ddl' = "sent"
    /\ UNCHANGED <<object, metadata, screen, filters, edit>>

DdlApplied ==
    /\ ddl = "sent" /\ schema < MaxChanges
    /\ ddl' = "done" /\ schema' = schema + 1
    /\ UNCHANGED <<object, generation, refreshed, cache, reads, promise, screen, filters, edit>>

\* invalidateStructure, then renderStructure, whichever view is on.
DdlAnswered ==
    /\ ddl = "done" /\ generation < MaxChanges /\ Number <= MaxRenders
    /\ ddl' = "none" /\ Invalidate
    /\ promise' = [read |-> 0, generation |-> 0]
    /\ renders' = Append(renders, Fresh("Structure", "request", 0, filters))
    /\ body' = [render |-> Number, loading |-> TRUE]
    /\ LeaveEditor
    /\ UNCHANGED <<object, schema, reads, view, active, filters, definition, dialog>>

-----------------------------------------------------------------------------
(* The definition of a view *)

Edit ==
    /\ Free /\ editor.on /\ editor.text < MaxEdits
    /\ editor' = [editor EXCEPT !.text = @ + 1, !.unsaved = editor.text + 1 # editor.applied]
    /\ UNCHANGED <<object, metadata, screen, filters, ddl, sent, definition, dialog>>

\* The Execute button, or the one of the dialog.  Bound: one execution at a time.
Execute ==
    /\ dialog # "closed" /\ editor.on /\ sent = NotSent
    /\ sent' = [text |-> editor.text, own |-> TRUE]
    /\ UNCHANGED <<object, metadata, screen, filters, ddl, editor, definition, dialog>>

\* What is in the editor by now counts as applied.
Executed ==
    /\ sent # NotSent /\ sent' = NotSent
    /\ definition' = sent.text
    /\ editor' = [editor EXCEPT !.applied = IF sent.own THEN editor.text ELSE @, !.unsaved = FALSE]
    /\ UNCHANGED <<object, metadata, screen, filters, ddl, dialog>>

ExecuteFails ==
    /\ sent # NotSent /\ sent' = NotSent
    /\ UNCHANGED <<object, metadata, screen, filters, ddl, editor, definition, dialog>>

Close ==
    /\ Free /\ dialog' = IF editor.guarded /\ editor.unsaved THEN "close" ELSE "closed"
    /\ editor' = IF dialog' = "closed" THEN NoEditor ELSE editor
    /\ UNCHANGED <<object, metadata, screen, filters, ddl, sent, definition>>

Asking == dialog \notin {"none", "closed"}

Stay ==
    /\ Asking /\ dialog' = "none"
    /\ UNCHANGED <<object, metadata, screen, filters, ddl, editor, sent, definition>>

\* "Discard changes", or "Execute" with success.
LetGo ==
    /\ Asking
    /\ \/ dialog \in Views /\ dialog' = "none" /\ Enter(dialog)
       \/ /\ dialog = "close" /\ dialog' = "closed" /\ editor' = NoEditor
          /\ UNCHANGED <<object, metadata, screen, filters, ddl, sent, definition>>

-----------------------------------------------------------------------------
Next ==
    \/ \E v \in Views : SwitchView(v)
    \/ \E r \in DOMAIN reads : ReadServed(r) \/ ReadDone(r) \/ ReadFails(r)
    \/ \E n \in DOMAIN renders : StreamEnds(n) \/ Answered(n)
    \/ SetFilters \/ Refresh \/ Altered \/ SendDdl \/ DdlApplied \/ DdlAnswered
    \/ Edit \/ Execute \/ Executed \/ ExecuteFails \/ Close \/ Stay \/ LetGo

Spec == Init /\ [][Next]_vars

-----------------------------------------------------------------------------
(* Properties *)

\* A cached structure was read after the last refresh (app.js
\* loadStructureMetadata), and the tab holds no promise that has failed
\* (ensureStructure).
StructureIsFresh ==
    /\ cache # Nothing => cache >= refreshed
    /\ promise.read # 0 => reads[promise.read].at # "failed"

\* The grid on screen is that of the newest load that has got past the
\* structure, and when no load is under way it was asked for with the filters of
\* now: a load that was overtaken while it waited never shows (app.js renderData).
GridIsTheNewest ==
    Shows("Data") =>
       /\ \A n \in DOMAIN renders : n > body.render /\ renders[n].view = "Data"
                                    => renders[n].at \in {"structure", "dropped"}
       /\ active = 0 => renders[body.render].filters = filters

\* Said of the guard, and not so: an edit the database does not have goes only
\* in answer to the dialog (app.js confirmDefinitionChanges, switchView).
EditIsNotLostUnasked ==
    [][editor.on /\ ~editor'.on /\ editor.text # definition => Asking]_vars
=============================================================================
