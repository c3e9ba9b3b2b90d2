----------------------------- MODULE RowEditor -----------------------------
(***************************************************************************)
(* Editing the rows of a table in its grid: openRowEditor and the row       *)
(* actions of renderData in app.js.  A row is addressed by its key, and the *)
(* one column of the model is that key, so that a save changes how the row  *)
(* is addressed; the column may be a foreign key, whose value is looked up. *)
(*                                                                         *)
(* Nobody else changes the table, and its structure is in the cache, so     *)
(* that renderData clears the grid in the turn that asks for it.  Other     *)
(* columns, NULLs, labels and the layout of the grid are left out.          *)
(***************************************************************************)
EXTENDS Naturals, Sequences, FiniteSets

CONSTANTS ForeignKey,   \* the column is a foreign key with a display
          Value,        \* the values of the column; row r is loaded with value r
          Known,        \* those the referenced table has
          MaxEditors,   \* bound: editors opened
          MaxTables,    \* bound: renders of the grid
          MaxSearches,  \* bound: searches of an editor
          MaxDeleted    \* bound: rows deleted at once, in the one deletion made

VARIABLES
    db,         \* the value of each row in the database
    tables,     \* the grids drawn; the last one is connected
    editors,    \* the editors opened, with what each one saves
    deletion,   \* the rows being deleted, from the dialog to its answer
    overtaken   \* history: an editor or its grid was left while it saved, or a
                \* deletion failed and left the rows of the others in the grid

vars == <<db, tables, editors, deletion, overtaken>>

Row == 1..2                 \* there may be one row at first, and one to insert
NewRow == 3
NoRow == 4
Empty == 0                  \* the empty text, and a row that is not there
Unset == 0                  \* selectedKey = null
Absent == [key |-> Empty, shown |-> Empty]

\* The closure of an editor; saving is at # "idle".
Editor(r, t) ==
    LET value == IF r = NewRow THEN Empty ELSE tables[t][r].shown
    IN [row |-> r, table |-> t, on |-> TRUE, text |-> value, selected |-> value, timer |-> FALSE,
        version |-> 0, pending |-> {}, awaits |-> 0, at |-> "idle",
        key |-> Empty, value |-> Empty, hit |-> NoRow, next |-> NoRow]

\* An editor that is gone and saves nothing has no effect any more.
Gone == [Editor(NewRow, 1) EXCEPT !.row = NoRow, !.on = FALSE]
Kept(ed) == IF ed.on \/ ed.at # "idle" THEN ed ELSE Gone

NoDeletion == [rows |-> {}, keys |-> <<>>, at |-> "none", left |-> {}, hits |-> {}, failed |-> FALSE]

TypeOK ==
    /\ overtaken \in BOOLEAN
    /\ db \in [Row -> Value \cup {Empty}]
    /\ tables \in Seq([Row -> [key : Value \cup {Empty}, shown : Value \cup {Empty}]])
    /\ Len(tables) \in 1..MaxTables
    /\ \A e \in DOMAIN editors :
         /\ editors[e].row \in Row \cup {NewRow, NoRow} /\ editors[e].table \in DOMAIN tables
         /\ {editors[e].text, editors[e].selected} \subseteq Value \cup {Empty}
         /\ editors[e].at \in {"idle", "resolving", "sent", "served", "refused"}
         /\ editors[e].at # "idle" /\ editors[e].row # NewRow => editors[e].next # editors[e].row
         /\ \A p \in editors[e].pending : p.version <= editors[e].version
    /\ deletion.at \in {"none", "asked", "sent", "done"} /\ deletion.left \subseteq deletion.rows

Loaded == [r \in Row |-> [key |-> db[r], shown |-> db[r]]]

Init ==
    /\ db \in {<<1, 2>>, <<1, Empty>>}
    /\ tables = <<Loaded>>
    /\ editors = <<>> /\ deletion = NoDeletion /\ overtaken = FALSE

-----------------------------------------------------------------------------
Saving(e) == editors[e].at # "idle"
On == {e \in DOMAIN editors : editors[e].on}
\* table.querySelector("tr.row-editor"): the first of them in the grid.
Current == CHOOSE e \in On : \A f \in On : editors[e].row <= editors[f].row

\* renderData, called from a grid where es are the editors.
RenderData(es) ==
    /\ Len(tables) < MaxTables
    /\ tables' = Append(tables, Loaded)
    /\ editors' = [e \in DOMAIN es |-> Kept([es[e] EXCEPT !.on = FALSE])]
    /\ overtaken' = (overtaken \/ \E e \in DOMAIN es : es[e].at # "idle")

\* An editor that ended well opens the one that waited for it.
Proceed(e, done) ==
    LET r == done.next
        es == [editors EXCEPT ![e] = Kept([done EXCEPT !.next = NoRow])]
        taken == r # NewRow /\ \E f \in On \ {e} : editors[f].row = r
    IN editors' = IF r = NoRow \/ done.table # Len(tables) \/ taken \/ Len(es) = MaxEditors
                  THEN es ELSE Append(es, Editor(r, done.table))

Submitted(ed) == IF ForeignKey /\ ed.selected # Unset THEN ed.selected ELSE ed.text

\* The rest of commit, once a foreign key is resolved: nothing to save, or a POST.
Submit(e, ed) ==
    IF ed.row # NewRow /\ Submitted(ed) = tables[ed.table][ed.row].shown
    THEN Proceed(e, [ed EXCEPT !.on = FALSE, !.at = "idle"])
    ELSE editors' = [editors EXCEPT ![e] = [ed EXCEPT !.at = "sent", !.value = Submitted(ed),
              !.key = IF ed.row = NewRow THEN Empty ELSE tables[ed.table][ed.row].key]]

Searching(ed, query) ==
    [ed EXCEPT !.version = @ + 1, !.timer = FALSE,
               !.pending = @ \cup {[version |-> ed.version + 1, query |-> query]}]

\* commit, for whoever waits to edit row r next.  A foreign key that is not
\* resolved is looked up, an empty one is refused.
Commit(e, r) ==
    LET ed == [editors[e] EXCEPT !.next = r]
    IN /\ ~Saving(e)
       /\ IF ForeignKey /\ ed.selected = Unset
          THEN /\ ed.text # Empty /\ ed.version < MaxSearches
               /\ editors' = [editors EXCEPT ![e] =
                     [Searching(ed, ed.text) EXCEPT !.at = "resolving", !.awaits = ed.version + 1]]
          ELSE Submit(e, ed)

Usable == deletion.at \in {"none", "done"}   \* no dialog over the grid

\* Ctrl+Enter, or the focus leaves the editor.
CommitEditor(e) ==
    /\ editors[e].on /\ Commit(e, NoRow)
    /\ UNCHANGED <<db, tables, deletion, overtaken>>

\* openRowEditor: a click on a row or on the blank line, or Tab past the last field.
OpenRowEditor(r) ==
    /\ Usable /\ (r # NewRow => tables[Len(tables)][r] # Absent)
    /\ \/ /\ On = {} /\ Len(editors) < MaxEditors
          /\ editors' = Append(editors, Editor(r, Len(tables)))
       \/ On # {} /\ (r = NewRow \/ editors[Current].row # r) /\ Commit(Current, r)
    /\ UNCHANGED <<db, tables, deletion, overtaken>>

\* Escape.  A save that is on its way goes on.
CancelEditor(e) ==
    /\ editors[e].on /\ Usable
    /\ editors' = [editors EXCEPT ![e] = Kept([@ EXCEPT !.on = FALSE])]
    /\ overtaken' = (overtaken \/ Saving(e))
    /\ UNCHANGED <<db, tables, deletion>>

\* Bound: nobody types in a row whose save is on its way.
Typing(e) == editors[e].on /\ editors[e].at \in {"idle", "resolving"} /\ Usable

Type(e, text) ==
    /\ Typing(e) /\ text # editors[e].text /\ (ForeignKey \/ text # Empty)
    /\ editors' = [editors EXCEPT ![e].text = text, ![e].selected = IF ForeignKey THEN Unset ELSE @,
                                  ![e].timer = ForeignKey]
    /\ UNCHANGED <<db, tables, deletion, overtaken>>

-----------------------------------------------------------------------------
(* The look-up of a foreign key *)

\* 250 ms after the last key.
Search(e) ==
    /\ editors[e].timer /\ editors[e].version < MaxSearches
    /\ editors' = [editors EXCEPT ![e] = Searching(@, @.text)]
    /\ UNCHANGED <<db, tables, deletion, overtaken>>

\* A suggestion is taken; all of them are, when the field was just entered.
Choose(e, k) ==
    /\ ForeignKey /\ Typing(e) /\ k \in Known
    /\ editors' = [editors EXCEPT ![e].text = k, ![e].selected = k]
    /\ UNCHANGED <<db, tables, deletion, overtaken>>

\* Mutated: commit goes on whatever the look-up found.
ResolvedAnyway(e, ed) == Submit(e, ed)

\* What commit does when its look-up has come back.
Resolved(e, ed) ==
    IF ed.selected # Unset THEN Submit(e, ed)
    ELSE editors' = [editors EXCEPT ![e] = Kept([ed EXCEPT !.at = "idle", !.next = NoRow])]

\* The answer, or the failure, of a search; only the newest one counts.
SearchAnswered(e, p, ok) ==
    LET found == ok /\ p.version = editors[e].version /\ p.query \in Known
        ed == [editors[e] EXCEPT !.pending = @ \ {p}, !.selected = IF found THEN p.query ELSE @]
    IN /\ p \in editors[e].pending
       /\ IF ed.at = "resolving" /\ ed.awaits = p.version THEN Resolved(e, ed)
          ELSE editors' = [editors EXCEPT ![e] = ed]
       /\ UNCHANGED <<db, tables, deletion, overtaken>>

-----------------------------------------------------------------------------
(* Saving *)

Addressed(key) == {r \in Row : db[r] = key}
Free(value) == \A r \in Row : db[r] # value

\* The server inserts or updates; a key that is taken, or not there, is refused.
Serve(e) ==
    LET ed == editors[e]
        target == IF ed.row = NewRow THEN Addressed(Empty) ELSE Addressed(ed.key)
    IN /\ ed.at = "sent"
       /\ \/ /\ target # {} /\ ed.value # Empty /\ Free(ed.value)
             /\ LET r == CHOOSE r \in target : TRUE
                IN /\ db' = [db EXCEPT ![r] = ed.value]
                   /\ editors' = [editors EXCEPT ![e].at = "served", ![e].hit = r]
          \/ editors' = [editors EXCEPT ![e].at = "refused"] /\ UNCHANGED db
       /\ UNCHANGED <<tables, deletion, overtaken>>

\* Mutated: the key of the row is not read again after the save.
PatchedKeepingKey(row, value) == [row EXCEPT !.shown = value]

\* existingRow takes the values, and rowKey.refresh its key from them.
Patched(row, value) == [row EXCEPT !.shown = value, !.key = value]

Saved(e) ==
    LET ed == editors[e]
    IN /\ ed.at = "served"
       /\ IF ed.row = NewRow
          THEN RenderData([editors EXCEPT ![e].at = "idle"]) /\ UNCHANGED db
          ELSE /\ Proceed(e, [ed EXCEPT !.at = "idle", !.on = FALSE])
               /\ tables' = [tables EXCEPT ![ed.table][ed.row] = Patched(@, ed.value)]
               /\ UNCHANGED <<db, overtaken>>
       /\ UNCHANGED deletion

SaveFailed(e) ==
    /\ editors[e].at = "refused"
    /\ editors' = [editors EXCEPT ![e] = Kept([@ EXCEPT !.at = "idle", !.next = NoRow])]
    /\ UNCHANGED <<db, tables, deletion, overtaken>>

\* A sort, a filter, a refresh: the rows are loaded again.
Reload ==
    /\ Usable /\ RenderData(editors) /\ UNCHANGED <<db, deletion>>

-----------------------------------------------------------------------------
(* Deleting the selected rows *)

AskDelete(rs) ==
    /\ deletion.at = "none" /\ rs # {} /\ Cardinality(rs) <= MaxDeleted
    /\ \A r \in rs : tables[Len(tables)][r] # Absent
    /\ deletion' = [NoDeletion EXCEPT !.rows = rs, !.at = "asked"]
    /\ UNCHANGED <<db, tables, editors, overtaken>>

\* The keys are those of the moment of the confirmation; all requests go at once.
ConfirmDelete ==
    /\ deletion.at = "asked"
    /\ deletion' = [deletion EXCEPT !.at = "sent", !.left = deletion.rows,
                       !.keys = [r \in deletion.rows |-> tables[Len(tables)][r].key]]
    /\ UNCHANGED <<db, tables, editors, overtaken>>

ServeDelete(r) ==
    /\ r \in deletion.left
    /\ \/ \E hit \in Addressed(deletion.keys[r]) :
            /\ db' = [db EXCEPT ![hit] = Empty]
            /\ deletion' = [deletion EXCEPT !.left = @ \ {r}, !.hits = @ \cup {<<r, hit>>}]
       \/ deletion' = [deletion EXCEPT !.left = @ \ {r}, !.failed = TRUE] /\ UNCHANGED db
    /\ UNCHANGED <<tables, editors, overtaken>>

\* All rows are gone and the grid is loaded again, or one request failed and the
\* dialog shows it, while others may still be under way; or it is not confirmed.
EndDelete ==
    /\ \/ /\ deletion.at = "sent" /\ deletion.left = {} /\ ~deletion.failed
          /\ RenderData(editors) /\ UNCHANGED db
       \/ /\ deletion.at = "asked" \/ (deletion.at = "sent" /\ deletion.failed /\ deletion.left = {})
          /\ overtaken' = (overtaken \/ deletion.failed) /\ UNCHANGED <<db, tables, editors>>
    /\ deletion' = [NoDeletion EXCEPT !.at = "done"]

-----------------------------------------------------------------------------
Next ==
    \/ \E e \in DOMAIN editors :
         \/ CommitEditor(e) \/ CancelEditor(e) \/ Search(e) \/ Serve(e) \/ Saved(e) \/ SaveFailed(e)
         \/ \E text \in Value \cup {Empty} : Type(e, text)
         \/ \E k \in Known : Choose(e, k)
         \/ \E p \in editors[e].pending, ok \in BOOLEAN : SearchAnswered(e, p, ok)
    \/ \E r \in Row \cup {NewRow} : OpenRowEditor(r)
    \/ \E rs \in SUBSET Row : AskDelete(rs)
    \/ \E r \in Row : ServeDelete(r)
    \/ Reload \/ ConfirmDelete \/ EndDelete

Spec == Init /\ [][Next]_vars

-----------------------------------------------------------------------------
(* Properties *)

\* An update or a deletion reaches the row it was made on and no other, although
\* a save changes the keys by which rows are found (app.js openRowEditor,
\* rowKey.refresh), as long as no editor or grid is left while it saves
\* and no deletion fails in part.
WritesHitTheirRow ==
    ~overtaken =>
       /\ \A e \in DOMAIN editors :
            editors[e].at = "served" /\ editors[e].row # NewRow => editors[e].hit = editors[e].row
       /\ \A p \in deletion.hits : p[1] = p[2]

\* What is saved in a foreign key is a key the referenced table has, whatever
\* was typed and answered meanwhile (app.js commit, useResults).  A row opened
\* again while its save is on its way may save the key it had before.
OnlyKnownKeysAreSaved ==
    ForeignKey /\ ~overtaken =>
       \A e \in DOMAIN editors : editors[e].at = "sent" => editors[e].value \in Known
=============================================================================
