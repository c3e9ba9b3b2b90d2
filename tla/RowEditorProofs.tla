-------------------------- MODULE RowEditorProofs --------------------------
(***************************************************************************)
(* Proofs about RowEditor, for any values of the column, any number of     *)
(* editors, searches and renders, and deletions of any rows.  Until an     *)
(* editor or the grid is left while it saves, at most one editor is        *)
(* active; the grid addresses each row as the database does, but for the   *)
(* row that editor has just saved and those the deletion under way has     *)
(* reached; and an editor opened under the dialog of a deletion sends      *)
(* nothing before that dialog is gone.                                     *)
(***************************************************************************)
EXTENDS RowEditor, TLAPS

Datum == Value \cup Known \cup {1, 2, Empty}

EditorState ==
    [row : Row \cup {NewRow, NoRow}, table : Nat, on : BOOLEAN, text : Datum, selected : Datum,
     timer : BOOLEAN \cup {ForeignKey}, version : Nat, pending : SUBSET [version : Nat, query : Datum], awaits : Nat,
     at : {"idle", "resolving", "sent", "served", "refused"}, key : Datum, value : Datum,
     hit : Row \cup {NoRow}, next : Row \cup {NewRow, NoRow}]

DeletionState ==
    [rows : SUBSET Row, keys : UNION {[S -> Datum] : S \in SUBSET Row},
     at : {"none", "asked", "sent", "done"}, left : SUBSET Row, hits : SUBSET (Row \X Row), failed : BOOLEAN]

Typed ==
    /\ db \in [Row -> Datum]
    /\ tables \in Seq([Row -> [key : Datum, shown : Datum]]) /\ tables # <<>>
    /\ editors \in Seq(EditorState)
    /\ deletion \in DeletionState
    /\ deletion.at = "sent" => DOMAIN deletion.keys = deletion.rows /\ deletion.left \subseteq deletion.rows
    /\ deletion.left # {} => deletion.at = "sent"

Grid == tables[Len(tables)]
Active(ed) == ed.on \/ ed.at # "idle"
Actives == {e \in DOMAIN editors : Active(editors[e])}

\* An editor in which nothing was done, or that would insert an empty row.
Harmless(ed) ==
    /\ ed.pending = {} /\ ~ed.timer
    /\ \/ ed.row \in Row /\ ed.at = "idle" /\ ed.text = Grid[ed.row].shown /\ ed.selected = Grid[ed.row].shown
       \/ /\ ed.row = NewRow /\ ed.text = Empty /\ ed.selected = Empty
          /\ ed.at \in {"idle", "sent", "refused"} /\ (ed.at = "sent" => ed.value = Empty)

\* The key by which the grid addresses row r is that of no other row.
Own(r) == \A h \in Row \ {r} : db[h] # Grid[r].key

\* The rows that the deletion under way has reached.
Reached == IF deletion.at = "sent" THEN deletion.rows \ deletion.left ELSE {}

\* What a save has done when it is answered.
ServedWell(ed) ==
    /\ ed.hit \in Row /\ (ed.row \in Row => ed.hit = ed.row) /\ ed.value # Empty
    /\ db[ed.hit] = ed.value \/ ed.hit \in Reached
    /\ ed.row = NewRow /\ deletion.at # "sent" => Grid[ed.hit].key = Empty

\* A foreign key is one that was found, or the one the row has.
KeyIsKnown(ed) ==
    /\ ed.selected # Unset => ed.selected \in Known
                              \/ (ed.row \in Row /\ ed.selected = Grid[ed.row].shown)
    /\ ed.at = "sent" => ed.value \in Known

EditorFits(ed) ==
    /\ ed.on /\ ed.table = Len(tables) /\ ed.row \in Row \cup {NewRow}
    /\ ed.row \in Row => Grid[ed.row].key # Empty /\ ed.next # ed.row
    /\ ed.next \in Row => Grid[ed.next].key # Empty
    /\ ed.at = "sent" /\ ed.row \in Row => ed.key = Grid[ed.row].key
    /\ ed.row \in Row /\ ~Harmless(ed) => Own(ed.row)
    /\ ed.at = "served" => ServedWell(ed)
    /\ ForeignKey => KeyIsKnown(ed)

OneIsActive == \A e, f \in Actives : e = f
ActiveFits == \A e \in Actives : EditorFits(editors[e])
KeyIsShown == \A r \in Row : Grid[r].key = Grid[r].shown
KeysDiffer == \A r, h \in Row : db[r] = db[h] /\ r # h => db[r] = Empty

\* The grid differs from the database where the deletion or the save was.
GridIsCurrent ==
    \A r \in Row : Grid[r].key # db[r] =>
        r \in Reached \/ \E e \in Actives : editors[e].at = "served" /\ editors[e].hit = r

\* The rows in the grid are there, and the dialog asks about some of them.
RowsAreThere ==
    /\ deletion.at # "sent" => \A r \in Row : Grid[r].key # Empty => db[r] # Empty
    /\ deletion.at = "asked" => \A r \in deletion.rows : Grid[r].key # Empty

\* The requests under way address their own rows.  Once a save has changed the key
\* of one of them, no other save is made before they are answered.
RequestsAreRight ==
    deletion.at = "sent" =>
        /\ \A r \in deletion.left :
             deletion.keys[r] # Empty /\ \A h \in Row \ {r} : db[h] # deletion.keys[r]
        /\ (\E r \in deletion.left : db[r] # deletion.keys[r]) =>
               \A e \in Actives : editors[e].at = "served" \/ Harmless(editors[e])

DeletionsHit == \A p \in deletion.hits : p[1] = p[2]

Good ==
    /\ OneIsActive /\ ActiveFits /\ KeyIsShown /\ KeysDiffer
    /\ GridIsCurrent /\ RowsAreThere /\ RequestsAreRight /\ DeletionsHit

IInv == ~overtaken => Typed /\ Good

-----------------------------------------------------------------------------
(* Steps of the editors, which leave the grid, the database and the deletion *)

Still == UNCHANGED <<db, tables, deletion>>

\* What does not depend on the editors.
LEMMA StillStays ==
    ASSUME Still
    PROVE  /\ Grid' = Grid /\ Reached' = Reached
           /\ \A r : Own(r)' <=> Own(r)
           /\ KeyIsShown => KeyIsShown'
           /\ KeysDiffer => KeysDiffer'
           /\ RowsAreThere => RowsAreThere'
           /\ DeletionsHit => DeletionsHit'
  BY DEF Still, Grid, Reached, Own, KeyIsShown, KeysDiffer, RowsAreThere, DeletionsHit

\* One editor changes.
LEMMA EditorMoves ==
    ASSUME Typed, Good, Still, NEW e \in DOMAIN editors, NEW x \in EditorState,
           editors' = [editors EXCEPT ![e] = x],
           Active(x) => Active(editors[e]) /\ EditorFits(x),
           editors[e].at = "served" => x.at = "served" /\ x.hit = editors[e].hit,
           Active(x) /\ deletion.at = "sent" /\ (editors[e].at = "served" \/ Harmless(editors[e])) =>
               x.at = "served" \/ Harmless(x)
    PROVE  Typed' /\ Good'
<1>0. editors \in Seq(EditorState) BY DEF Typed
<1>1. editors' \in Seq(EditorState) /\ DOMAIN editors' = DOMAIN editors /\ editors'[e] = x
      /\ \A f \in DOMAIN editors \ {e} : editors'[f] = editors[f]
  BY <1>0
<1>2. Typed' BY <1>1 DEF Typed, Still
<1>3. Grid' = Grid /\ Reached' = Reached /\ (\A r : Own(r)' <=> Own(r))
      /\ KeyIsShown' /\ KeysDiffer' /\ RowsAreThere' /\ DeletionsHit'
  BY StillStays DEF Good
<1>4. Actives' \subseteq Actives /\ (e \in Actives' <=> Active(x))
  BY <1>1 DEF Actives, Active
<1>5. \A f \in Actives' : editors'[f] = IF f = e THEN x ELSE editors[f]
  BY <1>1 DEF Actives
<1>6. OneIsActive' BY <1>4 DEF Good, OneIsActive
<1>7. ASSUME NEW y \in EditorState, EditorFits(y), NEW f, y = editors'[f] PROVE EditorFits(editors[f])'
  BY <1>3, <1>7 DEF EditorFits, Harmless, ServedWell, KeyIsKnown, Still, EditorState
<1>8. ActiveFits'
  BY <1>4, <1>5, <1>7, <1>1 DEF Good, ActiveFits, Actives
<1>9. GridIsCurrent'
  <2>1. ASSUME NEW r \in Row, Grid[r].key # db[r], r \notin Reached
        PROVE  \E f \in Actives' : editors'[f].at = "served" /\ editors'[f].hit = r
    <3>1. PICK f \in Actives : editors[f].at = "served" /\ editors[f].hit = r
      BY <2>1 DEF Good, GridIsCurrent
    <3>2. f \in DOMAIN editors BY DEF Actives
    <3>3. editors'[f].at = "served" /\ editors'[f].hit = r BY <1>1, <3>1, <3>2
    <3>4. f \in Actives' BY <1>1, <3>2, <3>3 DEF Actives, Active
    <3> QED BY <3>3, <3>4
  <2> QED BY <1>3, <2>1 DEF GridIsCurrent, Still
<1>10. \A f : Harmless(editors[f])' <=> Harmless(editors'[f])
  BY <1>3 DEF Harmless
<1>11. RequestsAreRight'
  <2>1. ASSUME \A f \in Actives : editors[f].at = "served" \/ Harmless(editors[f]), NEW f \in Actives',
               deletion.at = "sent"
        PROVE  editors'[f].at = "served" \/ Harmless(editors'[f])
    <3>1. f \in Actives /\ (editors[f].at = "served" \/ Harmless(editors[f])) BY <1>4, <2>1
    <3> QED BY <1>4, <1>5, <2>1, <3>1
  <2> QED BY <1>10, <2>1 DEF Good, RequestsAreRight, Still
<1> QED BY <1>2, <1>3, <1>6, <1>8, <1>9, <1>11 DEF Good

-----------------------------------------------------------------------------
(* An editor opens, when the others have ended *)

\* What is fresh is harmless.
LEMMA FreshIsFit ==
    ASSUME Typed, Good, NEW r \in Row \cup {NewRow}, r \in Row => Grid[r].key # Empty
    PROVE  /\ Editor(r, Len(tables)) \in EditorState
           /\ Harmless(Editor(r, Len(tables))) /\ EditorFits(Editor(r, Len(tables)))
           /\ Editor(r, Len(tables)).at = "idle"
<1>1. Len(tables) \in Nat /\ Len(tables) \in DOMAIN tables
  BY DEF Typed
<1>2. Grid \in [Row -> [key : Datum, shown : Datum]] BY <1>1 DEF Typed, Grid
<1>3. r \in Row => r # NewRow BY DEF Row, NewRow
<1>4. Editor(r, Len(tables)) \in EditorState
  BY <1>1, <1>2, <1>3 DEF Editor, EditorState, Grid, Datum, Empty, NoRow, NewRow
<1>5. Harmless(Editor(r, Len(tables)))
  BY <1>3 DEF Editor, Harmless, Grid
<1>6. ForeignKey => KeyIsKnown(Editor(r, Len(tables)))
  BY <1>3 DEF KeyIsKnown, Editor, Grid, Unset, Empty
<1>7. NoRow # r /\ NoRow \notin Row BY DEF NoRow, Row, NewRow
<1>8. EditorFits(Editor(r, Len(tables)))
  BY <1>5, <1>6, <1>7 DEF EditorFits, Editor
<1> QED BY <1>4, <1>5, <1>8 DEF Editor

LEMMA GoneIsTyped == Gone \in EditorState /\ ~Active(Gone)
  BY DEF Gone, Editor, EditorState, Active, Datum, Empty, NoRow, NewRow

LEMMA EditorOpens ==
    ASSUME Typed, Good, Still, NEW es \in Seq(EditorState), \A f \in DOMAIN es : ~Active(es[f]),
           \A f \in Actives : editors[f].at # "served",
           NEW r \in Row \cup {NewRow}, r \in Row => Grid[r].key # Empty,
           editors' = Append(es, Editor(r, Len(tables)))
    PROVE  Typed' /\ Good'
<1> DEFINE x == Editor(r, Len(tables))
<1>1. x \in EditorState /\ Harmless(x) /\ EditorFits(x) /\ x.at = "idle" BY FreshIsFit
<1> HIDE DEF x
<1>2. editors' = Append(es, x) BY DEF x
<1>3. editors' \in Seq(EditorState) /\ DOMAIN editors' = DOMAIN es \cup {Len(es) + 1}
      /\ editors'[Len(es) + 1] = x /\ \A f \in DOMAIN es : editors'[f] = es[f]
  BY <1>1, <1>2
<1>4. \A f \in Actives' : editors'[f] = x /\ f = Len(es) + 1 BY <1>3 DEF Actives
<1>5. Grid' = Grid /\ Reached' = Reached /\ (\A q : Own(q)' <=> Own(q))
      /\ KeyIsShown' /\ KeysDiffer' /\ RowsAreThere' /\ DeletionsHit'
  BY StillStays DEF Good
<1>6. Typed' BY <1>3 DEF Typed, Still
<1>7. OneIsActive' BY <1>4 DEF OneIsActive
<1>8. ASSUME NEW f \in Actives' PROVE EditorFits(editors[f])'
  <2>1. editors'[f] = x BY <1>4
  <2> QED BY <1>1, <1>5, <2>1 DEF EditorFits, Harmless, KeyIsKnown, Still
<1>9. ActiveFits' BY <1>8 DEF ActiveFits
<1>10. GridIsCurrent' BY <1>5 DEF Good, GridIsCurrent, Still
<1>11. \A f \in Actives' : Harmless(editors[f])'
  BY <1>1, <1>4, <1>5 DEF Harmless
<1>12. RequestsAreRight' BY <1>11 DEF Good, RequestsAreRight, Still
<1> QED BY <1>5, <1>6, <1>7, <1>9, <1>10, <1>12 DEF Good

-----------------------------------------------------------------------------
(* Leaving an editor: commit and its look-up *)

LEMMA ProceedIsGood ==
    ASSUME Typed, Good, Still, NEW e \in Actives, editors[e].at # "served",
           NEW done \in EditorState, ~Active(done), done.next \in Row => Grid[done.next].key # Empty,
           Proceed(e, done)
    PROVE  Typed' /\ Good'
<1>0. editors \in Seq(EditorState) /\ e \in DOMAIN editors BY DEF Typed, Actives
<1> DEFINE es == [editors EXCEPT ![e] = Gone]
<1>1. Kept([done EXCEPT !.next = NoRow]) = Gone BY DEF Kept, Active, EditorState
<1>2. es \in Seq(EditorState) /\ \A f \in DOMAIN es : ~Active(es[f])
  BY <1>0, GoneIsTyped DEF Good, OneIsActive, Actives
<1>3. CASE editors' = es
  BY <1>0, <1>3, GoneIsTyped, EditorMoves
<1>4. CASE editors' = Append(es, Editor(done.next, Len(tables))) /\ done.next # NoRow
  <2>1. done.next \in Row \cup {NewRow} BY <1>4 DEF EditorState
  <2>2. \A f \in Actives : editors[f].at # "served" BY DEF Good, OneIsActive
  <2> HIDE DEF es
  <2> QED BY <1>2, <1>4, <2>1, <2>2, EditorOpens
<1> QED BY <1>1, <1>3, <1>4 DEF Proceed

\* What a submission does with the active editor ed stands for, which is resolved.
LEMMA SubmitIsGood ==
    ASSUME Typed, Good, Still, NEW e \in Actives, editors[e].at \in {"idle", "resolving"},
           NEW ed \in EditorState, EditorFits(ed), ed.at \in {"idle", "resolving"},
           Harmless(editors[e]) => Harmless(ed) /\ ed.row = editors[e].row,
           ~Harmless(editors[e]) /\ ed.row \in Row => Own(ed.row),
           ForeignKey => ed.selected # Unset, Submit(e, ed)
    PROVE  Typed' /\ Good'
<1>0. editors \in Seq(EditorState) /\ e \in DOMAIN editors /\ Active(editors[e]) BY DEF Typed, Actives
<1>1. CASE ed.row # NewRow /\ Submitted(ed) = tables[ed.table][ed.row].shown
  <2> DEFINE done == [ed EXCEPT !.on = FALSE, !.at = "idle"]
  <2>1. done \in EditorState /\ ~Active(done) /\ done.next = ed.next BY DEF EditorState, Active
  <2>2. Proceed(e, done) BY <1>1 DEF Submit
  <2> HIDE DEF done
  <2> QED BY <2>1, <2>2, ProceedIsGood DEF EditorFits
<1>2. CASE ~(ed.row # NewRow /\ Submitted(ed) = tables[ed.table][ed.row].shown)
  <2> DEFINE x == [ed EXCEPT !.at = "sent", !.value = Submitted(ed),
                     !.key = IF ed.row = NewRow THEN Empty ELSE tables[ed.table][ed.row].key]
  <2>1. editors' = [editors EXCEPT ![e] = x] BY <1>2 DEF Submit
  <2>2. ed.table = Len(tables) /\ ed.on /\ ed.row \in Row \cup {NewRow} BY DEF EditorFits
  <2>3. Grid \in [Row -> [key : Datum, shown : Datum]] BY DEF Typed, Grid
  <2>4. NewRow \notin Row BY DEF NewRow, Row
  <2>5. Submitted(ed) \in Datum BY DEF Submitted, EditorState
  <2>12. (IF ed.row = NewRow THEN Empty ELSE tables[ed.table][ed.row].key) \in Datum
    BY <2>2, <2>3 DEF Grid, Datum
  <2>6. x \in EditorState BY <2>5, <2>12 DEF EditorState
  <2>7. x.at = "sent" /\ x.value = Submitted(ed) /\ x.row = ed.row /\ x.on = ed.on /\ x.table = ed.table
        /\ x.next = ed.next /\ x.selected = ed.selected /\ x.text = ed.text /\ x.pending = ed.pending
        /\ x.timer = ed.timer /\ (ed.row \in Row => x.key = Grid[ed.row].key)
    BY <2>2, <2>4 DEF EditorState, Grid
  <2>8. ed.row \in Row => ~Harmless(ed) /\ Own(ed.row)
    BY <1>2, <2>2, <2>4 DEF Harmless, Submitted, Grid
  <2>9. ForeignKey => KeyIsKnown(x)
    BY <1>2, <2>2, <2>4, <2>7 DEF EditorFits, KeyIsKnown, Submitted, Grid
  <2> HIDE DEF x
  <2>10. EditorFits(x) BY <2>7, <2>8, <2>9 DEF EditorFits
  <2>11. Harmless(editors[e]) => Harmless(x)
    <3> SUFFICES ASSUME Harmless(editors[e]) PROVE Harmless(x) OBVIOUS
    <3>1. Harmless(ed) /\ ed.row = NewRow BY <2>2, <2>8
    <3>2. Submitted(ed) = Empty BY <2>4, <3>1 DEF Harmless, Submitted
    <3> QED BY <2>4, <2>7, <3>1, <3>2 DEF Harmless
  <2> QED BY <1>0, <2>1, <2>6, <2>10, <2>11, EditorMoves
<1> QED BY <1>1, <1>2

LEMMA SearchingIsTyped ==
    ASSUME NEW ed \in EditorState, NEW query \in Datum
    PROVE  Searching(ed, query) \in EditorState
<1>1. ed.pending \cup {[version |-> ed.version + 1, query |-> query]} \in SUBSET [version : Nat, query : Datum]
  BY DEF EditorState
<1>2. ed.version + 1 \in Nat BY DEF EditorState
<1> QED BY <1>1, <1>2 DEF Searching, EditorState

\* The row whose editor is neither saving nor left alone has a key of its own,
\* when no deletion is under way.
LEMMA KeyIsOwn ==
    ASSUME Typed, Good, NEW e \in Actives, editors[e].at # "served", editors[e].row \in Row,
           deletion.at # "sent"
    PROVE  Own(editors[e].row)
<1>1. \A r \in Row : Grid[r].key = db[r]
  BY DEF Good, OneIsActive, GridIsCurrent, Reached
<1>2. Grid[editors[e].row].key # Empty BY DEF Good, ActiveFits, EditorFits
<1> QED BY <1>1, <1>2 DEF Good, KeysDiffer, Own

LEMMA CommitIsGood ==
    ASSUME Typed, Good, Still, NEW e \in Actives, NEW r \in Row \cup {NewRow, NoRow},
           r \in Row => Grid[r].key # Empty /\ editors[e].row # r, Commit(e, r)
    PROVE  Typed' /\ Good'
<1> DEFINE old == editors[e]
           ed == [old EXCEPT !.next = r]
<1>1. editors \in Seq(EditorState) /\ e \in DOMAIN editors /\ old \in EditorState BY DEF Typed, Actives
<1>2. EditorFits(old) /\ old.at = "idle" /\ Active(old) BY DEF Good, ActiveFits, Commit, Saving, Actives
<1>3. ed \in EditorState /\ ed.at = "idle" /\ ed.next = r /\ ed.row = old.row /\ ed.on = old.on
      /\ ed.table = old.table /\ ed.selected = old.selected /\ ed.text = old.text
      /\ ed.pending = old.pending /\ ed.timer = old.timer /\ ed.version = old.version
  BY <1>1, <1>2 DEF EditorState
<1>4. EditorFits(ed) /\ (Harmless(old) <=> Harmless(ed))
  BY <1>2, <1>3 DEF EditorFits, KeyIsKnown, Harmless
<1>5. ~Harmless(old) /\ ed.row \in Row => Own(ed.row) BY <1>2, <1>3 DEF EditorFits
<1>6. NewRow \notin Row /\ ed.row \in Row \cup {NewRow} BY <1>4 DEF NewRow, Row, EditorFits
<1>7. CASE ForeignKey /\ ed.selected = Unset
  <2> DEFINE x == [Searching(ed, ed.text) EXCEPT !.at = "resolving", !.awaits = ed.version + 1]
  <2>1. editors' = [editors EXCEPT ![e] = x] /\ ed.text # Empty BY <1>7 DEF Commit
  <2>6. ed.text \in Datum /\ ed.version + 1 \in Nat BY <1>3 DEF EditorState
  <2>7. Searching(ed, ed.text) \in EditorState BY <1>3, <2>6, SearchingIsTyped
  <2>2. x \in EditorState BY <2>6, <2>7 DEF EditorState
  <2>3. x.at = "resolving" /\ x.row = ed.row /\ x.on = ed.on /\ x.table = ed.table /\ x.next = ed.next
        /\ x.selected = ed.selected
    BY <1>3 DEF Searching, EditorState
  <2>4. ~Harmless(ed)
    BY <1>4, <1>6, <1>7, <2>1 DEF Harmless, EditorFits, Good, KeyIsShown, Unset, Empty
  <2> HIDE DEF x, ed, old
  <2>5. EditorFits(x) BY <1>4, <1>5, <2>3, <2>4 DEF EditorFits, KeyIsKnown
  <2> QED BY <1>1, <1>2, <1>4, <2>1, <2>2, <2>4, <2>5, EditorMoves DEF old
<1>8. CASE ~(ForeignKey /\ ed.selected = Unset)
  <2>1. Submit(e, ed) BY <1>8 DEF Commit
  <2> HIDE DEF ed
  <2> QED BY <1>2, <1>3, <1>4, <1>5, <1>8, <2>1, SubmitIsGood
<1> QED BY <1>7, <1>8

LEMMA CommitEditorIsGood ==
    ASSUME Typed, Good, NEW e \in DOMAIN editors, CommitEditor(e) PROVE Typed' /\ Good'
<1>1. e \in Actives BY DEF Actives, Active, CommitEditor
<1> QED BY <1>1, CommitIsGood DEF CommitEditor, Still, NoRow, Row

LEMMA OpenRowEditorIsGood ==
    ASSUME Typed, Good, NEW r \in Row \cup {NewRow}, OpenRowEditor(r) PROVE Typed' /\ Good'
<1>1. Grid \in [Row -> [key : Datum, shown : Datum]] /\ Len(tables) \in Nat BY DEF Typed, Grid
<1>2. r \in Row => Grid[r].key # Empty
  BY <1>1 DEF OpenRowEditor, Absent, Good, KeyIsShown, NewRow, Row, Grid
<1>3. Still BY DEF OpenRowEditor, Still
<1>4. editors \in Seq(EditorState) BY DEF Typed
<1>5. CASE On = {} /\ editors' = Append(editors, Editor(r, Len(tables)))
  <2>1. \A f \in DOMAIN editors : ~Active(editors[f])
    BY <1>5 DEF On, Good, ActiveFits, EditorFits, Actives
  <2> QED BY <1>2, <1>3, <1>4, <1>5, <2>1, EditorOpens DEF Actives
<1>6. CASE On # {} /\ (r = NewRow \/ editors[Current].row # r) /\ Commit(Current, r)
  <2>1. On = Actives BY DEF On, Actives, Active, Good, ActiveFits, EditorFits
  <2>2. PICK e \in Actives : Actives = {e} BY <1>6, <2>1 DEF Good, OneIsActive
  <2>3. Current = e BY <1>4, <2>1, <2>2 DEF Current, Typed, EditorState, Row, NewRow, NoRow, ActiveFits, Good, EditorFits
  <2> QED BY <1>2, <1>3, <1>6, <2>3, CommitIsGood DEF NewRow, Row
<1> QED BY <1>5, <1>6 DEF OpenRowEditor

LEMMA CancelEditorIsGood ==
    ASSUME Typed, Good, NEW e \in DOMAIN editors, CancelEditor(e), ~overtaken' PROVE Typed' /\ Good'
<1>1. editors \in Seq(EditorState) BY DEF Typed
<1>2. ~Saving(e) BY DEF CancelEditor
<1> DEFINE x == [editors[e] EXCEPT !.on = FALSE]
<1>4. ~x.on /\ x.at = "idle" BY <1>1, <1>2 DEF Saving, EditorState
<1>5. Kept(x) = Gone BY <1>4 DEF Kept
<1>3. editors' = [editors EXCEPT ![e] = Gone]
  BY <1>1, <1>5 DEF CancelEditor
<1> QED BY <1>2, <1>3, GoneIsTyped, EditorMoves DEF Still, CancelEditor, Saving

\* Something is typed, or a suggestion taken, in a row that is not saved and over
\* which no dialog is open.
LEMMA TypingIsGood ==
    ASSUME Typed, Good, Still, NEW e \in DOMAIN editors, Typing(e),
           NEW x \in EditorState, editors' = [editors EXCEPT ![e] = x],
           \E text, selected \in Datum, timer \in BOOLEAN \cup {ForeignKey} :
              /\ x = [editors[e] EXCEPT !.text = text, !.selected = selected, !.timer = timer]
              /\ ForeignKey /\ selected # Unset => selected \in Known
    PROVE  Typed' /\ Good'
<1>1. editors \in Seq(EditorState) BY DEF Typed
<1>2. e \in Actives /\ editors[e].at \in {"idle", "resolving"} /\ deletion.at # "sent"
  BY DEF Typing, Usable, Actives, Active
<1>3. EditorFits(editors[e]) BY <1>2 DEF Good, ActiveFits
<1>4. editors[e].row \in Row => Own(editors[e].row) BY <1>2, KeyIsOwn
<1>5. x.at = editors[e].at /\ x.row = editors[e].row /\ x.on = editors[e].on /\ x.table = editors[e].table
      /\ x.next = editors[e].next /\ (ForeignKey /\ x.selected # Unset => x.selected \in Known)
  BY <1>1 DEF EditorState
<1>6. EditorFits(x) BY <1>2, <1>3, <1>4, <1>5 DEF EditorFits, KeyIsKnown
<1> QED BY <1>2, <1>6, EditorMoves DEF Actives

LEMMA TypeIsGood ==
    ASSUME Typed, Good, NEW e \in DOMAIN editors, NEW text \in Value \cup {Empty}, Type(e, text)
    PROVE  Typed' /\ Good'
<1> DEFINE selected == IF ForeignKey THEN Unset ELSE editors[e].selected
           x == [editors[e] EXCEPT !.text = text, !.selected = selected, !.timer = ForeignKey]
<1>1. editors \in Seq(EditorState) /\ editors[e] \in EditorState BY DEF Typed
<1>2. text \in Datum /\ selected \in Datum BY <1>1 DEF Datum, Unset, Empty, EditorState
<1>3. editors' = [editors EXCEPT ![e] = x]
  <2>1. x = [editors[e] EXCEPT !.text = text, !.selected = selected, !.timer = ForeignKey] OBVIOUS
  <2> QED BY <1>1, <2>1 DEF Type
<1>4. x \in EditorState BY <1>1, <1>2 DEF EditorState
<1>5. Typing(e) /\ Still BY DEF Type, Still
<1>6. ForeignKey => selected = Unset OBVIOUS
<1> QED BY <1>2, <1>3, <1>4, <1>5, <1>6, TypingIsGood

LEMMA ChooseIsGood ==
    ASSUME Typed, Good, NEW e \in DOMAIN editors, NEW k \in Known, Choose(e, k)
    PROVE  Typed' /\ Good'
<1> DEFINE x == [editors[e] EXCEPT !.text = k, !.selected = k, !.timer = editors[e].timer]
<1>1. editors \in Seq(EditorState) /\ editors[e] \in EditorState /\ k \in Datum BY DEF Typed, Datum
<1>2. x = [editors[e] EXCEPT !.text = k, !.selected = k] BY <1>1 DEF EditorState
<1>3. editors' = [editors EXCEPT ![e] = x] BY <1>1, <1>2 DEF Choose
<1>4. x \in EditorState /\ editors[e].timer \in BOOLEAN \cup {ForeignKey} BY <1>1 DEF EditorState
<1>5. Typing(e) /\ Still BY DEF Choose, Still
<1> QED BY <1>1, <1>3, <1>4, <1>5, TypingIsGood

LEMMA SearchIsGood ==
    ASSUME Typed, Good, NEW e \in DOMAIN editors, Search(e) PROVE Typed' /\ Good'
<1> DEFINE x == Searching(editors[e], editors[e].text)
<1>1. editors \in Seq(EditorState) /\ editors[e] \in EditorState BY DEF Typed
<1>2. x \in EditorState BY <1>1, SearchingIsTyped DEF EditorState
<1>3. editors' = [editors EXCEPT ![e] = x] BY <1>1 DEF Search
<1>4. x.at = editors[e].at /\ x.row = editors[e].row /\ x.on = editors[e].on /\ x.table = editors[e].table
      /\ x.next = editors[e].next /\ x.selected = editors[e].selected /\ x.key = editors[e].key
      /\ x.value = editors[e].value /\ x.hit = editors[e].hit
  BY <1>1 DEF Searching, EditorState
<1>5. ~Harmless(editors[e]) BY DEF Harmless, Search
<1> HIDE DEF x
<1>6. Active(x) => Active(editors[e]) /\ EditorFits(x)
  <2> SUFFICES ASSUME Active(x) PROVE Active(editors[e]) /\ EditorFits(x) OBVIOUS
  <2>1. Active(editors[e]) /\ EditorFits(editors[e]) BY <1>4 DEF Good, ActiveFits, Actives, Active
  <2> QED BY <1>4, <1>5, <2>1 DEF EditorFits, KeyIsKnown, ServedWell
<1>7. Still BY DEF Search, Still
<1> QED BY <1>2, <1>3, <1>4, <1>5, <1>6, <1>7, EditorMoves

LEMMA SearchAnsweredIsGood ==
    ASSUME Typed, Good, NEW e \in DOMAIN editors, NEW p \in editors[e].pending, NEW ok \in BOOLEAN,
           SearchAnswered(e, p, ok)
    PROVE  Typed' /\ Good'
<1> DEFINE found == ok /\ p.version = editors[e].version /\ p.query \in Known
           ed == [editors[e] EXCEPT !.pending = @ \ {p}, !.selected = IF found THEN p.query ELSE @]
<1>1. editors \in Seq(EditorState) /\ editors[e] \in EditorState BY DEF Typed
<1>2. p.query \in Datum BY <1>1 DEF EditorState
<1>3. ed \in EditorState
  <2>1. editors[e].pending \ {p} \in SUBSET [version : Nat, query : Datum] BY <1>1 DEF EditorState
  <2>2. (IF found THEN p.query ELSE editors[e].selected) \in Datum BY <1>1, <1>2 DEF EditorState
  <2> QED BY <1>1, <2>1, <2>2 DEF EditorState
<1>4. ed.at = editors[e].at /\ ed.row = editors[e].row /\ ed.on = editors[e].on /\ ed.table = editors[e].table
      /\ ed.next = editors[e].next /\ ed.key = editors[e].key /\ ed.value = editors[e].value
      /\ ed.hit = editors[e].hit /\ (ed.selected = editors[e].selected \/ ed.selected \in Known)
  BY <1>1 DEF EditorState
<1>5. ~Harmless(editors[e]) BY DEF Harmless
<1>6. \/ ed.at = "resolving" /\ Resolved(e, ed)
      \/ editors' = [editors EXCEPT ![e] = ed]
  BY DEF SearchAnswered
<1>7. Still BY DEF SearchAnswered, Still
<1> HIDE DEF ed
<1>8. Active(ed) => e \in Actives /\ Active(editors[e]) /\ EditorFits(ed) /\ (ed.row \in Row => Own(ed.row))
  <2> SUFFICES ASSUME Active(ed)
               PROVE  e \in Actives /\ Active(editors[e]) /\ EditorFits(ed) /\ (ed.row \in Row => Own(ed.row))
    OBVIOUS
  <2>1. e \in Actives /\ Active(editors[e]) /\ EditorFits(editors[e]) BY <1>4 DEF Good, ActiveFits, Actives, Active
  <2> QED BY <1>4, <1>5, <2>1 DEF EditorFits, KeyIsKnown, ServedWell
<1>9. CASE editors' = [editors EXCEPT ![e] = ed]
  BY <1>3, <1>4, <1>5, <1>7, <1>8, <1>9, EditorMoves
<1>10. CASE ed.at = "resolving" /\ ed.selected # Unset /\ Resolved(e, ed)
  BY <1>3, <1>4, <1>5, <1>7, <1>8, <1>10, SubmitIsGood DEF Resolved, Active
<1>11. CASE ed.at = "resolving" /\ ed.selected = Unset /\ Resolved(e, ed)
  <2> DEFINE y == [ed EXCEPT !.at = "idle", !.next = NoRow]
             x == Kept(y)
  <2>1. editors' = [editors EXCEPT ![e] = x] BY <1>11 DEF Resolved
  <2>2. y \in EditorState /\ y.at = "idle" /\ y.next = NoRow /\ y.row = ed.row /\ y.on = ed.on
        /\ y.table = ed.table /\ y.selected = ed.selected
    BY <1>3 DEF EditorState
  <2> HIDE DEF y
  <2>3. x \in EditorState /\ (Active(x) => x = y) BY <2>2, GoneIsTyped DEF Kept
  <2>4. EditorFits(y)
    BY <1>8, <1>11, <2>2 DEF EditorFits, KeyIsKnown, Active, NoRow, Row, NewRow
  <2> HIDE DEF x
  <2> QED BY <1>4, <1>5, <1>7, <1>8, <1>11, <2>1, <2>3, <2>4, EditorMoves DEF Active
<1> QED BY <1>6, <1>9, <1>10, <1>11

LEMMA SaveFailedIsGood ==
    ASSUME Typed, Good, NEW e \in DOMAIN editors, SaveFailed(e) PROVE Typed' /\ Good'
<1> DEFINE y == [editors[e] EXCEPT !.at = "idle", !.next = NoRow]
           x == Kept(y)
<1>1. editors \in Seq(EditorState) /\ editors[e] \in EditorState /\ editors[e].at = "refused"
  BY DEF Typed, SaveFailed
<1>2. editors' = [editors EXCEPT ![e] = x] BY <1>1 DEF SaveFailed
<1>3. y \in EditorState /\ y.at = "idle" /\ y.next = NoRow /\ y.row = editors[e].row /\ y.on = editors[e].on
      /\ y.table = editors[e].table /\ y.selected = editors[e].selected /\ y.text = editors[e].text
      /\ y.pending = editors[e].pending /\ y.timer = editors[e].timer
  BY <1>1 DEF EditorState
<1> HIDE DEF y
<1>4. x \in EditorState /\ (Active(x) => x = y) BY <1>3, GoneIsTyped DEF Kept
<1>5. Active(editors[e]) /\ EditorFits(editors[e]) BY <1>1 DEF Good, ActiveFits, Actives, Active
<1>6. NoRow \notin Row /\ NewRow \notin Row BY DEF NoRow, Row, NewRow
<1>7. (Harmless(editors[e]) => Harmless(y)) /\ (editors[e].row \in Row => ~Harmless(editors[e]))
  BY <1>1, <1>3, <1>6 DEF Harmless
<1>8. EditorFits(y) BY <1>3, <1>5, <1>6, <1>7 DEF EditorFits, KeyIsKnown
<1> HIDE DEF x
<1> QED BY <1>1, <1>2, <1>4, <1>5, <1>7, <1>8, EditorMoves DEF SaveFailed, Still

-----------------------------------------------------------------------------
(* Saving *)

LEMMA ServeIsGood ==
    ASSUME Typed, Good, NEW e \in DOMAIN editors, Serve(e) PROVE Typed' /\ Good'
<1> DEFINE ed == editors[e]
           target == IF ed.row = NewRow THEN Addressed(Empty) ELSE Addressed(ed.key)
<1>1. editors \in Seq(EditorState) /\ ed \in EditorState /\ ed.at = "sent" BY DEF Typed, Serve
<1>2. NewRow \notin Row BY DEF NewRow, Row
<1>3. e \in Actives /\ EditorFits(ed) /\ Actives = {e}
  BY <1>1 DEF Good, ActiveFits, Actives, Active, OneIsActive
<1>4. CASE editors' = [editors EXCEPT ![e].at = "refused"] /\ UNCHANGED <<db, tables, deletion>>
  <2> DEFINE x == [ed EXCEPT !.at = "refused"]
  <2>1. editors' = [editors EXCEPT ![e] = x] BY <1>1, <1>4
  <2>2. x \in EditorState /\ x.at = "refused" /\ x.row = ed.row /\ x.on = ed.on /\ x.table = ed.table
        /\ x.next = ed.next /\ x.selected = ed.selected /\ x.text = ed.text /\ x.pending = ed.pending
        /\ x.timer = ed.timer
    BY <1>1 DEF EditorState
  <2> HIDE DEF x, ed
  <2>3. EditorFits(x) /\ (Harmless(ed) => Harmless(x))
    BY <1>1, <1>2, <1>3, <2>2 DEF EditorFits, KeyIsKnown, Harmless
  <2> QED BY <1>1, <1>3, <1>4, <2>1, <2>2, <2>3, EditorMoves DEF Still, Active, Actives, ed
<1>5. ASSUME NEW r \in target, ed.value # Empty, Free(ed.value), db' = [db EXCEPT ![r] = ed.value],
             editors' = [editors EXCEPT ![e].at = "served", ![e].hit = r], UNCHANGED <<tables, deletion>>
      PROVE  Typed' /\ Good'
  <2>17. PICK x : x = [ed EXCEPT !.at = "served", !.hit = r] OBVIOUS
  <2>1. r \in Row /\ (ed.row \in Row => r = ed.row /\ Own(r)) /\ (ed.row = NewRow => db[r] = Empty)
    BY <1>1, <1>2, <1>3 DEF Addressed, EditorFits, Own, Harmless
  <2>2. db \in [Row -> Datum] /\ db' \in [Row -> Datum] /\ db'[r] = ed.value
        /\ \A h \in Row \ {r} : db'[h] = db[h]
    BY <1>1, <1>5, <2>1 DEF Typed, EditorState
  <2>3. editors' = [editors EXCEPT ![e] = x] BY <1>1, <1>5, <2>17
  <2>4. x \in EditorState /\ x.at = "served" /\ x.hit = r /\ x.row = ed.row /\ x.on = ed.on
        /\ x.table = ed.table /\ x.next = ed.next /\ x.selected = ed.selected /\ x.value = ed.value
    BY <1>1, <2>1, <2>17 DEF EditorState
  <2> HIDE DEF target
  <2>5. editors' \in Seq(EditorState) /\ DOMAIN editors' = DOMAIN editors /\ editors'[e] = x
        /\ \A f \in DOMAIN editors \ {e} : editors'[f] = editors[f]
    BY <1>1, <2>3, <2>4
  <2>6. Actives' = {e} BY <1>3, <2>4, <2>5 DEF Actives, Active
  <2>7. Grid' = Grid /\ Reached' = Reached /\ KeyIsShown' /\ DeletionsHit'
    BY <1>5 DEF Grid, Reached, Good, KeyIsShown, DeletionsHit
  <2>8. Typed' BY <1>5, <2>2, <2>5 DEF Typed
  <2>9. OneIsActive' BY <2>6 DEF OneIsActive
  <2>10. KeysDiffer' BY <1>5, <2>2 DEF Good, KeysDiffer, Free
  <2>11. GridIsCurrent'
    BY <1>1, <1>3, <2>2, <2>4, <2>5, <2>6, <2>7 DEF Good, GridIsCurrent
  <2>12. RowsAreThere' BY <1>5, <2>2, <2>7 DEF Good, RowsAreThere
  <2>13. ServedWell(x)'
    <3>1. ed.row = NewRow /\ deletion.at # "sent" => Grid[r].key = Empty
      BY <2>1 DEF Good, RowsAreThere
    <3> QED BY <1>2, <1>5, <2>1, <2>2, <2>4, <2>7, <3>1 DEF ServedWell
  <2>14. x.row \in Row => Own(x.row)' BY <2>1, <2>2, <2>4, <2>7 DEF Own
  <2>15. ActiveFits'
    <3>1. EditorFits(x)' BY <1>3, <1>5, <2>4, <2>7, <2>13, <2>14 DEF EditorFits, KeyIsKnown
    <3> QED BY <2>5, <2>6, <3>1 DEF ActiveFits, EditorFits, KeyIsKnown, ServedWell, Harmless
  <2>16. RequestsAreRight'
    <3> SUFFICES ASSUME deletion.at = "sent"
                 PROVE  \A q \in deletion.left :
                          deletion.keys[q] # Empty /\ \A h \in Row \ {q} : db'[h] # deletion.keys[q]
      BY <1>5, <2>4, <2>5, <2>6 DEF RequestsAreRight
    <3>1. ~Harmless(ed) BY <1>1, <1>5 DEF Harmless
    <3>2. \A q \in deletion.left : db[q] = deletion.keys[q]
      BY <1>1, <1>3, <3>1 DEF Good, RequestsAreRight
    <3>3. deletion.left \subseteq Row BY DEF Typed, DeletionState
    <3> QED BY <1>5, <2>2, <3>2, <3>3 DEF Good, RequestsAreRight, Free
  <2> QED BY <2>7, <2>8, <2>9, <2>10, <2>11, <2>12, <2>15, <2>16 DEF Good
<1> HIDE DEF ed, target
<1>6. CASE /\ target # {} /\ ed.value # Empty /\ Free(ed.value)
           /\ LET r == CHOOSE r \in target : TRUE
              IN /\ db' = [db EXCEPT ![r] = ed.value]
                 /\ editors' = [editors EXCEPT ![e].at = "served", ![e].hit = r]
  BY <1>5, <1>6 DEF Serve
<1> QED BY <1>4, <1>6 DEF Serve, ed, target

\* The dialog is closed, or opens for rs.
LEMMA DialogIsTyped ==
    /\ NoDeletion \in DeletionState /\ [NoDeletion EXCEPT !.at = "done"] \in DeletionState
    /\ \A rs \in SUBSET Row : [NoDeletion EXCEPT !.rows = rs, !.at = "asked"] \in DeletionState
<1>1. <<>> \in [{} -> Datum] OBVIOUS
<1>2. <<>> \in UNION {[S -> Datum] : S \in SUBSET Row} BY <1>1
<1> QED BY <1>2 DEF NoDeletion, DeletionState

\* The grid is drawn again, from what is in the database.
LEMMA RenderedIsGood ==
    ASSUME Typed, Good, NEW es \in Seq(EditorState), RenderData(es), ~overtaken', UNCHANGED db,
           deletion' = deletion \/ deletion' = [NoDeletion EXCEPT !.at = "done"]
    PROVE  Typed' /\ Good'
<1>1. db \in [Row -> Datum] BY DEF Typed
<1>2. Loaded \in [Row -> [key : Datum, shown : Datum]] BY <1>1 DEF Loaded
<1>3. tables' \in Seq([Row -> [key : Datum, shown : Datum]]) /\ tables' # <<>> /\ Grid' = Loaded
  BY <1>2 DEF Typed, RenderData, Grid
<1>4. editors' \in Seq(EditorState) /\ \A e \in DOMAIN editors' : ~Active(editors'[e])
  <2>1. ASSUME NEW e \in DOMAIN es PROVE Kept([es[e] EXCEPT !.on = FALSE]) = Gone
    <3>1. es[e].at = "idle" BY DEF RenderData
    <3>2. ~[es[e] EXCEPT !.on = FALSE].on /\ [es[e] EXCEPT !.on = FALSE].at = "idle"
      BY <3>1 DEF EditorState
    <3> QED BY <3>2 DEF Kept
  <2>2. editors' = [e \in 1..Len(es) |-> Gone] BY <2>1 DEF RenderData
  <2>3. Len(es) \in Nat OBVIOUS
  <2> HIDE DEF RenderData
  <2> QED BY <2>2, <2>3, GoneIsTyped
<1>5. Actives' = {} BY <1>4 DEF Actives
<1>6. deletion' \in DeletionState
      /\ (deletion'.at = "sent" \/ deletion'.left # {} => deletion' = deletion)
      /\ (deletion'.at = "asked" => deletion' = deletion) /\ DeletionsHit'
  <2>1. CASE deletion' = deletion BY <2>1 DEF Typed, Good, DeletionsHit
  <2>2. CASE deletion' = [NoDeletion EXCEPT !.at = "done"]
    BY <2>2, DialogIsTyped DEF NoDeletion, DeletionsHit
  <2> QED BY <2>1, <2>2
<1>7. Typed' BY <1>1, <1>3, <1>4, <1>6 DEF Typed
<1>8. \A r \in Row : Grid'[r].key = db[r] /\ Grid'[r].shown = db[r] BY <1>3 DEF Loaded
<1>9. RowsAreThere' BY <1>6, <1>8 DEF Good, RowsAreThere, Typed, DeletionState
<1>10. RequestsAreRight' BY <1>5, <1>6 DEF Good, RequestsAreRight
<1> QED
  BY <1>5, <1>6, <1>7, <1>8, <1>9, <1>10
  DEF Good, OneIsActive, ActiveFits, KeyIsShown, KeysDiffer, GridIsCurrent

LEMMA PatchedHolds ==
    ASSUME NEW row \in [key : Datum, shown : Datum], NEW value \in Datum
    PROVE  /\ Patched(row, value) \in [key : Datum, shown : Datum]
           /\ Patched(row, value).key = value /\ Patched(row, value).shown = value
  BY DEF Patched

\* An update is answered: the row in the grid takes its values, its editor is
\* gone, and another may open.
LEMMA UpdateSavedIsGood ==
    ASSUME Typed, Good, NEW e \in DOMAIN editors, Saved(e), editors[e].row # NewRow
    PROVE  Typed' /\ Good'
<1> DEFINE ed == editors[e]
           done == [ed EXCEPT !.at = "idle", !.on = FALSE]
           es == [editors EXCEPT ![e] = Gone]
           row == ed.row
<1>1. editors \in Seq(EditorState) /\ ed \in EditorState /\ ed.at = "served" BY DEF Typed, Saved
<1>2. NewRow \notin Row /\ NoRow \notin Row /\ NoRow # NewRow BY DEF NewRow, NoRow, Row
<1>3. e \in Actives /\ EditorFits(ed) /\ Actives = {e}
  BY <1>1 DEF Good, ActiveFits, Actives, Active, OneIsActive
<1>4. /\ row \in Row /\ ed.hit = row /\ ed.value # Empty /\ Own(row) /\ ed.table = Len(tables)
      /\ ed.next # row /\ (ed.next \in Row => Grid[ed.next].key # Empty)
      /\ (db[row] = ed.value \/ row \in Reached) /\ ed.value \in Datum
  BY <1>1, <1>3 DEF EditorFits, ServedWell, Harmless, EditorState
<1>5. /\ Proceed(e, done) /\ UNCHANGED <<db, overtaken, deletion>>
      /\ tables' = [tables EXCEPT ![ed.table][row] = Patched(@, ed.value)]
  BY DEF Saved
<1>6. Grid \in [Row -> [key : Datum, shown : Datum]] /\ Len(tables) \in DOMAIN tables
      /\ tables \in Seq([Row -> [key : Datum, shown : Datum]])
  BY DEF Typed, Grid
<1>7. /\ Len(tables') = Len(tables) /\ tables' \in Seq([Row -> [key : Datum, shown : Datum]]) /\ tables' # <<>>
      /\ Grid'[row].key = ed.value /\ Grid'[row].shown = ed.value
      /\ \A r \in Row \ {row} : Grid'[r] = Grid[r]
  <2>1. PICK p \in [key : Datum, shown : Datum] :
          p = Patched(Grid[row], ed.value) /\ p.key = ed.value /\ p.shown = ed.value
    BY <1>4, <1>6, PatchedHolds
  <2>2. tables' = [tables EXCEPT ![Len(tables)] = [Grid EXCEPT ![row] = p]]
    BY <1>4, <1>5, <1>6, <2>1 DEF Grid
  <2>3. [Grid EXCEPT ![row] = p] \in [Row -> [key : Datum, shown : Datum]]
    BY <1>4, <1>6
  <2> HIDE DEF ed
  <2> QED BY <1>4, <1>6, <2>1, <2>2, <2>3 DEF Grid
<1>8. Reached' = Reached /\ KeyIsShown' /\ KeysDiffer' /\ DeletionsHit'
  BY <1>5, <1>7 DEF Good, Reached, KeyIsShown, KeysDiffer, DeletionsHit
<1>9. /\ editors' \in Seq(EditorState) /\ OneIsActive'
      /\ \A f \in Actives' : EditorFits(editors[f])' /\ Harmless(editors[f])'
  <2>1. es \in Seq(EditorState) /\ \A f \in DOMAIN es : ~Active(es[f])
    BY <1>1, <1>3, GoneIsTyped DEF Actives
  <2>2. Kept([done EXCEPT !.next = NoRow]) = Gone /\ done.next = ed.next /\ done.table = ed.table
    BY <1>1 DEF Kept, EditorState
  <2> HIDE DEF es
  <2>3. CASE editors' = es
    BY <2>1, <2>3 DEF Actives, OneIsActive
  <2>4. CASE editors' = Append(es, Editor(ed.next, Len(tables))) /\ ed.next # NoRow
    <3>1. PICK x : x = Editor(ed.next, Len(tables)) OBVIOUS
    <3>2. ed.next \in Row \cup {NewRow} BY <1>1, <2>4 DEF EditorState
    <3>3. x \in EditorState /\ Harmless(x) /\ EditorFits(x) /\ x.at = "idle" BY <1>4, <3>1, <3>2, FreshIsFit
    <3>4. x.row = ed.next BY <3>1 DEF Editor
    <3>5. editors' \in Seq(EditorState) /\ DOMAIN editors' = DOMAIN es \cup {Len(es) + 1}
          /\ editors'[Len(es) + 1] = x /\ \A f \in DOMAIN es : editors'[f] = es[f]
      BY <2>1, <2>4, <3>1, <3>3
    <3>6. \A f \in Actives' : editors'[f] = x /\ f = Len(es) + 1 BY <2>1, <3>5 DEF Actives
    <3>7. x.row \in Row => Grid'[x.row] = Grid[x.row] BY <1>4, <1>7, <3>4
    <3>8. x.next = NoRow BY <3>1 DEF Editor
    <3>9. Harmless(x)' BY <3>3, <3>7 DEF Harmless
    <3>10. EditorFits(x)' BY <1>2, <1>7, <3>3, <3>7, <3>8, <3>9 DEF EditorFits, KeyIsKnown
    <3>11. \A f \in Actives' : EditorFits(editors[f])' /\ Harmless(editors[f])'
      <4> SUFFICES ASSUME NEW f \in Actives' PROVE EditorFits(editors[f])' /\ Harmless(editors[f])' OBVIOUS
      <4>1. editors'[f] = x BY <3>6
      <4>2. Harmless(editors[f])' BY <3>9, <4>1 DEF Harmless
      <4>3. EditorFits(editors[f])' BY <3>10, <4>1 DEF EditorFits, KeyIsKnown, ServedWell, Harmless
      <4> QED BY <4>2, <4>3
    <3> QED BY <3>5, <3>6, <3>11 DEF OneIsActive
  <2> QED BY <1>4, <1>5, <2>2, <2>3, <2>4 DEF Proceed, es
<1>10. Typed' BY <1>5, <1>7, <1>9 DEF Typed
<1>11. GridIsCurrent'
  BY <1>3, <1>4, <1>5, <1>7, <1>8 DEF Good, GridIsCurrent
<1>12. RowsAreThere'
  <2>1. deletion.rows \subseteq Row BY DEF Typed, DeletionState
  <2>2. deletion.at # "sent" => db[row] # Empty BY <1>4 DEF Reached
  <2> QED BY <1>4, <1>5, <1>7, <2>1, <2>2 DEF Good, RowsAreThere
<1>13. RequestsAreRight' BY <1>5, <1>9 DEF Good, RequestsAreRight
<1> QED BY <1>8, <1>9, <1>10, <1>11, <1>12, <1>13 DEF Good, ActiveFits

LEMMA SavedIsGood ==
    ASSUME Typed, Good, NEW e \in DOMAIN editors, Saved(e), ~overtaken' PROVE Typed' /\ Good'
<1>1. CASE editors[e].row = NewRow
  <2> DEFINE es == [editors EXCEPT ![e].at = "idle"]
  <2>1. editors \in Seq(EditorState) BY DEF Typed
  <2>5. editors[e] \in EditorState BY <2>1
  <2>4. [editors[e] EXCEPT !.at = "idle"] \in EditorState BY <2>5 DEF EditorState
  <2>2. es \in Seq(EditorState) BY <2>1, <2>4
  <2>3. RenderData(es) /\ UNCHANGED <<db, deletion>> BY <1>1 DEF Saved
  <2> HIDE DEF es
  <2> QED BY <2>2, <2>3, RenderedIsGood
<1> QED BY <1>1, UpdateSavedIsGood

LEMMA ReloadIsGood ==
    ASSUME Typed, Good, Reload, ~overtaken' PROVE Typed' /\ Good'
  BY RenderedIsGood DEF Typed, Reload

-----------------------------------------------------------------------------
(* Deleting rows *)

\* The dialog opens, or is left without a request.
LEMMA DialogIsGood ==
    ASSUME Typed, Good, UNCHANGED <<db, tables, editors>>, deletion.at # "sent",
           deletion' = [NoDeletion EXCEPT !.at = "done"]
           \/ \E rs \in SUBSET Row : /\ deletion' = [NoDeletion EXCEPT !.rows = rs, !.at = "asked"]
                                     /\ \A r \in rs : Grid[r].key # Empty
    PROVE  Typed' /\ Good'
<1>1. Reached = {} /\ Reached' = {} /\ deletion'.at # "sent" /\ deletion'.left = {} /\ deletion'.hits = {}
      /\ (deletion'.at = "asked" => \A r \in deletion'.rows : Grid[r].key # Empty)
      /\ deletion' \in DeletionState
  BY DialogIsTyped DEF Reached, NoDeletion
<1>2. Typed' BY <1>1 DEF Typed
<1>3. Grid' = Grid /\ Actives' = Actives /\ (\A r : Own(r)' <=> Own(r)) BY DEF Grid, Actives, Own
<1>4. ActiveFits'
  BY <1>1, <1>3 DEF Good, ActiveFits, EditorFits, Harmless, ServedWell, KeyIsKnown
<1>5. OneIsActive' /\ KeyIsShown' /\ KeysDiffer'
  BY <1>3 DEF Good, OneIsActive, KeyIsShown, KeysDiffer
<1>6. GridIsCurrent' BY <1>1, <1>3 DEF Good, GridIsCurrent
<1>7. RowsAreThere' /\ RequestsAreRight' /\ DeletionsHit'
  BY <1>1, <1>3 DEF Good, RowsAreThere, RequestsAreRight, DeletionsHit
<1> QED BY <1>2, <1>4, <1>5, <1>6, <1>7 DEF Good

LEMMA AskDeleteIsGood ==
    ASSUME Typed, Good, NEW rs \in SUBSET Row, AskDelete(rs) PROVE Typed' /\ Good'
<1>1. Grid \in [Row -> [key : Datum, shown : Datum]] BY DEF Typed, Grid
<1>2. ASSUME NEW r \in Row, tables[Len(tables)][r] # Absent PROVE Grid[r].key # Empty
  BY <1>1, <1>2 DEF Good, KeyIsShown, Absent, Grid
<1> QED BY <1>2, DialogIsGood DEF AskDelete

LEMMA ConfirmDeleteIsGood ==
    ASSUME Typed, Good, ConfirmDelete PROVE Typed' /\ Good'
<1>1. /\ deletion.at = "asked" /\ UNCHANGED <<db, tables, editors>>
      /\ deletion' = [deletion EXCEPT !.at = "sent", !.left = deletion.rows,
                         !.keys = [r \in deletion.rows |-> Grid[r].key]]
  BY DEF ConfirmDelete, Grid
<1>2. Grid \in [Row -> [key : Datum, shown : Datum]] /\ deletion.rows \in SUBSET Row
  BY DEF Typed, DeletionState, Grid
<1>3. [r \in deletion.rows |-> Grid[r].key] \in [deletion.rows -> Datum] BY <1>2
<1>4. /\ deletion'.at = "sent" /\ deletion'.left = deletion.rows /\ deletion'.rows = deletion.rows
      /\ deletion'.keys = [r \in deletion.rows |-> Grid[r].key] /\ deletion'.hits = deletion.hits
  BY <1>1 DEF Typed, DeletionState
<1>5. Typed'
  <2>1. deletion'.keys \in UNION {[S -> Datum] : S \in SUBSET Row} BY <1>2, <1>3, <1>4
  <2>2. deletion' \in DeletionState BY <1>1, <1>2, <1>4, <2>1 DEF Typed, DeletionState
  <2> QED BY <1>1, <1>4, <2>2 DEF Typed
<1>6. Grid' = Grid /\ Actives' = Actives /\ (\A r : Own(r)' <=> Own(r)) /\ Reached = {} /\ Reached' = {}
  BY <1>1, <1>4 DEF Grid, Actives, Own, Reached
<1>7. ActiveFits'
  BY <1>1, <1>4, <1>6 DEF Good, ActiveFits, EditorFits, Harmless, ServedWell, KeyIsKnown
<1>8. OneIsActive' /\ KeyIsShown' /\ KeysDiffer' /\ DeletionsHit'
  BY <1>1, <1>4, <1>6 DEF Good, OneIsActive, KeyIsShown, KeysDiffer, DeletionsHit
<1>9. GridIsCurrent' BY <1>1, <1>6 DEF Good, GridIsCurrent
<1>10. RowsAreThere' BY <1>4 DEF RowsAreThere
<1>11. RequestsAreRight'
  <2>1. ASSUME NEW r \in deletion.rows PROVE Grid[r].key # Empty /\ Own(r)
    <3>1. Grid[r].key # Empty /\ r \in Row BY <1>1, <1>2 DEF Good, RowsAreThere
    <3>2. CASE Grid[r].key = db[r] BY <3>1, <3>2 DEF Good, KeysDiffer, Own
    <3>3. CASE Grid[r].key # db[r]
      <4>1. PICK e \in Actives : editors[e].at = "served" /\ editors[e].hit = r
        BY <1>6, <3>1, <3>3 DEF Good, GridIsCurrent
      <4>2. ServedWell(editors[e]) /\ editors[e].row \in Row \cup {NewRow}
            /\ (editors[e].row \in Row => Own(editors[e].row))
        BY <4>1 DEF Good, ActiveFits, EditorFits, Harmless
      <4>3. editors[e].row # NewRow BY <1>1, <3>1, <4>1, <4>2 DEF ServedWell
      <4> QED BY <3>1, <4>1, <4>2, <4>3 DEF ServedWell
    <3> QED BY <3>2, <3>3
  <2>2. ASSUME NEW r \in deletion.rows, db[r] # Grid[r].key, NEW f \in Actives PROVE editors[f].at = "served"
    BY <1>2, <1>6, <2>2 DEF Good, GridIsCurrent, OneIsActive
  <2>3. \A r \in deletion.rows : deletion'.keys[r] = Grid[r].key BY <1>4
  <2>4. \A f \in Actives' : editors'[f] = editors[f] BY <1>1
  <2>5. \A q \in deletion'.left :
          deletion'.keys[q] # Empty /\ \A h \in Row \ {q} : db'[h] # deletion'.keys[q]
    BY <1>1, <1>4, <2>1, <2>3 DEF Own
  <2>6. (\E q \in deletion'.left : db'[q] # deletion'.keys[q]) => \A f \in Actives' : editors'[f].at = "served"
    BY <1>1, <1>4, <1>6, <2>2, <2>3, <2>4
  <2> QED BY <2>5, <2>6 DEF RequestsAreRight
<1> QED BY <1>5, <1>7, <1>8, <1>9, <1>10, <1>11 DEF Good

LEMMA ServeDeleteIsGood ==
    ASSUME Typed, Good, NEW r \in Row, ServeDelete(r) PROVE Typed' /\ Good'
<1>1. r \in deletion.left /\ deletion.at = "sent" /\ r \in deletion.rows /\ UNCHANGED <<tables, editors>>
      /\ db \in [Row -> Datum] /\ deletion.left \subseteq Row
  BY DEF Typed, DeletionState, ServeDelete
<1>2. deletion.keys[r] # Empty /\ \A h \in Row \ {r} : db[h] # deletion.keys[r]
  BY <1>1 DEF Good, RequestsAreRight
<1>3. /\ db' = db \/ db' = [db EXCEPT ![r] = Empty]
      /\ deletion'.hits = deletion.hits \/ deletion'.hits = deletion.hits \cup {<<r, r>>}
      /\ deletion' \in DeletionState
      /\ deletion'.left = deletion.left \ {r} /\ deletion'.rows = deletion.rows
      /\ deletion'.keys = deletion.keys /\ deletion'.at = deletion.at
  <2>1. ASSUME NEW hit \in Addressed(deletion.keys[r]) PROVE hit = r BY <1>2 DEF Addressed
  <2>2. CASE deletion' = [deletion EXCEPT !.left = @ \ {r}, !.failed = TRUE] /\ UNCHANGED db
    BY <2>2 DEF Typed, DeletionState
  <2>3. CASE db' = [db EXCEPT ![r] = Empty]
             /\ deletion' = [deletion EXCEPT !.left = @ \ {r}, !.hits = @ \cup {<<r, r>>}]
    <3>1. deletion \in DeletionState BY DEF Typed
    <3>2. <<r, r>> \in Row \X Row OBVIOUS
    <3> QED BY <2>3, <3>1, <3>2 DEF DeletionState
  <2> QED BY <2>1, <2>2, <2>3 DEF ServeDelete
<1>4. Typed' BY <1>1, <1>3 DEF Typed, Datum
<1>5. Grid' = Grid /\ Actives' = Actives /\ Reached' = Reached \cup {r}
  BY <1>1, <1>3 DEF Grid, Actives, Reached
<1>6. \A h \in Row : db'[h] = db[h] \/ (h = r /\ db'[h] = Empty) BY <1>1, <1>3
<1>7. \A q : Grid[q].key # Empty /\ Own(q) => Own(q)' BY <1>5, <1>6 DEF Own
<1>8. ActiveFits'
  BY <1>1, <1>3, <1>5, <1>6, <1>7 DEF Good, ActiveFits, EditorFits, Harmless, ServedWell, KeyIsKnown
<1>9. OneIsActive' /\ KeyIsShown' /\ DeletionsHit'
  BY <1>1, <1>3, <1>5 DEF Good, OneIsActive, KeyIsShown, DeletionsHit
<1>10. KeysDiffer' BY <1>6 DEF Good, KeysDiffer
<1>11. GridIsCurrent' BY <1>1, <1>5, <1>6 DEF Good, GridIsCurrent
<1>12. RowsAreThere' BY <1>1, <1>3 DEF RowsAreThere
<1>13. RequestsAreRight'
  BY <1>1, <1>3, <1>5, <1>6 DEF Good, RequestsAreRight, Harmless
<1> QED BY <1>4, <1>8, <1>9, <1>10, <1>11, <1>12, <1>13 DEF Good

LEMMA EndDeleteIsGood ==
    ASSUME Typed, Good, EndDelete, ~overtaken' PROVE Typed' /\ Good'
<1>1. deletion' = [NoDeletion EXCEPT !.at = "done"] BY DEF EndDelete
<1>2. CASE RenderData(editors) /\ UNCHANGED db BY <1>1, <1>2, RenderedIsGood DEF Typed
<1>3. CASE deletion.at = "asked" /\ UNCHANGED <<db, tables, editors>> BY <1>1, <1>3, DialogIsGood
<1> QED BY <1>2, <1>3 DEF EndDelete

-----------------------------------------------------------------------------
(* Types, which hold although an editor or its grid is left while it saves *)

Assumed == {1, 2} \subseteq Value /\ Known \subseteq Value /\ MaxTables \in Nat \ {0}

\* An editor of one of the first n grids.
EditorTyped(ed, n) ==
    /\ ed \in EditorState /\ ed.table \in 1..n
    /\ ed.on \/ ed.at # "idle" => ed.row # NoRow
    /\ ed.at # "idle" /\ ed.row # NewRow => ed.next # ed.row
    /\ \A p \in ed.pending : p.version <= ed.version

EditorsTyped(es, n) == es \in Seq(EditorState) /\ \A e \in DOMAIN es : EditorTyped(es[e], n)

GridsTyped == tables \in Seq([Row -> [key : Datum, shown : Datum]]) /\ Len(tables) \in 1..MaxTables

RestTyped ==
    /\ overtaken \in BOOLEAN /\ db \in [Row -> Datum]
    /\ deletion \in DeletionState /\ deletion.left \subseteq deletion.rows

TInv == Assumed /\ GridsTyped /\ EditorsTyped(editors, Len(tables)) /\ RestTyped

LEMMA CellsAreTyped ==
    ASSUME GridsTyped, NEW t \in DOMAIN tables, NEW r \in Row
    PROVE  tables[t][r].key \in Datum /\ tables[t][r].shown \in Datum
  BY DEF GridsTyped

LEMMA FreshIsTyped ==
    ASSUME GridsTyped, NEW t \in 1..Len(tables), NEW r \in Row \cup {NewRow}
    PROVE  EditorTyped(Editor(r, t), Len(tables)) /\ EditorTyped(Gone, Len(tables))
<1>1. t \in DOMAIN tables /\ t \in Nat /\ 1 \in 1..Len(tables) /\ 1 \in Nat BY DEF GridsTyped
<1>2. NewRow \notin Row /\ NoRow \notin Row \cup {NewRow} BY DEF NewRow, NoRow, Row
<1>3. (IF r = NewRow THEN Empty ELSE tables[t][r].shown) \in Datum
  BY <1>1, CellsAreTyped DEF Datum
<1>4. Editor(r, t) \in EditorState /\ Editor(r, t).row = r /\ Editor(r, t).table = t /\ Editor(r, t).at = "idle"
      /\ Editor(r, t).pending = {}
  BY <1>1, <1>3 DEF Editor, EditorState, Datum, Empty
<1>5. Gone \in EditorState /\ Gone.table = 1 /\ Gone.at = "idle" /\ ~Gone.on /\ Gone.pending = {}
  BY <1>1 DEF Gone, Editor, EditorState, Datum, Empty
<1> QED BY <1>1, <1>2, <1>4, <1>5 DEF EditorTyped

LEMMA OneEditorIsTyped ==
    ASSUME NEW n \in Nat, NEW es, EditorsTyped(es, n), NEW x, EditorTyped(x, n)
    PROVE  EditorsTyped(Append(es, x), n) /\ \A e \in DOMAIN es : EditorsTyped([es EXCEPT ![e] = x], n)
<1>1. es \in Seq(EditorState) /\ x \in EditorState BY DEF EditorsTyped, EditorTyped
<1>2. EditorsTyped(Append(es, x), n)
  <2>1. Append(es, x) \in Seq(EditorState) BY <1>1
  <2>2. \A e \in DOMAIN Append(es, x) : (e \in DOMAIN es /\ Append(es, x)[e] = es[e]) \/ Append(es, x)[e] = x BY <1>1
  <2> QED BY <2>1, <2>2 DEF EditorsTyped
<1>3. ASSUME NEW e \in DOMAIN es PROVE EditorsTyped([es EXCEPT ![e] = x], n)
  <2>1. [es EXCEPT ![e] = x] \in Seq(EditorState) BY <1>1
  <2>2. \A f \in DOMAIN es : [es EXCEPT ![e] = x][f] = es[f] \/ [es EXCEPT ![e] = x][f] = x BY <1>1
  <2> QED BY <2>1, <2>2 DEF EditorsTyped
<1> QED BY <1>2, <1>3

LEMMA KeptIsTyped ==
    ASSUME GridsTyped, NEW ed, EditorTyped(ed, Len(tables)) PROVE EditorTyped(Kept(ed), Len(tables))
<1>1. 1 \in 1..Len(tables) BY DEF GridsTyped
<1> QED BY <1>1, FreshIsTyped DEF Kept

\* What an editor goes on as.
LEMMA ProceedIsTyped ==
    ASSUME TInv, NEW e \in DOMAIN editors, NEW done, EditorTyped(done, Len(tables)), ~done.on, done.at = "idle",
           Proceed(e, done)
    PROVE  EditorsTyped(editors', Len(tables))
<1> DEFINE left == [done EXCEPT !.next = NoRow]
           es == [editors EXCEPT ![e] = Kept(left)]
<1>1. Len(tables) \in Nat /\ GridsTyped BY DEF TInv, GridsTyped
<1>2. EditorTyped(left, Len(tables)) BY DEF EditorTyped, EditorState
<1>3. EditorTyped(Kept(left), Len(tables)) BY <1>1, <1>2, KeptIsTyped
<1>4. EditorsTyped(es, Len(tables)) BY <1>1, <1>3, OneEditorIsTyped DEF TInv
<1>5. CASE done.next # NoRow /\ done.table = Len(tables) /\ editors' = Append(es, Editor(done.next, done.table))
  <2>1. done.next \in Row \cup {NewRow} /\ done.table \in 1..Len(tables) BY <1>5 DEF EditorTyped, EditorState
  <2>2. EditorTyped(Editor(done.next, done.table), Len(tables)) BY <1>1, <2>1, FreshIsTyped
  <2> HIDE DEF es
  <2> QED BY <1>1, <1>4, <1>5, <2>2, OneEditorIsTyped
<1> QED BY <1>4, <1>5 DEF Proceed

LEMMA SubmitIsTyped ==
    ASSUME TInv, NEW e \in DOMAIN editors, NEW ed, EditorTyped(ed, Len(tables)), ed.row # NoRow,
           ed.row # NewRow => ed.next # ed.row, Submit(e, ed)
    PROVE  EditorsTyped(editors', Len(tables))
<1>1. Len(tables) \in Nat /\ GridsTyped BY DEF TInv, GridsTyped
<1>2. ed \in EditorState /\ ed.table \in DOMAIN tables BY DEF EditorTyped, TInv, GridsTyped
<1>3. CASE ed.row # NewRow /\ Submitted(ed) = tables[ed.table][ed.row].shown
  <2> DEFINE done == [ed EXCEPT !.on = FALSE, !.at = "idle"]
  <2>1. EditorTyped(done, Len(tables)) /\ ~done.on /\ done.at = "idle" BY <1>2 DEF EditorTyped, EditorState
  <2>2. Proceed(e, done) BY <1>3 DEF Submit
  <2> HIDE DEF done
  <2> QED BY <2>1, <2>2, ProceedIsTyped
<1>4. CASE ~(ed.row # NewRow /\ Submitted(ed) = tables[ed.table][ed.row].shown)
  <2> DEFINE key == IF ed.row = NewRow THEN Empty ELSE tables[ed.table][ed.row].key
             x == [ed EXCEPT !.at = "sent", !.value = Submitted(ed), !.key = key]
  <2>1. editors' = [editors EXCEPT ![e] = x] BY <1>4 DEF Submit
  <2>2. Submitted(ed) \in Datum BY <1>2 DEF Submitted, EditorState
  <2>3. ed.row \in Row \cup {NewRow} BY <1>2 DEF EditorState
  <2>4. key \in Datum BY <1>1, <1>2, <2>3, CellsAreTyped DEF Datum
  <2> HIDE DEF key
  <2>5. EditorTyped(x, Len(tables)) BY <1>2, <2>2, <2>4 DEF EditorTyped, EditorState
  <2> HIDE DEF x
  <2> QED BY <1>1, <2>1, <2>5, OneEditorIsTyped DEF TInv
<1> QED BY <1>3, <1>4

LEMMA SearchingStaysTyped ==
    ASSUME NEW ed, NEW n \in Nat, EditorTyped(ed, n)
    PROVE  EditorTyped(Searching(ed, ed.text), n)
<1>1. ed \in EditorState /\ ed.version \in Nat /\ ed.text \in Datum BY DEF EditorTyped, EditorState
<1> DEFINE s == Searching(ed, ed.text)
<1>2. s \in EditorState BY <1>1, SearchingIsTyped
<1>3. s.version = ed.version + 1 /\ s.pending = ed.pending \cup {[version |-> ed.version + 1, query |-> ed.text]}
      /\ s.table = ed.table /\ s.on = ed.on /\ s.at = ed.at /\ s.row = ed.row /\ s.next = ed.next
  BY <1>1 DEF Searching, EditorState
<1> HIDE DEF s
<1>4. \A p \in ed.pending : p.version \in Nat /\ p.version <= ed.version BY <1>1 DEF EditorTyped, EditorState
<1>5. \A p \in s.pending : p.version <= s.version BY <1>1, <1>3, <1>4
<1>6. EditorTyped(s, n) BY <1>2, <1>3, <1>5 DEF EditorTyped
<1> QED BY <1>6 DEF s

LEMMA CommitIsTyped ==
    ASSUME TInv, NEW e \in On, NEW r \in Row \cup {NewRow, NoRow}, r = NewRow \/ editors[e].row # r, Commit(e, r)
    PROVE  EditorsTyped(editors', Len(tables))
<1> DEFINE ed == [editors[e] EXCEPT !.next = r]
<1>1. Len(tables) \in Nat /\ e \in DOMAIN editors /\ editors[e].on BY DEF TInv, GridsTyped, On
<1>2. EditorTyped(editors[e], Len(tables)) BY <1>1 DEF TInv, EditorsTyped
<1>3. /\ EditorTyped(ed, Len(tables)) /\ ed.row # NoRow
      /\ ed.row # NewRow => ed.next # ed.row
      /\ ed.version \in Nat /\ ed \in EditorState
  BY <1>1, <1>2 DEF EditorTyped, EditorState
<1> HIDE DEF ed
<1>4. CASE Submit(e, ed) BY <1>1, <1>3, <1>4, SubmitIsTyped
<1>5. CASE editors' = [editors EXCEPT ![e] = [Searching(ed, ed.text) EXCEPT !.at = "resolving", !.awaits = ed.version + 1]]
  <2> DEFINE s == Searching(ed, ed.text)
             x == [s EXCEPT !.at = "resolving", !.awaits = ed.version + 1]
  <2>1. EditorTyped(s, Len(tables)) BY <1>1, <1>3, SearchingStaysTyped
  <2>2. s.row = ed.row /\ s.next = ed.next BY <1>3 DEF Searching, EditorState
  <2> HIDE DEF s
  <2>6. s \in EditorState /\ ed.version + 1 \in Nat BY <1>3, <2>1 DEF EditorTyped
  <2>7. /\ x \in EditorState /\ x.at = "resolving" /\ x.row = s.row /\ x.next = s.next /\ x.table = s.table
        /\ x.on = s.on /\ x.pending = s.pending /\ x.version = s.version
    BY <2>6 DEF EditorState
  <2>3. EditorTyped(x, Len(tables)) BY <1>3, <2>1, <2>2, <2>7 DEF EditorTyped
  <2>4. editors' = [editors EXCEPT ![e] = x] BY <1>5 DEF s
  <2> HIDE DEF x
  <2> QED BY <1>1, <2>3, <2>4, OneEditorIsTyped DEF TInv
<1> QED BY <1>4, <1>5 DEF Commit, ed

-----------------------------------------------------------------------------
(* Every step keeps the types *)

LEMMA RenderIsTyped ==
    ASSUME TInv, NEW es, EditorsTyped(es, Len(tables)), RenderData(es)
    PROVE  GridsTyped' /\ EditorsTyped(editors', Len(tables')) /\ overtaken' \in BOOLEAN
<1>1. GridsTyped /\ Len(tables) \in Nat /\ Len(tables) < MaxTables /\ MaxTables \in Nat /\ db \in [Row -> Datum]
  BY DEF TInv, GridsTyped, RenderData, Assumed, RestTyped
<1>2. Loaded \in [Row -> [key : Datum, shown : Datum]] BY <1>1 DEF Loaded
<1>3. tables' = Append(tables, Loaded) /\ Len(tables') = Len(tables) + 1 BY <1>1 DEF RenderData, GridsTyped
<1>4. GridsTyped' BY <1>1, <1>2, <1>3 DEF GridsTyped
<1>5. es \in Seq(EditorState) /\ \A e \in DOMAIN es : EditorTyped(es[e], Len(tables)) BY DEF EditorsTyped
<1>6. ASSUME NEW e \in DOMAIN es PROVE EditorTyped(Kept([es[e] EXCEPT !.on = FALSE]), Len(tables))
  <2>1. EditorTyped([es[e] EXCEPT !.on = FALSE], Len(tables)) BY <1>5 DEF EditorTyped, EditorState
  <2> QED BY <1>1, <2>1, KeptIsTyped
<1>7. \A ed : EditorTyped(ed, Len(tables)) => ed \in EditorState /\ EditorTyped(ed, Len(tables'))
  BY <1>1, <1>3 DEF EditorTyped
<1>8. editors' = [e \in DOMAIN es |-> Kept([es[e] EXCEPT !.on = FALSE])] BY DEF RenderData
<1>9. editors' \in Seq(EditorState) /\ DOMAIN editors' = DOMAIN es
  <2>1. DOMAIN es = 1..Len(es) /\ Len(es) \in Nat BY <1>5
  <2> DEFINE K(i) == Kept([es[i] EXCEPT !.on = FALSE])
  <2>2. \A i \in 1..Len(es) : K(i) \in EditorState BY <1>6, <1>7, <2>1
  <2>3. editors' = [i \in 1..Len(es) |-> K(i)] BY <1>8, <2>1
  <2> HIDE DEF K
  <2> QED BY <2>1, <2>2, <2>3
<1>10. EditorsTyped(editors', Len(tables')) BY <1>6, <1>7, <1>8, <1>9 DEF EditorsTyped
<1>11. overtaken' \in BOOLEAN BY DEF TInv, RestTyped, RenderData
<1> QED BY <1>4, <1>10, <1>11

\* One editor changes.
LEMMA EditorStaysTyped ==
    ASSUME TInv, NEW e \in DOMAIN editors, NEW x, EditorTyped(x, Len(tables)), editors' = [editors EXCEPT ![e] = x]
    PROVE  EditorsTyped(editors', Len(tables))
<1>1. Len(tables) \in Nat BY DEF TInv, GridsTyped
<1> QED BY <1>1, OneEditorIsTyped DEF TInv

LEMMA EditingIsTyped ==
    ASSUME TInv, NEW e \in DOMAIN editors,
           \/ CommitEditor(e) \/ CancelEditor(e) \/ Search(e) \/ SaveFailed(e)
           \/ (\E text \in Value \cup {Empty} : Type(e, text)) \/ (\E k \in Known : Choose(e, k))
    PROVE  EditorsTyped(editors', Len(tables)) /\ UNCHANGED <<db, tables, deletion>> /\ overtaken' \in BOOLEAN
<1>1. UNCHANGED <<db, tables, deletion>> /\ overtaken' \in BOOLEAN
  BY DEF TInv, RestTyped, CommitEditor, CancelEditor, Search, SaveFailed, Type, Choose
<1>2. EditorTyped(editors[e], Len(tables)) /\ editors[e] \in EditorState /\ GridsTyped /\ Len(tables) \in Nat
  BY DEF TInv, EditorsTyped, EditorTyped, GridsTyped
<1>3. CASE CommitEditor(e)
  <2>1. e \in On /\ editors[e].row # NoRow BY <1>2, <1>3 DEF CommitEditor, On, EditorTyped
  <2> QED BY <1>1, <1>3, <2>1, CommitIsTyped DEF CommitEditor
<1>4. CASE CancelEditor(e)
  <2>1. EditorTyped([editors[e] EXCEPT !.on = FALSE], Len(tables)) BY <1>2 DEF EditorTyped, EditorState
  <2> QED BY <1>1, <1>2, <1>4, <2>1, KeptIsTyped, EditorStaysTyped DEF CancelEditor
<1>5. CASE Search(e) BY <1>1, <1>2, <1>5, SearchingStaysTyped, EditorStaysTyped DEF Search
<1>6. CASE SaveFailed(e)
  <2>1. EditorTyped([editors[e] EXCEPT !.at = "idle", !.next = NoRow], Len(tables)) BY <1>2 DEF EditorTyped, EditorState
  <2> QED BY <1>1, <1>2, <1>6, <2>1, KeptIsTyped, EditorStaysTyped DEF SaveFailed
<1>7. ASSUME NEW text \in Value \cup {Empty}, Type(e, text) PROVE EditorsTyped(editors', Len(tables))
  <2> DEFINE selected == IF ForeignKey THEN Unset ELSE editors[e].selected
             x == [editors[e] EXCEPT !.text = text, !.selected = selected, !.timer = ForeignKey]
  <2>1. text \in Datum /\ selected \in Datum BY <1>2 DEF Datum, Unset, Empty, EditorState
  <2>2. editors' = [editors EXCEPT ![e] = x]
    <3>1. editors \in Seq(EditorState) BY DEF TInv, EditorsTyped
    <3> QED BY <1>7, <3>1 DEF Type
  <2> HIDE DEF selected
  <2>3. EditorTyped(x, Len(tables)) BY <1>2, <2>1 DEF EditorTyped, EditorState
  <2> QED BY <2>2, <2>3, EditorStaysTyped
<1>8. ASSUME NEW k \in Known, Choose(e, k) PROVE EditorsTyped(editors', Len(tables))
  <2> DEFINE x == [editors[e] EXCEPT !.text = k, !.selected = k]
  <2>1. k \in Datum BY DEF Datum
  <2>2. editors' = [editors EXCEPT ![e] = x]
    <3>1. editors \in Seq(EditorState) BY DEF TInv, EditorsTyped
    <3> QED BY <1>8, <3>1 DEF Choose
  <2>3. EditorTyped(x, Len(tables)) BY <1>2, <2>1 DEF EditorTyped, EditorState
  <2> QED BY <2>2, <2>3, EditorStaysTyped
<1> QED BY <1>1, <1>3, <1>4, <1>5, <1>6, <1>7, <1>8

LEMMA AnswerIsTyped ==
    ASSUME TInv, NEW e \in DOMAIN editors, NEW p \in editors[e].pending, NEW ok \in BOOLEAN, SearchAnswered(e, p, ok)
    PROVE  EditorsTyped(editors', Len(tables)) /\ UNCHANGED <<db, tables, deletion, overtaken>>
<1> DEFINE selected == IF ok /\ p.version = editors[e].version /\ p.query \in Known THEN p.query ELSE editors[e].selected
           ed == [editors[e] EXCEPT !.pending = @ \ {p}, !.selected = selected]
<1>1. EditorTyped(editors[e], Len(tables)) /\ editors[e] \in EditorState /\ GridsTyped /\ Len(tables) \in Nat
  BY DEF TInv, EditorsTyped, EditorTyped, GridsTyped
<1>2. selected \in Datum BY <1>1 DEF EditorState
<1>3. UNCHANGED <<db, tables, deletion, overtaken>> BY DEF SearchAnswered
<1>4. \/ ed.at = "resolving" /\ Resolved(e, ed)
      \/ editors' = [editors EXCEPT ![e] = ed]
  BY DEF SearchAnswered
<1> HIDE DEF selected
<1>5. EditorTyped(ed, Len(tables)) /\ ed.at = editors[e].at
  <2>1. editors[e].pending \ {p} \in SUBSET [version : Nat, query : Datum] BY <1>1 DEF EditorState
  <2>2. ed \in EditorState /\ ed.pending = editors[e].pending \ {p} /\ ed.version = editors[e].version
        /\ ed.table = editors[e].table /\ ed.on = editors[e].on /\ ed.at = editors[e].at /\ ed.row = editors[e].row
        /\ ed.next = editors[e].next
    BY <1>1, <1>2, <2>1 DEF EditorState
  <2> QED BY <1>1, <2>2 DEF EditorTyped
<1> HIDE DEF ed
<1>6. CASE ed.at = "resolving" /\ Submit(e, ed)
  <2>1. ed.row # NoRow /\ (ed.row # NewRow => ed.next # ed.row) BY <1>5, <1>6 DEF EditorTyped
  <2> QED BY <1>3, <1>5, <1>6, <2>1, SubmitIsTyped
<1>7. CASE editors' = [editors EXCEPT ![e] = Kept([ed EXCEPT !.at = "idle", !.next = NoRow])]
  <2>1. EditorTyped([ed EXCEPT !.at = "idle", !.next = NoRow], Len(tables)) BY <1>5 DEF EditorTyped, EditorState
  <2> QED BY <1>1, <1>3, <1>7, <2>1, KeptIsTyped, EditorStaysTyped
<1>8. CASE editors' = [editors EXCEPT ![e] = ed] BY <1>3, <1>5, <1>8, EditorStaysTyped
<1> QED BY <1>4, <1>6, <1>7, <1>8 DEF Resolved

\* The server answers, and the answer arrives.
LEMMA ServeIsTyped ==
    ASSUME TInv, NEW e \in DOMAIN editors, Serve(e)
    PROVE  EditorsTyped(editors', Len(tables)) /\ db' \in [Row -> Datum] /\ UNCHANGED <<tables, deletion, overtaken>>
<1> DEFINE ed == editors[e]
           target == IF ed.row = NewRow THEN Addressed(Empty) ELSE Addressed(ed.key)
           hit == CHOOSE r \in target : TRUE
<1>1. EditorTyped(ed, Len(tables)) /\ ed \in EditorState /\ ed.at = "sent" /\ editors \in Seq(EditorState)
      /\ db \in [Row -> Datum]
  BY DEF TInv, EditorsTyped, EditorTyped, RestTyped, Serve
<1>2. UNCHANGED <<tables, deletion, overtaken>> BY DEF Serve
<1>3. CASE target # {} /\ db' = [db EXCEPT ![hit] = ed.value] /\ editors' = [editors EXCEPT ![e].at = "served", ![e].hit = hit]
  <2> DEFINE x == [ed EXCEPT !.at = "served", !.hit = hit]
  <2>1. hit \in Row BY <1>3 DEF Addressed
  <2>2. editors' = [editors EXCEPT ![e] = x] BY <1>1, <1>3
  <2> HIDE DEF hit, target
  <2>3. EditorTyped(x, Len(tables)) BY <1>1, <2>1 DEF EditorTyped, EditorState
  <2>4. ed.value \in Datum BY <1>1 DEF EditorState
  <2>5. db' \in [Row -> Datum] BY <1>1, <1>3, <2>4
  <2> QED BY <1>2, <2>2, <2>3, <2>5, EditorStaysTyped
<1>4. CASE editors' = [editors EXCEPT ![e].at = "refused"] /\ UNCHANGED db
  <2> DEFINE x == [ed EXCEPT !.at = "refused"]
  <2>1. editors' = [editors EXCEPT ![e] = x] BY <1>1, <1>4
  <2>2. EditorTyped(x, Len(tables)) BY <1>1 DEF EditorTyped, EditorState
  <2> QED BY <1>1, <1>2, <1>4, <2>1, <2>2, EditorStaysTyped
<1> QED BY <1>3, <1>4 DEF Serve

LEMMA SavedIsTyped ==
    ASSUME TInv, NEW e \in DOMAIN editors, Saved(e)
    PROVE  /\ GridsTyped' /\ EditorsTyped(editors', Len(tables')) /\ overtaken' \in BOOLEAN
           /\ UNCHANGED <<db, deletion>>
<1> DEFINE ed == editors[e]
<1>1. EditorTyped(ed, Len(tables)) /\ ed \in EditorState /\ ed.at = "served" /\ ed.row # NoRow
      /\ tables \in Seq([Row -> [key : Datum, shown : Datum]]) /\ Len(tables) \in 1..MaxTables
      /\ editors \in Seq(EditorState)
  BY DEF TInv, EditorsTyped, EditorTyped, GridsTyped, Saved
<1>2. UNCHANGED <<db, deletion>> BY DEF Saved
<1>3. CASE RenderData([editors EXCEPT ![e].at = "idle"])
  <2> DEFINE x == [ed EXCEPT !.at = "idle"]
             es == [editors EXCEPT ![e] = x]
  <2>1. EditorTyped(x, Len(tables)) BY <1>1 DEF EditorTyped, EditorState
  <2>2. es = [editors EXCEPT ![e].at = "idle"] BY <1>1
  <2>3. Len(tables) \in Nat BY <1>1
  <2>4. EditorsTyped(es, Len(tables)) BY <2>1, <2>3, OneEditorIsTyped DEF TInv
  <2> HIDE DEF es
  <2> QED BY <1>2, <1>3, <2>2, <2>4, RenderIsTyped
<1>4. CASE ed.row # NewRow /\ Proceed(e, [ed EXCEPT !.at = "idle", !.on = FALSE])
           /\ tables' = [tables EXCEPT ![ed.table][ed.row] = Patched(@, ed.value)] /\ UNCHANGED overtaken
  <2> DEFINE done == [ed EXCEPT !.at = "idle", !.on = FALSE]
             cell == Patched(tables[ed.table][ed.row], ed.value)
             grid == [tables[ed.table] EXCEPT ![ed.row] = cell]
  <2>1. EditorTyped(done, Len(tables)) /\ ~done.on /\ done.at = "idle" BY <1>1 DEF EditorTyped, EditorState
  <2>2. EditorsTyped(editors', Len(tables))
    <3> HIDE DEF done
    <3> QED BY <1>4, <2>1, ProceedIsTyped DEF done
  <2>3. ed.row \in Row /\ ed.table \in DOMAIN tables /\ ed.value \in Datum
    BY <1>1, <1>4 DEF EditorState, EditorTyped
  <2>4. tables[ed.table] \in [Row -> [key : Datum, shown : Datum]] BY <1>1, <2>3
  <2>5. cell \in [key : Datum, shown : Datum]
    <3>1. tables[ed.table][ed.row] \in [key : Datum, shown : Datum] BY <2>3, <2>4
    <3> QED BY <2>3, <3>1 DEF Patched
  <2>6. tables' = [tables EXCEPT ![ed.table] = grid] BY <1>1, <1>4, <2>3, <2>4
  <2> HIDE DEF cell
  <2>7. grid \in [Row -> [key : Datum, shown : Datum]] BY <2>4, <2>5
  <2> HIDE DEF grid
  <2>8. tables' \in Seq([Row -> [key : Datum, shown : Datum]]) /\ Len(tables') = Len(tables) BY <1>1, <2>3, <2>6, <2>7
  <2>9. overtaken' \in BOOLEAN BY <1>4 DEF TInv, RestTyped
  <2> QED BY <1>1, <1>2, <2>2, <2>8, <2>9 DEF GridsTyped
<1> QED BY <1>3, <1>4 DEF Saved

\* The dialog of a deletion, and its requests.
LEMMA DeletingIsTyped ==
    ASSUME TInv, (\E rs \in SUBSET Row : AskDelete(rs)) \/ ConfirmDelete \/ (\E r \in Row : ServeDelete(r)) \/ EndDelete
    PROVE  db' \in [Row -> Datum] /\ deletion' \in DeletionState /\ deletion'.left \subseteq deletion'.rows
<1>1. /\ db \in [Row -> Datum] /\ deletion \in DeletionState /\ deletion.left \subseteq deletion.rows
      /\ deletion.rows \in SUBSET Row /\ GridsTyped
  BY DEF TInv, RestTyped, DeletionState
<1>2. CASE (\E rs \in SUBSET Row : AskDelete(rs)) \/ EndDelete
  <2>1. /\ deletion' \in DeletionState
        /\ deletion' = [NoDeletion EXCEPT !.at = "done"]
           \/ \E rs \in SUBSET Row : deletion' = [NoDeletion EXCEPT !.rows = rs, !.at = "asked"]
    BY <1>2, DialogIsTyped DEF AskDelete, EndDelete
  <2>2. deletion'.left = {} BY <2>1 DEF NoDeletion
  <2> QED BY <1>1, <1>2, <2>1, <2>2 DEF AskDelete, EndDelete, RenderData
<1>3. CASE ConfirmDelete
  <2> DEFINE keys == [r \in deletion.rows |-> tables[Len(tables)][r].key]
  <2>1. Len(tables) \in DOMAIN tables BY <1>1 DEF GridsTyped
  <2>2. keys \in [deletion.rows -> Datum] BY <1>1, <2>1, CellsAreTyped
  <2>3. keys \in UNION {[S -> Datum] : S \in SUBSET Row} BY <1>1, <2>2
  <2>4. deletion' = [deletion EXCEPT !.at = "sent", !.left = deletion.rows, !.keys = keys] /\ UNCHANGED db
    BY <1>3 DEF ConfirmDelete
  <2> HIDE DEF keys
  <2> QED BY <1>1, <2>3, <2>4 DEF DeletionState
<1>4. ASSUME NEW r \in Row, ServeDelete(r)
      PROVE  db' \in [Row -> Datum] /\ deletion' \in DeletionState /\ deletion'.left \subseteq deletion'.rows
  <2>1. CASE deletion' = [deletion EXCEPT !.left = @ \ {r}, !.failed = TRUE] /\ UNCHANGED db
    BY <1>1, <2>1 DEF DeletionState
  <2>2. ASSUME NEW hit \in Addressed(deletion.keys[r]), db' = [db EXCEPT ![hit] = Empty],
               deletion' = [deletion EXCEPT !.left = @ \ {r}, !.hits = @ \cup {<<r, hit>>}]
        PROVE  db' \in [Row -> Datum] /\ deletion' \in DeletionState /\ deletion'.left \subseteq deletion'.rows
    <3>1. hit \in Row /\ Empty \in Datum BY DEF Addressed, Datum
    <3>2. <<r, hit>> \in Row \X Row BY <3>1
    <3>3. db' \in [Row -> Datum] BY <1>1, <2>2, <3>1
    <3> QED BY <1>1, <2>2, <3>2, <3>3 DEF DeletionState
  <2> QED BY <1>4, <2>1, <2>2 DEF ServeDelete
<1> QED BY <1>2, <1>3, <1>4

LEMMA TypesBegin == Assumed /\ Init => TInv
<1> SUFFICES ASSUME Assumed, Init PROVE TInv OBVIOUS
<1>1. db \in [Row -> Datum] BY DEF Init, Row, Datum, Empty
<1>2. Loaded \in [Row -> [key : Datum, shown : Datum]] BY <1>1 DEF Loaded
<1>3. GridsTyped BY <1>2 DEF Init, GridsTyped, Assumed
<1>4. EditorsTyped(editors, Len(tables)) BY DEF Init, EditorsTyped
<1>5. deletion \in DeletionState /\ deletion.left \subseteq deletion.rows BY DialogIsTyped DEF Init, NoDeletion
<1> QED BY <1>1, <1>3, <1>4, <1>5 DEF Init, TInv, RestTyped

LEMMA TypesGoOn == TInv /\ [Next]_vars => TInv'
<1> SUFFICES ASSUME TInv, [Next]_vars PROVE GridsTyped' /\ EditorsTyped(editors', Len(tables')) /\ RestTyped'
  BY DEF TInv, Assumed
<1>1. GridsTyped /\ EditorsTyped(editors, Len(tables)) /\ RestTyped /\ Len(tables) \in Nat BY DEF TInv, GridsTyped
<1>2. ASSUME NEW e \in DOMAIN editors,
             \/ CommitEditor(e) \/ CancelEditor(e) \/ Search(e) \/ SaveFailed(e)
             \/ (\E text \in Value \cup {Empty} : Type(e, text)) \/ (\E k \in Known : Choose(e, k))
      PROVE  GridsTyped' /\ EditorsTyped(editors', Len(tables')) /\ RestTyped'
  BY <1>1, <1>2, EditingIsTyped DEF GridsTyped, RestTyped
<1>3. ASSUME NEW e \in DOMAIN editors, NEW p \in editors[e].pending, NEW ok \in BOOLEAN, SearchAnswered(e, p, ok)
      PROVE  GridsTyped' /\ EditorsTyped(editors', Len(tables')) /\ RestTyped'
  BY <1>1, <1>3, AnswerIsTyped DEF GridsTyped, RestTyped
<1>4. ASSUME NEW e \in DOMAIN editors, Serve(e)
      PROVE  GridsTyped' /\ EditorsTyped(editors', Len(tables')) /\ RestTyped'
  BY <1>1, <1>4, ServeIsTyped DEF GridsTyped, RestTyped
<1>5. ASSUME NEW e \in DOMAIN editors, Saved(e)
      PROVE  GridsTyped' /\ EditorsTyped(editors', Len(tables')) /\ RestTyped'
  BY <1>1, <1>5, SavedIsTyped DEF RestTyped
<1>6. ASSUME NEW r \in Row \cup {NewRow}, OpenRowEditor(r)
      PROVE  GridsTyped' /\ EditorsTyped(editors', Len(tables')) /\ RestTyped'
  <2>1. EditorsTyped(editors', Len(tables))
    <3>1. CASE editors' = Append(editors, Editor(r, Len(tables)))
      <4>1. Len(tables) \in 1..Len(tables) BY <1>1 DEF GridsTyped
      <4>2. EditorTyped(Editor(r, Len(tables)), Len(tables)) BY <1>1, <4>1, FreshIsTyped
      <4> QED BY <1>1, <3>1, <4>2, OneEditorIsTyped
    <3>2. CASE On # {} /\ (r = NewRow \/ editors[Current].row # r) /\ Commit(Current, r)
      <4>1. \A e \in On : editors[e].row \in 1..4
        BY <1>1 DEF On, EditorsTyped, EditorTyped, EditorState, Row, NewRow, NoRow
      <4>2. \E e \in On : \A f \in On : editors[e].row <= editors[f].row
        <5>1. \A n \in 1..4 : (\E e \in On : editors[e].row = n) \/ ~(\E e \in On : editors[e].row = n) OBVIOUS
        <5>2. PICK n \in 1..4 : (\E e \in On : editors[e].row = n) /\ \A m \in 1..4 : m < n => ~(\E e \in On : editors[e].row = m)
          BY <3>2, <4>1
        <5> QED BY <4>1, <5>2
      <4>3. Current \in On BY <4>2 DEF Current
      <4> QED BY <3>2, <4>3, CommitIsTyped
    <3> QED BY <1>6, <3>1, <3>2 DEF OpenRowEditor
  <2> QED BY <1>1, <1>6, <2>1 DEF OpenRowEditor, GridsTyped, RestTyped
<1>7. CASE Reload BY <1>1, <1>7, RenderIsTyped DEF Reload, RestTyped
<1>8. CASE (\E rs \in SUBSET Row : AskDelete(rs)) \/ ConfirmDelete \/ (\E r \in Row : ServeDelete(r)) \/ EndDelete
  <2>1. CASE UNCHANGED <<tables, editors>> /\ overtaken' \in BOOLEAN
    BY <1>1, <1>8, <2>1, DeletingIsTyped DEF GridsTyped, RestTyped
  <2>2. CASE RenderData(editors) BY <1>1, <1>8, <2>2, DeletingIsTyped, RenderIsTyped DEF RestTyped
  <2>3. deletion.failed \in BOOLEAN /\ overtaken \in BOOLEAN BY <1>1 DEF RestTyped, DeletionState
  <2> QED BY <1>8, <2>1, <2>2, <2>3 DEF AskDelete, ConfirmDelete, ServeDelete, EndDelete
<1>9. CASE UNCHANGED vars BY <1>1, <1>9 DEF vars, GridsTyped, RestTyped
<1> QED BY <1>2, <1>3, <1>4, <1>5, <1>6, <1>7, <1>8, <1>9 DEF Next

LEMMA TypesSuffice == TInv => TypeOK
<1> SUFFICES ASSUME TInv PROVE TypeOK OBVIOUS
<1>1. Datum = Value \cup {Empty} BY DEF TInv, Assumed, Datum
<1>2. \A e \in DOMAIN editors : EditorTyped(editors[e], Len(tables)) BY DEF TInv, EditorsTyped
<1>3. DOMAIN tables = 1..Len(tables) BY DEF TInv, GridsTyped
<1> QED BY <1>1, <1>2, <1>3 DEF TInv, GridsTyped, RestTyped, DeletionState, EditorTyped, EditorState, TypeOK

-----------------------------------------------------------------------------
LEMMA InitGood == Init => IInv
<1> SUFFICES ASSUME Init PROVE Typed /\ Good BY DEF IInv
<1>1. db \in [Row -> Datum] /\ \A r, h \in Row : db[r] = db[h] /\ r # h => db[r] = Empty
  BY DEF Init, Row, Datum, Empty
<1>2. Loaded \in [Row -> [key : Datum, shown : Datum]] BY <1>1 DEF Loaded
<1>3. tables = <<Loaded>> /\ Grid = Loaded /\ editors = <<>> /\ deletion = NoDeletion BY DEF Init, Grid
<1>4. Actives = {} BY <1>3 DEF Actives
<1>5. deletion \in DeletionState /\ deletion.at = "none" /\ deletion.left = {}
  BY <1>3, DialogIsTyped DEF NoDeletion
<1>6. Typed BY <1>1, <1>2, <1>3, <1>5 DEF Typed
<1>7. \A r \in Row : Grid[r].key = db[r] /\ Grid[r].shown = db[r] BY <1>3 DEF Loaded
<1> QED
  BY <1>1, <1>3, <1>4, <1>6, <1>7
  DEF Good, OneIsActive, ActiveFits, KeyIsShown, KeysDiffer, GridIsCurrent, RowsAreThere, RequestsAreRight,
      DeletionsHit, NoDeletion

LEMMA StepGood == IInv /\ [Next]_vars => IInv'
<1> SUFFICES ASSUME IInv, [Next]_vars, ~overtaken' PROVE Typed' /\ Good' BY DEF IInv
<1>1. CASE UNCHANGED vars
  <2>1. Typed /\ Good BY <1>1 DEF IInv, vars
  <2> QED
    BY <1>1, <2>1
    DEF vars, Typed, Good, OneIsActive, ActiveFits, KeyIsShown, KeysDiffer, GridIsCurrent, RowsAreThere,
        RequestsAreRight, DeletionsHit, Actives, Grid, Reached, Own, EditorFits, Harmless, ServedWell, KeyIsKnown
<1>2. CASE Next
  <2>1. ~overtaken
    BY <1>2 DEF Next, CommitEditor, CancelEditor, Search, Serve, Saved, SaveFailed, Type, Choose, SearchAnswered,
                OpenRowEditor, AskDelete, ServeDelete, Reload, ConfirmDelete, EndDelete, RenderData
  <2>2. Typed /\ Good BY <2>1 DEF IInv
  <2> QED
    BY <1>2, <2>2, CommitEditorIsGood, CancelEditorIsGood, SearchIsGood, ServeIsGood, SavedIsGood, SaveFailedIsGood,
       TypeIsGood, ChooseIsGood, SearchAnsweredIsGood, OpenRowEditorIsGood, AskDeleteIsGood, ServeDeleteIsGood,
       ReloadIsGood, ConfirmDeleteIsGood, EndDeleteIsGood
    DEF Next
<1> QED BY <1>1, <1>2

LEMMA IInvHolds == Spec => []IInv
  BY InitGood, StepGood, PTL DEF Spec

\* What the invariant says of the saves and the deletions under way.
LEMMA IInvSuffices == IInv => WritesHitTheirRow /\ OnlyKnownKeysAreSaved
  BY DEF IInv, WritesHitTheirRow, OnlyKnownKeysAreSaved, Typed, Good, ActiveFits, Actives, Active, EditorFits,
         ServedWell, KeyIsKnown, DeletionsHit

\* The grids, the editors and the deletion keep their types, whatever is left while it saves:
\* an editor that saves waits for no editor of its own row, and no answer is of a search that
\* was not made (app.js openRowEditor).
THEOREM RowsAreTyped == Assumed /\ Spec => []TypeOK
<1>1. Assumed /\ Init => TInv BY TypesBegin
<1>2. TInv /\ [Next]_vars => TInv' BY TypesGoOn
<1>3. TInv => TypeOK BY TypesSuffice
<1> QED BY <1>1, <1>2, <1>3, PTL DEF Spec

\* A save or a deletion reaches the row it was made on, although saves change the
\* keys by which rows are found (app.js openRowEditor, rowKey.refresh).
THEOREM WritesReachTheirRow == Spec => []WritesHitTheirRow
  BY IInvHolds, IInvSuffices, PTL

\* A foreign key is saved only as a key the referenced table has, whatever is typed
\* and answered while the look-up runs (app.js commit, useResults).
THEOREM SavedKeysAreKnown == Spec => []OnlyKnownKeysAreSaved
  BY IInvHolds, IInvSuffices, PTL
=============================================================================
