---------------------------- MODULE SavedQueries ----------------------------
(***************************************************************************)
(* The saved queries of query tabs (app.js openQueryTab: refreshSaved, the  *)
(* select, Save and Delete with their dialogs) over the store that all tabs *)
(* share.  A request takes effect when it is served, and its answer is told *)
(* later, in any order, or lost.                                            *)
(*                                                                         *)
(* A dialog covers the page: nothing under it is used while it is open.  A  *)
(* tab's title is left out, and so is the Delete button's state, which is   *)
(* whether anything is selected.                                            *)
(***************************************************************************)
EXTENDS Naturals, FiniteSets, Functions

CONSTANTS None,
          Connection,
          Tab, ConnectionOf,  \* the query tabs, each with its connection
          Name, Sql,
          Stores,             \* what may be stored at first, per number
          MaxChanges          \* bound: what the person does

VARIABLES
    store,     \* the saved queries, by id
    ids,       \* how many ids were given
    listed,    \* per tab: savedQueries
    selected,  \* selectedSavedId
    option,    \* what the select shows
    editor,    \* the text
    dialog,    \* the one open dialog of a tab, or None
    requests,  \* those under way
    changes    \* how many things the person did

page == <<listed, selected, option, editor>>
vars == <<store, ids, page, dialog, requests, changes>>

Query == [name : Name, sql : Sql, connection : Connection]

TypeOK ==
    /\ ids \in Nat /\ DOMAIN store \subseteq 1..ids /\ Range(store) \subseteq Query
    /\ \A t \in Tab :
          /\ DOMAIN listed[t] \subseteq 1..ids /\ Range(listed[t]) \subseteq Query
          /\ {selected[t], option[t]} \subseteq 1..ids \cup {None}
          /\ editor[t] \in Sql \cup {None}
          /\ dialog[t] # None => dialog[t].kind \in {"save", "delete"} /\ dialog[t].n <= changes
    /\ Cardinality(requests) <= changes + Cardinality(Tab)
    /\ changes <= MaxChanges

\* refreshSaved, before its answer; dialog is the one that is closed after it.
Listing(n, t, select, closes) == [n |-> n, tab |-> t, kind |-> "list", id |-> select, dialog |-> closes, answer |-> None]

\* Every tab has asked for its list.
Init ==
    /\ store \in Stores /\ ids = Cardinality(DOMAIN store)
    /\ listed = [t \in Tab |-> <<>>] /\ selected = [t \in Tab |-> None] /\ option = selected
    /\ editor = [t \in Tab |-> None] /\ dialog = [t \in Tab |-> None]
    /\ requests = {Listing(0, t, None, None) : t \in Tab} /\ changes = 0

\* A request goes out; the person does something.
Send(request) == requests' = requests \cup {request}
Changing == changes < MaxChanges /\ changes' = changes + 1

-----------------------------------------------------------------------------
(* The person *)

\* savedQueries.find of the selected id.
Chosen(t) == selected[t] \in DOMAIN listed[t]

Type(t, sql) ==
    /\ Changing /\ dialog[t] = None /\ editor[t] # sql /\ editor' = [editor EXCEPT ![t] = sql]
    /\ UNCHANGED <<store, ids, listed, selected, option, dialog, requests>>

\* Picking a query shows its text; picking the first line selects none.
Pick(t, id) ==
    /\ Changing /\ dialog[t] = None /\ {option[t], selected[t]} # {id}
    /\ option' = [option EXCEPT ![t] = id] /\ selected' = [selected EXCEPT ![t] = id]
    /\ editor' = IF id = None THEN editor ELSE [editor EXCEPT ![t] = listed[t][id].sql]
    /\ UNCHANGED <<store, ids, listed, dialog, requests>>

Open(t, d) ==
    /\ Changing /\ dialog[t] = None /\ dialog' = [dialog EXCEPT ![t] = d]
    /\ UNCHANGED <<store, ids, page, requests>>

\* What the dialogs hold on to: the query selected, as it was listed, and the text.
ClickSave(t) ==
    /\ editor[t] # None
    /\ Open(t, [kind |-> "save", n |-> changes, sql |-> editor[t], id |-> IF Chosen(t) THEN selected[t] ELSE None,
                name |-> IF Chosen(t) THEN listed[t][selected[t]].name ELSE None])

ClickDelete(t) ==
    /\ Chosen(t)
    /\ Open(t, [kind |-> "delete", n |-> changes, id |-> selected[t], name |-> listed[t][selected[t]].name])

Cancel(t) ==
    /\ Changing /\ dialog[t] # None /\ dialog' = [dialog EXCEPT ![t] = None]
    /\ UNCHANGED <<store, ids, page, requests>>

\* Mutated: the query selected is overwritten whatever the name.
OverwritesAnyway(d, name) == d.id # None

Overwrites(d, name) == d.id # None /\ d.name = name

\* Save and Delete in their dialogs, which stay and can be clicked again.
Save(t, name) ==
    /\ dialog[t] # None /\ dialog[t].kind = "save" /\ Changing
    /\ Send([n |-> changes + 1, tab |-> t, kind |-> "save", dialog |-> dialog[t], answer |-> None,
             id |-> IF Overwrites(dialog[t], name) THEN dialog[t].id ELSE None,
             query |-> [name |-> name, sql |-> dialog[t].sql, connection |-> ConnectionOf[t]]])
    /\ UNCHANGED <<store, ids, page, dialog>>

Delete(t) ==
    /\ dialog[t] # None /\ dialog[t].kind = "delete" /\ Changing
    /\ Send([n |-> changes + 1, tab |-> t, kind |-> "delete", dialog |-> dialog[t], answer |-> None,
             id |-> dialog[t].id, name |-> dialog[t].name])
    /\ UNCHANGED <<store, ids, page, dialog>>

-----------------------------------------------------------------------------
(* The server *)

Told(r, answer) == requests' = (requests \ {r}) \cup {[r EXCEPT !.answer = answer]}

\* GetSavedQueries, of which the tab keeps those of its connection.
ServeList(r) ==
    /\ r.kind = "list"
    /\ Told(r, {Restrict(store, {id \in DOMAIN store : store[id].connection = ConnectionOf[r.tab]})})
    /\ UNCHANGED <<store, ids>>

\* SaveQuery: under its id, which may have been deleted meanwhile, or a new one.
ServeSave(r) ==
    /\ r.kind = "save"
    /\ LET id == IF r.id = None THEN ids + 1 ELSE r.id
       IN /\ store' = [i \in DOMAIN store \cup {id} |-> IF i = id THEN r.query ELSE store[i]]
          /\ ids' = IF r.id = None THEN id ELSE ids
          /\ Told(r, {id})

\* DeleteSavedQuery tells whether there was one.
ServeDelete(r) ==
    /\ r.kind = "delete"
    /\ store' = Restrict(store, DOMAIN store \ {r.id})
    /\ Told(r, {r.id \in DOMAIN store}) /\ UNCHANGED ids

Serve(r) ==
    /\ r.answer = None /\ (ServeList(r) \/ ServeSave(r) \/ ServeDelete(r))
    /\ UNCHANGED <<page, dialog, changes>>

-----------------------------------------------------------------------------
(* The answers *)

\* The dialog closes, if it is still that one.
Closed(t, d) == dialog' = [dialog EXCEPT ![t] = IF @ = d THEN None ELSE @]

\* The end of refreshSaved; a list that cannot be read is empty.
ListTold(r, queries) ==
    /\ listed' = [listed EXCEPT ![r.tab] = queries] /\ selected' = [selected EXCEPT ![r.tab] = r.id]
    /\ option' = [option EXCEPT ![r.tab] = IF r.id \in DOMAIN queries THEN r.id ELSE None]
    /\ Closed(r.tab, r.dialog) /\ requests' = requests \ {r}
    /\ UNCHANGED <<editor, changes>>

\* What a save or a delete that succeeded goes on with; the list it asks for
\* takes its place among the requests.
Refresh(r, select, closes) ==
    /\ requests' = (requests \ {r}) \cup {Listing(r.n, r.tab, select, closes)}
    /\ UNCHANGED <<page, changes>>

Answer(r) ==
    /\ r.answer # None
    /\ \E answer \in r.answer :
          \/ r.kind = "list" /\ ListTold(r, answer)
          \/ r.kind = "save" /\ Refresh(r, answer, None) /\ Closed(r.tab, r.dialog)
          \/ r.kind = "delete" /\ answer /\ Refresh(r, None, r.dialog) /\ UNCHANGED dialog
          \/ r.kind = "delete" /\ ~answer /\ requests' = requests \ {r} /\ UNCHANGED <<page, dialog, changes>>
    /\ UNCHANGED <<store, ids>>

\* Before or after it was served; a dialog shows why and stays.
Fail(r) ==
    /\ \/ r.kind = "list" /\ ListTold(r, <<>>)
       \/ r.kind # "list" /\ requests' = requests \ {r} /\ UNCHANGED <<page, dialog, changes>>
    /\ UNCHANGED <<store, ids>>

Next ==
    \/ \E t \in Tab :
          \/ \E sql \in Sql \cup {None} : Type(t, sql)
          \/ \E id \in DOMAIN listed[t] \cup {None} : Pick(t, id)
          \/ ClickSave(t) \/ ClickDelete(t) \/ Cancel(t) \/ Delete(t)
          \/ \E name \in Name : Save(t, name)
    \/ \E r \in requests : Serve(r) \/ Answer(r) \/ Fail(r)

Spec == Init /\ [][Next]_vars

-----------------------------------------------------------------------------
(* Properties *)

\* A saved query keeps its name for as long as any tab may name it, whatever the
\* tabs save, delete, and save again meanwhile: what a select shows is saved and
\* deleted under that name, and what Delete deletes has the name its dialog asked
\* about.  The line the select shows is the query that Save and Delete take.
SavedAreAsNamed ==
    /\ \A t \in Tab :
          /\ \A id \in DOMAIN listed[t] \cap DOMAIN store : listed[t][id].name = store[id].name
          /\ option[t] # None => option[t] = selected[t] /\ Chosen(t)
          /\ Chosen(t) => option[t] = selected[t]
    /\ \A r \in requests : r.kind = "delete" /\ r.id \in DOMAIN store => store[r.id].name = r.name
=============================================================================
