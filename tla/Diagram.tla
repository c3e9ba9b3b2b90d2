------------------------------- MODULE Diagram -------------------------------
(***************************************************************************)
(* A relationship diagram (app.js openDiagramTab, loadDiagramTab): the     *)
(* tables its document names, the metadata fetched for them, the cards     *)
(* drawn, and the copy of the document in the browser's storage.           *)
(* DiagramRoute has the connectors.                                        *)
(***************************************************************************)
EXTENDS Naturals, Sequences, SequencesExt, Lists

CONSTANTS Table,      \* the tables a document may name
          Workers,    \* requests of a refresh under way at once (six)
          MaxChanges  \* bound: changes of the membership and of the view, and reloads

VARIABLES
    objects,    \* the tables the database had when the tab was loaded
    document,   \* tables: its list, <<>> if blank; placed: those with a position; view: a number
    stored,     \* the copy in storage
    viewTimer,  \* a move of the view is still to be stored
    cache,      \* definitionCache: the tables with metadata, and those whose metadata failed
    refreshes,  \* refreshDefinitions under way: what is wanted, and still pending
    drawn,      \* definitions, as render has drawn them: the cards and what they say
    changes

vars == <<objects, document, stored, viewTimer, cache, refreshes, drawn, changes>>

Included == ToSet(document.tables)
Cached == cache.known \cup cache.failed

TypeOK ==
    /\ Included \cup document.placed \cup Cached \subseteq Table
    /\ \A r \in refreshes : ToSet(r.pending) \subseteq ToSet(r.wanted) \cap objects
    /\ Cached \subseteq objects

\* diagramPersist
Persist == stored' = document'

-----------------------------------------------------------------------------
(* Cards *)

\* Mutated: a table whose metadata has not come is taken for a missing one.
CardGuessed(t, k) == [table |-> t, says |-> IF t \in k.known THEN "columns" ELSE "missing"]

\* A table that the document names and the database has not keeps its place.
Card(t, k) == [table |-> t, says |-> IF t \in k.known THEN "columns"
                                     ELSE IF t \in k.failed THEN "unavailable" ELSE "missing"]

\* render places the cards that have no place yet; that is not stored.
Placed(doc, tables) == [doc EXCEPT !.placed = @ \cup ToSet(tables)]

Draw(tables, k) == drawn' = {Card(t, k) : t \in ToSet(tables)}

\* refreshDefinitions of a document, with nothing to fetch or with requests.
Refresh(doc) ==
    LET pending == Keep(doc.tables, objects \ Cached)
    IN IF pending = <<>> THEN /\ Draw(doc.tables, cache) /\ document' = Placed(doc, doc.tables)
                            /\ UNCHANGED refreshes
       ELSE /\ refreshes' = refreshes \cup {[wanted |-> doc.tables, pending |-> pending, n |-> changes']}
            /\ document' = doc /\ UNCHANGED drawn

\* One of the workers, who take the tables in turn, gets an answer or none; the
\* last one draws.
MetadataArrives(r, i) ==
    /\ r \in refreshes /\ i \in DOMAIN r.pending /\ i <= Workers
    /\ LET t == r.pending[i]
       IN \/ cache' = [cache EXCEPT !.known = @ \cup {t}, !.failed = @ \ {t}]
          \/ cache' = [cache EXCEPT !.failed = @ \cup {t}, !.known = @ \ {t}]
    /\ LET left == [r EXCEPT !.pending = RemoveAt(@, i)]
       IN IF left.pending # <<>> THEN /\ refreshes' = (refreshes \ {r}) \cup {left}
                                    /\ UNCHANGED <<document, drawn>>
          ELSE /\ refreshes' = refreshes \ {r}
               /\ Draw(r.wanted, cache') /\ document' = Placed(document, r.wanted)
    /\ UNCHANGED <<objects, stored, viewTimer, changes>>

-----------------------------------------------------------------------------
(* The person *)

Changing == changes < MaxChanges /\ changes' = changes + 1
Ready == \A r \in refreshes : r.n # 0  \* the canvas is there once the tab is loaded

\* addTables, of the menu or the dialog.
AddTables(added) ==
    /\ Ready /\ Changing /\ added # {} /\ added \subseteq objects \ Included
    /\ LET doc == [document EXCEPT !.tables = @ \o SetToSeq(added)]
       IN Refresh(doc) /\ stored' = doc
    /\ UNCHANGED <<objects, viewTimer, cache>>

\* removeTable, from the menu of a card.
RemoveTable(t) ==
    /\ Changing /\ \E card \in drawn : card.table = t
    /\ LET doc == [document EXCEPT !.tables = Keep(@, Table \ {t}), !.placed = @ \ {t}]
       IN Refresh(doc) /\ stored' = doc
    /\ UNCHANGED <<objects, viewTimer, cache>>

\* A card is moved.
MoveCard(t) ==
    /\ Changing /\ \E card \in drawn : card.table = t
    /\ document' = [document EXCEPT !.placed = @ \cup {t}] /\ Persist
    /\ UNCHANGED <<objects, viewTimer, cache, refreshes, drawn>>

\* The view moves or zooms: stored after 400 milliseconds.
MoveView ==
    /\ Changing /\ document' = [document EXCEPT !.view = @ + 1] /\ viewTimer' = TRUE
    /\ UNCHANGED <<objects, stored, cache, refreshes, drawn>>

ViewStored ==
    /\ viewTimer /\ viewTimer' = FALSE /\ UNCHANGED document /\ Persist
    /\ UNCHANGED <<objects, cache, refreshes, drawn, changes>>

-----------------------------------------------------------------------------
\* loadDiagramTab: the first refresh, if there is something to fetch.
Opened(doc, found) ==
    LET pending == Keep(doc.tables, found)
        shown == IF pending = <<>> THEN ToSet(doc.tables) ELSE {}
    IN [refreshes |-> IF pending = <<>> THEN {} ELSE {[wanted |-> doc.tables, pending |-> pending, n |-> 0]},
        drawn |-> {[table |-> t, says |-> "missing"] : t \in shown},
        document |-> Placed(doc, SetToSeq(shown))]

\* The page is loaded again, and its session opens the stored document; the
\* database may have lost and gained tables.
Reload(found) ==
    /\ Changing /\ objects' = found
    /\ LET opened == Opened(stored, found)
       IN refreshes' = opened.refreshes /\ drawn' = opened.drawn /\ document' = opened.document
    /\ cache' = [known |-> {}, failed |-> {}] /\ viewTimer' = FALSE
    /\ UNCHANGED stored

\* A new diagram is of the whole database, or blank.
Init ==
    /\ objects \in SUBSET Table /\ changes = 0
    /\ \E tables \in {SetToSeq(objects), <<>>} :
           document = [tables |-> tables, placed |-> {}, view |-> 0]
    /\ stored = document /\ viewTimer = FALSE /\ cache = [known |-> {}, failed |-> {}]
    /\ refreshes = Opened(document, objects).refreshes /\ drawn = {}

Next ==
    \/ \E r \in refreshes : \E i \in DOMAIN r.pending : MetadataArrives(r, i)
    \/ \E added \in SUBSET Table : AddTables(added) \/ Reload(added)
    \/ \E t \in Table : RemoveTable(t) \/ MoveCard(t)
    \/ MoveView \/ ViewStored

Spec == Init /\ [][Next]_vars

-----------------------------------------------------------------------------
(* Properties *)

\* Whatever refreshes overlap, a card says that its table is missing exactly when
\* the database has no such table, and shows columns or that they are unavailable
\* for every other; and nothing done to the tables of a diagram is lost with the
\* page.
CardsTellWhatThereIs ==
    /\ \A card \in drawn : card.says = "missing" <=> card.table \notin objects
    /\ stored.tables = document.tables
=============================================================================
