--------------------------- MODULE ComponentPage ---------------------------
(***************************************************************************)
(* A published component in the reader's browser (runtime.js): how it       *)
(* starts, loads and walks its rows, and runs the actions of its buttons.   *)
(* Each action is the code between two awaits.                              *)
(*                                                                         *)
(* Rows are counted.  A bound button is enabled while the first row is in   *)
(* front, as an example of a binding that a redraw applies; the bindings    *)
(* themselves are in Bindings.  Handlers of the author's modules do nothing *)
(* but call the component, which they may do at any time.                   *)
(***************************************************************************)
EXTENDS Naturals, FiniteSets

CONSTANTS Operation,   \* the operations there are
          Button,      \* the buttons with a data-action
          Bound,       \* those whose "enabled" is bound
          OperationOf, \* the operation of a button, or Undeclared
          Undeclared,
          MaxRows,     \* bound: rows of an answer
          MaxReloads,  \* bound: reloads under way
          MaxClicks    \* bound: clicks that run an action

VARIABLES
    phase,      \* of start(): "rows", "behaviour", "ready", "closed" (actions failed closed)
    rows,       \* the number of rows
    rowIndex,
    shown,      \* what the bindings, grids and pagers were last drawn for
    reloads,    \* reload() calls whose rows are under way
    disabled,   \* per button
    original,   \* originalActionDisabled: {} or the one value it held
    pending,    \* pendingActions
    runs,       \* the actions under way
    clicks,     \* how many there were
    catalogue,  \* publishedEndpointCataloguePromise
    status      \* the one status line

data == <<phase, rows, rowIndex, shown, reloads>>
actions == <<original, pending, runs, clicks, catalogue, status>>
vars == <<data, disabled, actions>>

Nothing == [rows |-> 0, index |-> MaxRows + 1]

TypeOK ==
    /\ phase \in {"rows", "behaviour", "ready", "closed"}
    /\ rows \in 0..MaxRows /\ rowIndex \in Nat /\ reloads \in 0..MaxReloads
    /\ shown \in [rows : 0..MaxRows, index : Nat]
    /\ disabled \in [Button -> BOOLEAN] /\ original \in [Button -> SUBSET BOOLEAN]
    /\ pending \subseteq Operation
    /\ runs \subseteq [id : 1..MaxClicks, operation : Operation, at : {"catalogue", "sent"}]
    /\ pending = {r.operation : r \in runs}
    /\ catalogue \in {"none", "loading", "loaded"}
    /\ (\E r \in runs : r.at = "catalogue") => catalogue = "loading"
    /\ status \in {"none", "pending", "success", "error"}
    /\ runs = {} => status # "pending"

Init ==
    /\ phase = "rows" /\ rows = 0 /\ rowIndex = 0 /\ shown = Nothing /\ reloads = 0
    /\ disabled \in [Button -> BOOLEAN] /\ original = [b \in Button |-> {}]
    /\ pending = {} /\ runs = {} /\ clicks = 0 /\ catalogue = "none" /\ status = "none"

ButtonsOf(operations) == {b \in Button : OperationOf[b] \in operations}

\* renderBindings, renderGrids and renderPagers, for n rows at index i.
Drawn(n, i) == [rows |-> n, index |-> i]
Redraw(n, i, before) == [b \in Button |-> IF b \in Bound THEN i # 0 ELSE before[b]]

-----------------------------------------------------------------------------
(* Starting *)

\* loadRows; a source that cannot be read leaves no rows, and a message.
StartRows(n) ==
    /\ phase = "rows" /\ phase' = "behaviour"
    /\ rows' = n /\ rowIndex' = 0
    /\ UNCHANGED <<shown, reloads, disabled, actions>>

\* The modules are there and connected: everything is drawn, and the buttons
\* work, unless a declaration is malformed.
Ready ==
    /\ phase = "behaviour" /\ phase' \in {"ready", "closed"}
    /\ shown' = Drawn(rows, rowIndex)
    /\ disabled' = [b \in Button |->
          \/ phase' = "closed" \/ OperationOf[b] = Undeclared
          \/ Redraw(rows, rowIndex, disabled)[b]]
    /\ UNCHANGED <<rows, rowIndex, reloads, actions>>

-----------------------------------------------------------------------------
(* Rows *)

Reload ==
    /\ phase # "rows" /\ reloads < MaxReloads /\ reloads' = reloads + 1
    /\ UNCHANGED <<phase, rows, rowIndex, shown, disabled, actions>>

\* Mutated: the row in front stays in front.
AfterReloadInPlace(n) == rowIndex

\* The row in front after n rows were loaded.
AfterReload(n) == 0

Reloaded(n) ==
    /\ reloads > 0 /\ reloads' = reloads - 1
    /\ rows' = n /\ rowIndex' = AfterReload(n)
    /\ shown' = Drawn(n, rowIndex') /\ disabled' = Redraw(n, rowIndex', disabled)
    /\ UNCHANGED <<phase, actions>>

\* A pager, next() or previous(); the index is kept within the rows.
GoTo(i) ==
    /\ phase # "rows"
    /\ rowIndex' = IF rows = 0 THEN 0 ELSE IF i < rows THEN i ELSE rows - 1
    /\ shown' = Drawn(rows, rowIndex') /\ disabled' = Redraw(rows, rowIndex', disabled)
    /\ UNCHANGED <<phase, rows, reloads, actions>>

-----------------------------------------------------------------------------
(* Actions *)

\* runAction's finally, for the runs that end: setActionPending(..., false).
End(ended, left, outcome) ==
    LET operations == {r.operation : r \in ended}
    IN /\ runs' = left
       /\ pending' = pending \ operations
       /\ disabled' = [b \in Button |->
             IF b \in ButtonsOf(operations) THEN TRUE \in original[b] ELSE disabled[b]]
       /\ status' = IF ended = {} THEN status ELSE outcome

\* Mutated: a click counts if the button is enabled.
ListensAnyway(b) == phase = "ready" /\ OperationOf[b] # Undeclared /\ ~disabled[b]

\* The click listener of a declared button, and runAction's own look.
Listens(b) ==
    /\ phase = "ready" /\ OperationOf[b] # Undeclared
    /\ ~disabled[b] /\ OperationOf[b] \notin pending

\* runAction up to its first await: the catalogue, which operations share.
Click(b) ==
    LET operation == OperationOf[b]
        at == IF catalogue = "loaded" THEN "sent" ELSE "catalogue"
    IN /\ Listens(b) /\ clicks < MaxClicks /\ clicks' = clicks + 1
       /\ original' = [c \in Button |-> IF c \in ButtonsOf({operation}) /\ original[c] = {}
                                        THEN {disabled[c]} ELSE original[c]]
       /\ disabled' = [c \in Button |-> disabled[c] \/ c \in ButtonsOf({operation})]
       /\ pending' = pending \cup {operation}
       /\ runs' = runs \cup {[id |-> clicks + 1, operation |-> operation, at |-> at]}
       /\ catalogue' = IF catalogue = "none" THEN "loading" ELSE catalogue
       /\ status' = "pending"
       /\ UNCHANGED data

\* Those that have no endpoint, or cannot build their body, end here; the
\* controls are read now.
CatalogueLoads(failing) ==
    LET waiting == {r \in runs : r.at = "catalogue"}
    IN /\ catalogue = "loading" /\ catalogue' = "loaded" /\ failing \subseteq waiting
       /\ End(failing, {IF r.at = "catalogue" THEN [r EXCEPT !.at = "sent"] ELSE r : r \in runs \ failing},
              "error")
       /\ UNCHANGED <<data, original, clicks>>

\* The failed promise is dropped, so that the next click asks again.
CatalogueFails ==
    LET waiting == {r \in runs : r.at = "catalogue"}
    IN /\ catalogue = "loading" /\ catalogue' = "none"
       /\ End(waiting, runs \ waiting, "error")
       /\ UNCHANGED <<data, original, clicks>>

Answered(r) ==
    /\ r.at = "sent" /\ \E outcome \in {"success", "error"} : End({r}, runs \ {r}, outcome)
    /\ UNCHANGED <<data, original, clicks, catalogue>>

-----------------------------------------------------------------------------
Next ==
    \/ \E n \in 0..MaxRows : StartRows(n) \/ Reloaded(n) \/ GoTo(n)
    \/ Ready \/ Reload \/ CatalogueFails
    \/ \E b \in Button : Click(b)
    \/ \E failing \in SUBSET runs : CatalogueLoads(failing)
    \/ \E r \in runs : Answered(r)

Spec == Init /\ [][Next]_vars

-----------------------------------------------------------------------------
(* Properties *)

\* However many buttons an operation has, and however often a redraw enables
\* them again, it has one request under way (runtime.js pendingActions).
OneRequestPerOperation ==
    \A r, s \in runs : r.operation = s.operation => r = s

\* Once drawn, the page shows the rows it holds and the row in front, which is
\* one of them, whatever reloads overlap (runtime.js loadRows, goTo).
PageShowsItsRow ==
    /\ rowIndex = 0 \/ rowIndex < rows
    /\ phase \in {"ready", "closed"} => shown = Drawn(rows, rowIndex)
=============================================================================
