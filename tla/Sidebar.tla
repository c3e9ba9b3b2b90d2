------------------------------ MODULE Sidebar ------------------------------
(***************************************************************************)
(* The pickers of the header, the object tree and its filter (app.js       *)
(* selectConnection, selectDatabase, loadObjects, restoreFilter), the      *)
(* lists of objects kept per scope (objectsForScope), and the relationship *)
(* metadata a data tab assembles and shares with others of its table       *)
(* (loadIncomingMetadata).  Each action is the code between two awaits.    *)
(***************************************************************************)
EXTENDS Naturals

CONSTANTS None,
          Connection,
          Default,    \* per connection the database it opens
          Boot,       \* the connection it starts with
          Text,       \* what is typed as a filter
          Tab,        \* the data tabs of one table, in Home
          MaxChanges  \* bound: things a person asks for

Database == {Default[c] : c \in Connection} \cup {"other"}
DatabasesOf(c) == {Default[c], "other"}
Scope == Connection \X (Database \cup {None})
Home == <<Boot, Default[Boot]>>

VARIABLES
    connection, database, \* state.connection, state.database
    listed,               \* whose databases the second picker lists
    requests,             \* lists of databases and of objects under way
    tree,                 \* the scope whose objects are drawn, None if there are none
    kept,                 \* objectsByScope: per scope its objects, "none" of them, or None
    filter, remembered,   \* the filter box; what localStorage keeps per scope
    promise, shared,      \* incomingMetadataPromise of each tab; incomingRelationships
    loading,              \* assemblies under way
    stamp,                \* history: how often the metadata of Home was given up
    panel,                \* per tab what it shows below the rows
    changes

pickers == <<connection, database, listed, requests, tree, kept>>
filters == <<filter, remembered>>
relations == <<promise, shared, loading, panel>>
vars == <<pickers, filters, relations, stamp, changes>>

Current == <<connection, database>>
Asking == [at |-> "asking"]

TypeOK ==
    /\ connection \in Connection /\ database \in Database \cup {None}
    /\ \A r \in requests : r.scope \in Scope /\ r.kind \in {"databases", "objects"}
    /\ tree \in Scope \cup {None} /\ listed \in Connection
    /\ shared # None => shared.begun <= stamp
    /\ \A t \in Tab : panel[t].at = "loading" => \E l \in loading : l.id = panel[t].waits

Changing == changes < MaxChanges /\ changes' = changes + 1
Request(kind, scope) == [kind |-> kind, scope |-> scope, nr |-> changes]

-----------------------------------------------------------------------------
(* The pickers *)

\* invalidateScopeMetadata.  Mutated: the assembly that is shared stays.
InvalidateStructures(scope) ==
    /\ stamp' = IF scope = Home THEN stamp + 1 ELSE stamp
    /\ UNCHANGED shared
Invalidate(scope) ==
    IF scope = Home THEN stamp' = stamp + 1 /\ shared' = None ELSE UNCHANGED <<stamp, shared>>

SelectConnection(c) ==
    /\ Changing
    /\ connection' = c /\ database' = None
    /\ requests' = requests \cup {Request("databases", <<c, None>>)}
    /\ UNCHANGED <<listed, tree, kept, filters, relations, stamp>>

\* selectDatabase gives up what was read of any database, and loads the objects.
SelectDatabase(d, others) ==
    /\ database' = d
    /\ requests' = others \cup {Request("objects", <<connection, d>>)}
    /\ stamp' = stamp + 1 /\ shared' = None
    /\ UNCHANGED <<connection, tree, kept, filters, promise, loading, panel>>

\* The default of the connection chosen now, if the list that arrives has it.
First(c) == IF Default[connection] \in DatabasesOf(c) THEN Default[connection] ELSE Default[c]

DatabasesArrive(r) ==
    /\ r.kind = "databases" /\ listed' = r.scope[1]
    /\ SelectDatabase(First(r.scope[1]), requests \ {r})
    /\ UNCHANGED changes

DatabasesFail(r) ==
    /\ r.kind = "databases" /\ requests' = requests \ {r}
    /\ UNCHANGED <<connection, database, listed, tree, kept, filters, relations, stamp, changes>>

ChooseDatabase(d) ==
    /\ Changing /\ d \in DatabasesOf(listed)
    /\ SelectDatabase(d, requests) /\ UNCHANGED listed

-----------------------------------------------------------------------------
(* The objects *)

Refresh ==
    /\ Changing /\ requests' = requests \cup {Request("objects", Current)}
    /\ UNCHANGED <<connection, database, listed, tree, kept, filters, relations, stamp>>

\* Mutated: whatever the pickers say by then.
DrawAny(scope) == tree' = scope /\ filter' = remembered[Current] /\ UNCHANGED remembered
Draw(scope) ==
    IF scope = Current THEN tree' = scope /\ filter' = remembered[Current] /\ UNCHANGED remembered
    ELSE UNCHANGED <<tree, filters>>

\* A list that fails is kept, and drawn, as an empty one.
ObjectsArrive(r, objects) ==
    /\ r.kind = "objects" /\ requests' = requests \ {r}
    /\ kept' = [kept EXCEPT ![r.scope] = objects]
    /\ Invalidate(r.scope) /\ Draw(r.scope)
    /\ UNCHANGED <<connection, database, listed, promise, loading, panel, changes>>

TypeFilter(text) ==
    /\ Changing /\ filter' = text /\ remembered' = [remembered EXCEPT ![Current] = text]
    /\ UNCHANGED <<pickers, relations, stamp>>

-----------------------------------------------------------------------------
(* Incoming relationships *)

\* A tab that has asked for nothing yet might as well open now: it takes what is shared.
Open(t) ==
    /\ promise[t] = None /\ panel[t] = Asking /\ shared # None
    /\ promise' = [promise EXCEPT ![t] = shared.id]
    /\ UNCHANGED <<pickers, filters, shared, loading, panel, stamp, changes>>

\* Another row is selected.
SelectRow(t) ==
    /\ panel[t] # Asking /\ panel' = [panel EXCEPT ![t] = Asking]
    /\ UNCHANGED <<pickers, filters, promise, shared, loading, stamp, changes>>

SharesOwn(t) == promise[t] # None /\ shared # None /\ shared.id = promise[t]

\* A tab returns to its own assembly if it is the shared one, and begins another
\* otherwise.
Join(t) ==
    /\ SharesOwn(t)
    /\ panel' = [panel EXCEPT ![t] =
                    IF \E l \in loading : l.id = promise[t]
                    THEN [at |-> "loading", waits |-> promise[t], asked |-> stamp]
                    ELSE [at |-> "shown", begun |-> shared.begun, asked |-> stamp]]
    /\ UNCHANGED <<promise, shared, loading>>

Assemble(t) ==
    /\ ~SharesOwn(t)
    /\ promise' = [promise EXCEPT ![t] = changes'] /\ shared' = [id |-> changes', begun |-> stamp]
    /\ loading' = loading \cup {[id |-> changes', begun |-> stamp, by |-> t, listed |-> kept[Home] # None]}
    /\ panel' = [panel EXCEPT ![t] = [at |-> "loading", waits |-> changes', asked |-> stamp]]

Inspect(t) ==
    /\ Changing /\ panel[t].at \in {"asking", "incomplete", "failed"}
    /\ Join(t) \/ Assemble(t)
    /\ UNCHANGED <<pickers, filters, stamp>>

\* objectsForScope: the list it waited for replaces what is kept by then.
AssemblyLists(l) ==
    /\ ~l.listed
    /\ loading' = (loading \ {l}) \cup {[l EXCEPT !.listed = TRUE]}
    /\ kept' = [kept EXCEPT ![Home] = "objects"]
    /\ UNCHANGED <<connection, database, listed, requests, tree, filters, promise, shared, panel, stamp, changes>>

\* Told to the tabs that wait for it.
Settle(l, at) ==
    panel' = [t \in Tab |-> IF panel[t].at = "loading" /\ panel[t].waits = l.id
                            THEN [at |-> at, begun |-> l.begun, asked |-> panel[t].asked] ELSE panel[t]]

AssemblyEnds(l) ==
    /\ l.listed /\ loading' = loading \ {l} /\ Settle(l, "shown")
    /\ UNCHANGED <<pickers, filters, promise, shared, stamp, changes>>

\* Not kept, if the one that is shared is the tab's: the one that ended or a newer one.
AssemblyFails(l, at) ==
    /\ at = "incomplete" => l.listed
    /\ loading' = loading \ {l} /\ Settle(l, at)
    /\ IF SharesOwn(l.by) THEN shared' = None /\ promise' = [promise EXCEPT ![l.by] = None]
       ELSE UNCHANGED <<shared, promise>>
    /\ UNCHANGED <<pickers, filters, stamp, changes>>

\* As boot leaves it.
Init ==
    /\ connection = Boot /\ database = Default[Boot] /\ listed = Boot /\ tree = Home
    /\ changes = 0 /\ stamp = 0 /\ requests = {}
    /\ kept = [s \in Scope |-> IF s = Home THEN "objects" ELSE None]
    /\ filter = None /\ remembered = [s \in Scope |-> None]
    /\ promise = [t \in Tab |-> None] /\ shared = None /\ loading = {}
    /\ panel = [t \in Tab |-> Asking]

Next ==
    \/ \E c \in Connection : SelectConnection(c)
    \/ \E d \in Database : ChooseDatabase(d)
    \/ \E r \in requests : DatabasesArrive(r) \/ DatabasesFail(r) \/ ObjectsArrive(r, "objects") \/ ObjectsArrive(r, "none")
    \/ Refresh \/ \E text \in Text : TypeFilter(text)
    \/ \E t \in Tab : Open(t) \/ SelectRow(t) \/ Inspect(t)
    \/ \E l \in loading : \/ AssemblyLists(l) \/ AssemblyEnds(l)
                          \/ AssemblyFails(l, "incomplete") \/ AssemblyFails(l, "failed")

Spec == Init /\ [][Next]_vars

-----------------------------------------------------------------------------
(* Properties *)

\* Once nothing is under way the tree is that of the database the pickers name, and the
\* filter box holds what is remembered for it.
TreeIsThePickers ==
    requests = {} /\ database # None => tree = Current /\ filter = remembered[Current]

\* References that are shown were assembled after the metadata was last given up before
\* they were asked for, although tabs share and keep what they assembled.
ReferencesAreFresh ==
    \A t \in Tab : panel[t].at \in {"shown", "incomplete"} => panel[t].begun >= panel[t].asked
=============================================================================
