-------------------------- MODULE SchemaCompareTab --------------------------
(***************************************************************************)
(* The tab that compares two schemas (app.js loadSchemaCompareTab): each   *)
(* side has a connection and a list of its databases, which is asked for   *)
(* again when the connection changes and when the sides are swapped.       *)
(* SchemaMigration is what a comparison works out.                         *)
(***************************************************************************)
EXTENDS Naturals, FiniteSets

CONSTANTS Connection,  \* each has the databases <<c, 1>> and <<c, 2>>
          None,
          MaxChanges   \* bound: changes of a connection, and swaps

Side == {"source", "target"}
Other(side) == IF side = "source" THEN "target" ELSE "source"
Database(c) == {<<c, n>> : n \in 1..2}

VARIABLES
    connection,  \* chosen on each side
    database,    \* chosen on each side, None if the list is empty
    listed,      \* the connection whose databases a side lists, None before the first list
    requests,    \* databaseRequests
    loads,       \* the requests for databases under way (databaseLoads is their number)
    comparing,   \* comparisonRunning: the two scopes, or None
    results,     \* the comparison shown: its scopes, or None
    changes

vars == <<connection, database, listed, requests, loads, comparing, results, changes>>

Scope(side) == [connection |-> connection[side], database |-> database[side]]
Scopes == [side \in Side |-> Scope(side)]

TypeOK ==
    /\ connection \in [Side -> Connection]
    /\ \A load \in loads : load.side \in Side /\ load.request \in 1..requests[load.side]
    /\ comparing # None => comparing = Scopes

\* populateDatabases; the job is the change that asks.
Load(side, c, job, preferred) ==
    [side |-> side, request |-> requests[side] + 1, of |-> c, job |-> job, preferred |-> preferred]

\* Mutated: any answer fills the list.
CurrentAny(load) == TRUE

Current(load) == load.request = requests[load.side]

-----------------------------------------------------------------------------
\* A change of a connection; only a comparison disables the selects.
ChangeConnection(side, c) ==
    /\ comparing = None /\ c # connection[side]
    /\ changes < MaxChanges /\ changes' = changes + 1
    /\ connection' = [connection EXCEPT ![side] = c]
    /\ loads' = loads \cup {Load(side, c, changes + 1, None)}
    /\ requests' = [requests EXCEPT ![side] = @ + 1]
    /\ UNCHANGED <<database, listed, comparing, results>>

\* The select of databases is disabled while the newest list of its side is awaited.
ChangeDatabase(side, d) ==
    /\ comparing = None /\ listed[side] # None /\ database[side] # None
    /\ ~\E load \in loads : load.side = side /\ Current(load)
    /\ d \in Database(listed[side]) /\ database' = [database EXCEPT ![side] = d]
    /\ UNCHANGED <<connection, listed, requests, loads, comparing, results, changes>>

Swap ==
    /\ comparing = None /\ loads = {} /\ changes < MaxChanges /\ changes' = changes + 1
    /\ connection' = [side \in Side |-> connection[Other(side)]]
    /\ loads' = {Load(side, connection[Other(side)], changes + 1, database[Other(side)]) : side \in Side}
    /\ requests' = [side \in Side |-> requests[side] + 1]
    /\ UNCHANGED <<database, listed, comparing, results>>

\* What a change does when its last list is there: the results are cleared.
Cleared(load) ==
    IF \E other \in loads \ {load} : other.job = load.job THEN results ELSE None

DatabasesArrive(load) ==
    /\ load \in loads /\ loads' = loads \ {load}
    /\ IF Current(load)
       THEN /\ listed' = [listed EXCEPT ![load.side] = load.of]
            /\ database' = [database EXCEPT ![load.side] =
                   IF load.preferred \in Database(load.of) THEN load.preferred ELSE <<load.of, 1>>]
       ELSE UNCHANGED <<listed, database>>
    /\ results' = Cleared(load)
    /\ UNCHANGED <<connection, requests, comparing, changes>>

DatabasesFail(load) ==
    /\ load \in loads /\ loads' = loads \ {load}
    /\ IF Current(load) THEN database' = [database EXCEPT ![load.side] = None]
       ELSE UNCHANGED database
    /\ results' = Cleared(load)
    /\ UNCHANGED <<connection, listed, requests, comparing, changes>>

-----------------------------------------------------------------------------
Compare ==
    /\ comparing = None /\ loads = {} /\ \A side \in Side : database[side] # None
    /\ comparing' = Scopes /\ results' = None
    /\ UNCHANGED <<connection, database, listed, requests, loads, changes>>

Compared ==
    /\ comparing # None /\ comparing' = None
    /\ results' \in {comparing, None}  \* or the error
    /\ UNCHANGED <<connection, database, listed, requests, loads, changes>>

\* Both lists are asked for when the tab opens, preferring the scopes it came with.
Init ==
    /\ connection \in [Side -> Connection]
    /\ database = [side \in Side |-> None] /\ listed = database
    /\ requests = [side \in Side |-> 1]
    /\ \E second \in 1..2 :
           loads = {[side |-> side, request |-> 1, of |-> connection[side], job |-> 0,
                     preferred |-> <<connection[side], second>>] : side \in Side}
    /\ comparing = None /\ results = None /\ changes = 0

Next ==
    \/ \E side \in Side, c \in Connection :
           ChangeConnection(side, c) \/ \E d \in Database(c) : ChangeDatabase(side, d)
    \/ Swap \/ Compare \/ Compared
    \/ \E load \in loads : DatabasesArrive(load) \/ DatabasesFail(load)

Spec == Init /\ [][Next]_vars

-----------------------------------------------------------------------------
(* Properties *)

\* However connections are changed and swapped while lists are on their way: what
\* is compared, and what the results shown were compared of, is a database of the
\* connection chosen, and a migration script is not left standing beside controls
\* that name another connection once the change is done.
ComparesTheirOwn ==
    /\ comparing # None => \A side \in Side :
           comparing[side].database \in Database(connection[side])
    /\ results # None /\ loads = {} => \A side \in Side :
           /\ results[side].connection = connection[side]
           /\ results[side].database \in Database(connection[side])
=============================================================================
