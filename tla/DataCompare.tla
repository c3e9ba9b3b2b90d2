----------------------------- MODULE DataCompare -----------------------------
(***************************************************************************)
(* The tab that compares the rows of two tables (app.js                    *)
(* loadDataCompareTab, compareDataRows).  A change of the target's         *)
(* connection loads its databases, then the tables of one, then the        *)
(* structure of one; a change further down starts the chain there, and the *)
(* answers of an older chain are dropped.  Only then can rows be compared. *)
(* A table has a key and one more column; keys may repeat.                 *)
(***************************************************************************)
EXTENDS Naturals, Sequences, FiniteSets, SequencesExt

CONSTANTS Connection,  \* each has the databases <<c, 1>> and <<c, 2>>
          None,
          Row,         \* the rows there are: [key, value]
          MaxRows,     \* bound: rows of a table
          MaxChanges   \* bound: changes of the target, and comparisons

Database(c) == {<<c, n>> : n \in 1..2}
Object(d) == {<<d[1], d[2], n>> : n \in 1..2}
Tables == BoundedSeq(Row, MaxRows)
Stages == {"databases", "objects", "structure"}

VARIABLES
    picked,     \* the target's connection, database and table, None if not chosen
    listed,     \* the connection whose databases and the database whose tables are listed
    structure,  \* targetStructure: the table it is of, or None
    chains,     \* the requests under way
    latest,     \* selectionRequest
    loads,      \* selectionLoads
    keys,       \* the matching key is chosen
    cap,        \* the row cap
    comparing,  \* the comparison under way, or None
    results,    \* what is below the controls
    changes

selection == <<picked, listed, structure, chains, latest, loads, keys>>
vars == <<selection, cap, comparing, results, changes>>

Nothing == [shows |-> "nothing"]
Busy == loads > 0 \/ comparing # None

TypeOK ==
    /\ picked.connection \in Connection
    /\ \A r \in chains : r.stage \in Stages /\ r.request \in 1..latest
    /\ loads = Cardinality(chains) /\ keys \in BOOLEAN
    /\ comparing # None => structure # None

-----------------------------------------------------------------------------
(* compareDataRows *)

\* bucketRows: where the rows of a key are.
RowsOf(table, k) == {i \in DOMAIN table : table[i].key = k}

\* Of the buckets, those with one row on each side compare.
Status(s, t, k) ==
    IF Cardinality(RowsOf(s, k)) > 1 \/ Cardinality(RowsOf(t, k)) > 1 THEN "duplicate"
    ELSE IF RowsOf(t, k) = {} THEN "source-only"
    ELSE IF RowsOf(s, k) = {} THEN "target-only"
    ELSE IF \E i \in RowsOf(s, k), j \in RowsOf(t, k) : s[i] # t[j] THEN "changed" ELSE "same"
Differences(s, t) ==
    LET keysOf(table) == {table[i].key : i \in DOMAIN table}
    IN {d \in {<<k, Status(s, t, k)>> : k \in keysOf(s) \cup keysOf(t)} : d[2] # "same"}

\* loadDataCompareRows: in the order of the key, up to the cap.
Before(table, i) == {j \in DOMAIN table : \/ table[j].key < table[i].key
                                          \/ table[j].key = table[i].key /\ j < i}
Sorted(table) == [k \in DOMAIN table |-> table[CHOOSE i \in DOMAIN table : Cardinality(Before(table, i)) + 1 = k]]
Loaded(table, n) ==
    [rows |-> [k \in 1..(IF n < Len(table) THEN n ELSE Len(table)) |-> Sorted(table)[k]], truncated |-> n < Len(table)]

-----------------------------------------------------------------------------
(* The chain of requests *)

Request(stage, n) == [stage |-> stage, request |-> n, of |-> picked]

\* What a change shows at once: the results are gone.
Change(from, pick) ==
    /\ changes < MaxChanges /\ changes' = changes + 1 /\ comparing = None
    /\ picked' = pick /\ results' = Nothing
    /\ latest' = latest + 1 /\ loads' = loads + 1
    /\ chains' = chains \cup {[stage |-> from, request |-> latest + 1, of |-> pick]}

\* loadTargetDatabases; the selects below keep what they list.
PickConnection(c) ==
    /\ c # picked.connection
    /\ Change("databases", [picked EXCEPT !.connection = c])
    /\ structure' = None /\ UNCHANGED <<listed, keys, cap, comparing>>

\* loadTargetObjects
PickDatabase(d) ==
    /\ ~Busy /\ listed.connection # None /\ d \in Database(listed.connection) /\ d # picked.database
    /\ Change("objects", [picked EXCEPT !.database = d])
    /\ UNCHANGED <<listed, structure, keys, cap, comparing>>

\* loadTargetStructure
PickObject(o) ==
    /\ ~Busy /\ listed.database # None /\ o \in Object(listed.database) /\ o # picked.object
    /\ Change("structure", [picked EXCEPT !.object = o])
    /\ structure' = None /\ UNCHANGED <<listed, keys, cap, comparing>>

\* Mutated: any answer is taken.
CurrentAny(r) == TRUE

Current(r) == r.request = latest

\* Mutated: without a table the load is never counted as done.
OnToStructureCounting(r, object, below) ==
    /\ structure' = None
    /\ IF object = None THEN keys' = FALSE /\ chains' = below /\ UNCHANGED loads
       ELSE /\ chains' = below \cup {[r EXCEPT !.stage = "structure", !.of.object = object]}
            /\ UNCHANGED <<loads, keys>>

\* loadTargetStructure, also of no table: then there are no keys to choose from.
OnToStructure(r, object, below) ==
    /\ structure' = None
    /\ IF object = None THEN keys' = FALSE /\ chains' = below /\ loads' = loads - 1
       ELSE /\ chains' = below \cup {[r EXCEPT !.stage = "structure", !.of.object = object]}
            /\ UNCHANGED <<loads, keys>>

\* The databases arrive, or fail; the first one is chosen and its tables follow.
DatabasesArrive(r) ==
    /\ r \in chains /\ r.stage = "databases"
    /\ LET below == chains \ {r}
       IN \/ /\ ~Current(r) /\ chains' = below /\ loads' = loads - 1
             /\ UNCHANGED <<picked, listed>>
          \/ /\ Current(r) /\ picked' = [picked EXCEPT !.database = <<r.of.connection, 1>>]
             /\ listed' = [listed EXCEPT !.connection = r.of.connection]
             /\ chains' = below \cup {[r EXCEPT !.stage = "objects", !.of = picked']}
             /\ UNCHANGED loads
          \/ /\ Current(r) /\ picked' = [picked EXCEPT !.database = None, !.object = None]
             /\ listed' = [listed EXCEPT !.connection = None, !.database = None]
             /\ chains' = below /\ loads' = loads - 1
    /\ UNCHANGED <<structure, latest, keys, cap, comparing, results, changes>>

\* A table of the source's name is chosen if there is one.
ObjectsArrive(r) ==
    /\ r \in chains /\ r.stage = "objects"
    /\ LET below == chains \ {r}
       IN \/ /\ ~Current(r) /\ chains' = below /\ loads' = loads - 1
             /\ UNCHANGED <<picked, listed, structure, keys, results>>
          \/ \E object \in {None, <<r.of.database[1], r.of.database[2], 1>>} :
                /\ Current(r) /\ picked' = [picked EXCEPT !.object = object]
                /\ listed' = [listed EXCEPT !.database = r.of.database]
                /\ OnToStructure(r, object, below) /\ UNCHANGED results
          \/ /\ Current(r) /\ picked' = [picked EXCEPT !.object = None]
             /\ listed' = [listed EXCEPT !.database = None]
             /\ OnToStructure(r, None, below) /\ results' = [shows |-> "error"]
    /\ UNCHANGED <<latest, cap, comparing, changes>>

\* renderKeyChoices checks the source's key if the target has it.
StructureArrives(r) ==
    /\ r \in chains /\ r.stage = "structure"
    /\ chains' = chains \ {r} /\ loads' = loads - 1
    /\ \/ ~Current(r) /\ UNCHANGED <<structure, keys>>
       \/ Current(r) /\ structure' = r.of.object /\ keys' \in BOOLEAN
       \/ Current(r) /\ UNCHANGED <<structure, keys>>
    /\ UNCHANGED <<picked, listed, latest, cap, comparing, results, changes>>

\* A checkbox of the key choices.
CheckKeys ==
    /\ ~Busy /\ structure # None /\ keys' = ~keys /\ results' = Nothing
    /\ UNCHANGED <<picked, listed, structure, chains, latest, loads, cap, comparing, changes>>

SetCap(n) ==
    /\ comparing = None /\ n # cap /\ cap' = n /\ results' = Nothing
    /\ UNCHANGED <<selection, comparing, changes>>

-----------------------------------------------------------------------------
(* The comparison *)

Compare ==
    /\ ~Busy /\ structure # None /\ keys /\ picked.object # None
    /\ changes < MaxChanges /\ changes' = changes + 1
    /\ comparing' = [target |-> picked, cap |-> cap]
    /\ results' = [shows |-> "loading"]
    /\ UNCHANGED <<selection, cap>>

Compared(s, t) ==
    /\ comparing # None
    /\ LET source == Loaded(s, comparing.cap)
           target == Loaded(t, comparing.cap)
       IN results' = [shows |-> "differences", of |-> comparing,
                      tables |-> <<s, t>>, differences |-> Differences(source.rows, target.rows),
                      partial |-> source.truncated \/ target.truncated]
    /\ comparing' = None /\ UNCHANGED <<selection, cap, changes>>

CompareFails ==
    /\ comparing # None /\ comparing' = None /\ results' = [shows |-> "error"]
    /\ UNCHANGED <<selection, cap, changes>>

-----------------------------------------------------------------------------
\* The tab asks for its target first.
Init ==
    /\ picked \in [connection : Connection, database : {None}, object : {None}]
    /\ listed = [connection |-> None, database |-> None]
    /\ structure = None /\ latest = 1 /\ loads = 1 /\ keys = FALSE
    /\ chains = {[stage |-> "databases", request |-> 1, of |-> picked]}
    /\ cap = MaxRows /\ comparing = None /\ results = Nothing /\ changes = 0

Next ==
    \/ \E c \in Connection : PickConnection(c)
    \/ \E d \in UNION {Database(c) : c \in Connection} : PickDatabase(d) \/ \E o \in Object(d) : PickObject(o)
    \/ \E r \in chains : DatabasesArrive(r) \/ ObjectsArrive(r) \/ StructureArrives(r)
    \/ CheckKeys \/ \E n \in 1..MaxRows : SetCap(n)
    \/ Compare \/ \E s, t \in Tables : Compared(s, t)
    \/ CompareFails

Spec == Init /\ [][Next]_vars

-----------------------------------------------------------------------------
(* Properties *)

\* Whatever was chosen while answers were on their way: when rows can be
\* compared, the structure is that of the table chosen, of the database chosen,
\* of the connection chosen; and differences on screen are those of the controls.
ComparesWhatIsChosen ==
    /\ ~Busy /\ structure # None => /\ structure = picked.object
                                    /\ picked.database \in Database(picked.connection)
                                    /\ structure \in Object(picked.database)
    /\ results.shows = "differences" => results.of = [target |-> picked, cap |-> cap]

\* Tables that were loaded whole and show no difference have the same rows, each
\* with a key of its own; and a row of one side only, or changed, is told as such.
DifferencesAreReal ==
    results.shows = "differences" /\ ~results.partial =>
        LET s == results.tables[1] t == results.tables[2]
        IN /\ results.differences = {} <=> IsInjective([i \in DOMAIN s |-> s[i].key])
                                           /\ ToSet(s) = ToSet(t) /\ Len(s) = Len(t)
           /\ \A d \in results.differences : d[2] \in {"source-only", "target-only"} =>
                 Cardinality({i \in DOMAIN s : s[i].key = d[1]}) + Cardinality({i \in DOMAIN t : t[i].key = d[1]}) = 1
=============================================================================
