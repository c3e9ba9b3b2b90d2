-------------------------- MODULE SchemaMigration --------------------------
(***************************************************************************)
(* The comparison of two schemas and the script that brings the second one *)
(* up to the first: compareSchemaSnapshots of app.js and the migration...  *)
(* functions that write its statements.  A table has a key column k, a     *)
(* column x and a column y computed from x, indexes, at most one foreign   *)
(* key and one check constraint.  Statements that the script has   *)
(* only as comments are left out: what is left is what running it does.    *)
(* Not modelled: types, collations, defaults and options, which decide     *)
(* whether a table or column is under review (they are "issue" and         *)
(* "required" here), and the list of differences beside the script.        *)
(***************************************************************************)
EXTENDS Naturals, Sequences, FiniteSets, SequencesExt

CONSTANTS Sqlite,    \* the target is a SQLite database
          TableOrder,\* the tables by name
          Sources,   \* the schemas the source may have, a definition per table
          Targets,   \* those of the target
          Histories  \* the history tables there may be

Table == ToSet(TableOrder)
\* A foreign key is <<column, table, column>>; an index <<name, column>>, where "uq" names
\* a unique constraint, "ux" a unique index and "ix" one that is not unique.
Absent == [state |-> "absent", columns |-> {}, index |-> {}, keys |-> {}, check |-> FALSE]

VARIABLES
    source,   \* the definitions of the source
    target,   \* the target database
    asRead,   \* what was read of it, <<>> before the first comparison
    names,    \* "own" if every foreign key has its name, "shared" if all have one
    history,  \* the history tables: history[t] = u if t is system-versioned and u its history
    loaded,   \* the snapshots have been loaded, and not yet compared
    again,    \* a script has been run: the next comparison is a second one
    script,   \* the statements still to run
    failed    \* those that failed

vars == <<source, target, asRead, names, history, loaded, again, script, failed>>
chosen == <<source, names, history>>

There(t) == asRead[t].state # "absent"
Known(d) == d.state # "unavailable"
Temporal(t) == t \in DOMAIN history \/ \E u \in DOMAIN history : history[u] = t

-----------------------------------------------------------------------------
(* What has to wait for a review *)

\* missingColumnReviewReason
ColumnWaits(t, c) == (Sqlite /\ c \in {"k", "y"}) \/ (c = "x" /\ source[t].state = "required")

\* The columns under review, and the computed ones whose expression names one.
BlockedColumns(t) ==
    LET missing == source[t].columns \ asRead[t].columns
        direct == {c \in missing : ColumnWaits(t, c)}
    IN IF ~There(t) \/ ~Known(source[t]) \/ ~Known(asRead[t]) THEN {}
       ELSE direct \cup {c \in missing : c = "y" /\ "x" \in direct}

IntoBlockedColumn(key) == key[3] \in BlockedColumns(key[2])

\* createBlockingIssues
HasIssue(t) == source[t].state = "issue" \/ (Sqlite /\ Temporal(t))

\* temporalHistoryIssue
HistoryWaits(t, blocked) ==
    /\ t \in DOMAIN history /\ ~Sqlite
    /\ ~(There(history[t]) /\ Known(asRead[history[t]]))
    /\ ~Known(source[history[t]]) \/ history[t] \in blocked

\* Mutated: a table waits for its own sake only.
BlockedCreatesAtOnce ==
    {t \in Table : source[t].state = "collides"}
        \cup {t \in Table : ~There(t) /\ (~Known(source[t]) \/ HasIssue(t))}

\* The tables that cannot be created yet: SQLite's take those with them that
\* refer to them, and a history table the table it belongs to.
BlockedCreates ==
    LET waits(t, blocked) ==
            \/ HistoryWaits(t, blocked)
            \/ Sqlite /\ \E key \in source[t].keys : key[2] \in blocked \/ IntoBlockedColumn(key)
        rounds[n \in 0..Cardinality(Table)] ==
            IF n = 0 THEN {t \in Table : source[t].state = "collides"}
                             \cup {t \in Table : ~There(t) /\ (~Known(source[t]) \/ HasIssue(t))}
            ELSE rounds[n - 1] \cup {t \in Table : ~There(t) /\ waits(t, rounds[n - 1])}
    IN rounds[Cardinality(Table)]

CreateWaits(t) ==
    \/ HasIssue(t) \/ HistoryWaits(t, BlockedCreates)
    \/ Sqlite /\ \E key \in source[t].keys : key[2] \in BlockedCreates \/ IntoBlockedColumn(key)

NameIsRepeated(key) == ~Sqlite /\ names = "shared"
                       /\ \E t, u \in Table : t # u /\ source[t].keys # {} /\ source[u].keys # {}

-----------------------------------------------------------------------------
(* The statements *)

CreateTable(t) ==
    [does |-> "create", table |-> t, columns |-> source[t].columns, check |-> source[t].check,
     keys |-> IF Sqlite THEN source[t].keys ELSE {},
     needs |-> IF t \in DOMAIN history THEN {history[t]} ELSE {}]
AddColumn(t, c) == [does |-> "column", table |-> t, column |-> c]
AddCheck(t) == [does |-> "check", table |-> t]
CreateIndex(t, i) == [does |-> "index", table |-> t, index |-> i]
AddForeignKey(t, key) == [does |-> "key", table |-> t, key |-> key]

\* Of a table the target has not: the index and constraints follow.
NewIndexes(t) == {CreateIndex(t, i) : i \in source[t].index}
\* Mutated: left for the next comparison, which finds the table.
NewKeysLater(t) == {}

NewKeys(t) ==
    {AddForeignKey(t, key) : key \in {key \in source[t].keys :
        ~Sqlite /\ ~NameIsRepeated(key) /\ ~IntoBlockedColumn(key) /\ key[2] \notin BlockedCreates}}

\* Of a table the target has: columns in their order, and what it lacks of the rest.
MissingColumns(t) ==
    LET missing == {c \in source[t].columns \ asRead[t].columns :
                       ~ColumnWaits(t, c) /\ c \notin BlockedColumns(t)}
    IN SelectSeq(<<AddColumn(t, "k"), AddColumn(t, "x"), AddColumn(t, "y")>>,
                 LAMBDA s : s.column \in missing)

MissingChecks(t) ==
    IF source[t].check /\ ~asRead[t].check /\ BlockedColumns(t) = {} /\ ~Sqlite
    THEN {AddCheck(t)} ELSE {}

\* A unique constraint and a unique index on the same column are the same.
Matches(i, j) == i[2] = j[2] /\ (i[1] = j[1] \/ {i[1], j[1]} \subseteq {"uq", "ux"})

\* Of that name with another definition it is left for a review.
Lacks(t, i) == /\ \A j \in asRead[t].index : ~Matches(i, j) /\ i[1] # j[1]
               /\ i[2] \notin BlockedColumns(t)

MissingIndexes(t) == {CreateIndex(t, i) : i \in {i \in source[t].index : i[1] # "uq" /\ Lacks(t, i)}}
MissingUniques(t) == {CreateIndex(t, i) : i \in {i \in source[t].index : i[1] = "uq" /\ Lacks(t, i)}}

MissingKeys(t) ==
    {AddForeignKey(t, key) : key \in {key \in source[t].keys \ asRead[t].keys :
        /\ ~Sqlite /\ ~NameIsRepeated(key)
        /\ key[1] \notin BlockedColumns(t) /\ ~IntoBlockedColumn(key)
        /\ key[2] \notin BlockedCreates}}

\* comparisonCreationOrder: tables after those they refer to; cycles are cut.
RECURSIVE Visit(_, _)
Visit(t, walk) ==
    IF t \in ToSet(walk.ordered) \cup walk.visiting THEN walk
    ELSE LET refers == SelectSeq(TableOrder, LAMBDA u : \E key \in source[t].keys : key[2] = u)
             below == FoldLeft(LAMBDA w, u : Visit(u, w),
                               [walk EXCEPT !.visiting = @ \cup {t}], refers)
         IN [ordered |-> Append(below.ordered, t), visiting |-> below.visiting \ {t}]

CreationOrder == FoldLeft(LAMBDA w, t : Visit(t, w), [ordered |-> <<>>, visiting |-> {}], TableOrder).ordered

\* compareSchemaSnapshots: history tables, tables, columns and checks, indexes, keys.
Script ==
    LET scripted == SelectSeq(CreationOrder, LAMBDA t : source[t].state # "collides" /\ Known(source[t]))
        created == SelectSeq(scripted, LAMBDA t : ~There(t) /\ ~CreateWaits(t))
        altered == SelectSeq(scripted, LAMBDA t : There(t) /\ Known(asRead[t]))
        Each(tables, Of(_)) == FoldLeft(LAMBDA all, t : all \o Of(t), <<>>, tables)
        IsHistory(t) == ~Sqlite /\ \E u \in DOMAIN history : history[u] = t
    IN Each(SelectSeq(created, IsHistory), LAMBDA t : <<CreateTable(t)>>)
       \o Each(SelectSeq(created, LAMBDA t : ~IsHistory(t)), LAMBDA t : <<CreateTable(t)>>)
       \o Each(altered, LAMBDA t : MissingColumns(t) \o SetToSeq(MissingChecks(t)))
       \o Each(scripted, LAMBDA t : SetToSeq(IF t \in ToSet(created) THEN NewIndexes(t)
                                             ELSE IF t \in ToSet(altered) THEN MissingIndexes(t) \cup MissingUniques(t) ELSE {}))
       \o Each(scripted, LAMBDA t : SetToSeq(IF t \in ToSet(created) THEN NewKeys(t)
                                             ELSE IF t \in ToSet(altered) THEN MissingKeys(t) ELSE {}))

-----------------------------------------------------------------------------
(* The database *)

Has(table, columns) == target[table].state # "absent" /\ columns \subseteq target[table].columns

\* Tables that refer to each other, whichever comes first.
Cyclic(t, u) == \E key \in source[u].keys : key[2] = t

\* What the database refuses: names that are taken and names that are not there.
\* (SQLite takes a key into a table that is still missing; it is counted here too.)
Refused(s) ==
    CASE s.does = "create" -> \/ target[s.table].state # "absent"
                              \/ \E u \in s.needs : target[u].state = "absent"
                              \/ \E key \in s.keys : target[key[2]].state = "absent"
                                                     /\ key[2] # s.table /\ ~Cyclic(s.table, key[2])
      [] s.does = "column" -> ~Has(s.table, IF s.column = "y" THEN {"x"} ELSE {})
                              \/ s.column \in target[s.table].columns
      [] s.does = "check" -> ~Has(s.table, {}) \/ target[s.table].check
      [] s.does = "index" -> ~Has(s.table, {s.index[2]}) 
                           \/ \E i \in target[s.table].index : i[1] = s.index[1]
      [] s.does = "key" -> \/ ~Has(s.table, {s.key[1]}) \/ ~Has(s.key[2], {s.key[3]})
                           \/ target[s.table].keys # {}
                           \/ names = "shared" /\ \E u \in Table : target[u].keys # {}

Effect(s) ==
    CASE s.does = "create" -> [state |-> "fine", columns |-> s.columns, check |-> s.check,
                               keys |-> s.keys, index |-> {}]
      [] s.does = "column" -> [target[s.table] EXCEPT !.columns = @ \cup {s.column}]
      [] s.does = "check" -> [target[s.table] EXCEPT !.check = TRUE]
      [] s.does = "index" -> [target[s.table] EXCEPT !.index = @ \cup {s.index}]
      [] s.does = "key" -> [target[s.table] EXCEPT !.keys = {s.key}]

-----------------------------------------------------------------------------
\* Nothing has been compared yet.
Init ==
    /\ source \in Sources /\ target \in Targets /\ history \in Histories
    /\ names \in {"own", "shared"}
    /\ asRead = <<>> /\ loaded = FALSE /\ again = FALSE /\ script = <<>> /\ failed = {}

\* loadSchemaSnapshot of both: a definition that cannot be loaded is unavailable.
Load ==
    /\ script = <<>> /\ ~loaded /\ asRead # target
    /\ asRead' = target /\ loaded' = TRUE
    /\ UNCHANGED <<chosen, target, again, script, failed>>

Compare ==
    /\ loaded /\ loaded' = FALSE
    /\ script' = Script
    /\ UNCHANGED <<chosen, target, asRead, again, failed>>

\* The person opens the script in a query of the target and runs it.
Run ==
    /\ script # <<>> /\ script' = Tail(script) /\ again' = TRUE
    /\ LET s == Head(script)
       IN IF Refused(s) THEN failed' = failed \cup {s} /\ UNCHANGED target
          ELSE target' = [target EXCEPT ![s.table] = Effect(s)] /\ UNCHANGED failed
    /\ UNCHANGED <<chosen, asRead, loaded>>

Next == Load \/ Compare \/ Run
Spec == Init /\ [][Next]_vars

-----------------------------------------------------------------------------
(* Properties *)

TypeOK ==
    /\ \A t \in Table : {source[t].columns, target[t].columns} \subseteq SUBSET {"k", "x", "y"}
    /\ \A s \in ToSet(script) \cup failed : s.table \in Table /\ Known(source[s.table])

\* compareSchemaSnapshots scripts nothing that depends on what it holds back, and
\* its sections are in an order in which every statement finds what it names.
\* Known exceptions: a foreign key into a table whose metadata could not be
\* compared, and one whose name a key of the target has already.
ScriptRuns ==
    \A s \in failed :
        /\ s.does = "key"
        /\ \/ source[s.key[2]].state \in {"unavailable", "collides"} \/ ~Known(asRead[s.key[2]])
           \/ asRead[s.table].keys # {}
           \/ names = "shared" /\ \E t \in Table : asRead[t].keys # {}

\* Comparing again after the script has run finds nothing more to do by script:
\* a run settles all that is not under review.
RunSettles == again /\ loaded /\ ~loaded' => ToSet(script') \subseteq failed
=============================================================================
