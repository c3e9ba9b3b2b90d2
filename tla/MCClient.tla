---------------------------- MODULE MCClient ----------------------------
(* Small instances of Client: of the workspace (MCClient.cfg), and of its  *)
(* tools and the designer (MCTools.cfg).                                   *)
EXTENDS Client, TLC

\* Jobs are alike, and so are the tabs that do not come back.
Alike == Permutations(Job) \cup Permutations(Ephemeral)

\* An endpoint of a text with one parameter, and one of a text with two.
MCNames == [s \in Sql |-> IF s = "s" THEN {"p"} ELSE {"p", "q"}]
Published(address, names, setting) ==
    [address |-> address, sql |-> "s", parameters |-> [p \in names |-> setting]]
MCEndpoints == {[e \in Endpoint |-> IF e = 1 THEN Published("x", {"p"}, "optional") ELSE None]}
MCDrafts == {Published("y", {"p"}, "required")}

\* Of a published page: two buttons add, one updates and one names an operation that is
\* not declared.
Buttons == {"add", "addAgain", "update", "remove"}
Operations == [b \in Buttons |-> IF b = "update" THEN "update" ELSE IF b = "remove" THEN "none" ELSE "add"]

\* Rows of tables that are compared.
Compared == [key : 1..2, value : 1..2]

\* The database that each connection opens.
Opens == [c \in DbConnection |-> IF c = "c1" THEN "d1" ELSE "d2"]

\* One query is saved at first, under the connection of both tabs or of neither.
Chosen == [t \in ToolTab |-> "c1"]
MCStores == {1 :> [name |-> "a", sql |-> "s", connection |-> c] : c \in DbConnection}

\* Two connections, one with a system database, and what their databases hold.
MCDatabases ==
    <<{[number |-> 1, system |-> FALSE], [number |-> 2, system |-> TRUE]}, {[number |-> 1, system |-> FALSE]}>>
Named == {"name"}
Body == {"definition"}
Hidden == {"definition", "internal"}
Hold(a, b, c) == <<1, 1>> :> a @@ <<1, 2>> :> b @@ <<2, 1>> :> c
MCWorlds == {Hold(<<Body, Body, Named>>, <<>>, <<Body, Named \cup Body>>),
             Hold(<<Body, Hidden>>, <<Named \cup Body>>, <<{}, Body>>),
             Hold(<<>>, <<Body>>, <<Body, Body, Body>>)}
=============================================================================
