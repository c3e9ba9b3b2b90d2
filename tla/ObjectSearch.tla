---------------------------- MODULE ObjectSearch ----------------------------
(***************************************************************************)
(* The tab that finds objects everywhere (app.js loadObjectSearchTab,      *)
(* objectSearchMap, objectSearchTakeFair): it lists the databases of every *)
(* connection, then their objects, and then reads definitions, each by     *)
(* several workers at once.                                                *)
(*                                                                         *)
(* A text that is looked for is abstracted to where it occurs: in the name *)
(* of an object, in its definition, in both or in neither.                 *)
(***************************************************************************)
EXTENDS Naturals, Sequences, FiniteSets, SequencesExt

CONSTANTS None,
          Databases,  \* per connection its databases, each [number, system]
          Worlds,     \* what they may hold: per database a sequence of sets of "name", "definition", "internal"
          Limits,     \* what Definition limit offers
          Workers     \* the workers of a stage

Connection == DOMAIN Databases
Scope == UNION {{<<c, d.number>> : d \in Databases[c]} : c \in Connection}
System(s) == \E d \in Databases[s[1]] : d.number = s[2] /\ d.system
Mode == {"names", "all", "definitions"}
Settings == [mode : Mode, limit : Limits, system : BOOLEAN, internal : BOOLEAN]

VARIABLES
    world,     \* what each database holds
    controls,  \* what the controls say
    search,    \* the search under way, or None
    shown      \* below the controls

vars == <<world, controls, search, shown>>

Nothing == [at |-> "nothing"]
Object == UNION {{<<s, i>> : i \in DOMAIN world[s]} : s \in Scope}
In(o, where) == where \in world[o[1]][o[2]]

TypeOK ==
    /\ controls \in Settings
    /\ search # None => /\ search.at \in {"databases", "objects", "definitions"}
                        /\ search.running \subseteq search.items
                        /\ Cardinality(search.running) <= Workers
    /\ search = None \/ shown = Nothing  \* "Searching" stands there

-----------------------------------------------------------------------------
(* Which definitions are read *)

\* An object's place among those of its scope, and its scope's among the scopes.
Place(o, objects) == Cardinality({p \in objects : p[1] = o[1] /\ p[2] < o[2]})
Earlier(s, t) == s[1] < t[1] \/ (s[1] = t[1] /\ s[2] < t[2])

\* Mutated: one scope after the other.
TakeInTurn(objects, limit) ==
    LET Before(o) == {p \in objects : Earlier(p[1], o[1]) \/ (p[1] = o[1] /\ p[2] < o[2])}
    IN {o \in objects : Cardinality(Before(o)) < limit}

\* objectSearchTakeFair: of each scope the first, then of each the second, until
\* there are enough.
TakeFair(objects, limit) ==
    LET Before(o) == {p \in objects : \/ Place(p, objects) < Place(o, objects)
                                      \/ Place(p, objects) = Place(o, objects) /\ Earlier(p[1], o[1])}
    IN {o \in objects : Cardinality(Before(o)) < limit}

-----------------------------------------------------------------------------
(* The search *)

Begin(at, items, s) == [s EXCEPT !.at = at, !.items = items, !.waiting = items, !.running = {}]

\* A search begins: what was shown goes, and the controls are disabled.
Search ==
    /\ search = None
    /\ search' = [at |-> "databases", items |-> Connection, waiting |-> Connection, running |-> {},
                  scopes |-> {}, candidates |-> {}, found |-> {}, failed |-> {}, omitted |-> 0]
    /\ shown' = Nothing
    /\ UNCHANGED <<world, controls>>

\* A text of less than two characters, or of nothing but quotes.
SearchTooShort ==
    /\ search = None /\ shown # Nothing /\ shown' = Nothing
    /\ UNCHANGED <<world, controls, search>>

\* A worker of objectSearchMap takes the next.
Take(i) ==
    /\ search # None /\ i \in search.waiting /\ Cardinality(search.running) < Workers
    /\ search' = [search EXCEPT !.waiting = @ \ {i}, !.running = @ \cup {i}]
    /\ UNCHANGED <<world, controls, shown>>

\* What an answer adds, per stage.
Answered(s, i) ==
    CASE s.at = "databases" ->
             [s EXCEPT !.scopes = @ \cup {<<i, d.number>> : d \in {e \in Databases[i] : controls.system \/ ~e.system}}]
      [] s.at = "objects" ->
             [s EXCEPT !.candidates = @ \cup {o \in Object : o[1] = i /\ (controls.internal \/ ~In(o, "internal"))}]
      [] s.at = "definitions" ->
             [s EXCEPT !.found = IF In(i, "definition") THEN @ \cup {i} ELSE @]

Answer(i, fails) ==
    /\ search # None /\ i \in search.running
    /\ search' = LET s == [search EXCEPT !.running = @ \ {i}]
                 IN IF fails THEN [s EXCEPT !.failed = @ \cup {<<s.at, i>>}] ELSE Answered(s, i)
    /\ UNCHANGED <<world, controls, shown>>

StageDone == search # None /\ search.waiting = {} /\ search.running = {}

ListObjects ==
    /\ StageDone /\ search.at = "databases"
    /\ search' = Begin("objects", search.scopes, search)
    /\ UNCHANGED <<world, controls, shown>>

\* Names are searched at once; then the definitions of those not yet found.
Named == IF controls.mode = "definitions" THEN {} ELSE {o \in search.candidates : In(o, "name")}
Eligible == IF controls.mode = "names" THEN {} ELSE search.candidates \ Named

ReadDefinitions ==
    /\ StageDone /\ search.at = "objects"
    /\ search' = [Begin("definitions", TakeFair(Eligible, controls.limit), search) EXCEPT
                     !.found = Named,
                     !.omitted = Cardinality(Eligible) - Cardinality(TakeFair(Eligible, controls.limit))]
    /\ UNCHANGED <<world, controls, shown>>

Results ==
    /\ StageDone /\ search.at = "definitions" /\ search' = None
    /\ shown' = [at |-> "results", settings |-> controls, found |-> search.found, failed |-> search.failed,
                 omitted |-> search.omitted]
    /\ UNCHANGED <<world, controls>>

-----------------------------------------------------------------------------
(* The controls *)

Cancel ==
    /\ search # None /\ search' = None /\ shown' = Nothing
    /\ UNCHANGED <<world, controls>>

\* One of them is changed.
Change(settings) ==
    /\ search = None /\ Cardinality({c \in DOMAIN controls : settings[c] # controls[c]}) = 1
    /\ controls' = settings
    /\ UNCHANGED <<world, search, shown>>

Init ==
    /\ world \in Worlds /\ controls \in Settings
    /\ search = None /\ shown = Nothing

Next ==
    \/ Search \/ SearchTooShort \/ ListObjects \/ ReadDefinitions \/ Results \/ Cancel
    \/ search # None /\ \E i \in search.items : Take(i) \/ Answer(i, TRUE) \/ Answer(i, FALSE)
    \/ \E settings \in Settings : Change(settings)

Spec == Init /\ [][Next]_vars

-----------------------------------------------------------------------------
(* Properties *)

Sought(o, settings) ==
    /\ settings.system \/ ~System(o[1])
    /\ settings.internal \/ ~In(o, "internal")
    /\ \/ settings.mode # "definitions" /\ In(o, "name")
       \/ settings.mode # "names" /\ In(o, "definition")

\* An object that is not among the results does not match, or the results say why it
\* may be missing: a failure on the way to it, or a definition that was not read.
MissingIsExplained ==
    shown # Nothing =>
        /\ \A o \in shown.found : Sought(o, shown.settings)
        /\ \A o \in Object \ shown.found : Sought(o, shown.settings) =>
               \/ shown.failed \cap {<<"databases", o[1][1]>>, <<"objects", o[1]>>, <<"definitions", o>>} # {}
               \/ shown.omitted > 0 /\ (shown.settings.mode = "all" => ~In(o, "name"))

\* Definitions are read up to the limit, and as many of one database as of another
\* that has enough of them.
LimitIsSharedOut ==
    search # None /\ search.at = "definitions" =>
        LET Share(s) == Cardinality({o \in search.items : o[1] = s})
        IN /\ Cardinality(search.items) + search.omitted = Cardinality(Eligible)
           /\ search.omitted > 0 => Cardinality(search.items) = controls.limit
           /\ \A o \in Eligible \ search.items, p \in search.items : Share(o[1]) + 1 >= Share(p[1])
=============================================================================
