-------------------------------- MODULE Client --------------------------------
(* The parts of app.js that the workspace is made of, its tools, the        *)
(* designer of designer.js and the published page of runtime.js, side by    *)
(* side. They share nothing here: each behaviour is that of one of them,    *)
(* which the others leave alone. The modules named are those of the proofs, *)
(* which extend or instantiate the parts, so that what is proved of a part  *)
(* can be cited of its instance here.                                       *)
EXTENDS Naturals, Sequences

CONSTANTS
    Part,                                            \* the components that run
    None,
    Job, Event, MaxEvents, PageSize, PollRetries,    \* of the query tab
    Tab, Ephemeral, MaxAnswers,                      \* of the tab bar
    MaxReloads,                                      \* bound: reloads of the page
    MaxRenders, MaxChanges, MaxFilters, MaxEdits,    \* bounds of a data tab
    Value, Found, MaxTables, MaxSearches,            \* of the rows' editors: the column is a plain
    MaxEditors, MaxDeleted,                          \* one, or a foreign key with bounds of its own
    MaxKeyEditors, MaxKeysDeleted,
    PageOperation, Button, Bound, OperationOf,       \* of the published page
    Undeclared,
    MaxRows, MaxRowLoads, MaxClicks,
    DbConnection, MaxSwaps, TableRow,                \* of the tabs that compare
    MaxComparisons,
    Default, Boot, FilterText, MaxClicked,           \* of the sidebar
    ToolTab, ConnectionOf, QueryName, QueryText,     \* of the saved queries
    Stores, MaxSaves,
    Profile, WithKey, AgentScope, ChatLimit,         \* of the chat
    MaxWords, MaxSessions, MaxHandles,
    Table, MaxMoves,                                 \* of the diagram
    Workers, Databases, Worlds, Limits,              \* of the search
    Endpoint, Address, Sql, Names, Endpoints, Drafts,  \* of the published endpoints
    MaxLoads, MaxRequests,
    Source, Module, Classes, HistoryDepth,           \* of the designer
    MaxDocumentEdits, MaxPresses, MaxInstances

VARIABLES which,  \* the component
          v1, v2, v3, v4, v5, v6, v7, v8, v9, v10, v11, v12, v13, v14, v15, v16,
          v17, v18, v19, v20, v21, v22, v23, v24, v25  \* its variables, in their order

slots == <<which, v1, v2, v3, v4, v5, v6, v7, v8, v9, v10, v11, v12,
           v13, v14, v15, v16, v17, v18, v19, v20, v21, v22, v23, v24,
           v25>>

After17 == <<v18, v19, v20, v21, v22, v23, v24, v25>>
Blank17 == v18 = 0 /\ v19 = 0 /\ v20 = 0 /\ v21 = 0 /\ v22 = 0 /\ v23 = 0 /\ v24 = 0 /\ v25 = 0
After14 == <<v15, v16, v17, After17>>
Blank14 == v15 = 0 /\ v16 = 0 /\ v17 = 0 /\ Blank17
After12 == <<v13, v14, After14>>
Blank12 == v13 = 0 /\ v14 = 0 /\ Blank14
After11 == <<v12, After12>>
Blank11 == v12 = 0 /\ Blank12
After10 == <<v11, After11>>
Blank10 == v11 = 0 /\ Blank11
After9 == <<v10, After10>>
Blank9 == v10 = 0 /\ Blank10
After8 == <<v9, After9>>
Blank8 == v9 = 0 /\ Blank9
After5 == <<v6, v7, v8, After8>>
Blank5 == v6 = 0 /\ v7 = 0 /\ v8 = 0 /\ Blank8
After4 == <<v5, After5>>
Blank4 == v5 = 0 /\ Blank5

Query == INSTANCE QueryTabProofs WITH
    known <- v1, status <- v2, events <- v3, down <- v4, tab <- v5, session <-
    v6, run <- v7, shown <- v8, dialog <- v9, history <- v10, saved <- v11,
    reloads <- v12

Tabs == INSTANCE WorkspaceProofs WITH
    tabs <- v1, active <- v2, work <- v3, asking <- v4, answers <- v5, sent <-
    v6, restored <- v7, reading <- v8, saved <- v9, reloads <- v10,
    object <- v1, schema <- v2, generation <- v3, refreshed <- v4, cache <- v5,
    reads <- v6, promise <- v7, view <- v8, renders <- v9, dataActive <- v10,
    body <- v11, filters <- v12, ddl <- v13, editor <- v14, dataSent <- v15,
    definition <- v16, dialog <- v17

Rows == INSTANCE RowEditorProofs WITH
    ForeignKey <- FALSE, Known <- Found,
    db <- v1, tables <- v2, editors <- v3, deletion <- v4, overtaken <- v5

Keys == INSTANCE RowEditorProofs WITH
    ForeignKey <- TRUE, Known <- Found, MaxEditors <- MaxKeyEditors,
    MaxDeleted <- MaxKeysDeleted,
    db <- v1, tables <- v2, editors <- v3, deletion <- v4, overtaken <- v5

Tools == INSTANCE ToolsProofs WITH
    Operation <- PageOperation, Connection <- DbConnection, Row <- TableRow, Scope <- AgentScope,
    phase <- v1, rows <- v2, rowIndex <- v3, pageShown <- v4, reloads <- v5,
    disabled <- v6, original <- v7, pending <- v8, runs <- v9, clicks <- v10,
    catalogue <- v11, status <- v12,
    schemasConnection <- v1, schemasDatabase <- v2, schemasListed <- v3,
    schemasRequests <- v4, schemasLoads <- v5, schemasComparing <- v6,
    schemasResults <- v7, schemasChanges <- v8,
    picked <- v1, compareListed <- v2, structure <- v3, chains <- v4, latest <- v5,
    compareLoads <- v6, keys <- v7, cap <- v8, compareComparing <- v9,
    compareResults <- v10, compareChanges <- v11,
    sidebarConnection <- v1, sidebarDatabase <- v2, sidebarListed <- v3,
    sidebarRequests <- v4, tree <- v5, kept <- v6, filter <- v7, remembered <- v8,
    promise <- v9, sidebarShared <- v10, loading <- v11, stamp <- v12, panel <- v13,
    sidebarChanges <- v14,
    store <- v1, ids <- v2, savedListed <- v3, selected <- v4, option <- v5,
    editor <- v6, dialog <- v7, savedRequests <- v8, savedChanges <- v9,
    composer <- v1, words <- v2, speech <- v3, accepting <- v4, base <- v5,
    heard <- v6, profile <- v7, keyField <- v8, handle <- v9, handleOf <- v10,
    made <- v11, held <- v12, strays <- v13, turn <- v14, cards <- v15,
    chatShared <- v16, conversation <- v17, chat <- v18, session <- v19,
    signature <- v20, saved <- v21, closed <- v22, sent <- v23, dropped <- v24,
    used <- v25,
    objects <- v1, document <- v2, cardsStored <- v3, viewTimer <- v4, cache <- v5,
    refreshes <- v6, drawn <- v7, cardsChanges <- v8,
    world <- v1, controls <- v2, search <- v3, searchShown <- v4,
    apisStored <- v1, open <- v2, body <- v3, newRequest <- v4, apisLoads <- v5,
    writes <- v6, previews <- v7, ran <- v8, behind <- v9, nextLoad <- v10,
    apisChanges <- v11

Design == INSTANCE DesignerProofs WITH
    MaxEdits <- MaxDocumentEdits,
    doc <- v1, past <- v2, future <- v3, key <- v4, typed <- v5, followFrom <- v6,
    follow <- v7, mode <- v8, switch <- v9, wanted <- v10, rows <- v11,
    reading <- v12, reader <- v13, scope <- v14, instances <- v15,
    attached <- v16, connected <- v17, alive <- v18, built <- v19, task <- v20,
    closed <- v21, edits <- v22, presses <- v23, adrift <- v24, overlapped <- v25

\* What the proofs about the parts need of the constants.
ASSUME ClientAssumption ==
    /\ Query!Assumed /\ Tabs!Assumed /\ Tabs!DataAssumed /\ Rows!Assumed /\ Keys!Assumed
    /\ Tools!PageAssumed /\ Tools!CompareAssumed /\ Tools!SidebarAssumed /\ Tools!SavedAssumed
    /\ Tools!ChatAssumed /\ Tools!CardsAssumed /\ Tools!SearchAssumed /\ Tools!ApisAssumed
    /\ Design!Assumed

Init ==
    /\ which \in Part
    /\ \/ which = "query" /\ Query!Init /\ Blank12
       \/ which = "tabs" /\ Tabs!Init /\ Blank10
       \/ which = "data" /\ Tabs!Data!Init /\ Blank17
       \/ which = "rows" /\ Rows!Init /\ Blank5
       \/ which = "keys" /\ Keys!Init /\ Blank5
       \/ which = "page" /\ Tools!Page!Init /\ Blank12
       \/ which = "schemas" /\ Tools!Schemas!Init /\ Blank8
       \/ which = "compare" /\ Tools!Compare!Init /\ Blank11
       \/ which = "sidebar" /\ Tools!Sidebar!Init /\ Blank14
       \/ which = "saved" /\ Tools!Saved!Init /\ Blank9
       \/ which = "chat" /\ Tools!Chat!Init
       \/ which = "cards" /\ Tools!Cards!Init /\ Blank8
       \/ which = "search" /\ Tools!Search!Init /\ Blank4
       \/ which = "apis" /\ Tools!Apis!Init /\ Blank11
       \/ which = "designer" /\ Design!Init

Next ==
    /\ UNCHANGED which
    /\ \/ which = "query" /\ Query!Next /\ UNCHANGED After12
       \/ which = "tabs" /\ Tabs!Next /\ UNCHANGED After10
       \/ which = "data" /\ Tabs!Data!Next /\ UNCHANGED After17
       \/ which = "rows" /\ Rows!Next /\ UNCHANGED After5
       \/ which = "keys" /\ Keys!Next /\ UNCHANGED After5
       \/ which = "page" /\ Tools!Page!Next /\ UNCHANGED After12
       \/ which = "schemas" /\ Tools!Schemas!Next /\ UNCHANGED After8
       \/ which = "compare" /\ Tools!Compare!Next /\ UNCHANGED After11
       \/ which = "sidebar" /\ Tools!Sidebar!Next /\ UNCHANGED After14
       \/ which = "saved" /\ Tools!Saved!Next /\ UNCHANGED After9
       \/ which = "chat" /\ Tools!Chat!Next
       \/ which = "cards" /\ Tools!Cards!Next /\ UNCHANGED After8
       \/ which = "search" /\ Tools!Search!Next /\ UNCHANGED After4
       \/ which = "apis" /\ Tools!Apis!Next /\ UNCHANGED After11
       \/ which = "designer" /\ Design!Next

Spec == Init /\ [][Next]_slots

-----------------------------------------------------------------------------
(* The properties of the components *)

\* Every component keeps its types.
TypesOK ==
    /\ which = "query" => Query!TypeOK
    /\ which = "tabs" => Tabs!TypeOK
    /\ which = "data" => Tabs!Data!TypeOK
    /\ which = "rows" => Rows!TypeOK
    /\ which = "keys" => Keys!TypeOK
    /\ which = "page" => Tools!Page!TypeOK
    /\ which = "schemas" => Tools!Schemas!TypeOK
    /\ which = "compare" => Tools!Compare!TypeOK
    /\ which = "sidebar" => Tools!Sidebar!TypeOK
    /\ which = "saved" => Tools!Saved!TypeOK
    /\ which = "chat" => Tools!Chat!TypeOK
    /\ which = "cards" => Tools!Cards!TypeOK
    /\ which = "search" => Tools!Search!TypeOK
    /\ which = "apis" => Tools!Apis!TypeOK
    /\ which = "designer" => Design!TypeOK

\* What a query tab shows is what its job published, without a gap or a
\* repetition, and the job gets one entry in the history, which tells how it
\* ended.
ShowsItsJob ==
    /\ which = "query" => Query!HistoryOnce
    /\ which = "query" => Query!ShownIsTheStream

\* A structure shown or cached is not older than the last refresh, and a grid
\* is what the newest request asked for. The list of published endpoints is
\* what the server holds once nothing is under way, what Run calls is what
\* its form showed, and a response shown is that of the request above it.
ShowsTheNewest ==
    /\ which = "data" => Tabs!Data!StructureIsFresh
    /\ which = "data" => Tabs!Data!GridIsTheNewest
    /\ which = "apis" => Tools!Apis!ListIsCurrent
    /\ which = "apis" => Tools!Apis!ButtonFitsTheBody
    /\ which = "apis" => Tools!Apis!RunsWhatIsShown
    /\ which = "apis" => Tools!Apis!ResponseIsOfItsRequest

\* What a cell editor saves reaches the row it was opened on, and a foreign
\* key is saved only as a key the search found.
EditsReachTheirRow ==
    /\ which = "rows" => Rows!WritesHitTheirRow
    /\ which = "keys" => Keys!WritesHitTheirRow
    /\ which = "keys" => Keys!OnlyKnownKeysAreSaved

\* No operation of a published page is under way twice, however often its
\* buttons are clicked, and the page shows the row it says it is on.
PageServesItsRow ==
    /\ which = "page" => Tools!Page!OneRequestPerOperation
    /\ which = "page" => Tools!Page!PageShowsItsRow

\* What is compared is what the controls name, and the differences of rows
\* shown are the ones there are; a search finds what there is or says why
\* not, the sidebar shows the database its pickers name, and a saved query
\* goes by its own name.
ShowsWhatWasAsked ==
    /\ which = "schemas" => Tools!Schemas!ComparesTheirOwn
    /\ which = "compare" => Tools!Compare!ComparesWhatIsChosen
    /\ which = "compare" => Tools!Compare!DifferencesAreReal
    /\ which = "search" => Tools!Search!MissingIsExplained
    /\ which = "search" => Tools!Search!LimitIsSharedOut
    /\ which = "sidebar" => Tools!Sidebar!TreeIsThePickers
    /\ which = "sidebar" => Tools!Sidebar!ReferencesAreFresh
    /\ which = "saved" => Tools!Saved!SavedAreAsNamed

\* The cards of a diagram tell which tables there are.
DiagramHolds == which = "cards" => Tools!Cards!CardsTellWhatThereIs

\* What is sent in a chat is sent once and kept in its record, to a session
\* and with a key that are of its model, and no question of the agent
\* outlives its turn.
ChatHolds ==
    /\ which = "chat" => Tools!Chat!NothingSentComesBack
    /\ which = "chat" => Tools!Chat!SentIsKept
    /\ which = "chat" => Tools!Chat!SessionsAreNotMixed
    /\ which = "chat" => Tools!Chat!KeysAreTakenBack
    /\ which = "chat" => Tools!Chat!NoCardOutlivesItsTurn

\* What the designer has read and built is that of the document it shows, and
\* what runs in Preview is what it holds.
DesignerFollows ==
    /\ which = "designer" => Design!DocumentIsFollowed
    /\ which = "designer" => Design!RunsWhatItHolds

\* A tab gives up a running job only for a run on its session.
JobIsNotLost == [][which = "query" => Query!JobIsNotLost]_slots

\* A tab with something to lose closes only when its dialog was agreed to,
\* the tab in front is an open one, and a reload brings it back to the front.
TabsCloseAsAgreed ==
    [][/\ which = "tabs" => Tabs!OnlyAgreedTabsClose
       /\ which = "tabs" => Tabs!FrontStaysOpen
       /\ which = "tabs" => Tabs!FrontComesBack]_slots
=============================================================================
