---------------------------- MODULE ClientProofs ----------------------------
(***************************************************************************)
(* What is proved about the parts of app.js, its tools, the designer and   *)
(* the published page holds of them side by side: a step of the client is a step of the  *)
(* part that runs and leaves its invariant standing, for every value of    *)
(* the constants.                                                          *)
(***************************************************************************)
EXTENDS Client, TLAPS

\* Each part keeps the invariant of its own proofs.
ClientHolds ==
    /\ which = "query" => Query!IInv
    /\ which = "tabs" => Tabs!IInv
    /\ which = "data" => Tabs!DataInv
    /\ which = "rows" => Rows!TInv /\ Rows!IInv
    /\ which = "keys" => Keys!TInv /\ Keys!IInv
    /\ which = "page" => Tools!PageInv
    /\ which = "schemas" => Tools!SchemasInv
    /\ which = "compare" => Tools!CompareInv
    /\ which = "sidebar" => Tools!SidebarInv
    /\ which = "saved" => Tools!SavedInv
    /\ which = "chat" => Tools!ChatInv
    /\ which = "cards" => Tools!CardsInv
    /\ which = "search" => Tools!SearchInv
    /\ which = "apis" => Tools!ApisInv
    /\ which = "designer" => Design!IInv

LEMMA ClientBegins == Init => ClientHolds
<1> SUFFICES ASSUME Init PROVE ClientHolds OBVIOUS
<1>1. which = "query" => Query!IInv BY ClientAssumption, Query!InitGood DEF Init
<1>2. which = "tabs" => Tabs!IInv BY ClientAssumption, Tabs!InitGood DEF Init
<1>3. which = "data" => Tabs!DataInv BY ClientAssumption, Tabs!DataBegins DEF Init
<1>4. which = "rows" => Rows!TInv /\ Rows!IInv
  BY ClientAssumption, Rows!TypesBegin, Rows!InitGood DEF Init
<1>5. which = "keys" => Keys!TInv /\ Keys!IInv
  BY ClientAssumption, Keys!TypesBegin, Keys!InitGood DEF Init
<1>6. which = "page" => Tools!PageInv BY ClientAssumption, Tools!PageBegins DEF Init
<1>7. which = "schemas" => Tools!SchemasInv BY Tools!SchemasBegins DEF Init
<1>8. which = "compare" => Tools!CompareInv BY ClientAssumption, Tools!CompareBegins DEF Init
<1>9. which = "sidebar" => Tools!SidebarInv BY ClientAssumption, Tools!SidebarBegins DEF Init
<1>10. which = "saved" => Tools!SavedInv BY ClientAssumption, Tools!SavedBegins DEF Init
<1>11. which = "chat" => Tools!ChatInv BY ClientAssumption, Tools!ChatBegins DEF Init
<1>12. which = "cards" => Tools!CardsInv BY ClientAssumption, Tools!CardsBegins DEF Init
<1>13. which = "search" => Tools!SearchInv BY ClientAssumption, Tools!SearchBegins DEF Init
<1>14. which = "apis" => Tools!ApisInv BY ClientAssumption, Tools!ApisBegins DEF Init
<1>15. which = "designer" => Design!IInv BY ClientAssumption, Design!InitGood DEF Init
<1> QED BY <1>1, <1>2, <1>3, <1>4, <1>5, <1>6, <1>7, <1>8, <1>9, <1>10, <1>11, <1>12, <1>13, <1>14, <1>15 DEF ClientHolds

\* A step of the client is one of the part that runs.
LEMMA PartsStep ==
    ASSUME [Next]_slots
    PROVE  /\ which' = which
           /\ which = "query" => [Query!Next]_(Query!vars)
           /\ which = "tabs" => [Tabs!Next]_(Tabs!vars)
           /\ which = "data" => [Tabs!Data!Next]_(Tabs!Data!vars)
           /\ which = "rows" => [Rows!Next]_(Rows!vars)
           /\ which = "keys" => [Keys!Next]_(Keys!vars)
           /\ which = "page" => [Tools!Page!Next]_(Tools!Page!vars)
           /\ which = "schemas" => [Tools!Schemas!Next]_(Tools!Schemas!vars)
           /\ which = "compare" => [Tools!Compare!Next]_(Tools!Compare!vars)
           /\ which = "sidebar" => [Tools!Sidebar!Next]_(Tools!Sidebar!vars)
           /\ which = "saved" => [Tools!Saved!Next]_(Tools!Saved!vars)
           /\ which = "chat" => [Tools!Chat!Next]_(Tools!Chat!vars)
           /\ which = "cards" => [Tools!Cards!Next]_(Tools!Cards!vars)
           /\ which = "search" => [Tools!Search!Next]_(Tools!Search!vars)
           /\ which = "apis" => [Tools!Apis!Next]_(Tools!Apis!vars)
           /\ which = "designer" => [Design!Next]_(Design!vars)
<1>1. which' = which BY DEF Next, slots
<1>2. which = "query" => [Query!Next]_(Query!vars) BY DEF Next, slots, Query!vars, Query!service, Query!stored
<1>3. which = "tabs" => [Tabs!Next]_(Tabs!vars) BY DEF Next, slots, Tabs!vars
<1>4. which = "data" => [Tabs!Data!Next]_(Tabs!Data!vars)
  BY DEF Next, slots, Tabs!Data!vars, Tabs!Data!metadata, Tabs!Data!screen, Tabs!Data!edit
<1>5. which = "rows" => [Rows!Next]_(Rows!vars) BY DEF Next, slots, Rows!vars
<1>6. which = "keys" => [Keys!Next]_(Keys!vars) BY DEF Next, slots, Keys!vars
<1>7. which = "page" => [Tools!Page!Next]_(Tools!Page!vars)
  BY DEF Next, slots, Tools!Page!vars, Tools!Page!data, Tools!Page!actions
<1>8. which = "schemas" => [Tools!Schemas!Next]_(Tools!Schemas!vars)
  BY DEF Next, slots, Tools!Schemas!vars
<1>9. which = "compare" => [Tools!Compare!Next]_(Tools!Compare!vars)
  BY DEF Next, slots, Tools!Compare!vars, Tools!Compare!selection
<1>10. which = "sidebar" => [Tools!Sidebar!Next]_(Tools!Sidebar!vars)
  BY DEF Next, slots, Tools!Sidebar!vars, Tools!Sidebar!pickers, Tools!Sidebar!filters, Tools!Sidebar!relations
<1>11. which = "saved" => [Tools!Saved!Next]_(Tools!Saved!vars)
  BY DEF Next, slots, Tools!Saved!vars, Tools!Saved!page
<1>12. which = "chat" => [Tools!Chat!Next]_(Tools!Chat!vars)
  BY DEF Next, slots, Tools!Chat!vars, Tools!Chat!text, Tools!Chat!keys, Tools!Chat!permissions, Tools!Chat!dialogue, Tools!Chat!record, Tools!Chat!history, Tools!Chat!dictation
<1>13. which = "cards" => [Tools!Cards!Next]_(Tools!Cards!vars) BY DEF Next, slots, Tools!Cards!vars
<1>14. which = "search" => [Tools!Search!Next]_(Tools!Search!vars)
  BY DEF Next, slots, Tools!Search!vars
<1>15. which = "apis" => [Tools!Apis!Next]_(Tools!Apis!vars) BY DEF Next, slots, Tools!Apis!vars
<1>16. which = "designer" => [Design!Next]_(Design!vars)
  BY DEF Next, slots, Design!vars, Design!history, Design!follows, Design!views, Design!reads, Design!behaviour, Design!others
<1> QED BY <1>1, <1>2, <1>3, <1>4, <1>5, <1>6, <1>7, <1>8, <1>9, <1>10, <1>11, <1>12, <1>13, <1>14, <1>15, <1>16

LEMMA ClientGoesOn == ClientHolds /\ [Next]_slots => ClientHolds'
<1> SUFFICES ASSUME ClientHolds, [Next]_slots PROVE ClientHolds' OBVIOUS
<1>1. which = "query" => Query!IInv' BY PartsStep, Query!StepGood DEF ClientHolds
<1>2. which = "tabs" => Tabs!IInv' BY PartsStep, Tabs!StepGood DEF ClientHolds
<1>3. which = "data" => Tabs!DataInv' BY PartsStep, Tabs!DataGoesOn DEF ClientHolds
<1>4. which = "rows" => Rows!TInv' /\ Rows!IInv' BY PartsStep, Rows!TypesGoOn, Rows!StepGood DEF ClientHolds
<1>5. which = "keys" => Keys!TInv' /\ Keys!IInv' BY PartsStep, Keys!TypesGoOn, Keys!StepGood DEF ClientHolds
<1>6. which' = which BY PartsStep
<1>7. which = "page" => Tools!PageInv' BY PartsStep, Tools!PageGoesOn DEF ClientHolds
<1>8. which = "schemas" => Tools!SchemasInv' BY PartsStep, Tools!SchemasGoesOn DEF ClientHolds
<1>9. which = "compare" => Tools!CompareInv'
  BY ClientAssumption, PartsStep, Tools!CompareGoesOn DEF ClientHolds
<1>10. which = "sidebar" => Tools!SidebarInv' BY PartsStep, Tools!SidebarGoesOn DEF ClientHolds
<1>11. which = "saved" => Tools!SavedInv' BY PartsStep, Tools!SavedGoesOn DEF ClientHolds
<1>12. which = "chat" => Tools!ChatInv' BY PartsStep, Tools!ChatGoesOn DEF ClientHolds
<1>13. which = "cards" => Tools!CardsInv' BY PartsStep, Tools!CardsGoesOn DEF ClientHolds
<1>14. which = "search" => Tools!SearchInv'
  BY ClientAssumption, PartsStep, Tools!SearchGoesOn DEF ClientHolds
<1>15. which = "apis" => Tools!ApisInv' BY PartsStep, Tools!ApisGoesOn DEF ClientHolds
<1>16. which = "designer" => Design!IInv' BY PartsStep, Design!StepGood DEF ClientHolds
<1> QED BY <1>1, <1>2, <1>3, <1>4, <1>5, <1>6, <1>7, <1>8, <1>9, <1>10, <1>11, <1>12, <1>13, <1>14, <1>15, <1>16 DEF ClientHolds

LEMMA ClientInv == Spec => []ClientHolds
<1>1. Init => ClientHolds BY ClientBegins
<1>2. ClientHolds /\ [Next]_slots => ClientHolds' BY ClientGoesOn
<1> QED BY <1>1, <1>2, PTL DEF Spec

-----------------------------------------------------------------------------
(* What is proved of the parts *)

\* Every part keeps its types: what it refers to is there, and what it counts stays within
\* its bounds (app.js openQueryTab, setActiveTab, openObjectTab, openRowEditor, openAgentTab,
\* loadObjectSearchTab, openApisTab and the others; designer.js buildDesigner).
THEOREM PartsAreTyped == Spec => []TypesOK
<1>1. ClientHolds => TypesOK
  BY ClientAssumption, Query!IInvSuffices, Tabs!IInvSuffices, Tabs!DataSuffices, Rows!TypesSuffice,
     Keys!TypesSuffice, Tools!PageSuffices, Tools!CompareSuffices, Tools!SidebarSuffices,
     Tools!SavedSuffices, Tools!ChatSuffices, Tools!CardsSuffices, Tools!SearchSuffices,
     Tools!ApisSuffices, Design!IInvSuffices
  DEF ClientHolds, TypesOK, Tools!SchemasInv
<1> QED BY <1>1, ClientInv, PTL

\* What a query tab shows is what its job published, without a gap or a repetition, and
\* the job gets one entry in the history (app.js pollQueryJob, finishQueryRun).
THEOREM JobIsShown == Spec => []ShowsItsJob
<1>1. ClientHolds => ShowsItsJob BY Query!IInvSuffices DEF ClientHolds, ShowsItsJob
<1> QED BY <1>1, ClientInv, PTL

\* A structure that shows or is cached is that of the last refresh, a grid is that of the
\* newest request; the list of published endpoints, what Run calls and the response shown
\* are current (app.js getMeta, openObjectTab, openApisTab, createApiPreview).
THEOREM NewestIsShown == Spec => []ShowsTheNewest
<1>1. ClientHolds => ShowsTheNewest
  BY Tabs!DataSuffices, Tools!ApisSuffices DEF ClientHolds, ShowsTheNewest
<1> QED BY <1>1, ClientInv, PTL

\* What a cell editor saves reaches the row it was opened on, and a foreign key is
\* saved only as a key that was found (app.js openRowEditor, commit).
THEOREM EditsReach == Spec => []EditsReachTheirRow
<1>1. ClientHolds => EditsReachTheirRow
  BY Rows!IInvSuffices, Keys!IInvSuffices DEF ClientHolds, EditsReachTheirRow
<1> QED BY <1>1, ClientInv, PTL

\* No operation of a published page is under way twice, however often its buttons are
\* clicked, and the page shows the row it says it is on (runtime.js runAction, refresh).
THEOREM PageServes == Spec => []PageServesItsRow
<1>1. ClientHolds => PageServesItsRow BY Tools!PageSuffices DEF ClientHolds, PageServesItsRow
<1> QED BY <1>1, ClientInv, PTL

\* What is compared, searched, browsed or saved is what the controls name, whatever was
\* on its way when they were changed (app.js loadSchemaCompareTab, loadDataCompareTab,
\* loadObjectSearchTab, loadObjects, saveQuery).
THEOREM AskedIsShown == Spec => []ShowsWhatWasAsked
<1>1. ClientHolds => ShowsWhatWasAsked
  BY ClientAssumption, Tools!CompareSuffices, Tools!SidebarSuffices, Tools!SavedSuffices, Tools!SearchSuffices
  DEF ClientHolds, ShowsWhatWasAsked, Tools!SchemasInv
<1> QED BY <1>1, ClientInv, PTL

\* Once nothing is fetched, the cards of a diagram tell which of its tables there are
\* (app.js refreshDefinitions, render).
THEOREM CardsAreTrue == Spec => []DiagramHolds
<1>1. ClientHolds => DiagramHolds BY Tools!CardsSuffices DEF ClientHolds, DiagramHolds
<1> QED BY <1>1, ClientInv, PTL

\* What is sent in a chat is sent once and kept, to a session and with a key of its model,
\* and no question of the agent outlives its turn (app.js openAgentTab).
THEOREM ChatGoesOnWell == Spec => []ChatHolds
<1>1. ClientHolds => ChatHolds BY Tools!ChatSuffices DEF ClientHolds, ChatHolds
<1> QED BY <1>1, ClientInv, PTL

\* Once nothing is under way, what the designer has read and built is that of the document
\* it shows, and in Preview what it holds runs, once; elsewhere none of it runs (designer.js
\* followDocumentChange, loadRows, rebuildScope, startBehaviour, stopBehaviour).
THEOREM DesignerIsFollowed == Spec => []DesignerFollows
<1>1. ClientHolds => DesignerFollows BY Design!IInvSuffices DEF ClientHolds, DesignerFollows
<1> QED BY <1>1, ClientInv, PTL

\* A tab gives up a running job only for a run on its session (app.js runQuery,
\* attachQueryJob).
THEOREM JobIsKept == Spec => JobIsNotLost
<1>1. ClientHolds /\ [Next]_slots => [which = "query" => Query!JobIsNotLost]_slots
  <2> SUFFICES ASSUME ClientHolds, [Next]_slots, which = "query", slots' # slots PROVE Query!JobIsNotLost
    OBVIOUS
  <2>1. Query!IInv /\ [Query!Next]_(Query!vars) BY PartsStep DEF ClientHolds
  <2>2. [Query!JobIsNotLost]_(Query!vars) BY <2>1, Query!StepIsNotLost
  <2>3. Query!vars' # Query!vars BY DEF Next, slots, Query!vars, Query!service, Query!stored,
           After12, After14, After17
  <2> QED BY <2>2, <2>3
<1> QED BY <1>1, ClientInv, PTL DEF Spec, JobIsNotLost

\* A tab with something to lose closes only as its dialog was agreed to, the tab in
\* front is an open one, and a reload brings it back (app.js closeTab, setActiveTab,
\* saveSession).
THEOREM TabsCloseAgreed == Spec => TabsCloseAsAgreed
<1>1. ClientHolds /\ [Next]_slots =>
        [/\ which = "tabs" => Tabs!OnlyAgreedTabsClose
         /\ which = "tabs" => Tabs!FrontStaysOpen
         /\ which = "tabs" => Tabs!FrontComesBack]_slots
  <2> SUFFICES ASSUME ClientHolds, [Next]_slots, which = "tabs"
               PROVE  Tabs!OnlyAgreedTabsClose /\ Tabs!FrontStaysOpen /\ Tabs!FrontComesBack
    OBVIOUS
  <2>1. Tabs!IInv /\ [Tabs!Next]_(Tabs!vars) BY PartsStep DEF ClientHolds
  <2> QED BY <2>1, Tabs!StepAgrees, Tabs!ReloadComesBack
<1> QED BY <1>1, ClientInv, PTL DEF Spec, TabsCloseAsAgreed
=============================================================================
