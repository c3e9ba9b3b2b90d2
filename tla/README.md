# Gridlet: a TLA+ verification development

Gridlet embeds a database workbench in an ASP.NET Core application: a browser
front end (`app.js`), HTTP endpoints, providers for SQL Server and SQLite, and
optional agent, component and voice packages. Two parts of it keep state that
many parties change at once: the managers of the server, where requests,
background services, timeouts and shutdown meet, and the browser, whose code
runs on one event loop but awaits an answer in nearly every handler. This
directory models both in TLA+, checks small instances with TLC, and proves with
TLAPS, for every value of the constants, the safety properties of the managers,
of the browser's workspace and its tools, and of the published page.

Paths are relative to `src/src/` of the repository copy that the line numbers
in `PROJECT.json` refer to; `app.js` is
`Gridlet.AspNetCore/UI/wwwroot/assets/app.js`, and `designer.js`, `runtime.js`,
`standard.js` and `format.js` are in `Gridlet.Components/UI/wwwroot/`.

## 1. Inventory

| Component | State it keeps | Operations | Hard behaviour | Modules |
| --- | --- | --- | --- | --- |
| **Pinned query sessions** `Gridlet.Core/Sessions/`, `Gridlet.AspNetCore/Sessions/` | dictionary of sessions; per session a one-slot gate, a connection, its last use, the recorded transaction status | open, get, stream, transaction command, close, sweep, dispose | no common lock; every operation awaits the database; four parties may close a session | `QuerySessions` |
| **Background query jobs** `Gridlet.AspNetCore/Jobs/` | dictionary of jobs; per job its events, status, `Changed` signal, cancellation source | start with eviction, run, publish, long poll, cancel, sweep, dispose | runner, readers, cancels, sweeper and shutdown interleave; bounded buffers | `QueryJobs`, `JobService` |
| **Query tab and job client** (`app.js` 12149-12802) | cursor, job id, flags of the closure, saved descriptor, history | run, poll, retry, cancel, reattach, close, reload | tab closed or page reloaded while a request is under way, lost answers | `QueryTab` |
| **Saved queries** (`app.js` 12096-12319) | list, selection, editor per tab; one store for all | open, save, delete, refresh | answers out of order, other tabs | `SavedQueries` |
| **Tab bar and stored session** (`app.js` 2110-2156, 7203-7397) | tabs, active tab, descriptors in localStorage | add, close, close all or others, activate, rename, save, restore | indices and lists used after an `await`; reload while restoring | `Workspace` |
| **Data tab** (`app.js` 7399-9621) | structure with a generation, view, streamed rows, definition | switch, filter, refresh, reload, edit, execute | answers that arrive late, in another view or generation | `DataTab`, `RowEditor` |
| **Published endpoints** (`app.js` 12887-13612) | list, forms, previews | publish, save, delete, run, abort | answers of lists, writes and previews in any order | `PublishedApis` |
| **Comparison and migration** (`app.js` 5418-7197) | selections, structures, results, script | pick, swap, compare, script | chains of requests; a script whose statements depend on each other | `SchemaCompareTab`, `SchemaMigration`, `DataCompare` |
| **Diagrams** (`app.js` 3865-5397) | document, definitions, routing points | add, remove, refresh, drag | definitions that arrive late; geometry | `Diagram`, `DiagramRoute` |
| **Column filters** (`app.js` 13652-14625) | filter, menu with two trees of ticks | open, search, tick, OK | truncated lists, search combined with the filter before | `ColumnFilter` |
| **Chat** (`app.js` 10399-11984) | composer, dictation, turn, key, session, record | type, dictate, send, stop, answer, new chat | dictation, a turn, its questions and a key's request overlap | `AgentTab` |
| **Sidebar and object search** (`app.js` 2438-2564, 3458-3840, 7952-8104) | selections, tree, shared promises; search controls | select, refresh, search | late answers, several workers | `Sidebar`, `ObjectSearch` |
| **Published page** (`runtime.js`) | rows, position, pending actions | start, walk, reload, act | clicks, answers and reloads overlap | `ComponentPage`, `Bindings` |
| **Formulas** (`designer.js`, `runtime.js`, `standard.js`) | none | parse, evaluate, rename, format, read | two implementations of one language; calendars, rounding | `Expressions`, `Dates`, `Numbers` |
| **Designer** (`designer.js`) | document, history, preview, behaviour | edit, undo, preview, save | builds and behaviours that overtake each other | `Designer`, `Bindings` |
| **Component markup** (`format.js`, `designer.js`) | document and its file | read, write, rename, cut, copy, paste | everything must come back as it was | `ComponentDocument` |
| **Text boxes** (`standard.js`) | places of a mask, value, editing | type, paste, visit, set | who tells of a change | `TextBox` |
| **Session endpoints, file stores, agent service, access gate, credentials, CLI runtimes, agent tools, SQL guard, batch splitter, catalog and published HTTP endpoints, exports, providers, voice, configuration** | see `PROJECT.json` | | | not modelled (section 8) |

The browser starts jobs and sessions through the endpoints, which call the
managers directly; each manager has a hosted sweeper that ticks every minute;
both managers call the database through the resolved provider and stop with the
container. The tabs of the browser share `state` (tabs, caches, the selection),
localStorage and the server's stores; a published page shares nothing with the
workbench. `PROJECT.json` lists the hazards, at their lines, with the properties
that would catch them.

## 2. How the modules fit together

- **Server.** `QuerySessions` and `QueryJobs` each have an instance
  (`MCQuerySessions`, `MCQueryJobs`) and their proofs
  (`QuerySessionsProofs`, `QueryJobsProofs`).
- **The contract between server and browser.** `JobService` is what one job
  promises a browser. `QueryJobs` implements it (`ImplementsJobService`, by
  `INSTANCE JobService WITH` a mapping of the dictionary's keys and of each
  job's status and events), which run `job_events` checks and
  `ImplementsTheService` proves. `QueryTab` is composed with `JobService`
  (`Service == INSTANCE JobService`) and not with `QueryJobs`: what the tab does
  is right against any service that keeps the promise.
- **Browser.** Every other module models one component of the browser (`Lists`
  has a function that two of them share). The components share little, so each
  is checked on its own; to ask one question of many of them in one run, two
  modules put components side by side: `Client` those that something is proved
  of (the query tab, the tab bar, data tabs, row editors with a plain column and
  with a foreign key, the published page, both comparisons, the sidebar, saved
  queries, the chat, diagrams, the search, published endpoints, the designer) and
  `MCComponents` those that work something out and are only model-checked
  (formulas, dates and numbers, text boxes, documents, migration scripts,
  connectors and column filters). In each, `which` says which component a
  behaviour is of and `v1, v2, ...` are its variables in their order; the
  others do not move. A property of the sum is the conjunction of those of the
  components it names. `Client` has a constant `Part`, the components that run:
  `MCClient.cfg` takes the workspace and `MCTools.cfg` its tools, the designer
  and the page. It instances the modules of the *proofs*, which extend or instance the
  components, so that `ClientProofs` can cite what is proved of each. Two of
  them hold several components, each an instance with variables of its own:
  `ToolsProofs` nine (where two of them mean the same by a constant, it is one
  constant there), and `WorkspaceProofs` the bar of tabs and the data tab.
- `MCWorkspace`, `MCDocument` and, for `Designer`, `MCListenersDoc.cfg` are the
  instances of the runs that show the browser's code doing other than it says.

| Module | Models | Its actions, among others |
| --- | --- | --- |
| `JobService` | what one job promises | `Start`, `Publish`, `RequestCancel`, `End`, `Forget`, `Shutdown` |
| `QueryTab` | `openQueryTab`: runs on a job or on the session, the poller with its retries, the dialogs, reattachment, history, reload | `Run`, `RunAnyway`, `StartAnswered`, `Polled`, `PollFails`, `Finally` |
| `Workspace` | `addTab`, `closeTab`, `closeAllTabs`, `setActiveTab`, `renderTabs`, `saveSession`, `restoreSession` and the dialogs of `canCloseTab` | one action per turn of the event loop |
| `DataTab` | `buildDataObjectTab`: four views, the structure's promise and generation, the streamed data, the editor of the definition | `SwitchView`, `SetFilters`, `ReadDone`, `Answered`, `Refresh`, `Execute` |
| `RowEditor` | `openRowEditor`, the row actions of `renderData`, `rowKey.refresh`, the search of foreign keys | `OpenRowEditor`, `CommitEditor`, `Saved`, `SearchAnswered`, `Reload`, `ConfirmDelete` |
| `PublishedApis` | the dialog that publishes, the list with its forms, the previews | `Publish`, `ServeList`, `ShowList`, `Save`, `Run`, `Answer` |
| `SavedQueries` | the saved queries of query tabs over the store they share | `Pick`, `Save`, `Delete`, `Serve`, `Answer`, `Fail` |
| `SchemaMigration` | the comparison of two schemas, the script, what running it does, and comparing again | `Load`, `Compare`, `Run` |
| `SchemaCompareTab`, `DataCompare` | the controls of the two comparison tabs and their chains of requests; the comparison of rows against its definition | `ChangeConnection`, `Swap`, `StructureArrives`, `Compare` |
| `Diagram`, `DiagramRoute` | the tables of a diagram and their definitions; the right-angled connector | `AddTables`, `MetadataArrives`; `Grab`, `Drag`, `Drop` |
| `ColumnFilter` | conditions, and the checklist with its search | `Open`, `RunSearch`, `Tick`, `Ok` |
| `AgentTab` | composer, dictation, turn, permission cards, key with its removal, sessions, record | `Send`, `KeyStored`, `RemovalFails`, `PermissionRequest`, `Answer` |
| `ObjectSearch`, `Sidebar` | the search with its workers; the pickers, the tree, and metadata that is assembled once and shared | |
| `ComponentPage` | a published page's start, its rows and its actions | `Click`, `CatalogueLoads`, `Answered`, `Reload` |
| `Bindings` | `applyBindings` of the page, `resolveAll` of the designer | `GoTo`, `Resize`, `Type` |
| `Expressions` | parser, evaluator and renaming on both sides, over every formula of up to 6 tokens | `Write` |
| `Dates`, `Numbers` | calendar functions, formats, and how both are read | one call after the other |
| `TextBox` | `inputMask`, `maskedInput`, `textBox` | `Focus`, `Type`, `Delete`, `SetValue`, `Blur` |
| `Designer` | the document with undo, its views, rows, modules and the behaviour in Preview | `Edited`, `Undo`, `Enter`, `Connect`, `Attach` |
| `ComponentDocument` | the file of a component, reading and writing it, and what is done between | `Reopen`, `Save`, `CommitName`, `Copy`, `Paste` |

Definitions whose comment begins with "Mutated:" are variants of the definition
that follows, written as a plausible bug would write it; nothing uses them. One
for each property of each run is listed in `PROJECT.json`; the others record
what else has been tried by hand against the component's properties.

## 3. QuerySessions

**State.** `sessions` is the dictionary's key set, `gate[s]` the process inside
`Session.Gate` (a semaphore of one, only ever taken with `WaitAsync(0)`, so
nobody waits), `state[s]` the rest of a session: owner, connection, the
engine's transaction and the recorded one, whether the last attempt to read the
status, or the last transaction command, failed (`unread`, a history value, which
only such an attempt sets or clears, never a statement), and whether its time has
run out. `missing` is a history variable of the not-found answers given to owners. `task[p]` is
the continuation of a process: a request, the sweeper or the container's
disposal.

**Granularity.** A step runs from one access to shared state, or one await, to
the next. The checks of `RequireAsync`, the two halves of
`TryCloseIdleAsync` (slot, then expiry and removal), the rollback, the disposal
of the connection, the end of a statement, its `finally` block and
`AfterUseAsync` are steps of their own, so that any other process comes between
them. The sweep walks the snapshot that `ConcurrentDictionary.Values` is.

| Model | Code |
| --- | --- |
| `BeginOpen`, `CheckLimit`, `FinishOpen`, `FailOpen` | `OpenAsync` |
| `BeginSweep`, `SweepNext`, `EndSweep` | sweeper loop, `SweepAsync` (also called by `OpenAsync`) |
| `TakeIdle`, `DecideIdle` | `TryCloseIdleAsync` |
| `BeginClose`, `Rollback`, `DisposeSession` | `CloseAsync`, `RollbackAndDisposeAsync` |
| `BeginUse`, `Recheck`, `TakeLease` | `RequireAsync`, `LeaseAsync` |
| `Get`, `EndStream`, `SettleStream`, `EndCommand` | `GetAsync`, `StreamAsync`, `RunTransactionCommandAsync` |
| `AfterUse`, `Discard` | `AfterUseAsync` |
| `BeginDispose`, `DisposeNext`, `EndDispose` | `DisposeAsync` |
| `Expire` | the passing of time, `ExpiresAt` |

**Abstractions.** Time is a flag per session that may be set at any moment and
is cleared by a stamp. A statement's text is what it may leave behind: a
transaction or none, or a dead connection (`StatementEffects`). A session id is
random and used once, so `Session` bounds the sessions of one behaviour.
`List` and `Describe` only read. Requests for somebody else's session are
answered without a change of state, so they are not steps. `BeginDispose` sets
the flag and takes the snapshot in one step. Limits are not reloaded.

## 4. QueryJobs

**State.** `jobs` is the dictionary's key set, `job[j]` everything a job keeps
(which lives on when the dictionary has dropped it), `poller[p]` the request of
a reader with its cursor and the `Changed` task it awaits, `disposed` and
`shutdown` the disposal with its snapshot.

**Granularity.** `Start`, `Sweep` and the first half of `DisposeAsync` hold
`jobsGate` throughout and are one step each; the steps of a job hold its
`Gate`. What happens between two locks is visible: the final status is chosen
before the audit and published after it; `Cancel` sets the status under the
lock and signals the source outside (`SignalCancel`); a reader looks the job up,
reads it under the lock, and waits outside.

| Model | Code |
| --- | --- |
| `Start`, `RefuseStart` with `Kept`, `Full`, `OldestCompleted` | `Start`, `OldestCompleted`, `RemoveLocked`, `SweepCompletedLocked` |
| `Sweep`, `Expire` | `Sweep`, `ExpiredBy`, the sweeper service |
| `ProviderEvent`, `EndOfStream`, `EndCancelled`, `Fail` | the loop of `RunAsync` and its two handlers |
| `Published`, `Retain`, `Truncate`, `Notify` | `Publish`, `RetainTerminalEvent`, `NotifyLocked` |
| `Audit`, `Finish` | the `finally` block of `RunAsync` |
| `Cancel`, `SignalCancel` | `Cancel` |
| `Lookup`, `Read`, `Answer` with `Snapshot` | `GetAsync`, `SnapshotLocked`, `ValidateCursor` |
| `Attach`, `Detach` | a browser's requests through the job endpoint |
| `BeginDispose`, `CancelNext`, `EndWait`, `ReleaseNext`, `EndDispose` | `DisposeAsync` |

**Abstractions.** An event is its type; whether it fits the byte limit is
nondeterministic (`Fits`). The two eviction loops of `Start` run at most once
between them while the limits hold, which `CapacityBound` shows they do, so
`Kept` evicts once. The provider's stream is any sequence of `Emits`, may go on
after a terminal event, may end, throw or be cancelled at any point. The
exception for a missing database is not modelled: the only caller passes one.
A reader presents the cursor of its last answer; a cursor out of range is
refused without a change of state. `EndWait` needs no completed execution,
which covers the five-second timeout.

## 5. Runs

| Run | Instance | Shows |
| --- | --- | --- |
| `sessions` (`MCQuerySessions.cfg`) | 1 session, 2 requests of its owner, 1 of another user, all uses, sweeper, shutdown | `GateDiscipline`, `NoOrphanConnection`, `NoResurrection`, `RecordedIsReal`, `StatementSurvivesExpiry`; 1.5 million states |
| `session_cap` (`MCSessionCap.cfg`) | 3 sessions, 2 requests, limit 1 | `OvershootBound`: two sessions do get opened, three never |
| `session_cap_doc` (`MCSessionCapDoc.cfg`) | the same | `SessionCap` is violated (finding 1) |
| `sessions_live` (`MCSessionsLive.cfg`) | 1 session, 2 requests, fair | `AbandonedIsClosed` |
| `job_registry` (`MCJobRegistry.cfg`) | 3 jobs of a user and of anonymous callers, 2 slots, a share of 1 | `CapacityBound`, `NoSourceReleasedInUse`, `ShutdownReachesEveryJob`, `OnlyOwnResultsEvicted`; 1.2 million states |
| `job_events` (`MCJobEvents.cfg`) | 1 job, 1 reader, 2 events retained, pages of 2, fair | outcome, audit, bound, wake-up and liveness properties, and the refinement `ImplementsJobService`; 0.5 million states |
| `client` (`MCClient.cfg`) | `Client`: 2 jobs, 3 tabs of which one comes back, 2 renders, 3 values, 2 editors, 2 endpoints | `ShowsItsJob`, `ShowsTheNewest`, `EditsReachTheirRow`, `JobIsNotLost`, `TabsCloseAsAgreed`; 2.0 million states |
| `tools` (`MCTools.cfg`) | `Client`: 4 buttons, 2 connections, tables of 2 rows, 2 tabs, 3 tables of a diagram, 2 workers, a component with a module of one class and 2 edits | `PageServesItsRow`, `ShowsWhatWasAsked`, `DiagramHolds`, `ChatHolds`, `DesignerFollows`; 1.9 million states |
| `components` (`MCComponents.cfg`) | formulas, boxes, calendar, numbers, documents; scripts of three tables for two engines, a connector, filters of texts and dates | `FormulasMeanOneThing`, `ShowsWhatItHolds`, `ValuesFollow`, `ScriptRuns`, `RunSettles`, `FiltersAreWhatIsTicked`; 1.4 million states |
| `session_reading_doc` (`MCSessionReadingDoc.cfg`) | `Workspace`, 3 tabs | `SessionSurvivesItsReading` is violated (finding 2) |
| `document_doc` (`MCDocumentDoc.cfg`) | `ComponentDocument`, 1 control | `StylesAreCarried` is violated (finding 3) |
| `listeners_doc` (`MCListenersDoc.cfg`) | `Designer`, 1 module of 2 classes | `ListenersNeverStack` is violated (finding 4) |

**Why the bounds are enough.** Sessions share nothing but the dictionary, so
slots, connections and statuses need one session and as many processes as can
collide on it: two users of it (one using, one closing), a stranger, the
sweeper and the shutdown. The cap needs more sessions than the limit and two
opens at once. Eviction needs a full dictionary, an owner with a share smaller
than the capacity and callers without one. Two retained events with four
possible types, with or without room in bytes, reach truncation before, at and
after a terminal event; pages of two with up to five events make the reader
need several polls, the last of them partial. In the browser, an answer can be
late with two requests, and an index wrong with three tabs; two jobs let a tab
take up a second while the first runs on; two editors let one open while the
other saves, and a second grid lets a reload overtake a save; three tables, two of which refer to each other, make every order of a
script's sections matter. What depends on the number of sessions, requests,
jobs, readers, tabs, loads, editors, rows, connections, chats or endpoints is
proved for all of them (section 6). Bounds that are no part of the code
(`MaxReloads`, `MaxChanges`, `MaxEdits` and the like) are named as such where
they are declared; larger instances were also run by hand: `Workspace` with two
tabs that come back (1.1 million states), `AgentTab` with a second key (2.9
million; a key that replaces another, which one key does not reach),
`DataTab` with 3 renders, `PublishedApis` with 3 loads and 4 changes (3.1
million), `ComponentDocument` with 2 edits, `SavedQueries` with 5 changes (2.8
million), `Designer` with two classes (1.1 million) and with 5 edits and a module
without classes (6.2 million; a run of typing that is overtaken, which 2 edits do
not reach, is an exception its properties make, section 7).

**Symmetry.** `client` permutes the jobs and the tabs that do not come back. Nothing in
`QueryTab` or `Workspace` tells them apart, and the run's properties are
invariants and action properties.

**Deadlock** is checked where the system cannot stop (sessions: the sweeper's
timer keeps ticking). The job instances use their ids up, and the instances of
the browser their bounds, and then stop, so their configurations switch the
check off.

**Fairness** (`FairSpec` of `QuerySessions` and `QueryJobs`). Continuations are
scheduled by the thread pool and statements end, since every command carries a
timeout, so a process that has begun something goes on. Each sweeper is a timer
loop that survives exceptions, so sweeps recur. Time passes, so `Expire`
happens. A reader that polls is answered within two seconds. No request ever
has to arrive, no cancel, no close, and the shutdown's steps are fair only once
it has begun. `AbandonedIsClosed` and `SourcesReclaimed` except behaviours that
shut down: there the process ends. No liveness is stated of the browser, where
a person may stop and an answer may never come.

## 6. Proofs

**What is proved.** Every safety property of `sessions`, `session_cap`,
`job_registry`, `job_events`, `client` and `tools`, the refinement included, is a
theorem for every value of the constants. The assumptions are named:
`SessionsAssumption` and `JobsAssumption` (finite sets of ids, distinct
processes, positive limits, and `cancelled` published only by the manager, never
by a provider), and `ClientAssumption`, the conjunction of what the proofs of
each component assume: `None` is no job, no tab and no turn or key of a chat; pages,
retries and bounds are numbers; a table has the two values it starts with among
those of its column, the keys found are values of it, there is a grid; what the
server holds at first are endpoints and saved queries; rows that are compared
have a number as their key; connections are numbered and have finitely many
databases and objects; a diagram has finitely many tables, each button of a
page names an operation or none, and a component has finitely many modules, with
room for the instances that are built first. TLC evaluates all three.

`QuerySessionsProofs`. `TypeCorrect` is inductive together with `Coherent`,
which ties the program counter of a process to its operation and session: an
action's guard is a label, and what the action may assume about its target
follows from `Coherent` only. `SlotsCorrect` (`GateDiscipline`) is inductive on
top of it; `SlotStep` has a case per action. `NoConnectionIsOrphaned` and
`NoSessionResurrects` are not inductive: they need that a process only works on
sessions that were opened, that every registered or missing id is known, and
that a session being closed is unregistered; their conjunction is the
invariant `LifeInv`, shown step by step by `LifeStep`. `OvershootIsBounded`
strengthens the bound to one on registered sessions plus requests past the
check, a sum that stays when a session is added and grows only while the limit
has room (`OpenInv`). `RecordedStatusIsReal` (`RecordedIsReal`) rests on
`StatusInv`: the status of a registered session is current, or a request inside
the slot is past a statement and has yet to read the status back (`Pending`).
That request is the only one who may read it, by `SlotsCorrect`, and it cannot
leave the slot before it has; so whoever finds the slot free finds a current
status, and with no reading back, the invariant breaks at the request's leave.
`StatementsSurviveExpiry` uses the slot: a process other than the
statement's own that unregisters or disposes its session is outside the gate,
which only a close and the shutdown are.

`QueryJobsProofs`. Jobs are records that change by few kinds of step, so the
argument is about records: `Advance(x, y)` says what any step may do to a job
once started (its events grow, an ended job keeps its outcome, ...) and
`Sound(x)` gathers the invariants of one job (its life cycle, its audit, what
it retains, its bounds). `PublishedJob`, `PublishAdvances`, `PhaseAdvances` and
`EndedAdvances` are the lemmas about the operators, `StartSteps` and `JobSteps`
show that every step of the specification starts a job or advances every job.
From that follow `TypeCorrect` (readers' cursors stay valid because events only
grow), `EverySound` and then `OutcomesAreRetained`, `AuditsPrecedeOutcomes`,
`EventsAreBounded`, `SourcesAreReleasedLate` and `OutcomesAreFinal`.
`ShutdownReachesJobs` and `EvictionIsOwn` need the invariant `Registered`:
before the shutdown a job that runs is in the dictionary, and afterwards it is
in the list the shutdown has still to signal, or signalled. `CapacityIsBounded`
counts the finite sets that eviction leaves, and `NoWakeupIsLost` is inductive
by `WakeupStep`: whatever changes a job's events or ends it notifies its
readers. `ImplementsTheService` maps the manager to `JobService`: the initial
states correspond; each action of the manager is, under the mapping, one of the
service's or a stutter; and what an action of the service asks beyond that
(the events published in one step are a burst that ends with the end, only an
ended job is forgotten before the shutdown) comes from `EverySound` and
`Registered`.

`QueryTabProofs`. The properties are not inductive, since a run, the tab's flags
and the stored descriptor each carry the job's id and any of them may outlive
the others. `IInv` says that they agree (`RunFits`, `TabFits`, `SavedFits`),
that a job none of them has recorded has no entry in the history
(`HistoryFits`), and that what is shown is a prefix of the job's events up to
the cursor (`StreamFits`). `Grows` is what the tab's proofs take from the
service: it only adds.

`WorkspaceProofs`. What makes the tab bar hard is that an operation waits for a
dialog with the index it found, while answers add and remove tabs. `FoundOut` is
what such an operation knows of the tabs it began with, and the proof shows that
it stays true in the list as it is by then (`MovedBefore`): tabs are added at
the end, so the others only move to the left, and nothing gets work to lose
while a dialog is open. It exposes exactly the cases the properties except,
those in which the list did change under the dialog. `Describable` is a
recursive function; that it keeps the tabs that come back, in their order, is
proved by taking the least index at which it would not. The same module has the
proofs of the data tab: a structure read for the current generation was served
after the last refresh (`Metadata`), and no load of the data is newer than the
active one, so that of those waiting for a structure only that one is drawn
(`Screen`); the newest load exists because a nonempty set of numbers below a
bound has a greatest (`Greatest`).

`RowEditorProofs`. `Good` holds until an editor or grid is left while it saves
(`overtaken`, after which the code does write elsewhere): at most one editor is
active, the grid addresses each row as the database does, but for the row just
saved and those a deletion has reached, and an editor opened under the dialog of
a deletion sends nothing before that is gone. `RowsAreTyped` holds in every
state, by an invariant of its own (`TInv`).

`ToolsProofs`. Nine components, each with an inductive invariant (`PageInv`,
`SchemasInv`, `CompareInv`, `SidebarInv`, `SavedInv`, `ChatInv`, `CardsInv`,
`SearchInv`, `ApisInv`), that it holds at first (`...Begins`) and after every
step (`...GoesOn`), and why it is enough (`...Suffices`). It begins with what
several need of lists: what `Keep`, `RemoveAt` and `Append` do to the elements of
a list, and that a list without repetitions is as long as it has elements.

- *Published endpoints.* Unless the list is known to be behind, the newest list
  that was served is what the server holds, or a write that was carried out is
  still unanswered and will fetch the list again.
- *Rows.* What is said of the requests of the newest chain (`NewestFits`,
  `ListsFit`, `StructureFits`) ties each stage to what the controls name, and
  leaves the older chains free, whose answers are dropped. That no difference is
  shown exactly if both tables have the same rows (`DifferencesTell`) is proved
  of the definitions, for tables of any length: a table loaded whole is sorted by
  a bijection of its rows, so what holds of the sorted rows holds of the table.
- *Schemas.* A side that waits for no list has the list of the connection chosen,
  and its database is one of that list (`SidesHold`).
- *Sidebar.* Whatever the pickers say is asked for unless it is drawn already
  (`Drawing`); what tabs share was assembled after the metadata was last given
  up, and whoever waits for an assembly waits for one that began after it asked
  (`Relating`).
- *Saved queries.* There is one name for each id given so far that every list,
  dialog, request and the store agree on (`NamesHold`): a lost or late answer
  carries an old list, never another name.
- *Chat.* The parts of `ChatInv` are the concerns of the tab: its turn, the
  composer and the recogniser (`Spoken`), the record (`Recorded`), sessions
  (`Separate`), keys (`KeysAreOurs`) and cards (`Carded`). `SentIsKept` is not
  inductive: what was sent in the chat shown is in the transcript, and what was
  sent in others in the record, which `PersistKeeps` shows of every way it is
  stored, its limit included. Of the keys, each one that the server keeps is the
  tab's or a stray, which is what the tab gave up, its removal under way or
  failed, or was never told of: a key is given up only along with a request for
  its removal (`KeysDiscarded`), a request for a key that fails may leave one
  behind (`KeysAborted`), and neither an arrival, a failure nor the end of a key's
  time forgets one that is kept (`RemovalStep`).
- *Diagram.* A refresh under way still fetches every table it will draw that the
  database has and nobody has fetched (`Fetches`).
- *Search.* Each stage has read, failed at, or has still to read everything of
  the stage before (`DatabasesRead`, `ObjectsRead`, `DefinitionsRead`), so that
  what is missing at the end is named. That the limit is shared out evenly is
  proved of the operator that chooses the definitions, for any number of
  databases.
- *Page.* `PageServesItsRow` is inductive with the types.

`DesignerProofs`. `Followed` has three parts. `RowsFollow`: the rows shown and the
latest read are of the earliest document still to be followed, or a
follow-through that will read them is about to begin. `ScopeFollows`: of the
builds under way only one will count, and it, or the scope when there is none,
is of the modules of that document, of the one the follow-through measures from,
or a build is still to come. `RunFollows`: one owner at a time stops or starts the
behaviour, and what is connected is exactly what it has not stopped yet or has
started so far. `adrift` and `overlapped` are history variables that record the
departures section 7 names and nothing else. One of those departures is
beyond the run's bound: it shows on a larger instance only, and without it the
proof does not go through.

`ClientProofs`. A step of the client is a step of the component that runs, so
each component keeps its own invariant in the sum (`ClientHolds`), and the
eleven properties of runs `client` and `tools` follow, `JobIsNotLost` and
`TabsCloseAsAgreed` from what a step does.

TLC checked each inductive invariant as well, on instances of the runs
(`DataTab`'s with 899,385 states, `PublishedApis`' with 3,079,185, the chat's
with 2,913,060, the search's with 128,031); for the saved queries the names that
`SavedInv` says exist were sought among the functions from ids to names.

**Only model-checked.** Liveness (`AbandonedIsClosed`, `SourcesReclaimed`,
`ReaderSeesOutcome`), since fairness and ENABLED are out of the prover's reach.
The properties of `components`: `Expressions`, `Bindings`, `ComponentDocument`
and `SchemaMigration` are algorithms over data, written with RECURSIVE operators,
and what they compute for every input would need induction over the data.
`Dates`, `Numbers`, `TextBox` and `DiagramRoute` are folds over sequences, of
which the same is true. `ColumnFilter` is of the kind that is proved above and has
no proof; as `MCComponents` instances modules with RECURSIVE operators, nothing
is proved in it.

## 7. Findings

1. *The cap on sessions can be overrun.* `OpenAsync` checks the count and then
   awaits the connection before it registers the session, so opens that overlap
   all pass. The options describe a cap. `OvershootBound` states and
   `OvershootIsBounded` proves how far it goes: by fewer sessions than there are
   requests opening at once.
2. *A half-built workspace does overwrite the session being read.*
   `restoreSession` sets `sessionRestored` before it rebuilds the tabs, so that
   the first tab it adds is saved alone; a reload before the last is rebuilt
   loses the rest.
3. *A stylesheet grows when a component is saved.* `serialize` escapes the text
   of the `<style>` element, which is read as raw text: `>` comes back as
   `&gt;`, then as `&amp;gt;`.
4. *Handlers are attached twice.* A comment says that the designer takes the
   listeners of the run before away so that none ever stack up.
   `startBehaviour` looks once, after its builds, whether it was overtaken, then
   awaits `connected()` of each class and attaches (designer.js:9768): of two
   starts that overlap there, both attach, and a click runs its handler twice.

**Where properties make exceptions.** The code does the following, the models do
it too, and the properties are stated so as to except it, each where its
comment says so:

- *QuerySessions.* A status that cannot be read, and a transaction command that
  fails after it took effect, leave a record that is not the engine's
  (GridletQuerySessionManager.cs:144, 308). Polls of a session that overlap again
  and again keep it open past its time, since each finds the slot taken by another
  when it would close the session.
- *QueryJobs.* The options say that the oldest result is evicted first, without
  restriction; `Start` evicts only among the results of the owner who starts the
  job, as its comment wants (GridletQueryJobManager.cs:71-73), and refuses the
  job when that owner has none.
- *Workspace.* A list that changes under a dialog makes `closeTab` remove
  another tab, and may bring a closed one to the front (app.js:7236-7243); a
  keyed tab can be opened twice while its opening waits (7203-7214).
- *QueryTab.* A page that is closed or reloaded while the POST that starts a job
  is under way orphans the job, which runs until it ends; a run on the session
  forgets the tab's job, and `cancelJobOnClose` stays set.
- *DataTab.* The answer of a view left meanwhile is drawn into the new one;
  `executeDefinition` counts text typed while it executes as applied; an edit of
  the definition is lost unasked by a refresh (`EditIsNotLostUnasked`, 7488).
- *RowEditor.* A second commit of a new row inserts twice; Escape during a save
  does not stop the save, and a row opened again by then may save the key it had
  before; deletions of several rows may fail in part (7941).
- *PublishedApis.* An older list that answers last replaces a newer one, or
  leaves "New request" hidden beside it; a save from a tab closed meanwhile does
  not reload the one opened since; text typed while a save is under way is lost
  with its form.
- *SavedQueries.* Older lists win in the same way (12248-12261); a list that
  fails after a save leaves the selection on a query that is not listed, so that
  saving again makes a second one; so does a save that is clicked twice.
- *Sidebar.* The databases of a connection that was left arrive (2487); a failed
  list of objects is kept as an empty one (2535-2541).
- *AgentTab.* Dictation that starts late replaces what was typed meanwhile
  (11710-11713); a prompt typed while the key is stored is wiped (11570). A
  key that is replaced, or given up with its model or tab, is removed by a
  DELETE that nobody waits for and whose failure is swallowed (11075-11079), and
  a key whose POST was aborted is not removed at all: either stays on the server
  until its time runs out. `KeysAreTakenBack` says that these are the only ones.
- *ColumnFilter.* OK while a search is unanswered applies an empty filter
  (14473-14487); a filter on values beyond the listed ones loses them. A search of
  a truncated list finds its text as it is written (`EscapeLike`,
  SqliteFilterBuilder.cs:127, SqlServerSqlBuilder.Filters.cs:181), while the
  condition that OK makes of it when every value found stays ticked (14480-14485)
  takes `*`, `?` and `~` as wildcards (13797-13804): such a text also shows rows
  that were neither found nor ticked.
- *ObjectSearch.* Results are kept under names in lower case (3740), so of two
  objects whose names differ in case only the last that is found is shown; the
  model's objects differ otherwise.
- *SchemaMigration.* A key's name used elsewhere (6285-6305), a key into a table
  whose metadata is unavailable, a computed column added before its base.
- *DataCompare, SchemaCompareTab.* A failed load of the objects loses restored
  keys (7041-7045); changing only a database leaves the old results shown.
- *DiagramRoute.* A knob dropped at the end of a line snaps to it; a drop merges
  against the line of before (around 5350-5390).
- *ComponentPage, Designer.* Overlapping reloads answer in any order; edits made
  while a save is under way are marked as saved (designer.js:8662-8700); undo
  drops a typed run that was still waiting (2758-2760), and a run of typing is
  compared with where it began, so that a change of rows or modules followed,
  undone or switched in between can stay behind (2727-2743); a module made
  here is not followed (6829-6842); behaviours overlap as finding 4 says.
- *Bindings, Expressions.* Where a formula is circular the designer shows
  `#CIRC!` and the page the literal value of the document; where texts, booleans
  and errors meet, the two evaluators differ (runtime.js:662 and following), so
  that the comment that they speak one language (runtime.js:5-7, `OneLanguage`)
  holds of numbers only (`SidesAgreeOnNumbers`).
- *ComponentDocument.* An operation that was withdrawn counts as declared, so
  that a pasted button stays live (designer.js:7241-7243 and 8052); sections of a
  stylesheet under an empty name, or a name used twice, do not come back apart;
  an untitled panel reads the title of a panel inside it (format.js:732).
- *TextBox, Dates, Numbers.* A value read back into a mask on focus can lose a
  character (standard.js:1395, 1578); a locale's own `dateFormat` that lacks a
  field falls back to month, day, year; the format `#.#` writes zero as a point.

## 8. Not modelled

- **On the server**: the session endpoints, catalog, data, DDL and published
  HTTP endpoints (stateless calls of a manager or provider); the file stores
  (one lock and a replaced file each; the crash between a component's document
  and its sidecar is listed as a hazard); the agent service and access gate
  (the browser's half of them is `AgentTab`), the credential store but for the
  removals and the expiry of a tab's keys (`AgentTab`); the CLI runtimes
  (process I/O); providers, exports, voice, configuration; the read-only guard,
  the batch splitter and route paths (sequential scanners). In the two
  components modelled: the reloading of options, and what becomes of sessions
  that finish opening while the manager is being disposed, which the model
  allows and no property forbids (the manager does not look at its flag again
  after the await).
- **In `app.js`**: completion, highlighting, formatting and the warning about
  statements without WHERE (931-2090), the loading of modules (2329-2386), the
  dialogs of schemas, security, triggers, sequences and routines (2937-3310),
  the result grid and its virtual scrolling, exports, and layout.
- **In the component packages**: drawing, dragging and aligning on the canvas,
  the property panel, menus and dialogs, syntax colouring, grids of rows,
  binary fractions and numbers of more than fifteen digits, time zones and
  fractions of a second.
