---------------------------- MODULE PublishedApis ----------------------------
(***************************************************************************)
(* Queries published as HTTP endpoints: the dialog that publishes one, the *)
(* tab that lists, edits and deletes them, and the tabs that call them     *)
(* (app.js openPublishDialog, openApisTab, openApiPreviewTab and           *)
(* createApiPreview).  Each action is the code between two awaits, or what *)
(* the server does.  An endpoint is its address, its SQL and a setting for *)
(* every parameter of that; its name, method, policy and the rest are      *)
(* saved and compared as the address is.                                   *)
(***************************************************************************)
EXTENDS Naturals, FiniteSets

CONSTANTS None,
          Endpoint,    \* the ids endpoints may get
          Address,     \* the routes they may have
          Sql,         \* their texts
          Names,       \* the @parameters of each text
          Known,       \* the endpoints there may be at first
          Drafts,      \* what the dialog is filled in with
          MaxLoads,    \* bound: of the list
          MaxChanges   \* bound: what a person does that is sent, and what is typed

VARIABLES
    stored,            \* per endpoint what the server holds, or None
    open,              \* whether the tab is open
    body, newRequest,  \* what it shows, and whether "New request" does
    loads, writes,     \* requests under way
    previews,          \* per endpoint the tab that calls it, or None
    ran,               \* history: what Run opened, and what was shown when it was pressed
    behind,            \* history: the list may be older than what the server holds
    nextLoad, changes

vars == <<stored, open, body, newRequest, loads, writes, previews, ran, behind, nextLoad, changes>>

Setting == {"required", "optional"}
Content == UNION {[address : Address, sql : {s}, parameters : [Names[s] -> Setting]] : s \in Sql}

TypeOK ==
    /\ stored \in [Endpoint -> Content \cup {None}]
    /\ open \in BOOLEAN /\ newRequest \in BOOLEAN /\ behind \in BOOLEAN
    /\ body.is \in {"nothing", "loading", "list", "error", "editor"}
    /\ body.is = "editor" => body.endpoint \in Content /\ body.form.sql \in Sql
    /\ \A l \in loads : l.nr < nextLoad
    /\ \A w \in writes : w.done \in BOOLEAN
    /\ nextLoad \in 0..MaxLoads /\ changes \in 0..MaxChanges

Changing == changes < MaxChanges /\ changes' = changes + 1

-----------------------------------------------------------------------------
(* The list *)

\* tab.load, when a list is asked for.
Reloaded ==
    /\ nextLoad < MaxLoads /\ nextLoad' = nextLoad + 1
    /\ newRequest' = TRUE /\ body' = [is |-> "loading"]
    /\ loads' = loads \cup {[nr |-> nextLoad, seen |-> None]}
    /\ behind' = FALSE
\* Mutated: what was changed is taken as shown already.
ReloadedIfShown == IF body.is = "list" THEN UNCHANGED <<nextLoad, newRequest, body, loads, behind>> ELSE Reloaded
Reload == Reloaded

OpenApisTab ==
    /\ open' = TRUE /\ Reloaded
    /\ UNCHANGED <<stored, writes, previews, ran, changes>>

\* What is still to arrive for the tab is shown nowhere.
CloseTab ==
    /\ open /\ open' = FALSE /\ body' = [is |-> "nothing"] /\ newRequest' = TRUE /\ loads' = {}
    /\ writes' = {[w EXCEPT !.tab = FALSE] : w \in writes}
    /\ UNCHANGED <<stored, previews, ran, behind, nextLoad, changes>>

ServeList(l) ==
    /\ l.seen = None
    /\ loads' = (loads \ {l}) \cup {[l EXCEPT !.seen = stored]}
    /\ UNCHANGED <<stored, open, body, newRequest, writes, previews, ran, behind, nextLoad, changes>>

\* An answer is shown whatever is there by then.
ShowList(l) ==
    /\ l.seen # None
    /\ loads' = loads \ {l} /\ body' = [is |-> "list", endpoints |-> l.seen]
    /\ behind' = (behind \/ l.nr + 1 < nextLoad)
    /\ UNCHANGED <<stored, open, newRequest, writes, previews, ran, nextLoad, changes>>
LoadFails(l) ==
    /\ loads' = loads \ {l} /\ body' = [is |-> "error"]
    /\ behind' = (behind \/ l.nr + 1 < nextLoad)
    /\ UNCHANGED <<stored, open, newRequest, writes, previews, ran, nextLoad, changes>>

-----------------------------------------------------------------------------
(* The requests that call an endpoint *)

\* What is drawn: the text of the response as it came, or set out, if it is JSON.
Drawn(p) == [p EXCEPT !.view = IF p.text = None THEN "empty" ELSE IF p.pretty /\ p.text.json THEN "pretty" ELSE "raw"]
NewPreview ==
    [address |-> None, sent |-> None, waits |-> FALSE, text |-> None, pretty |-> TRUE, enabled |-> FALSE, view |-> "hint"]

\* setRequest, of a tab that is new or open already.
Previewed(id, address) ==
    previews' = [previews EXCEPT ![id] = [(IF @ = None THEN NewPreview ELSE @) EXCEPT !.address = address]]
OpenApiPreviewTab(id) ==
    /\ body.is = "list" /\ body.endpoints[id] # None /\ Changing
    /\ Previewed(id, body.endpoints[id].address)
    /\ UNCHANGED <<stored, open, body, newRequest, loads, writes, ran, behind, nextLoad>>

ClosePreview(id) ==
    /\ previews[id] # None /\ previews' = [previews EXCEPT ![id] = None]
    /\ UNCHANGED <<stored, open, body, newRequest, loads, writes, ran, behind, nextLoad, changes>>

\* Mutated: the response that was there can still be looked at.
SentEnabled(p) == [p EXCEPT !.waits = TRUE, !.sent = p.address, !.view = "waiting"]
\* send; while it waits its button is disabled, and so is submitting the form.
Sent(p) == [p EXCEPT !.waits = TRUE, !.sent = p.address, !.enabled = FALSE, !.view = "waiting"]
Send(id) ==
    /\ previews[id] # None /\ Changing
    /\ ~previews[id].waits
    /\ previews' = [previews EXCEPT ![id] = Sent(@)]
    /\ UNCHANGED <<stored, open, body, newRequest, loads, writes, ran, behind, nextLoad>>

\* What comes back, or why nothing does, which is no JSON.
Answered(p, json) ==
    Drawn([p EXCEPT !.waits = FALSE, !.text = [of |-> p.sent, json |-> json], !.pretty = json, !.enabled = TRUE])
Answer(id, json) ==
    /\ previews[id] # None /\ previews[id].waits
    /\ previews' = [previews EXCEPT ![id] = Answered(@, json)]
    /\ UNCHANGED <<stored, open, body, newRequest, loads, writes, ran, behind, nextLoad, changes>>

\* The buttons Raw and Pretty.
Present(id, pretty) ==
    LET p == previews[id] IN
    /\ p # None /\ p.enabled
    /\ pretty => (p.text # None /\ p.text.json)
    /\ previews' = [previews EXCEPT ![id] = Drawn([@ EXCEPT !.pretty = pretty])]
    /\ UNCHANGED <<stored, open, body, newRequest, loads, writes, ran, behind, nextLoad, changes>>

-----------------------------------------------------------------------------
(* Writing *)

\* A request that writes, from the tab, from its Run, or from the dialog.
Write(kind, id, content) == [kind |-> kind, id |-> id, content |-> content, done |-> FALSE, tab |-> TRUE]

\* openPublishDialog: the settings are those of the parameters its SQL had when it was opened.
Publish(content) ==
    /\ Changing
    /\ \E id \in Endpoint :
          /\ stored[id] = None /\ \A w \in writes : w.id # id
          /\ writes' = writes \cup {Write("publish", id, content)}
    /\ UNCHANGED <<stored, open, body, newRequest, loads, previews, ran, behind, nextLoad>>

\* editEndpoint, of a row of the list.
EditEndpoint(id) ==
    /\ body.is = "list" /\ body.endpoints[id] # None
    /\ body' = [is |-> "editor", id |-> id, endpoint |-> body.endpoints[id], form |-> body.endpoints[id]]
    /\ newRequest' = FALSE
    /\ UNCHANGED <<stored, open, loads, writes, previews, ran, behind, nextLoad, changes>>

\* What is typed; the parameters shown stay those of the endpoint.
Fill(form) ==
    /\ body.is = "editor" /\ Changing /\ form # body.form
    /\ body' = [body EXCEPT !.form = form]
    /\ UNCHANGED <<stored, open, newRequest, loads, writes, previews, ran, behind, nextLoad>>
Fills ==
    \/ \E a \in Address : body.is = "editor" /\ Fill([body.form EXCEPT !.address = a])
    \/ \E s \in Sql : body.is = "editor" /\ Fill([body.form EXCEPT !.sql = s])
    \/ \E v \in Setting : body.is = "editor" /\ \E p \in DOMAIN body.form.parameters : Fill([body.form EXCEPT !.parameters[p] = v])

Cancel == body.is = "editor" /\ Reload /\ UNCHANGED <<stored, open, writes, previews, ran, changes>>

\* What a save sends: the parameters of the SQL as it is now, set as they are in the form.
Saved(form) ==
    [form EXCEPT !.parameters = [p \in Names[form.sql] |-> IF p \in DOMAIN form.parameters THEN form.parameters[p] ELSE "required"]]

\* save; its button is not disabled meanwhile.
Save(kind) ==
    /\ body.is = "editor" /\ Changing
    /\ writes' = writes \cup {Write(kind, body.id, Saved(body.form))}
    /\ UNCHANGED <<stored, open, body, newRequest, loads, previews, behind, nextLoad>>

\* Mutated: the parameters are not looked at.
HasUnsavedChangesOfText == body.form.address # body.endpoint.address \/ body.form.sql # body.endpoint.sql
HasUnsavedChanges == body.form # body.endpoint

\* Run calls what is stored: at once, or after a save.
Run ==
    /\ body.is = "editor"
    /\ IF HasUnsavedChanges
       THEN Save("run") /\ UNCHANGED ran
       ELSE /\ Changing
            /\ Previewed(body.id, body.endpoint.address)
            /\ ran' = [meant |-> Saved(body.form), called |-> body.endpoint]
            /\ UNCHANGED <<stored, open, body, newRequest, loads, writes, behind, nextLoad>>

Delete(id) ==
    /\ body.is = "list" /\ body.endpoints[id] # None /\ Changing
    /\ writes' = writes \cup {Write("delete", id, None)}
    /\ UNCHANGED <<stored, open, body, newRequest, loads, previews, ran, behind, nextLoad>>

\* The server.
ServeWrite(w) ==
    /\ ~w.done
    /\ stored' = [stored EXCEPT ![w.id] = w.content]
    /\ writes' = (writes \ {w}) \cup {[w EXCEPT !.done = TRUE]}
    /\ UNCHANGED <<open, body, newRequest, loads, previews, ran, behind, nextLoad, changes>>

\* Whatever was written, the list is fetched again: that of the tab that wrote, or of the one that
\* is open when a query was published.
Wrote(w) ==
    /\ w.done
    /\ writes' = writes \ {w}
    /\ IF open /\ (w.tab \/ w.kind = "publish") THEN Reload
       ELSE behind' = (open \/ behind) /\ UNCHANGED <<nextLoad, newRequest, body, loads>>
    /\ IF w.kind = "run"
       THEN Previewed(w.id, w.content.address) /\ ran' = [meant |-> w.content, called |-> w.content]
       ELSE UNCHANGED <<previews, ran>>
    /\ UNCHANGED <<stored, open, changes>>

\* A write that fails is told in its form or its dialog; it may have been carried out.
WriteFails(w) ==
    /\ writes' = writes \ {w} /\ behind' = (behind \/ w.done)
    /\ UNCHANGED <<stored, open, body, newRequest, loads, previews, ran, nextLoad, changes>>

-----------------------------------------------------------------------------

Init ==
    /\ stored \in Known
    /\ open = FALSE /\ body = [is |-> "nothing"] /\ newRequest = TRUE
    /\ loads = {} /\ writes = {} /\ previews = [id \in Endpoint |-> None]
    /\ ran = None /\ behind = FALSE /\ nextLoad = 0 /\ changes = 0

Next ==
    \/ OpenApisTab \/ CloseTab
    \/ \E l \in loads : ServeList(l) \/ ShowList(l) \/ LoadFails(l)
    \/ \E id \in Endpoint :
          \/ OpenApiPreviewTab(id) \/ ClosePreview(id) \/ Send(id)
          \/ \E b \in BOOLEAN : Answer(id, b) \/ Present(id, b)
          \/ EditEndpoint(id) \/ Delete(id)
    \/ \E content \in Drafts : Publish(content)
    \/ Fills \/ Cancel \/ Run
    \/ Save("save") /\ UNCHANGED ran
    \/ \E w \in writes : ServeWrite(w) \/ Wrote(w) \/ WriteFails(w)

Spec == Init /\ [][Next]_vars

-----------------------------------------------------------------------------
(* Properties *)

\* Once nothing is under way the list is what the server holds, whatever was published, saved and
\* deleted, unless an older answer came last, a write failed after it was carried out, or its tab
\* was closed and opened again before it ended.
ListIsCurrent ==
    body.is = "list" /\ loads = {} /\ writes = {} /\ ~behind => body.endpoints = stored

\* "New request" belongs to the list, and steps aside for the form of an endpoint.
ButtonFitsTheBody == ~behind => (newRequest <=> body.is # "editor")

\* What Run calls is what was in the form when it was pressed, parameters and all.
RunsWhatIsShown == ran # None => ran.called = ran.meant

\* While a request is under way nothing of an earlier response is shown, and what is shown after
\* it is its own.
ResponseIsOfItsRequest ==
    \A id \in Endpoint :
       LET p == previews[id] IN
       p # None => /\ p.waits <=> p.view = "waiting"
                   /\ p.view \in {"raw", "pretty"} => p.text.of = p.sent
                   /\ p.view = "pretty" => p.text.json
=============================================================================
