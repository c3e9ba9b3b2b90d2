--------------------------- MODULE ComponentDocument ---------------------------
(* The document of a component: the HTML file it is stored as, what the     *)
(* designer reads from it, and what is done to it there. The Code view      *)
(* shows the file and takes one in its place; controls are copied through a *)
(* file of their own, and a control that is renamed, or copied under        *)
(* another name, is followed by what names it.                              *)
(*                                                                          *)
(* A file is a tree of elements. The "data-" of an attribute is left out,   *)
(* and so are the properties that are written and read as another one is:   *)
(* settings stand for the colours, the classes, the regional formats and    *)
(* the box. A text is a sequence of pieces; markup in one is escaped a      *)
(* number of times, its level. The controls are kept as they are walked,    *)
(* each with the panel it is in.                                            *)
EXTENDS Naturals, FiniteSets, Sequences, SequencesExt, TLC

CONSTANTS None,
          Stored,      \* the files a component may be stored as
          Typed,       \* the files typed in the Code view
          PropsOf,     \* the properties a control of each kind may be given
          Sheets,      \* the stylesheets a person may write
          Formulas,    \* the formulas a property may be given
          Wanted,      \* the names a person may give
          Elsewhere,   \* the files copied in another program
          MaxControls, MaxSelected,
          MaxEdits,    \* of the document, its saves and its reopenings among them
          MaxCopies    \* that are made to be put down

VARIABLES doc, error, markup,   \* model.doc, .documentError and .documentMarkup
          mode, code,           \* the view, and the text of the Code view
          selection, cutFrom,
          clipboard, saved,
          asRead,               \* the document is as it was read
          edits, copies

vars == <<doc, error, markup, mode, code, selection, cutFrom, clipboard, saved, asRead, edits, copies>>

Schema == 2
Operations == {"add", "delete"}
Reserved == {"data", "component", "self", "true", "false", "null"}
Root == 0

-----------------------------------------------------------------------------
(* Names, texts and formulas *)

\* A name and the number it ends in, if any.
Called(stem, n) == [stem |-> stem, n |-> n]
NoName == Called("", 0)
Lower(name) == [name EXCEPT !.stem = IF @ = "A" THEN "a" ELSE @]
IsReserved(name) == name.n = 0 /\ name.stem \in Reserved

\* A piece of a text: a word or a rule, which may select a control by its name, or the comment
\* that says whose rules follow.
Piece(is, of, marked) == [is |-> is, of |-> of, marked |-> marked, level |-> 0]
Marker(name) == Piece("marker", name, FALSE)
Escaped(t) == [i \in DOMAIN t |-> IF t[i].marked THEN [t[i] EXCEPT !.level = @ + 1] ELSE t[i]]
Unescaped(t) == [i \in DOMAIN t |-> IF t[i].level > 0 THEN [t[i] EXCEPT !.level = @ - 1] ELSE t[i]]

\* A formula: the names at the head of its paths, and whether it can be read.
Formula(names, broken) == [names |-> names, broken |-> broken]

\* freeName and uniqueName: the least number that makes the name a new one.
Numbered(taken, stem, first) ==
    LET free == {n \in first..(first + Cardinality(taken)) : Lower(Called(stem, n)) \notin taken}
    IN  Called(stem, CHOOSE n \in free : \A m \in free : n <= m)
FreeName(taken, wanted, type) == Numbered(taken, IF wanted.stem = "" THEN type ELSE wanted.stem, 2)
NamesIn(controls) == {Lower(c.name) : c \in ToSet(controls)}
UniqueName(controls, type) == Numbered(NamesIn(controls), type, 1)

-----------------------------------------------------------------------------
(* Elements *)

Present(attrs) == [a \in {a \in DOMAIN attrs : attrs[a] # None} |-> attrs[a]]
Element(tag, attrs, text, kids) == [tag |-> tag, attrs |-> Present(attrs), text |-> text, kids |-> kids]
NoAttrs == [a \in {} |-> None]
Plainly(tag, text) == Element(tag, NoAttrs, text, <<>>)
Has(e, a) == a \in DOMAIN e.attrs
Attr(e, a) == IF Has(e, a) THEN e.attrs[a] ELSE ""
When(p, v) == IF p THEN v ELSE None
Said(s) == When(s # "", s)
Tagged(kids, tag) == SelectSeq(kids, LAMBDA e : e.tag = tag)

RECURSIVE Descendants(_)
Descendants(e) == FlattenSeq([i \in DOMAIN e.kids |-> <<e.kids[i]>> \o Descendants(e.kids[i])])
TextContent(e) == FlattenSeq(<<e.text>> \o [i \in DOMAIN Descendants(e) |-> Descendants(e)[i].text])
Texts(kids) == [i \in DOMAIN kids |-> TextContent(kids[i])]

\* How a text leaves and enters a tree: serialize escapes it and drops what stands beside
\* elements, except in markup kept as it came; outerHTML escapes it and the parser reads it back,
\* both of them leaving that of a style element alone.
RECURSIVE Turned(_, _)
Turned(how, e) ==
    IF e.tag = "gridlet-raw" THEN e.attrs.raw
    ELSE [e EXCEPT !.kids = [i \in DOMAIN e.kids |-> Turned(how, e.kids[i])],
                   !.text = CASE how = "serialize" -> IF e.kids = <<>> THEN Escaped(@) ELSE <<>>
                              [] e.tag = "style" -> @
                              [] how = "outerHTML" -> Escaped(@)
                              [] how = "parse" -> Unescaped(@)]

-----------------------------------------------------------------------------
(* toHtml *)

\* What is set is written under its attribute.
RootSettings == [locale |-> "locale", tip |-> "title", fill |-> "fill-light", margin |-> "style.margin"]
ControlSettings == [tip |-> "title", fill |-> "fill-light"]
WriteSettings(table, settings) ==
    [a \in {table[k] : k \in DOMAIN table} |-> Said(settings[CHOOSE k \in DOMAIN table : table[k] = a])]
Flags == {"isolated", "scrollbars", "resizable"}
WriteFlags(flags) == [f \in Flags |-> When(f \in flags, "")]

CssSize(size, fallback) == CASE size = "300" -> "300px" [] size \in {"", "url(x)"} -> fallback [] OTHER -> size

ElementFor(type, p) ==
    CASE type = "label" -> Plainly("span", p.text)
      [] type = "textbox" ->
            Element(IF p.multiline THEN "textarea" ELSE "input",
                    [type |-> When(~p.multiline, "text"), placeholder |-> Said(p.placeholder),
                     readonly |-> When(p.readOnly, ""), format |-> Said(p.format), mask |-> Said(p.inputMask)], <<>>, <<>>)
      [] type = "textarea" -> Element("textarea", [role |-> type, placeholder |-> Said(p.placeholder)], <<>>, <<>>)
      [] type = "checkbox" ->
            Element("label", [role |-> type], <<>>,
                    <<Element("input", [type |-> "checkbox"], <<>>, <<>>), Plainly("span", p.text)>>)
      [] type = "select" ->
            Element("select", NoAttrs, <<>>, [i \in DOMAIN p.options |-> Plainly("option", p.options[i])])
      [] type = "button" -> Element("button", [type |-> "button", action |-> Said(p.action)], p.text, <<>>)
      [] type = "pager" ->
            Element("div", [role |-> type, edges |-> When(p.edges, ""), position |-> When(p.position, "")], <<>>, <<>>)
      [] type = "grid" ->
            LET row == Element("tr", NoAttrs, <<>>, [i \in DOMAIN p.columns |-> Plainly("th", p.columns[i])])
            IN  Element("table", [role |-> type, noheader |-> When(~p.header, "")], <<>>,
                        IF p.columns = <<>> THEN <<>> ELSE <<Element("thead", NoAttrs, <<>>, <<row>>)>>)
      [] type = "foreign" -> Element("gridlet-raw", [raw |-> p.html], <<>>, <<>>)
      [] type = "panel" ->
            Element("div", [role |-> type], <<>>,
                    IF p.title = <<>> THEN <<>> ELSE <<Element("div", [role |-> "panel-title"], p.title, <<>>)>>)

\* writeControl: an element with its name, its id, its place, its settings and its formula, and
\* in a panel what the panel holds.
ControlsIn(controls, id) == SelectSeq(controls, LAMBDA c : c.in = id)
RECURSIVE WriteControl(_, _)
WriteControl(c, controls) ==
    LET e == ElementFor(c.type, c.props)
        own == [name |-> When(c.name # NoName, c.name), id |-> Said(c.elementId), style |-> c.at, bind |-> c.bind]
        held == ControlsIn(controls, c.id)
    IN  [e EXCEPT !.attrs = @ @@ Present(own @@ WriteSettings(ControlSettings, c.settings)),
                  !.kids = @ \o [i \in DOMAIN held |-> WriteControl(held[i], controls)]]

StyleSheetFor(d) ==
    d.css \o FlattenSeq([i \in DOMAIN d.controls |->
        IF d.controls[i].css = <<>> THEN <<>> ELSE <<Marker(d.controls[i].name)>> \o d.controls[i].css])

WriteModule(m) == Element("gridlet-code", [src |-> m.module, run |-> Said(m.class)], <<>>, <<>>)
WriteSource(s) ==
    Element("gridlet-source", [href |-> s.route], <<>>,
            SetToSeq({Element("param", [name |-> p, value |-> s.parameters[p]], <<>>, <<>>) : p \in DOMAIN s.parameters}))
WriteParameter(p, m) ==
    LET literal == m.control = NoName
    IN  Element("param", [name |-> p, control |-> When(~literal, m.control), null |-> When(literal /\ m.value = None, ""),
                          value |-> When(literal, m.value), type |-> When(literal, m.type)], <<>>, <<>>)
WriteAction(op, a) ==
    Element("gridlet-action", [name |-> op, method |-> a.method, href |-> a.route], <<>>,
            SetToSeq({WriteParameter(p, a.parameters[p]) : p \in DOMAIN a.parameters}))

\* An operation whose endpoint was taken away keeps its key, with nothing in it.
Declared(d) == {op \in DOMAIN d.actions : d.actions[op] # None}
ToHtml(d) ==
    LET top == ControlsIn(d.controls, Root)
        operations == SelectSeq(<<"add", "delete">>, LAMBDA op : op \in Declared(d))
        sheet == StyleSheetFor(d)
        own == [gridlet |-> Schema, style |-> CssSize(d.width, "720px"), bind |-> d.bind]
        kids == [i \in DOMAIN d.modules |-> WriteModule(d.modules[i])]
            \o (IF d.source = None THEN <<>> ELSE <<WriteSource(d.source)>>)
            \o [i \in DOMAIN operations |-> WriteAction(operations[i], d.actions[operations[i]])]
            \o (IF sheet = <<>> THEN <<>> ELSE <<Plainly("style", sheet)>>)
            \o [i \in DOMAIN top |-> WriteControl(top[i], d.controls)]
    IN  Turned("serialize", Element("div", own @@ WriteFlags(d.flags) @@ WriteSettings(RootSettings, d.settings), <<>>, kids))

-----------------------------------------------------------------------------
(* fromHtml *)

Operation(name) == CASE name \in {"add", "Add"} -> "add" [] name = "delete" -> name [] OTHER -> ""
IsSafe(route) == route \in {"r", "/r", "s"}
NormalizeRoute(route) == IF route = "/r" THEN "r" ELSE route
UpperMethod(method) == IF method = "post" THEN "POST" ELSE method
LowerParameter(p) == IF p = "P" THEN "p" ELSE p

\* typedLiteral: a value without a type is a text; an integer is written as the number it is.
IsLiteral(e) ==
    \/ ~Has(e, "type")
    \/ e.attrs.type = "boolean" /\ e.attrs.value \in {"true", "false"}
    \/ e.attrs.type \in {"number", "integer"} /\ e.attrs.value = "7"
TypeRead(e) == IF Attr(e, "type") = "integer" THEN "number" ELSE IF Has(e, "type") THEN e.attrs.type ELSE None

\* actionParameter: a parameter has a good name and exactly one mapping.
Mappings(e) == {a \in {"control", "value", "null"} : Has(e, a)}
IsParameter(e) ==
    /\ Attr(e, "name") \in {"p", "P", "q"}
    /\ \/ Mappings(e) = {"control"} /\ e.attrs.control # NoName
       \/ Mappings(e) = {"null"}
       \/ Mappings(e) = {"value"} /\ IsLiteral(e)
Mapping(control, value, type) == [control |-> control, value |-> value, type |-> type]
MappingRead(e) ==
    CASE Has(e, "control") -> Mapping(e.attrs.control, None, None)
      [] Has(e, "null") -> Mapping(NoName, None, None)
      [] OTHER -> Mapping(NoName, e.attrs.value, TypeRead(e))

Distinct(s, Key(_)) == \A i, j \in DOMAIN s : i # j => Key(s[i]) # Key(s[j])
Parameters(e) == Tagged(e.kids, "param")
IsAction(e) ==
    /\ Attr(e, "method") # "" /\ IsSafe(Attr(e, "href"))
    /\ \A i \in DOMAIN Parameters(e) : IsParameter(Parameters(e)[i])
    /\ Distinct(Parameters(e), LAMBDA p : LowerParameter(p.attrs.name))
Actions(root) == SelectSeq(Tagged(root.kids, "gridlet-action"), LAMBDA e : Operation(Attr(e, "name")) # "")
\* The first data source, if it says where it is.
First(s) == IF s = <<>> THEN <<>> ELSE <<Head(s)>>
Sources(root) == SelectSeq(First(Tagged(root.kids, "gridlet-source")), LAMBDA e : Attr(e, "href") # "")

\* What is read, and not refused.
Readable(root) ==
    /\ Has(root, "gridlet") /\ root.attrs.gridlet <= Schema
    /\ \A i \in DOMAIN Sources(root) : IsSafe(Attr(Sources(root)[i], "href"))
    /\ \A i \in DOMAIN Actions(root) : IsAction(Actions(root)[i])
    /\ Distinct(Actions(root), LAMBDA e : Operation(e.attrs.name))

ReadSettings(table, e) == [k \in DOMAIN table |-> Attr(e, table[k])]
AttrOrNone(e, a) == IF Has(e, a) THEN e.attrs[a] ELSE None
NameRead(e) == IF Has(e, "name") THEN e.attrs.name ELSE NoName

\* readStyleSheet: what stands before the first marker is the component's, and what follows the
\* last one with a control's name is the control's.
Markers(sheet) == {i \in DOMAIN sheet : sheet[i].is = "marker"}
NextMarker(sheet, i) == LET after == {j \in Markers(sheet) : j > i} IN IF after = {} THEN Len(sheet) + 1 ELSE CHOOSE j \in after : \A k \in after : j <= k
ComponentCss(sheet) == SubSeq(sheet, 1, NextMarker(sheet, 0) - 1)
CssByControl(sheet, name) ==
    LET own == {i \in Markers(sheet) : sheet[i].of = name}
        last == CHOOSE i \in own : \A j \in own : j <= i
    IN  IF own = {} THEN <<>> ELSE SubSeq(sheet, last + 1, NextMarker(sheet, last) - 1)

Kinds == {"label", "textbox", "textarea", "checkbox", "select", "button", "pager", "grid", "panel", "foreign"}
KindOf(e) ==
    CASE e.tag \in {"link", "style", "param", "gridlet-source", "gridlet-code", "gridlet-action"} -> ""
      [] Attr(e, "role") \in Kinds -> Attr(e, "role")
      [] e.tag \in {"textarea", "input"} -> "textbox"
      [] e.tag = "span" -> "label"
      [] e.tag \in {"select", "button"} -> e.tag
      [] OTHER -> "foreign"

\* The text of the first of the elements.
FirstText(found) == IF found = <<>> THEN <<>> ELSE TextContent(Head(found))
ReadProps(e, type) ==
    CASE type = "label" -> [text |-> TextContent(e)]
      [] type = "textbox" ->
            [placeholder |-> Attr(e, "placeholder"), multiline |-> e.tag = "textarea", readOnly |-> Has(e, "readonly"),
             format |-> Attr(e, "format"), inputMask |-> Attr(e, "mask")]
      [] type = "textarea" -> [placeholder |-> Attr(e, "placeholder")]
      [] type = "checkbox" -> [text |-> FirstText(Tagged(Descendants(e), "span"))]
      [] type = "select" -> [options |-> Texts(Tagged(Descendants(e), "option"))]
      [] type = "button" -> [text |-> TextContent(e), action |-> Attr(e, "action")]
      [] type = "pager" -> [edges |-> Has(e, "edges"), position |-> Has(e, "position")]
      [] type = "panel" -> [title |-> FirstText(SelectSeq(Descendants(e), LAMBDA x : Attr(x, "role") = "panel-title"))]
      [] type = "grid" -> [columns |-> Texts(Tagged(Descendants(e), "th")), header |-> ~Has(e, "noheader")]
      [] type = "foreign" -> [html |-> Turned("outerHTML", e)]

\* readControl, for the children of an element: the controls in the order they are walked, the
\* first of them numbered n.
RECURSIVE ReadControls(_, _, _, _)
ReadControls(kids, in, sheet, n) ==
    IF kids = <<>> THEN <<>>
    ELSE LET e == Head(kids)
             type == KindOf(e)
             control == [id |-> n, in |-> in, type |-> type, name |-> NameRead(e), props |-> ReadProps(e, type),
                         at |-> IF Has(e, "style") THEN e.attrs.style ELSE 0, bind |-> AttrOrNone(e, "bind"),
                         css |-> IF type = "foreign" THEN <<>> ELSE CssByControl(sheet, NameRead(e)),
                         elementId |-> Attr(e, "id"), settings |-> ReadSettings(ControlSettings, e), invalid |-> ""]
             held == ReadControls(SelectSeq(e.kids, LAMBDA x : Attr(x, "role") # "panel-title"), n, sheet, n + 1)
             own == <<control>> \o (IF type = "panel" THEN held ELSE <<>>)
         IN  IF type = "" THEN ReadControls(Tail(kids), in, sheet, n)
             ELSE own \o ReadControls(Tail(kids), in, sheet, n + Len(own))

\* Mutated: an action is kept although it is not declared.
StrandedNever(controls, declared) == controls

\* A button's action that is not declared is shown as an invalid one and no longer carried.
Stranded(controls, declared) ==
    [i \in DOMAIN controls |->
        LET c == controls[i] IN
        IF c.type # "button" THEN c
        ELSE IF c.props.action = "" \/ Operation(c.props.action) \in declared THEN c
        ELSE [c EXCEPT !.invalid = c.props.action, !.props.action = ""]]

FromHtml(file) ==
    LET root == Turned("parse", file)
        sheets == Tagged(root.kids, "style")
        sheet == IF sheets = <<>> THEN <<>> ELSE sheets[1].text
        modules == SelectSeq(Tagged(root.kids, "gridlet-code"), LAMBDA e : Attr(e, "src") # "")
        ActionOf(op) == CHOOSE e \in ToSet(Actions(root)) : Operation(e.attrs.name) = op
        declared == {Operation(e.attrs.name) : e \in ToSet(Actions(root))}
        ParametersOf(e) == [p \in {x.attrs.name : x \in ToSet(Parameters(e))} |->
                               MappingRead(CHOOSE x \in ToSet(Parameters(e)) : x.attrs.name = p)]
        Given(e) == [p \in {x.attrs.name : x \in ToSet(Tagged(e.kids, "param"))} |->
                        Attr(CHOOSE x \in ToSet(e.kids) : Attr(x, "name") = p, "value")]
    IN  [width |-> CssSize(Attr(root, "style"), "720px"), flags |-> {f \in Flags : Has(root, f)},
         settings |-> ReadSettings(RootSettings, root), bind |-> AttrOrNone(root, "bind"),
         modules |-> [i \in DOMAIN modules |-> [module |-> modules[i].attrs.src, class |-> Attr(modules[i], "run")]],
         source |-> IF Sources(root) = <<>> THEN None
                    ELSE [route |-> NormalizeRoute(Attr(Sources(root)[1], "href")), parameters |-> Given(Sources(root)[1])],
         actions |-> [op \in declared |-> [route |-> NormalizeRoute(ActionOf(op).attrs.href),
                                           method |-> UpperMethod(ActionOf(op).attrs.method),
                                           parameters |-> ParametersOf(ActionOf(op))]],
         css |-> ComponentCss(sheet),
         controls |-> Stranded(ReadControls(root.kids, Root, sheet, 1), declared)]

-----------------------------------------------------------------------------
(* The document in the designer *)

\* A new component's: nothing is set but its size and its margin.
NewDocument ==
    [width |-> "720px", flags |-> {}, settings |-> [k \in DOMAIN RootSettings |-> IF k = "margin" THEN "1em" ELSE ""],
     bind |-> None, modules |-> <<>>, source |-> None, actions |-> [op \in {} |-> None], css |-> <<>>, controls |-> <<>>]

IdsOf(controls) == {c.id : c \in ToSet(controls)}
ControlOf(d, id) == CHOOSE c \in ToSet(d.controls) : c.id = id
FindParentList(d, id) == ControlOf(d, id).in
\* A list is that of the component or of a panel that is still in it.
ListInDocument(list, controls) == list = Root \/ list \in IdsOf(controls)

\* Whether a control is, at some depth, in the panel.
RECURSIVE Under(_, _, _)
Under(controls, c, panel) ==
    /\ c.in # Root
    /\ c.in = panel \/ \E p \in ToSet(controls) : p.id = c.in /\ Under(controls, p, panel)

\* Pushed onto a list, controls are walked after all that the panel of that list holds.
Pushed(controls, list, new) ==
    LET held == {i \in DOMAIN controls : list = Root \/ controls[i].id = list \/ Under(controls, controls[i], list)}
        last == IF held = {} THEN 0 ELSE CHOOSE i \in held : \A j \in held : j <= i
    IN  SubSeq(controls, 1, last) \o new \o SubSeq(controls, last + 1, Len(controls))

\* The controls given handles that no control of the document has.
WithNewIds(new, list, used) ==
    LET fresh == SetToSortSeq(1..(Cardinality(used) + Len(new)) \ used, <)
        Handle(n) == IF n = Root THEN list ELSE fresh[n]
    IN  [i \in DOMAIN new |-> [new[i] EXCEPT !.id = Handle(@), !.in = Handle(@)]]

\* renameControlReferences: formulas name a control whatever its capitals, stylesheets and
\* parameters exactly; what cannot be read is left, and a name that is cleared leaves all.
RenameInExpression(f, from, to) ==
    IF f = None THEN f
    ELSE IF f.broken THEN f
    ELSE [f EXCEPT !.names = [i \in DOMAIN @ |-> IF Lower(@[i]) = Lower(from) THEN to ELSE @[i]]]
RenameInCss(css, from, to) == [i \in DOMAIN css |-> IF css[i].is = "rule" /\ css[i].of = from THEN [css[i] EXCEPT !.of = to] ELSE css[i]]
RenameInMapping(m, from, to) == IF m.control = from THEN [m EXCEPT !.control = to] ELSE m
RenameInAction(a, from, to) ==
    IF a = None THEN a
    ELSE [a EXCEPT !.parameters = [p \in DOMAIN @ |-> RenameInMapping(@[p], from, to)]]
\* Mutated: the parameters of actions are forgotten.
RenameInDrawing(d, from, to) ==
    LET Followed(f) == IF IsReserved(Lower(from)) THEN f ELSE RenameInExpression(f, from, to)
    IN  IF from = NoName \/ to = NoName THEN d
        ELSE [d EXCEPT !.bind = Followed(@), !.css = RenameInCss(@, from, to),
                       !.controls = [i \in DOMAIN @ |-> [@[i] EXCEPT !.bind = Followed(@), !.css = RenameInCss(@, from, to)]]]
RenameControlReferences(d, from, to) ==
    LET Followed(f) == IF IsReserved(Lower(from)) THEN f ELSE RenameInExpression(f, from, to)
    IN  IF from = NoName \/ to = NoName THEN d
        ELSE [d EXCEPT !.bind = Followed(@), !.css = RenameInCss(@, from, to),
                       !.actions = [op \in DOMAIN @ |-> RenameInAction(@[op], from, to)],
                       !.controls = [i \in DOMAIN @ |-> [@[i] EXCEPT !.bind = Followed(@), !.css = RenameInCss(@, from, to)]]]

\* selectionMarkup: what is selected, without what is in a selected panel already, and the
\* declarations its buttons name.
WithoutNested(d, ids) == SelectSeq(ids, LAMBDA id : ~\E p \in ToSet(ids) : Under(d.controls, ControlOf(d, id), p))
SelectionMarkup(d, ids) ==
    LET tops == WithoutNested(d, ids)
        Whole(id) == SelectSeq(d.controls, LAMBDA c : c.id = id \/ Under(d.controls, c, id))
        copied == FlattenSeq([i \in DOMAIN tops |->
                     [j \in DOMAIN Whole(tops[i]) |-> IF Whole(tops[i])[j].id = tops[i] THEN [Whole(tops[i])[j] EXCEPT !.in = Root] ELSE Whole(tops[i])[j]]])
        named == {Operation(c.props.action) : c \in {c \in ToSet(copied) : c.type = "button"}}
    IN  ToHtml([NewDocument EXCEPT !.actions = [op \in named \cap DOMAIN d.actions |-> d.actions[op]], !.controls = copied])

\* Mutated: a new name is not picked against those of the copies still to come.
SettleAmongClaimed(s, i) ==
    LET c == s.copied.controls[i]
        fresh == FreeName(s.claimed, c.name, c.type)
        kept == [s EXCEPT !.copied.controls[i].elementId = IF @ \in s.ids THEN "" ELSE @,
                          !.ids = @ \cup ({c.elementId} \ {""})]
    IN  IF c.name = NoName THEN kept
        ELSE IF Lower(c.name) \notin s.claimed THEN [kept EXCEPT !.claimed = @ \cup {Lower(c.name)}]
        ELSE [kept EXCEPT !.copied = [RenameControlReferences(@, c.name, fresh) EXCEPT !.controls[i].name = fresh],
                          !.claimed = @ \cup {Lower(fresh)}]

\* controlsFromMarkup, for which an operation that was taken away counts as declared: each
\* control in turn gives up an id the document has, and takes a new name if the document, or a
\* copy before it, answers to its own; what the copies say follows.
Settle(s, i) ==
    LET c == s.copied.controls[i]
        fresh == FreeName(s.blocked, c.name, c.type)
        kept == [s EXCEPT !.copied.controls[i].elementId = IF @ \in s.ids THEN "" ELSE @,
                          !.ids = @ \cup ({c.elementId} \ {""})]
    IN  IF c.name = NoName THEN kept
        ELSE IF Lower(c.name) \notin s.claimed THEN [kept EXCEPT !.claimed = @ \cup {Lower(c.name)}]
        ELSE [kept EXCEPT !.copied = [RenameControlReferences(@, c.name, fresh) EXCEPT !.controls[i].name = fresh],
                          !.claimed = @ \cup {Lower(fresh)}, !.blocked = @ \cup {Lower(fresh)}]
ControlsFromMarkup(d, file) ==
    LET parsed == [FromHtml(file) EXCEPT !.actions = [op \in {} |-> None]]
        claimed == NamesIn(d.controls)
        start == [copied |-> parsed, claimed |-> claimed, blocked |-> claimed \cup NamesIn(parsed.controls),
                  ids |-> {c.elementId : c \in ToSet(d.controls)} \ {""}]
    IN  IF file = None THEN <<>>
        ELSE IF ~Readable(Turned("parse", file)) THEN <<>>
        ELSE Stranded(FoldLeft(Settle, start, [i \in DOMAIN parsed.controls |-> i]).copied.controls, DOMAIN d.actions)

\* Off what is sitting where a copy would land; a step of it is two lines of the grid.
MaxOffset == 20
Cascade(new, siblings) ==
    LET Free(offset) == \A c \in ToSet(ControlsIn(new, Root)) : \A s \in ToSet(siblings) : s.at # c.at + offset
        offset == CHOOSE o \in 0..MaxOffset : (Free(o) \/ o = MaxOffset) /\ \A n \in 0..o - 1 : ~Free(n)
    IN  [i \in DOMAIN new |-> IF new[i].in = Root THEN [new[i] EXCEPT !.at = @ + offset] ELSE new[i]]

PasteTarget == IF selection # <<>> THEN FindParentList(doc, selection[1]) ELSE IF cutFrom # None THEN cutFrom ELSE Root

PasteControls(file) ==
    LET new == ControlsFromMarkup(doc, file)
        list == PasteTarget
        placed == WithNewIds(Cascade(new, ControlsIn(doc.controls, list)), list, IdsOf(doc.controls))
    IN  /\ mode = "design" /\ ~error /\ new # <<>>
        /\ Len(doc.controls) + Len(new) <= MaxControls
        /\ doc' = [doc EXCEPT !.controls = Pushed(@, list, placed)]
        /\ selection' = [i \in DOMAIN ControlsIn(placed, list) |-> ControlsIn(placed, list)[i].id]
        /\ cutFrom' = None /\ asRead' = FALSE
        /\ UNCHANGED <<error, markup, mode, code, clipboard, saved, edits>>

-----------------------------------------------------------------------------
(* What a person does *)

\* buildDesigner: a stored file that is refused is kept for the Code view to repair.
Opened(file) ==
    IF Readable(Turned("parse", file)) THEN [doc |-> FromHtml(file), error |-> FALSE, markup |-> None]
    ELSE [doc |-> NewDocument, error |-> TRUE, markup |-> file]

Init ==
    /\ saved \in Stored
    /\ doc = Opened(saved).doc /\ error = Opened(saved).error /\ markup = Opened(saved).markup
    /\ mode = "design" /\ code = None /\ selection = <<>> /\ cutFrom = None /\ clipboard = None
    /\ asRead = TRUE /\ edits = 0 /\ copies = 0

Reopen ==
    /\ edits < MaxEdits /\ edits' = edits + 1
    /\ doc' = Opened(saved).doc /\ error' = Opened(saved).error /\ markup' = Opened(saved).markup
    /\ mode' = "design" /\ code' = None /\ selection' = <<>> /\ cutFrom' = None /\ asRead' = TRUE
    /\ UNCHANGED <<clipboard, saved, copies>>

\* saveComponent, with an answer that comes at once.
Save ==
    /\ ~error /\ edits < MaxEdits
    /\ saved' = ToHtml(doc) /\ edits' = edits + 1
    /\ UNCHANGED <<doc, error, markup, mode, code, selection, cutFrom, clipboard, asRead, copies>>

\* enterMode and showDocument.
ShowCode ==
    /\ mode = "design"
    /\ mode' = "code" /\ selection' = <<>>
    /\ code' = IF markup # None THEN markup ELSE ToHtml(doc)
    /\ UNCHANGED <<doc, error, markup, cutFrom, clipboard, saved, asRead, edits, copies>>

ShowDesign ==
    /\ mode = "code"
    /\ mode' = "design" /\ code' = None
    /\ UNCHANGED <<doc, error, markup, selection, cutFrom, clipboard, saved, asRead, edits, copies>>

\* documentEdited: what is read is the component; until then the last one that was is kept.
DocumentEdited(file) ==
    /\ mode = "code" /\ file # code /\ edits < MaxEdits
    /\ edits' = edits + 1 /\ code' = file
    /\ IF Readable(Turned("parse", file))
       THEN /\ doc' = FromHtml(file) /\ error' = FALSE /\ markup' = None
            /\ selection' = <<>> /\ cutFrom' = None /\ asRead' = TRUE
       ELSE error' = TRUE /\ markup' = file /\ UNCHANGED <<doc, selection, cutFrom, asRead>>
    /\ UNCHANGED <<mode, clipboard, saved, copies>>

\* What is typed: another file, or this one without one of the elements of its root.
Type ==
    \/ \E file \in Typed : DocumentEdited(file)
    \/ code # None /\ \E i \in DOMAIN code.kids : DocumentEdited([code EXCEPT !.kids = RemoveAt(@, i)])

Select(id, add) ==
    /\ mode = "design" /\ ~error /\ id \in IdsOf(doc.controls)
    /\ ControlOf(doc, id).type # "foreign"
    /\ selection' = IF ~add THEN <<id>>
                    ELSE IF id \in ToSet(selection) THEN SelectSeq(selection, LAMBDA other : other # id)
                    ELSE Append(selection, id)
    /\ Len(selection') <= MaxSelected
    /\ UNCHANGED <<doc, error, markup, mode, code, cutFrom, clipboard, saved, asRead, edits, copies>>

SelectNothing ==
    /\ selection' = <<>> /\ cutFrom' = None
    /\ UNCHANGED <<doc, error, markup, mode, code, clipboard, saved, asRead, edits, copies>>

SelectAll ==
    /\ mode = "design" /\ ~error /\ doc.controls # <<>>
    /\ selection' = [i \in DOMAIN doc.controls |-> doc.controls[i].id]
    /\ UNCHANGED <<doc, error, markup, mode, code, cutFrom, clipboard, saved, asRead, edits, copies>>

Copied == copies < MaxCopies /\ copies' = copies + 1 /\ clipboard' = SelectionMarkup(doc, selection)
CanCopy == mode = "design" /\ ~error /\ selection # <<>>
Copy ==
    /\ CanCopy /\ Copied /\ cutFrom' = None
    /\ UNCHANGED <<doc, error, markup, mode, code, selection, saved, asRead, edits>>

\* A component is copied somewhere else.
CopyElsewhere ==
    /\ clipboard' \in Elsewhere /\ copies < MaxCopies /\ copies' = copies + 1
    /\ UNCHANGED <<doc, error, markup, mode, code, selection, cutFrom, saved, asRead, edits>>

\* deleteSelection: what is in a deleted panel goes with it.
Kept(ids) == SelectSeq(doc.controls, LAMBDA c : c.id \notin ids /\ ~\E p \in ids : Under(doc.controls, c, p))
Deleted ==
    /\ CanCopy /\ edits < MaxEdits
    /\ doc' = [doc EXCEPT !.controls = Kept(ToSet(selection))]
    /\ selection' = <<>> /\ asRead' = FALSE /\ edits' = edits + 1
    /\ UNCHANGED <<error, markup, mode, code, saved>>
\* A list that goes with its panel is in the document no more.
Remaining(list) == IF list = None THEN None ELSE When(ListInDocument(list, Kept(ToSet(selection))), list)
Delete == Deleted /\ cutFrom' = Remaining(cutFrom) /\ UNCHANGED <<clipboard, copies>>
Cut == Deleted /\ Copied /\ cutFrom' = Remaining(FindParentList(doc, selection[1]))

Paste == PasteControls(clipboard) /\ UNCHANGED copies
Duplicate ==
    /\ selection # <<>> /\ copies < MaxCopies /\ copies' = copies + 1
    /\ PasteControls(SelectionMarkup(doc, selection))

\* The edits of the canvas and of the panel beside it.
Change(d) ==
    /\ mode = "design" /\ ~error /\ edits < MaxEdits /\ d # doc
    /\ doc' = d /\ asRead' = FALSE /\ edits' = edits + 1
    /\ UNCHANGED <<error, markup, mode, code, clipboard, saved, copies>>
Indexes == DOMAIN doc.controls
Plain(i) == doc.controls[i].type # "foreign"

\* placeControl, in the component or in a panel, off what sits there.
Place(type, props, list) ==
    LET siblings == ToSet(ControlsIn(doc.controls, list))
        at == CHOOSE n \in 0..MaxControls : (\A s \in siblings : s.at # n) /\ \A m \in 0..n - 1 : \E s \in siblings : s.at = m
        new == [id |-> 1, in |-> Root, type |-> type, name |-> UniqueName(doc.controls, type), props |-> props, at |-> at,
                bind |-> None, css |-> <<>>, elementId |-> "", settings |-> [k \in DOMAIN ControlSettings |-> ""], invalid |-> ""]
        placed == WithNewIds(<<new>>, list, IdsOf(doc.controls))
    IN  /\ Len(doc.controls) < MaxControls
        /\ Change([doc EXCEPT !.controls = Pushed(@, list, placed)])
        /\ selection' = <<placed[1].id>> /\ UNCHANGED cutFrom
Panels == {Root} \cup {c.id : c \in {c \in ToSet(doc.controls) : c.type = "panel"}}

SetControl(i, c) == Plain(i) /\ Change([doc EXCEPT !.controls[i] = c]) /\ UNCHANGED <<selection, cutFrom>>
SetDocument(d) == Change(d) /\ UNCHANGED <<selection, cutFrom>>
Edit ==
    \/ \E i \in Indexes, type \in DOMAIN PropsOf \ {"button"} :
          \E p \in PropsOf[type] : doc.controls[i].type = type /\ SetControl(i, [doc.controls[i] EXCEPT !.props = p])
    \/ \E i \in Indexes, css \in Sheets : SetControl(i, [doc.controls[i] EXCEPT !.css = css])
    \/ \E i \in Indexes, f \in Formulas : SetControl(i, [doc.controls[i] EXCEPT !.bind = f])
    \/ \E i \in Indexes : SetControl(i, [doc.controls[i] EXCEPT !.settings = [k \in DOMAIN @ |-> "v"], !.elementId = "e"])
    \/ \E css \in Sheets :
          SetDocument([doc EXCEPT !.css = css, !.flags = Flags, !.settings = [k \in DOMAIN @ |-> "v"],
                                  !.modules = <<[module |-> "m", class |-> "C"]>>,
                                  !.source = [route |-> "s", parameters |-> [p \in {"p"} |-> "v"]]])

\* commitName, unless the name is refused.
Refused(i, to) ==
    /\ to # NoName
    /\ \/ to.stem = "no name" \/ IsReserved(Lower(to))
       \/ \E j \in Indexes \ {i} : Lower(doc.controls[j].name) = Lower(to)
CommitName(i, to) ==
    LET from == doc.controls[i].name
    IN  /\ Plain(i) /\ to # from /\ ~Refused(i, to)
        /\ Change([RenameControlReferences(doc, from, to) EXCEPT !.controls[i].name = to])
        /\ UNCHANGED <<selection, cutFrom>>

\* actionEditors: an endpoint is chosen, or none, which the buttons of the operation follow.
ChooseEndpoint(op) ==
    SetDocument([doc EXCEPT !.actions = (op :> [route |-> "r", method |-> "POST", parameters |-> [p \in {} |-> None]]) @@ @])
WithdrawEndpoint(op) ==
    /\ op \in Declared(doc)
    /\ SetDocument([doc EXCEPT !.actions[op] = None,
          !.controls = [i \in DOMAIN @ |-> IF @[i].type # "button" THEN @[i]
                                           ELSE IF Operation(@[i].props.action) # op THEN @[i]
                                           ELSE [@[i] EXCEPT !.props.action = ""]]])

\* setActionMapping: a control, by its name as it is then, or a literal, or nothing.
Named == {c.name : c \in {c \in ToSet(doc.controls) : c.type \in {"textbox", "textarea", "checkbox", "select"}}} \ {NoName}
MapParameter(op, m) ==
    /\ op \in Declared(doc)
    /\ LET others == {p \in DOMAIN doc.actions[op].parameters : LowerParameter(p) # "p"}
       IN  SetDocument([doc EXCEPT !.actions[op].parameters =
              [p \in others \cup (IF m = None THEN {} ELSE {"p"}) |-> IF p = "p" THEN m ELSE @[p]]])
SomeMappings == {None, Mapping(NoName, None, None), Mapping(NoName, "x", None)} \cup {Mapping(n, None, None) : n \in Named}

\* buttonActionEditor.
ActOn(i, op) ==
    /\ doc.controls[i].type = "button"
    /\ SetControl(i, [doc.controls[i] EXCEPT !.invalid = "", !.props.action = op])

Person ==
    \/ Reopen \/ Save \/ ShowCode \/ ShowDesign \/ Type
    \/ \E id \in 1..MaxControls, add \in BOOLEAN : Select(id, add)
    \/ SelectNothing \/ SelectAll
    \/ Copy \/ CopyElsewhere \/ Cut \/ Delete \/ Paste \/ Duplicate
    \/ \E type \in DOMAIN PropsOf, list \in Panels : \E p \in PropsOf[type] : Place(type, p, list)
    \/ Edit
    \/ \E i \in Indexes, to \in Wanted : CommitName(i, to)
    \/ \E op \in Operations : ChooseEndpoint(op) \/ WithdrawEndpoint(op)
    \/ \E op \in Operations, m \in SomeMappings : MapParameter(op, m)
    \/ \E i \in Indexes, op \in {""} \cup Declared(doc) : ActOn(i, op)

Next == Person
Spec == Init /\ [][Next]_vars

-----------------------------------------------------------------------------
(* Properties *)

TypeOK ==
    /\ error \in BOOLEAN /\ mode \in {"design", "code"} /\ asRead \in BOOLEAN
    /\ (markup # None) <=> error
    /\ (code = None) <=> (mode = "design")
    /\ ToSet(selection) \subseteq IdsOf(doc.controls) /\ Distinct(selection, LAMBDA id : id)
    /\ cutFrom # None => ListInDocument(cutFrom, doc.controls)
    /\ Distinct(doc.controls, LAMBDA c : c.id)
    \* Controls stand where they are walked: each after the panel it is in, and before what follows that.
    /\ \A i \in Indexes : doc.controls[i].in \in {Root} \cup {doc.controls[j].id : j \in 1..i - 1}
    /\ edits \in 0..MaxEdits /\ copies \in 0..MaxCopies

\* A document but for the handles of its controls, and for what only the designer shows: of markup
\* it has no control for only the markup.
Substance(d) ==
    LET At(id) == IF id = Root THEN Root ELSE CHOOSE i \in DOMAIN d.controls : d.controls[i].id = id
        Bare(c, i) == [id |-> i, in |-> At(c.in), type |-> c.type, props |-> c.props]
    IN  [d EXCEPT !.actions = [op \in Declared(d) |-> d.actions[op]],
                  !.controls = [i \in DOMAIN @ |-> IF @[i].type = "foreign" THEN Bare(@[i], i)
                                                  ELSE [@[i] EXCEPT !.id = i, !.in = At(@), !.invalid = ""]]]

\* What a file does not hold as it is: rules of controls that are called alike, or not at all, a
\* panel without a title around one that has one, and a button that was copied in after its
\* operation was taken away.
Titled(c) == c.type = "panel" /\ c.props.title # <<>>
IsHeld(d) ==
    /\ \A i, j \in DOMAIN d.controls :
          i # j /\ d.controls[i].name = d.controls[j].name => d.controls[i].css = <<>> /\ d.controls[j].css = <<>>
    /\ \A c \in ToSet(d.controls) : c.type = "panel" /\ ~Titled(c) => ~\E p \in ToSet(d.controls) : Titled(p) /\ Under(d.controls, p, c.id)
    /\ \A c \in ToSet(d.controls) : c.type = "button" => Operation(c.props.action) \notin DOMAIN d.actions \ Declared(d)

\* A component that is saved and opened again is the component that was saved, whatever was done
\* to it; and one that was only read and written changes no more, whatever its file was like.
SavedIsKept ==
    ~error /\ (asRead \/ IsHeld(doc)) =>
        Readable(Turned("parse", ToHtml(doc))) /\ Substance(FromHtml(ToHtml(doc))) = Substance(doc)

\* A live button names an operation that the component declares, or did until it was taken away.
LiveButtonsAreDeclared ==
    \A c \in ToSet(doc.controls) :
       c.type = "button" => c.props.action = "" \/ Operation(c.props.action) \in DOMAIN doc.actions

\* The stylesheet of a control that alone has its name comes back as it was written.
StylesAreCarried ==
    LET opened == FromHtml(ToHtml(doc)) IN
    \A i \in Indexes : \/ \E j \in Indexes \ {i} : doc.controls[j].name = doc.controls[i].name
                       \/ opened.controls[i].css = doc.controls[i].css

\* Whom a formula, a rule and a parameter reach by a name.
Reached(d, name) ==
    LET found == {i \in DOMAIN d.controls : Lower(d.controls[i].name) = Lower(name)}
    IN  IF name = NoName \/ IsReserved(Lower(name)) \/ found = {} THEN None ELSE d.controls[Min(found)].id
Selected(d, name) ==
    LET found == {c \in ToSet(d.controls) : c.name = name} IN IF name = NoName \/ found = {} THEN None ELSE (CHOOSE c \in found : TRUE).id
ByFormula(d, c) == IF c.bind = None THEN <<>> ELSE [i \in DOMAIN c.bind.names |-> Reached(d, c.bind.names[i])]
ByParameters(d) ==
    [op \in Declared(d) |-> [p \in DOMAIN d.actions[op].parameters |-> Selected(d, d.actions[op].parameters[p].control)]]
ByRules(d, c) == [i \in DOMAIN c.css |-> Selected(d, c.css[i].of)]
Tell(d) == Distinct(SelectSeq(d.controls, LAMBDA c : c.name # NoName), LAMBDA c : Lower(c.name))

\* Nothing the designer does makes two controls answer to one name, and no copy brings an id that
\* is there already.
Apart(d) == Distinct(SelectSeq(d.controls, LAMBDA c : c.elementId # ""), LAMBDA c : c.elementId)
NamesStayApart ==
    /\ ~asRead' /\ Tell(doc) => Tell(doc')
    /\ Len(doc'.controls) > Len(doc.controls) /\ Apart(doc) => Apart(doc')

\* When controls are renamed or come to the others, what reached a control reaches it still.
Same(reached, now, left) == \A i \in DOMAIN reached : reached[i] # None /\ reached[i] \notin left => now[i] = reached[i]
ReferencesHold ==
    LET both == IdsOf(doc.controls) \cap IdsOf(doc'.controls)
        left == (IdsOf(doc.controls) \ both) \cup {id \in both : ControlOf(doc', id).name = NoName}
        moved == IdsOf(doc.controls) # IdsOf(doc'.controls) \/ \E id \in both : ControlOf(doc, id).name # ControlOf(doc', id).name
    IN  ~asRead' /\ moved /\ Tell(doc) =>
           /\ Same(ByRules(doc, doc), ByRules(doc', doc'), left)
           /\ \A op \in Declared(doc) : Same(ByParameters(doc)[op], ByParameters(doc')[op], left)
           /\ \A id \in both :
                 LET c == ControlOf(doc, id)  d == ControlOf(doc', id) IN
                 /\ c.bind # None => (c.bind.broken \/ Same(ByFormula(doc, c), ByFormula(doc', d), left))
                 /\ Same(ByRules(doc, c), ByRules(doc', d), left)

\* What copies say of one another they go on saying of one another, whatever they are called now.
CopiesGoTogether ==
    LET source == FromHtml(clipboard)
        new == SelectSeq(doc'.controls, LAMBDA c : c.id \notin IdsOf(doc.controls))
        pasted == ~asRead' /\ new # <<>> /\ edits' = edits /\ copies' = copies
    IN  pasted => (Tell(source) =>
           \A i \in DOMAIN new :
              LET c == source.controls[i]
                  Told(reached, now) == \A j \in DOMAIN reached : reached[j] # None => now[j] = new[reached[j]].id
              IN  /\ c.bind # None => (c.bind.broken \/ Told(ByFormula(source, c), ByFormula(doc', new[i])))
                  /\ Told(ByRules(source, c), ByRules(doc', new[i])))
====
