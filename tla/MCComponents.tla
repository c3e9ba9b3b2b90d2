----------------------------- MODULE MCComponents -----------------------------
(* Small instances of the parts that work something out and are only        *)
(* checked here: of what the component designer draws and publishes, and of *)
(* app.js the migration scripts, the connectors of a diagram and the column *)
(* filters. They share nothing here: each behaviour is that of one of them, *)
(* which the others leave alone.                                            *)
EXTENDS Integers, FiniteSets, Sequences, SequencesExt, TLC

CONSTANT None

VARIABLES which,  \* the component
          v1, v2, v3, v4, v5, v6, v7, v8, v9, v10, v11, v12, v13  \* its variables, in their order

slots == <<which, v1, v2, v3, v4, v5, v6, v7, v8, v9, v10, v11, v12, v13>>

\* Two fields that show something and are placed by formulas.
Slots == <<<<"a", "value">>, <<"a", "x">>, <<"b", "x">>, <<"b", "value">>>>
Reads == {<<"data", "row">>, <<"component", "width">>} \cup ToSet(Slots)
Formulas == {<<r>> : r \in Reads} \cup {<<<<"data", "row">>, s>> : s \in ToSet(Slots)}

\* Boxes with a mask, a format, and both.
Box(mask, formatted) == [written |-> mask, formatted |-> formatted]
Boxes == {Box(<<"9", "9", "/", "0">>, FALSE), Box(<<"!", ">", "?", "9", ";", "0">>, FALSE),
          Box(<<"L", "e", "L", "'", "a", "'", "0", ";", "0">>, FALSE), Box(<<>>, TRUE), Box(<<"9", "9">>, TRUE)}

\* A month's end, a leap day, the last second there is and a time of day; what is added;
\* and the locales' short dates and long times: day first, month first with AM and PM,
\* year first, and with the month by name.
On(kind, y, mo, d, at) ==
    [kind |-> kind, y |-> y, mo |-> mo, d |-> d, h |-> at \div 3600, mi |-> (at \div 60) % 60, s |-> at % 60]
Moments == {On("date", 1, 1, 1, 0), On("date", 2024, 1, 31, 0), On("date", 2000, 2, 29, 0),
         On("datetime", 1999, 12, 31, 86399), On("datetime", 9999, 12, 31, 1), On("time", 1899, 12, 30, 3600)}
Amounts == {-13, 1, 25}
Clock == <<"h", "h", ":", "m", "m", ":", "s", "s">>
Locales == {[date |-> <<"d", "d", "/", "m", "m", "/", "y", "y", "y", "y">>, time |-> Clock],
            [date |-> <<"m", "/", "d", "/", "y", "y", "y", "y">>, time |-> <<"h", ":", "m", "m", ":", "s", "s", "AM/PM">>],
            [date |-> <<"y", "y", "y", "y", "-", "m", "m", "-", "d", "d">>, time |-> Clock],
            [date |-> <<"d", ".", "m", "m", "m", ".", "y", "y", "y", "y">>, time |-> Clock]}

\* Numbers that round to one digit more and to none, with every format of digits, and separators
\* one of which is a space.
Written(digits, point) == {[negative |-> b, digits |-> digits, point |-> point] : b \in BOOLEAN}
Nought == [negative |-> FALSE, digits |-> <<0>>, point |-> 1]
SomeNumbers ==
    {Nought} \cup UNION {Written(d, p) : d \in {<<1>>, <<5>>, <<9, 9, 9, 5>>, <<1, 2, 3, 4>>, <<4, 9, 9, 9>>, <<1, 0, 0, 5>>}, p \in -1..4}
Formats ==
    {<<"0">>, <<"0", ".", "0", "0">>, <<"#", ",", "#", "#", "0", ".", "0", "#">>, <<"0", ".", "0", "%">>,
     <<"0", ".", "0", "0", "E", "+", "0", "0">>, <<"#", ".", "#">>, <<"#", ",", "#", "#", "0", ",">>,
     <<"[", "r", "]", "0", ".", "0", ";", "(", "0", ".", "0", "\\", ")">>, <<"0", "0", "E", "-", "0">>,
     <<"_", "x", "?", "?", "0", ".", "?", "\"", " ", "\"">>}
Separators == {[decimal |-> ".", thousands |-> ","], [decimal |-> ",", thousands |-> "."], [decimal |-> ",", thousands |-> " "]}

\* Documents, as a person makes them: elements, names, pieces of text and formulas.
E(tag, attrs, text, kids) == [tag |-> tag, attrs |-> attrs, text |-> text, kids |-> kids]
N(stem, n) == [stem |-> stem, n |-> n]
Piece(is, of, marked, level) == [is |-> is, of |-> of, marked |-> marked, level |-> level]
Word == Piece("w", N("", 0), FALSE, 0)
Tagged(level) == Piece("x", N("", 0), TRUE, level)
Rule(of) == Piece("rule", of, FALSE, 0)
Mark(of) == Piece("marker", of, FALSE, 0)
Bare == [a \in {} |-> 0]
Naming(names) == [names |-> names, broken |-> FALSE]
Parameter(attrs) == E("param", attrs, <<>>, <<>>)
Action(name, params) == E("gridlet-action", [name |-> name, method |-> "post", href |-> "/r"], <<>>, params)
Field(name, more) == E("input", [name |-> name, style |-> 1, type |-> "text"] @@ more, <<>>, <<>>)
File(attrs, kids) == E("div", [gridlet |-> 2] @@ attrs, <<>>, kids)
a0 == N("a", 0)

\* A small form: a field, a button that adds it, and a field that is placed by it.
Form == File([style |-> "300", tip |-> "v"],
    <<Action("Add", <<Parameter([name |-> "P", control |-> a0]), Parameter([name |-> "q", value |-> "7", type |-> "integer"])>>),
      E("style", Bare, <<Rule(a0), Mark(a0), Rule(a0)>>, <<>>),
      Field(a0, [id |-> "e"]), Field(N("a", 2), [bind |-> Naming(<<N("A", 0)>>)]),
      E("button", [action |-> "add"], <<Tagged(1)>>, <<>>)>>)

\* One written by hand: panels in panels, markup, a name twice, controls without a name and an
\* operation that is not declared.
Panel(name, kids) == E("div", [role |-> "panel"] @@ name, <<>>, kids)
Hand == File(Bare,
    <<E("p", [name |-> a0], <<>>, <<E("b", Bare, <<Word>>, <<>>)>>),
      E("style", Bare, <<Mark(a0), Rule(N("", 0)), Mark(N("", 0)), Rule(a0), Mark(a0), Rule(N("b", 0))>>, <<>>),
      Panel([name |-> a0], <<Panel(Bare, <<E("div", [role |-> "panel-title"], <<Word>>, <<>>)>>)>>),
      E("span", Bare, <<>>, <<E("b", Bare, <<Word>>, <<>>)>>),
      E("button", [action |-> "delete"], <<>>, <<>>)>>)
Newer == [File(Bare, <<>>) EXCEPT !.attrs.gridlet = 3]
Refused ==
    {E("p", Bare, <<>>, <<>>), Newer,
     File(Bare, <<Action("add", <<Parameter([name |-> "p", control |-> a0]), Parameter([name |-> "P", value |-> "x"])>>)>>),
     File(Bare, <<Action("add", <<Parameter([name |-> "p", value |-> "x", type |-> "number"])>>)>>),
     File(Bare, <<Action("add", <<>>), Action("Add", <<>>)>>)}
Props == [textbox |-> {[placeholder |-> "v", multiline |-> TRUE, readOnly |-> TRUE, format |-> "f", inputMask |-> ""]},
          button |-> {[text |-> <<Word>>, action |-> ""]}, label |-> {[text |-> <<>>]},
          panel |-> {[title |-> t] : t \in {<<>>, <<Tagged(0)>>}}]
Files == {Form, Hand, Newer}
Styles == {<<Rule(a0), Rule(N("b", 0))>>}
SomeFormulas == {Naming(<<a0, N("b", 0)>>)}
NewNames == {N("", 0), N("A", 0), N("b", 2), N("no name", 0)}

\* The values each search text is in, and those its pattern fits: of a plain text
\* the same, of one with a wildcard (as "?" of the values "?a", "bt", "gift?t")
\* others.
Finds == [t \in {"p", "q"} |-> IF t = "p" THEN {2, 3} ELSE {1, 3}]
Patterns == [Finds EXCEPT !["q"] = {1, 2, 3}]

\* A connector whose target stays and whose source has three places.
At(x, y) == [x |-> x, y |-> y]
Layouts == {[source |-> p, target |-> At(40, 24)] : p \in {At(0, 0), At(0, 24), At(60, 24)}}
Dropped == {At(x, y) : x \in {28, 44}, y \in {4, 28, 48}}

\* Two tables and a history table: their states, columns, indexes, keys and checks.
Def(state, columns, index, keys, check) ==
    [state |-> state, columns |-> columns, index |-> index, keys |-> keys, check |-> check]
Absent == Def("absent", {}, {}, {}, FALSE)
Plain(columns, keys) == Def("fine", columns, {}, keys, FALSE)
ToB == {<<"x", "b", "x">>}
As == {Def(s, {"k"}, {}, {}, TRUE) : s \in {"fine", "issue"}}
      \cup {Def(s, {"k", "x"}, {<<"ix", "x">>}, f, TRUE) :
               s \in {"fine", "issue", "required"}, f \in {{}, ToB, {<<"k", "b", "k">>}}}
      \cup {Def(s, {"k", "x", "y"}, {<<"ux", "y">>, <<"uq", "x">>}, f, FALSE) :
               s \in {"fine", "required"}, f \in {{}, ToB}}
Bs == {Def("unavailable", {}, {}, {}, FALSE)}
      \cup {Def(s, c, {}, f, FALSE) : s \in {"fine", "collides", "required"},
               c \in {{"k"}, {"k", "x"}}, f \in {{}, {<<"k", "a", "k">>}}}
Hs == {Plain({"k"}, {}), Def("issue", {"k"}, {}, {}, FALSE), Plain({"k"}, {<<"k", "a", "k">>})}
Sources == {s \in [a : As, b : Bs, h : Hs] :
               /\ s.b.state = "required" => "x" \in s.b.columns
               /\ s.b.state # "unavailable" => \A k \in s.a.keys : k[3] \in s.b.columns}
Targets ==
    [a : {Absent, Def("unavailable", {"k"}, {}, {}, FALSE), Def("fine", {"k"}, {<<"ix", "k">>}, {}, FALSE),
          Def("fine", {"k", "x"}, {<<"uq", "x">>}, {}, TRUE)},
     b : {Absent, Def("unavailable", {"k"}, {}, {}, FALSE), Plain({"k"}, {<<"k", "b", "k">>})},
     h : {Absent, Plain({"k"}, {})}]
Histories == {<<>>, [t \in {"a"} |-> "h"]}

Blank12 == v13 = 0
After9 == <<v10, v11, v12, v13>>
Blank9 == v10 = 0 /\ v11 = 0 /\ v12 = 0 /\ Blank12
After6 == <<v7, v8, v9, After9>>
Blank6 == v7 = 0 /\ v8 = 0 /\ v9 = 0 /\ Blank9
After5 == <<v6, After6>>
Blank5 == v6 = 0 /\ Blank6
After4 == <<v5, After5>>
Blank4 == v5 = 0 /\ Blank5
After3 == <<v4, After4>>
Blank3 == v4 = 0 /\ Blank4
After1 == <<v2, v3, After3>>
Blank1 == v2 = 0 /\ v3 = 0 /\ Blank3

Formulae == INSTANCE Expressions WITH
    Token <- {"1", "0", "a", "b", "-", "*", "<", "/", "(", ")", ".", "?",
    ":"}, MaxTokens <- 6, Renamed <- "a", NewName <- "c",
    formula <- v1

Bound == INSTANCE Bindings WITH
    SlotOrder <- Slots, Formula <- Formulas, MaxChanges <- 2,
    bind <- v1, shown <- v2, row <- v3, width <- v4, changes <- v5

TextBoxes == INSTANCE TextBox WITH
    Boxes <- Boxes, Char <- {"1", "a", "/"}, Given <- {<<>>, <<"1", "2">>,
    <<"L">>, <<"a">>}, MaxEdits <- 2,
    box <- v1, value <- v2, unreadable <- v3, editing <- v4, startedWith <-
    v5, places <- v6, shown <- v7, committed <- v8, changeSeen <- v9, edits <-
    v10, before <- v11, touched <- v12, given <- v13

Calendar == INSTANCE Dates WITH
    Starts <- Moments, Amounts <- Amounts, Patterns <- Locales, ThisYear <- 2026,
    MaxCalls <- 2,
    value <- v1, from <- v2, call <- v3

Figures == INSTANCE Numbers WITH
    Numbers <- SomeNumbers, Formats <- Formats, Locales <- Separators,
    MaxCalls <- 1,
    number <- v1, locale <- v2, text <- v3, from <- v4, written <- v5, calls
    <- v6

Document == INSTANCE ComponentDocument WITH
    Stored <- Files, Typed <- {Form, Hand} \cup Refused, PropsOf <- Props,
    Sheets <- Styles, Formulas <- SomeFormulas, Wanted <- NewNames, Elsewhere
    <- Files, MaxControls <- 5, MaxSelected <- 1, MaxEdits <- 1, MaxCopies <-
    1,
    doc <- v1, error <- v2, markup <- v3, mode <- v4, code <- v5, selection <-
    v6, cutFrom <- v7, clipboard <- v8, saved <- v9, asRead <- v10, edits <-
    v11, copies <- v12

Server == INSTANCE SchemaMigration WITH
    Sqlite <- FALSE, TableOrder <- <<"a", "b", "h">>, Sources <- Sources,
    Targets <- Targets, Histories <- Histories,
    source <- v1, target <- v2, asRead <- v3, names <- v4, history <- v5,
    loaded <- v6, again <- v7, script <- v8, failed <- v9

Lite == INSTANCE SchemaMigration WITH
    Sqlite <- TRUE, TableOrder <- <<"a", "b", "h">>, Sources <- Sources,
    Targets <- Targets, Histories <- Histories,
    source <- v1, target <- v2, asRead <- v3, names <- v4, history <- v5,
    loaded <- v6, again <- v7, script <- v8, failed <- v9

Line == INSTANCE DiagramRoute WITH
    Layouts <- Layouts, Width <- 16, Height <- 12, Places <- Dropped, MaxPins
    <- 2,
    cards <- v1, pins <- v2, knob <- v3

Texts == INSTANCE ColumnFilter WITH
    Kind <- "text", Value <- 1..3, Text <- {"p", "q"}, Matches <- Finds, Fits <- Patterns,
    Limit <- 2, MaxChanges <- 3,
    column <- v1, spec <- v2, menu <- v3, changes <- v4

Days == INSTANCE ColumnFilter WITH
    Kind <- "date", Value <- 1..3, Text <- {"p", "q"}, Matches <- Finds, Fits <- Patterns,
    Limit <- 2, MaxChanges <- 2,
    column <- v1, spec <- v2, menu <- v3, changes <- v4

Init ==
    \/ which = "formulas" /\ Formulae!Init /\ Blank1
    \/ which = "bindings" /\ Bound!Init /\ Blank5
    \/ which = "box" /\ TextBoxes!Init
    \/ which = "calendar" /\ Calendar!Init /\ Blank3
    \/ which = "numbers" /\ Figures!Init /\ Blank6
    \/ which = "document" /\ Document!Init /\ Blank12
    \/ which = "server" /\ Server!Init /\ Blank9
    \/ which = "lite" /\ Lite!Init /\ Blank9
    \/ which = "route" /\ Line!Init /\ Blank3
    \/ which = "texts" /\ Texts!Init /\ Blank4
    \/ which = "days" /\ Days!Init /\ Blank4

Next ==
    /\ UNCHANGED which
    /\ \/ which = "formulas" /\ Formulae!Next /\ UNCHANGED After1
       \/ which = "bindings" /\ Bound!Next /\ UNCHANGED After5
       \/ which = "box" /\ TextBoxes!Next
       \/ which = "calendar" /\ Calendar!Next /\ UNCHANGED After3
       \/ which = "numbers" /\ Figures!Next /\ UNCHANGED After6
       \/ which = "document" /\ Document!Next /\ UNCHANGED v13
       \/ which = "server" /\ Server!Next /\ UNCHANGED After9
       \/ which = "lite" /\ Lite!Next /\ UNCHANGED After9
       \/ which = "route" /\ Line!Next /\ UNCHANGED After3
       \/ which = "texts" /\ Texts!Next /\ UNCHANGED After4
       \/ which = "days" /\ Days!Next /\ UNCHANGED After4

Spec == Init /\ [][Next]_slots

-----------------------------------------------------------------------------
(* The properties of the components *)

\* Every component keeps its types.
TypesOK ==
    /\ which = "formulas" => Formulae!TypeOK
    /\ which = "bindings" => Bound!TypeOK
    /\ which = "box" => TextBoxes!TypeOK
    /\ which = "calendar" => Calendar!TypeOK
    /\ which = "numbers" => Figures!TypeOK
    /\ which = "document" => Document!TypeOK
    /\ which = "server" => Server!TypeOK
    /\ which = "lite" => Lite!TypeOK
    /\ which = "route" => Line!TypeOK
    /\ which = "texts" => Texts!TypeOK
    /\ which = "days" => Days!TypeOK

\* A formula is read with the precedence the language has, the designer and
\* the page work it out alike where only numbers meet, and renaming a control
\* changes exactly what names it. Of dates, what is added is what is counted;
\* dates and numbers written to be edited are read as what they stand for,
\* and a format writes the number nearest to its own.
FormulasMeanOneThing ==
    /\ which = "formulas" => Formulae!TreeReadsAsWritten
    /\ which = "formulas" => Formulae!SidesAgreeOnNumbers
    /\ which = "formulas" => Formulae!RenameReachesTheControl
    /\ which = "calendar" => Calendar!AddedIsCounted
    /\ which = "calendar" => Calendar!BoundariesAreCounted
    /\ which = "calendar" => Calendar!MonthsEnd
    /\ which = "calendar" => Calendar!EditedIsRead
    /\ which = "calendar" => Calendar!YearsAreRead
    /\ which = "numbers" => Figures!EditedIsRead
    /\ which = "numbers" => Figures!WrittenIsNearest
    /\ which = "numbers" => Figures!WrittenAgain

\* A bound control is drawn as the published page shows it, a text box shows
\* what it holds, in places that hold only what they take, and a connector of
\* a diagram is one line through its routing points from border to border. A
\* component that is saved and opened again is the one that was saved, and its
\* buttons name what it declares.
ShowsWhatItHolds ==
    /\ which = "bindings" => Bound!DrawnAsPublished
    /\ which = "box" => TextBoxes!PlacesHoldTheirKind
    /\ which = "box" => TextBoxes!ShowsWhatItHolds
    /\ which = "route" => Line!RouteHolds
    /\ which = "document" => Document!SavedIsKept
    /\ which = "document" => Document!LiveButtonsAreDeclared

\* After a new row every bound property is up to date, and a new size moves
\* what depends on it and nothing else; a text box that is visited keeps its
\* value unless it was edited, and tells of the change if it was. No two
\* controls come to answer to one name, and what names a control goes on
\* reaching it when controls are renamed or copied.
ValuesFollow ==
    [][/\ which = "bindings" => Bound!ANewRowShowsEverywhere
       /\ which = "bindings" => Bound!ANewSizeMovesItsOwn
       /\ which = "box" => TextBoxes!VisitsLeaveTheValue
       /\ which = "box" => TextBoxes!ChangesAreTold
       /\ which = "document" => Document!NamesStayApart
       /\ which = "document" => Document!ReferencesHold
       /\ which = "document" => Document!CopiesGoTogether]_slots
\* Every statement of a migration script finds what it names when its turn
\* comes.
ScriptRuns ==
    /\ which = "server" => Server!ScriptRuns
    /\ which = "lite" => Lite!ScriptRuns

\* Comparing again after a migration script has run finds nothing more to
\* script.
RunSettles ==
    [][/\ which = "server" => Server!RunSettles
       /\ which = "lite" => Lite!RunSettles]_slots

\* A column filter opens with exactly what it shows ticked, and OK applies
\* exactly what is ticked; a date condition is one on whole days.
FiltersAreWhatIsTicked ==
    [][/\ which = "texts" => Texts!TicksTellTheFilter
       /\ which = "texts" => Texts!OkAppliesTheTicks
       /\ which = "days" => Days!DaysAreWhole
       /\ which = "days" => Days!TicksTellTheFilter
       /\ which = "days" => Days!OkAppliesTheTicks]_slots
=============================================================================
