----------------------------- MODULE ColumnFilter -----------------------------
(***************************************************************************)
(* The filter of a grid's column: app.js columnFilterCondition,            *)
(* serverColumnFilter and openColumnFilterMenu with its checklist.  Values *)
(* are numbers; of a column of dates they are moments, two to a day, and   *)
(* the checklist groups them by day, as the code groups them by year,      *)
(* month, day and so on.                                                   *)
(***************************************************************************)
EXTENDS Naturals, Sequences, FiniteSets, SequencesExt

CONSTANTS Kind,      \* "text" or "date"
          Value,     \* what the column may hold, besides blanks
          Text,      \* what may be searched for
          Matches,   \* the values each text is in, read literally: what a search finds
          Fits,      \* the values its pattern fits, in which * ? and ~ are special
          Limit,     \* values a checklist holds
          None, MaxChanges  \* bound: filters applied and searches run

VARIABLES
    column,   \* the values in the database; Blank is one of them
    spec,     \* the column's filter, None if it has none
    menu,     \* the open menu
    changes

vars == <<column, spec, menu, changes>>

Blank == 0
Operators == {"equals", "notEquals", "greaterThan", "greaterThanOrEqual", "lessThan", "lessThanOrEqual"}

Day(v) == (v + 1) \div 2
Whole(d) == <<2 * d - 1, 2 * d + 1>>   \* from the first moment of a day to that of the next
Moment(v) == <<v, v + 1>>
Within(v, range) == range[1] <= v /\ v < range[2]

\* What a menu is when it opens: nothing is listed, and OK is off.
Opened == [at |-> "loading", listed |-> {}, truncated |-> FALSE, ticked |-> {}, unlisted |-> TRUE,
           typed |-> None, text |-> None, hit |-> {}, found |-> None, asks |-> {}, request |-> 0,
           searchTicked |-> {}, add |-> FALSE, ok |-> FALSE]
Closed == [Opened EXCEPT !.at = "closed"]

TypeOK ==
    /\ column \subseteq Value \cup {Blank}
    /\ menu.ticked \subseteq menu.listed /\ menu.hit \subseteq menu.listed
    /\ Cardinality(menu.listed \ {Blank}) <= Limit
    /\ \A ask \in menu.asks : ask.request <= menu.request

-----------------------------------------------------------------------------
(* What a filter shows *)

Compares(v, operator, value) ==
    CASE operator = "equals" -> v = value
      [] operator = "notEquals" -> v # value
      [] operator = "greaterThan" -> v > value
      [] operator = "greaterThanOrEqual" -> v >= value
      [] operator = "lessThan" -> v < value
      [] operator = "lessThanOrEqual" -> v <= value

\* columnFilterCondition of a day without a time: from its start to its end.
ComparesDay(v, operator, d) ==
    LET start == Whole(d)[1] end == Whole(d)[2]
    IN CASE operator = "equals" -> v >= start /\ v < end
         [] operator = "notEquals" -> v < start \/ v >= end
         [] operator = "greaterThan" -> v >= end
         [] operator = "greaterThanOrEqual" -> v >= start
         [] operator = "lessThan" -> v < start
         [] operator = "lessThanOrEqual" -> v < end

\* columnFilterCondition of a value without wildcards; a "does not" condition
\* keeps the blank rows.
Meets(v, condition) ==
    IF v = Blank THEN condition.operator = "notEquals"
    ELSE IF condition.day THEN ComparesDay(v, condition.operator, condition.value)
    ELSE Compares(v, condition.operator, condition.value)

\* The condition "contains" is a pattern with wildcards, and no literal search.
Containing(text) == IF text = None THEN Value ELSE Fits[text]

\* serverColumnFilter
Shows(filter, v) ==
    \/ filter = None
    \/ /\ filter # None /\ filter.kind = "custom" /\ Meets(v, filter)
    \/ /\ filter # None /\ filter.kind = "contains" /\ v \in Containing(filter.text)
    \/ /\ filter # None /\ filter.kind = "values" /\ filter.exclude
       /\ IF filter.values = {} \/ ~filter.blanks THEN v # Blank /\ v \notin filter.values
          ELSE v \notin filter.values
    \/ /\ filter # None /\ filter.kind = "values" /\ ~filter.exclude
       /\ \/ v \in filter.values \/ (v = Blank /\ filter.blanks)
          \/ v # Blank /\ \E range \in filter.ranges : Within(v, range)

-----------------------------------------------------------------------------
(* The checklist *)

\* The first values of a list, as many as a checklist holds.
First(values) == {v \in values : Cardinality({u \in values : u <= v}) <= Limit}

\* Under all filters but the column's own.
Listed == First(column \ {Blank}) \cup (column \cap {Blank})

\* tickFromSpec, of a list of values: what it names, or what lies within a range.
Ticks(filter) ==
    {v \in Listed : IF v = Blank THEN filter.blanks
                    ELSE IF filter.exclude THEN v \notin filter.values
                    ELSE v \in filter.values
                         \/ \E range \in filter.ranges : range[1] <= v /\ v + 1 <= range[2]}

Searching(m) == m.text # None
Found(m) == IF m.found # None THEN m.found ELSE m.hit
Chosen(m) == IF Searching(m) THEN Found(m) \cap m.searchTicked ELSE m.ticked

\* refreshTicks: OK is on if anything is chosen.
Rendered(m) == [m EXCEPT !.ok = Chosen(m) # {} \/ (Searching(m) /\ m.add /\ m.ticked # {})]

\* Ranges in order, of which those that touch become one.
MergedRanges(ranges) ==
    ToSet(FoldLeft(LAMBDA merged, r :
                       IF merged # <<>> /\ r[1] <= Last(merged)[2]
                       THEN Append(Front(merged),
                                   <<Last(merged)[1], IF r[2] > Last(merged)[2] THEN r[2] ELSE Last(merged)[2]>>)
                       ELSE Append(merged, r),
                   <<>>, SetToSortSeq(ranges, LAMBDA a, b : a[1] < b[1] \/ (a[1] = b[1] /\ a[2] < b[2]))))

\* A day all of whose moments in the list are picked is one range.
RangesOf(leaves, picked) ==
    {Whole(d) : d \in {Day(v) : v \in leaves} \ {Day(v) : v \in leaves \ picked}}
    \cup {Moment(v) : v \in {v \in leaves \cap picked : \E u \in leaves \ picked : Day(u) = Day(v)}}

\* includeSpec
Including(picked, sources) ==
    [kind |-> "values", exclude |-> FALSE,
     values |-> IF Kind = "date" THEN {} ELSE picked \ {Blank},
     ranges |-> IF Kind = "date"
                THEN MergedRanges(UNION {RangesOf(leaves \ {Blank}, picked) : leaves \in sources}) ELSE {},
     blanks |-> Blank \in picked]

Excluding(unticked) == [kind |-> "values", exclude |-> TRUE, values |-> unticked \ {Blank}, ranges |-> {},
                        blanks |-> Blank \notin unticked]

\* Mutated: the shorter form, whatever there is beyond the list.
ListSpecOfListed(m) ==
    IF m.ticked = m.listed THEN None
    ELSE IF Kind # "date" /\ Cardinality(m.ticked) * 2 > Cardinality(m.listed)
    THEN Excluding(m.listed \ m.ticked) ELSE Including(m.ticked, {m.listed})

\* A list is kept in its shorter form: the values to show, or those to hide.
ListSpec(m) ==
    IF m.ticked = m.listed /\ (~m.truncated \/ m.unlisted) THEN None
    ELSE IF Kind # "date" /\ (IF m.truncated THEN m.unlisted
                              ELSE Cardinality(m.ticked) * 2 > Cardinality(m.listed))
    THEN Excluding(m.listed \ m.ticked) ELSE Including(m.ticked, {m.listed})

\* All that the search of a long list found is ticked, and nothing is added to it.
AllFound(m) == m.found # None /\ ~m.add /\ m.found \subseteq m.searchTicked

\* What is found, with what is ticked in the whole list if that is to be added;
\* a long list's search whose results are all ticked becomes a condition, whose
\* text is read as a pattern from then on.
SearchSpec(m) ==
    IF AllFound(m) THEN [kind |-> "contains", text |-> m.typed]
    ELSE Including(Chosen(m) \cup (IF m.add THEN m.ticked ELSE {}),
                   IF m.found # None THEN {m.listed, m.found} ELSE {m.listed})

\* buildSpec
BuiltSpec(m) == IF Searching(m) THEN SearchSpec(m) ELSE ListSpec(m)

-----------------------------------------------------------------------------
(* The menu *)

Open == menu.at = "closed" /\ menu' = Opened /\ UNCHANGED <<column, spec, changes>>

\* Escape, Cancel, a press outside.
Close == menu.at # "closed" /\ menu' = Closed /\ UNCHANGED <<column, spec, changes>>

\* The values arrive, or do not; for a condition those it shows are asked for too.
ValuesArrive ==
    /\ menu.at = "loading"
    /\ LET got == [menu EXCEPT !.listed = Listed, !.truncated = Cardinality(column \ {Blank}) > Limit,
                               !.ticked = Listed]
       IN \/ spec = None /\ menu' = Rendered([got EXCEPT !.at = "open"])
          \/ /\ spec # None /\ spec.kind = "values"
             /\ menu' = Rendered([got EXCEPT !.at = "open", !.ticked = Ticks(spec), !.unlisted = spec.exclude])
          \/ /\ spec # None /\ spec.kind # "values"
             /\ menu' = [got EXCEPT !.at = "own", !.unlisted = FALSE]
          \/ menu' = [menu EXCEPT !.at = "failed"]
    /\ UNCHANGED <<column, spec, changes>>

OwnArrive ==
    /\ menu.at = "own"
    /\ LET visible == {v \in column : Shows(spec, v)}
           listed == First(visible \ {Blank}) \cup (visible \cap {Blank})
       IN \/ menu' = Rendered([menu EXCEPT !.at = "open", !.ticked = menu.listed \cap listed])
          \/ menu' = [menu EXCEPT !.at = "failed"]
    /\ UNCHANGED <<column, spec, changes>>

TypeSearch(text) ==
    /\ menu.at # "closed" /\ changes < MaxChanges /\ text # menu.typed
    /\ menu' = [menu EXCEPT !.typed = text] /\ changes' = changes + 1
    /\ UNCHANGED <<column, spec>>

\* runSearch, once the typing pauses: a list is searched for the text as it is; a
\* truncated one asks the database, which does the same and is drawn when it answers.
RunSearch ==
    /\ menu.at # "closed" /\ menu.typed # menu.text
    /\ LET m == [menu EXCEPT !.text = menu.typed, !.found = None]
       IN IF Searching(m) /\ m.truncated
          THEN menu' = [m EXCEPT !.request = @ + 1,
                                 !.asks = @ \cup {[text |-> m.text, request |-> m.request + 1]}]
          ELSE menu' = Rendered(IF Searching(m)
                                THEN [m EXCEPT !.hit = (m.listed \ {Blank}) \cap Matches[m.text],
                                               !.searchTicked = m.listed]
                                ELSE m)
    /\ UNCHANGED <<column, spec, changes>>

\* Mutated: whatever was asked for.
AnswersAny(ask) == TRUE

Answers(ask) == ask.request = menu.request

\* An answer to an older search is dropped.
SearchAnswers(ask) ==
    /\ ask \in menu.asks
    /\ LET m == [menu EXCEPT !.asks = @ \ {ask}]
           found == First((column \ {Blank}) \cap Matches[ask.text])
       IN \/ Answers(ask) /\ menu' = Rendered([m EXCEPT !.found = found, !.searchTicked = found])
          \/ menu' = m
    /\ UNCHANGED <<column, spec, changes>>

\* A checkbox of what is shown.
Tick(v) ==
    /\ menu.at \in {"own", "open"}
    /\ \/ /\ Searching(menu) /\ v \in Found(menu)
          /\ menu' = Rendered([menu EXCEPT !.searchTicked = IF v \in @ THEN @ \ {v} ELSE @ \cup {v}])
       \/ /\ menu.at = "open" /\ ~Searching(menu) /\ v \in menu.listed
          /\ menu' = Rendered([menu EXCEPT !.ticked = IF v \in @ THEN @ \ {v} ELSE @ \cup {v}])
    /\ UNCHANGED <<column, spec, changes>>

\* (Select All) counts for what is not listed too.
TickAll(on) ==
    /\ menu.at = "open"
    /\ LET Set(shown, ticked) == IF on THEN ticked \cup shown ELSE ticked \ shown
       IN menu' = Rendered(IF Searching(menu)
                           THEN [menu EXCEPT !.searchTicked = Set(Found(menu), @)]
                           ELSE [menu EXCEPT !.ticked = Set(menu.listed, @), !.unlisted = on])
    /\ UNCHANGED <<column, spec, changes>>

\* "Add current selection to filter"
ToggleAdd ==
    /\ menu.at \in {"own", "open"} /\ Searching(menu)
    /\ menu' = Rendered([menu EXCEPT !.add = ~@]) /\ UNCHANGED <<column, spec, changes>>

Ok ==
    /\ menu.at \in {"own", "open"} /\ menu.ok /\ changes < MaxChanges /\ changes' = changes + 1
    /\ spec' = BuiltSpec(menu) /\ menu' = Closed /\ UNCHANGED column

\* A condition of the menu's lists or of the dialog; Clear Filter.
Condition(condition) ==
    /\ menu.at # "closed" /\ menu' = Closed /\ changes < MaxChanges /\ changes' = changes + 1
    /\ spec' = condition /\ UNCHANGED column

Conditions == {None} \cup [kind : {"custom"}, operator : Operators, value : {Day(v) : v \in Value}, day : {Kind = "date"}]
              \cup (IF Kind = "date"
                    THEN [kind : {"custom"}, operator : Operators, value : Value, day : {FALSE}] ELSE {})

\* Somebody writes to the table while no menu is open.
Write(values) ==
    /\ menu.at = "closed" /\ changes < MaxChanges /\ changes' = changes + 1
    /\ column' = values /\ UNCHANGED <<spec, menu>>

Init == column \in SUBSET (Value \cup {Blank}) /\ spec = None /\ menu = Closed /\ changes = 0

Next ==
    \/ Open \/ Close \/ ValuesArrive \/ OwnArrive \/ RunSearch \/ ToggleAdd \/ Ok
    \/ \E text \in Text \cup {None} : TypeSearch(text)
    \/ \E ask \in menu.asks : SearchAnswers(ask)
    \/ \E v \in Value \cup {Blank} : Tick(v)
    \/ \E on \in BOOLEAN : TickAll(on)
    \/ \E condition \in Conditions : Condition(condition)
    \/ \E values \in SUBSET (Value \cup {Blank}) : Write(values)

Spec == Init /\ [][Next]_vars

-----------------------------------------------------------------------------
(* Properties *)

\* A condition on a day is one on all of its moments; and of the blank rows only a
\* "does not" condition shows any.
DaysAreWhole ==
    spec \in Conditions \ {None} =>
        \A v \in column :
            Shows(spec, v) <=> IF v = Blank THEN spec.operator = "notEquals"
                               ELSE Compares(IF spec.day THEN Day(v) ELSE v, spec.operator, spec.value)

\* When a menu opens on a filter, it ticks exactly the listed values that the
\* filter shows, whatever form the filter has and whatever was written since.
TicksTellTheFilter ==
    menu.at # "open" /\ menu'.at = "open" =>
        \A v \in menu'.listed : v \in menu'.ticked <=> Shows(spec, v)

\* What OK applies shows exactly what was ticked, with or without a search, in
\* every form a filter may take; what a list does not hold follows (Select All).
\* Known exceptions: OK while a search has not been run or answered; days that a
\* search of a long list found in part; and a text with a wildcard all of whose
\* results in a long list are ticked, which was searched for literally and is
\* applied as a pattern (see the README).
OkAppliesTheTicks ==
    (menu.ok /\ menu' = Closed /\ spec' = BuiltSpec(menu) /\ changes' # changes
     /\ menu.typed = menu.text /\ (Searching(menu) /\ menu.truncated => menu.found # None)
     /\ (menu.found # None => Kind # "date")
     /\ (Searching(menu) /\ AllFound(menu) => Fits[menu.text] = Matches[menu.text])) =>
        \A v \in IF Kind = "date" THEN menu.listed ELSE column :
            Shows(spec', v) <=> IF Searching(menu)
                                THEN \/ v \in Chosen(menu) \/ (menu.add /\ v \in menu.ticked)
                                     \/ AllFound(menu) /\ v \in Matches[menu.text]
                                ELSE IF v \in menu.listed THEN v \in menu.ticked ELSE menu.unlisted
=============================================================================
