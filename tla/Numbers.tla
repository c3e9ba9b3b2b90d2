------------------------------ MODULE Numbers ------------------------------
(***************************************************************************)
(* Numbers as people write and read them (standard.js): a format with its  *)
(* sections, groups, percents, thousands and exponents, the plain number   *)
(* an edited box shows, and what numbervalue and a left box make of text.  *)
(* One number is written and read, a call after the other.                 *)
(*                                                                         *)
(* A number is its decimal digits and where the point is before them:      *)
(* 0.d1d2... * 10^point.  Binary fractions and the fifteen digits that are *)
(* kept of one are left out; so are numbers too large to be written.       *)
(***************************************************************************)
EXTENDS Integers, Sequences, FiniteSets, SequencesExt, TLC

CONSTANTS None,
          Numbers,  \* [negative, digits, point]
          Formats,  \* sequences of characters
          Locales,  \* [decimal, thousands]
          MaxCalls  \* bound

Char == <<"0", "1", "2", "3", "4", "5", "6", "7", "8", "9">>
Chars(digits) == [i \in DOMAIN digits |-> Char[digits[i] + 1]]
DigitOf(c) == (CHOOSE i \in DOMAIN Char : Char[i] = c) - 1
IsDigit(c) == c \in ToSet(Char)
Zeros(n) == [i \in 1..n |-> 0]
Joined(texts) == FoldLeft(LAMBDA a, b : a \o b, <<>>, texts)

\* A number without zeros at its ends.
Stripped(digits) == SubSeq(digits, 1, Max({i \in DOMAIN digits : digits[i] # 0}))
From(negative, digits, point, first) ==
    [negative |-> negative, digits |-> Stripped(SubSeq(digits, first, Len(digits))), point |-> point - first + 1]
Zero == [negative |-> FALSE, digits |-> <<0>>, point |-> 1]
Number(negative, digits, point) ==
    IF \A i \in DOMAIN digits : digits[i] = 0 THEN Zero
    ELSE From(negative, digits, point, Min({i \in DOMAIN digits : digits[i] # 0}))

-----------------------------------------------------------------------------
(* The pattern of a format *)

\* scanFormat, a character at a time.
Token(literal, c) == [literal |-> literal, c |-> c]
Scanned(st, c) ==
    CASE st.mode = "code" ->
            CASE c = "\"" -> [st EXCEPT !.mode = "quoted"]
              [] c = "\\" -> [st EXCEPT !.mode = "escaped"]
              [] c = "[" -> [st EXCEPT !.mode = "bracket"]
              [] c = "_" -> [mode |-> "skipped", tokens |-> Append(st.tokens, Token(TRUE, " "))]
              [] c = "*" -> [st EXCEPT !.mode = "skipped"]
              [] OTHER -> [st EXCEPT !.tokens = Append(@, Token(FALSE, c))]
      [] st.mode = "quoted" -> IF c = "\"" THEN [st EXCEPT !.mode = "code"] ELSE [st EXCEPT !.tokens = Append(@, Token(TRUE, c))]
      [] st.mode = "escaped" -> [mode |-> "code", tokens |-> Append(st.tokens, Token(TRUE, c))]
      [] st.mode = "bracket" -> IF c = "]" THEN [st EXCEPT !.mode = "code"] ELSE st
      [] st.mode = "skipped" -> [st EXCEPT !.mode = "code"]
ScanFormat(pattern) == FoldLeft(Scanned, [mode |-> "code", tokens |-> <<>>], pattern).tokens

\* sectionsOf
InSection(sections, t) ==
    IF t = Token(FALSE, ";") THEN Append(sections, <<>>)
    ELSE [sections EXCEPT ![Len(sections)] = Append(@, t)]
SectionsOf(tokens) == FoldLeft(InSection, <<<<>>>>, tokens)

\* What a section asks for: digits of a region, a point, commas, an exponent, and what writes itself.
Item(kind, c, region) == [kind |-> kind, c |-> c, region |-> region]
Asked(st, t, next) ==
    IF st.skip THEN [st EXCEPT !.skip = FALSE]
    ELSE IF t.literal THEN [st EXCEPT !.items = Append(@, Item("literal", t.c, st.region))]
    ELSE IF t.c \in {"0", "#", "?"} THEN [st EXCEPT !.items = Append(@, Item("digit", t.c, st.region))]
    ELSE IF t.c = "." /\ st.region = "whole"
         THEN [st EXCEPT !.items = Append(@, Item("point", t.c, st.region)), !.region = "fraction"]
    ELSE IF t.c = "," /\ st.region = "whole" THEN [st EXCEPT !.items = Append(@, Item("comma", t.c, st.region))]
    ELSE IF t.c \in {"E", "e"} /\ next \in {Token(FALSE, "+"), Token(FALSE, "-")} /\ st.region # "exponent"
         THEN [items |-> Append(st.items, Item("exponent", next.c, st.region)), region |-> "exponent", skip |-> TRUE]
    ELSE [st EXCEPT !.items = Append(@, Item("literal", t.c, IF t.c = "%" THEN "percent" ELSE st.region))]
ItemsOf(tokens) ==
    FoldLeft(LAMBDA st, i : Asked(st, tokens[i], IF i < Len(tokens) THEN tokens[i + 1] ELSE Token(TRUE, "")),
             [items |-> <<>>, region |-> "whole", skip |-> FALSE], [i \in DOMAIN tokens |-> i]).items

Slots(items, region) == SelectSeq(items, LAMBDA x : x.kind = "digit" /\ x.region = region)
WholeBefore(items, i) == \E j \in DOMAIN items : j < i /\ items[j].kind = "digit" /\ items[j].region = "whole"
WholeAfter(items, i) == \E j \in DOMAIN items : j > i /\ items[j].kind = "digit" /\ items[j].region = "whole"
Grouping(items) == \E i \in DOMAIN items : items[i].kind = "comma" /\ WholeBefore(items, i) /\ WholeAfter(items, i)
Scale(items) == Cardinality({i \in DOMAIN items : items[i].kind = "comma" /\ WholeBefore(items, i) /\ ~WholeAfter(items, i)})
Percent(items) == Cardinality({i \in DOMAIN items : items[i].region = "percent"})
Exponents(items) == {i \in DOMAIN items : items[i].kind = "exponent"}

-----------------------------------------------------------------------------
(* Its digits *)

\* One more in the last place.  Mutated: nothing is carried.
UpUncarried(all, last) == [i \in DOMAIN all |-> IF all[i] = 9 /\ i > last THEN 0 ELSE IF i = last THEN all[i] + 1 ELSE all[i]]
Up(all, last) ==
    IF last = 0 THEN <<1>> \o Zeros(Len(all))
    ELSE [i \in DOMAIN all |-> IF i < last THEN all[i] ELSE IF i = last THEN all[i] + 1 ELSE 0]
Raised(all) == Up(all, Max({0} \cup {i \in DOMAIN all : all[i] # 9}))

Unpadded(whole) == SubSeq(whole, Min({Len(whole)} \cup {i \in DOMAIN whole : whole[i] # 0}), Len(whole))
SplitAt(all, places) ==
    [whole |-> Unpadded(SubSeq(all, 1, Len(all) - places)), fraction |-> SubSeq(all, Len(all) - places + 1, Len(all))]
Cut(whole, fraction, places) ==
    IF Len(fraction) <= places THEN SplitAt(whole \o fraction \o Zeros(places - Len(fraction)), places)
    ELSE IF fraction[places + 1] >= 5 THEN SplitAt(Raised(whole \o SubSeq(fraction, 1, places)), places)
    ELSE SplitAt(whole \o SubSeq(fraction, 1, places), places)
RoundedDigits(digits, point, places) ==
    CASE point <= 0 -> Cut(<<0>>, Zeros(-point) \o digits, places)
      [] point > 0 /\ point >= Len(digits) -> Cut(digits \o Zeros(point - Len(digits)), <<>>, places)
      [] point > 0 /\ point < Len(digits) -> Cut(SubSeq(digits, 1, point), SubSeq(digits, point + 1, Len(digits)), places)

-----------------------------------------------------------------------------
(* How they are written *)

Filler(c) == CASE c = "0" -> <<"0">> [] c = "?" -> <<" ">> [] c = "#" -> <<>>

\* The whole number fills its slots from the right, and the first takes what is left.
WholeText(slots, k, whole) ==
    IF k = 1 THEN (IF Len(whole) < Len(slots) THEN Filler(slots[1].c) ELSE Chars(SubSeq(whole, 1, Len(whole) - Len(slots) + 1)))
    ELSE IF Len(whole) > Len(slots) - k THEN Chars(<<whole[Len(whole) - Len(slots) + k]>>)
    ELSE Filler(slots[k].c)
Ungrouped(slots, whole) == Joined([k \in DOMAIN slots |-> WholeText(slots, k, whole)])
Starts(text, i) ==
    /\ i > 1 /\ IsDigit(text[i - 1])
    /\ \E n \in {3, 6, 9} : /\ i + n - 1 <= Len(text) /\ \A j \in i..(i + n - 1) : IsDigit(text[j])
                            /\ i + n <= Len(text) => ~IsDigit(text[i + n])
Grouped(text, l) == Joined([i \in DOMAIN text |-> IF Starts(text, i) THEN <<l.thousands, text[i]>> ELSE <<text[i]>>])

\* Optional places are dropped from the right while they would only write a zero.
FractionText(slots, k, fraction) ==
    IF \A j \in k..Len(slots) : fraction[j] = 0 /\ slots[j].c # "0" THEN Filler(slots[k].c) ELSE Chars(<<fraction[k]>>)

DigitsOf(n) == IF n < 10 THEN <<n>> ELSE <<n \div 10, n % 10>>
Padded(n, size) == Chars(Zeros(IF Len(DigitsOf(n)) < size THEN size - Len(DigitsOf(n)) ELSE 0) \o DigitsOf(n))
Nth(items, i) == Cardinality({j \in 1..i : items[j].kind = "digit" /\ items[j].region = items[i].region})

ItemText(items, i, l, slots, whole, fraction, exponent) ==
    CASE items[i].kind = "literal" -> <<items[i].c>>
      [] items[i].kind = "comma" -> IF WholeBefore(items, i) THEN <<>> ELSE <<",">>
      [] items[i].kind = "point" -> (IF slots = <<>> THEN Chars(whole) ELSE <<>>) \o <<l.decimal>>
      [] items[i].kind = "exponent" -> <<"E">> \o (IF exponent < 0 THEN <<"-">> ELSE IF items[i].c = "+" THEN <<"+">> ELSE <<>>)
      [] items[i].kind = "digit" /\ items[i].region = "whole" ->
             IF ~Grouping(items) THEN WholeText(slots, Nth(items, i), whole)
             ELSE IF Nth(items, i) = 1 THEN Grouped(Ungrouped(slots, whole), l) ELSE <<>>
      [] items[i].kind = "digit" /\ items[i].region = "fraction" -> FractionText(Slots(items, "fraction"), Nth(items, i), fraction)
      [] items[i].kind = "digit" /\ items[i].region = "exponent" ->
             IF Nth(items, i) > 1 THEN <<>>
             ELSE Padded(IF exponent < 0 THEN -exponent ELSE exponent,
                         Len(SelectSeq(Slots(items, "exponent"), LAMBDA x : x.c = "0")))

WithDigits(items, l, found, exponent) ==
    Joined([i \in DOMAIN items |->
        ItemText(items, i, l, Slots(items, "whole"), IF found.whole = <<0>> THEN <<>> ELSE found.whole, found.fraction, exponent)])

Width(items) == IF Slots(items, "whole") = <<>> THEN 1 ELSE Len(Slots(items, "whole"))
\* Rounding may make one digit too many before the exponent.  Mutated: it stays.
FittedAnyWay(items, l, n, places, exponent, found) == WithDigits(items, l, found, exponent)
Fitted(items, l, n, places, exponent, found) ==
    IF Len(found.whole) > Width(items)
    THEN WithDigits(items, l, RoundedDigits(n.digits, Width(items) - 1, places), exponent + 1)
    ELSE WithDigits(items, l, found, exponent)
WithExponent(items, l, n, places, exponent) ==
    Fitted(items, l, n, places, exponent, RoundedDigits(n.digits, n.point - exponent, places))
Scaled(n, by) == IF n = Zero THEN n ELSE [n EXCEPT !.point = @ + by]
Places(items) == Len(Slots(items, "fraction"))
WithItems(items, l, n) ==
    IF Exponents(items) # {} /\ n # Zero
    THEN WithExponent(items, l, n, Places(items), n.point - Width(items))
    ELSE WithDigits(items, l, RoundedDigits(n.digits, n.point, Places(items)), 0)
Written(items, l, n) == WithItems(items, l, Scaled(n, 2 * Percent(items) - 3 * Scale(items)))

\* formatNumber
SectionFor(n, sections) ==
    CASE n.negative /\ Len(sections) > 1 -> 2
      [] n = Zero /\ Len(sections) > 2 -> 3
      [] OTHER -> 1
Format(n, sections, l) ==
    (IF n.negative /\ Len(sections) = 1 THEN <<"-">> ELSE <<>>)
    \o Written(ItemsOf(sections[SectionFor(n, sections)]), l, n)

\* editText, of a number: General Number.
Plainly(found, l) == Chars(found.whole) \o (IF found.fraction = <<>> THEN <<>> ELSE <<l.decimal>> \o Chars(found.fraction))
General(n, l) ==
    (IF n.negative THEN <<"-">> ELSE <<>>)
    \o Plainly(RoundedDigits(n.digits, n.point, IF Len(n.digits) > n.point THEN Len(n.digits) - n.point ELSE 0), l)

-----------------------------------------------------------------------------
(* How one is read *)

\* PLAIN_NUMBER, and the number it is.
Plain(text) ==
    LET signed == Len(text) > 0 /\ text[1] \in {"+", "-"}
        es == {i \in DOMAIN text : text[i] \in {"E", "e"}}
        end == IF es = {} THEN Len(text) ELSE Min(es) - 1
        mantissa == SubSeq(text, IF signed THEN 2 ELSE 1, end)
        power == SubSeq(text, end + 2, Len(text))
        powered == IF power # <<>> /\ power[1] \in {"+", "-"} THEN Tail(power) ELSE power
    IN [negative |-> signed /\ text[1] = "-", mantissa |-> mantissa, hasPower |-> es # {},
        back |-> powered # power /\ power[1] = "-", power |-> powered]
Dots(mantissa) == {i \in DOMAIN mantissa : mantissa[i] = "."}
IsPlain(p) ==
    /\ Cardinality(Dots(p.mantissa)) <= 1
    /\ \E i \in DOMAIN p.mantissa : IsDigit(p.mantissa[i])
    /\ \A i \in DOMAIN p.mantissa : IsDigit(p.mantissa[i]) \/ p.mantissa[i] = "."
    /\ p.hasPower => p.power # <<>> /\ \A i \in DOMAIN p.power : IsDigit(p.power[i])
Digits(mantissa) == LET digits == SelectSeq(mantissa, IsDigit) IN [i \in DOMAIN digits |-> DigitOf(digits[i])]
Power(p) == FoldLeft(LAMBDA a, c : a * 10 + DigitOf(c), 0, p.power) * (IF p.back THEN -1 ELSE 1)
WholeDigits(mantissa) == IF Dots(mantissa) = {} THEN Len(mantissa) ELSE Min(Dots(mantissa)) - 1
PlainNumber(p, negative, percent) ==
    IF ~IsPlain(p) THEN None
    ELSE Number(negative # p.negative, Digits(p.mantissa), WholeDigits(p.mantissa) + Power(p) - 2 * percent)

Without(text, c) == SelectSeq(text, LAMBDA x : x # c)
\* Its separators.  Mutated: those of the whole number are read as they stand.
SeparatedAsWritten(whole, fraction, hasPoint, l) == IF hasPoint THEN whole \o <<".">> \o fraction ELSE whole
Separated(whole, fraction, hasPoint, l) ==
    CASE l.thousands # " " /\ \E i \in DOMAIN fraction : fraction[i] = l.thousands -> <<>>
      [] OTHER -> (IF l.thousands = " " THEN whole ELSE Without(whole, l.thousands)) \o (IF hasPoint THEN <<".">> \o fraction ELSE <<>>)
AtPoint(text, points, l) ==
    IF points = {} THEN Separated(text, <<>>, FALSE, l)
    ELSE Separated(SubSeq(text, 1, Min(points) - 1), SubSeq(text, Min(points) + 1, Len(text)), TRUE, l)
Simple(text, negative, percent, l) ==
    PlainNumber(Plain(AtPoint(text, {i \in DOMAIN text : text[i] = l.decimal}, l)), negative, percent)
NoMinus(text, negative, percent, l) ==
    IF Len(text) > 1 /\ text[1] \notin {"-", "+"} /\ Last(text) = "-"
    THEN Simple(Front(text), ~negative, percent, l)
    ELSE Simple(text, negative, percent, l)
NoPercent(text, negative, l) ==
    \* So many percent signs at its end.
    LET kept == Max({0} \cup {i \in DOMAIN text : text[i] # "%"})
    IN NoMinus(SubSeq(text, 1, kept), negative, Len(text) - kept, l)
NoSpaces(text, l) ==
    CASE text = <<>> -> None
      [] Len(text) > 1 /\ text[1] = "(" /\ Last(text) = ")" -> NoPercent(SubSeq(text, 2, Len(text) - 1), TRUE, l)
      [] text # <<>> /\ ~(Len(text) > 1 /\ text[1] = "(" /\ Last(text) = ")") -> NoPercent(text, FALSE, l)

\* parseNumber
ParseNumber(text, l) == NoSpaces(Without(text, " "), l)

-----------------------------------------------------------------------------
(* One number, a call after the other *)

VARIABLES number,  \* None when what is written is not one
          locale,
          text,    \* what is written
          from,    \* the number it is of
          written, \* the format it is written with, None when to be edited
          calls

vars == <<number, locale, text, from, written, calls>>

IsNumber(n) == n.digits # <<>> /\ (n # Zero => n.digits[1] # 0 /\ Last(n.digits) # 0)
TypeOK == number # None => IsNumber(number)

Show(pattern) ==
    /\ number # None /\ text = <<>> /\ calls < MaxCalls
    /\ text' = Format(number, SectionsOf(ScanFormat(pattern)), locale) /\ written' = pattern
    /\ from' = number /\ calls' = calls + 1
    /\ UNCHANGED <<number, locale>>

Edit ==
    /\ number # None /\ text = <<>> /\ calls < MaxCalls
    /\ text' = General(number, locale) /\ written' = None
    /\ from' = number /\ calls' = calls + 1
    /\ UNCHANGED <<number, locale>>

\* numbervalue, and a box that is left.
Read ==
    /\ text # <<>>
    /\ number' = ParseNumber(text, locale) /\ text' = <<>>
    /\ UNCHANGED <<locale, from, written, calls>>

Init == number \in Numbers /\ locale \in Locales /\ text = <<>> /\ from = number /\ written = None /\ calls = 0

Next == (\E pattern \in Formats : Show(pattern)) \/ Edit \/ Read

Spec == Init /\ [][Next]_vars

-----------------------------------------------------------------------------
(* Properties *)

\* A number as an integer, of units of 10^-5.
Ten(n) == IF n < 0 THEN 0 ELSE 10 ^ n
Magnitude(n) == FoldLeft(LAMBDA a, d : a * 10 + d, 0, n.digits) * Ten(n.point - Len(n.digits) + 5)

Parsed(pattern) == ItemsOf(SectionsOf(ScanFormat(pattern))[SectionFor(from, SectionsOf(ScanFormat(pattern)))])
Unit(items) == IF Exponents(items) # {} /\ from # Zero THEN Ten(from.point - Width(items) - Places(items) + 5)
               ELSE Ten(5 - Places(items) - 2 * Percent(items) + 3 * Scale(items))

\* What a box shows to be edited reads as the number it holds.
EditedIsRead == written = None /\ text = <<>> => number = from

\* What a format writes reads as the number nearest to it that has so many places, the larger one
\* of two; a format of thousands as so many thousands.  A zero no digit is asked for may be left out.
WrittenIsNearest ==
    written # None /\ text = <<>> =>
        \E items \in {Parsed(written)} : \E unit \in {Unit(items)} : \E m \in {Magnitude(from)} :
            \E nearest \in {((2 * m + unit) \div (2 * unit)) * unit} :
                IF number = None THEN nearest = 0 /\ \A i \in DOMAIN items : items[i].c # "0"
                ELSE /\ number # Zero => number.negative = from.negative
                     /\ Magnitude(Scaled(number, 3 * Scale(items))) = nearest

\* A number read off what a format wrote is written the same again.
WrittenAgain ==
    written # None /\ text = <<>> /\ number # None /\ (number # Zero \/ ~from.negative) =>
        \E sections \in {SectionsOf(ScanFormat(written))} :
            Scale(ItemsOf(sections[1])) = 0 => Format(number, sections, locale) = Format(from, sections, locale)
=============================================================================
