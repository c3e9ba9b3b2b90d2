------------------------------- MODULE Dates -------------------------------
(***************************************************************************)
(* Dates and times in formulas and text boxes (standard.js): the functions *)
(* that make, move and compare them, how a format writes one, and how one  *)
(* is read as a person types it in a locale.  One value is worked on, a    *)
(* call after the other.                                                   *)
(*                                                                         *)
(* A date is its parts.  A written one is a sequence of atoms: numbers     *)
(* with their digits, names of months and days, the time's AM or PM, and   *)
(* marks between them; spaces and fractions of a second are left out, and  *)
(* so are the zone of an ISO date and the errors other than #NUM!.         *)
(***************************************************************************)
EXTENDS Integers, Sequences, FiniteSets, SequencesExt, TLC

CONSTANTS None,
          Starts,    \* the dates worked on at first
          Amounts,   \* what is added
          Patterns,  \* per locale its short date and long time, sequences of "d", "m", "y", "h", "s", "AM/PM" and marks
          ThisYear,
          MaxCalls   \* bound

-----------------------------------------------------------------------------
(* The calendar of Date.UTC *)

\* Days from the 1st of March of the year 0 to that of a month, counted from March.
FromMarch(y, mo) == 365 * y + y \div 4 - y \div 100 + y \div 400 + (153 * mo + 2) \div 5

\* Days since the 1st of January 1970, of any year and any number of months and days.
DayNumber(y, mo, d) == FromMarch((y * 12 + mo - 3) \div 12, (y * 12 + mo - 3) % 12) + d - 719469

DaysIn(y, mo) == DayNumber(y, mo + 1, 1) - DayNumber(y, mo, 1)

YearOf(day) == Max({y \in {(day * 400) \div 146097 + 1970 + i : i \in -1..1} : DayNumber(y, 1, 1) <= day})
MonthOf(day, y) == Max({mo \in 1..12 : DayNumber(y, mo, 1) <= day})

Parts(kind, y, mo, d, seconds) ==
    [kind |-> kind, y |-> y, mo |-> mo, d |-> d, h |-> seconds \div 3600, mi |-> (seconds \div 60) % 60, s |-> seconds % 60]
InMonth(day, y, mo, seconds, kind) == Parts(kind, y, mo, day - DayNumber(y, mo, 1) + 1, seconds)
InYear(day, y, seconds, kind) == InMonth(day, y, MonthOf(day, y), seconds, kind)
PartsAt(day, seconds, kind) == InYear(day, YearOf(day), IF kind = "date" THEN 0 ELSE seconds, kind)

Day(p) == DayNumber(p.y, p.mo, p.d)
Seconds(p) == p.h * 3600 + p.mi * 60 + p.s
Real(p) == p.y \in 1..9999 /\ p.mo \in 1..12 /\ p.d \in 1..DaysIn(p.y, p.mo) /\ p.h <= 23 /\ p.mi <= 59 /\ p.s <= 59
Checked(p) == IF Real(p) THEN p ELSE None
TimeDate == [y |-> 1899, mo |-> 12, d |-> 30]

-----------------------------------------------------------------------------
(* The functions *)

\* isoText, the text a value is passed on as, and read again: a time's has no date.
IsoText(p) == IF p.kind = "time" THEN [p EXCEPT !.y = TimeDate.y, !.mo = TimeDate.mo, !.d = TimeDate.d] ELSE p

\* dateResult: None is #NUM!.
Result(p) == IF p.y \in 1..9999 THEN IsoText(p) ELSE None

ToMonth(p, y, mo) == [p EXCEPT !.y = y, !.mo = mo, !.d = IF DaysIn(y, mo) < @ THEN DaysIn(y, mo) ELSE @]

\* Mutated: the day stays, although the month may have fewer.
AddMonthsOnly(p, months) ==
    [p EXCEPT !.y = (p.y * 12 + p.mo - 1 + months) \div 12, !.mo = ((p.y * 12 + p.mo - 1 + months) % 12) + 1]
AddMonths(p, months) == ToMonth(p, (p.y * 12 + p.mo - 1 + months) \div 12, ((p.y * 12 + p.mo - 1 + months) % 12) + 1)

Century(y) == IF y \in 0..29 THEN y + 2000 ELSE IF y \in 30..99 THEN y + 1900 ELSE y
Date(y, mo, d) == Result(PartsAt(DayNumber(Century(y), mo, d), 0, "date"))
Time(h, mi, s) ==
    IF h * 3600 + mi * 60 + s < 0 THEN None
    ELSE IsoText(PartsAt(DayNumber(TimeDate.y, TimeDate.mo, TimeDate.d), (h * 3600 + mi * 60 + s) % 86400, "time"))

DateValue(p) == IF p.kind = "time" THEN None ELSE [p EXCEPT !.kind = "date", !.h = 0, !.mi = 0, !.s = 0]
TimeValue(p) == IsoText([p EXCEPT !.kind = "time"])

\* From 0, a Sunday.
DayOfWeek(day) == (day + 4) % 7
Weekday(p, type) ==
    CASE type = 1 -> DayOfWeek(Day(p)) + 1
      [] type = 2 -> ((DayOfWeek(Day(p)) + 6) % 7) + 1
      [] type = 3 -> (DayOfWeek(Day(p)) + 6) % 7

ToDate(p) == [p EXCEPT !.kind = "date", !.h = 0, !.mi = 0, !.s = 0]
EDate(p, months) == Result(ToDate(AddMonths(p, months)))
LastOf(p) == Result([ToDate(p) EXCEPT !.d = DaysIn(p.y, p.mo)])
EoMonth(p, months) == LastOf(AddMonths(p, months))

Monthly == [i \in {"yyyy", "q", "m"} |-> CASE i = "yyyy" -> 12 [] i = "q" -> 3 [] i = "m" -> 1]
Daily == [i \in {"d", "ww"} |-> IF i = "d" THEN 1 ELSE 7]
Timed == [i \in {"h", "n", "s"} |-> CASE i = "h" -> 3600 [] i = "n" -> 60 [] i = "s" -> 1]
Interval == DOMAIN Monthly \cup DOMAIN Daily \cup DOMAIN Timed

Moved(p, days, total, kind) == PartsAt(Day(p) + days + total \div 86400, total % 86400, kind)

\* A date moved by a time is one of both, and a time on its own stays one and wraps round.
DateAdd(interval, by, p) ==
    Result(IF interval \in DOMAIN Monthly THEN AddMonths(p, by * Monthly[interval])
           ELSE Moved(p, IF interval \in DOMAIN Daily THEN by * Daily[interval] ELSE 0,
                      Seconds(p) + (IF interval \in DOMAIN Timed THEN by * Timed[interval] ELSE 0),
                      IF interval \in DOMAIN Timed /\ p.kind = "date" THEN "datetime" ELSE p.kind))

\* Mutated: weeks from a Thursday, the first day there is.
WeeksFromThursday(day) == day \div 7
Week(day) == (day + 4) \div 7

DateDiff(interval, from, to) ==
    CASE interval = "yyyy" -> to.y - from.y
      [] interval = "q" -> to.y * 4 + (to.mo - 1) \div 3 - (from.y * 4 + (from.mo - 1) \div 3)
      [] interval = "m" -> to.y * 12 + to.mo - (from.y * 12 + from.mo)
      [] interval = "d" -> Day(to) - Day(from)
      [] interval = "ww" -> Week(Day(to)) - Week(Day(from))
      [] interval \in DOMAIN Timed ->
             (Day(to) - Day(from)) * (86400 \div Timed[interval])
             + Seconds(to) \div Timed[interval] - Seconds(from) \div Timed[interval]

-----------------------------------------------------------------------------
(* How one is written *)

Atom(is, n, digits) == [is |-> is, n |-> n, digits |-> digits]
Padded(n, size) == Atom("number", n, IF size >= 2 \/ n > 9 THEN 2 ELSE 1)
Field == {"y", "m", "d", "h", "s"}

\* dateItems: letters of one kind are one field; "m" beside an hour or a second is minutes.
Runs(pattern) ==
    FoldLeft(LAMBDA items, c :
                 IF c \in Field /\ items # <<>> /\ Last(items).field = c
                 THEN [items EXCEPT ![Len(items)].size = @ + 1]
                 ELSE Append(items, [field |-> c, size |-> 1]),
             <<>>, pattern)
Minutes(runs, i, fields) ==
    /\ runs[i].field = "m"
    /\ \/ \E j \in fields : j < i /\ runs[j].field = "h" /\ \A k \in fields : ~(j < k /\ k < i)
       \/ \E j \in fields : j > i /\ runs[j].field = "s" /\ \A k \in fields : ~(i < k /\ k < j)
WithMinutes(runs, fields) == [i \in DOMAIN runs |-> IF Minutes(runs, i, fields) THEN [runs[i] EXCEPT !.field = "n"] ELSE runs[i]]
FieldsIn(runs) == {i \in DOMAIN runs : runs[i].field \in Field}
Marked(runs) == WithMinutes(runs, FieldsIn(runs))
Items(pattern) == Marked(Runs(pattern))

Twelve(h) == IF h % 12 = 0 THEN 12 ELSE h % 12
Written(item, p, hour) ==
    CASE item.field = "y" -> IF item.size <= 2 THEN Atom("number", p.y % 100, 2) ELSE Atom("number", p.y, 4)
      [] item.field = "m" -> IF item.size <= 2 THEN Padded(p.mo, item.size) ELSE Atom("month", p.mo, 0)
      [] item.field = "d" -> IF item.size <= 2 THEN Padded(p.d, item.size) ELSE Atom("day", Weekday(p, 1), 0)
      [] item.field = "h" -> Padded(hour, item.size)
      [] item.field = "n" -> Padded(p.mi, item.size)
      [] item.field = "s" -> Padded(p.s, item.size)
      [] item.field = "AM/PM" -> Atom("period", IF p.h >= 12 THEN "PM" ELSE "AM", 0)
      [] OTHER -> Atom("mark", item.field, 0)
FormatItems(p, items) ==
    [i \in DOMAIN items |->
        Written(items[i], p, IF \E j \in DOMAIN items : items[j].field = "AM/PM" THEN Twelve(p.h) ELSE p.h)]
FormatDate(p, pattern) == FormatItems(p, Items(pattern))

\* editText: a date and time at midnight is written as the date.
EditText(p, l) ==
    (IF p.kind = "time" THEN <<>> ELSE FormatDate(p, l.date))
    \o (IF p.kind = "time" \/ (p.kind = "datetime" /\ Seconds(p) # 0) THEN FormatDate(p, l.time) ELSE <<>>)

-----------------------------------------------------------------------------
(* How one is read *)

Is(text, i, is) == i \in DOMAIN text /\ text[i].is = is
Mark(text, i, marks) == Is(text, i, "mark") /\ text[i].n \in marks
Digits(text, i, sizes) == Is(text, i, "number") /\ text[i].digits \in sizes

\* fieldOrder
Ordered(order) == IF Len(order) = 3 THEN order ELSE <<"m", "d", "y">>
Order(l) == Ordered(FoldLeft(LAMBDA acc, c : IF c \in {"d", "m", "y"} /\ c \notin ToSet(acc) THEN Append(acc, c) ELSE acc,
                             <<>>, l.date))

Clock(text, i) == Digits(text, i, {1, 2}) /\ Mark(text, i + 1, {":"}) /\ Digits(text, i + 2, {2})
WithSeconds(text, i) == Mark(text, i + 3, {":"}) /\ Digits(text, i + 4, {2})
TimeEnd(text, i) == IF WithSeconds(text, i) THEN i + 4 ELSE i + 2
ClockEnd(text, i) == TimeEnd(text, i) + (IF Is(text, TimeEnd(text, i) + 1, "period") THEN 1 ELSE 0)
HourOf(hour, period) ==
    IF period.is # "period" THEN hour
    ELSE IF hour \in 1..12 THEN (hour % 12) + (IF period.n = "PM" THEN 12 ELSE 0) ELSE 24
ClockTime(text, i) ==
    [h |-> HourOf(text[i].n, text[ClockEnd(text, i)]), mi |-> text[i + 2].n, s |-> IF WithSeconds(text, i) THEN text[i + 4].n ELSE 0]

\* Which part each of the numbers is.  Mutated: the locale's order, wherever the year stands.
NoYear(fields) == SelectSeq(fields, LAMBDA f : f # "y")
InOrder(numbers, fields) ==
    IF Len(numbers) = Len(fields) THEN fields ELSE IF Len(numbers) = Len(fields) - 1 THEN NoYear(fields) ELSE None
Fields(named, order) == IF named THEN SelectSeq(order, LAMBDA f : f # "m") ELSE order
AroundYear(numbers, yearAt, others) == IF Len(numbers) = Len(others) + 1 THEN InsertAt(others, yearAt, "y") ELSE None
OrderedSlots(numbers, named, fields, years) == InOrder(numbers, fields)
Slots(numbers, named, fields, years) ==
    IF years = {} THEN InOrder(numbers, fields)
    ELSE AroundYear(numbers, Min(years), IF Min(years) = 1 /\ ~named THEN <<"m", "d">> ELSE NoYear(fields))

\* The parts the numbers are, with those that are not written.
Found(numbers, slots, month) ==
    [f \in {"y", "m", "d"} |->
        IF f \notin ToSet(slots) THEN (CASE f = "y" -> ThisYear [] f = "m" -> month [] f = "d" -> 0)
        ELSE LET number == numbers[CHOOSE i \in DOMAIN slots : slots[i] = f]
             IN IF f = "y" /\ number.digits <= 2 THEN Century(number.n) ELSE number.n]

\* localeParts: the text without its time, its numbers and its names of months.
Rest(text, at) == SubSeq(text, 1, at - 1) \o SubSeq(text, ClockEnd(text, at) + 1, Len(text))
WithDate(time, kind, found) == Checked([kind |-> kind, y |-> found["y"], mo |-> found["m"], d |-> found["d"]] @@ time)
WithSlots(time, kind, numbers, month, slots) == IF slots = None THEN None ELSE WithDate(time, kind, Found(numbers, slots, month))
WithNumbers(time, kind, numbers, months, order) ==
    IF Len(months) > 1 THEN None
    ELSE WithSlots(time, kind, numbers, IF months = <<>> THEN 0 ELSE months[1].n,
                   Slots(numbers, months # <<>>, Fields(months # <<>>, order), {i \in DOMAIN numbers : numbers[i].digits >= 3}))
WithRest(time, timed, rest, order) ==
    CASE \E i \in DOMAIN rest : Is(rest, i, "period") \/ Mark(rest, i, {":"}) -> None
      [] rest = <<>> -> IF timed THEN Checked([kind |-> "time"] @@ TimeDate @@ time) ELSE None
      [] OTHER -> WithNumbers(time, IF timed THEN "datetime" ELSE "date",
                              SelectSeq(rest, LAMBDA a : a.is = "number"), SelectSeq(rest, LAMBDA a : a.is = "month"), order)
TypedAt(text, clocks, order) ==
    IF clocks = {} THEN WithRest([h |-> 0, mi |-> 0, s |-> 0], FALSE, text, order)
    ELSE WithRest(ClockTime(text, Min(clocks)), TRUE, Rest(text, Min(clocks)), order)
Typed(text, l) == TypedAt(text, {i \in DOMAIN text : Clock(text, i)}, Order(l))

\* isoParts, of dates: it is tried first.
Iso(text) ==
    Len(text) = 5 /\ Digits(text, 1, {4}) /\ Mark(text, 2, {"-"}) /\ Digits(text, 3, {2}) /\ Mark(text, 4, {"-"}) /\ Digits(text, 5, {2})
IsoParts(text) == Checked(Parts("date", text[1].n, text[3].n, text[5].n, 0))
DateParts(text, l) == IF Iso(text) /\ IsoParts(text) # None THEN IsoParts(text) ELSE Typed(text, l)

\* readTyped, in a box whose format writes this kind.
OfKind(p, kind) ==
    CASE p = None -> None
      [] p # None /\ kind = "time" -> IF p.kind = "date" THEN None ELSE TimeValue(p)
      [] p # None /\ kind = "date" -> IF p.kind = "time" THEN None ELSE ToDate(p)
      [] p # None /\ kind = "datetime" -> IF p.kind = "time" THEN None ELSE [p EXCEPT !.kind = kind]
ReadTyped(text, kind, l) == OfKind(DateParts(text, l), kind)

-----------------------------------------------------------------------------
(* One value, a call after the other *)

VARIABLES value, \* None is #NUM!
          from,  \* what it was before the call
          call   \* the call it comes from, and how many there were

vars == <<value, from, call>>

TypeOK == value # None => Real(value) /\ value.kind \in {"date", "time", "datetime"}

Calls(name, interval, by, result) ==
    /\ value # None /\ call.nr < MaxCalls
    /\ call' = [name |-> name, interval |-> interval, by |-> by, nr |-> call.nr + 1]
    /\ from' = value /\ value' = result

CallDateAdd(interval, by) == Calls("dateadd", interval, by, DateAdd(interval, by, value))
CallEDate(by) == Calls("edate", "m", by, EDate(value, by))
CallEoMonth(by) == Calls("eomonth", "m", by, EoMonth(value, by))
CallDateValue == Calls("datevalue", "d", 0, DateValue(value))
CallTimeValue == Calls("timevalue", "s", 0, TimeValue(value))

\* date(year, month + by, day), of its own parts, and time(hour, minute + by, second).
CallDate(by) == Calls("date", "m", by, Date(value.y, value.mo + by, value.d))
CallTime(by) == Calls("time", "n", by, Time(value.h, value.mi + by, value.s))

Init == value \in Starts /\ from = value /\ call = [name |-> "none", interval |-> "d", by |-> 0, nr |-> 0]

Next ==
    \/ \E by \in Amounts : \/ \E interval \in Interval : CallDateAdd(interval, by)
                           \/ CallEDate(by) \/ CallEoMonth(by) \/ CallDate(by) \/ CallTime(by)
    \/ CallDateValue \/ CallTimeValue

Spec == Init /\ [][Next]_vars

-----------------------------------------------------------------------------
(* Properties *)

Called(names) == value # None /\ call.name \in names

\* What dateadd adds datediff counts, in every interval, however months and days carry on.
AddedIsCounted ==
    Called({"dateadd", "edate", "eomonth"}) /\ from.kind # "time" =>
        DateDiff(call.interval, from, value) = call.by

\* A day begins a year, a quarter, a month or a week, or none of these.
Begins(interval, p) ==
    CASE interval = "yyyy" -> p.d = 1 /\ p.mo = 1
      [] interval = "q" -> p.d = 1 /\ p.mo \in {1, 4, 7, 10}
      [] interval = "m" -> p.d = 1
      [] interval = "d" -> TRUE
      [] interval = "ww" -> Weekday(p, 1) = 1 /\ Weekday(p, 2) = 7 /\ Weekday(p, 3) = 6

\* datediff counts the boundaries that lie between two dates, one way and the other.
BoundariesAreCounted ==
    value # None /\ Day(value) - Day(from) \in 0..100 =>
        \A i \in DOMAIN Monthly \cup DOMAIN Daily :
            \E n \in {Cardinality({day \in (Day(from) + 1)..Day(value) : Begins(i, PartsAt(day, 0, "date"))})} :
                DateDiff(i, from, value) = n /\ DateDiff(i, value, from) = -n

\* A month later is the same day or the end of a shorter month, and eomonth is an end.
MonthsEnd ==
    /\ Called({"edate"}) => value.d = from.d \/ (value.d < from.d /\ value.d = DaysIn(value.y, value.mo))
    /\ Called({"eomonth"}) /\ DateAdd("d", 1, value) # None => DateAdd("d", 1, value).d = 1

\* What a text box shows for editing in any locale reads as the value it stands for.
EditedIsRead ==
    value # None => \A l \in Patterns : ReadTyped(EditText(value, l), value.kind, l) = value

\* A year written first is the year in any locale, and one typed with two digits the one date() takes it for.
YearsAreRead ==
    value # None => \A l \in Patterns :
        /\ Typed(FormatDate(value, <<"y", "y", "y", "y", "/", "m", "/", "d">>), l) = ToDate(value)
        /\ Real([value EXCEPT !.y = Century(value.y % 100)]) =>
               \E text \in {EditText(ToDate(value), l)} : \E i \in DOMAIN text :
                   /\ text[i].digits = 4
                   /\ Typed([text EXCEPT ![i] = Atom("number", value.y % 100, 2)], l) = Date(value.y % 100, value.mo, value.d)
=============================================================================
