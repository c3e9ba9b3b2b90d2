------------------------------ MODULE TextBox ------------------------------
(***************************************************************************)
(* A text box with an Input Mask, a Format or both (standard.js inputMask, *)
(* maskedInput, textBox): what it holds, what it shows, what a person may  *)
(* type into it, and the events others hear.                               *)
(*                                                                         *)
(* A text is a sequence of characters.  The caret may stand anywhere, and  *)
(* anything may be selected, before an edit; where an edit leaves it is    *)
(* left out.  The one format is that of numbers, with "$" before them; "L" *)
(* stands for a number with more digits than the box is edited with.       *)
(***************************************************************************)
EXTENDS Naturals, Sequences, SequencesExt, TLC

CONSTANTS None,
          Boxes,     \* the boxes there are, each [written, formatted]: its mask, a sequence of
                     \* characters, empty if there is none; whether it has a format
          Char,      \* what is typed
          Given,     \* what formulas give the box
          MaxEdits   \* bound: what a person does to the box

Digit == {"1", "2"}
Lower == {"a"}
Upper == {"A"}

VARIABLES
    box,               \* its mask as read, and whether it has a format
    value, unreadable, \* what it holds; what was typed that could not be read, or None
    editing,
    startedWith,       \* what it showed when it took the cursor, None if it has not
    places,             \* the places of its mask
    shown,             \* input.value
    committed,         \* what the mask held when its editing began
    changeSeen,        \* whether a change event came from the browser
    edits,
    before, touched, given \* history: the value, and whether a person edited, since the cursor
                           \* came; whether the value is a formula's

vars == <<box, value, unreadable, editing, startedWith, places, shown, committed, changeSeen,
          edits, before, touched, given>>

-----------------------------------------------------------------------------
(* The mask as it is written *)

\* maskSections: parts between ";", of which two are seen; a quoted or escaped one is none.
Sections(written) ==
    LET Add(acc, c) == [acc EXCEPT !.parts[Len(acc.parts)] = Append(@, c)]
        Step(acc, c) ==
            CASE acc.escaped -> [Add(acc, c) EXCEPT !.escaped = FALSE]
              [] ~acc.escaped /\ acc.quoted -> [Add(acc, c) EXCEPT !.quoted = (c # "'")]
              [] ~acc.escaped /\ ~acc.quoted /\ c = ";" /\ Len(acc.parts) < 3 -> [acc EXCEPT !.parts = Append(@, <<>>)]
              [] OTHER -> [Add(acc, c) EXCEPT !.escaped = (c = "e"), !.quoted = (c = "'")]
    IN FoldLeft(Step, [parts |-> <<<<>>>>, escaped |-> FALSE, quoted |-> FALSE], written).parts

\* The places ("e" escapes what follows it, "'" quotes).
Place(accepts, required) == [literal |-> None, accepts |-> accepts, required |-> required]
Places == [c \in {"0", "9", "L", "?"} |->
              CASE c = "0" -> Place(Digit, TRUE) [] c = "9" -> Place(Digit, FALSE)
                [] c = "L" -> Place(Lower \cup Upper, TRUE) [] c = "?" -> Place(Lower \cup Upper, FALSE)]
Literal(c) == [literal |-> c, accepts |-> {}, required |-> FALSE, upper |-> FALSE]

\* inputMask
Parsed(written) ==
    LET Step(acc, c) ==
            CASE acc.escaped -> [acc EXCEPT !.slots = Append(@, Literal(c)), !.escaped = FALSE]
              [] ~acc.escaped /\ acc.quoted ->
                     IF c = "'" THEN [acc EXCEPT !.quoted = FALSE]
                     ELSE [acc EXCEPT !.slots = Append(@, Literal(c))]
              [] ~acc.escaped /\ ~acc.quoted ->
                     CASE c = "e" -> [acc EXCEPT !.escaped = TRUE]
                       [] c = "'" -> [acc EXCEPT !.quoted = TRUE]
                       [] c = ">" -> [acc EXCEPT !.upper = TRUE]
                       [] c = "!" -> [acc EXCEPT !.fromRight = TRUE]
                       [] c \in DOMAIN Places ->
                              [acc EXCEPT !.slots = Append(@, [upper |-> acc.upper] @@ Places[c])]
                       [] OTHER -> [acc EXCEPT !.slots = Append(@, Literal(c))]
    IN FoldLeft(Step, [slots |-> <<>>, upper |-> FALSE, fromRight |-> FALSE, escaped |-> FALSE, quoted |-> FALSE],
                Sections(written)[1])

MaskOf(b) ==
    LET sections == Sections(b.written)
    IN [slots |-> Parsed(b.written).slots, fromRight |-> Parsed(b.written).fromRight,
        keepLiterals |-> Len(sections) > 1 /\ sections[2] = <<"0">>, formatted |-> b.formatted]

Slots == box.slots
Masked == \E i \in DOMAIN Slots : Slots[i].literal = None
IsPlace(i) == i \in DOMAIN Slots /\ Slots[i].literal = None

-----------------------------------------------------------------------------
(* What the places take *)

\* The character a place keeps for one that is typed, or None.
Accept(i, c) ==
    LET cased == IF Slots[i].upper /\ c \in Lower THEN "A" ELSE c
    IN IF cased \in Slots[i].accepts THEN cased ELSE None

Empty == [i \in DOMAIN Slots |-> None]
Clear(state, start, end) == [i \in DOMAIN Slots |-> IF start <= i /\ i < end THEN None ELSE state[i]]
First(found) == IF found = {} THEN Len(Slots) + 1 ELSE Min(found)

\* A literal that stands there is stepped over; one past optional places skips them.
InsertChar(acc, c) ==
    LET at == First({i \in acc.at..Len(Slots) : IsPlace(i) \/ Slots[i].literal = c})
        ahead == First({i \in at..Len(Slots) : ~IsPlace(i) \/ Slots[i].required})
    IN CASE at > Len(Slots) -> [acc EXCEPT !.at = at]
         [] at <= Len(Slots) /\ ~IsPlace(at) -> [acc EXCEPT !.at = at + 1]
         [] IsPlace(at) /\ Accept(at, c) # None -> [state |-> [acc.state EXCEPT ![at] = Accept(at, c)], at |-> at + 1]
         [] IsPlace(at) /\ Accept(at, c) = None ->
                IF ahead <= Len(Slots) /\ Slots[ahead].literal = c THEN [acc EXCEPT !.at = ahead + 1] ELSE acc

\* mask.insert: over what is selected.
Insert(state, start, end, text) ==
    FoldLeft(InsertChar, [state |-> Clear(state, start, end), at |-> start], text).state

\* mask.erase: what is selected, or the place before or after the caret.
Erased(state, start, end, backwards) ==
    LET one == IF backwards THEN {i \in DOMAIN Slots : i < start /\ IsPlace(i)} ELSE {i \in DOMAIN Slots : i >= start /\ IsPlace(i)}
    IN CASE end > start -> Clear(state, start, end)
         [] end = start /\ one = {} -> state
         [] end = start /\ one # {} -> [state EXCEPT ![IF backwards THEN Max(one) ELSE Min(one)] = None]

FromText(text) == Insert(Empty, 1, 1, text)
IsEmpty(state) == \A i \in DOMAIN Slots : state[i] = None

\* Each slot as it is, its literal or what stands for an empty place.
Joined(state, literals, blank) ==
    FoldLeft(LAMBDA acc, i : acc \o (CASE ~IsPlace(i) -> IF literals THEN <<Slots[i].literal>> ELSE <<>>
                                       [] IsPlace(i) -> IF state[i] = None THEN blank ELSE <<state[i]>>),
             <<>>, [i \in DOMAIN Slots |-> i])
Display(state, open) == IF ~open /\ IsEmpty(state) THEN <<>> ELSE Joined(state, TRUE, <<"_">>)
TypedOf(state) == IF IsEmpty(state) THEN <<>> ELSE Joined(state, TRUE, <<>>)
ValueOf(state) == IF IsEmpty(state) THEN <<>> ELSE Joined(state, box.keepLiterals, <<>>)
Complete(state) == IsEmpty(state) \/ \A i \in DOMAIN Slots : Slots[i].required => state[i] # None

\* With "!", what was typed moves to the end, unless a place there does not take it.
PlacesOnly == SelectSeq([i \in DOMAIN Slots |-> i], IsPlace)
Target(order, state) == PlacesOnly[Len(PlacesOnly) - Len(SelectSeq(PlacesOnly, LAMBDA i : state[i] # None)) + order]
Moved(state) ==
    LET typed == SelectSeq(PlacesOnly, LAMBDA i : state[i] # None)
    IN [i \in DOMAIN Slots |->
           IF \E k \in DOMAIN typed : Target(k, state) = i
           THEN Accept(i, state[typed[CHOOSE k \in DOMAIN typed : Target(k, state) = i]]) ELSE None]

\* Mutated: whether or not each takes it.
SettleAnyWay(state) ==
    LET typed == SelectSeq(PlacesOnly, LAMBDA i : state[i] # None)
    IN [i \in DOMAIN Slots |->
           IF box.fromRight /\ \E k \in DOMAIN typed : Target(k, state) = i
           THEN state[typed[CHOOSE k \in DOMAIN typed : Target(k, state) = i]]
           ELSE IF box.fromRight THEN None ELSE state[i]]
Settle(state) ==
    LET typed == SelectSeq(PlacesOnly, LAMBDA i : state[i] # None)
    IN IF box.fromRight /\ \A k \in DOMAIN typed : Moved(state)[Target(k, state)] # None THEN Moved(state) ELSE state

-----------------------------------------------------------------------------
(* What the format makes of a value *)

Number(text) == text # <<>> /\ \A i \in DOMAIN text : text[i] \in Digit \cup {"L"}

\* keptValue, format, editText and readTyped of numbers.
Idle(v) == IF box.formatted /\ Number(v) THEN <<"$">> \o v ELSE v
Edit(v) == IF box.formatted THEN [i \in DOMAIN v |-> IF v[i] = "L" THEN "1" ELSE v[i]] ELSE v
Read(text) == IF ~box.formatted \/ text = <<>> \/ Number(text) THEN text ELSE None

-----------------------------------------------------------------------------
(* The box *)

Text == UNION {[1..n -> Char] : n \in 0..2}

TypeOK ==
    /\ editing \in BOOLEAN /\ changeSeen \in BOOLEAN /\ touched \in BOOLEAN /\ given \in BOOLEAN
    /\ (startedWith = None) = ~editing
    /\ DOMAIN places = DOMAIN Slots
    /\ unreadable # None => box.formatted

TypedNow == IF ~Masked THEN shown ELSE IF box.formatted THEN TypedOf(places) ELSE ValueOf(places)

\* Mutated: also when it shows what it showed at first.
PendingAlways == editing
Pending == editing /\ TypedNow # startedWith

\* The getter: what is being typed, as it reads so far.
Value ==
    IF Pending THEN (IF Read(TypedNow) = None THEN TypedNow ELSE Read(TypedNow))
    ELSE IF unreadable # None THEN unreadable ELSE value
Valid ==
    /\ IF Pending THEN Read(TypedNow) # None ELSE unreadable = None
    /\ Masked => Complete(places)

EditingText(v, u) == IF u # None THEN u ELSE Edit(v)
IdleText(v, u) == IF u # None THEN u ELSE Idle(v)

\* show in a box that is edited: what it then shows is where the edit starts.
Begins(v, u) ==
    LET read == IF Masked THEN FromText(EditingText(v, u)) ELSE places
    IN /\ places' = read /\ changeSeen' = FALSE
       /\ committed' = (IF Masked THEN ValueOf(read) ELSE committed)
       /\ shown' = (IF Masked THEN Display(read, TRUE) ELSE EditingText(v, u))
       /\ startedWith' = (IF ~Masked THEN EditingText(v, u) ELSE IF box.formatted THEN TypedOf(read) ELSE ValueOf(read))
       /\ before' = v /\ touched' = FALSE

Focus ==
    /\ ~editing /\ editing' = TRUE
    /\ Begins(value, unreadable)
    /\ UNCHANGED <<value, unreadable, edits, given>>

\* The setter: whatever was being typed goes.
SetValue(v) ==
    /\ value' = v /\ unreadable' = None /\ given' = TRUE /\ before' = v
    /\ \/ editing /\ Begins(v, None)
       \/ /\ ~editing
          /\ places' = (IF Masked /\ ~box.formatted THEN FromText(v) ELSE places)
          /\ shown' = (IF Masked /\ ~box.formatted THEN Display(FromText(v), FALSE) ELSE IdleText(v, None))
          /\ UNCHANGED <<startedWith, committed, changeSeen, touched>>
    /\ UNCHANGED <<editing, edits>>

-----------------------------------------------------------------------------
(* Edits *)

Edits == editing /\ edits < MaxEdits /\ edits' = edits + 1 /\ touched' = TRUE

Fill(read) ==
    /\ Edits /\ places' = read /\ shown' = Display(read, TRUE)
    /\ UNCHANGED <<value, unreadable, editing, startedWith, committed, changeSeen, before, given>>

Type(start, end, text) == Masked /\ text # <<>> /\ Fill(Insert(places, start, end, text))
Delete(start, end, backwards) == Masked /\ Fill(Erased(places, start, end, backwards))

\* An edit the mask did not get to make is worked out from what changed.
ReadBack(start, end, text) ==
    /\ editing /\ Masked
    /\ LET now == SubSeq(shown, 1, start - 1) \o text \o SubSeq(shown, end, Len(shown))
           least == Min({Len(now), Len(shown)})
           prefix == Max({p \in 0..least : SubSeq(now, 1, p) = SubSeq(shown, 1, p)})
           suffix == Max({s \in 0..(least - prefix) :
                             SubSeq(now, Len(now) - s + 1, Len(now)) = SubSeq(shown, Len(shown) - s + 1, Len(shown))})
           replacedTo == Min({Len(Slots), Len(shown) - suffix})
           left == IF replacedTo > prefix THEN Clear(places, prefix + 1, replacedTo + 1) ELSE places
       IN /\ now # shown
          /\ Fill(Insert(left, prefix + 1, prefix + 1, SubSeq(now, prefix + 1, Len(now) - suffix)))

\* Without a mask the browser makes it.
TypePlain(text) ==
    /\ ~Masked /\ Edits /\ shown' = text
    /\ UNCHANGED <<value, unreadable, editing, startedWith, places, committed, changeSeen, before, given>>

\* commit
Commit ==
    IF Pending THEN
        /\ unreadable' = (IF Read(TypedNow) = None THEN TypedNow ELSE None)
        /\ value' = (IF Read(TypedNow) = None THEN value ELSE Read(TypedNow))
        /\ given' = FALSE
    ELSE UNCHANGED <<value, unreadable, given>>

Enter ==
    /\ editing /\ Commit
    /\ startedWith' = TypedNow
    /\ UNCHANGED <<editing, places, shown, committed, changeSeen, edits, before, touched>>

\* The browser tells of a change when it made an edit itself.
BrowserTells ==
    /\ editing /\ touched /\ changeSeen' = TRUE
    /\ UNCHANGED <<value, unreadable, editing, startedWith, places, shown, committed, edits, before, touched, given>>

\* Whether the mask tells of a change in the browser's place.
Announces == Masked /\ ~changeSeen /\ ValueOf(Settle(places)) # committed

Blur ==
    /\ editing /\ Commit
    /\ editing' = FALSE /\ startedWith' = None
    /\ places' = (IF Masked THEN Settle(places) ELSE places)
    /\ shown' = (IF Masked /\ ~box.formatted THEN Display(Settle(places), FALSE) ELSE IdleText(value', unreadable'))
    /\ UNCHANGED <<committed, changeSeen, edits, before, touched>>

Init ==
    /\ box \in {MaskOf(b) : b \in Boxes}
    /\ value \in Given /\ unreadable = None /\ editing = FALSE /\ startedWith = None
    /\ places = FromText(value)
    /\ shown = IF Masked /\ ~box.formatted THEN Display(FromText(value), FALSE) ELSE Idle(value)
    /\ committed = <<>> /\ changeSeen = FALSE /\ edits = 0
    /\ before = value /\ touched = FALSE /\ given = TRUE

Next ==
    /\ UNCHANGED box
    /\ \/ Focus \/ Enter \/ Blur \/ BrowserTells
       \/ \E v \in Given : SetValue(v)
       \/ \E start \in 1..(Len(Slots) + 1) : \E end \in start..(Len(Slots) + 1) :
              \/ \E text \in Text : Type(start, end, text) \/ ReadBack(start, end, text)
              \/ \E backwards \in BOOLEAN : Delete(start, end, backwards)
       \/ \E text \in Text : TypePlain(text)

Spec == Init /\ [][Next]_vars

-----------------------------------------------------------------------------
(* Properties *)

\* Whatever is typed, pasted, erased, read back or moved to the end: a place holds only a
\* character it takes, and the cases the mask asks for.
PlacesHoldTheirKind ==
    \A i \in DOMAIN Slots : places[i] # None => IsPlace(i) /\ Accept(i, places[i]) = places[i]

\* What the mask makes of a value when it is read again.
Fits(v) == ValueOf(FromText(Edit(v))) = v

\* A box that is not edited shows what it holds, if that fits its mask.
ShowsWhatItHolds ==
    ~editing => /\ Masked /\ ~box.formatted /\ Fits(value) => ValueOf(places) = value
                /\ ~Masked => shown = IdleText(value, unreadable)

\* Visiting a box leaves what it holds, and while it is edited it tells what it will hold
\* after that, and is valid only if it will be.
VisitsLeaveTheValue ==
    editing /\ ~editing' => /\ ~touched => UNCHANGED <<value, unreadable>>
                            /\ Value' = Value /\ (Valid => Valid')

\* A person's edit that changed what a masked box holds is told, if what it held fitted.
ChangesAreTold ==
    editing /\ ~editing' /\ Masked /\ value' # before /\ Fits(before)
        => Announces \/ changeSeen
=============================================================================
