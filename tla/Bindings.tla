------------------------------ MODULE Bindings ------------------------------
(***************************************************************************)
(* How the formulas on a component's properties are worked out: by the      *)
(* published page, in document order and on demand (runtime.js              *)
(* applyBindings), and by the designer, which draws each control from a     *)
(* pass of its own (designer.js resolveAll).                                *)
(*                                                                         *)
(* A document binds slots, a property of a control each; a formula is the   *)
(* sequence of what it reads.  A value is the set of what it was worked     *)
(* out from, each at its version, so that an old value and a new one        *)
(* differ; two formulas that read the same are not told apart.              *)
(***************************************************************************)
EXTENDS Naturals, Sequences, SequencesExt

CONSTANTS SlotOrder, \* the slots, <<control, property>>, in document order
          Formula,   \* the formulas there are
          MaxChanges \* bound: rows shown, sizes and texts typed

Slot == ToSet(SlotOrder)
Unbound == <<>>

\* What a formula reads besides the slots: the row in front, the component's size.
Data == <<"data", "row">>
Size == <<"component", "width">>

VARIABLES
    bind,    \* the document: the formula of each slot
    shown,   \* the page: the value in each slot
    row,     \* which row is in front; 0 until the page has started
    width,   \* the measured size, by its number
    changes

vars == <<bind, shown, row, width, changes>>

IsGeometry(slot) == slot[2] \in {"x", "w"}
IsBound(slot) == slot \in Slot /\ bind[slot] # Unbound

\* What the document itself says of a slot; an input without a value is empty.
Literal(slot) == IF IsGeometry(slot) THEN {<<"literal", slot>>} ELSE {}

TypeOK ==
    /\ bind \in [Slot -> Formula \cup {Unbound}]
    /\ DOMAIN shown = Slot /\ {row, width, changes} \subseteq 0..(MaxChanges + 1)

Init ==
    /\ bind \in [Slot -> Formula \cup {Unbound}]
    /\ shown = [slot \in Slot |-> Literal(slot)]
    /\ row = 0 /\ width = 0 /\ changes = 0

-----------------------------------------------------------------------------
(* A pass of the page.  p.settled and p.sizes are the entries' marks,       *)
(* p.reads counts sizeReads, p.value collects what the formula read.        *)

RECURSIVE Resolve(_, _)

\* Mutated: the document is read as it stands.
ReadOffTheDocument(p, slot) == p

\* resolveBinding: a property that a formula names is settled first.
Settle(p, slot) == Resolve(p, slot)

\* evaluate's lookup, of the row, of the component's width or of a control; a
\* derived edge is no property of the element.
Read(p, read) ==
    IF read = Data THEN [p EXCEPT !.value = @ \cup {<<"row", p.row>>}]
    ELSE IF read = Size THEN [p EXCEPT !.value = @ \cup {<<"width", p.width>>}, !.reads = @ + 1]
    ELSE LET counted == IF IsGeometry(read) THEN [p EXCEPT !.reads = @ + 1] ELSE p
             settled == IF IsBound(read) THEN Settle(counted, read) ELSE counted
         IN IF read \in Slot THEN [settled EXCEPT !.value = p.value \cup settled.shown[read]] ELSE settled

\* Mutated: what is settled does not say again that it read a size.
SizesSaidOnce(p, slot) == p

\* Asked again for an entry that is settled.
Again(p, slot) == IF slot \in p.sizes THEN [p EXCEPT !.reads = @ + 1] ELSE p

\* resolve; the marks are set before the formula is read, so that one that comes
\* back to itself reads the document.
Resolve(p, slot) ==
    IF ~IsBound(slot) THEN p
    ELSE IF slot \in p.settled THEN Again(p, slot)
    ELSE LET begun == [p EXCEPT !.settled = @ \cup {slot}, !.value = {}]
             done == FoldLeft(Read, begun, bind[slot])
             sized == done.reads # p.reads
             marked == [done EXCEPT !.sizes = IF sized THEN @ \cup {slot} ELSE @]
         IN IF ~p.sizeOnly \/ sized \/ IsGeometry(slot)
            THEN [marked EXCEPT !.shown[slot] = done.value] ELSE marked

\* applyBindings
Pass(sizeOnly, r, w) ==
    FoldLeft(Resolve,
             [settled |-> {}, sizes |-> {}, reads |-> 0, value |-> {}, shown |-> shown,
              sizeOnly |-> sizeOnly, row |-> r, width |-> w],
             SlotOrder).shown

-----------------------------------------------------------------------------
Changed == changes < MaxChanges /\ changes' = changes + 1

\* The page starts, or goes to another row: renderBindings.
Start == row = 0 /\ row' = 1 /\ shown' = Pass(FALSE, 1, width) /\ UNCHANGED <<bind, width, changes>>
GoTo ==
    /\ row > 0 /\ Changed /\ row' = row + 1
    /\ shown' = Pass(FALSE, row', width) /\ UNCHANGED <<bind, width>>

\* The component's box changes: relayout.
Resize ==
    /\ row > 0 /\ Changed /\ width' = width + 1
    /\ shown' = Pass(TRUE, row, width') /\ UNCHANGED <<bind, row>>

\* The reader types into a field, or a module sets its value.
Type(slot) ==
    /\ row > 0 /\ ~IsGeometry(slot) /\ Changed
    /\ shown' = [shown EXCEPT ![slot] = {<<"typed", slot, changes>>}] /\ UNCHANGED <<bind, row, width>>

Next == Start \/ GoTo \/ Resize \/ \E slot \in Slot : Type(slot)

Spec == Init /\ [][Next]_vars

-----------------------------------------------------------------------------
(* The designer *)

Circular == {<<"#CIRC!">>}

\* resolve, with the properties being worked out; a formula over an error is one,
\* and a derived edge is the position and the size.
RECURSIVE Designed(_, _)
Designed(active, slot) ==
    IF ~IsBound(slot) THEN Literal(slot)
    ELSE IF slot \in active THEN Circular
    ELSE LET ValueOf(read) ==
                 IF read = Data THEN {<<"row", row>>}
                 ELSE IF read = Size THEN {<<"width", width>>}
                 ELSE IF read[2] = "right"
                 THEN Designed(active \cup {slot}, <<read[1], "x">>) \cup Designed(active \cup {slot}, <<read[1], "w">>)
                 ELSE Designed(active \cup {slot}, read)
             values == {ValueOf(bind[slot][i]) : i \in DOMAIN bind[slot]}
         IN IF Circular \in values THEN Circular ELSE UNION values

-----------------------------------------------------------------------------
(* Properties *)

SlotsOf(slot) == IF IsBound(slot) THEN ToSet(bind[slot]) \cap Slot ELSE {}

\* The slots that a slot is worked out from, itself among them in a circle.
RECURSIVE Behind(_)
Behind(slots) ==
    LET more == slots \cup UNION {SlotsOf(s) : s \in slots} IN IF more = slots THEN slots ELSE Behind(more)
WorkedOutFrom(slot) == Behind(SlotsOf(slot))
IsCircular(slot) == \E s \in WorkedOutFrom(slot) \cup {slot} : s \in WorkedOutFrom(s)

\* What a slot's formula gives for what the page shows.
Formulated(slot) ==
    LET ValueOf(read) == IF read = Data THEN {<<"row", row>>}
                         ELSE IF read = Size THEN {<<"width", width>>} ELSE shown[read]
    IN UNION {ValueOf(bind[slot][i]) : i \in DOMAIN bind[slot]}

\* A formula reads a size itself, or by way of the bound slots it reads.
ReadsSize(slot) ==
    \E s \in WorkedOutFrom(slot) \cup {slot} : IsBound(s) /\
        \E read \in ToSet(bind[s]) : read = Size \/ (read # Data /\ IsGeometry(read))

BoundSlots == {slot \in Slot : IsBound(slot) /\ ~IsCircular(slot)}

\* designer.js:3082-3083: "the designer draws a bound control exactly as a published component
\* will", here when the page has just started.
DrawnAsPublished ==
    (row = 1 /\ changes = 0) => \A slot \in BoundSlots : shown[slot] = Designed({}, slot)

\* After a new row every property shows what its formula gives for all the others
\* as they now are, in whatever order the document has them (runtime.js applyBindings).
ANewRowShowsEverywhere ==
    row' # row => \A slot \in BoundSlots : shown'[slot] = Formulated(slot)'

\* A new size is followed by what depends on it, however far down, and touches no
\* text that does not, such as one the reader typed (runtime.js relayout).
ANewSizeMovesItsOwn ==
    width' # width =>
       \A slot \in BoundSlots :
           IF ReadsSize(slot) \/ IsGeometry(slot) THEN shown'[slot] = Formulated(slot)'
           ELSE shown'[slot] = shown[slot]
=============================================================================
