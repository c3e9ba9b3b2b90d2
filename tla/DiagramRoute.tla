---------------------------- MODULE DiagramRoute ----------------------------
(***************************************************************************)
(* The right-angled connectors of a relationship diagram: app.js           *)
(* diagramAnchor, and in loadDiagramTab orthogonalRoute, simplifyRoute,    *)
(* mergeRedundantPins and the handlers that move cards and routing points. *)
(* Lengths are in units of five pixels.  One connector, two cards; curves  *)
(* and straight lines have no routing points and are left out.             *)
(***************************************************************************)
EXTENDS Integers, Sequences, SequencesExt

CONSTANTS Layouts,   \* the places the two cards may be in
          Width, Height,
          Places,    \* where the pointer may be dropped
          MaxPins    \* bound: routing points of the connector

Gap == 2      \* DIAGRAM_ARROW_GAP
Margin == 3
Aside == 5
Snap == 2     \* the ten pixels within which a routing point snaps
Far == 1000000  \* farther than any point is

VARIABLES
    cards,  \* the top left corners of the source's card and of the target's
    pins,   \* connector.points, <<>> for a connector never adjusted
    knob    \* the knob held: its index and the line it was grabbed on, <<>> if none

vars == <<cards, pins, knob>>

Point(x, y) == [x |-> x, y |-> y]
Magnitude(n) == IF n < 0 THEN -n ELSE n
Sign(n) == IF n < 0 THEN -1 ELSE IF n > 0 THEN 1 ELSE 0
Larger(m, n) == IF m > n THEN m ELSE n
Smaller(m, n) == IF m < n THEN m ELSE n
Clamped(low, n, high) == Smaller(high, Larger(low, n))

-----------------------------------------------------------------------------
(* Where a line leaves a card *)

RowY(card) == card.y + Height \div 2

Beside(card, side) ==
    [side |-> side, x |-> IF side = "right" THEN card.x + Width ELSE card.x, y |-> RowY(card)]

\* diagramAnchor: by the border that faces the routing point.
Anchor(card, pin, prefersRight) ==
    LET x == Clamped(card.x + Margin, pin.x, card.x + Width - Margin)
    IN CASE pin.x > card.x + Width -> Beside(card, "right")
         [] pin.x < card.x -> Beside(card, "left")
         [] pin.x \in card.x..(card.x + Width) /\ pin.y < card.y -> [side |-> "top", x |-> x, y |-> card.y]
         [] pin.x \in card.x..(card.x + Width) /\ pin.y > card.y + Height ->
                [side |-> "bottom", x |-> x, y |-> card.y + Height]
         [] OTHER -> Beside(card, IF prefersRight THEN "right" ELSE "left")

Normal(side) == CASE side = "right" -> Point(1, 0) [] side = "left" -> Point(-1, 0)
                  [] side = "top" -> Point(0, -1) [] side = "bottom" -> Point(0, 1)

TargetIsRight(c) == c.target.x >= c.source.x

\* The knob of a line that was never adjusted sits half way.
Waypoint(c) ==
    LET from == Beside(c.source, IF TargetIsRight(c) THEN "right" ELSE "left")
        to == Beside(c.target, IF TargetIsRight(c) THEN "left" ELSE "right")
        end == to.x + Gap * Normal(to.side).x
    IN Point((from.x + end) \div 2, (from.y + to.y) \div 2)

\* What drawLinks works out before it routes: the ends, and whether they run along y.
Line(c, points) ==
    LET unrouted == Beside(c.source, IF TargetIsRight(c) THEN "right" ELSE "left")
        from == IF points = <<>> THEN unrouted ELSE Anchor(c.source, points[1], TargetIsRight(c))
        to == IF points = <<>> THEN Beside(c.target, IF TargetIsRight(c) THEN "left" ELSE "right")
              ELSE Anchor(c.target, Last(points), ~TargetIsRight(c))
    IN [start |-> Point(from.x, from.y),
        end |-> Point(to.x + Gap * Normal(to.side).x, to.y + Gap * Normal(to.side).y),
        leaveDown |-> from.side \in {"top", "bottom"}, arriveDown |-> to.side \in {"top", "bottom"},
        avoid |-> c.source]

-----------------------------------------------------------------------------
(* The route *)

PassesThrough(a, b, c) == (b - a) * (c - b) >= 0

\* Mutated: also one where the run doubles back.
StraightAnyWay(a, b, c) == (a.x = b.x /\ b.x = c.x) \/ (a.y = b.y /\ b.y = c.y)

\* Only a corner that the line passes straight through goes.
Straight(a, b, c) == \/ a.x = b.x /\ b.x = c.x /\ PassesThrough(a.y, b.y, c.y)
                     \/ a.y = b.y /\ b.y = c.y /\ PassesThrough(a.x, b.x, c.x)

\* simplifyRoute; a corner that goes uncovers no other.
Simplified(route) ==
    FoldLeft(LAMBDA done, p :
                 IF done # <<>> /\ Last(done) = p THEN done
                 ELSE IF Len(done) >= 2 /\ Straight(done[Len(done) - 1], Last(done), p)
                 THEN Append(Front(done), p) ELSE Append(done, p),
             <<>>, route)

\* The last point of the route that is not its end, if there is one.
Before(route) == SelectSeq(route, LAMBDA p : p # Last(route))

\* A leg turns away from the axis the route has just travelled.
Via(route, pin, leaveDown) ==
    LET previous == Last(route)
        alongX == IF Before(route) = <<>> THEN ~leaveDown ELSE Last(Before(route)).x = previous.x
    IN route \o <<IF alongX THEN Point(pin.x, previous.y) ELSE Point(previous.x, pin.y), pin>>

\* stepClearOf
StepClear(between, towards, lower, span) ==
    LET middle == (between + towards) \div 2
    IN IF middle <= lower \/ middle >= lower + span THEN middle
       ELSE IF towards < lower THEN lower - Aside ELSE lower + span + Aside

\* orthogonalRoute
Route(line, points) ==
    LET route == FoldLeft(LAMBDA r, pin : Via(r, pin, line.leaveDown), <<line.start>>, points)
        last == Last(route)
        previous == IF Before(route) = <<>> THEN last ELSE Last(Before(route))
        target == line.end
        arrived == IF line.arriveDown THEN Sign(last.x - previous.x) ELSE Sign(last.y - previous.y)
        onwards == IF line.arriveDown THEN Sign(target.x - last.x) ELSE Sign(target.y - last.y)
        carriesOn == arrived = 0 \/ onwards = 0 \/ arrived = onwards
        aside == IF line.arriveDown THEN StepClear(last.y, target.y, line.avoid.y, Height)
                 ELSE StepClear(last.x, target.x, line.avoid.x, Width)
        ending == CASE carriesOn /\ line.arriveDown -> <<Point(target.x, last.y), target>>
                    [] carriesOn /\ ~line.arriveDown -> <<Point(last.x, target.y), target>>
                    [] ~carriesOn /\ line.arriveDown ->
                           <<Point(last.x, aside), Point(target.x, aside), target>>
                    [] ~carriesOn /\ ~line.arriveDown ->
                           <<Point(aside, last.y), Point(aside, target.y), target>>
    IN Simplified(route \o ending)

\* nearestRoutePoint, of legs that run along an axis: the first of the nearest ones.
Foot(p, a, b) == Point(Clamped(Smaller(a.x, b.x), p.x, Larger(a.x, b.x)),
                       Clamped(Smaller(a.y, b.y), p.y, Larger(a.y, b.y)))
Off(p, q) == (q.x - p.x) * (q.x - p.x) + (q.y - p.y) * (q.y - p.y)
Nearest(p, route) ==
    FoldLeft(LAMBDA best, leg : IF leg.off < best.off THEN leg ELSE best,
             [point |-> p, leg |-> 0, off |-> Far],
             [i \in 1..(Len(route) - 1) |->
                 LET foot == Foot(p, route[i], route[i + 1])
                 IN [point |-> foot, leg |-> i, off |-> Off(p, foot)]])

Between(a, p, b) == (p.x = a.x /\ a.x = b.x /\ PassesThrough(a.y, p.y, b.y))
                    \/ (p.y = a.y /\ a.y = b.y /\ PassesThrough(a.x, p.x, b.x))
OnRoute(p, route) == \E i \in 1..(Len(route) - 1) : Between(route[i], p, route[i + 1])

-----------------------------------------------------------------------------
(* The handlers *)

Pins(c, points) == IF points = <<>> THEN <<Waypoint(c)>> ELSE points
DrawnOf(c, points) == Route(Line(c, points), Pins(c, points))
Drawn == DrawnOf(cards, pins)

\* mergeRedundantPins, from the last to the first.
Merged(points, line) ==
    FoldLeft(LAMBDA kept, i :
                 IF Len(kept) > 1 /\ OnRoute(kept[i], Route(line, RemoveAt(kept, i)))
                 THEN RemoveAt(kept, i) ELSE kept,
             points, Reverse([i \in 1..Len(points) |-> i]))

Snapped(n, candidates) ==
    FoldLeft(LAMBDA m, c : IF Magnitude(m - c) <= Snap THEN c ELSE m, n, candidates)

\* Where a dragged knob goes: alone it slides its run sideways.
Dragged(p, line, points, i) ==
    LET ends == <<line.start, line.end>>
        others == RemoveAt(points, i)
        all == ends \o others
        q == Point(Snapped(p.x, [k \in DOMAIN all |-> all[k].x]), Snapped(p.y, [k \in DOMAIN all |-> all[k].y]))
        near == Nearest(q, Route(line, others))
    IN IF Len(points) = 1
       THEN Point(Snapped(p.x, <<line.start.x, line.end.x>>), (line.start.y + line.end.y) \div 2)
       ELSE IF near.off <= Snap * Snap THEN near.point ELSE q

\* A double click on the line adds a knob there.
AddPin(p) ==
    /\ knob = <<>> /\ Len(pins) < MaxPins
    /\ \E route \in {Drawn}, points \in {Pins(cards, pins)} :
           LET steps == Larger(1, Len(route) - 2)
               rounded == (2 * (Nearest(p, route).leg - 1) * Len(points) + steps) \div (2 * steps)
           IN /\ OnRoute(p, route) /\ Len(points) < MaxPins
              /\ pins' = InsertAt(points, Smaller(Len(points), rounded) + 1, p)
    /\ UNCHANGED <<cards, knob>>

\* A knob is grabbed: its handlers know the line as it is drawn now.
Grab(i) ==
    /\ knob = <<>> /\ i \in DOMAIN Pins(cards, pins)
    /\ knob' = <<i, Line(cards, pins)>> /\ UNCHANGED <<cards, pins>>

Drag(p) ==
    /\ knob # <<>>
    /\ LET points == Pins(cards, pins)
       IN pins' = [points EXCEPT ![knob[1]] = Dragged(p, knob[2], points, knob[1])]
    /\ UNCHANGED <<cards, knob>>

Drop ==
    /\ knob # <<>> /\ knob' = <<>>
    /\ pins' = IF Len(pins) > 1 THEN Merged(pins, knob[2]) ELSE pins
    /\ UNCHANGED cards

RemovePin(i) ==
    /\ knob = <<>> /\ Len(pins) > 1 /\ i \in DOMAIN pins
    /\ pins' = RemoveAt(pins, i) /\ UNCHANGED <<cards, knob>>

\* A card is dragged: a routing point goes half the way.
MoveCard(end, p) ==
    /\ knob = <<>> /\ p # cards[end]
    /\ [cards EXCEPT ![end] = p] \in Layouts
    /\ cards' = [cards EXCEPT ![end] = p]
    /\ pins' = [i \in DOMAIN pins |-> Point(Larger(0, pins[i].x + (p.x - cards[end].x) \div 2),
                                            Larger(0, pins[i].y + (p.y - cards[end].y) \div 2))]
    /\ UNCHANGED knob

ResetShape == knob = <<>> /\ pins' = <<>> /\ UNCHANGED <<cards, knob>>

Init == cards \in Layouts /\ pins = <<>> /\ knob = <<>>

Next ==
    \/ \E p \in Places : AddPin(p) \/ Drag(p)
    \/ \E i \in 1..MaxPins : Grab(i) \/ RemovePin(i)
    \/ \E end \in {"source", "target"}, p \in {c.source : c \in Layouts} \cup {c.target : c \in Layouts} :
           MoveCard(end, p)
    \/ Drop \/ ResetShape

Spec == Init /\ [][Next]_vars

-----------------------------------------------------------------------------
(* Properties *)

TypeOK == Len(pins) <= MaxPins /\ cards \in Layouts

Upright(route, i) == route[i].x = route[i + 1].x

\* However cards and knobs are moved, the line drawn is one line: it runs from the
\* border of the one card to that of the other in legs along the axes, through
\* every routing point; and at each end it stands square on the border, unless a
\* routing point was put level with that end (see the README).
RouteHolds ==
    \A line \in {Line(cards, pins)}, route \in {Drawn}, points \in {Pins(cards, pins)} :
        LET legs == 1..(Len(route) - 1)
            SideOn(p, end, down) == IF down THEN p.y = end.y ELSE p.x = end.x
        IN /\ route[1] = line.start /\ Last(route) = line.end
           /\ \A i \in legs : Upright(route, i) # (route[i].y = route[i + 1].y)
           /\ \A i \in DOMAIN points : OnRoute(points[i], route)
           /\ SideOn(points[1], line.start, line.leaveDown) \/ Upright(route, 1) = line.leaveDown
           /\ SideOn(Last(points), line.end, line.arriveDown)
              \/ Upright(route, Len(route) - 1) = line.arriveDown
=============================================================================
