---------------------------- MODULE RouteGeometry ----------------------------
(* What the renderers of the diagram skill share about routes                     *)
(* (.agents/skills/archify/renderers/shared/geometry.mjs): the gates that reject a *)
(* drawing whose relationships run through a node, cross, share a corridor, follow *)
(* a frame, turn too tightly or come too close to a label; and the two helpers     *)
(* that place automatic routes. Coordinates are whole pixels, so the code's        *)
(* epsilon of 0.0001 is 0; distances are compared by their squares; the routes are *)
(* orthogonal where a gate needs the point of a crossing or a distance.            *)
EXTENDS Integers, Sequences, SequencesExt
CONSTANTS Drawings,   \* two routed relationships, a node, a frame and a label each
          Ports,      \* pairs of ports an automatic route joins
          Fans,       \* boxes with the relationships of one of their sides
          Slants      \* segments in any direction, a node each

Least(s) == CHOOSE m \in s : \A n \in s : m <= n
Largest(s) == CHOOSE m \in s : \A n \in s : m >= n
Span(m, n) == Least({m, n})..Largest({m, n})
Distance(m, n) == Largest({m - n, n - m})

\* Boxes are not inside out, and the fields say what kind of thing is looked at.
Point == Int \X Int
Rect(r) == r.x \in Int /\ r.y \in Int /\ r.width \in Nat /\ r.height \in Nat
ASSUME GeometryAssumption ==
  /\ \A d \in Drawings : /\ d.what = "drawing" /\ Rect(d.node) /\ d.clearance \in Nat
                         /\ d.left.points \in Seq(Point) /\ d.right.points \in Seq(Point)
  /\ \A s \in Slants : s.what = "slant" /\ Rect(s.node) /\ s.clearance \in Nat /\ s.segment \in Point \X Point
  /\ \A p \in Ports : p.what = "ports"
  /\ \A f \in Fans : f.what = "fan"

VARIABLES subject, report   \* what is looked at, and what is said of it
geometryVars == <<subject, report>>

-----------------------------------------------------------------------------
(* Points, segments and boxes.                                                 *)

Cross(a, b, c) == (b[1] - a[1]) * (c[2] - a[2]) - (b[2] - a[2]) * (c[1] - a[1])
Orientation(a, b, c) == IF Cross(a, b, c) = 0 THEN 0 ELSE IF Cross(a, b, c) < 0 THEN 1 ELSE 2
Segments(points) == [i \in 1..(Len(points) - 1) |-> <<points[i], points[i + 1]>>]

PointInBox(p, box) == p[1] >= box.x1 /\ p[1] <= box.x2 /\ p[2] >= box.y1 /\ p[2] <= box.y2
OnSegment(a, b, c) == b[1] \in Span(a[1], c[1]) /\ b[2] \in Span(a[2], c[2])

SegmentsIntersect(a, b, c, d) ==
  \/ Orientation(a, b, c) = 0 /\ OnSegment(a, c, b)
  \/ Orientation(a, b, d) = 0 /\ OnSegment(a, d, b)
  \/ Orientation(c, d, a) = 0 /\ OnSegment(c, a, d)
  \/ Orientation(c, d, b) = 0 /\ OnSegment(c, b, d)
  \/ Orientation(a, b, c) # Orientation(a, b, d) /\ Orientation(c, d, a) # Orientation(c, d, b)

Grown(rect, gap) == [x1 |-> rect.x - gap, y1 |-> rect.y - gap,
                     x2 |-> rect.x + rect.width + gap, y2 |-> rect.y + rect.height + gap]
SegmentIntersectsRect(s, rect, gap) ==
  LET box == Grown(rect, gap)
      corners == <<<<box.x1, box.y1>>, <<box.x2, box.y1>>, <<box.x2, box.y2>>, <<box.x1, box.y2>>>>
  IN  \/ PointInBox(s[1], box) \/ PointInBox(s[2], box)
      \/ \E i \in 1..4 : SegmentsIntersect(s[1], s[2], corners[i], corners[(i % 4) + 1])

RectsOverlap(a, b, gap) ==
  ~(\/ a.x + a.width + gap <= b.x \/ b.x + b.width + gap <= a.x
    \/ a.y + a.height + gap <= b.y \/ b.y + b.height + gap <= a.y)

\* pointRectDistance, squared; an orthogonal segment is a box without width.
Gap(low, high, v) == Largest({low - v, 0, v - high})
PointRectDistance2(p, box) == Gap(box.x1, box.x2, p[1]) ^ 2 + Gap(box.y1, box.y2, p[2]) ^ 2
BoxOf(s) == [x1 |-> Least({s[1][1], s[2][1]}), x2 |-> Largest({s[1][1], s[2][1]}),
             y1 |-> Least({s[1][2], s[2][2]}), y2 |-> Largest({s[1][2], s[2][2]})]
PointSegmentDistance2(p, s) == PointRectDistance2(p, BoxOf(s))
SegmentRectClearance2(s, rect) ==
  LET box == Grown(rect, 0)
      corners == {box.x1, box.x2} \X {box.y1, box.y2}
  IN  IF SegmentIntersectsRect(s, rect, 0) THEN 0
      ELSE Least({PointRectDistance2(s[1], box), PointRectDistance2(s[2], box)}
                 \cup {PointSegmentDistance2(c, s) : c \in corners})

-----------------------------------------------------------------------------
(* Polylines.                                                                  *)

\* The scalar product of two steps says whether the second goes on forward.
Forward(a, b, c, d) == (b[1] - a[1]) * (d[1] - c[1]) + (b[2] - a[2]) * (d[2] - c[2])
CollinearForward(a, b, c) == Cross(a, b, c) = 0 /\ Forward(a, b, b, c) >= 0

\* normalizeRoutePoints: neither repeated points nor points on a straight run. The
\* loop that takes points off the end stops at the longest prefix it may not shorten.
NormalizeRoutePoints(points) ==
  LET dedupe(kept, p) == IF kept # <<>> /\ Last(kept) = p THEN kept ELSE Append(kept, p)
      straighten(kept, p) ==
        LET stops == {k \in 0..Len(kept) : k < 2 \/ ~CollinearForward(kept[k - 1], kept[k], p)}
        IN  Append(SubSeq(kept, 1, Largest(stops)), p)
  IN  FoldLeft(straighten, <<>>, FoldLeft(dedupe, <<>>, points))

SegmentsContinueForward(s, t) ==
  /\ s[2] = t[1] /\ s[1] # s[2] /\ t[1] # t[2]
  /\ Cross(s[1], s[2], t[2]) = 0 /\ Forward(s[1], s[2], t[1], t[2]) > 0

\* forwardCollinearAnalysisSegments: each keeps the first of the authored segments it
\* was merged from, and the last.
Analysis(points, merge) ==
  LET authored == Segments(points)
      add(done, i) ==
        IF merge /\ done # <<>> /\ SegmentsContinueForward(Last(done).seg, authored[i])
        THEN [done EXCEPT ![Len(done)] = [seg |-> <<@.seg[1], authored[i][2]>>, first |-> @.first, last |-> i]]
        ELSE Append(done, [seg |-> authored[i], first |-> i, last |-> i])
  IN  FoldLeft(add, <<>>, [i \in 1..Len(authored) |-> i])

PointLiesOnSegment(p, s) ==
  IF s[1] = s[2] THEN p = s[1] ELSE Cross(s[1], s[2], p) = 0 /\ OnSegment(s[1], p, s[2])
SourceSegmentIndexAtPoint(points, piece, p) ==
  LET on == {i \in piece.first..piece.last : PointLiesOnSegment(p, Segments(points)[i])}
  IN  IF on = {} THEN piece.first ELSE Least(on)

-----------------------------------------------------------------------------
(* The gates.                                                                  *)

\* qualityProfileForGate: ARCHIFY_QUALITY_PROFILE overrides a profile that is not
\* authoritative.
QualityProfileForGate(p) == IF p.authoritative \/ p.env = "unset" THEN p.authored ELSE p.env
Showcase(d) == QualityProfileForGate(d.profile) = "showcase"
Ungraded(d) == QualityProfileForGate(d.profile) = ""   \* neither names a profile

Related(l, r) == {l.from, l.to} \cap {r.from, r.to} # {}

\* cleanFlowProblems: the first segment that hits a node the relationship has no end in.
FlowProblems(route, nodes, clearance) ==
  {[node |-> n.id,
    segment |-> Least({i \in DOMAIN Segments(route.points) :
                         SegmentIntersectsRect(Segments(route.points)[i], n, clearance)})] :
     n \in {m \in nodes : /\ m.id \notin {route.from, route.to}
                          /\ \E s \in ToSet(Segments(route.points)) : SegmentIntersectsRect(s, m, clearance)}}

Opposite(m, n) == m * n < 0
ProperlyCross(s, t) ==
  /\ Opposite(Cross(s[1], s[2], t[1]), Cross(s[1], s[2], t[2]))
  /\ Opposite(Cross(t[1], t[2], s[1]), Cross(t[1], t[2], s[2]))
\* properSegmentIntersection of two orthogonal segments.
CrossingPoint(s, t) == IF s[1][1] = s[2][1] THEN <<s[1][1], t[1][2]>> ELSE <<t[1][1], s[1][2]>>

\* cleanCrossingProblems: the first crossing of two unrelated relationships.
CrossingProblems(l, r, merge) ==
  LET ls == Analysis(l.points, merge)   rs == Analysis(r.points, merge)
      hits == {h \in (DOMAIN ls) \X (DOMAIN rs) : ProperlyCross(ls[h[1]].seg, rs[h[2]].seg)}
      row == Least({h[1] : h \in hits})
      col == Least({h[2] : h \in {g \in hits : g[1] = row}})
      at == CrossingPoint(ls[row].seg, rs[col].seg)
  IN  IF Related(l, r) \/ hits = {} THEN {}
      ELSE {[point |-> at, left |-> SourceSegmentIndexAtPoint(l.points, ls[row], at),
             right |-> SourceSegmentIndexAtPoint(r.points, rs[col], at)]}

\* collinearAxisOverlap: the interval two parallel axis-aligned segments share.
CollinearAxisOverlap(s, t) ==
  LET level(k) == s[1][k] = s[2][k] /\ t[1][k] = t[2][k] /\ s[1][k] = t[1][k]
      axis == IF level(2) THEN 1 ELSE 2
      low  == Largest({Least({s[1][axis], s[2][axis]}), Least({t[1][axis], t[2][axis]})})
      high == Least({Largest({s[1][axis], s[2][axis]}), Largest({t[1][axis], t[2][axis]})})
  IN  IF (level(1) \/ level(2)) /\ high > low
      THEN {[axis |-> axis, fixed |-> s[1][3 - axis], low |-> low, high |-> high]} ELSE {}

\* collectAmbiguousCorridors: the longest run two unrelated relationships share.
CorridorProblems(l, r, least) ==
  LET ls == Segments(NormalizeRoutePoints(l.points))   rs == Segments(NormalizeRoutePoints(r.points))
      shared == {o \in UNION {CollinearAxisOverlap(s, t) : s \in ToSet(ls), t \in ToSet(rs)} :
                   o.high - o.low >= least}
  IN  IF Related(l, r) \/ shared = {} THEN {} ELSE {Largest({o.high - o.low : o \in shared})}

\* frameBorderSegments: the straight parts of a frame's sides.
FrameBorders(f) ==
  LET radius == Largest({0, Least({f.radius, f.width \div 2, f.height \div 2})})
      right == f.x + f.width    bottom == f.y + f.height
  IN  {b \in {<<<<f.x + radius, f.y>>, <<right - radius, f.y>>>>,
              <<<<right, f.y + radius>>, <<right, bottom - radius>>>>,
              <<<<right - radius, bottom>>, <<f.x + radius, bottom>>>>,
              <<<<f.x, bottom - radius>>, <<f.x, f.y + radius>>>>} : b[1] # b[2]}

\* mergeBorderOverlaps: the length of the union of the intervals, swept from the low end.
MergedLength(overlaps) ==
  LET sorted == SetToSortSeq(overlaps, LAMBDA m, n : m.low < n.low \/ (m.low = n.low /\ m.high < n.high))
      sweep(done, o) ==
        IF done.high >= o.low
        THEN [length |-> done.length + Largest({0, o.high - done.high}), high |-> Largest({done.high, o.high})]
        ELSE [length |-> done.length + (o.high - o.low), high |-> o.high]
  IN  FoldLeft(sweep, [length |-> 0, high |-> sorted[1].low], sorted).length
\* collectBorderRuns: what a route follows of a frame's sides.
BorderRuns(route, frame) ==
  LET along(b) == UNION {CollinearAxisOverlap(s, b) : s \in ToSet(Segments(route.points))}
  IN  {[border |-> b, length |-> MergedLength(along(b))] : b \in {c \in FrameBorders(frame) : along(c) # {}}}

Position(i, n) == IF i = 1 THEN "source-stub" ELSE IF i = n THEN "target-stub" ELSE "interior"
Length(s) == Distance(s[1][1], s[2][1]) + Distance(s[1][2], s[2][2])
\* collectRouteRhythmIssues over the normalised points.
RhythmIssues(points, interior, micro) ==
  LET ss == Segments(NormalizeRoutePoints(points))
  IN  {[segment |-> i, code |-> IF Length(ss[i]) < micro THEN "micro-segment" ELSE "short-interior-segment"] :
         i \in {k \in DOMAIN ss : \/ Length(ss[k]) < micro
                                  \/ Position(k, Len(ss)) = "interior" /\ Length(ss[k]) < interior}}

\* routeBudgetMetrics of one route: bends, stretch over 1.35 and short segments.
Budget(points, segment, micro) ==
  LET kept == NormalizeRoutePoints(points)   ss == Segments(kept)
      total == SumFunction([i \in DOMAIN ss |-> Length(ss[i])])
  IN  [bends |-> Largest({0, Len(kept) - 2}),
       stretched |-> Length(<<Head(kept), Last(kept)>>) > 0
                     /\ total * 100 > 135 * Length(<<Head(kept), Last(kept)>>),
       short |-> Cardinality({i \in DOMAIN ss : Length(ss[i]) < segment}),
       tiny |-> Cardinality({i \in DOMAIN ss : Length(ss[i]) < micro})]

\* collectLabelRouteClearance: a label comes too close to a relationship of another.
LabelProblems(label, route, threshold) ==
  LET near == {SegmentRectClearance2(s, label.rect) :
                 s \in ToSet(Segments(NormalizeRoutePoints(route.points)))}
  IN  IF label.of = route.id \/ near = {} THEN {}
      ELSE IF Least(near) >= threshold ^ 2 THEN {} ELSE {Least(near)}

-----------------------------------------------------------------------------
(* Sides and ports.                                                            *)

Outward == [left |-> <<-1, 0>>, right |-> <<1, 0>>, top |-> <<0, -1>>, bottom |-> <<0, 1>>]
Vertical(side) == side \in {"top", "bottom"}

\* endpointSideIssue: the first segment leaves a side, the last one enters it, at right
\* angles and from without.
HonorsSide(at, beyond, side) ==
  LET out == Outward[side]   dx == beyond[1] - at[1]   dy == beyond[2] - at[2]
  IN  dx * out[2] = 0 /\ dy * out[1] = 0 /\ dx * out[1] + dy * out[2] > 0
RouteHonorsEndpointSides(points, fromSide, toSide) ==
  \A kept \in {NormalizeRoutePoints(points)} : Len(kept) >= 2 =>
    HonorsSide(kept[1], kept[2], fromSide) /\ HonorsSide(Last(kept), kept[Len(kept) - 1], toSide)

Moved(p, side, by) == <<p[1] + by * Outward[side][1], p[2] + by * Outward[side][2]>>
\* automaticPortRhythmBridge: a route around, in a channel on either side, where two
\* ports are too close for a dogleg between them; the first that passes is taken.
Bridges(start, end, fromSide, toSide, stub, interior, micro) ==
  LET axis == IF Vertical(fromSide) THEN 1 ELSE 2
      a == Moved(start, fromSide, stub)   b == Moved(end, toSide, stub)
      in(channel, p) == IF axis = 1 THEN <<channel, p[2]>> ELSE <<p[1], channel>>
      channels == <<Largest({start[axis], end[axis]}) + interior, Least({start[axis], end[axis]}) - interior>>
      candidates == [i \in 1..2 |->
        NormalizeRoutePoints(<<start, a, in(channels[i], a), in(channels[i], b), b, end>>)]
  IN  IF Vertical(fromSide) # Vertical(toSide) \/ Distance(start[axis], end[axis]) >= interior THEN <<>>
      ELSE SelectSeq(candidates, LAMBDA c : /\ RouteHonorsEndpointSides(c, fromSide, toSide)
                                            /\ RhythmIssues(c, interior, micro) = {})

DefaultFromSide(from, to) ==
  IF to.cx < from.cx THEN "left" ELSE IF to.cx > from.cx THEN "right"
  ELSE IF to.cy > from.cy THEN "bottom" ELSE "top"
DefaultToSide(from, to) ==
  IF to.cx < from.cx THEN "right" ELSE IF to.cx > from.cx THEN "left"
  ELSE IF to.cy > from.cy THEN "top" ELSE "bottom"

\* automaticPortSpread on one side of one box. Offsets from the middle are counted in
\* parts of a pixel, so that they divide evenly.
Part == 12
Spread(fan) ==
  LET n == Len(fan.counterparts)
      room == Largest({0, fan.extent - 2 * fan.gutter}) * Part
      spacing == IF n < 2 THEN 0 ELSE Least({fan.most * Part, room \div (n - 1)})
      order == SetToSortSeq(DOMAIN fan.counterparts,
                 LAMBDA i, j : fan.counterparts[i] < fan.counterparts[j]
                               \/ (fan.counterparts[i] = fan.counterparts[j] /\ i < j))
  IN  IF spacing = 0 THEN [i \in DOMAIN fan.counterparts |-> 0]
      ELSE [i \in DOMAIN fan.counterparts |->
              ((2 * (CHOOSE k \in 1..n : order[k] = i) - 1 - n) * spacing) \div 2]

-----------------------------------------------------------------------------
GeometryInit == subject \in Drawings \cup Ports \cup Fans \cup Slants /\ report = <<>>

\* The gates over one drawing, as each renderer calls them.
InspectDrawing ==
  /\ subject.what = "drawing" /\ report = <<>>
  /\ LET l == subject.left   r == subject.right   strict == Showcase(subject)
         gated(problems) == IF strict THEN problems ELSE {}
     IN  report' = [flow |-> FlowProblems(l, {subject.node}, subject.clearance),
                    crossing |-> gated(CrossingProblems(l, r, subject.merge)),
                    corridor |-> gated(CorridorProblems(l, r, subject.least)),
                    border |-> IF Ungraded(subject) THEN {} ELSE BorderRuns(l, subject.frame),
                    rhythm |-> gated(RhythmIssues(l.points, subject.interior, subject.micro)),
                    label |-> gated(LabelProblems(subject.label, l, subject.room)),
                    budget |-> Budget(l.points, subject.interior, subject.micro)]
  /\ UNCHANGED subject

Bridge ==
  /\ subject.what = "ports" /\ report = <<>>
  /\ report' = [routes |-> Bridges(subject.start, subject.end, subject.fromSide, subject.toSide,
                                  subject.stub, subject.interior, subject.micro)]
  /\ UNCHANGED subject

SpreadPorts ==
  /\ subject.what = "fan" /\ report = <<>>
  /\ report' = [offsets |-> Spread(subject)]
  /\ UNCHANGED subject

\* What any gate asks of one segment.
Reach ==
  /\ subject.what = "slant" /\ report = <<>>
  /\ report' = [hit |-> SegmentIntersectsRect(subject.segment, subject.node, subject.clearance)]
  /\ UNCHANGED subject

GeometryNext == InspectDrawing \/ Bridge \/ SpreadPorts \/ Reach
GeometrySpec == GeometryInit /\ [][GeometryNext]_geometryVars

-----------------------------------------------------------------------------
\* A segment stays clear of a box exactly if the x axis, the y axis or its own line
\* keeps them apart: the reference for the test by corners and orientations.
Apart(s, box) ==
  LET corners == {box.x1, box.x2} \X {box.y1, box.y2}   around == BoxOf(s)
  IN  \/ around.x2 < box.x1 \/ around.x1 > box.x2 \/ around.y2 < box.y1 \/ around.y1 > box.y2
      \/ s[1] # s[2] /\ ((\A c \in corners : Cross(s[1], s[2], c) > 0)
                         \/ (\A c \in corners : Cross(s[1], s[2], c) < 0))

\* The unit steps an orthogonal polyline covers, whatever its points.
Steps(points) ==
  UNION {{{<<x, y>>, <<x + 1, y>>} :
            x \in BoxOf(s).x1..(BoxOf(s).x2 - 1), y \in BoxOf(s).y1..BoxOf(s).y2}
         \cup {{<<x, y>>, <<x, y + 1>>} :
            x \in BoxOf(s).x1..BoxOf(s).x2, y \in BoxOf(s).y1..(BoxOf(s).y2 - 1)}
         : s \in ToSet(Segments(points))}

Inspected == subject.what = "drawing" /\ report # <<>>

\* A route is rejected for a node exactly if some part of it comes within the clearance.
FlowExact ==
  /\ subject.what = "slant" /\ report # <<>> =>
       (report.hit <=> ~Apart(subject.segment, Grown(subject.node, subject.clearance)))
  /\ Inspected => (report.flow = {} <=>
    \/ subject.node.id \in {subject.left.from, subject.left.to}
    \/ \A s \in ToSet(Segments(subject.left.points)) : Apart(s, Grown(subject.node, subject.clearance)))

\* Normalising a route changes nothing that is drawn, and doing it again nothing at all.
NormalizedAlike ==
  Inspected => \A route \in {subject.left, subject.right} :
    LET kept == NormalizeRoutePoints(route.points)
    IN  /\ NormalizeRoutePoints(kept) = kept /\ Steps(kept) = Steps(route.points)
        /\ Head(kept) = Head(route.points)
        /\ Len(kept) > 1 => Last(kept) = Last(route.points)

\* Where straight-through points are merged, a crossing is reported whatever points
\* the author put on a straight run; which of the two comes first does not matter; and
\* the authored segments it names do meet there.
CrossingsFound ==
  Inspected /\ Showcase(subject) /\ subject.merge =>
    LET l == subject.left   r == subject.right   norm(q) == [q EXCEPT !.points = NormalizeRoutePoints(@)]
    IN  /\ (report.crossing = {}) = (CrossingProblems(norm(l), norm(r), FALSE) = {})
        /\ (report.crossing = {}) = (CrossingProblems(r, l, TRUE) = {})
        /\ \A c \in report.crossing : /\ PointLiesOnSegment(c.point, Segments(l.points)[c.left])
                                       /\ PointLiesOnSegment(c.point, Segments(r.points)[c.right])

\* Under any profile, a frame is said to be followed for as many pixels as the route covers of its straight
\* sides, however often it goes over them; a corridor is no longer than what both cover.
RunsMeasured ==
  Inspected =>
    /\ ~Ungraded(subject) => \A b \in FrameBorders(subject.frame) :
         Cardinality(Steps(subject.left.points) \cap Steps(b))
           = SumFunction([x \in {y \in report.border : y.border = b} |-> x.length])
    /\ \A n \in report.corridor :
         n <= Cardinality(Steps(subject.left.points) \cap Steps(subject.right.points))

\* A label's clearance is the distance of two boxes.
LabelsMeasured ==
  Inspected => \A s \in ToSet(Segments(subject.left.points)) :
    LET box == Grown(subject.label.rect, 0)   line == BoxOf(s)
    IN  SegmentRectClearance2(s, subject.label.rect)
          = Largest({0, box.x1 - line.x2, line.x1 - box.x2}) ^ 2
            + Largest({0, box.y1 - line.y2, line.y1 - box.y2}) ^ 2

\* Two close ports on facing or equal sides get a route that passes the renderer's own
\* gates, unless the channel between their stubs would itself be too short a turn.
BridgesFound ==
  subject.what = "ports" /\ report # <<>> =>
    LET axis == IF Vertical(subject.fromSide) THEN 1 ELSE 2
        a == Moved(subject.start, subject.fromSide, subject.stub)
        b == Moved(subject.end, subject.toSide, subject.stub)
        channel == Distance(a[3 - axis], b[3 - axis])
    IN  (report.routes # <<>>) <=>
          /\ Vertical(subject.fromSide) = Vertical(subject.toSide)
          /\ Distance(subject.start[axis], subject.end[axis]) < subject.interior
          /\ channel = 0 \/ channel >= subject.interior

\* Spread ports keep the order of what they lead to, lie around the middle, and stay
\* within the side less its gutters.
PortsSpread ==
  subject.what = "fan" /\ report # <<>> =>
    LET at == report.offsets   towards == subject.counterparts
    IN  /\ \A i, j \in DOMAIN at : towards[i] < towards[j] => at[i] <= at[j]
        /\ SumFunction(at) = 0
        /\ Len(towards) > 1 /\ subject.extent > 2 * subject.gutter =>
             Cardinality({at[i] : i \in DOMAIN at}) = Len(towards)
        /\ \A i \in DOMAIN at : 2 * Distance(at[i], 0) <= Largest({0, subject.extent - 2 * subject.gutter}) * Part

GeometrySound ==
  /\ FlowExact /\ NormalizedAlike /\ CrossingsFound /\ RunsMeasured /\ LabelsMeasured
  /\ BridgesFound /\ PortsSpread
=============================================================================
