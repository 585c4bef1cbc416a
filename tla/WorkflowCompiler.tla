--------------------------- MODULE WorkflowCompiler ---------------------------
(* The workflow compiler of the diagram skill, under its second contract           *)
(* (.agents/skills/archify/renderers/workflow/workflow-compiler.mjs): a document is *)
(* put in a canonical order, checked against what its author says of its graph,    *)
(* laid out, and its edges are routed one after another; where one cannot be, the  *)
(* layout is done again with more room, up to three times. Routes are those of      *)
(* edges that leave the choice to the compiler and carry no label, in documents    *)
(* without phases, groups and legend.                                               *)
EXTENDS WorkflowLayout
CONSTANTS Documents   \* what the compiler is given, and what of it is looked at

\* What is left of a document by the schema and by the checks of its references: whatever
\* its order, the compiler refuses one with a lane, node, phase or group id given twice, or
\* an unknown lane, and routes none whose ends it does not know. Relationships that differ
\* do so in their ids, ends or labels.
Distinguished(items) == \A m, n \in ToSet(items) : m.id = n.id => m = n
Spans(items) ==
  \A s \in ToSet(items) : s.id \in Int /\ s.from \in Columns /\ s.to \in s.from..5 /\ s.label \in Nat
\* Coordinates are whole pixels here, which only nodes an even number wide have on both sides.
Even(doc) == \A n \in ToSet(doc.nodes) : n.width % 2 = 0
Linked(doc) == \A e \in ToSet(doc.edges) : {e.from, e.to} \subseteq {n.id : n \in ToSet(doc.nodes)}
IsContract(checks) ==
  checks.rooted \in BOOLEAN /\ checks.ended \in BOOLEAN /\ checks.edges \cup checks.paths \subseteq Int \X Int
IsDocument(doc) ==
  LET laneIds == {l.id : l \in ToSet(doc.lanes)}
  IN  /\ {"lanes", "nodes", "edges", "phases", "groups", "checks"} \subseteq DOMAIN doc
      /\ \A items \in {doc.lanes, doc.nodes, doc.edges, doc.phases, doc.groups} : items \in Seq(ToSet(items))
      /\ \A n \in ToSet(doc.nodes) : /\ n.id \in Int /\ n.lane \in laneIds /\ n.col \in Columns
                                     /\ n.width \in Nat /\ n.height \in Nat /\ n.offset \in Int
      /\ \A e \in ToSet(doc.edges) : e.id \in Int /\ e.from \in Int /\ e.to \in Int /\ e.label \in Nat
      /\ \A e, f \in ToSet(doc.edges) :
           <<e.id, e.from, e.to, e.label>> = <<f.id, f.from, f.to, f.label>> => e = f
      /\ doc.lanes # <<>> /\ \A l \in ToSet(doc.lanes) : l.label \in Nat
      /\ Spans(doc.phases) /\ Spans(doc.groups) /\ \A g \in ToSet(doc.groups) : g.lane \in laneIds
      /\ Distinguished(doc.nodes) /\ Distinguished(doc.phases) /\ Distinguished(doc.groups)
      /\ IsContract(doc.checks)
MaxReach == 1073741824   \* pixels: more than any drawing, and less than 53 halvings tell apart
ASSUME DocumentsAssumption ==
  \A w \in Documents :
    /\ w.what \in {"routes", "layout", "contract", "channel"}
    /\ w.what # "channel" => IsDocument(w.doc)
    /\ w.what = "routes" => Linked(w.doc)
    /\ w.what \in {"routes", "layout"} => Even(w.doc)
    /\ w.what = "channel" => /\ w.base \in Int /\ w.first \in Int /\ w.growth \in Nat \ {0}
                             /\ w.first + 63 * w.growth - w.base <= MaxReach

VARIABLES work, feedback, round, asked, made
compilerVars == <<work, feedback, round, asked, made>>
MaxRounds == 3   \* MAX_READABLE_LAYOUT_FEEDBACK_ROUNDS

-----------------------------------------------------------------------------
(* The canonical order (ids are numbers here), and the contract on the graph.      *)

\* A sequence in the order of the keys of its members, each a tuple of numbers.
Before(s, t) == \E i \in DOMAIN s : s[i] < t[i] /\ \A j \in 1..(i - 1) : s[j] = t[j]
SortedBy(seq, keys) ==
  LET earlier(i) == {j \in DOMAIN seq : Before(keys[j], keys[i]) \/ (keys[j] = keys[i] /\ j < i)}
  IN  [k \in DOMAIN seq |-> seq[CHOOSE i \in DOMAIN seq : Cardinality(earlier(i)) = k - 1]]
NodeKey(doc, n) == <<LaneIndex(doc, n.lane), n.col, n.id>>
EdgeKey(e) == <<e.id, e.from, e.to, e.label>>
PhaseKey(p) == <<p.from, p.to, p.id>>
GroupKey(doc, g) == <<LaneIndex(doc, g.lane), g.from, g.to, g.id>>
canonicalReadableWorkflow(doc) ==
  [doc EXCEPT !.nodes = SortedBy(@, [i \in DOMAIN @ |-> NodeKey(doc, @[i])]),
              !.edges = SortedBy(@, [i \in DOMAIN @ |-> EdgeKey(@[i])]),
              !.phases = SortedBy(@, [i \in DOMAIN @ |-> PhaseKey(@[i])]),
              !.groups = SortedBy(@, [i \in DOMAIN @ |-> GroupKey(doc, @[i])])]

\* reachable. Each round visits what is beside one node that is pending; which of them is
\* next has no bearing on what is visited in the end.
Reached(graph, from) ==
  LET n == Cardinality(DOMAIN graph)
      visit(s) ==
        IF s.pending = {} THEN s
        ELSE LET next == CHOOSE id \in s.pending : TRUE
             IN  [visited |-> s.visited \cup graph[next],
                  pending |-> (s.pending \ {next}) \cup (graph[next] \ s.visited)]
      after[i \in 0..n] == IF i = 0 THEN [visited |-> {from}, pending |-> {from}] ELSE visit(after[i - 1])
  IN  after[n].visited

semanticContractDiagnostics(doc) ==
  LET ids == {n.id : n \in NodesOf(doc)}
      graph == [id \in ids |-> {e.to : e \in {d \in Edges(doc) : d.from = id}}]
      checks == doc.checks
      named == checks.roots \cup checks.terminals
               \cup UNION {{r[1], r[2]} : r \in checks.edges \cup checks.paths}
      of(code, subjects) == {[code |-> code, subject |-> s] : s \in subjects}
  IN  IF ~(named \subseteq ids) THEN of("semantic-node-reference", named \ ids)
      ELSE of("unexpected-root", {id \in ids : checks.rooted /\ id \notin checks.roots
                                               /\ \A e \in Edges(doc) : e.to # id})
           \cup of("unexpected-terminal", {id \in ids : checks.ended /\ id \notin checks.terminals
                                                        /\ graph[id] = {}})
           \cup of("required-edge", {r \in checks.edges : r \notin {<<e.from, e.to>> : e \in ToSet(doc.edges)}})
           \cup of("required-path", {r \in checks.paths : r[2] \notin Reached(graph, r[1])})

-----------------------------------------------------------------------------
(* Routes.                                                                     *)

Sides == <<"right", "bottom", "left", "top">>
anchor(box, side) ==
  CASE side = "left" -> <<box.x, box.cy>> [] side = "right" -> <<box.x + box.width, box.cy>>
    [] side = "top" -> <<box.cx, box.y>> [] side = "bottom" -> <<box.cx, box.y + box.height>>
Corridor(start, end, sides, axis, at) ==
  LET a == Moved(start, sides[1], 16)   b == Moved(end, sides[2], 16)
      on(p) == IF axis = "x" THEN <<at, p[2]>> ELSE <<p[1], at>>
  IN  <<a, on(a), on(b), b>>

LaneOf(layout, doc, id) == layout.lanes[LaneIndex(doc, BoxAt(layout, id).lane)]
OutsideRight(layout) == layout.lanes[1].x + layout.lanes[1].width + 12
\* The nine families of readableAutomaticCandidateSet. A middle between two pixels is
\* taken as the lower one.
Families(doc, layout, e, start, end, sides) ==
  LET from == LaneOf(layout, doc, e.from)   to == LaneOf(layout, doc, e.to)
      below(lane) == lane.y + lane.height
      between == IF from = to THEN from.y - 16 ELSE (below(from) + to.y) \div 2
      via == <<<<>>, <<<<end[1], start[2]>>>>, <<<<start[1], end[2]>>>>,
               Corridor(start, end, sides, "y", between),
               Corridor(start, end, sides, "x", (start[1] + end[1]) \div 2),
               Corridor(start, end, sides, "x", laneX - 20),
               Corridor(start, end, sides, "x", OutsideRight(layout)),
               Corridor(start, end, sides, "y", Largest({8, Least({from.y, to.y}) - 16})),
               Corridor(start, end, sides, "y", Largest({below(from), below(to)}) + 16)>>
  IN  [k \in DOMAIN via |-> NormalizeRoutePoints(<<start>> \o via[k] \o <<end>>)]

HardRhythm(points) ==
  LET ss == Segments(points)
  IN  IF Len(ss) = 1 THEN Length(ss[1]) >= 28
      ELSE \A i \in DOMAIN ss : Length(ss[i]) >= IF i \in {1, Len(ss)} THEN 8 ELSE 16
ClearsEnds(layout, e, points) ==
  LET ss == Segments(points)
  IN  \A i \in DOMAIN ss :
        /\ i > 1 => ~SegmentIntersectsRect(ss[i], BoxAt(layout, e.from), 0)
        /\ i < Len(ss) => ~SegmentIntersectsRect(ss[i], BoxAt(layout, e.to), 0)
ClearsHeadings(doc, layout, points) ==
  \A i \in DOMAIN layout.lanes : \A s \in ToSet(Segments(points)) :
    ~SegmentIntersectsRect(s, [x |-> laneX + 14, y |-> layout.lanes[i].y + 12,
                               width |-> TextWidth(Heading(doc, i), 62), height |-> 14], 0)
\* A lane for exceptions has a second frame, 6 px within its own.
LaneFrames(doc, layout) ==
  ToSet(layout.lanes) \cup
    {LET lane == layout.lanes[i]
     IN  [x |-> lane.x + 6, y |-> lane.y + 6, width |-> lane.width - 12, height |-> lane.height - 12, radius |-> 8] :
       i \in {j \in DOMAIN doc.lanes : doc.lanes[j].exception}}
\* readableCandidateIsFeasible.
Feasible(doc, layout, e, points, sides) ==
  /\ Len(points) >= 2
  /\ \A s \in ToSet(Segments(points)) : (s[1][1] = s[2][1]) # (s[1][2] = s[2][2])
  /\ HardRhythm(points)
  /\ RouteHonorsEndpointSides(points, sides[1], sides[2])
  /\ ClearsEnds(layout, e, points)
  /\ FlowProblems([from |-> e.from, to |-> e.to, points |-> points], layout.boxes, 2) = {}
  /\ ClearsHeadings(doc, layout, points)
  /\ \A frame \in LaneFrames(doc, layout) : BorderRuns([points |-> points], frame) = {}
  /\ \A p \in ToSet(points) : p[1] >= 0 /\ p[2] >= 0

CanvasWidth(layout) == laneX + layout.lanes[1].width + 16
CanvasHeight(layout) == Last(layout.lanes).y + Last(layout.lanes).height + 124
\* READABLE_CANDIDATE_COST_PRIORITY, without labels, and without the dimension that is
\* the same for all routes of an edge.
Cost(layout, e, points, natural, placed, ordinal) ==
  LET from == BoxAt(layout, e.from)   to == BoxAt(layout, e.to)
      ss == Segments(points)   n == Len(ss)
      others == {r \in placed : {r.edge.from, r.edge.to} \cap {e.from, e.to} = {}}
      meets == UNION {{<<i, r, j>> : i \in DOMAIN ss, j \in DOMAIN Segments(r.points)} : r \in others}
      other(m) == Segments(m[2].points)[m[3]]
      xs == {p[1] : p \in ToSet(points)}   ys == {p[2] : p \in ToSet(points)}
      direct == Length(<<points[1], Last(points)>>)
      length == SumFunction([i \in DOMAIN ss |-> Length(ss[i])])
      off(p, q) == Distance(p[1], q[1]) + Distance(p[2], q[2])
  IN  << IF e.role \in {"return", "error"} \/ to.col <= from.col THEN 0
        ELSE SumFunction([i \in DOMAIN ss |-> Largest({0, ss[i][1][1] - ss[i][2][1]})]),
         Cardinality({m \in meets : ProperlyCross(ss[m[1]], other(m))}),
         SumFunction([m \in meets |-> SumFunction([o \in CollinearAxisOverlap(ss[m[1]], other(m)) |-> o.high - o.low])]),
         SumFunction([i \in DOMAIN ss |-> IF i \in {1, n} THEN 0 ELSE Largest({0, 28 - Length(ss[i])})]),
         Largest({0, Len(points) - 2}),
         IF direct = 0 THEN 1000 ELSE (2000 * length + direct) \div (2 * direct),
         Largest({0, -Least(xs)}) + Largest({0, Largest(xs) - CanvasWidth(layout)})
           + Largest({0, -Least(ys)}) + Largest({0, Largest(ys) - CanvasHeight(layout)}),
         off(points[1], anchor(from, natural[1])) + off(Last(points), anchor(to, natural[2])),
         ordinal >>

\* The feasible ones of one pair of sides, the k-th that is tried.
FeasibleOf(doc, layout, e, families, sides, k, natural, placed) ==
  {[points |-> w[2], sides |-> sides, cost |-> Cost(layout, e, w[2], natural, placed, (k - 1) * 9 + w[1] - 1)] :
     w \in {v \in {<<f, families[f]>> : f \in DOMAIN families} : Feasible(doc, layout, e, v[2], sides)}}
Candidates(doc, layout, e, start, end, sides, k, natural, placed) ==
  FeasibleOf(doc, layout, e, Families(doc, layout, e, start, end, sides), sides, k, natural, placed)
Cheapest(candidates) == CHOOSE c \in candidates : \A d \in candidates : d = c \/ Before(c.cost, d.cost)

\* The sides tried, in order: all of them after those preferred.
AllSides == [k \in 1..16 |-> <<Sides[(k - 1) \div 4 + 1], Sides[((k - 1) % 4) + 1]>>]
Distinct(pairs) == FoldLeft(LAMBDA seen, p : IF p \in ToSet(seen) THEN seen ELSE Append(seen, p), <<>>, pairs)
Natural(from, to) == <<DefaultFromSide(from, to), DefaultToSide(from, to)>>

\* legacyAutomaticOneBendSides: the first way with one bend, if it is clear.
OneBend(layout, e) ==
  LET from == BoxAt(layout, e.from)   to == BoxAt(layout, e.to)
      across == IF to.cx < from.cx THEN <<"left", "right">> ELSE <<"right", "left">>
      along  == IF to.cy < from.cy THEN <<"top", "bottom">> ELSE <<"bottom", "top">>
      pairs == <<<<along[1], across[2]>>, <<across[1], along[2]>>>>
      bent(p) ==
        LET start == anchor(from, p[1])   end == anchor(to, p[2])
            corner == IF Vertical(p[1]) THEN <<start[1], end[2]>> ELSE <<end[1], start[2]>>
            points == NormalizeRoutePoints(<<start, corner, end>>)
        IN  /\ Len(points) = 3 /\ RouteHonorsEndpointSides(points, p[1], p[2])
            /\ \A s \in ToSet(Segments(points)) : Length(s) >= 8
            /\ FlowProblems([from |-> e.from, to |-> e.to, points |-> points], layout.boxes, 2) = {}
  IN  IF from.lane = to.lane \/ from.cx = to.cx \/ from.cy = to.cy THEN <<>>
      ELSE SelectSeq(pairs, bent)

\* readableAutomaticSides, before anything is routed, and edgeSides: the first of the
\* sides if they have a way, or those of the cheapest way.
FirstOrCheapest(pairs, ways, natural) ==
  IF ways[1] # {} THEN pairs[1]
  ELSE IF UNION Range(ways) = {} THEN natural ELSE Cheapest(UNION Range(ways)).sides
SidesAmong(doc, layout, e, natural, pairs) ==
  FirstOrCheapest(pairs, [k \in DOMAIN pairs |->
    Candidates(doc, layout, e, anchor(BoxAt(layout, e.from), pairs[k][1]), anchor(BoxAt(layout, e.to), pairs[k][2]),
               pairs[k], k, natural, {})], natural)
Sought(bend, natural) == Distinct((IF bend = <<>> THEN <<>> ELSE <<Head(bend)>>) \o <<natural>> \o AllSides)
edgeSides(doc, layout, e) ==
  LET natural == Natural(BoxAt(layout, e.from), BoxAt(layout, e.to))
  IN  SidesAmong(doc, layout, e, natural, Sought(OneBend(layout, e), natural))

\* automaticPortSpread: where several edges share a side of a node, each has its port.
PortsOf(doc, layout, sides) ==
  LET edges == doc.edges
      ends == [i \in DOMAIN edges |-> [from |-> edges[i].from, to |-> edges[i].to]]
      uses(id, side) == {u \in (DOMAIN edges) \X {1, 2} :
                           (IF u[2] = 1 THEN ends[u[1]].from ELSE ends[u[1]].to) = id /\ sides[u[1]][u[2]] = side}
      port(i, end) ==
        LET id == IF end = 1 THEN ends[i].from ELSE ends[i].to
            side == sides[i][end]   box == BoxAt(layout, id)   level == ~Vertical(side)
            order == SetToSortSeq(uses(id, side), LAMBDA p, q : p[1] < q[1] \/ (p[1] = q[1] /\ p[2] < q[2]))
            beyond(u) == BoxAt(layout, IF u[2] = 1 THEN ends[u[1]].to ELSE ends[u[1]].from)
            fan == [extent |-> IF level THEN box.height ELSE box.width, gutter |-> 16, most |-> 14,
                    counterparts |-> [k \in DOMAIN order |-> IF level THEN beyond(order[k]).cy ELSE beyond(order[k]).cx]]
            offset == Spread(fan)[CHOOSE k \in DOMAIN order : order[k] = <<i, end>>] \div Part
            p == anchor(box, side)
        IN  IF level THEN <<p[1], p[2] + offset>> ELSE <<p[1] + offset, p[2]>>
  IN  [i \in DOMAIN edges |-> <<port(i, 1), port(i, 2)>>]

\* The channel on the outer right, pushed out until it is feasible, and back in halves.
\* probeGrowth doubles from each probe to the next.
Growths == <<0, 1, 3, 7, 15, 31, 63>>
Search(ok(_), base, first, growth) ==
  LET at(k) == first + growth * Growths[k + 1]
      tried == {k \in 0..6 : at(k) > base}
      hits == {k \in tried : ok(at(k))}
      halve(s) ==
        LET mid == (s.low + s.high + 1) \div 2
        IN  IF s.high - s.low <= 1 THEN s
            ELSE IF ok(mid) THEN [s EXCEPT !.high = mid] ELSE [s EXCEPT !.low = mid]
      span == [low |-> IF Least(hits) = Least(tried) THEN base ELSE at(Least(hits) - 1), high |-> at(Least(hits))]
      halved[i \in 0..53] == IF i = 0 THEN span ELSE halve(halved[i - 1])
  IN  IF hits = {} THEN {} ELSE {halved[53].high}
\* Its use for one pair of sides, to the pixel (the code goes on to a thousandth).
Widened(doc, layout, e, start, end, sides, k, natural, placed) ==
  LET base == OutsideRight(layout)
      right == Largest({base} \cup {b.x + b.width : b \in layout.boxes}
                       \cup UNION {{p[1] : p \in ToSet(r.points)} : r \in placed})
      way(at) == NormalizeRoutePoints(<<start>> \o Corridor(start, end, sides, "x", at) \o <<end>>)
      found == Search(LAMBDA at : \E points \in {way(at)} : Feasible(doc, layout, e, points, sides), base, base, Largest({32, right + 16 - base}))
  IN  {[points |-> points, sides |-> sides,
        cost |-> Cost(layout, e, points, natural, placed, (k - 1) * 9 + 6)] : points \in {way(at) : at \in found}}

\* readableAutomaticRoute: all that can be, if anything can.
OrElse(ways, others) == IF ways # {} THEN ways ELSE others
WaysAmong(doc, layout, e, natural, pairs, starts, ends, placed) ==
  UNION {OrElse(Candidates(doc, layout, e, starts[k], ends[k], pairs[k], k, natural, placed),
                Widened(doc, layout, e, starts[k], ends[k], pairs[k], k, natural, placed)) : k \in DOMAIN pairs}
Plans(doc, layout, e, pairs, ports, placed) ==
  LET from == BoxAt(layout, e.from)   to == BoxAt(layout, e.to)
  IN  WaysAmong(doc, layout, e, Natural(from, to), pairs,
                [k \in DOMAIN pairs |-> IF k = 1 THEN ports[1] ELSE anchor(from, pairs[k][1])],
                [k \in DOMAIN pairs |-> IF k = 1 THEN ports[2] ELSE anchor(to, pairs[k][2])], placed)

\* pathFor of every edge, in the canonical order; an edge that has no way stops it.
Extended(s, e, way) == [s EXCEPT !.placed = Append(@, [edge |-> e, points |-> way.points, sides |-> way.sides])]
Placing(s, e, ways) ==
  IF s.stuck # {} THEN s ELSE IF ways = {} THEN [s EXCEPT !.stuck = {e}] ELSE Extended(s, e, Cheapest(ways))
RoutesFrom(doc, layout, sides, ports) ==
  LET place(s, i) == Placing(s, doc.edges[i], Plans(doc, layout, doc.edges[i], Distinct(<<sides[i]>> \o AllSides),
                                                    ports[i], ToSet(s.placed)))
      after[i \in 0..Len(doc.edges)] ==
        IF i = 0 THEN [placed |-> <<>>, stuck |-> {}] ELSE place(after[i - 1], i)
  IN  after[Len(doc.edges)]
RoutesBy(doc, layout, sides) == RoutesFrom(doc, layout, sides, PortsOf(doc, layout, sides))
Routes(doc, layout) ==
  RoutesBy(doc, layout, [i \in DOMAIN doc.edges |-> edgeSides(doc, layout, doc.edges[i])])

\* What an edge without a way asks for.
Request(layout, e) ==
  LET from == BoxAt(layout, e.from)   to == BoxAt(layout, e.to)
      facing == to.x > from.x + from.width \/ from.x > to.x + to.width
      cols == <<Least({from.col, to.col}), Largest({from.col, to.col})>>
      least == (from.width + to.width) \div 2 + 32
  IN  IF facing /\ from.col # to.col /\ layout.columns[cols[2]] - layout.columns[cols[1]] < least
      THEN {[kind |-> "rank", key |-> cols, least |-> least]}
      ELSE IF from.lane # to.lane /\ layout.lanes[1].gap < 32
      THEN {[kind |-> "lane", key |-> <<>>, least |-> 32]} ELSE {}

-----------------------------------------------------------------------------
CompilerInit ==
  /\ work \in Documents /\ made = <<>>
  /\ feedback = NoFeedback /\ round = 0 /\ asked = <<>>

SoFar(r) ==
  IF r.kind = "lane" THEN feedback.lane
  ELSE IF r.key \in DOMAIN feedback.rank THEN feedback.rank[r.key] ELSE 0
Granted(r) ==
  IF r.kind = "lane" THEN [feedback EXCEPT !.lane = r.least]
  ELSE [feedback EXCEPT !.rank = [k \in DOMAIN @ \cup {r.key} |-> IF k = r.key THEN r.least ELSE @[k]]]
\* One turn of compileWorkflowWithFeedback.
Turn(doc, layout, placed, stuck) ==
  LET requests == UNION {Request(layout, e) : e \in stuck}
      failed(code) == made' = [code |-> code] /\ UNCHANGED <<feedback, round, asked>>
  IN  IF stuck = {} THEN made' = [code |-> "ok", layout |-> layout, routes |-> placed]
                         /\ UNCHANGED <<feedback, round, asked>>
      ELSE IF requests = {} THEN failed("no-route")
      ELSE \E r \in requests :
        IF r.least <= SoFar(r) THEN failed("no-progress")
        ELSE IF round = MaxRounds THEN failed("no-rounds-left")
        ELSE /\ feedback' = Granted(r)
             /\ round' = round + 1 /\ asked' = Append(asked, r) /\ UNCHANGED made

\* A document with all its routes.
Compile ==
  /\ work.what = "routes" /\ made = <<>> /\ UNCHANGED work
  /\ \E doc \in {canonicalReadableWorkflow(work.doc)} : \E layout \in {Layout(doc, feedback)} :
       \E routes \in {Routes(doc, layout)} : Turn(doc, layout, routes.placed, routes.stuck)

\* A document of which only the layout is modelled: whatever edge there is has no way.
LayOut ==
  /\ work.what = "layout" /\ made = <<>> /\ UNCHANGED work
  /\ \E doc \in {canonicalReadableWorkflow(work.doc)} : \E layout \in {Layout(doc, feedback)} :
       \E stuck \in {{}} \cup {{e} : e \in Edges(doc)} : Turn(doc, layout, <<>>, stuck)

CheckContract ==
  /\ work.what = "contract" /\ made = <<>> /\ UNCHANGED <<work, feedback, round, asked>>
  /\ made' = [code |-> "checked", diagnostics |-> semanticContractDiagnostics(canonicalReadableWorkflow(work.doc))]

Probe ==
  /\ work.what = "channel" /\ made = <<>> /\ UNCHANGED <<work, feedback, round, asked>>
  /\ made' = [code |-> "probed", at |-> Search(LAMBDA v : v \in work.feasible, work.base, work.first, work.growth)]

CompilerNext == Compile \/ LayOut \/ CheckContract \/ Probe
CompilerSpec == CompilerInit /\ [][CompilerNext]_compilerVars

-----------------------------------------------------------------------------
Outcome(code) == made # <<>> /\ made.code = code

\* What is compiled does not depend on the order its author wrote things in.
OrderIrrelevant ==
  work.what # "channel" => canonicalReadableWorkflow(work.doc)
    = canonicalReadableWorkflow([work.doc EXCEPT !.nodes = Reverse(@), !.edges = Reverse(@),
                                                !.phases = Reverse(@), !.groups = Reverse(@)])

\* A contract is refused for exactly what the graph does not keep: a path is there if no
\* set of nodes that edges do not leave has its start without its end.
ContractExact ==
  Outcome("checked") =>
    LET doc == work.doc   ids == {n.id : n \in NodesOf(doc)}   checks == doc.checks
        closed == {s \in SUBSET ids : \A e \in Edges(doc) : e.from \in s => e.to \in s}
        keeps == /\ checks.roots \cup checks.terminals \subseteq ids
                 /\ \A r \in checks.edges \cup checks.paths : {r[1], r[2]} \subseteq ids
                 /\ checks.rooted => ids \subseteq checks.roots \cup {e.to : e \in Edges(doc)}
                 /\ checks.ended => ids \subseteq checks.terminals \cup {e.from : e \in Edges(doc)}
                 /\ checks.edges \subseteq {<<e.from, e.to>> : e \in Edges(doc)}
                 /\ \A r \in checks.paths : \A s \in closed : r[1] \in s => r[2] \in s
    IN  made.diagnostics = {} <=> keeps

\* Every round asks for more than the layout gives, whatever was asked before stays
\* granted, and so the same is never asked again.
RoundsProgress ==
  /\ ~Outcome("no-progress")
  /\ \A i, j \in DOMAIN asked : i < j /\ asked[i].key = asked[j].key => asked[i].least < asked[j].least
  /\ Outcome("ok") => \A i \in DOMAIN asked :
       LET r == asked[i]   xs == made.layout.columns
       IN  IF r.kind = "lane" THEN made.layout.lanes[1].gap >= r.least
           ELSE xs[r.key[2]] - xs[r.key[1]] >= r.least
LayoutSound == Outcome("ok") => LayoutKept(work.doc, feedback, made.layout)

\* Routes the compiler chooses pass the gates it then puts them through, and run from a
\* border of their one node to a border of the other.
RoutesPass ==
  Outcome("ok") => \A i \in DOMAIN made.routes :
    LET r == made.routes[i]   layout == made.layout   ss == Segments(r.points)
        from == BoxAt(layout, r.edge.from)   to == BoxAt(layout, r.edge.to)
    IN  /\ \A b \in layout.boxes \ {from, to} : \A s \in ToSet(ss) : Apart(s, Grown(b, 2))
        /\ RouteHonorsEndpointSides(r.points, r.sides[1], r.sides[2])
        /\ RhythmIssues(r.points, 16, 8) = {} /\ (Len(ss) = 1 => Length(ss[1]) >= 28)
        /\ \A lane \in ToSet(layout.lanes) : BorderRuns(r, lane) = {}
        /\ \A k \in 2..Len(ss) : Apart(ss[k], Grown(from, 0))
        /\ \A k \in 1..(Len(ss) - 1) : Apart(ss[k], Grown(to, 0))
        /\ PointInBox(r.points[1], Grown(from, 0)) /\ PointInBox(Last(r.points), Grown(to, 0))

\* A channel is found wherever one of the probes is feasible, and then it cannot be any
\* closer: right inside of it none is feasible.
ChannelTight ==
  Outcome("probed") =>
    LET probes == {work.first + work.growth * n : n \in {0, 1, 3, 7, 15, 31, 63}}
        tried == {at \in probes : at > work.base}
    IN  /\ made.at = {} <=> tried \cap work.feasible = {}
        /\ \A at \in made.at : at \in work.feasible /\ (at - 1 > work.base => at - 1 \notin work.feasible)

CompilerSound ==
  OrderIrrelevant /\ ContractExact /\ RoundsProgress /\ LayoutSound /\ RoutesPass /\ ChannelTight
=============================================================================
