---------------------------- MODULE WorkflowLayout ----------------------------
(* Where the workflow compiler of the diagram skill puts things, under its second  *)
(* contract (createReadableLayout and the measures built on it,                    *)
(* .agents/skills/archify/renderers/workflow/workflow-compiler.mjs): six columns   *)
(* as far apart as the nodes, labels, phases and groups between them ask, and      *)
(* lanes as wide and high as what they hold. Coordinates are whole pixels; a text  *)
(* is the number of its text units. Which contributor is named for a width is left *)
(* out.                                                                            *)
EXTENDS RouteGeometry, TLC

Columns == 0..5
Baseline(col) == 94 + 120 * col
TextWidth(units, tenths) == (units * tenths) \div 10
workflowLabelWidth(units) == Largest({30, TextWidth(units, 48) + 10})
laneX == 40
laneTitleH == 30

\* A document: lanes [id, label, exception], nodes [id, lane, col, width, height, offset],
\* edges [id, from, to, label (0: none), fromSide, toSide, route, role, pinned: "x" (via or
\* channelX), "y" (channelY alone) or ""], phases and groups.
NodesOf(doc) == ToSet(doc.nodes)
NodeOf(doc, id) == CHOOSE n \in NodesOf(doc) : n.id = id
Edges(doc) == {e \in ToSet(doc.edges) : {e.from, e.to} \subseteq {n.id : n \in NodesOf(doc)}}
LaneIndex(doc, id) == CHOOSE i \in DOMAIN doc.lanes : doc.lanes[i].id = id
Heading(doc, i) == 5 + doc.lanes[i].label   \* "01 / " or "EX / ", and the label

verticalIntervalsOverlap(m, n, clearance) ==
  2 * Distance(m.offset, n.offset) < m.height + n.height + 2 * clearance

-----------------------------------------------------------------------------
(* Columns.                                                                    *)

Gapped(m, n, least) == [from |-> m.col, to |-> n.col, least |-> (m.width + n.width) \div 2 + least]
NeighbourGaps(doc) ==
  {Gapped(p[1], p[2], 8) : p \in {q \in NodesOf(doc) \X NodesOf(doc) :
     q[1].lane = q[2].lane /\ q[1].col < q[2].col /\ verticalIntervalsOverlap(q[1], q[2], 8)}}

\* Edges that may run straight from a node to one beside it.
Direct(doc) ==
  {e \in Edges(doc) : /\ e.pinned = "" /\ e.route \in {"auto", "straight"}
                      /\ LET m == NodeOf(doc, e.from)   n == NodeOf(doc, e.to)
                         IN m.lane = n.lane /\ m.col # n.col /\ m.offset = n.offset}
Outwards(doc, e) ==   \* its two nodes, from left to right
  LET m == NodeOf(doc, e.from)   n == NodeOf(doc, e.to) IN IF m.col < n.col THEN <<m, n>> ELSE <<n, m>>
LabelClearance(e) == IF e.label = 0 THEN 28 ELSE Largest({28, workflowLabelWidth(e.label) + 8})
\* A label that would push its nodes too far apart goes to a channel of its own.
ChannelLabel(e) ==
  /\ e.label # 0 /\ e.route = "auto" /\ e.fromSide = "" /\ e.toSide = "" /\ LabelClearance(e) - 28 > 4 * 28
DirectGaps(doc) == {Gapped(Outwards(doc, e)[1], Outwards(doc, e)[2], 28) : e \in Direct(doc)}
LabelGaps(doc) ==
  {Gapped(Outwards(doc, e)[1], Outwards(doc, e)[2], LabelClearance(e)) : e \in {d \in Direct(doc) : ~ChannelLabel(d)}}

\* The span of a phase or a group, which has room beside it in its own columns.
SpanGap(s, room, over) ==
  LET more == Largest({0, TextWidth(s.label, 56) + over - room})
  IN  IF s.from < s.to THEN {[from |-> s.from, to |-> s.to, least |-> more]}
      ELSE IF s.to < 5 THEN {[from |-> s.to, to |-> s.to + 1, least |-> 120 + more]} ELSE {}

\* Feedback: distances of columns (a function on pairs of columns) and of lanes that an
\* earlier round found it needs.
NoFeedback == [rank |-> <<>>, lane |-> 0]
Gaps(doc, feedback) ==
  {[from |-> c, to |-> c + 1, least |-> 120] : c \in 0..4}
  \cup {[from |-> k[1], to |-> k[2], least |-> feedback.rank[k]] : k \in DOMAIN feedback.rank}
  \cup NeighbourGaps(doc) \cup DirectGaps(doc) \cup LabelGaps(doc)
  \cup (UNION {SpanGap(p, 92, 8) : p \in ToSet(doc.phases)})
  \cup (UNION {SpanGap(g, 100, 20) : g \in ToSet(doc.groups)})

\* One sweep from left to right, over what asks for each column's place.
Solve(gaps) ==
  LET xs[col \in Columns] ==
        IF col = 0 THEN Baseline(0)
        ELSE Largest({Baseline(col)} \cup {xs[g.from] + g.least : g \in {h \in gaps : h.to = col}})
  IN  xs

GroupBounds(doc, g, xs) ==
  LET start == xs[g.from] - 50   end == xs[g.to] + 50
      width == Largest({end - start, TextWidth(g.label, 56) + 20})
      left  == IF g.from = g.to THEN start ELSE (start + end - width) \div 2
      held  == {n \in NodesOf(doc) : n.lane = g.lane /\ n.col \in g.from..g.to}
  IN  [left  |-> Least({left} \cup {xs[n.col] - n.width \div 2 - 4 : n \in held}),
       right |-> Largest({left + width} \cup {xs[n.col] + n.width \div 2 + 4 : n \in held})]
PhaseLeft(p, xs) ==
  IF p.from = p.to THEN xs[p.from] - 46
  ELSE (xs[p.from] + xs[p.to] - Largest({xs[p.to] - xs[p.from] + 92, TextWidth(p.label, 56) + 8})) \div 2

Shifted(xs, by) == [c \in Columns |-> xs[c] + by]
\* All columns move right for the first column's nodes, ...
ForFirstRank(doc, xs) ==
  Shifted(xs, Largest({0, 48 - xs[0] + Largest({46} \cup {n.width \div 2 : n \in {m \in NodesOf(doc) : m.col = 0}})}))
\* ... for routes that leave a node's top beside the heading of its lane, ...
ForHeadings(doc, xs) ==
  LET tops == {NodeOf(doc, e.from) : e \in {d \in Edges(doc) : d.pinned # "x" /\ d.fromSide = "top"}}
              \cup {NodeOf(doc, e.to) : e \in {d \in Edges(doc) : d.pinned # "x" /\ d.toSide = "top"}}
  IN  Shifted(xs, Largest({0} \cup {laneX + 14 + TextWidth(Heading(doc, LaneIndex(doc, n.lane)), 62) + 2 - xs[n.col] : n \in tops}))
\* ... and for labels in channels, phases and groups.
ForContent(doc, xs) ==
  Shifted(xs, Largest({0}
    \cup {16 - ((xs[Outwards(doc, e)[1].col] + xs[Outwards(doc, e)[2].col] - workflowLabelWidth(e.label)) \div 2) :
            e \in {d \in Direct(doc) : ChannelLabel(d)}}
    \cup {16 - PhaseLeft(p, xs) : p \in ToSet(doc.phases)}
    \cup {44 - GroupBounds(doc, g, xs).left : g \in ToSet(doc.groups)}))
ColumnsOf(doc, feedback) ==
  ForContent(doc, ForHeadings(doc, ForFirstRank(doc, Solve(Gaps(doc, feedback)))))

-----------------------------------------------------------------------------
(* Lanes, and the boxes of nodes and groups in them.                           *)

LaneWidth(doc, xs) ==
  LET rights == {xs[5] + 50} \cup {xs[n.col] + n.width \div 2 : n \in NodesOf(doc)}
                \cup {GroupBounds(doc, g, xs).right : g \in ToSet(doc.groups)}
  IN  Largest({640, Largest(rights) - laneX + 8}
              \cup {TextWidth(Heading(doc, i), 62) + 30 : i \in DOMAIN doc.lanes})

ContentHeight(doc) == Largest({74} \cup {n.height + 2 * Distance(n.offset, 0) + 8 : n \in NodesOf(doc)})
TopOffset(doc, n) == (ContentHeight(doc) - n.height) \div 2 + n.offset
\* What a lane reserves above and below its content for the frames of its groups.
FrameRoom(doc, xs, lane) ==
  LET held(g) == {n \in NodesOf(doc) : n.lane = lane /\ n.col \in g.from..g.to}
      beneath(g, n) ==
        LET left == GroupBounds(doc, g, xs).left + 10
        IN  xs[n.col] + n.width \div 2 > left /\ xs[n.col] - n.width \div 2 < left + TextWidth(g.label, 56)
      groups == {g \in ToSet(doc.groups) : g.lane = lane}
  IN  [header |-> Largest({0} \cup UNION {{(IF beneath(g, n) THEN 11 ELSE 9) - TopOffset(doc, n) : n \in held(g)} : g \in groups}),
       footer |-> Largest({0} \cup UNION {{1 - (ContentHeight(doc) - 4 - TopOffset(doc, n) - n.height) : n \in held(g)} : g \in groups})]

LaneGap(feedback) == Largest({20, feedback.lane})
LaneHeight(doc, xs, i) ==
  LET room == FrameRoom(doc, xs, doc.lanes[i].id) IN laneTitleH + ContentHeight(doc) + room.header + room.footer
LaneTops(doc, feedback, xs) ==
  LET top[i \in DOMAIN doc.lanes] ==
        IF i = 1 THEN 52 ELSE top[i - 1] + LaneHeight(doc, xs, i - 1) + LaneGap(feedback)
  IN  top
Lane(doc, feedback, xs, i) ==
  LET room == FrameRoom(doc, xs, doc.lanes[i].id)
  IN  [x |-> laneX, y |-> LaneTops(doc, feedback, xs)[i], width |-> LaneWidth(doc, xs), height |-> LaneHeight(doc, xs, i),
       radius |-> 10, gap |-> LaneGap(feedback), header |-> room.header, footer |-> room.footer]

\* measureNode.
NodeBox(doc, lanes, xs, n) ==
  LET lane == lanes[LaneIndex(doc, n.lane)]
      content == lane.height - laneTitleH - lane.header - lane.footer
      top == lane.y + laneTitleH + lane.header + (content - n.height) \div 2 + n.offset
  IN  [id |-> n.id, lane |-> n.lane, col |-> n.col, width |-> n.width, height |-> n.height,
       x |-> xs[n.col] - n.width \div 2, y |-> top, cx |-> xs[n.col], cy |-> top + n.height \div 2]
GroupFrame(doc, lanes, xs, g) ==
  LET lane == lanes[LaneIndex(doc, g.lane)]   bounds == GroupBounds(doc, g, xs)
  IN  [x |-> bounds.left, width |-> bounds.right - bounds.left,
       y |-> lane.y + laneTitleH + 8, height |-> lane.height - laneTitleH - 8 - 4]

Layout(doc, feedback) ==
  LET xs == ColumnsOf(doc, feedback)
      lanes == [i \in DOMAIN doc.lanes |-> Lane(doc, feedback, xs, i)]
  IN  [columns |-> xs, lanes |-> lanes,
       boxes |-> {NodeBox(doc, lanes, xs, n) : n \in NodesOf(doc)},
       frames |-> [g \in ToSet(doc.groups) |-> GroupFrame(doc, lanes, xs, g)]]

-----------------------------------------------------------------------------
(* What a layout owes the document.                                            *)

\* Every distance asked for is kept, and no column is further right than they ask.
ColumnsLeast(doc, feedback, layout) ==
  LET xs == layout.columns   gaps == Gaps(doc, feedback)
  IN  /\ \A g \in gaps : xs[g.to] - xs[g.from] >= g.least
      /\ \A c \in 1..5 : \/ xs[c] - xs[0] = 120 * c
                         \/ \E g \in gaps : g.to = c /\ xs[c] - xs[g.from] = g.least

\* Nodes in different columns of a lane are 8 px apart, so the gate for that can only
\* ever fire within a column.
NodesApart(layout) ==
  \A m, n \in layout.boxes : m.lane = n.lane /\ m.col # n.col => ~RectsOverlap(m, n, 8)

BoxAt(layout, id) == CHOOSE b \in layout.boxes : b.id = id
\* A straight edge has room for itself and for the label it carries.
DirectRoom(doc, layout) ==
  \A e \in Direct(doc) :
    LET m == BoxAt(layout, Outwards(doc, e)[1].id)   n == BoxAt(layout, Outwards(doc, e)[2].id)
    IN  n.x - (m.x + m.width) >= IF ChannelLabel(e) THEN 28 ELSE LabelClearance(e)

\* Nodes lie in their lane, below its title, and in the frames of the groups they belong
\* to; nothing leaves the lane to the right, nor the first column's nodes to the left.
Contained(doc, layout) ==
  /\ \A b \in layout.boxes :
       LET lane == layout.lanes[LaneIndex(doc, b.lane)]
       IN  /\ b.y >= lane.y + laneTitleH + lane.header
           /\ b.y + b.height <= lane.y + lane.height
           /\ b.x + b.width + 8 <= lane.x + lane.width
           /\ b.col = 0 => b.x >= lane.x + 8
  /\ \A g \in ToSet(doc.groups) :
       LET f == layout.frames[g]   lane == layout.lanes[LaneIndex(doc, g.lane)]
       IN  /\ f.x >= lane.x + 4 /\ f.x + f.width + 8 <= lane.x + lane.width
           /\ f.width >= TextWidth(g.label, 56) + 20
           /\ \A b \in {c \in layout.boxes : c.lane = g.lane /\ c.col \in g.from..g.to} :
                /\ b.x >= f.x + 4 /\ b.x + b.width + 4 <= f.x + f.width
                /\ b.y > f.y /\ b.y + b.height < f.y + f.height
  /\ \A p \in ToSet(doc.phases) : PhaseLeft(p, layout.columns) >= 16
  /\ \A i \in 1..(Len(doc.lanes) - 1) :
       layout.lanes[i].y + layout.lanes[i].height + 20 <= layout.lanes[i + 1].y
LayoutKept(doc, feedback, layout) ==
  /\ ColumnsLeast(doc, feedback, layout) /\ NodesApart(layout)
  /\ DirectRoom(doc, layout) /\ Contained(doc, layout)
=============================================================================
