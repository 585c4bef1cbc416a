------------------------ MODULE WorkflowCompiler_proofs ------------------------
(***************************************************************************)
(* TLAPS proofs about the compiler of workflow diagrams: RouteGeometry,    *)
(* for any drawing with integer coordinates, and WorkflowCompiler with     *)
(* WorkflowLayout, for any document that has been validated.               *)
(***************************************************************************)
EXTENDS WorkflowCompiler, FiniteSetTheorems, SequenceTheorems, WellFoundedInduction,
        NaturalsInduction, TLAPS

-----------------------------------------------------------------------------
(* Routes and nodes                                                         *)

LEMMA LeastOfTwo ==
  ASSUME NEW m \in Int, NEW n \in Int
  PROVE  /\ Least({m, n}) = IF m <= n THEN m ELSE n
         /\ Largest({m, n}) = IF m >= n THEN m ELSE n
<1> DEFINE s == {m, n}
<1>1. \E a \in s : \A b \in s : a <= b
  <2>1. CASE m <= n
    BY <2>1
  <2>2. CASE n < m
    BY <2>2
  <2>3. QED
    BY <2>1, <2>2
<1>2. \E a \in s : \A b \in s : a >= b
  <2>1. CASE m >= n
    BY <2>1
  <2>2. CASE n > m
    BY <2>2
  <2>3. QED
    BY <2>1, <2>2
<1>3. Least(s) \in s /\ \A b \in s : Least(s) <= b
  BY <1>1 DEF Least
<1>4. Largest(s) \in s /\ \A b \in s : Largest(s) >= b
  BY <1>2 DEF Largest
<1>5. QED
  BY <1>3, <1>4

LEMMA SpanIs ==
  ASSUME NEW m \in Int, NEW n \in Int, NEW v
  PROVE  v \in Span(m, n) <=> v \in Int /\ (m <= v \/ n <= v) /\ (v <= m \/ v <= n)
<1>1. Span(m, n) = (IF m <= n THEN m ELSE n)..(IF m >= n THEN m ELSE n)
  BY LeastOfTwo DEF Span
<1>2. QED
  BY <1>1

LEMMA Signs ==
  ASSUME NEW u \in Int, NEW v \in Int
  PROVE  /\ u * v \in Int
         /\ u >= 0 /\ v >= 0 => u * v >= 0
         /\ u <= 0 /\ v <= 0 => u * v >= 0
         /\ u >= 0 /\ v <= 0 => u * v <= 0
         /\ u <= 0 /\ v >= 0 => u * v <= 0
         /\ u > 0 /\ v > 0 => u * v > 0
         /\ u < 0 /\ v < 0 => u * v > 0
         /\ u > 0 /\ v < 0 => u * v < 0
         /\ u < 0 /\ v > 0 => u * v < 0
  OBVIOUS

LEMMA CrossType ==
  ASSUME NEW a \in Point, NEW b \in Point, NEW c \in Point
  PROVE  /\ Cross(a, b, c) \in Int
         /\ Cross(a, b, c) = (b[1] - a[1]) * (c[2] - a[2]) - (b[2] - a[2]) * (c[1] - a[1])
         /\ Cross(a, b, a) = 0 /\ Cross(a, b, b) = 0
  BY DEF Cross, Point

LEMMA OrientationIs ==
  ASSUME NEW a \in Point, NEW b \in Point, NEW c \in Point
  PROVE  /\ Orientation(a, b, c) = 0 <=> Cross(a, b, c) = 0
         /\ Orientation(a, b, c) = 1 <=> Cross(a, b, c) < 0
         /\ Orientation(a, b, c) = 2 <=> Cross(a, b, c) > 0
         /\ Orientation(a, b, c) \in {0, 1, 2}
  BY CrossType DEF Orientation

\* Two segments on either side of one another meet: no line parallel to an axis parts them.
LEMMA Crossed ==
  ASSUME NEW a \in Point, NEW b \in Point, NEW c \in Point, NEW d \in Point,
         Orientation(a, b, c) # Orientation(a, b, d), Orientation(c, d, a) # Orientation(c, d, b),
         NEW k \in {1, 2}
  PROVE  /\ a[k] >= c[k] \/ a[k] >= d[k] \/ b[k] >= c[k] \/ b[k] >= d[k]
         /\ a[k] <= c[k] \/ a[k] <= d[k] \/ b[k] <= c[k] \/ b[k] <= d[k]
<1> DEFINE A == Cross(c, d, a)   B == Cross(c, d, b)   C == Cross(a, b, c)   D == Cross(a, b, d)
<1>1. A \in Int /\ B \in Int /\ C \in Int /\ D \in Int
  BY CrossType
<1>2. A - B = D - C
  BY DEF Cross, Point
<1>3. \A e \in Int : A * (b[k] - e) - B * (a[k] - e) = D * (c[k] - e) - C * (d[k] - e)
  <2>1. CASE k = 1
    BY <2>1 DEF Cross, Point
  <2>2. CASE k = 2
    BY <2>2 DEF Cross, Point
  <2>3. QED
    BY <2>1, <2>2
<1>4. (A <= 0 /\ B >= 0) \/ (A >= 0 /\ B <= 0)
  BY <1>1, OrientationIs
<1>5. (C <= 0 /\ D >= 0) \/ (C >= 0 /\ D <= 0)
  BY <1>1, OrientationIs
<1>6. A # B /\ C # D
  BY <1>1, OrientationIs
<1>7. a[k] \in Int /\ b[k] \in Int /\ c[k] \in Int /\ d[k] \in Int
  BY DEF Point
<1> HIDE DEF A, B, C, D
<1>8. ASSUME NEW e \in Int, NEW pa \in Int, NEW pb \in Int, NEW pc \in Int, NEW pd \in Int,
             (pa < 0 /\ pb < 0 /\ pc >= 0 /\ pd >= 0) \/ (pa > 0 /\ pb > 0 /\ pc <= 0 /\ pd <= 0)
      PROVE  A * pb - B * pa # D * pc - C * pd
  <2>1. CASE A - B > 0
    <3>1. A >= 0 /\ B <= 0 /\ D >= 0 /\ C <= 0 /\ (A > 0 \/ B < 0)
      BY <1>1, <1>2, <1>4, <1>5, <2>1
    <3>2. CASE pa < 0 /\ pb < 0 /\ pc >= 0 /\ pd >= 0
      <4>1. A * pb <= 0 /\ B * pa >= 0 /\ (A * pb < 0 \/ B * pa > 0) /\ D * pc >= 0 /\ C * pd <= 0
        BY <1>1, <3>1, <3>2, Signs
      <4>2. QED
        BY <1>1, <4>1, Signs
    <3>3. CASE pa > 0 /\ pb > 0 /\ pc <= 0 /\ pd <= 0
      <4>1. A * pb >= 0 /\ B * pa <= 0 /\ (A * pb > 0 \/ B * pa < 0) /\ D * pc <= 0 /\ C * pd >= 0
        BY <1>1, <3>1, <3>3, Signs
      <4>2. QED
        BY <1>1, <4>1, Signs
    <3>4. QED
      BY <1>8, <3>2, <3>3
  <2>2. CASE A - B < 0
    <3>1. A <= 0 /\ B >= 0 /\ D <= 0 /\ C >= 0 /\ (A < 0 \/ B > 0)
      BY <1>1, <1>2, <1>4, <1>5, <2>2
    <3>2. CASE pa < 0 /\ pb < 0 /\ pc >= 0 /\ pd >= 0
      <4>1. A * pb >= 0 /\ B * pa <= 0 /\ (A * pb > 0 \/ B * pa < 0) /\ D * pc <= 0 /\ C * pd >= 0
        BY <1>1, <3>1, <3>2, Signs
      <4>2. QED
        BY <1>1, <4>1, Signs
    <3>3. CASE pa > 0 /\ pb > 0 /\ pc <= 0 /\ pd <= 0
      <4>1. A * pb <= 0 /\ B * pa >= 0 /\ (A * pb < 0 \/ B * pa > 0) /\ D * pc >= 0 /\ C * pd <= 0
        BY <1>1, <3>1, <3>3, Signs
      <4>2. QED
        BY <1>1, <4>1, Signs
    <3>4. QED
      BY <1>8, <3>2, <3>3
  <2>3. QED
    BY <1>1, <1>6, <2>1, <2>2
<1> DEFINE low == IF c[k] <= d[k] THEN c[k] ELSE d[k]   high == IF c[k] >= d[k] THEN c[k] ELSE d[k]
<1>9. low \in Int /\ high \in Int /\ low <= c[k] /\ low <= d[k] /\ high >= c[k] /\ high >= d[k]
  BY <1>7
<1>10. ASSUME a[k] < low, b[k] < low PROVE FALSE
  <2>1. a[k] - low < 0 /\ b[k] - low < 0 /\ c[k] - low >= 0 /\ d[k] - low >= 0
    BY <1>7, <1>9, <1>10
  <2>2. A * (b[k] - low) - B * (a[k] - low) # D * (c[k] - low) - C * (d[k] - low)
    BY <1>7, <1>8, <1>9, <2>1
  <2>3. QED
    BY <1>3, <1>9, <2>2
<1>11. ASSUME a[k] > high, b[k] > high PROVE FALSE
  <2>1. a[k] - high > 0 /\ b[k] - high > 0 /\ c[k] - high <= 0 /\ d[k] - high <= 0
    BY <1>7, <1>9, <1>11
  <2>2. A * (b[k] - high) - B * (a[k] - high) # D * (c[k] - high) - C * (d[k] - high)
    BY <1>7, <1>8, <1>9, <2>1
  <2>3. QED
    BY <1>3, <1>9, <2>2
<1>12. QED
  BY <1>7, <1>10, <1>11

\* Where two segments meet, each axis has a place both cover; one of them has an end on the
\* other, or the ends of each are on different sides of the other.
LEMMA MeetOverlaps ==
  ASSUME NEW a \in Point, NEW b \in Point, NEW c \in Point, NEW d \in Point,
         SegmentsIntersect(a, b, c, d), NEW k \in {1, 2}
  PROVE  /\ a[k] >= c[k] \/ a[k] >= d[k] \/ b[k] >= c[k] \/ b[k] >= d[k]
         /\ a[k] <= c[k] \/ a[k] <= d[k] \/ b[k] <= c[k] \/ b[k] <= d[k]
<1>1. a[k] \in Int /\ b[k] \in Int /\ c[k] \in Int /\ d[k] \in Int
  BY DEF Point
<1>2. ASSUME NEW u \in Point, NEW v \in Point, NEW w \in Point, OnSegment(u, v, w)
      PROVE  (u[k] <= v[k] \/ w[k] <= v[k]) /\ (v[k] <= u[k] \/ v[k] <= w[k])
  <2>1. u[k] \in Int /\ v[k] \in Int /\ w[k] \in Int
    BY DEF Point
  <2>2. v[k] \in Span(u[k], w[k])
    BY <1>2 DEF OnSegment
  <2>3. QED
    BY <2>1, <2>2, SpanIs
<1>3. CASE OnSegment(a, c, b)
  BY <1>1, <1>2, <1>3
<1>4. CASE OnSegment(a, d, b)
  BY <1>1, <1>2, <1>4
<1>5. CASE OnSegment(c, a, d)
  BY <1>1, <1>2, <1>5
<1>6. CASE OnSegment(c, b, d)
  BY <1>1, <1>2, <1>6
<1>7. CASE Orientation(a, b, c) # Orientation(a, b, d) /\ Orientation(c, d, a) # Orientation(c, d, b)
  BY <1>7, Crossed
<1>8. QED
  BY <1>3, <1>4, <1>5, <1>6, <1>7 DEF SegmentsIntersect


Framed(box) ==
  /\ box.x1 \in Int /\ box.x2 \in Int /\ box.y1 \in Int /\ box.y2 \in Int
  /\ box.x1 <= box.x2 /\ box.y1 <= box.y2
CornersOf(box) == {box.x1, box.x2} \X {box.y1, box.y2}
CornerList(box) == <<<<box.x1, box.y1>>, <<box.x2, box.y1>>, <<box.x2, box.y2>>, <<box.x1, box.y2>>>>
\* What the test by corners and orientations says of a segment and a box.
Hits(p, q, box) ==
  \/ PointInBox(p, box) \/ PointInBox(q, box)
  \/ \E i \in 1..4 : SegmentsIntersect(p, q, CornerList(box)[i], CornerList(box)[(i % 4) + 1])

\* The corners lie on both sides of any line through a point of the box, or on it.
LEMMA LineThrough ==
  ASSUME NEW p \in Point, NEW q \in Point, NEW v \in Point, NEW box, Framed(box), PointInBox(v, box),
         Cross(p, q, v) = 0
  PROVE  /\ \E c \in CornersOf(box) : Cross(p, q, c) <= 0
         /\ \E c \in CornersOf(box) : Cross(p, q, c) >= 0
<1> DEFINE u == q[1] - p[1]   w == q[2] - p[2]
<1>1. p[1] \in Int /\ p[2] \in Int /\ q[1] \in Int /\ q[2] \in Int /\ v[1] \in Int /\ v[2] \in Int
  BY DEF Point
<1>2. u \in Int /\ w \in Int
  BY <1>1
<1>3. /\ box.x1 - v[1] <= 0 /\ box.x2 - v[1] >= 0 /\ box.y1 - v[2] <= 0 /\ box.y2 - v[2] >= 0
      /\ box.x1 - v[1] \in Int /\ box.x2 - v[1] \in Int /\ box.y1 - v[2] \in Int /\ box.y2 - v[2] \in Int
  BY <1>1 DEF Framed, PointInBox
<1>4. ASSUME NEW c \in CornersOf(box)
      PROVE  Cross(p, q, c) = u * (c[2] - v[2]) - w * (c[1] - v[1])
  <2>1. c[1] \in Int /\ c[2] \in Int
    BY DEF CornersOf, Framed
  <2>2. Cross(p, q, c) - Cross(p, q, v) = u * (c[2] - v[2]) - w * (c[1] - v[1])
    BY <1>1, <2>1 DEF Cross
  <2>3. Cross(p, q, c) \in Int
    BY <1>1, <2>1 DEF Cross
  <2>4. QED
    BY <1>1, <1>2, <2>1, <2>2, <2>3
<1>5. ASSUME NEW x \in {box.x1, box.x2}, NEW y \in {box.y1, box.y2}
      PROVE  <<x, y>> \in CornersOf(box) /\ Cross(p, q, <<x, y>>) = u * (y - v[2]) - w * (x - v[1])
  <2>1. <<x, y>> \in CornersOf(box)
    BY DEF CornersOf
  <2>2. QED
    BY <1>4, <2>1
<1> HIDE DEF u, w
<1>6. \E x \in {box.x1, box.x2}, y \in {box.y1, box.y2} : u * (y - v[2]) <= 0 /\ w * (x - v[1]) >= 0
  <2>1. \E y \in {box.y1, box.y2} : u * (y - v[2]) <= 0
    <3>1. CASE u >= 0
      <4>1. u * (box.y1 - v[2]) <= 0
        BY <1>2, <1>3, <3>1, Signs
      <4>2. QED
        BY <4>1
    <3>2. CASE u <= 0
      <4>1. u * (box.y2 - v[2]) <= 0
        BY <1>2, <1>3, <3>2, Signs
      <4>2. QED
        BY <4>1
    <3>3. QED
      BY <1>2, <3>1, <3>2
  <2>2. \E x \in {box.x1, box.x2} : w * (x - v[1]) >= 0
    <3>1. CASE w >= 0
      <4>1. w * (box.x2 - v[1]) >= 0
        BY <1>2, <1>3, <3>1, Signs
      <4>2. QED
        BY <4>1
    <3>2. CASE w <= 0
      <4>1. w * (box.x1 - v[1]) >= 0
        BY <1>2, <1>3, <3>2, Signs
      <4>2. QED
        BY <4>1
    <3>3. QED
      BY <1>2, <3>1, <3>2
  <2>3. QED
    BY <2>1, <2>2
<1>7. \E x \in {box.x1, box.x2}, y \in {box.y1, box.y2} : u * (y - v[2]) >= 0 /\ w * (x - v[1]) <= 0
  <2>1. \E y \in {box.y1, box.y2} : u * (y - v[2]) >= 0
    <3>1. CASE u >= 0
      <4>1. u * (box.y2 - v[2]) >= 0
        BY <1>2, <1>3, <3>1, Signs
      <4>2. QED
        BY <4>1
    <3>2. CASE u <= 0
      <4>1. u * (box.y1 - v[2]) >= 0
        BY <1>2, <1>3, <3>2, Signs
      <4>2. QED
        BY <4>1
    <3>3. QED
      BY <1>2, <3>1, <3>2
  <2>2. \E x \in {box.x1, box.x2} : w * (x - v[1]) <= 0
    <3>1. CASE w >= 0
      <4>1. w * (box.x1 - v[1]) <= 0
        BY <1>2, <1>3, <3>1, Signs
      <4>2. QED
        BY <4>1
    <3>2. CASE w <= 0
      <4>1. w * (box.x2 - v[1]) <= 0
        BY <1>2, <1>3, <3>2, Signs
      <4>2. QED
        BY <4>1
    <3>3. QED
      BY <1>2, <3>1, <3>2
  <2>3. QED
    BY <2>1, <2>2
<1>8. \A x \in {box.x1, box.x2}, y \in {box.y1, box.y2} : u * (y - v[2]) \in Int /\ w * (x - v[1]) \in Int
  BY <1>2, <1>3
<1>9. QED
  BY <1>5, <1>6, <1>7, <1>8

\* A segment that hits a box is not apart from it.
LEMMA HitsNotApart ==
  ASSUME NEW p \in Point, NEW q \in Point, NEW box, Framed(box), Hits(p, q, box)
  PROVE  ~Apart(<<p, q>>, box)
<1>1. p[1] \in Int /\ p[2] \in Int /\ q[1] \in Int /\ q[2] \in Int
  BY DEF Point
<1>2. /\ BoxOf(<<p, q>>).x1 = (IF p[1] <= q[1] THEN p[1] ELSE q[1])
      /\ BoxOf(<<p, q>>).x2 = (IF p[1] >= q[1] THEN p[1] ELSE q[1])
      /\ BoxOf(<<p, q>>).y1 = (IF p[2] <= q[2] THEN p[2] ELSE q[2])
      /\ BoxOf(<<p, q>>).y2 = (IF p[2] >= q[2] THEN p[2] ELSE q[2])
  BY <1>1, LeastOfTwo DEF BoxOf
<1>3. \A i \in 1..4 : CornerList(box)[i] \in CornersOf(box) /\ CornerList(box)[(i % 4) + 1] \in CornersOf(box)
  <2>1. ASSUME NEW i \in 1..4 PROVE CornerList(box)[i] \in CornersOf(box)
    BY DEF CornerList, CornersOf
  <2>2. \A i \in 1..4 : (i % 4) + 1 \in 1..4
    OBVIOUS
  <2>3. QED
    BY <2>1, <2>2
<1>4. CornersOf(box) \subseteq Point
  BY DEF CornersOf, Point, Framed
<1>5. \A c \in CornersOf(box) : box.x1 <= c[1] /\ c[1] <= box.x2 /\ box.y1 <= c[2] /\ c[2] <= box.y2
  BY DEF CornersOf, Framed
<1>6. /\ (p[1] >= box.x1 \/ q[1] >= box.x1) /\ (p[1] <= box.x2 \/ q[1] <= box.x2)
      /\ (p[2] >= box.y1 \/ q[2] >= box.y1) /\ (p[2] <= box.y2 \/ q[2] <= box.y2)
  <2>1. CASE PointInBox(p, box) \/ PointInBox(q, box)
    BY <2>1 DEF PointInBox
  <2>2. ASSUME NEW c \in CornersOf(box), NEW d \in CornersOf(box), SegmentsIntersect(p, q, c, d)
        PROVE  /\ (p[1] >= box.x1 \/ q[1] >= box.x1) /\ (p[1] <= box.x2 \/ q[1] <= box.x2)
               /\ (p[2] >= box.y1 \/ q[2] >= box.y1) /\ (p[2] <= box.y2 \/ q[2] <= box.y2)
    <3>1. c \in Point /\ d \in Point
      BY <1>4
    <3>2. c[1] \in Int /\ d[1] \in Int /\ c[2] \in Int /\ d[2] \in Int
      BY <3>1 DEF Point
    <3>3. ASSUME NEW k \in {1, 2}
          PROVE  /\ p[k] >= c[k] \/ p[k] >= d[k] \/ q[k] >= c[k] \/ q[k] >= d[k]
                 /\ p[k] <= c[k] \/ p[k] <= d[k] \/ q[k] <= c[k] \/ q[k] <= d[k]
      BY <2>2, <3>1, MeetOverlaps
    <3>4. /\ p[1] >= c[1] \/ p[1] >= d[1] \/ q[1] >= c[1] \/ q[1] >= d[1]
          /\ p[1] <= c[1] \/ p[1] <= d[1] \/ q[1] <= c[1] \/ q[1] <= d[1]
          /\ p[2] >= c[2] \/ p[2] >= d[2] \/ q[2] >= c[2] \/ q[2] >= d[2]
          /\ p[2] <= c[2] \/ p[2] <= d[2] \/ q[2] <= c[2] \/ q[2] <= d[2]
      BY <3>3
    <3>5. /\ box.x1 <= c[1] /\ c[1] <= box.x2 /\ box.y1 <= c[2] /\ c[2] <= box.y2
          /\ box.x1 <= d[1] /\ d[1] <= box.x2 /\ box.y1 <= d[2] /\ d[2] <= box.y2
      BY <1>5
    <3>6. QED
      BY <1>1, <3>2, <3>4, <3>5 DEF Framed
  <2>3. QED
    BY <1>3, <2>1, <2>2 DEF Hits
<1>7. ~(\A c \in CornersOf(box) : Cross(p, q, c) > 0) /\ ~(\A c \in CornersOf(box) : Cross(p, q, c) < 0)
  <2>1. ASSUME NEW v \in Point, PointInBox(v, box), Cross(p, q, v) = 0
        PROVE  ~(\A c \in CornersOf(box) : Cross(p, q, c) > 0) /\ ~(\A c \in CornersOf(box) : Cross(p, q, c) < 0)
    <3>1. \A c \in CornersOf(box) : Cross(p, q, c) \in Int
      BY <1>4, CrossType
    <3>2. QED
      BY <2>1, <3>1, LineThrough
  <2>2. Cross(p, q, p) = 0 /\ Cross(p, q, q) = 0
    BY CrossType
  <2>3. ASSUME NEW c \in CornersOf(box), NEW d \in CornersOf(box), NEW v \in {p, q}, OnSegment(c, v, d)
        PROVE  PointInBox(v, box)
    <3>1. c[1] \in Int /\ d[1] \in Int /\ c[2] \in Int /\ d[2] \in Int
      BY <1>4 DEF Point
    <3>2. v[1] \in Span(c[1], d[1]) /\ v[2] \in Span(c[2], d[2])
      BY <2>3 DEF OnSegment
    <3>3. /\ (c[1] <= v[1] \/ d[1] <= v[1]) /\ (v[1] <= c[1] \/ v[1] <= d[1])
          /\ (c[2] <= v[2] \/ d[2] <= v[2]) /\ (v[2] <= c[2] \/ v[2] <= d[2])
          /\ v[1] \in Int /\ v[2] \in Int
      BY <3>1, <3>2, SpanIs
    <3>4. /\ box.x1 <= c[1] /\ c[1] <= box.x2 /\ box.y1 <= c[2] /\ c[2] <= box.y2
          /\ box.x1 <= d[1] /\ d[1] <= box.x2 /\ box.y1 <= d[2] /\ d[2] <= box.y2
      BY <1>5
    <3>5. QED
      BY <3>1, <3>3, <3>4 DEF Framed, PointInBox
  <2>4. ASSUME NEW c \in CornersOf(box), NEW d \in CornersOf(box), SegmentsIntersect(p, q, c, d),
               ~PointInBox(p, box), ~PointInBox(q, box)
        PROVE  ~(\A e \in CornersOf(box) : Cross(p, q, e) > 0) /\ ~(\A e \in CornersOf(box) : Cross(p, q, e) < 0)
    <3>1. c \in Point /\ d \in Point
      BY <1>4
    <3>2. \/ Orientation(p, q, c) = 0 \/ Orientation(p, q, d) = 0
          \/ Orientation(p, q, c) # Orientation(p, q, d)
      BY <2>3, <2>4 DEF SegmentsIntersect
    <3>3. QED
      BY <3>1, <3>2, OrientationIs, CrossType
  <2>5. QED
    BY <1>3, <2>1, <2>2, <2>4 DEF Hits
<1>8. QED
  BY <1>1, <1>2, <1>6, <1>7 DEF Apart, CornersOf, Framed


\* A point on the line through two others, and within them on one axis, is between them.
LEMMA Between ==
  ASSUME NEW p \in Point, NEW q \in Point, NEW c \in Point, NEW j \in {1, 2}, Cross(p, q, c) = 0,
         (p[j] < c[j] /\ c[j] <= q[j]) \/ (q[j] <= c[j] /\ c[j] < p[j])
  PROVE  OnSegment(p, c, q)
<1> DEFINE k == 3 - j   u == q[j] - p[j]   w == q[k] - p[k]   m == c[j] - p[j]   n == c[k] - p[k]
<1>1. /\ k \in {1, 2} /\ k # j
      /\ p[1] \in Int /\ p[2] \in Int /\ q[1] \in Int /\ q[2] \in Int /\ c[1] \in Int /\ c[2] \in Int
  BY DEF Point
<1>2. /\ p[j] \in Int /\ q[j] \in Int /\ c[j] \in Int /\ p[k] \in Int /\ q[k] \in Int /\ c[k] \in Int
  BY <1>1
<1>3. u * n - w * m = 0
  <2>1. CASE j = 1
    BY <1>1, <2>1 DEF Cross
  <2>2. CASE j = 2
    BY <1>1, <2>2 DEF Cross
  <2>3. QED
    BY <2>1, <2>2
<1>4. u \in Int /\ w \in Int /\ m \in Int /\ n \in Int
  BY <1>2
<1>5. (u > 0 /\ m > 0 /\ u - m >= 0) \/ (u < 0 /\ m < 0 /\ u - m <= 0)
  BY <1>2
<1> HIDE DEF u, w, m, n
<1>6. u * (w - n) = w * (u - m) /\ u * n = w * m
  BY <1>3, <1>4
<1>7. (w >= 0 => n >= 0 /\ w - n >= 0) /\ (w <= 0 => n <= 0 /\ w - n <= 0)
  <2>1. w - n \in Int /\ u - m \in Int
    BY <1>4
  <2>2. ASSUME w >= 0 PROVE n >= 0 /\ w - n >= 0
    <3>1. CASE u > 0 /\ m > 0 /\ u - m >= 0
      <4>1. u * n >= 0 /\ u * (w - n) >= 0
        BY <1>4, <1>6, <2>1, <2>2, <3>1, Signs
      <4>2. QED
        BY <1>4, <2>1, <3>1, <4>1, Signs
    <3>2. CASE u < 0 /\ m < 0 /\ u - m <= 0
      <4>1. u * n <= 0 /\ u * (w - n) <= 0
        BY <1>4, <1>6, <2>1, <2>2, <3>2, Signs
      <4>2. QED
        BY <1>4, <2>1, <3>2, <4>1, Signs
    <3>3. QED
      BY <1>5, <3>1, <3>2
  <2>3. ASSUME w <= 0 PROVE n <= 0 /\ w - n <= 0
    <3>1. CASE u > 0 /\ m > 0 /\ u - m >= 0
      <4>1. u * n <= 0 /\ u * (w - n) <= 0
        BY <1>4, <1>6, <2>1, <2>3, <3>1, Signs
      <4>2. QED
        BY <1>4, <2>1, <3>1, <4>1, Signs
    <3>2. CASE u < 0 /\ m < 0 /\ u - m <= 0
      <4>1. u * n >= 0 /\ u * (w - n) >= 0
        BY <1>4, <1>6, <2>1, <2>3, <3>2, Signs
      <4>2. QED
        BY <1>4, <2>1, <3>2, <4>1, Signs
    <3>3. QED
      BY <1>5, <3>1, <3>2
  <2>4. QED
    BY <2>2, <2>3
<1>8. c[k] \in Span(p[k], q[k])
  <2>1. (p[k] <= c[k] \/ q[k] <= c[k]) /\ (c[k] <= p[k] \/ c[k] <= q[k])
    BY <1>2, <1>7 DEF w, n
  <2>2. QED
    BY <1>2, <2>1, SpanIs
<1>9. c[j] \in Span(p[j], q[j])
  <2>1. (p[j] <= c[j] \/ q[j] <= c[j]) /\ (c[j] <= p[j] \/ c[j] <= q[j])
    BY <1>2
  <2>2. QED
    BY <1>2, <2>1, SpanIs
<1>10. QED
  BY <1>1, <1>8, <1>9 DEF OnSegment

\* A segment meets a side of a box that it crosses, and whose ends are on both sides of it.
LEMMA SideMet ==
  ASSUME NEW p \in Point, NEW q \in Point, NEW c \in Point, NEW d \in Point, NEW j \in {1, 2},
         c[j] = d[j], (p[j] < c[j] /\ c[j] <= q[j]) \/ (q[j] <= c[j] /\ c[j] < p[j]),
         (Cross(p, q, c) <= 0 /\ Cross(p, q, d) >= 0) \/ (Cross(p, q, c) >= 0 /\ Cross(p, q, d) <= 0)
  PROVE  SegmentsIntersect(p, q, c, d)
<1>1. Cross(p, q, c) \in Int /\ Cross(p, q, d) \in Int
  BY CrossType
<1>2. CASE Cross(p, q, c) = 0
  BY <1>2, Between, OrientationIs DEF SegmentsIntersect
<1>3. CASE Cross(p, q, d) = 0
  BY <1>3, Between, OrientationIs DEF SegmentsIntersect
<1>4. CASE Cross(p, q, c) # 0 /\ Cross(p, q, d) # 0
  <2>1. Orientation(p, q, c) # Orientation(p, q, d)
    BY <1>1, <1>4, OrientationIs
  <2>2. c # d
    BY <1>1, <1>4
  <2> DEFINE k == 3 - j   w == d[k] - c[k]   m == p[j] - c[j]   n == q[j] - c[j]
  <2>3. /\ k \in {1, 2} /\ k # j
        /\ p[1] \in Int /\ p[2] \in Int /\ q[1] \in Int /\ q[2] \in Int
        /\ c[1] \in Int /\ c[2] \in Int /\ d[1] \in Int /\ d[2] \in Int
    BY DEF Point
  <2>4. c[k] # d[k]
    BY <2>2, <2>3 DEF Point
  <2>5. w \in Int /\ w # 0 /\ m \in Int /\ n \in Int /\ ((m < 0 /\ n >= 0) \/ (m > 0 /\ n <= 0))
    BY <2>3, <2>4
  <2>6. \/ Cross(c, d, p) = w * m /\ Cross(c, d, q) = w * n
        \/ Cross(c, d, p) = -(w * m) /\ Cross(c, d, q) = -(w * n)
    <3>1. CASE j = 1
      BY <2>3, <3>1 DEF Cross
    <3>2. CASE j = 2
      BY <2>3, <3>2 DEF Cross
    <3>3. QED
      BY <3>1, <3>2
  <2> HIDE DEF w, m, n, k
  <2>7. \/ w * m < 0 /\ w * n >= 0
        \/ w * m > 0 /\ w * n <= 0
    BY <2>5, Signs
  <2>8. w * m \in Int /\ w * n \in Int /\ Cross(c, d, p) \in Int /\ Cross(c, d, q) \in Int
    BY <2>5, CrossType, Signs
  <2>9. Orientation(c, d, p) # Orientation(c, d, q)
    BY <2>6, <2>7, <2>8, OrientationIs
  <2>10. QED
    BY <2>1, <2>9 DEF SegmentsIntersect
<1>5. QED
  BY <1>2, <1>3, <1>4

\* A line that comes from the low end of one axis into a box, in the range of the other, does
\* so through the side there or through one of the two beside it.
OnLine(f, px, py, qx, qy, x, y) == f = (qx - px) * (y - py) - (qy - py) * (x - px)
LEMMA Entering ==
  ASSUME NEW px \in Int, NEW py \in Int, NEW qx \in Int, NEW qy \in Int,
         NEW x1 \in Int, NEW x2 \in Int, NEW y1 \in Int, NEW y2 \in Int, x1 <= x2, y1 <= y2,
         px < x1, x1 <= qx, py >= y1 \/ qy >= y1, py <= y2 \/ qy <= y2,
         NEW f11 \in Int, NEW f12 \in Int, NEW f21 \in Int, NEW f22 \in Int,
         OnLine(f11, px, py, qx, qy, x1, y1), OnLine(f12, px, py, qx, qy, x1, y2),
         OnLine(f21, px, py, qx, qy, x2, y1), OnLine(f22, px, py, qx, qy, x2, y2),
         ~(f11 > 0 /\ f12 > 0 /\ f21 > 0 /\ f22 > 0),
         ~(f11 < 0 /\ f12 < 0 /\ f21 < 0 /\ f22 < 0)
  PROVE  \/ f11 <= 0 /\ f12 >= 0
         \/ f11 > 0 /\ f21 <= 0 /\ py < y1 /\ y1 <= qy
         \/ f12 < 0 /\ f22 >= 0 /\ qy <= y2 /\ y2 < py
<1> DEFINE u == qx - px   w == qy - py
<1>1. u \in Int /\ w \in Int /\ u > 0
  OBVIOUS
<1>2. f12 - f11 = u * (y2 - y1) /\ f22 - f21 = u * (y2 - y1) /\ f11 - f21 = w * (x2 - x1)
      /\ f12 - f22 = w * (x2 - x1) /\ f11 = u * (y1 - py) - w * (x1 - px) /\ f12 = u * (y2 - py) - w * (x1 - px)
  BY DEF OnLine
<1>3. f12 >= f11 /\ f22 >= f21
  <2>1. y2 - y1 \in Int /\ y2 - y1 >= 0
    OBVIOUS
  <2>2. u * (y2 - y1) >= 0 /\ u * (y2 - y1) \in Int
    BY <1>1, <2>1, Signs
  <2> HIDE DEF u
  <2>3. QED
    BY <1>2, <2>2
<1>4. ASSUME f11 > 0 PROVE f21 <= 0 /\ py < y1 /\ y1 <= qy
  <2>1. f21 <= 0
    BY <1>3, <1>4
  <2>2. w > 0
    <3>1. x2 - x1 \in Int /\ x2 - x1 >= 0 /\ w * (x2 - x1) > 0
      BY <1>2, <1>4, <2>1
    <3> HIDE DEF w
    <3>2. QED
      BY <1>1, <3>1, Signs
  <2>3. y1 - py > 0
    <3>1. w * (x1 - px) > 0
      <4>1. x1 - px \in Int /\ x1 - px > 0
        OBVIOUS
      <4> HIDE DEF w
      <4>2. QED
        BY <1>1, <2>2, <4>1, Signs
    <3>2. u * (y1 - py) > 0
      BY <1>2, <1>4, <3>1
    <3>3. y1 - py \in Int
      OBVIOUS
    <3> HIDE DEF u
    <3>4. QED
      BY <1>1, <3>2, <3>3, Signs
  <2>4. QED
    BY <2>1, <2>3
<1>5. ASSUME f12 < 0 PROVE f22 >= 0 /\ qy <= y2 /\ y2 < py
  <2>1. f22 >= 0
    BY <1>3, <1>5
  <2>2. w < 0
    <3>1. x2 - x1 \in Int /\ x2 - x1 >= 0 /\ w * (x2 - x1) < 0
      BY <1>2, <1>5, <2>1
    <3> HIDE DEF w
    <3>2. QED
      BY <1>1, <3>1, Signs
  <2>3. y2 - py < 0
    <3>1. w * (x1 - px) < 0
      <4>1. x1 - px \in Int /\ x1 - px > 0
        OBVIOUS
      <4> HIDE DEF w
      <4>2. QED
        BY <1>1, <2>2, <4>1, Signs
    <3>2. u * (y2 - py) < 0
      BY <1>2, <1>5, <3>1
    <3>3. y2 - py \in Int
      OBVIOUS
    <3> HIDE DEF u
    <3>4. QED
      BY <1>1, <3>2, <3>3, Signs
  <2>4. QED
    BY <2>1, <2>3
<1>6. QED
  BY <1>4, <1>5

\* A segment that is not apart from a box hits it.
LEMMA MissesApart ==
  ASSUME NEW p \in Point, NEW q \in Point, NEW box, Framed(box), ~Hits(p, q, box)
  PROVE  Apart(<<p, q>>, box)
<1> DEFINE x1 == box.x1   x2 == box.x2   y1 == box.y1   y2 == box.y2
           F(x, y) == Cross(p, q, <<x, y>>)
<1> SUFFICES ASSUME ~Apart(<<p, q>>, box) PROVE FALSE
  OBVIOUS
<1>1. p[1] \in Int /\ p[2] \in Int /\ q[1] \in Int /\ q[2] \in Int
  BY DEF Point
<1>2. /\ BoxOf(<<p, q>>).x1 = (IF p[1] <= q[1] THEN p[1] ELSE q[1])
      /\ BoxOf(<<p, q>>).x2 = (IF p[1] >= q[1] THEN p[1] ELSE q[1])
      /\ BoxOf(<<p, q>>).y1 = (IF p[2] <= q[2] THEN p[2] ELSE q[2])
      /\ BoxOf(<<p, q>>).y2 = (IF p[2] >= q[2] THEN p[2] ELSE q[2])
  BY <1>1, LeastOfTwo DEF BoxOf
<1>3. x1 \in Int /\ x2 \in Int /\ y1 \in Int /\ y2 \in Int /\ x1 <= x2 /\ y1 <= y2
  BY DEF Framed
<1>4. /\ (p[1] >= x1 \/ q[1] >= x1) /\ (p[1] <= x2 \/ q[1] <= x2)
      /\ (p[2] >= y1 \/ q[2] >= y1) /\ (p[2] <= y2 \/ q[2] <= y2)
  BY <1>1, <1>2, <1>3 DEF Apart
<1>5. ~PointInBox(p, box) /\ ~PointInBox(q, box)
  BY DEF Hits
<1>6. p # q
  <2>1. p = q => PointInBox(p, box)
    BY <1>1, <1>3, <1>4 DEF PointInBox
  <2>2. QED
    BY <1>5, <2>1
<1>7. ~(\A c \in CornersOf(box) : Cross(p, q, c) > 0) /\ ~(\A c \in CornersOf(box) : Cross(p, q, c) < 0)
  BY <1>6 DEF Apart, CornersOf
<1>8. /\ ~(F(x1, y1) > 0 /\ F(x1, y2) > 0 /\ F(x2, y1) > 0 /\ F(x2, y2) > 0)
      /\ ~(F(x1, y1) < 0 /\ F(x1, y2) < 0 /\ F(x2, y1) < 0 /\ F(x2, y2) < 0)
  <2>1. \A c \in CornersOf(box) : c \in {<<x1, y1>>, <<x1, y2>>, <<x2, y1>>, <<x2, y2>>}
    BY DEF CornersOf
  <2>2. QED
    BY <1>7, <2>1
<1>9. \A x \in {x1, x2}, y \in {y1, y2} :
        /\ <<x, y>> \in Point /\ F(x, y) \in Int
        /\ F(x, y) = (q[1] - p[1]) * (y - p[2]) - (q[2] - p[2]) * (x - p[1])
  <2>1. ASSUME NEW x \in {x1, x2}, NEW y \in {y1, y2} PROVE <<x, y>> \in Point
    BY <1>3 DEF Point
  <2>2. ASSUME NEW x \in {x1, x2}, NEW y \in {y1, y2}
        PROVE  F(x, y) \in Int /\ F(x, y) = (q[1] - p[1]) * (y - p[2]) - (q[2] - p[2]) * (x - p[1])
    <3>1. <<x, y>>[1] = x /\ <<x, y>>[2] = y /\ <<x, y>> \in Point
      BY <2>1
    <3>2. QED
      BY <3>1, CrossType
  <2>3. QED
    BY <2>1, <2>2
<1>10. /\ ~SegmentsIntersect(p, q, <<x1, y1>>, <<x2, y1>>) /\ ~SegmentsIntersect(p, q, <<x2, y1>>, <<x2, y2>>)
       /\ ~SegmentsIntersect(p, q, <<x2, y2>>, <<x1, y2>>) /\ ~SegmentsIntersect(p, q, <<x1, y2>>, <<x1, y1>>)
  <2>1. \A i \in 1..4 : ~SegmentsIntersect(p, q, CornerList(box)[i], CornerList(box)[(i % 4) + 1])
    BY DEF Hits
  <2>2. (1 % 4) + 1 = 2 /\ (2 % 4) + 1 = 3 /\ (3 % 4) + 1 = 4 /\ (4 % 4) + 1 = 1
    OBVIOUS
  <2>3. /\ CornerList(box)[1] = <<x1, y1>> /\ CornerList(box)[2] = <<x2, y1>>
        /\ CornerList(box)[3] = <<x2, y2>> /\ CornerList(box)[4] = <<x1, y2>>
    BY DEF CornerList
  <2>4. /\ ~SegmentsIntersect(p, q, CornerList(box)[1], CornerList(box)[2])
        /\ ~SegmentsIntersect(p, q, CornerList(box)[2], CornerList(box)[3])
        /\ ~SegmentsIntersect(p, q, CornerList(box)[3], CornerList(box)[4])
        /\ ~SegmentsIntersect(p, q, CornerList(box)[4], CornerList(box)[1])
    BY <2>1, <2>2
  <2>5. QED
    BY <2>3, <2>4
<1>11. ASSUME NEW c \in Point, NEW d \in Point, NEW j \in {1, 2}, c[j] = d[j],
              (p[j] < c[j] /\ c[j] <= q[j]) \/ (q[j] <= c[j] /\ c[j] < p[j]),
              (Cross(p, q, c) <= 0 /\ Cross(p, q, d) >= 0) \/ (Cross(p, q, c) >= 0 /\ Cross(p, q, d) <= 0)
       PROVE  SegmentsIntersect(p, q, c, d)
  BY <1>11, SideMet
\* What each side of the box needs to be met.
<1>12. /\ ~(((p[1] < x1 /\ x1 <= q[1]) \/ (q[1] <= x1 /\ x1 < p[1]))
            /\ ((F(x1, y1) <= 0 /\ F(x1, y2) >= 0) \/ (F(x1, y1) >= 0 /\ F(x1, y2) <= 0)))
       /\ ~(((p[1] < x2 /\ x2 <= q[1]) \/ (q[1] <= x2 /\ x2 < p[1]))
            /\ ((F(x2, y1) <= 0 /\ F(x2, y2) >= 0) \/ (F(x2, y1) >= 0 /\ F(x2, y2) <= 0)))
       /\ ~(((p[2] < y1 /\ y1 <= q[2]) \/ (q[2] <= y1 /\ y1 < p[2]))
            /\ ((F(x1, y1) <= 0 /\ F(x2, y1) >= 0) \/ (F(x1, y1) >= 0 /\ F(x2, y1) <= 0)))
       /\ ~(((p[2] < y2 /\ y2 <= q[2]) \/ (q[2] <= y2 /\ y2 < p[2]))
            /\ ((F(x1, y2) <= 0 /\ F(x2, y2) >= 0) \/ (F(x1, y2) >= 0 /\ F(x2, y2) <= 0)))
  <2>1. /\ <<x1, y1>> \in Point /\ <<x1, y2>> \in Point /\ <<x2, y1>> \in Point /\ <<x2, y2>> \in Point
    BY <1>9
  <2>2. /\ <<x1, y1>>[1] = x1 /\ <<x1, y2>>[1] = x1 /\ <<x2, y1>>[1] = x2 /\ <<x2, y2>>[1] = x2
        /\ <<x1, y1>>[2] = y1 /\ <<x1, y2>>[2] = y2 /\ <<x2, y1>>[2] = y1 /\ <<x2, y2>>[2] = y2
    OBVIOUS
  <2> HIDE DEF x1, x2, y1, y2
  <2>3. ~(((p[1] < x1 /\ x1 <= q[1]) \/ (q[1] <= x1 /\ x1 < p[1]))
            /\ ((F(x1, y1) <= 0 /\ F(x1, y2) >= 0) \/ (F(x1, y1) >= 0 /\ F(x1, y2) <= 0)))
    BY <1>10, <1>11, <2>1, <2>2
  <2>4. ~(((p[1] < x2 /\ x2 <= q[1]) \/ (q[1] <= x2 /\ x2 < p[1]))
            /\ ((F(x2, y1) <= 0 /\ F(x2, y2) >= 0) \/ (F(x2, y1) >= 0 /\ F(x2, y2) <= 0)))
    BY <1>10, <1>11, <2>1, <2>2
  <2>5. ~(((p[2] < y1 /\ y1 <= q[2]) \/ (q[2] <= y1 /\ y1 < p[2]))
            /\ ((F(x1, y1) <= 0 /\ F(x2, y1) >= 0) \/ (F(x1, y1) >= 0 /\ F(x2, y1) <= 0)))
    BY <1>10, <1>11, <2>1, <2>2
  <2>6. ~(((p[2] < y2 /\ y2 <= q[2]) \/ (q[2] <= y2 /\ y2 < p[2]))
            /\ ((F(x1, y2) <= 0 /\ F(x2, y2) >= 0) \/ (F(x1, y2) >= 0 /\ F(x2, y2) <= 0)))
    BY <1>10, <1>11, <2>1, <2>2
  <2>7. QED
    BY <2>3, <2>4, <2>5, <2>6
<1> DEFINE px == p[1]   py == p[2]   qx == q[1]   qy == q[2]
           f11 == F(x1, y1)   f12 == F(x1, y2)   f21 == F(x2, y1)   f22 == F(x2, y2)
<1>13. /\ f11 \in Int /\ f12 \in Int /\ f21 \in Int /\ f22 \in Int
       /\ f11 = (qx - px) * (y1 - py) - (qy - py) * (x1 - px)
       /\ f12 = (qx - px) * (y2 - py) - (qy - py) * (x1 - px)
       /\ f21 = (qx - px) * (y1 - py) - (qy - py) * (x2 - px)
       /\ f22 = (qx - px) * (y2 - py) - (qy - py) * (x2 - px)
  BY <1>9
<1> HIDE DEF x1, x2, y1, y2, F, f11, f12, f21, f22, px, py, qx, qy
<1>24. f11 \in Int /\ f12 \in Int /\ f21 \in Int /\ f22 \in Int
  BY <1>13
<1>14. px \in Int /\ py \in Int /\ qx \in Int /\ qy \in Int
  BY <1>1 DEF px, py, qx, qy
<1>15. px < x1 \/ px > x2 \/ py < y1 \/ py > y2
  BY <1>3, <1>5, <1>14 DEF PointInBox, px, py, x1, x2, y1, y2
<1>16. /\ (px >= x1 \/ qx >= x1) /\ (px <= x2 \/ qx <= x2)
       /\ (py >= y1 \/ qy >= y1) /\ (py <= y2 \/ qy <= y2)
  BY <1>4 DEF px, py, qx, qy
<1>17. /\ ~(f11 > 0 /\ f12 > 0 /\ f21 > 0 /\ f22 > 0) /\ ~(f11 < 0 /\ f12 < 0 /\ f21 < 0 /\ f22 < 0)
  BY <1>8 DEF f11, f12, f21, f22
<1>18. /\ ~(((px < x1 /\ x1 <= qx) \/ (qx <= x1 /\ x1 < px)) /\ ((f11 <= 0 /\ f12 >= 0) \/ (f11 >= 0 /\ f12 <= 0)))
       /\ ~(((px < x2 /\ x2 <= qx) \/ (qx <= x2 /\ x2 < px)) /\ ((f21 <= 0 /\ f22 >= 0) \/ (f21 >= 0 /\ f22 <= 0)))
       /\ ~(((py < y1 /\ y1 <= qy) \/ (qy <= y1 /\ y1 < py)) /\ ((f11 <= 0 /\ f21 >= 0) \/ (f11 >= 0 /\ f21 <= 0)))
       /\ ~(((py < y2 /\ y2 <= qy) \/ (qy <= y2 /\ y2 < py)) /\ ((f12 <= 0 /\ f22 >= 0) \/ (f12 >= 0 /\ f22 <= 0)))
  BY <1>12 DEF f11, f12, f21, f22, px, py, qx, qy
<1>19. CASE px < x1
  <2>1. x1 <= qx
    BY <1>3, <1>14, <1>16, <1>19
  <2>4. /\ OnLine(f11, px, py, qx, qy, x1, y1) /\ OnLine(f12, px, py, qx, qy, x1, y2)
        /\ OnLine(f21, px, py, qx, qy, x2, y1) /\ OnLine(f22, px, py, qx, qy, x2, y2)
    BY <1>13 DEF OnLine
  <2>2. \/ f11 <= 0 /\ f12 >= 0
        \/ f11 > 0 /\ f21 <= 0 /\ py < y1 /\ y1 <= qy
        \/ f12 < 0 /\ f22 >= 0 /\ qy <= y2 /\ y2 < py
    BY <1>3, <1>24, <1>14, <1>16, <1>17, <1>19, <2>1, <2>4, Entering
  <2>3. QED
    BY <1>3, <1>13, <1>14, <1>18, <1>19, <2>1, <2>2
<1>20. CASE px > x2
  <2>1. qx <= x2
    BY <1>3, <1>14, <1>16, <1>20
  <2> DEFINE nx == -px   mx == -qx   b1 == -x2   b2 == -x1   g11 == -f21   g12 == -f22   g21 == -f11   g22 == -f12
  <2>2. /\ nx \in Int /\ mx \in Int /\ b1 \in Int /\ b2 \in Int /\ b1 <= b2 /\ nx < b1 /\ b1 <= mx
        /\ g11 \in Int /\ g12 \in Int /\ g21 \in Int /\ g22 \in Int
    BY <1>3, <1>13, <1>14, <1>20, <2>1
  <2>3. /\ ~(g11 > 0 /\ g12 > 0 /\ g21 > 0 /\ g22 > 0) /\ ~(g11 < 0 /\ g12 < 0 /\ g21 < 0 /\ g22 < 0)
    BY <1>13, <1>17
  <2>4. /\ g11 = (qx - px) * (-(y1 - py)) - (qy - py) * (-x2 + px)
        /\ g12 = (qx - px) * (-(y2 - py)) - (qy - py) * (-x2 + px)
        /\ g21 = (qx - px) * (-(y1 - py)) - (qy - py) * (-x1 + px)
        /\ g22 = (qx - px) * (-(y2 - py)) - (qy - py) * (-x1 + px)
    BY <1>3, <1>13, <1>14
  <2>5. /\ g11 = (mx - nx) * (y1 - py) - (qy - py) * (b1 - nx)
        /\ g12 = (mx - nx) * (y2 - py) - (qy - py) * (b1 - nx)
        /\ g21 = (mx - nx) * (y1 - py) - (qy - py) * (b2 - nx)
        /\ g22 = (mx - nx) * (y2 - py) - (qy - py) * (b2 - nx)
    BY <1>3, <1>14, <2>4
  <2>9. /\ OnLine(g11, nx, py, mx, qy, b1, y1) /\ OnLine(g12, nx, py, mx, qy, b1, y2)
        /\ OnLine(g21, nx, py, mx, qy, b2, y1) /\ OnLine(g22, nx, py, mx, qy, b2, y2)
    BY <2>5 DEF OnLine
  <2> HIDE DEF nx, mx, b1, b2, g11, g12, g21, g22
  <2>6. \/ g11 <= 0 /\ g12 >= 0
        \/ g11 > 0 /\ g21 <= 0 /\ py < y1 /\ y1 <= qy
        \/ g12 < 0 /\ g22 >= 0 /\ qy <= y2 /\ y2 < py
    BY <1>3, <1>14, <1>16, <2>2, <2>3, <2>9, Entering
  <2>7. \/ f21 >= 0 /\ f22 <= 0
        \/ f21 < 0 /\ f11 >= 0 /\ py < y1 /\ y1 <= qy
        \/ f22 > 0 /\ f12 <= 0 /\ qy <= y2 /\ y2 < py
    BY <1>13, <2>6 DEF g11, g12, g21, g22
  <2>8. QED
    BY <1>3, <1>13, <1>14, <1>18, <1>20, <2>1, <2>7
<1>21. CASE py < y1
  <2>1. y1 <= qy
    BY <1>3, <1>14, <1>16, <1>21
  <2> DEFINE g11 == -f11   g12 == -f21   g21 == -f12   g22 == -f22
  <2>2. g11 \in Int /\ g12 \in Int /\ g21 \in Int /\ g22 \in Int
    BY <1>13
  <2>3. /\ ~(g11 > 0 /\ g12 > 0 /\ g21 > 0 /\ g22 > 0) /\ ~(g11 < 0 /\ g12 < 0 /\ g21 < 0 /\ g22 < 0)
    BY <1>13, <1>17
  <2>4. /\ g11 = (qy - py) * (x1 - px) - (qx - px) * (y1 - py)
        /\ g12 = (qy - py) * (x2 - px) - (qx - px) * (y1 - py)
        /\ g21 = (qy - py) * (x1 - px) - (qx - px) * (y2 - py)
        /\ g22 = (qy - py) * (x2 - px) - (qx - px) * (y2 - py)
    BY <1>3, <1>13, <1>14
  <2>8. /\ OnLine(g11, py, px, qy, qx, y1, x1) /\ OnLine(g12, py, px, qy, qx, y1, x2)
        /\ OnLine(g21, py, px, qy, qx, y2, x1) /\ OnLine(g22, py, px, qy, qx, y2, x2)
    BY <2>4 DEF OnLine
  <2> HIDE DEF g11, g12, g21, g22
  <2>5. \/ g11 <= 0 /\ g12 >= 0
        \/ g11 > 0 /\ g21 <= 0 /\ px < x1 /\ x1 <= qx
        \/ g12 < 0 /\ g22 >= 0 /\ qx <= x2 /\ x2 < px
    BY <1>3, <1>14, <1>16, <1>21, <2>1, <2>2, <2>3, <2>8, Entering
  <2>6. \/ f11 >= 0 /\ f21 <= 0
        \/ f11 < 0 /\ f12 >= 0 /\ px < x1 /\ x1 <= qx
        \/ f21 > 0 /\ f22 <= 0 /\ qx <= x2 /\ x2 < px
    BY <1>13, <2>5 DEF g11, g12, g21, g22
  <2>7. QED
    BY <1>3, <1>13, <1>14, <1>18, <1>21, <2>1, <2>6
<1>22. CASE py > y2
  <2>1. qy <= y2
    BY <1>3, <1>14, <1>16, <1>22
  <2> DEFINE ny == -py   my == -qy   b1 == -y2   b2 == -y1   
  <2>2. /\ ny \in Int /\ my \in Int /\ b1 \in Int /\ b2 \in Int /\ b1 <= b2 /\ ny < b1 /\ b1 <= my
    BY <1>3, <1>14, <1>22, <2>1
  <2>3. /\ f12 = (qx - px) * (y2 - py) - (qy - py) * (x1 - px)
        /\ f22 = (qx - px) * (y2 - py) - (qy - py) * (x2 - px)
        /\ f11 = (qx - px) * (y1 - py) - (qy - py) * (x1 - px)
        /\ f21 = (qx - px) * (y1 - py) - (qy - py) * (x2 - px)
    BY <1>13
  <2>4. /\ f12 = (my - ny) * (x1 - px) - (qx - px) * (b1 - ny)
        /\ f22 = (my - ny) * (x2 - px) - (qx - px) * (b1 - ny)
        /\ f11 = (my - ny) * (x1 - px) - (qx - px) * (b2 - ny)
        /\ f21 = (my - ny) * (x2 - px) - (qx - px) * (b2 - ny)
    BY <1>3, <1>14, <2>3
  <2>7. /\ OnLine(f12, ny, px, my, qx, b1, x1) /\ OnLine(f22, ny, px, my, qx, b1, x2)
        /\ OnLine(f11, ny, px, my, qx, b2, x1) /\ OnLine(f21, ny, px, my, qx, b2, x2)
    BY <2>4 DEF OnLine
  <2> HIDE DEF ny, my, b1, b2
  <2>8. ~(f12 > 0 /\ f22 > 0 /\ f11 > 0 /\ f21 > 0) /\ ~(f12 < 0 /\ f22 < 0 /\ f11 < 0 /\ f21 < 0)
    BY <1>17
  <2>9. (px >= x1 \/ qx >= x1) /\ (px <= x2 \/ qx <= x2)
    BY <1>16
  <2>10. x1 \in Int /\ x2 \in Int /\ x1 <= x2
    BY <1>3
  <2>5. \/ f12 <= 0 /\ f22 >= 0
        \/ f12 > 0 /\ f11 <= 0 /\ px < x1 /\ x1 <= qx
        \/ f22 < 0 /\ f21 >= 0 /\ qx <= x2 /\ x2 < px
    BY <1>14, <1>24, <2>2, <2>7, <2>8, <2>9, <2>10, Entering
  <2>6. QED
    BY <1>3, <1>13, <1>14, <1>18, <1>22, <2>1, <2>5
<1>23. QED
  BY <1>15, <1>19, <1>20, <1>21, <1>22

\* The test by corners and orientations is exact, whatever the segment, the box and the gap.
LEMMA HitExact ==
  ASSUME NEW p \in Point, NEW q \in Point, NEW rect, Rect(rect), NEW gap \in Nat
  PROVE  SegmentIntersectsRect(<<p, q>>, rect, gap) <=> ~Apart(<<p, q>>, Grown(rect, gap))
<1>1. Framed(Grown(rect, gap))
  BY DEF Rect, Grown, Framed
<1>2. SegmentIntersectsRect(<<p, q>>, rect, gap) <=> Hits(p, q, Grown(rect, gap))
  BY DEF SegmentIntersectsRect, Hits, CornerList
<1>3. QED
  BY <1>1, <1>2, HitsNotApart, MissesApart

LEMMA SegmentsAre ==
  ASSUME NEW points \in Seq(Point), NEW s \in ToSet(Segments(points))
  PROVE  s \in Point \X Point /\ s = <<s[1], s[2]>>
<1>1. PICK i \in 1..(Len(points) - 1) : s = <<points[i], points[i + 1]>>
  BY DEF ToSet, Segments
<1>2. points[i] \in Point /\ points[i + 1] \in Point
  BY LenProperties, ElementOfSeq
<1>3. QED
  BY <1>1, <1>2

-----------------------------------------------------------------------------
(* What is said of a subject is what the gates say                             *)

GeometryInv ==
  /\ subject \in Drawings \cup Ports \cup Fans \cup Slants
  /\ subject.what = "slant" /\ report # <<>> =>
       report.hit = SegmentIntersectsRect(subject.segment, subject.node, subject.clearance)
  /\ Inspected => report.flow = FlowProblems(subject.left, {subject.node}, subject.clearance)

LEMMA GeometryStart == GeometryInit => GeometryInv
  BY DEF GeometryInit, GeometryInv, Inspected

LEMMA GeometryStep == GeometryInv /\ [GeometryNext]_geometryVars => GeometryInv'
<1> SUFFICES ASSUME GeometryInv, [GeometryNext]_geometryVars PROVE GeometryInv'
  OBVIOUS
<1>1. CASE InspectDrawing
  <2>1. subject.what = "drawing" /\ subject' = subject
    BY <1>1 DEF InspectDrawing
  <2>2. report'.flow = FlowProblems(subject.left, {subject.node}, subject.clearance)
    BY <1>1 DEF InspectDrawing
  <2>3. QED
    BY <2>1, <2>2 DEF GeometryInv, Inspected
<1>2. CASE Bridge
  BY <1>2 DEF Bridge, GeometryInv, Inspected
<1>3. CASE SpreadPorts
  BY <1>3 DEF SpreadPorts, GeometryInv, Inspected
<1>4. CASE Reach
  BY <1>4 DEF Reach, GeometryInv, Inspected
<1>5. CASE UNCHANGED geometryVars
  BY <1>5 DEF geometryVars, GeometryInv, Inspected
<1>6. QED
  BY <1>1, <1>2, <1>3, <1>4, <1>5 DEF GeometryNext

\* A route is rejected for a node exactly if some part of it comes within the clearance:
\* for segments in any direction, and boxes of any size.
THEOREM FlowsStayExact == GeometrySpec => []FlowExact
<1>1. GeometryInv => FlowExact
  <2> SUFFICES ASSUME GeometryInv PROVE FlowExact
    OBVIOUS
  <2>1. ASSUME subject.what = "slant", report # <<>>
        PROVE  report.hit <=> ~Apart(subject.segment, Grown(subject.node, subject.clearance))
    <3>1. subject \in Slants
      BY <2>1, GeometryAssumption DEF GeometryInv
    <3>2. Rect(subject.node) /\ subject.clearance \in Nat /\ subject.segment \in Point \X Point
      BY <3>1, GeometryAssumption
    <3>3. PICK p \in Point, q \in Point : subject.segment = <<p, q>>
      BY <3>2
    <3>4. report.hit = SegmentIntersectsRect(<<p, q>>, subject.node, subject.clearance)
      BY <2>1, <3>3 DEF GeometryInv
    <3>5. QED
      BY <3>2, <3>3, <3>4, HitExact
  <2>2. ASSUME Inspected
        PROVE  report.flow = {} <=>
                 \/ subject.node.id \in {subject.left.from, subject.left.to}
                 \/ \A s \in ToSet(Segments(subject.left.points)) : Apart(s, Grown(subject.node, subject.clearance))
    <3>1. subject \in Drawings
      BY <2>2, GeometryAssumption DEF GeometryInv, Inspected
    <3>2. Rect(subject.node) /\ subject.clearance \in Nat /\ subject.left.points \in Seq(Point)
      BY <3>1, GeometryAssumption
    <3>3. \A s \in ToSet(Segments(subject.left.points)) :
            SegmentIntersectsRect(s, subject.node, subject.clearance)
              <=> ~Apart(s, Grown(subject.node, subject.clearance))
      <4>1. ASSUME NEW s \in ToSet(Segments(subject.left.points))
            PROVE  SegmentIntersectsRect(s, subject.node, subject.clearance)
                     <=> ~Apart(s, Grown(subject.node, subject.clearance))
        <5>1. PICK p \in Point, q \in Point : s = <<p, q>>
          BY <3>2, SegmentsAre
        <5>2. QED
          BY <3>2, <5>1, HitExact
      <4>2. QED
        BY <4>1
    <3>4. report.flow = FlowProblems(subject.left, {subject.node}, subject.clearance)
      BY <2>2 DEF GeometryInv
    <3>5. FlowProblems(subject.left, {subject.node}, subject.clearance) = {} <=>
            ~(/\ subject.node.id \notin {subject.left.from, subject.left.to}
              /\ \E s \in ToSet(Segments(subject.left.points)) :
                   SegmentIntersectsRect(s, subject.node, subject.clearance))
      BY DEF FlowProblems
    <3>6. QED
      BY <3>3, <3>4, <3>5
  <2>3. QED
    BY <2>1, <2>2 DEF FlowExact
<1>2. QED
  BY <1>1, GeometryStart, GeometryStep, PTL DEF GeometrySpec

-----------------------------------------------------------------------------
(* Counting up                                                              *)

Less == {ss \in Nat \X Nat : ss[1] < ss[2]}
LEMMA LeastNumber ==
  ASSUME NEW T, T \subseteq Nat, T # {} PROVE \E n \in T : \A m \in T : n <= m
<1>1. Less = OpToRel(<, Nat)
  BY Zenon DEF Less, OpToRel
<1>2. IsWellFoundedOn(Less, Nat)
  BY <1>1, NatLessThanWellFounded, Zenon
<1>3. PICK n \in T : \A m \in T : <<m, n>> \notin Less
  BY <1>2, WFMin
<1>4. ASSUME NEW m \in T PROVE n <= m
  <2>1. m \in Nat /\ n \in Nat
    OBVIOUS
  <2>2. ~(m < n)
    BY <1>3, <2>1 DEF Less
  <2>3. QED
    BY <2>1, <2>2
<1>5. QED
  BY <1>4

LEMMA CountUp ==
  ASSUME NEW N \in Nat, NEW S, 0 \in S, \A n \in 0..N : n \in S /\ n < N => n + 1 \in S
  PROVE  \A n \in 0..N : n \in S
<1> DEFINE T == {n \in 0..N : n \notin S}
<1>1. SUFFICES ASSUME T # {} PROVE FALSE
  OBVIOUS
<1>2. T \subseteq Nat
  OBVIOUS
<1>3. PICK n \in T : \A m \in T : n <= m
  BY <1>1, <1>2, LeastNumber
<1>4. n # 0 /\ n - 1 \in 0..N /\ n - 1 \notin T
  BY <1>3
<1>5. QED
  BY <1>4

-----------------------------------------------------------------------------
(* Sorting                                                                  *)

LEMMA BeforeOrder ==
  ASSUME NEW w \in Nat, NEW s \in [1..w -> Int], NEW t \in [1..w -> Int], NEW u \in [1..w -> Int]
  PROVE  /\ ~Before(s, s)
         /\ ~(Before(s, t) /\ Before(t, s))
         /\ Before(s, t) /\ Before(t, u) => Before(s, u)
         /\ s # t => Before(s, t) \/ Before(t, s)
<1>1. \A a, b \in [1..w -> Int] : Before(a, b) <=> \E i \in 1..w : a[i] < b[i] /\ \A j \in 1..(i - 1) : a[j] = b[j]
  BY DEF Before
<1>2. \A a \in [1..w -> Int], i \in 1..w : a[i] \in Int /\ \A j \in 1..(i - 1) : j \in 1..w
  OBVIOUS
<1>3. ~Before(s, s)
  <2>1. \A i \in 1..w : s[i] \in Int
    OBVIOUS
  <2>2. \A i \in 1..w : ~(s[i] < s[i])
    BY <2>1
  <2>3. QED
    BY <1>1, <2>2
<1>4. ASSUME Before(s, t), Before(t, u) PROVE Before(s, u)
  <2>1. PICK i \in 1..w : s[i] < t[i] /\ \A j \in 1..(i - 1) : s[j] = t[j]
    BY <1>1, <1>4
  <2>2. PICK k \in 1..w : t[k] < u[k] /\ \A j \in 1..(k - 1) : t[j] = u[j]
    BY <1>1, <1>4
  <2>3. CASE i <= k
    <3>1. s[i] < u[i]
      <4>1. CASE i = k
        BY <1>2, <2>1, <2>2, <4>1
      <4>2. CASE i < k
        <5>1. i \in 1..(k - 1)
          BY <4>2
        <5>2. QED
          BY <2>1, <2>2, <5>1
      <4>3. QED
        BY <2>3, <4>1, <4>2
    <3>2. \A j \in 1..(i - 1) : j \in 1..(k - 1)
      BY <2>3
    <3>3. QED
      BY <1>1, <2>1, <2>2, <3>1, <3>2
  <2>4. CASE k < i
    <3>1. k \in 1..(i - 1)
      BY <2>4
    <3>2. s[k] < u[k]
      BY <2>1, <2>2, <3>1
    <3>3. \A j \in 1..(k - 1) : j \in 1..(i - 1)
      BY <2>4
    <3>4. \A j \in 1..(k - 1) : s[j] = u[j]
      BY <2>1, <2>2, <3>3
    <3>5. QED
      BY <1>1, <3>2, <3>4
  <2>5. QED
    BY <2>3, <2>4
<1>5. ~(Before(s, t) /\ Before(t, s))
  <2> SUFFICES ASSUME Before(s, t), Before(t, s) PROVE FALSE
    OBVIOUS
  <2>1. PICK i \in 1..w : s[i] < t[i] /\ \A j \in 1..(i - 1) : s[j] = t[j]
    BY <1>1
  <2>2. PICK k \in 1..w : t[k] < s[k] /\ \A j \in 1..(k - 1) : t[j] = s[j]
    BY <1>1
  <2>3. i \in 1..(k - 1) \/ k \in 1..(i - 1) \/ i = k
    OBVIOUS
  <2>4. QED
    BY <1>2, <2>1, <2>2, <2>3
<1>6. ASSUME s # t PROVE Before(s, t) \/ Before(t, s)
  <2> DEFINE T == {i \in 1..w : s[i] # t[i]}
  <2>1. T # {} /\ T \subseteq Nat
    <3>1. s = [i \in 1..w |-> s[i]] /\ t = [i \in 1..w |-> t[i]]
      OBVIOUS
    <3>2. \E i \in 1..w : s[i] # t[i]
      BY <1>6, <3>1
    <3>3. T # {}
      BY <3>2
    <3>4. T \subseteq Nat
      OBVIOUS
    <3>5. QED
      BY <3>3, <3>4
  <2>2. PICK i \in T : \A m \in T : i <= m
    <3> HIDE DEF T
    <3>1. QED
      BY <2>1, LeastNumber
  <2>3. \A j \in 1..(i - 1) : s[j] = t[j]
    <3>1. ASSUME NEW j \in 1..(i - 1) PROVE s[j] = t[j]
      <4>1. j \in 1..w /\ ~(i <= j)
        OBVIOUS
      <4>2. j \notin T
        BY <2>2, <4>1
      <4>3. QED
        BY <4>1, <4>2
    <3>2. QED
      BY <3>1
  <2>4. i \in 1..w /\ (s[i] < t[i] \/ t[i] < s[i])
    BY <1>2
  <2>5. QED
    BY <1>1, <2>3, <2>4
<1>7. QED
  BY <1>3, <1>4, <1>5, <1>6

Precedes(key, j, i) == Before(key[j], key[i]) \/ (key[j] = key[i] /\ j < i)
EarlierIn(n, key, i) == {j \in 1..n : Precedes(key, j, i)}
Ranked(n, key, k) == CHOOSE i \in 1..n : Cardinality(EarlierIn(n, key, i)) = k - 1

LEMMA PrecedesOrder ==
  ASSUME NEW n \in Nat, NEW w \in Nat, NEW key \in [1..n -> [1..w -> Int]],
         NEW i \in 1..n, NEW j \in 1..n, NEW k \in 1..n
  PROVE  /\ ~Precedes(key, i, i)
         /\ Precedes(key, i, j) /\ Precedes(key, j, k) => Precedes(key, i, k)
         /\ i # j => Precedes(key, i, j) \/ Precedes(key, j, i)
<1>1. key[i] \in [1..w -> Int] /\ key[j] \in [1..w -> Int] /\ key[k] \in [1..w -> Int]
  OBVIOUS
<1>2. ~Before(key[i], key[i])
  BY <1>1, BeforeOrder
<1>3. Before(key[i], key[j]) /\ Before(key[j], key[k]) => Before(key[i], key[k])
  BY <1>1, BeforeOrder
<1>4. key[i] # key[j] => Before(key[i], key[j]) \/ Before(key[j], key[i])
  BY <1>1, BeforeOrder
<1>5. i \in Int /\ j \in Int /\ k \in Int
  OBVIOUS
<1>6. QED
  BY <1>2, <1>3, <1>4, <1>5 DEF Precedes

RankHeld(n, key, k) == Ranked(n, key, k) \in 1..n /\ Cardinality(EarlierIn(n, key, Ranked(n, key, k))) = k - 1

LEMMA RanksFill ==
  ASSUME NEW n \in Nat, NEW w \in Nat, NEW key \in [1..n -> [1..w -> Int]]
  PROVE  /\ \A i \in 1..n : IsFiniteSet(EarlierIn(n, key, i)) /\ Cardinality(EarlierIn(n, key, i)) \in 0..(n - 1)
         /\ \A i, j \in 1..n : Cardinality(EarlierIn(n, key, i)) = Cardinality(EarlierIn(n, key, j)) => i = j
         /\ \A k \in 1..n : RankHeld(n, key, k)
<1> DEFINE E(i) == EarlierIn(n, key, i)
<1>1. IsFiniteSet(1..n) /\ Cardinality(1..n) = n /\ IsFiniteSet(0..(n - 1)) /\ Cardinality(0..(n - 1)) = n
  <2>1. \A a, b \in Int : IsFiniteSet(a..b) /\ Cardinality(a..b) = IF a > b THEN 0 ELSE b - a + 1
    BY FS_Interval
  <2>2. n \in Int /\ 1 \in Int /\ 0 \in Int /\ n - 1 \in Int
    OBVIOUS
  <2>3. IsFiniteSet(1..n) /\ Cardinality(1..n) = IF 1 > n THEN 0 ELSE n - 1 + 1
    BY <2>1, <2>2
  <2>4. IsFiniteSet(0..(n - 1)) /\ Cardinality(0..(n - 1)) = IF 0 > n - 1 THEN 0 ELSE n - 1 - 0 + 1
    BY <2>1, <2>2
  <2>5. (IF 1 > n THEN 0 ELSE n - 1 + 1) = n /\ (IF 0 > n - 1 THEN 0 ELSE n - 1 - 0 + 1) = n
    OBVIOUS
  <2>6. QED
    BY <2>3, <2>4, <2>5
<1>2. ASSUME NEW i \in 1..n
      PROVE  IsFiniteSet(E(i)) /\ Cardinality(E(i)) \in Nat /\ i \notin E(i) /\ E(i) \subseteq 1..n
  <2>1. E(i) \subseteq 1..n
    BY DEF EarlierIn
  <2>2. i \notin E(i)
    BY PrecedesOrder DEF EarlierIn
  <2>3. QED
    BY <1>1, <2>1, <2>2, FS_Subset, FS_CardinalityType
<1>3. ASSUME NEW i \in 1..n
      PROVE  IsFiniteSet(E(i) \cup {i}) /\ Cardinality(E(i) \cup {i}) = Cardinality(E(i)) + 1
  BY <1>2, FS_AddElement
<1>4. \A i \in 1..n : Cardinality(E(i)) \in 0..(n - 1)
  <2>1. ASSUME NEW i \in 1..n PROVE Cardinality(E(i)) + 1 <= n
    <3>1. E(i) \cup {i} \subseteq 1..n
      BY <1>2
    <3>2. Cardinality(E(i) \cup {i}) <= Cardinality(1..n)
      BY <1>1, <3>1, FS_Subset
    <3>3. QED
      BY <1>1, <1>3, <3>2
  <2>2. QED
    BY <1>2, <2>1
<1>5. ASSUME NEW i \in 1..n, NEW j \in 1..n, Precedes(key, i, j)
      PROVE  Cardinality(E(i)) < Cardinality(E(j))
  <2>1. E(i) \cup {i} \subseteq E(j)
    BY <1>5, PrecedesOrder DEF EarlierIn
  <2>2. Cardinality(E(i) \cup {i}) <= Cardinality(E(j))
    BY <1>2, <2>1, FS_Subset
  <2>3. Cardinality(E(i)) \in Nat /\ Cardinality(E(j)) \in Nat
    BY <1>2
  <2>4. Cardinality(E(i) \cup {i}) = Cardinality(E(i)) + 1
    BY <1>3
  <2> HIDE DEF E
  <2>5. QED
    BY <2>2, <2>3, <2>4
<1>6. \A i, j \in 1..n : Cardinality(E(i)) = Cardinality(E(j)) => i = j
  <2>1. ASSUME NEW i \in 1..n, NEW j \in 1..n, i # j PROVE Cardinality(E(i)) # Cardinality(E(j))
    <3>1. Precedes(key, i, j) \/ Precedes(key, j, i)
      BY <2>1, PrecedesOrder
    <3>2. Cardinality(E(i)) < Cardinality(E(j)) \/ Cardinality(E(j)) < Cardinality(E(i))
      BY <1>5, <3>1
    <3>3. QED
      BY <1>2, <3>2
  <2>2. QED
    BY <2>1
<1> DEFINE f == [i \in 1..n |-> Cardinality(E(i))]
<1>7. f \in Injection(1..n, 0..(n - 1))
  <2>1. f \in [1..n -> 0..(n - 1)]
    BY <1>4
  <2>2. \A i, j \in 1..n : f[i] = f[j] => i = j
    BY <1>6
  <2> HIDE DEF f
  <2>3. QED
    BY <2>1, <2>2 DEF Injection, IsInjective
<1>8. f \in Surjection(1..n, 0..(n - 1))
  <2> HIDE DEF f
  <2>1. QED
    BY <1>1, <1>7, FS_Injection
<1>9. \A k \in 1..n : \E i \in 1..n : Cardinality(E(i)) = k - 1
  <2>1. \A k \in 1..n : k - 1 \in 0..(n - 1)
    OBVIOUS
  <2>2. \A k \in 1..n : \E i \in 1..n : f[i] = k - 1
    <3> HIDE DEF f
    <3>1. QED
      BY <1>8, <2>1 DEF Surjection
  <2>3. QED
    BY <2>2
<1>10. \A k \in 1..n : Ranked(n, key, k) \in 1..n /\ Cardinality(E(Ranked(n, key, k))) = k - 1
  BY <1>9 DEF Ranked
<1>11. \A k \in 1..n : RankHeld(n, key, k)
  BY <1>10 DEF RankHeld
<1>12. QED
  BY <1>2, <1>4, <1>6, <1>11

LEMMA RankIs ==
  ASSUME NEW n \in Nat, NEW w \in Nat, NEW key \in [1..n -> [1..w -> Int]], NEW k \in 1..n
  PROVE  Ranked(n, key, k) \in 1..n /\ Cardinality(EarlierIn(n, key, Ranked(n, key, k))) = k - 1
<1>1. RankHeld(n, key, k)
  BY RanksFill
<1>2. QED
  BY <1>1 DEF RankHeld

\* The same keys in another order have the same key at each rank.
LEMMA RanksAlike ==
  ASSUME NEW n \in Nat, NEW w \in Nat, NEW key \in [1..n -> [1..w -> Int]], NEW alt \in [1..n -> [1..w -> Int]],
         NEW move \in Injection(1..n, 1..n), \A i \in 1..n : alt[move[i]] = key[i], NEW k \in 1..n
  PROVE  ~Before(key[Ranked(n, key, k)], alt[Ranked(n, alt, k)])
<1> DEFINE i == Ranked(n, key, k)   j == Ranked(n, alt, k)
           E == EarlierIn(n, key, i)   F == EarlierIn(n, alt, j)
<1>1. /\ i \in 1..n /\ IsFiniteSet(E) /\ Cardinality(E) = k - 1
      /\ j \in 1..n /\ IsFiniteSet(F) /\ Cardinality(F) = k - 1
  <2> HIDE DEF i, j
  <2>1. i \in 1..n /\ Cardinality(EarlierIn(n, key, i)) = k - 1
    <3>1. Ranked(n, key, k) \in 1..n /\ Cardinality(EarlierIn(n, key, Ranked(n, key, k))) = k - 1
      BY RankIs
    <3>2. QED
      BY <3>1 DEF i
  <2>2. j \in 1..n /\ Cardinality(EarlierIn(n, alt, j)) = k - 1
    <3>1. Ranked(n, alt, k) \in 1..n /\ Cardinality(EarlierIn(n, alt, Ranked(n, alt, k))) = k - 1
      BY RankIs
    <3>2. QED
      BY <3>1 DEF j
  <2>3. IsFiniteSet(EarlierIn(n, key, i)) /\ IsFiniteSet(EarlierIn(n, alt, j))
    BY <2>1, <2>2, RanksFill
  <2>4. QED
    BY <2>1, <2>2, <2>3
<1>2. E \subseteq 1..n /\ F \subseteq 1..n
  BY DEF EarlierIn
<1>3. i \notin E
  BY <1>1, PrecedesOrder DEF EarlierIn
<1>4. \A m \in E \cup {i} : m \in 1..n /\ (key[m] = key[i] \/ Before(key[m], key[i]))
  BY <1>1, <1>2 DEF EarlierIn, Precedes
<1> HIDE DEF i, j, E, F
<1> SUFFICES ASSUME Before(key[i], alt[j]) PROVE FALSE
  BY DEF i, j
<1>5. \A m \in E \cup {i} : move[m] \in F
  <2>1. ASSUME NEW m \in E \cup {i} PROVE move[m] \in F
    <3>1. m \in 1..n /\ move[m] \in 1..n
      BY <1>4 DEF Injection
    <3>2. key[m] \in [1..w -> Int] /\ key[i] \in [1..w -> Int] /\ alt[j] \in [1..w -> Int]
      BY <1>1, <3>1
    <3>3. Before(key[m], alt[j])
      <4>1. CASE key[m] = key[i]
        BY <4>1
      <4>2. CASE Before(key[m], key[i])
        <5>1. \A s, t, u \in [1..w -> Int] : Before(s, t) /\ Before(t, u) => Before(s, u)
          BY BeforeOrder
        <5>2. QED
          BY <3>2, <4>2, <5>1
      <4>3. QED
        BY <1>4, <4>1, <4>2
    <3>4. Before(alt[move[m]], alt[j])
      BY <3>1, <3>3
    <3>5. QED
      BY <3>1, <3>4 DEF F, EarlierIn, Precedes
  <2>2. QED
    BY <2>1
<1> DEFINE g == [m \in E \cup {i} |-> move[m]]
<1>6. g \in Injection(E \cup {i}, F)
  <2>1. \A a, b \in 1..n : move[a] = move[b] => a = b
    BY DEF Injection, IsInjective
  <2>2. QED
    BY <1>4, <1>5, <2>1 DEF Injection, IsInjective
<1>7. Cardinality(E \cup {i}) = k
  <2>1. Cardinality(E \cup {i}) = Cardinality(E) + 1
    BY <1>1, <1>3, FS_AddElement DEF E, i
  <2>2. QED
    BY <1>1, <2>1
<1>8. Cardinality(E \cup {i}) <= Cardinality(F)
  <2> HIDE DEF g
  <2>1. QED
    BY <1>1, <1>6, FS_Injection
<1>9. QED
  BY <1>1, <1>7, <1>8

\* Two ways to number the same n places.
Renumbers(n, move, back) ==
  move \in [1..n -> 1..n] /\ back \in [1..n -> 1..n] /\ \A i \in 1..n : back[move[i]] = i /\ move[back[i]] = i

Renumbered(n, key, alt, move, back) == Renumbers(n, move, back) /\ \A i \in 1..n : alt[i] = key[move[i]]

LEMMA RanksSame ==
  ASSUME NEW n \in Nat, NEW w \in Nat, NEW key \in [1..n -> [1..w -> Int]], NEW alt \in [1..n -> [1..w -> Int]],
         NEW move, NEW back, Renumbered(n, key, alt, move, back), NEW k \in 1..n
  PROVE  key[Ranked(n, key, k)] = alt[Ranked(n, alt, k)]
<1>1. move \in Injection(1..n, 1..n) /\ back \in Injection(1..n, 1..n)
  BY DEF Renumbered, Renumbers, Injection, IsInjective
<1>2. \A i \in 1..n : alt[back[i]] = key[i] /\ key[move[i]] = alt[i]
  BY DEF Renumbered, Renumbers
<1>3. Ranked(n, key, k) \in 1..n /\ Ranked(n, alt, k) \in 1..n
  BY RankIs
<1>4. ~Before(key[Ranked(n, key, k)], alt[Ranked(n, alt, k)])
  BY <1>1, <1>2, RanksAlike
<1>5. ~Before(alt[Ranked(n, alt, k)], key[Ranked(n, key, k)])
  BY <1>1, <1>2, RanksAlike
<1>6. key[Ranked(n, key, k)] \in [1..w -> Int] /\ alt[Ranked(n, alt, k)] \in [1..w -> Int]
  BY <1>3
<1>7. \A s, t \in [1..w -> Int] : s # t => Before(s, t) \/ Before(t, s)
  BY BeforeOrder
<1>8. QED
  BY <1>4, <1>5, <1>6, <1>7

-----------------------------------------------------------------------------
(* The canonical order                                                      *)

SortedAs(seq, key) == [k \in DOMAIN seq |-> seq[Ranked(Len(seq), key, k)]]
\* The same members in another order.
Permuted(seq, other, move, back) ==
  Renumbers(Len(seq), move, back) /\ other = [i \in 1..Len(seq) |-> seq[move[i]]]
Reordered(seq, other) == \E move, back : Permuted(seq, other, move, back)

LEMMA ReverseIs ==
  ASSUME NEW X, NEW seq \in Seq(X)
  PROVE  /\ Reverse(seq) \in Seq(X) /\ Len(Reverse(seq)) = Len(seq) /\ Len(seq) \in Nat
         /\ DOMAIN Reverse(seq) = 1..Len(seq) /\ DOMAIN seq = 1..Len(seq)
         /\ \A i \in 1..Len(seq) : Reverse(seq)[i] = seq[Len(seq) + 1 - i] /\ seq[i] \in X
<1>1. Len(seq) \in Nat /\ DOMAIN seq = 1..Len(seq) /\ \A i \in 1..Len(seq) : seq[i] \in X
  BY LenProperties, ElementOfSeq
<1> DEFINE n == Len(seq)
<1>2. Reverse(seq) = [i \in 1..n |-> seq[(n - i) + 1]]
  BY DEF Reverse
<1> HIDE DEF n
<1>3. n \in Nat
  BY <1>1 DEF n
<1>4. \A i \in 1..n : (n - i) + 1 \in 1..n /\ (n - i) + 1 = n + 1 - i
  BY <1>3
<1>5. \A i \in 1..n : seq[(n - i) + 1] \in X
  BY <1>1, <1>4 DEF n
<1>6. Reverse(seq) \in [1..n -> X]
  BY <1>2, <1>5
<1>7. Reverse(seq) \in Seq(X) /\ Len(Reverse(seq)) = n
  BY <1>3, <1>6, SeqDef, LenProperties
<1>8. QED
  BY <1>1, <1>2, <1>4, <1>7 DEF n

LEMMA BackwardsReordered ==
  ASSUME NEW X, NEW seq \in Seq(X) PROVE Reordered(seq, Reverse(seq))
<1> DEFINE n == Len(seq)   move == [i \in 1..n |-> n + 1 - i]
<1>1. /\ n \in Nat /\ DOMAIN Reverse(seq) = 1..n /\ \A i \in 1..n : Reverse(seq)[i] = seq[n + 1 - i]
      /\ Reverse(seq) = [i \in 1..n |-> Reverse(seq)[i]]
  <2>1. /\ n \in Nat /\ DOMAIN Reverse(seq) = 1..n /\ \A i \in 1..n : Reverse(seq)[i] = seq[n + 1 - i]
        /\ Reverse(seq) \in Seq(X) /\ Len(Reverse(seq)) = n
    BY ReverseIs
  <2>2. Reverse(seq) \in [1..n -> X]
    BY <2>1, LenProperties
  <2>3. QED
    BY <2>1, <2>2
<1> HIDE DEF n
<1>2. \A i \in 1..n : n + 1 - i \in 1..n /\ n + 1 - (n + 1 - i) = i
  BY <1>1
<1>3. Renumbers(n, move, move)
  BY <1>2 DEF Renumbers
<1>4. Reverse(seq) = [i \in 1..n |-> seq[move[i]]]
  BY <1>1, <1>2
<1>5. QED
  BY <1>3, <1>4, Zenon DEF Reordered, Permuted, n

\* Every key is a tuple of numbers, and equal keys are those of equal members.
Keyed(seq, keys, w) ==
  /\ keys \in [1..Len(seq) -> [1..w -> Int]]
  /\ \A i, j \in 1..Len(seq) : keys[i] = keys[j] => seq[i] = seq[j]

\* Sorted by the keys they have, the members of a sequence come out the same whatever order
\* they were in, where equal keys are keys of equal members.
LEMMA SortedAlike ==
  ASSUME NEW X, NEW seq \in Seq(X), NEW w \in Nat, NEW move, NEW back, Renumbers(Len(seq), move, back),
         NEW key, Keyed(seq, key, w), NEW alt, alt = [i \in 1..Len(seq) |-> key[move[i]]],
         NEW other, other = [i \in 1..Len(seq) |-> seq[move[i]]]
  PROVE  SortedAs(seq, key) = SortedAs(other, alt)
<1> DEFINE n == Len(seq)
<1>1. n \in Nat /\ DOMAIN seq = 1..n /\ \A i \in 1..n : seq[i] \in X
  BY LenProperties, ElementOfSeq
<1>2. /\ \A i \in 1..n : move[i] \in 1..n /\ alt[i] = key[move[i]] /\ other[i] = seq[move[i]]
      /\ key \in [1..n -> [1..w -> Int]] /\ \A i, j \in 1..n : key[i] = key[j] => seq[i] = seq[j]
  BY DEF Renumbers, Keyed
<1>3. /\ key \in [1..n -> [1..w -> Int]] /\ alt \in [1..n -> [1..w -> Int]] 
      /\ Renumbered(n, key, alt, move, back)
  BY <1>2 DEF Renumbered
<1>4. Len(other) = n /\ DOMAIN other = 1..n
  <2>1. other \in [1..n -> X]
    BY <1>1, <1>2
  <2>2. other \in Seq(X)
    BY <1>1, <2>1, SeqDef
  <2>3. QED
    BY <1>1, <2>1, <2>2, LenProperties
<1> HIDE DEF n
<1>5. ASSUME NEW k \in 1..n PROVE seq[Ranked(n, key, k)] = other[Ranked(n, alt, k)]
  <2> DEFINE i == Ranked(n, key, k)   j == Ranked(n, alt, k)
  <2>1. i \in 1..n /\ j \in 1..n
    BY <1>1, <1>3, RankIs
  <2>2. key[i] = alt[j]
    BY <1>1, <1>3, RanksSame
  <2> HIDE DEF i, j
  <2>3. seq[i] = seq[move[j]]
    BY <1>2, <2>1, <2>2 DEF n
  <2>4. seq[i] = other[j]
    BY <1>2, <2>1, <2>3
  <2>5. QED
    BY <2>4 DEF i, j
<1>6. QED
  BY <1>1, <1>4, <1>5 DEF SortedAs, n

NodeKeys(doc) == [i \in DOMAIN doc.nodes |-> NodeKey(doc, doc.nodes[i])]
EdgeKeys(doc) == [i \in DOMAIN doc.edges |-> EdgeKey(doc.edges[i])]
PhaseKeys(doc) == [i \in DOMAIN doc.phases |-> PhaseKey(doc.phases[i])]
GroupKeys(doc) == [i \in DOMAIN doc.groups |-> GroupKey(doc, doc.groups[i])]
WrittenBackwards(doc) == [doc EXCEPT !.nodes = Reverse(@), !.edges = Reverse(@), !.phases = Reverse(@), !.groups = Reverse(@)]
DocumentFields == {"lanes", "nodes", "edges", "phases", "groups", "checks"}

LEMMA SortedIs ==
  ASSUME NEW seq, NEW key, DOMAIN seq = 1..Len(seq)
  PROVE  SortedBy(seq, key) = SortedAs(seq, key)
BY DEF SortedBy, SortedAs, Ranked, EarlierIn, Precedes

LEMMA CanonicalIs ==
  ASSUME NEW doc, DocumentFields \subseteq DOMAIN doc
  PROVE  canonicalReadableWorkflow(doc) =
           [doc EXCEPT !.nodes = SortedBy(doc.nodes, NodeKeys(doc)), !.edges = SortedBy(doc.edges, EdgeKeys(doc)),
                       !.phases = SortedBy(doc.phases, PhaseKeys(doc)),
                       !.groups = SortedBy(doc.groups, GroupKeys(doc))]
BY DEF canonicalReadableWorkflow, NodeKeys, EdgeKeys, PhaseKeys, GroupKeys, DocumentFields

LEMMA LaneNumber ==
  ASSUME NEW doc, NEW id, id \in {l.id : l \in ToSet(doc.lanes)}, DOMAIN doc.lanes = 1..Len(doc.lanes)
  PROVE  LaneIndex(doc, id) \in Int
<1>1. PICK i \in DOMAIN doc.lanes : doc.lanes[i].id = id
  BY DEF ToSet
<1>2. LaneIndex(doc, id) \in DOMAIN doc.lanes
  BY <1>1 DEF LaneIndex
<1>3. QED
  BY <1>2

LEMMA KeysTell ==
  ASSUME NEW doc, IsDocument(doc)
  PROVE  /\ Keyed(doc.nodes, NodeKeys(doc), 3) /\ Keyed(doc.edges, EdgeKeys(doc), 4)
         /\ Keyed(doc.phases, PhaseKeys(doc), 3) /\ Keyed(doc.groups, GroupKeys(doc), 4)
<1>1. \A items \in {doc.lanes, doc.nodes, doc.edges, doc.phases, doc.groups} :
        /\ DOMAIN items = 1..Len(items)
        /\ \A i \in 1..Len(items) : items[i] \in ToSet(items)
  <2>1. \A items \in {doc.lanes, doc.nodes, doc.edges, doc.phases, doc.groups} : items \in Seq(ToSet(items))
    BY DEF IsDocument
  <2>2. QED
    BY <2>1, LenProperties, ElementOfSeq
<1>2. Keyed(doc.nodes, NodeKeys(doc), 3)
  <2>1. DOMAIN doc.nodes = 1..Len(doc.nodes)
    BY <1>1
  <2>2. ASSUME NEW n \in ToSet(doc.nodes) PROVE NodeKey(doc, n) \in [1..3 -> Int]
    <3>1. n.col \in Columns /\ n.id \in Int /\ n.lane \in {l.id : l \in ToSet(doc.lanes)}
      BY Zenon DEF IsDocument
    <3>2. LaneIndex(doc, n.lane) \in Int
      BY <1>1, <3>1, LaneNumber
    <3>3. QED
      BY <3>1, <3>2 DEF NodeKey, Columns
  <2>3. \A m, n \in ToSet(doc.nodes) : NodeKey(doc, m) = NodeKey(doc, n) => m = n
    BY DEF NodeKey, IsDocument, Distinguished
  <2>4. QED
    BY <1>1, <2>1, <2>2, <2>3 DEF Keyed, NodeKeys
<1>3. Keyed(doc.edges, EdgeKeys(doc), 4)
  <2>1. DOMAIN doc.edges = 1..Len(doc.edges)
    BY <1>1
  <2>2. \A e \in ToSet(doc.edges) : EdgeKey(e) \in [1..4 -> Int]
    BY DEF EdgeKey, IsDocument
  <2>3. \A e, f \in ToSet(doc.edges) : EdgeKey(e) = EdgeKey(f) => e = f
    BY DEF EdgeKey, IsDocument
  <2>4. QED
    BY <1>1, <2>1, <2>2, <2>3 DEF Keyed, EdgeKeys
<1>4. Keyed(doc.phases, PhaseKeys(doc), 3)
  <2>1. DOMAIN doc.phases = 1..Len(doc.phases)
    BY <1>1
  <2>2. \A p \in ToSet(doc.phases) : PhaseKey(p) \in [1..3 -> Int]
    BY DEF PhaseKey, IsDocument, Spans, Columns
  <2>3. \A p, q \in ToSet(doc.phases) : PhaseKey(p) = PhaseKey(q) => p = q
    BY DEF PhaseKey, IsDocument, Distinguished
  <2>4. QED
    BY <1>1, <2>1, <2>2, <2>3 DEF Keyed, PhaseKeys
<1>5. Keyed(doc.groups, GroupKeys(doc), 4)
  <2>1. DOMAIN doc.groups = 1..Len(doc.groups)
    BY <1>1
  <2>2. ASSUME NEW g \in ToSet(doc.groups) PROVE GroupKey(doc, g) \in [1..4 -> Int]
    <3>1. g.from \in Columns /\ g.to \in g.from..5 /\ g.id \in Int /\ g.lane \in {l.id : l \in ToSet(doc.lanes)}
      BY Zenon DEF IsDocument, Spans
    <3>2. LaneIndex(doc, g.lane) \in Int
      BY <1>1, <3>1, LaneNumber
    <3>3. QED
      BY <3>1, <3>2 DEF GroupKey, Columns
  <2>3. \A g, h \in ToSet(doc.groups) : GroupKey(doc, g) = GroupKey(doc, h) => g = h
    BY DEF GroupKey, IsDocument, Distinguished
  <2>4. QED
    BY <1>1, <2>1, <2>2, <2>3 DEF Keyed, GroupKeys
<1>6. QED
  BY <1>2, <1>3, <1>4, <1>5

LEMMA ReorderedAlike ==
  ASSUME NEW X, NEW seq \in Seq(X), NEW w \in Nat, NEW keys, Keyed(seq, keys, w), NEW other, NEW move,
         NEW back, Permuted(seq, other, move, back)
  PROVE  /\ DOMAIN other = 1..Len(seq) /\ \A i \in 1..Len(seq) : move[i] \in 1..Len(seq) /\ other[i] = seq[move[i]]
         /\ \A alt : alt = [i \in 1..Len(seq) |-> keys[move[i]]] => SortedBy(seq, keys) = SortedBy(other, alt)
<1>1. Len(seq) \in Nat /\ DOMAIN seq = 1..Len(seq) /\ \A i \in 1..Len(seq) : seq[i] \in X
  BY LenProperties, ElementOfSeq
<1>2. DOMAIN other = 1..Len(seq) /\ \A i \in 1..Len(seq) : move[i] \in 1..Len(seq) /\ other[i] = seq[move[i]]
  BY DEF Permuted, Renumbers
<1>3. DOMAIN other = 1..Len(other)
  <2>1. other \in [1..Len(seq) -> X]
    BY <1>1, <1>2 DEF Permuted
  <2>2. other \in Seq(X)
    BY <1>1, <2>1, SeqDef
  <2>3. QED
    BY <2>2, LenProperties
<1>4. ASSUME NEW alt, alt = [i \in 1..Len(seq) |-> keys[move[i]]]
      PROVE  SortedBy(seq, keys) = SortedBy(other, alt)
  <2>1. SortedAs(seq, keys) = SortedAs(other, alt)
    BY <1>4, SortedAlike DEF Permuted
  <2>2. SortedBy(seq, keys) = SortedAs(seq, keys)
    BY <1>1, SortedIs
  <2>3. SortedBy(other, alt) = SortedAs(other, alt)
    BY <1>3, SortedIs
  <2>4. QED
    BY <2>1, <2>2, <2>3
<1>5. QED
  BY <1>2, <1>4

\* A document and another way to write it down.
Rewritten(doc, other) ==
  /\ other = [doc EXCEPT !.nodes = other.nodes, !.edges = other.edges, !.phases = other.phases, !.groups = other.groups]
  /\ Reordered(doc.nodes, other.nodes) /\ Reordered(doc.edges, other.edges)
  /\ Reordered(doc.phases, other.phases) /\ Reordered(doc.groups, other.groups)

Relisted(doc, nodes, edges, phases, groups) ==
  [doc EXCEPT !.nodes = nodes, !.edges = edges, !.phases = phases, !.groups = groups]
LEMMA Overwritten ==
  ASSUME NEW doc, NEW other, Rewritten(doc, other), NEW a, NEW b, NEW c, NEW d
  PROVE  Relisted(doc, a, b, c, d) = Relisted(other, a, b, c, d)
<1>1. PICK m, n, o, p : other = Relisted(doc, m, n, o, p)
  <2>1. other = Relisted(doc, other.nodes, other.edges, other.phases, other.groups)
    BY DEF Rewritten, Relisted
  <2>2. QED
    BY <2>1, Zenon
<1>2. Relisted(Relisted(doc, m, n, o, p), a, b, c, d) = Relisted(doc, a, b, c, d)
  BY DEF Relisted
<1>3. QED
  BY <1>1, <1>2, Zenon

LEMMA RewrittenSame ==
  ASSUME NEW doc, IsDocument(doc), NEW other, Rewritten(doc, other)
  PROVE  canonicalReadableWorkflow(doc) = canonicalReadableWorkflow(other)
<1>1. DocumentFields \subseteq DOMAIN doc
  BY DEF IsDocument, DocumentFields
<1>2. DocumentFields \subseteq DOMAIN other /\ other.lanes = doc.lanes
  BY <1>1 DEF Rewritten, DocumentFields
<1>3. /\ doc.nodes \in Seq(ToSet(doc.nodes)) /\ doc.edges \in Seq(ToSet(doc.edges))
      /\ doc.phases \in Seq(ToSet(doc.phases)) /\ doc.groups \in Seq(ToSet(doc.groups))
  BY DEF IsDocument
<1>4. \A id : LaneIndex(other, id) = LaneIndex(doc, id)
  BY <1>2 DEF LaneIndex
<1>5. \A n : NodeKey(other, n) = NodeKey(doc, n) /\ GroupKey(other, n) = GroupKey(doc, n)
  BY <1>4 DEF NodeKey, GroupKey
<1>6. SortedBy(doc.nodes, NodeKeys(doc)) = SortedBy(other.nodes, NodeKeys(other))
  <2>1. PICK move, back : Permuted(doc.nodes, other.nodes, move, back)
    BY DEF Rewritten, Reordered
  <2>2. Keyed(doc.nodes, NodeKeys(doc), 3)
    BY KeysTell
  <2>3. DOMAIN doc.nodes = 1..Len(doc.nodes)
    BY <1>3, LenProperties
  <2>4. /\ DOMAIN other.nodes = 1..Len(doc.nodes)
        /\ \A i \in 1..Len(doc.nodes) : move[i] \in 1..Len(doc.nodes) /\ other.nodes[i] = doc.nodes[move[i]]
        /\ \A alt : alt = [i \in 1..Len(doc.nodes) |-> NodeKeys(doc)[move[i]]]
                    => SortedBy(doc.nodes, NodeKeys(doc)) = SortedBy(other.nodes, alt)
    BY <1>3, <2>1, <2>2, ReorderedAlike
  <2>5. NodeKeys(other) = [i \in 1..Len(doc.nodes) |-> NodeKeys(doc)[move[i]]]
    BY <1>5, <2>3, <2>4 DEF NodeKeys
  <2>6. QED
    BY <2>4, <2>5
<1>7. SortedBy(doc.edges, EdgeKeys(doc)) = SortedBy(other.edges, EdgeKeys(other))
  <2>1. PICK move, back : Permuted(doc.edges, other.edges, move, back)
    BY DEF Rewritten, Reordered
  <2>2. Keyed(doc.edges, EdgeKeys(doc), 4)
    BY KeysTell
  <2>3. DOMAIN doc.edges = 1..Len(doc.edges)
    BY <1>3, LenProperties
  <2>4. /\ DOMAIN other.edges = 1..Len(doc.edges)
        /\ \A i \in 1..Len(doc.edges) : move[i] \in 1..Len(doc.edges) /\ other.edges[i] = doc.edges[move[i]]
        /\ \A alt : alt = [i \in 1..Len(doc.edges) |-> EdgeKeys(doc)[move[i]]]
                    => SortedBy(doc.edges, EdgeKeys(doc)) = SortedBy(other.edges, alt)
    BY <1>3, <2>1, <2>2, ReorderedAlike
  <2>5. EdgeKeys(other) = [i \in 1..Len(doc.edges) |-> EdgeKeys(doc)[move[i]]]
    BY <1>5, <2>3, <2>4 DEF EdgeKeys
  <2>6. QED
    BY <2>4, <2>5
<1>8. SortedBy(doc.phases, PhaseKeys(doc)) = SortedBy(other.phases, PhaseKeys(other))
  <2>1. PICK move, back : Permuted(doc.phases, other.phases, move, back)
    BY DEF Rewritten, Reordered
  <2>2. Keyed(doc.phases, PhaseKeys(doc), 3)
    BY KeysTell
  <2>3. DOMAIN doc.phases = 1..Len(doc.phases)
    BY <1>3, LenProperties
  <2>4. /\ DOMAIN other.phases = 1..Len(doc.phases)
        /\ \A i \in 1..Len(doc.phases) : move[i] \in 1..Len(doc.phases) /\ other.phases[i] = doc.phases[move[i]]
        /\ \A alt : alt = [i \in 1..Len(doc.phases) |-> PhaseKeys(doc)[move[i]]]
                    => SortedBy(doc.phases, PhaseKeys(doc)) = SortedBy(other.phases, alt)
    BY <1>3, <2>1, <2>2, ReorderedAlike
  <2>5. PhaseKeys(other) = [i \in 1..Len(doc.phases) |-> PhaseKeys(doc)[move[i]]]
    BY <1>5, <2>3, <2>4 DEF PhaseKeys
  <2>6. QED
    BY <2>4, <2>5
<1>9. SortedBy(doc.groups, GroupKeys(doc)) = SortedBy(other.groups, GroupKeys(other))
  <2>1. PICK move, back : Permuted(doc.groups, other.groups, move, back)
    BY DEF Rewritten, Reordered
  <2>2. Keyed(doc.groups, GroupKeys(doc), 4)
    BY KeysTell
  <2>3. DOMAIN doc.groups = 1..Len(doc.groups)
    BY <1>3, LenProperties
  <2>4. /\ DOMAIN other.groups = 1..Len(doc.groups)
        /\ \A i \in 1..Len(doc.groups) : move[i] \in 1..Len(doc.groups) /\ other.groups[i] = doc.groups[move[i]]
        /\ \A alt : alt = [i \in 1..Len(doc.groups) |-> GroupKeys(doc)[move[i]]]
                    => SortedBy(doc.groups, GroupKeys(doc)) = SortedBy(other.groups, alt)
    BY <1>3, <2>1, <2>2, ReorderedAlike
  <2>5. GroupKeys(other) = [i \in 1..Len(doc.groups) |-> GroupKeys(doc)[move[i]]]
    BY <1>5, <2>3, <2>4 DEF GroupKeys
  <2>6. QED
    BY <2>4, <2>5
<1>10. canonicalReadableWorkflow(doc) =
         [doc EXCEPT !.nodes = SortedBy(doc.nodes, NodeKeys(doc)), !.edges = SortedBy(doc.edges, EdgeKeys(doc)),
                     !.phases = SortedBy(doc.phases, PhaseKeys(doc)),
                     !.groups = SortedBy(doc.groups, GroupKeys(doc))]
  BY <1>1, CanonicalIs
<1>11. canonicalReadableWorkflow(other) =
         [other EXCEPT !.nodes = SortedBy(other.nodes, NodeKeys(other)), !.edges = SortedBy(other.edges, EdgeKeys(other)),
                     !.phases = SortedBy(other.phases, PhaseKeys(other)),
                     !.groups = SortedBy(other.groups, GroupKeys(other))]
  BY <1>2, CanonicalIs
<1>12. canonicalReadableWorkflow(other) =
         [other EXCEPT !.nodes = SortedBy(doc.nodes, NodeKeys(doc)), !.edges = SortedBy(doc.edges, EdgeKeys(doc)),
                     !.phases = SortedBy(doc.phases, PhaseKeys(doc)),
                     !.groups = SortedBy(doc.groups, GroupKeys(doc))]
  BY Zenon, <1>6, <1>7, <1>8, <1>9, <1>11
<1>13. \A a, b, c, d : Relisted(doc, a, b, c, d) = Relisted(other, a, b, c, d)
  BY Overwritten
<1>14. QED
  BY Zenon, <1>10, <1>12, <1>13 DEF Relisted

\* What a document is compiled to is the same whatever order it is written in: not only from
\* back to front, which OrderIrrelevant looks at, but in any order of each of its lists.
AnyOrder ==
  work.what # "channel" =>
    \A other : Rewritten(work.doc, other) => canonicalReadableWorkflow(work.doc) = canonicalReadableWorkflow(other)
THEOREM OrdersNeverMatter == CompilerSpec => [](OrderIrrelevant /\ AnyOrder)
<1> DEFINE Inv == work \in Documents
<1>1. CompilerInit => Inv
  BY DEF CompilerInit
<1>2. Inv /\ [CompilerNext]_compilerVars => Inv'
  BY DEF CompilerNext, Compile, LayOut, CheckContract, Probe, compilerVars
<1>3. Inv => AnyOrder
  BY DocumentsAssumption, RewrittenSame DEF AnyOrder
<1>4. Inv /\ AnyOrder => OrderIrrelevant
  <2> SUFFICES ASSUME Inv, AnyOrder, work.what # "channel"
               PROVE  canonicalReadableWorkflow(work.doc) = canonicalReadableWorkflow(WrittenBackwards(work.doc))
    BY DEF OrderIrrelevant, WrittenBackwards
  <2> DEFINE doc == work.doc   rev == WrittenBackwards(work.doc)
  <2>1. IsDocument(doc)
    BY DocumentsAssumption
  <2>2. /\ doc.nodes \in Seq(ToSet(doc.nodes)) /\ doc.edges \in Seq(ToSet(doc.edges))
        /\ doc.phases \in Seq(ToSet(doc.phases)) /\ doc.groups \in Seq(ToSet(doc.groups))
    BY <2>1 DEF IsDocument
  <2>3. DocumentFields \subseteq DOMAIN doc
    BY <2>1 DEF IsDocument, DocumentFields
  <2> HIDE DEF doc
  <2>4. /\ rev.nodes = Reverse(doc.nodes) /\ rev.edges = Reverse(doc.edges)
        /\ rev.phases = Reverse(doc.phases) /\ rev.groups = Reverse(doc.groups)
    BY <2>3 DEF WrittenBackwards, DocumentFields, doc
  <2>5. rev = [doc EXCEPT !.nodes = rev.nodes, !.edges = rev.edges, !.phases = rev.phases, !.groups = rev.groups]
    <3>1. rev = [doc EXCEPT !.nodes = Reverse(doc.nodes), !.edges = Reverse(doc.edges),
                            !.phases = Reverse(doc.phases), !.groups = Reverse(doc.groups)]
      BY <2>3 DEF WrittenBackwards, DocumentFields, doc
    <3> HIDE DEF rev
    <3>2. QED
      BY <2>4, <3>1, Zenon
  <2>6. /\ Reordered(doc.nodes, Reverse(doc.nodes)) /\ Reordered(doc.edges, Reverse(doc.edges))
        /\ Reordered(doc.phases, Reverse(doc.phases)) /\ Reordered(doc.groups, Reverse(doc.groups))
    BY <2>2, BackwardsReordered
  <2> HIDE DEF rev
  <2>7. Rewritten(doc, rev)
    BY <2>4, <2>5, <2>6, Zenon DEF Rewritten
  <2>8. QED
    BY <2>7 DEF AnyOrder, doc, rev
<1>5. QED
  BY <1>1, <1>2, <1>3, <1>4, PTL DEF CompilerSpec

-----------------------------------------------------------------------------
(* What can be reached                                                      *)

\* What can be reached, as a round after round of visits.
Visited(graph, s) ==
  IF s.pending = {} THEN s
  ELSE LET next == CHOOSE id \in s.pending : TRUE
       IN  [visited |-> s.visited \cup graph[next],
            pending |-> (s.pending \ {next}) \cup (graph[next] \ s.visited)]
Rounds(graph, from, n, g) ==
  g = [i \in 0..n |-> IF i = 0 THEN [visited |-> {from}, pending |-> {from}] ELSE Visited(graph, g[i - 1])]
Shut(graph, c) == \A p \in c : graph[p] \subseteq c
Explored(graph, ids, from, s, i) ==
  /\ s.visited \subseteq ids /\ s.pending \subseteq s.visited /\ from \in s.visited
  /\ \A p \in s.visited \ s.pending : graph[p] \subseteq s.visited
  /\ s.pending = {} \/ Cardinality(s.visited \ s.pending) = i
  /\ \A c \in SUBSET ids : from \in c /\ Shut(graph, c) => s.visited \subseteq c

LEMMA RoundsExist ==
  ASSUME NEW graph, NEW from, NEW N \in Nat PROVE \E g : Rounds(graph, from, N, g)
<1> DEFINE base == [visited |-> {from}, pending |-> {from}]
<1> DEFINE Has(n) == \E g : Rounds(graph, from, n, g)
<1>1. Has(0)
  <2> DEFINE g == [i \in 0..0 |-> base]
  <2>1. g = [i \in 0..0 |-> IF i = 0 THEN base ELSE Visited(graph, g[i - 1])]
    OBVIOUS
  <2>2. Rounds(graph, from, 0, g)
    BY <2>1 DEF Rounds
  <2>3. QED
    BY <2>2
<1>2. ASSUME NEW n \in 0..N, NEW g, Rounds(graph, from, n, g) PROVE Has(n + 1)
  <2> DEFINE h == [i \in 0..(n + 1) |-> IF i <= n THEN g[i] ELSE Visited(graph, g[n])]
  <2>1. \A i \in 0..n : i \in 0..(n + 1) /\ h[i] = g[i]
    OBVIOUS
  <2>2. \A i \in 0..n : g[i] = IF i = 0 THEN base ELSE Visited(graph, g[i - 1])
    BY <1>2 DEF Rounds
  <2>3. h[n + 1] = Visited(graph, g[n])
    OBVIOUS
  <2>4. h = [i \in 0..(n + 1) |-> h[i]]
    OBVIOUS
  <2> HIDE DEF h
  <2>5. ASSUME NEW i \in 0..(n + 1) PROVE h[i] = IF i = 0 THEN base ELSE Visited(graph, h[i - 1])
    <3>1. CASE i = 0
      BY <2>1, <2>2, <3>1
    <3>2. CASE i \in 1..n
      <4>1. i - 1 \in 0..n /\ i \in 0..n /\ i # 0
        BY <3>2
      <4>2. QED
        BY <2>1, <2>2, <4>1
    <3>3. CASE i = n + 1
      <4>1. n \in 0..n /\ n + 1 - 1 = n /\ n + 1 # 0
        OBVIOUS
      <4>2. QED
        BY <2>1, <2>3, <3>3, <4>1
    <3>4. QED
      BY <3>1, <3>2, <3>3
  <2>6. h = [i \in 0..(n + 1) |-> IF i = 0 THEN base ELSE Visited(graph, h[i - 1])]
    BY <2>4, <2>5
  <2>7. QED
    BY <2>6 DEF Rounds
<1> DEFINE Some == {n \in 0..N : Has(n)}
<1> HIDE DEF Has
<1>3. 0 \in Some /\ \A n \in 0..N : n \in Some /\ n < N => n + 1 \in Some
  <2>1. ASSUME NEW n \in 0..N, Has(n) PROVE Has(n + 1)
    BY <1>2, <2>1 DEF Has
  <2>2. QED
    BY <1>1, <2>1
<1> HIDE DEF Some
<1>4. N \in Some
  BY <1>3, CountUp
<1>5. QED
  BY <1>4 DEF Some, Has

LEMMA ReachedLast ==
  ASSUME NEW graph, NEW from, Cardinality(DOMAIN graph) \in Nat
  PROVE  \E g : Rounds(graph, from, Cardinality(DOMAIN graph), g)
                /\ Reached(graph, from) = g[Cardinality(DOMAIN graph)].visited
<1> DEFINE n == Cardinality(DOMAIN graph)
           g == CHOOSE f : f = [i \in 0..n |-> IF i = 0 THEN [visited |-> {from}, pending |-> {from}] ELSE Visited(graph, f[i - 1])]
<1>1. \E f : f = [i \in 0..n |-> IF i = 0 THEN [visited |-> {from}, pending |-> {from}] ELSE Visited(graph, f[i - 1])]
  <2>1. \E f : Rounds(graph, from, n, f)
    BY RoundsExist
  <2>2. QED
    BY <2>1, Zenon DEF Rounds
<1>2. g = [i \in 0..n |-> IF i = 0 THEN [visited |-> {from}, pending |-> {from}] ELSE Visited(graph, g[i - 1])]
  BY <1>1, Zenon
<1>3. Reached(graph, from) = g[n].visited
  BY Zenon DEF Reached, Visited
<1>4. QED
  BY <1>2, <1>3, Zenon DEF Rounds

LEMMA VisitExplores ==
  ASSUME NEW ids, IsFiniteSet(ids), NEW graph \in [ids -> SUBSET ids], NEW from \in ids,
         NEW i \in Nat, NEW s, Explored(graph, ids, from, s, i)
  PROVE  Explored(graph, ids, from, Visited(graph, s), i + 1)
<1>1. CASE s.pending = {}
  BY <1>1 DEF Explored, Visited
<1>2. CASE s.pending # {}
  <2> DEFINE next == CHOOSE id \in s.pending : TRUE
             V == s.visited \cup graph[next]
             P == (s.pending \ {next}) \cup (graph[next] \ s.visited)
  <2>1. next \in s.pending
    BY <1>2
  <2> HIDE DEF next
  <2>2. Visited(graph, s) = [visited |-> V, pending |-> P]
    BY <1>2 DEF Visited, next
  <2>3. next \in ids /\ next \in s.visited /\ graph[next] \subseteq ids /\ s.visited \subseteq ids
    BY <2>1 DEF Explored
  <2>4. V \subseteq ids /\ P \subseteq V /\ from \in V
    BY <2>3 DEF Explored
  <2>5. V \ P = (s.visited \ s.pending) \cup {next}
    BY <2>1, <2>3 DEF Explored
  <2>6. \A p \in V \ P : graph[p] \subseteq V
    BY <2>5 DEF Explored
  <2>7. Cardinality(V \ P) = i + 1
    <3>1. IsFiniteSet(s.visited \ s.pending) /\ next \notin s.visited \ s.pending
      <4>1. s.visited \ s.pending \subseteq ids
        BY <2>3
      <4>2. QED
        BY <2>1, <4>1, FS_Subset
    <3>2. Cardinality(s.visited \ s.pending) = i
      BY <1>2 DEF Explored
    <3>3. Cardinality((s.visited \ s.pending) \cup {next}) = Cardinality(s.visited \ s.pending) + 1
      BY <3>1, FS_AddElement
    <3>4. QED
      BY <2>5, <3>2, <3>3
  <2>8. ASSUME NEW c \in SUBSET ids, from \in c, Shut(graph, c) PROVE V \subseteq c
    BY <2>3, <2>8 DEF Explored, Shut
  <2> HIDE DEF V, P
  <2>9. QED
    BY <2>2, <2>4, <2>6, <2>7, <2>8 DEF Explored
<1>3. QED
  BY <1>1, <1>2

\* What is reached is closed, has the start and is in everything closed that has it.
LEMMA ReachedLeast ==
  ASSUME NEW ids, IsFiniteSet(ids), NEW graph \in [ids -> SUBSET ids], NEW from \in ids
  PROVE  /\ Reached(graph, from) \subseteq ids /\ from \in Reached(graph, from)
         /\ Shut(graph, Reached(graph, from))
         /\ \A c \in SUBSET ids : from \in c /\ Shut(graph, c) => Reached(graph, from) \subseteq c
<1> DEFINE n == Cardinality(ids)
<1>1. DOMAIN graph = ids /\ n \in Nat
  BY FS_CardinalityType
<1>2. PICK g : Rounds(graph, from, n, g) /\ Reached(graph, from) = g[n].visited
  BY <1>1, ReachedLast
<1>3. \A i \in 0..n : g[i] = IF i = 0 THEN [visited |-> {from}, pending |-> {from}] ELSE Visited(graph, g[i - 1])
  BY <1>2 DEF Rounds
<1> DEFINE Done == {i \in 0..n : Explored(graph, ids, from, g[i], i)}
<1>4. Explored(graph, ids, from, g[0], 0)
  <2>1. g[0] = [visited |-> {from}, pending |-> {from}]
    <3>1. 0 \in 0..n
      BY <1>1
    <3>2. g[0] = IF 0 = 0 THEN [visited |-> {from}, pending |-> {from}] ELSE Visited(graph, g[0 - 1])
      BY <1>3, <3>1, Zenon
    <3>3. QED
      BY <3>2
  <2>2. {from} \ {from} = {} /\ Cardinality({}) = 0
    BY FS_EmptySet
  <2>3. QED
    BY <2>1, <2>2 DEF Explored
<1>5. ASSUME NEW i \in 0..n, i \in Done, i < n PROVE i + 1 \in Done
  <2>1. g[i + 1] = Visited(graph, g[i])
    <3>1. i + 1 \in 0..n /\ i + 1 # 0 /\ i + 1 - 1 = i
      BY <1>1, <1>5
    <3>2. QED
      BY <1>3, <3>1
  <2>2. Explored(graph, ids, from, Visited(graph, g[i]), i + 1)
    BY <1>5, VisitExplores
  <2>3. i + 1 \in 0..n
    BY <1>1, <1>5
  <2>4. QED
    BY <2>1, <2>2, <2>3
<1>6. n \in Done
  <2>1. 0 \in Done
    BY <1>1, <1>4
  <2> HIDE DEF Done, n
  <2>2. QED
    BY <1>1, <1>5, <2>1, CountUp
<1>7. Explored(graph, ids, from, g[n], n)
  BY <1>6
<1>8. g[n].pending = {}
  <2> SUFFICES ASSUME g[n].pending # {} PROVE FALSE
    OBVIOUS
  <2> DEFINE D == g[n].visited \ g[n].pending
  <2>1. Cardinality(D) = n /\ D \subseteq ids
    BY <1>7 DEF Explored
  <2>2. D = ids
    BY <2>1, FS_Subset
  <2>3. QED
    BY <1>7, <2>2 DEF Explored
<1>9. QED
  BY <1>2, <1>7, <1>8 DEF Explored, Shut

-----------------------------------------------------------------------------
(* The contract on the graph                                                *)

LEMMA SortedHolds ==
  ASSUME NEW X, NEW seq \in Seq(X), NEW w \in Nat, NEW keys, Keyed(seq, keys, w)
  PROVE  /\ SortedBy(seq, keys) \in Seq(ToSet(seq)) /\ ToSet(SortedBy(seq, keys)) = ToSet(seq)
         /\ Len(SortedBy(seq, keys)) = Len(seq)
<1> DEFINE n == Len(seq)   sorted == SortedBy(seq, keys)
<1>1. n \in Nat /\ DOMAIN seq = 1..n /\ \A i \in 1..n : seq[i] \in ToSet(seq)
  <2>1. Len(seq) \in Nat /\ DOMAIN seq = 1..Len(seq)
    BY ReverseIs
  <2>2. QED
    BY <2>1 DEF ToSet
<1>2. sorted = [k \in 1..n |-> seq[Ranked(n, keys, k)]]
  <2>1. sorted = SortedAs(seq, keys)
    BY <1>1, SortedIs
  <2>2. QED
    BY <1>1, <2>1 DEF SortedAs
<1>3. \A k \in 1..n : RankHeld(n, keys, k)
  BY <1>1, RanksFill DEF Keyed
<1>4. \A k \in 1..n : Ranked(n, keys, k) \in 1..n
  BY <1>3 DEF RankHeld
<1>5. \A i \in 1..n : \E k \in 1..n : Ranked(n, keys, k) = i
  <2>1. ASSUME NEW i \in 1..n PROVE \E k \in 1..n : Ranked(n, keys, k) = i
    <3> DEFINE k == Cardinality(EarlierIn(n, keys, i)) + 1
    <3>1. Cardinality(EarlierIn(n, keys, i)) \in 0..(n - 1)
      BY <1>1, RanksFill DEF Keyed
    <3>2. k \in 1..n /\ k - 1 = Cardinality(EarlierIn(n, keys, i))
      BY <1>1, <3>1
    <3> HIDE DEF k
    <3>3. Ranked(n, keys, k) \in 1..n /\ Cardinality(EarlierIn(n, keys, Ranked(n, keys, k))) = k - 1
      BY <1>3, <3>2 DEF RankHeld
    <3>4. \A a, b \in 1..n : Cardinality(EarlierIn(n, keys, a)) = Cardinality(EarlierIn(n, keys, b)) => a = b
      BY <1>1, RanksFill DEF Keyed
    <3>5. Ranked(n, keys, k) = i
      BY <3>2, <3>3, <3>4
    <3>6. QED
      BY <3>2, <3>5
  <2>2. QED
    BY <2>1
<1> HIDE DEF n, sorted
<1>6. sorted \in [1..n -> ToSet(seq)]
  BY <1>1, <1>2, <1>4
<1>7. sorted \in Seq(ToSet(seq)) /\ Len(sorted) = n
  BY <1>1, <1>6, SeqDef, LenProperties
<1>8. ToSet(sorted) = {sorted[k] : k \in 1..n} /\ ToSet(seq) = {seq[i] : i \in 1..n}
  BY <1>1, <1>2 DEF ToSet
<1>9. \A k \in 1..n : sorted[k] = seq[Ranked(n, keys, k)]
  BY <1>2
<1>10. ToSet(sorted) = ToSet(seq)
  <2>1. \A k \in 1..n : sorted[k] \in ToSet(seq)
    BY <1>6
  <2>2. \A i \in 1..n : \E k \in 1..n : seq[i] = sorted[k]
    BY <1>5, <1>9
  <2>3. QED
    BY <1>8, <2>1, <2>2
<1>11. QED
  BY <1>7, <1>10 DEF n, sorted

\* The canonical document holds what the document holds.
LEMMA CanonicalHolds ==
  ASSUME NEW doc, IsDocument(doc)
  PROVE  LET out == canonicalReadableWorkflow(doc)
         IN  /\ out.lanes = doc.lanes /\ out.checks = doc.checks /\ DOMAIN out = DOMAIN doc
             /\ out.nodes \in Seq(ToSet(doc.nodes)) /\ ToSet(out.nodes) = ToSet(doc.nodes)
             /\ out.edges \in Seq(ToSet(doc.edges)) /\ ToSet(out.edges) = ToSet(doc.edges)
             /\ out.phases \in Seq(ToSet(doc.phases)) /\ ToSet(out.phases) = ToSet(doc.phases)
             /\ out.groups \in Seq(ToSet(doc.groups)) /\ ToSet(out.groups) = ToSet(doc.groups)
<1> DEFINE ordered == canonicalReadableWorkflow(doc)
<1>1. DocumentFields \subseteq DOMAIN doc
  BY DEF IsDocument, DocumentFields
<1>2. ordered = [doc EXCEPT !.nodes = SortedBy(doc.nodes, NodeKeys(doc)), !.edges = SortedBy(doc.edges, EdgeKeys(doc)),
                            !.phases = SortedBy(doc.phases, PhaseKeys(doc)),
                            !.groups = SortedBy(doc.groups, GroupKeys(doc))]
  BY <1>1, CanonicalIs
<1> HIDE DEF ordered
<1>3. /\ ordered.nodes = SortedBy(doc.nodes, NodeKeys(doc)) /\ ordered.edges = SortedBy(doc.edges, EdgeKeys(doc))
      /\ ordered.phases = SortedBy(doc.phases, PhaseKeys(doc)) /\ ordered.groups = SortedBy(doc.groups, GroupKeys(doc))
      /\ ordered.lanes = doc.lanes /\ ordered.checks = doc.checks /\ DOMAIN ordered = DOMAIN doc
  BY <1>1, <1>2 DEF DocumentFields
<1>4. /\ doc.nodes \in Seq(ToSet(doc.nodes)) /\ doc.edges \in Seq(ToSet(doc.edges))
      /\ doc.phases \in Seq(ToSet(doc.phases)) /\ doc.groups \in Seq(ToSet(doc.groups))
  BY DEF IsDocument
<1>5. /\ Keyed(doc.nodes, NodeKeys(doc), 3) /\ Keyed(doc.edges, EdgeKeys(doc), 4)
      /\ Keyed(doc.phases, PhaseKeys(doc), 3) /\ Keyed(doc.groups, GroupKeys(doc), 4)
  BY KeysTell
<1>6. ordered.nodes \in Seq(ToSet(doc.nodes)) /\ ToSet(ordered.nodes) = ToSet(doc.nodes)
  BY <1>3, <1>4, <1>5, SortedHolds
<1>7. ordered.edges \in Seq(ToSet(doc.edges)) /\ ToSet(ordered.edges) = ToSet(doc.edges)
  BY <1>3, <1>4, <1>5, SortedHolds
<1>8. ordered.phases \in Seq(ToSet(doc.phases)) /\ ToSet(ordered.phases) = ToSet(doc.phases)
  BY <1>3, <1>4, <1>5, SortedHolds
<1>9. ordered.groups \in Seq(ToSet(doc.groups)) /\ ToSet(ordered.groups) = ToSet(doc.groups)
  BY <1>3, <1>4, <1>5, SortedHolds
<1>10. QED
  BY <1>3, <1>6, <1>7, <1>8, <1>9 DEF ordered

LEMMA ImageFinite ==
  ASSUME NEW S, IsFiniteSet(S), NEW f, DOMAIN f = S, f = [x \in S |-> f[x]] PROVE IsFiniteSet({f[x] : x \in S})
<1> DEFINE T == {f[x] : x \in S}
<1>1. f \in [S -> T] /\ \A t \in T : \E x \in S : f[x] = t
  OBVIOUS
<1>2. f \in Surjection(S, T)
  BY <1>1 DEF Surjection
<1>3. QED
  BY <1>2, FS_Surjection

LEMMA SeqFinite ==
  ASSUME NEW X, NEW seq \in Seq(X) PROVE IsFiniteSet(ToSet(seq))
<1>1. Len(seq) \in Nat /\ DOMAIN seq = 1..Len(seq) /\ seq = [i \in 1..Len(seq) |-> seq[i]]
  BY ReverseIs
<1>2. IsFiniteSet(1..Len(seq))
  <2>1. \A a, b \in Int : IsFiniteSet(a..b)
    BY FS_Interval
  <2>2. 1 \in Int /\ Len(seq) \in Int
    BY <1>1
  <2>3. QED
    BY <2>1, <2>2
<1>3. IsFiniteSet({seq[i] : i \in 1..Len(seq)})
  BY <1>1, <1>2, ImageFinite
<1>4. QED
  BY <1>1, <1>3 DEF ToSet

IdsOf(doc) == {n.id : n \in NodesOf(doc)}
GraphOf(doc) == [id \in IdsOf(doc) |-> {e.to : e \in {d \in Edges(doc) : d.from = id}}]
\* What the contract asks of the graph.
ContractKept(doc) ==
  LET ids == IdsOf(doc)   checks == doc.checks
      closed == {s \in SUBSET ids : \A e \in Edges(doc) : e.from \in s => e.to \in s}
  IN  /\ checks.roots \cup checks.terminals \subseteq ids
      /\ \A r \in checks.edges \cup checks.paths : {r[1], r[2]} \subseteq ids
      /\ checks.rooted => ids \subseteq checks.roots \cup {e.to : e \in Edges(doc)}
      /\ checks.ended => ids \subseteq checks.terminals \cup {e.from : e \in Edges(doc)}
      /\ checks.edges \subseteq {<<e.from, e.to>> : e \in Edges(doc)}
      /\ \A r \in checks.paths : \A s \in closed : r[1] \in s => r[2] \in s
Coded(code, subjects) == {[code |-> code, subject |-> s] : s \in subjects}

LEMMA ContractTold ==
  ASSUME NEW doc, IsDocument(doc) PROVE semanticContractDiagnostics(doc) = {} <=> ContractKept(doc)
<1> DEFINE ids == IdsOf(doc)   graph == GraphOf(doc)   checks == doc.checks
           named == checks.roots \cup checks.terminals \cup UNION {{r[1], r[2]} : r \in checks.edges \cup checks.paths}
           roots == {id \in ids : checks.rooted /\ id \notin checks.roots /\ \A e \in Edges(doc) : e.to # id}
           terminals == {id \in ids : checks.ended /\ id \notin checks.terminals /\ graph[id] = {}}
           missing == {r \in checks.edges : r \notin {<<e.from, e.to>> : e \in ToSet(doc.edges)}}
           cut == {r \in checks.paths : r[2] \notin Reached(graph, r[1])}
           closed == {s \in SUBSET ids : \A e \in Edges(doc) : e.from \in s => e.to \in s}
<1>1. semanticContractDiagnostics(doc) =
        IF ~(named \subseteq ids) THEN Coded("semantic-node-reference", named \ ids)
        ELSE Coded("unexpected-root", roots) \cup Coded("unexpected-terminal", terminals)
             \cup Coded("required-edge", missing) \cup Coded("required-path", cut)
  BY DEF semanticContractDiagnostics, IdsOf, GraphOf, Coded
<1>2. \A code, subjects : Coded(code, subjects) = {} <=> subjects = {}
  BY DEF Coded
<1>3. semanticContractDiagnostics(doc) = {} <=>
        named \subseteq ids /\ roots = {} /\ terminals = {} /\ missing = {} /\ cut = {}
  <2>1. /\ Coded("semantic-node-reference", named \ ids) = {} <=> named \ ids = {}
        /\ Coded("unexpected-root", roots) = {} <=> roots = {}
        /\ Coded("unexpected-terminal", terminals) = {} <=> terminals = {}
        /\ Coded("required-edge", missing) = {} <=> missing = {}
        /\ Coded("required-path", cut) = {} <=> cut = {}
    BY <1>2
  <2> HIDE DEF roots, terminals, missing, cut, ids, named
  <2>2. QED
    BY <1>1, <2>1
<1>4. named \subseteq ids <=> /\ checks.roots \cup checks.terminals \subseteq ids
                              /\ \A r \in checks.edges \cup checks.paths : {r[1], r[2]} \subseteq ids
  OBVIOUS
<1>5. /\ checks.rooted \in BOOLEAN /\ checks.ended \in BOOLEAN
      /\ \A r \in checks.edges : r = <<r[1], r[2]>>
      /\ \A r \in checks.paths : r = <<r[1], r[2]>>
  BY DEF IsDocument, IsContract
<1>6. roots = {} <=> (checks.rooted => ids \subseteq checks.roots \cup {e.to : e \in Edges(doc)})
  BY <1>5
<1>7. graph = [id \in ids |-> {e.to : e \in {d \in Edges(doc) : d.from = id}}] /\ graph \in [ids -> SUBSET ids]
  BY DEF GraphOf, IdsOf, Edges
<1>8. graph \in [ids -> SUBSET ids]
  BY <1>7
<1>9. terminals = {} <=> (checks.ended => ids \subseteq checks.terminals \cup {e.from : e \in Edges(doc)})
  <2>1. \A id \in ids : graph[id] = {} <=> \A e \in Edges(doc) : e.from # id
    BY <1>7
  <2> HIDE DEF graph, ids
  <2>2. QED
    BY <1>5, <2>1
<1>10. ASSUME \A r \in checks.edges \cup checks.paths : {r[1], r[2]} \subseteq ids
      PROVE  missing = {} <=> checks.edges \subseteq {<<e.from, e.to>> : e \in Edges(doc)}
  <2>1. \A r \in checks.edges :
          r \in {<<e.from, e.to>> : e \in ToSet(doc.edges)} <=> r \in {<<e.from, e.to>> : e \in Edges(doc)}
    BY <1>5, <1>10 DEF Edges, IdsOf
  <2>2. QED
    BY <2>1
<1>11. \A s \in SUBSET ids : s \in closed <=> Shut(graph, s)
  <2>1. ASSUME NEW s \in SUBSET ids
        PROVE  (\A e \in Edges(doc) : e.from \in s => e.to \in s) <=> \A id \in s : graph[id] \subseteq s
    <3>1. \A id \in ids : graph[id] = {e.to : e \in {d \in Edges(doc) : d.from = id}}
      BY <1>7
    <3> HIDE DEF graph
    <3>2. ASSUME \A e \in Edges(doc) : e.from \in s => e.to \in s, NEW id \in s PROVE graph[id] \subseteq s
      BY <3>1, <3>2
    <3>3. ASSUME \A id \in s : graph[id] \subseteq s, NEW e \in Edges(doc), e.from \in s PROVE e.to \in s
      BY <3>1, <3>3
    <3>4. QED
      BY <3>2, <3>3
  <2>2. QED
    BY <2>1 DEF Shut
<1>12. ASSUME \A r \in checks.edges \cup checks.paths : {r[1], r[2]} \subseteq ids
       PROVE  cut = {} <=> \A r \in checks.paths : \A s \in closed : r[1] \in s => r[2] \in s
  <2>1. IsFiniteSet(ids)
    <3>1. IsFiniteSet(NodesOf(doc))
      BY SeqFinite DEF IsDocument, NodesOf
    <3> DEFINE idOf == [n \in NodesOf(doc) |-> n.id]
    <3>2. ids = {idOf[n] : n \in NodesOf(doc)} /\ DOMAIN idOf = NodesOf(doc) /\ idOf = [n \in NodesOf(doc) |-> idOf[n]]
      BY DEF IdsOf
    <3> HIDE DEF idOf, ids
    <3>3. QED
      BY <3>1, <3>2, ImageFinite
  <2>2. ASSUME NEW r \in checks.paths
        PROVE  r[2] \in Reached(graph, r[1]) <=> \A s \in closed : r[1] \in s => r[2] \in s
    <3>1. r[1] \in ids
      BY <1>12
    <3> HIDE DEF graph, ids
    <3>2. /\ Reached(graph, r[1]) \subseteq ids /\ r[1] \in Reached(graph, r[1])
          /\ Shut(graph, Reached(graph, r[1]))
          /\ \A c \in SUBSET ids : r[1] \in c /\ Shut(graph, c) => Reached(graph, r[1]) \subseteq c
      BY <1>8, <2>1, <3>1, ReachedLeast
    <3>3. Reached(graph, r[1]) \in closed
      BY <1>11, <3>2
    <3>4. closed \subseteq SUBSET ids
      OBVIOUS
    <3> HIDE DEF closed
    <3>5. QED
      BY <1>11, <3>2, <3>3, <3>4
  <2> HIDE DEF closed, graph, ids
  <2>3. QED
    BY <2>2
<1>13. ContractKept(doc) <=>
         /\ checks.roots \cup checks.terminals \subseteq ids
         /\ \A r \in checks.edges \cup checks.paths : {r[1], r[2]} \subseteq ids
         /\ checks.rooted => ids \subseteq checks.roots \cup {e.to : e \in Edges(doc)}
         /\ checks.ended => ids \subseteq checks.terminals \cup {e.from : e \in Edges(doc)}
         /\ checks.edges \subseteq {<<e.from, e.to>> : e \in Edges(doc)}
         /\ \A r \in checks.paths : \A s \in closed : r[1] \in s => r[2] \in s
  BY DEF ContractKept
<1> HIDE DEF named, roots, terminals, missing, cut, closed, graph, ids, checks
<1>14. QED
  BY <1>3, <1>4, <1>6, <1>9, <1>10, <1>12, <1>13
LEMMA CanonicalTold ==
  ASSUME NEW doc, IsDocument(doc)
  PROVE  semanticContractDiagnostics(canonicalReadableWorkflow(doc)) = semanticContractDiagnostics(doc)
<1> DEFINE ordered == canonicalReadableWorkflow(doc)
<1>1. ToSet(ordered.nodes) = ToSet(doc.nodes) /\ ToSet(ordered.edges) = ToSet(doc.edges) /\ ordered.checks = doc.checks
  BY CanonicalHolds
<1> HIDE DEF ordered
<1>2. NodesOf(ordered) = NodesOf(doc) /\ Edges(ordered) = Edges(doc)
  BY <1>1 DEF NodesOf, Edges
<1>3. semanticContractDiagnostics(ordered) = semanticContractDiagnostics(doc)
  BY <1>1, <1>2 DEF semanticContractDiagnostics
<1>4. QED
  BY <1>3 DEF ordered

\* What a turn of the feedback loop does.
LEMMA TurnIs ==
  ASSUME NEW doc, NEW layout, NEW routes, NEW stuck, Turn(doc, layout, routes, stuck)
  PROVE  \/ UNCHANGED <<feedback, round, asked>> /\ made' = [code |-> "ok", layout |-> layout, routes |-> routes]
         \/ UNCHANGED <<feedback, round, asked>> /\ made' \in {[code |-> "no-route"], [code |-> "no-rounds-left"]}
         \/ \E e \in stuck : \E r \in Request(layout, e) :
              r.least <= SoFar(r) /\ UNCHANGED <<feedback, round, asked>> /\ made' = [code |-> "no-progress"]
         \/ \E e \in stuck : \E r \in Request(layout, e) :
              ~(r.least <= SoFar(r)) /\ feedback' = Granted(r) /\ asked' = Append(asked, r) /\ UNCHANGED made
<1>1. CASE stuck = {}
  BY <1>1 DEF Turn
<1>2. CASE stuck # {} /\ UNION {Request(layout, e) : e \in stuck} = {}
  BY <1>2 DEF Turn
<1>3. CASE stuck # {} /\ UNION {Request(layout, e) : e \in stuck} # {}
  <2>1. PICK r \in UNION {Request(layout, e) : e \in stuck} :
          IF r.least <= SoFar(r) THEN made' = [code |-> "no-progress"] /\ UNCHANGED <<feedback, round, asked>>
          ELSE IF round = MaxRounds THEN made' = [code |-> "no-rounds-left"] /\ UNCHANGED <<feedback, round, asked>>
          ELSE /\ feedback' = Granted(r)
               /\ round' = round + 1 /\ asked' = Append(asked, r) /\ UNCHANGED made
    BY <1>3, Zenon DEF Turn
  <2>2. \E e \in stuck : r \in Request(layout, e)
    OBVIOUS
  <2>3. QED
    BY <2>1, <2>2
<1>4. QED
  BY <1>1, <1>2, <1>3

\* A contract is refused for exactly what the graph does not keep, in every graph: what the
\* search from a node misses is behind a set of nodes that no relationship leaves.
THEOREM ContractsAreExact == CompilerSpec => []ContractExact
<1> DEFINE Inv == /\ work \in Documents
                  /\ made # <<>> /\ made.code = "checked" =>
                       /\ work.what # "channel"
                       /\ made.diagnostics = semanticContractDiagnostics(canonicalReadableWorkflow(work.doc))
<1>1. CompilerInit => Inv
  BY DEF CompilerInit
<1>2. Inv /\ [CompilerNext]_compilerVars => Inv'
  <2> SUFFICES ASSUME Inv, [CompilerNext]_compilerVars PROVE Inv'
    OBVIOUS
  <2>1. CASE Compile
    <3>1. PICK doc, layout, routes : Turn(doc, layout, routes.placed, routes.stuck)
      BY <2>1, Zenon DEF Compile
    <3>2. made' = made \/ made'.code # "checked"
      BY <3>1, TurnIs
    <3>3. QED
      BY <2>1, <3>2 DEF Compile
  <2>2. CASE LayOut
    <3>1. PICK doc, layout, stuck : Turn(doc, layout, <<>>, stuck)
      BY <2>2, Zenon DEF LayOut
    <3>2. made' = made \/ made'.code # "checked"
      BY <3>1, TurnIs
    <3>3. QED
      BY <2>2, <3>2 DEF LayOut
  <2>3. CASE CheckContract
    BY <2>3 DEF CheckContract
  <2>4. CASE Probe
    BY <2>4 DEF Probe
  <2>5. CASE UNCHANGED compilerVars
    BY <2>5 DEF compilerVars
  <2>6. QED
    BY <2>1, <2>2, <2>3, <2>4, <2>5 DEF CompilerNext
<1>3. Inv => ContractExact
  <2> SUFFICES ASSUME Inv, Outcome("checked") PROVE made.diagnostics = {} <=> ContractKept(work.doc)
    BY DEF ContractExact, ContractKept, IdsOf
  <2>1. IsDocument(work.doc) /\ made.diagnostics = semanticContractDiagnostics(canonicalReadableWorkflow(work.doc))
    BY DocumentsAssumption DEF Outcome
  <2>2. QED
    BY <2>1, CanonicalTold, ContractTold
<1>4. QED
  BY <1>1, <1>2, <1>3, PTL DEF CompilerSpec

-----------------------------------------------------------------------------
(* Where columns stand                                                      *)

HasEnds(s) == (\E a \in s : \A b \in s : a >= b) /\ (\E a \in s : \A b \in s : a <= b)

LEMMA EndsExist ==
  ASSUME NEW S, IsFiniteSet(S), S # {}, S \subseteq Int PROVE HasEnds(S)
<1> DEFINE N == Cardinality(S)
           Some == {n \in 0..N : \A s \in SUBSET S : s # {} /\ Cardinality(s) <= n => HasEnds(s)}
<1>1. N \in Nat /\ \A s \in SUBSET S : IsFiniteSet(s) /\ Cardinality(s) \in Nat
  BY FS_Subset, FS_CardinalityType
<1>2. 0 \in Some
  <2>1. \A s \in SUBSET S : Cardinality(s) <= 0 => s = {}
    BY <1>1, FS_EmptySet
  <2>2. \A s \in SUBSET S : s # {} /\ Cardinality(s) <= 0 => HasEnds(s)
    BY <2>1
  <2>3. 0 \in 0..N
    BY <1>1
  <2>4. QED
    BY <2>2, <2>3
<1>3. ASSUME NEW n \in 0..N, n \in Some, n < N PROVE n + 1 \in Some
  <2>1. ASSUME NEW s \in SUBSET S, s # {}, Cardinality(s) <= n + 1 PROVE HasEnds(s)
    <3>1. PICK u \in s : u \in Int
      BY <2>1
    <3> DEFINE t == s \ {u}
    <3>2. t \in SUBSET S /\ Cardinality(t) <= n
      <4>1. Cardinality(s \ {u}) = Cardinality(s) - 1
        BY <1>1, <3>1, FS_RemoveElement
      <4>2. QED
        BY <1>1, <2>1, <4>1
    <3>3. CASE t = {}
      <4>1. s = {u}
        BY <3>1, <3>3
      <4>2. QED
        BY <3>1, <4>1 DEF HasEnds
    <3>4. CASE t # {}
      <4>1. HasEnds(t)
        BY <1>3, <3>2, <3>4
      <4>2. PICK a \in t : \A b \in t : a >= b
        BY <4>1 DEF HasEnds
      <4>3. PICK c \in t : \A b \in t : c <= b
        BY <4>1 DEF HasEnds
      <4>4. \A b \in s : b \in Int /\ (b = u \/ b \in t)
        BY <2>1
      <4>5. a \in s /\ c \in s /\ u \in s /\ a \in Int /\ c \in Int
        BY <4>4
      <4> HIDE DEF t
      <4>6. \E m \in s : \A b \in s : m >= b
        <5>1. CASE a >= u
          BY <4>2, <4>4, <4>5, <5>1
        <5>2. CASE u > a
          BY <4>2, <4>4, <4>5, <5>2, <3>1
        <5>3. QED
          BY <3>1, <4>5, <5>1, <5>2
      <4>7. \E m \in s : \A b \in s : m <= b
        <5>1. CASE c <= u
          BY <4>3, <4>4, <4>5, <5>1
        <5>2. CASE u < c
          BY <4>3, <4>4, <4>5, <5>2, <3>1
        <5>3. QED
          BY <3>1, <4>5, <5>1, <5>2
      <4>8. QED
        BY <4>6, <4>7 DEF HasEnds
    <3>5. QED
      BY <3>3, <3>4
  <2>2. QED
    BY <1>1, <1>3, <2>1
<1> HIDE DEF Some, N
<1>4. N \in Some
  BY <1>1, <1>2, <1>3, CountUp
<1>5. QED
  BY <1>1, <1>4 DEF Some, N

\* The largest and the least of finitely many numbers are among them.
LEMMA EndsOf ==
  ASSUME NEW S, IsFiniteSet(S), S # {}, S \subseteq Int
  PROVE  /\ Largest(S) \in S /\ Largest(S) \in Int /\ \A b \in S : b <= Largest(S)
         /\ Least(S) \in S /\ Least(S) \in Int /\ \A b \in S : Least(S) <= b
<1>1. (\E a \in S : \A b \in S : a >= b) /\ (\E a \in S : \A b \in S : a <= b)
  BY EndsExist DEF HasEnds
<1>2. Largest(S) \in S /\ \A b \in S : Largest(S) >= b
  BY <1>1 DEF Largest
<1>3. Least(S) \in S /\ \A b \in S : Least(S) <= b
  BY <1>1 DEF Least
<1>4. \A b \in S : b \in Int
  OBVIOUS
<1>5. QED
  BY <1>2, <1>3, <1>4

\* Distances asked for run from left to right; what each asks of a column is a number.
GapsOk(gaps) ==
  IsFiniteSet(gaps) /\ \A g \in gaps : g.from \in Columns /\ g.to \in Columns /\ g.from < g.to /\ g.least \in Int
Asked(gaps, xs, col) == {xs[g.from] + g.least : g \in {h \in gaps : h.to = col}}
Where(gaps, xs, col) == IF col = 0 THEN Baseline(0) ELSE Largest({Baseline(col)} \cup Asked(gaps, xs, col))
Swept(gaps, n, xs) == xs = [col \in 0..n |-> Where(gaps, xs, col)]

LEMMA SweepExists ==
  ASSUME NEW gaps, GapsOk(gaps), NEW N \in Nat PROVE \E xs : Swept(gaps, N, xs)
<1> DEFINE Has(n) == \E xs : Swept(gaps, n, xs)
<1>0. \A n \in Nat : \A xs : Swept(gaps, n, xs) <=> xs = [col \in 0..n |-> xs[col]] /\ \A col \in 0..n : xs[col] = Where(gaps, xs, col)
  BY DEF Swept
<1>1. Has(0)
  <2> DEFINE xs == [col \in 0..0 |-> Baseline(0)]
  <2>1. xs = [col \in 0..0 |-> xs[col]] /\ \A col \in 0..0 : xs[col] = Where(gaps, xs, col)
    BY DEF Where
  <2> HIDE DEF xs
  <2>2. Swept(gaps, 0, xs)
    BY <1>0, <2>1
  <2>3. QED
    BY <2>2
<1>2. ASSUME NEW n \in 0..N, NEW xs, Swept(gaps, n, xs) PROVE Has(n + 1)
  <2> DEFINE ys == [col \in 0..(n + 1) |-> IF col <= n THEN xs[col] ELSE Where(gaps, xs, n + 1)]
  <2>1. ys = [col \in 0..(n + 1) |-> ys[col]] /\ (\A col \in 0..n : ys[col] = xs[col]) /\ ys[n + 1] = Where(gaps, xs, n + 1)
    OBVIOUS
  <2> HIDE DEF ys
  <2>2. ASSUME NEW col \in 0..(n + 1) PROVE Asked(gaps, ys, col) = Asked(gaps, xs, col)
    <3>1. \A g \in {h \in gaps : h.to = col} : g.from \in 0..n
      BY DEF GapsOk, Columns
    <3>2. \A g \in {h \in gaps : h.to = col} : ys[g.from] + g.least = xs[g.from] + g.least
      BY <2>1, <3>1
    <3>3. QED
      BY <3>2 DEF Asked
  <2>3. ASSUME NEW col \in 0..(n + 1) PROVE ys[col] = Where(gaps, ys, col)
    <3>1. Where(gaps, ys, col) = Where(gaps, xs, col)
      BY <2>2 DEF Where
    <3>2. CASE col \in 0..n
      <4>1. xs[col] = Where(gaps, xs, col)
        BY <1>0, <1>2, <3>2
      <4>2. QED
        BY <2>1, <3>1, <3>2, <4>1
    <3>3. CASE col = n + 1
      BY <2>1, <3>1, <3>3
    <3>4. QED
      BY <3>2, <3>3
  <2>4. Swept(gaps, n + 1, ys)
    BY <1>0, <2>1, <2>3
  <2>5. QED
    BY <2>4
<1> DEFINE Some == {n \in 0..N : Has(n)}
<1> HIDE DEF Has
<1>3. 0 \in Some /\ \A n \in 0..N : n \in Some /\ n < N => n + 1 \in Some
  <2>1. ASSUME NEW n \in 0..N, Has(n) PROVE Has(n + 1)
    BY <1>2, <2>1 DEF Has
  <2>2. QED
    BY <1>1, <2>1
<1> HIDE DEF Some
<1>4. N \in Some
  BY <1>3, CountUp
<1>5. QED
  BY <1>4 DEF Some, Has

\* What is placed is where something asks for it, and as far right as everything asks.
LEMMA WhereIs ==
  ASSUME NEW gaps, GapsOk(gaps), NEW xs, NEW col \in Columns, \A c \in Columns : c < col => xs[c] \in Int
  PROVE  /\ Where(gaps, xs, col) \in Int
         /\ \A g \in gaps : g.to = col => Where(gaps, xs, col) >= xs[g.from] + g.least
         /\ \/ Where(gaps, xs, col) = Baseline(col)
            \/ \E g \in gaps : g.to = col /\ Where(gaps, xs, col) = xs[g.from] + g.least
         /\ Where(gaps, xs, col) >= Baseline(col)
<1>1. Baseline(col) \in Int
  BY DEF Baseline, Columns
<1>2. CASE col = 0
  BY <1>1, <1>2 DEF Where, GapsOk, Columns
<1>3. CASE col # 0
  <2> DEFINE G == {h \in gaps : h.to = col}   S == {Baseline(col)} \cup Asked(gaps, xs, col)
             f == [g \in G |-> xs[g.from] + g.least]
  <2>1. IsFiniteSet(G) /\ \A g \in G : f[g] = xs[g.from] + g.least /\ f[g] \in Int
    BY FS_Subset DEF GapsOk
  <2>2. Asked(gaps, xs, col) = {f[g] : g \in G} /\ f = [g \in G |-> f[g]] /\ DOMAIN f = G
    BY DEF Asked
  <2> HIDE DEF f, G
  <2>3. IsFiniteSet(Asked(gaps, xs, col)) /\ Asked(gaps, xs, col) \subseteq Int
    <3>1. IsFiniteSet({f[g] : g \in G})
      BY <2>1, <2>2, ImageFinite
    <3>2. QED
      BY <2>1, <2>2, <3>1
  <2>4. IsFiniteSet(S) /\ S # {} /\ S \subseteq Int
    BY <1>1, <2>3, FS_AddElement
  <2>5. Largest(S) \in S /\ Largest(S) \in Int /\ \A b \in S : b <= Largest(S)
    <3> HIDE DEF S
    <3>1. QED
      BY <2>4, EndsOf
  <2>6. Where(gaps, xs, col) = Largest(S)
    BY <1>3 DEF Where
  <2>7. \A g \in G : xs[g.from] + g.least \in S
    BY <2>1, <2>2
  <2>8. Largest(S) = Baseline(col) \/ \E g \in G : Largest(S) = xs[g.from] + g.least
    BY <2>5, <2>1, <2>2
  <2>9. \A g \in gaps : g.to = col <=> g \in G
    BY DEF G
  <2>10. Baseline(col) \in S /\ \A b \in S : b \in Int
    BY <2>4
  <2> HIDE DEF S
  <2>11. \A g \in gaps : g.to = col => Largest(S) >= xs[g.from] + g.least
    BY <2>5, <2>7, <2>9, <2>10
  <2>12. \/ Largest(S) = Baseline(col)
         \/ \E g \in gaps : g.to = col /\ Largest(S) = xs[g.from] + g.least
    <3>1. G \subseteq gaps
      BY DEF G
    <3>2. QED
      BY <2>8, <2>9, <3>1
  <2>13. Largest(S) >= Baseline(col)
    BY <1>1, <2>5, <2>10
  <2>14. QED
    BY <2>5, <2>6, <2>11, <2>12, <2>13
<1>4. QED
  BY <1>2, <1>3

\* Every distance asked for is kept, and no column is further right than they ask.
LEMMA Solved ==
  ASSUME NEW gaps, GapsOk(gaps)
  PROVE  /\ Solve(gaps) = [c \in Columns |-> Solve(gaps)[c]] /\ \A c \in Columns : Solve(gaps)[c] \in Int
         /\ \A g \in gaps : Solve(gaps)[g.to] - Solve(gaps)[g.from] >= g.least
         /\ \A c \in 1..5 : \/ Solve(gaps)[c] = Baseline(c)
                            \/ \E g \in gaps : g.to = c /\ Solve(gaps)[c] - Solve(gaps)[g.from] = g.least
         /\ Solve(gaps)[0] = Baseline(0)
<1> DEFINE xs == Solve(gaps)
<1>1. \E f : f = [col \in Columns |-> IF col = 0 THEN Baseline(0)
                   ELSE Largest({Baseline(col)} \cup {f[g.from] + g.least : g \in {h \in gaps : h.to = col}})]
  <2>1. \E f : Swept(gaps, 5, f)
    BY SweepExists
  <2>2. QED
    BY <2>1, Zenon DEF Swept, Where, Asked, Columns
<1>2. xs = [col \in Columns |-> IF col = 0 THEN Baseline(0)
             ELSE Largest({Baseline(col)} \cup {xs[g.from] + g.least : g \in {h \in gaps : h.to = col}})]
  BY <1>1, Zenon DEF Solve
<1> HIDE DEF xs
<1>3. xs = [c \in Columns |-> xs[c]] /\ \A c \in Columns : xs[c] = Where(gaps, xs, c)
  BY <1>2 DEF Where, Asked
<1>4. \A c \in Columns : xs[c] \in Int
  <2> DEFINE Some == {n \in 0..5 : \A c \in 0..n : xs[c] \in Int}
  <2>1. \A c \in Columns : (\A d \in Columns : d < c => xs[d] \in Int) => xs[c] \in Int
    BY <1>3, WhereIs
  <2>2. 0 \in Some
    <3>1. 0 \in Columns /\ \A d \in Columns : ~(d < 0)
      BY DEF Columns
    <3>2. xs[0] \in Int
      BY <2>1, <3>1
    <3>3. QED
      BY <3>2
  <2>3. ASSUME NEW n \in 0..5, n \in Some, n < 5 PROVE n + 1 \in Some
    <3>1. n + 1 \in Columns /\ \A d \in Columns : d < n + 1 => d \in 0..n
      BY <2>3 DEF Columns
    <3>2. xs[n + 1] \in Int
      BY <2>1, <2>3, <3>1
    <3>3. \A c \in 0..(n + 1) : c \in 0..n \/ c = n + 1
      OBVIOUS
    <3>4. \A c \in 0..(n + 1) : xs[c] \in Int
      BY <2>3, <3>2, <3>3
    <3>5. QED
      BY <2>3, <3>4
  <2> HIDE DEF Some
  <2>4. 5 \in Some
    BY <2>2, <2>3, CountUp
  <2>5. QED
    BY <2>4 DEF Some, Columns
<1>5. ASSUME NEW c \in Columns
      PROVE  /\ \A g \in gaps : g.to = c => xs[c] >= xs[g.from] + g.least
             /\ xs[c] = Baseline(c) \/ \E g \in gaps : g.to = c /\ xs[c] = xs[g.from] + g.least
  <2>1. /\ \A g \in gaps : g.to = c => Where(gaps, xs, c) >= xs[g.from] + g.least
        /\ \/ Where(gaps, xs, c) = Baseline(c)
           \/ \E g \in gaps : g.to = c /\ Where(gaps, xs, c) = xs[g.from] + g.least
    BY <1>4, WhereIs
  <2>2. xs[c] = Where(gaps, xs, c)
    BY <1>3
  <2>3. QED
    BY <2>1, <2>2
<1>6. \A g \in gaps : g.from \in Columns /\ g.to \in Columns /\ g.least \in Int
  BY DEF GapsOk
<1>7. \A g \in gaps : xs[g.from] \in Int /\ xs[g.to] \in Int
  BY <1>4, <1>6
<1>8. \A g \in gaps : xs[g.to] - xs[g.from] >= g.least
  <2>1. ASSUME NEW g \in gaps PROVE xs[g.to] - xs[g.from] >= g.least
    <3>1. xs[g.to] >= xs[g.from] + g.least
      BY <1>5, <1>6
    <3>2. QED
      BY <1>6, <1>7, <3>1
  <2>2. QED
    BY <2>1
<1>9. \A c \in 1..5 : xs[c] = Baseline(c) \/ \E g \in gaps : g.to = c /\ xs[c] - xs[g.from] = g.least
  <2>1. ASSUME NEW c \in 1..5 PROVE xs[c] = Baseline(c) \/ \E g \in gaps : g.to = c /\ xs[c] - xs[g.from] = g.least
    <3>1. c \in Columns
      BY DEF Columns
    <3>2. \A g \in gaps : xs[c] = xs[g.from] + g.least => xs[c] - xs[g.from] = g.least
      BY <1>6, <1>7
    <3>3. QED
      BY <1>5, <3>1, <3>2
  <2>2. QED
    BY <2>1
<1>10. xs[0] = Baseline(0)
  BY <1>3 DEF Where, Columns
<1>11. QED
  BY <1>3, <1>4, <1>8, <1>9, <1>10 DEF xs

-----------------------------------------------------------------------------
(* What asks for room                                                       *)

FeedbackOk(fb) ==
  /\ {"lane", "rank"} \subseteq DOMAIN fb /\ fb.lane \in Nat /\ IsFiniteSet(DOMAIN fb.rank)
  /\ \A k \in DOMAIN fb.rank : k[1] \in Columns /\ k[2] \in Columns /\ k[1] < k[2] /\ fb.rank[k] \in Int
GapOk(g) == g.from \in Columns /\ g.to \in Columns /\ g.from < g.to /\ g.least \in Int

LEMMA GapsJoin ==
  ASSUME NEW A, GapsOk(A), NEW B, GapsOk(B) PROVE GapsOk(A \cup B)
BY FS_Union DEF GapsOk

LEMMA GapsFrom ==
  ASSUME NEW S, IsFiniteSet(S), NEW f, DOMAIN f = S, f = [x \in S |-> f[x]], \A x \in S : GapOk(f[x])
  PROVE  GapsOk({f[x] : x \in S})
<1>1. IsFiniteSet({f[x] : x \in S})
  BY ImageFinite
<1>2. QED
  BY <1>1 DEF GapsOk, GapOk

LEMMA GapsAll ==
  ASSUME NEW S, IsFiniteSet(S), \A T \in S : GapsOk(T) PROVE GapsOk(UNION S)
<1>1. IsFiniteSet(UNION S)
  BY FS_UNION DEF GapsOk
<1>2. QED
  BY <1>1 DEF GapsOk

\* What a document holds.
LEMMA DocumentHolds ==
  ASSUME NEW doc, IsDocument(doc)
  PROVE  /\ \A n \in NodesOf(doc) : /\ n.id \in Int /\ n.col \in Columns /\ n.width \in Nat /\ n.height \in Nat
                                    /\ n.offset \in Int /\ n.lane \in {l.id : l \in ToSet(doc.lanes)}
         /\ \A e \in Edges(doc) : e.from \in IdsOf(doc) /\ e.to \in IdsOf(doc) /\ e.label \in Nat
         /\ \A s \in ToSet(doc.phases) \cup ToSet(doc.groups) :
              s.from \in Columns /\ s.to \in Columns /\ s.from <= s.to /\ s.label \in Nat
         /\ IsFiniteSet(NodesOf(doc)) /\ IsFiniteSet(Edges(doc))
         /\ IsFiniteSet(ToSet(doc.phases)) /\ IsFiniteSet(ToSet(doc.groups))
<1>1. \A n \in NodesOf(doc) : /\ n.id \in Int /\ n.col \in Columns /\ n.width \in Nat /\ n.height \in Nat
                              /\ n.offset \in Int /\ n.lane \in {l.id : l \in ToSet(doc.lanes)}
  BY Zenon DEF IsDocument, NodesOf
<1>2. \A e \in Edges(doc) : e.from \in IdsOf(doc) /\ e.to \in IdsOf(doc) /\ e.label \in Nat
  BY DEF IsDocument, Edges, IdsOf
<1>3. \A s \in ToSet(doc.phases) \cup ToSet(doc.groups) :
        s.from \in Columns /\ s.to \in Columns /\ s.from <= s.to /\ s.label \in Nat
  <2>1. Spans(doc.phases) /\ Spans(doc.groups)
    BY Zenon DEF IsDocument
  <2>2. ASSUME NEW items, Spans(items)
        PROVE  \A s \in ToSet(items) : s.from \in Columns /\ s.to \in Columns /\ s.from <= s.to /\ s.label \in Nat
    BY <2>2 DEF Spans, Columns
  <2>3. QED
    BY <2>1, <2>2
<1>4. /\ doc.nodes \in Seq(ToSet(doc.nodes)) /\ doc.edges \in Seq(ToSet(doc.edges))
      /\ doc.phases \in Seq(ToSet(doc.phases)) /\ doc.groups \in Seq(ToSet(doc.groups))
  BY DEF IsDocument
<1>5. IsFiniteSet(ToSet(doc.nodes)) /\ IsFiniteSet(ToSet(doc.phases)) /\ IsFiniteSet(ToSet(doc.groups))
      /\ IsFiniteSet(ToSet(doc.edges))
  BY <1>4, SeqFinite
<1>6. Edges(doc) \subseteq ToSet(doc.edges)
  BY DEF Edges
<1>7. QED
  BY <1>1, <1>2, <1>3, <1>5, <1>6, FS_Subset DEF NodesOf

LEMMA NodeAt ==
  ASSUME NEW doc, NEW id \in IdsOf(doc) PROVE NodeOf(doc, id) \in NodesOf(doc) /\ NodeOf(doc, id).id = id
<1>1. \E n \in NodesOf(doc) : n.id = id
  BY DEF IdsOf
<1>2. QED
  BY <1>1 DEF NodeOf

LEMMA OutwardsAre ==
  ASSUME NEW doc, IsDocument(doc), NEW e \in Direct(doc)
  PROVE  /\ Outwards(doc, e)[1] \in NodesOf(doc) /\ Outwards(doc, e)[2] \in NodesOf(doc)
         /\ Outwards(doc, e)[1].col < Outwards(doc, e)[2].col
         /\ Outwards(doc, e)[1].lane = Outwards(doc, e)[2].lane /\ e \in Edges(doc)
<1>1. e \in Edges(doc) /\ NodeOf(doc, e.from).col # NodeOf(doc, e.to).col /\ NodeOf(doc, e.from).lane = NodeOf(doc, e.to).lane
  BY DEF Direct
<1>2. e.from \in IdsOf(doc) /\ e.to \in IdsOf(doc)
  BY <1>1, DocumentHolds
<1>3. NodeOf(doc, e.from) \in NodesOf(doc) /\ NodeOf(doc, e.to) \in NodesOf(doc)
  BY <1>2, NodeAt
<1>4. NodeOf(doc, e.from).col \in Columns /\ NodeOf(doc, e.to).col \in Columns
  BY <1>3, DocumentHolds
<1>5. QED
  BY <1>1, <1>3, <1>4 DEF Outwards, Columns

LEMMA LabelsAre ==
  ASSUME NEW units \in Nat
  PROVE  /\ workflowLabelWidth(units) \in Int /\ \A tenths \in Nat : TextWidth(units, tenths) \in Int
         /\ \A e : e.label = units => LabelClearance(e) \in Int /\ LabelClearance(e) >= 28
<1>0. \A m, n \in Int : Largest({m, n}) \in Int /\ Largest({m, n}) >= m
  BY LeastOfTwo
<1>1. \A tenths \in Nat : TextWidth(units, tenths) \in Int
  <2>1. \A a \in Int : a \div 10 \in Int
    OBVIOUS
  <2>2. \A tenths \in Nat : units * tenths \in Int
    OBVIOUS
  <2>3. QED
    BY <2>1, <2>2 DEF TextWidth
<1>2. workflowLabelWidth(units) \in Int
  <2>1. 30 \in Int /\ TextWidth(units, 48) + 10 \in Int
    BY <1>1
  <2>2. Largest({30, TextWidth(units, 48) + 10}) \in Int
    BY <1>0, <2>1
  <2>3. QED
    BY <2>2 DEF workflowLabelWidth
<1>3. \A e : e.label = units => LabelClearance(e) \in Int /\ LabelClearance(e) >= 28
  <2>1. Largest({28, workflowLabelWidth(units) + 8}) \in Int /\ Largest({28, workflowLabelWidth(units) + 8}) >= 28
    BY <1>0, <1>2
  <2>2. QED
    BY <2>1 DEF LabelClearance
<1>4. QED
  BY <1>1, <1>2, <1>3

LEMMA GappedIs ==
  ASSUME NEW doc, IsDocument(doc), NEW m \in NodesOf(doc), NEW n \in NodesOf(doc), m.col < n.col, NEW least \in Int
  PROVE  GapOk(Gapped(m, n, least))
<1>1. m.width + n.width \in Int /\ m.col \in Columns /\ n.col \in Columns
  BY DocumentHolds
<1>2. \A a \in Int : a \div 2 \in Int
  OBVIOUS
<1>3. QED
  BY <1>1, <1>2 DEF GapOk, Gapped

LEMMA SpansAre ==
  ASSUME NEW s, s.from \in Columns, s.to \in Columns, s.from <= s.to, s.label \in Nat, NEW room \in Int, NEW over \in Int
  PROVE  GapsOk(SpanGap(s, room, over))
<1> DEFINE more == Largest({0, TextWidth(s.label, 56) + over - room})
<1>1. more \in Int
  <2>1. TextWidth(s.label, 56) + over - room \in Int
    BY LabelsAre
  <2>2. \A m, n \in Int : Largest({m, n}) \in Int
    BY LeastOfTwo
  <2>3. QED
    BY <2>1, <2>2
<1> HIDE DEF more
<1>2. SpanGap(s, room, over) =
        IF s.from < s.to THEN {[from |-> s.from, to |-> s.to, least |-> more]}
        ELSE IF s.to < 5 THEN {[from |-> s.to, to |-> s.to + 1, least |-> 120 + more]} ELSE {}
  BY DEF SpanGap, more
<1>3. \A g : IsFiniteSet({g}) /\ IsFiniteSet({})
  BY FS_Singleton, FS_EmptySet
<1>0. \A f, t \in Columns : \A n \in Int : f < t => GapsOk({[from |-> f, to |-> t, least |-> n]})
  <2>1. ASSUME NEW f \in Columns, NEW t \in Columns, NEW n \in Int, f < t
        PROVE  GapsOk({[from |-> f, to |-> t, least |-> n]})
    <3> DEFINE g == [from |-> f, to |-> t, least |-> n]
    <3>1. g.from \in Columns /\ g.to \in Columns /\ g.from < g.to /\ g.least \in Int
      BY <2>1
    <3> HIDE DEF g
    <3>2. GapsOk({g})
      BY <1>3, <3>1 DEF GapsOk
    <3>3. QED
      BY <3>2 DEF g
  <2>2. QED
    BY <2>1
<1>4. CASE s.from < s.to
  <2>1. SpanGap(s, room, over) = {[from |-> s.from, to |-> s.to, least |-> more]}
    BY <1>2, <1>4
  <2>2. QED
    BY <1>0, <1>1, <1>4, <2>1
<1>5. CASE ~(s.from < s.to) /\ s.to < 5
  <2>1. SpanGap(s, room, over) = {[from |-> s.to, to |-> s.to + 1, least |-> 120 + more]}
    BY <1>2, <1>5
  <2>2. s.to + 1 \in Columns /\ s.to < s.to + 1 /\ 120 + more \in Int
    BY <1>1, <1>5 DEF Columns
  <2>3. QED
    BY <1>0, <2>1, <2>2
<1>6. CASE ~(s.from < s.to) /\ ~(s.to < 5)
  BY <1>1, <1>2, <1>3, <1>6 DEF GapsOk
<1>7. QED
  BY <1>4, <1>5, <1>6

LEMMA GapsAre ==
  ASSUME NEW doc, IsDocument(doc), NEW fb, FeedbackOk(fb) PROVE GapsOk(Gaps(doc, fb))
<1> DEFINE A == {[from |-> c, to |-> c + 1, least |-> 120] : c \in 0..4}
           B == {[from |-> k[1], to |-> k[2], least |-> fb.rank[k]] : k \in DOMAIN fb.rank}
           P == UNION {SpanGap(p, 92, 8) : p \in ToSet(doc.phases)}
           Q == UNION {SpanGap(g, 100, 20) : g \in ToSet(doc.groups)}
<1>1. GapsOk(A)
  <2> DEFINE f == [c \in 0..4 |-> [from |-> c, to |-> c + 1, least |-> 120]]
  <2>1. A = {f[c] : c \in 0..4} /\ DOMAIN f = 0..4 /\ f = [c \in 0..4 |-> f[c]] /\ \A c \in 0..4 : GapOk(f[c])
    BY DEF GapOk, Columns
  <2>2. IsFiniteSet(0..4)
    <3>1. \A a, b \in Int : IsFiniteSet(a..b)
      BY FS_Interval
    <3>2. 0 \in Int /\ 4 \in Int
      OBVIOUS
    <3>3. QED
      BY <3>1, <3>2
  <2> HIDE DEF f, A
  <2>3. QED
    BY <2>1, <2>2, GapsFrom
<1>2. GapsOk(B)
  <2> DEFINE f == [k \in DOMAIN fb.rank |-> [from |-> k[1], to |-> k[2], least |-> fb.rank[k]]]
  <2>1. /\ B = {f[k] : k \in DOMAIN fb.rank} /\ DOMAIN f = DOMAIN fb.rank
        /\ f = [k \in DOMAIN fb.rank |-> f[k]] /\ \A k \in DOMAIN fb.rank : GapOk(f[k])
    BY DEF GapOk, FeedbackOk
  <2>2. IsFiniteSet(DOMAIN fb.rank)
    BY DEF FeedbackOk
  <2> HIDE DEF f, B
  <2>3. QED
    BY <2>1, <2>2, GapsFrom
<1>3. GapsOk(NeighbourGaps(doc))
  <2> DEFINE S == {q \in NodesOf(doc) \X NodesOf(doc) :
                     q[1].lane = q[2].lane /\ q[1].col < q[2].col /\ verticalIntervalsOverlap(q[1], q[2], 8)}
             f == [p \in S |-> Gapped(p[1], p[2], 8)]
  <2>1. NeighbourGaps(doc) = {f[p] : p \in S} /\ DOMAIN f = S /\ f = [p \in S |-> f[p]]
    BY DEF NeighbourGaps
  <2>2. IsFiniteSet(S)
    <3>1. IsFiniteSet(NodesOf(doc) \X NodesOf(doc))
      BY DocumentHolds, FS_Product
    <3>2. S \subseteq NodesOf(doc) \X NodesOf(doc)
      OBVIOUS
    <3>3. QED
      BY <3>1, <3>2, FS_Subset
  <2>3. ASSUME NEW p \in S PROVE GapOk(f[p])
    <3>1. p[1] \in NodesOf(doc) /\ p[2] \in NodesOf(doc) /\ p[1].col < p[2].col /\ f[p] = Gapped(p[1], p[2], 8)
      OBVIOUS
    <3>2. QED
      BY <3>1, GappedIs
  <2> HIDE DEF f, S
  <2>4. QED
    BY <2>1, <2>2, <2>3, GapsFrom
<1>4. ASSUME NEW D, D \subseteq Direct(doc), NEW f, DOMAIN f = D, f = [e \in D |-> f[e]],
             NEW c, \A e \in D : c[e] \in Int /\ f[e] = Gapped(Outwards(doc, e)[1], Outwards(doc, e)[2], c[e])
      PROVE  GapsOk({f[e] : e \in D})
  <2>1. IsFiniteSet(D)
    <3>1. Direct(doc) \subseteq Edges(doc)
      BY DEF Direct
    <3>2. QED
      BY <1>4, <3>1, DocumentHolds, FS_Subset
  <2>2. ASSUME NEW e \in D PROVE GapOk(f[e])
    <3>1. /\ Outwards(doc, e)[1] \in NodesOf(doc) /\ Outwards(doc, e)[2] \in NodesOf(doc)
          /\ Outwards(doc, e)[1].col < Outwards(doc, e)[2].col
      BY <1>4, OutwardsAre
    <3>2. c[e] \in Int /\ f[e] = Gapped(Outwards(doc, e)[1], Outwards(doc, e)[2], c[e])
      BY <1>4
    <3>3. QED
      BY <3>1, <3>2, GappedIs
  <2>3. QED
    BY <1>4, <2>1, <2>2, GapsFrom
<1>5. GapsOk(DirectGaps(doc))
  <2> DEFINE f == [e \in Direct(doc) |-> Gapped(Outwards(doc, e)[1], Outwards(doc, e)[2], 28)]   c == [e \in Direct(doc) |-> 28]
  <2>1. /\ DirectGaps(doc) = {f[e] : e \in Direct(doc)} /\ DOMAIN f = Direct(doc) /\ f = [e \in Direct(doc) |-> f[e]]
        /\ \A e \in Direct(doc) : c[e] \in Int /\ f[e] = Gapped(Outwards(doc, e)[1], Outwards(doc, e)[2], c[e])
    BY DEF DirectGaps
  <2> HIDE DEF f, c
  <2>2. QED
    BY <1>4, <2>1
<1>6. GapsOk(LabelGaps(doc))
  <2> DEFINE D == {d \in Direct(doc) : ~ChannelLabel(d)}
             f == [e \in D |-> Gapped(Outwards(doc, e)[1], Outwards(doc, e)[2], LabelClearance(e))]
             c == [e \in D |-> LabelClearance(e)]
  <2>1. LabelGaps(doc) = {f[e] : e \in D} /\ DOMAIN f = D /\ f = [e \in D |-> f[e]] /\ D \subseteq Direct(doc)
    BY DEF LabelGaps
  <2>2. ASSUME NEW e \in D PROVE c[e] \in Int /\ f[e] = Gapped(Outwards(doc, e)[1], Outwards(doc, e)[2], c[e])
    <3>1. e \in Edges(doc)
      BY DEF Direct
    <3>2. e.label \in Nat
      BY <3>1, DocumentHolds
    <3>3. LabelClearance(e) \in Int
      BY <3>2, LabelsAre
    <3>4. QED
      BY <3>3
  <2> HIDE DEF f, c, D
  <2>3. QED
    BY <1>4, <2>1, <2>2
<1>7. ASSUME NEW S, S \subseteq ToSet(doc.phases) \cup ToSet(doc.groups), IsFiniteSet(S), NEW room \in Int, NEW over \in Int
      PROVE  GapsOk(UNION {SpanGap(s, room, over) : s \in S})
  <2> DEFINE f == [s \in S |-> SpanGap(s, room, over)]
  <2>1. {SpanGap(s, room, over) : s \in S} = {f[s] : s \in S} /\ DOMAIN f = S /\ f = [s \in S |-> f[s]]
    OBVIOUS
  <2>2. ASSUME NEW s \in S PROVE GapsOk(f[s])
    <3>1. s.from \in Columns /\ s.to \in Columns /\ s.from <= s.to /\ s.label \in Nat
      BY <1>7, DocumentHolds
    <3>2. GapsOk(SpanGap(s, room, over))
      BY <1>7, <3>1, SpansAre
    <3>3. QED
      BY <3>2
  <2> HIDE DEF f
  <2>3. IsFiniteSet({f[s] : s \in S})
    BY <1>7, <2>1, ImageFinite
  <2>4. GapsOk(UNION {f[s] : s \in S})
    BY <2>2, <2>3, GapsAll
  <2>5. QED
    BY <2>1, <2>4
<1>8. GapsOk(P) /\ GapsOk(Q)
  <2>1. IsFiniteSet(ToSet(doc.phases)) /\ IsFiniteSet(ToSet(doc.groups))
    BY DocumentHolds
  <2>2. GapsOk(P)
    BY <1>7, <2>1
  <2>3. GapsOk(Q)
    BY <1>7, <2>1
  <2>4. QED
    BY <2>2, <2>3
<1>9. Gaps(doc, fb) = (((((A \cup B) \cup NeighbourGaps(doc)) \cup DirectGaps(doc)) \cup LabelGaps(doc)) \cup P) \cup Q
  BY Zenon DEF Gaps, A, B, P, Q
<1> HIDE DEF A, B, P, Q
<1>10. GapsOk(A \cup B)
  BY <1>1, <1>2, GapsJoin
<1>11. GapsOk((A \cup B) \cup NeighbourGaps(doc))
  BY <1>3, <1>10, GapsJoin
<1>12. GapsOk(((A \cup B) \cup NeighbourGaps(doc)) \cup DirectGaps(doc))
  BY <1>5, <1>11, GapsJoin
<1>13. GapsOk((((A \cup B) \cup NeighbourGaps(doc)) \cup DirectGaps(doc)) \cup LabelGaps(doc))
  BY <1>6, <1>12, GapsJoin
<1>14. GapsOk(((((A \cup B) \cup NeighbourGaps(doc)) \cup DirectGaps(doc)) \cup LabelGaps(doc)) \cup P)
  BY <1>8, <1>13, GapsJoin
<1>15. QED
  BY <1>8, <1>9, <1>14, GapsJoin

-----------------------------------------------------------------------------
(* Columns, moved to the right                                              *)

\* Finite sets of integers.
Ints(S) == IsFiniteSet(S) /\ S \subseteq Int

LEMMA IntsJoin ==
  ASSUME NEW A, Ints(A), NEW B, Ints(B) PROVE Ints(A \cup B)
BY FS_Union DEF Ints

LEMMA IntsOne ==
  ASSUME NEW a \in Int PROVE Ints({a})
BY FS_Singleton DEF Ints

LEMMA IntsFrom ==
  ASSUME NEW S, IsFiniteSet(S), NEW f, DOMAIN f = S, f = [x \in S |-> f[x]], \A x \in S : f[x] \in Int
  PROVE  Ints({f[x] : x \in S})
<1>1. IsFiniteSet({f[x] : x \in S})
  BY ImageFinite
<1>2. QED
  BY <1>1 DEF Ints

LEMMA MostIs ==
  ASSUME NEW a \in Int, NEW S, Ints(S)
  PROVE  /\ Largest({a} \cup S) \in Int /\ Largest({a} \cup S) >= a /\ \A b \in S : Largest({a} \cup S) >= b
         /\ Least({a} \cup S) \in Int /\ Least({a} \cup S) <= a /\ \A b \in S : Least({a} \cup S) <= b
         /\ Least({a} \cup S) = a \/ Least({a} \cup S) \in S
<1>1. Ints({a} \cup S)
  BY IntsOne, IntsJoin
<1> DEFINE T == {a} \cup S
<1>2. \A b : b \in T <=> b = a \/ b \in S
  OBVIOUS
<1>3. IsFiniteSet(T) /\ T # {} /\ T \subseteq Int
  BY <1>1 DEF Ints
<1> HIDE DEF T
<1>4. /\ Largest(T) \in Int /\ Least(T) \in T /\ Least(T) \in Int
      /\ \A b \in T : b <= Largest(T) /\ Least(T) <= b
  BY <1>3, EndsOf
<1>5. \A b \in T : b \in Int
  BY <1>3
<1>6. \A b \in T : Largest(T) >= b /\ Least(T) <= b
  BY <1>4, <1>5
<1>7. QED
  BY <1>2, <1>4, <1>6 DEF T

LEMMA MostOf ==
  ASSUME NEW a \in Int, NEW S, Ints(S) PROVE Largest({a} \cup S) \in Int /\ Largest({a} \cup S) >= a
BY MostIs

LEMMA Halved ==
  ASSUME NEW a \in Int PROVE a \div 2 \in Int /\ a \div 10 \in Int
OBVIOUS

LEMMA TextIs ==
  ASSUME NEW units \in Int, NEW tenths \in Int PROVE TextWidth(units, tenths) \in Int
<1>1. units * tenths \in Int
  OBVIOUS
<1>2. QED
  BY <1>1, Halved DEF TextWidth

LEMMA HeadingIs ==
  ASSUME NEW doc, IsDocument(doc), NEW id \in {l.id : l \in ToSet(doc.lanes)}
  PROVE  LaneIndex(doc, id) \in DOMAIN doc.lanes /\ Heading(doc, LaneIndex(doc, id)) \in Int
<1>1. \E i \in DOMAIN doc.lanes : doc.lanes[i].id = id
  BY DEF ToSet
<1>2. LaneIndex(doc, id) \in DOMAIN doc.lanes
  BY <1>1 DEF LaneIndex
<1>3. \A l \in ToSet(doc.lanes) : l.label \in Nat
  BY DEF IsDocument
<1>4. doc.lanes[LaneIndex(doc, id)].label \in Nat
  BY <1>2, <1>3 DEF ToSet
<1>5. QED
  BY <1>2, <1>4 DEF Heading

\* Columns, and columns as far apart as others.
Rails(xs) == xs = [c \in Columns |-> xs[c]] /\ \A c \in Columns : xs[c] \in Int
Alike(ys, xs) == \A c, d \in Columns : ys[c] - ys[d] = xs[c] - xs[d]

LEMMA ShiftedIs ==
  ASSUME NEW xs, Rails(xs), NEW by \in Int PROVE Rails(Shifted(xs, by)) /\ Alike(Shifted(xs, by), xs)
<1>1. \A c \in Columns : Shifted(xs, by)[c] = xs[c] + by /\ xs[c] \in Int
  BY DEF Shifted, Rails
<1>2. Shifted(xs, by) = [c \in Columns |-> Shifted(xs, by)[c]]
  BY DEF Shifted
<1>3. \A c \in Columns : Shifted(xs, by)[c] \in Int
  BY <1>1
<1>4. \A c, d \in Columns : Shifted(xs, by)[c] - Shifted(xs, by)[d] = xs[c] - xs[d]
  BY <1>1
<1>5. QED
  BY <1>2, <1>3, <1>4 DEF Rails, Alike

LEMMA FirstRankIs ==
  ASSUME NEW doc, IsDocument(doc), NEW xs, Rails(xs)
  PROVE  \E by \in Int : /\ ForFirstRank(doc, xs) = Shifted(xs, by)
                         /\ \A n \in NodesOf(doc) : n.col = 0 => xs[0] + by >= 48 + n.width \div 2
<1> DEFINE S == {m \in NodesOf(doc) : m.col = 0}
           f == [n \in S |-> n.width \div 2]
           wide == Largest({46} \cup {f[n] : n \in S})
<1>1. IsFiniteSet(S)
  <2>1. IsFiniteSet(NodesOf(doc)) /\ S \subseteq NodesOf(doc)
    BY DocumentHolds
  <2> HIDE DEF S
  <2>2. QED
    BY <2>1, FS_Subset
<1>2. \A n \in S : f[n] \in Int
  BY DocumentHolds, Halved
<1>3. DOMAIN f = S /\ f = [n \in S |-> f[n]] /\ {f[n] : n \in S} = {n.width \div 2 : n \in S}
  OBVIOUS
<1>4. ForFirstRank(doc, xs) = Shifted(xs, Largest({0, 48 - xs[0] + wide}))
  BY DEF ForFirstRank
<1>5. \A n \in NodesOf(doc) : n.col = 0 => n \in S /\ f[n] = n.width \div 2
  OBVIOUS
<1> HIDE DEF f, S
<1>6. wide \in Int /\ \A n \in S : wide >= f[n]
  <2> DEFINE W == {f[n] : n \in S}
  <2>1. Ints(W)
    BY <1>1, <1>2, <1>3, IntsFrom
  <2>2. \A n \in S : f[n] \in W
    OBVIOUS
  <2> HIDE DEF W
  <2>3. 46 \in Int
    OBVIOUS
  <2>4. Largest({46} \cup W) \in Int /\ \A b \in W : Largest({46} \cup W) >= b
    BY <2>1, <2>3, MostIs
  <2>5. QED
    BY <2>2, <2>4 DEF W
<1> HIDE DEF wide
<1>7. /\ Largest({0, 48 - xs[0] + wide}) \in Int /\ xs[0] \in Int
      /\ Largest({0, 48 - xs[0] + wide}) >= 48 - xs[0] + wide
  <2>1. xs[0] \in Int
    BY DEF Rails, Columns
  <2>2. 0 \in Int /\ 48 - xs[0] + wide \in Int
    BY <1>6, <2>1
  <2>3. \A m, n \in Int : Largest({m, n}) \in Int /\ Largest({m, n}) >= n
    BY LeastOfTwo
  <2>4. QED
    BY <2>1, <2>2, <2>3
<1> DEFINE by == Largest({0, 48 - xs[0] + wide})
<1>8. \A n \in NodesOf(doc) : n.col = 0 => xs[0] + by >= 48 + n.width \div 2
  <2> HIDE DEF by
  <2>1. by \in Int /\ xs[0] \in Int /\ by >= 48 - xs[0] + wide
    BY <1>7 DEF by
  <2>2. ASSUME NEW n \in NodesOf(doc), n.col = 0 PROVE xs[0] + by >= 48 + n.width \div 2
    <3>1. n \in S /\ f[n] = n.width \div 2
      BY <1>5, <2>2
    <3>2. wide >= f[n] /\ f[n] \in Int /\ wide \in Int
      BY <1>2, <1>6, <3>1
    <3>3. xs[0] + by >= 48 + f[n]
      BY <2>1, <3>2
    <3>4. QED
      BY <3>1, <3>3
  <2>3. QED
    BY <2>2
<1>9. QED
  BY <1>4, <1>7, <1>8

LEMMA HeadingsAre ==
  ASSUME NEW doc, IsDocument(doc), NEW xs, Rails(xs) PROVE \E by \in Nat : ForHeadings(doc, xs) = Shifted(xs, by)
<1> DEFINE S == {NodeOf(doc, e.from) : e \in {d \in Edges(doc) : d.pinned # "x" /\ d.fromSide = "top"}}
                \cup {NodeOf(doc, e.to) : e \in {d \in Edges(doc) : d.pinned # "x" /\ d.toSide = "top"}}
           f == [n \in S |-> laneX + 14 + TextWidth(Heading(doc, LaneIndex(doc, n.lane)), 62) + 2 - xs[n.col]]
<1>1. S \subseteq NodesOf(doc)
  <2>1. \A e \in Edges(doc) : e.from \in IdsOf(doc) /\ e.to \in IdsOf(doc)
    BY DocumentHolds
  <2>2. \A id \in IdsOf(doc) : NodeOf(doc, id) \in NodesOf(doc)
    BY NodeAt
  <2>3. QED
    BY <2>1, <2>2
<1>2. ForHeadings(doc, xs) = Shifted(xs, Largest({0} \cup {f[n] : n \in S}))
  <2>1. {f[n] : n \in S} = {laneX + 14 + TextWidth(Heading(doc, LaneIndex(doc, n.lane)), 62) + 2 - xs[n.col] : n \in S}
    OBVIOUS
  <2>2. ForHeadings(doc, xs) =
          Shifted(xs, Largest({0} \cup {laneX + 14 + TextWidth(Heading(doc, LaneIndex(doc, n.lane)), 62) + 2 - xs[n.col] : n \in S}))
    BY Zenon DEF ForHeadings, S
  <2> HIDE DEF f
  <2>3. QED
    BY <2>1, <2>2
<1>3. DOMAIN f = S /\ f = [n \in S |-> f[n]] /\ \A n \in S : f[n] = laneX + 14 + TextWidth(Heading(doc, LaneIndex(doc, n.lane)), 62) + 2 - xs[n.col]
  OBVIOUS
<1> HIDE DEF f, S
<1>4. \A n \in S : f[n] \in Int
  <2>1. ASSUME NEW n \in S PROVE f[n] \in Int
    <3>1. n.lane \in {l.id : l \in ToSet(doc.lanes)} /\ n.col \in Columns
      BY <1>1, DocumentHolds
    <3>2. Heading(doc, LaneIndex(doc, n.lane)) \in Int
      BY <3>1, HeadingIs
    <3>3. TextWidth(Heading(doc, LaneIndex(doc, n.lane)), 62) \in Int
      BY <3>2, TextIs
    <3>4. xs[n.col] \in Int
      BY <3>1 DEF Rails
    <3>5. QED
      BY <1>3, <3>3, <3>4 DEF laneX
  <2>2. QED
    BY <2>1
<1>5. Ints({f[n] : n \in S})
  <2>1. IsFiniteSet(S)
    BY <1>1, DocumentHolds, FS_Subset
  <2>2. QED
    BY <1>3, <1>4, <2>1, IntsFrom
<1>6. Largest({0} \cup {f[n] : n \in S}) \in Nat
  <2>1. Largest({0} \cup {f[n] : n \in S}) \in Int /\ Largest({0} \cup {f[n] : n \in S}) >= 0
    BY <1>5, MostOf
  <2>2. QED
    BY <2>1
<1>7. QED
  BY <1>2, <1>6

LEMMA PhaseLeftIs ==
  ASSUME NEW xs, Rails(xs), NEW p, p.from \in Columns, p.to \in Columns, p.label \in Nat
  PROVE  PhaseLeft(p, xs) \in Int
<1>1. xs[p.from] \in Int /\ xs[p.to] \in Int
  BY DEF Rails
<1>2. TextWidth(p.label, 56) + 8 \in Int /\ xs[p.to] - xs[p.from] + 92 \in Int
  <2>1. TextWidth(p.label, 56) \in Int
    <3>1. p.label \in Int /\ 56 \in Int
      OBVIOUS
    <3>2. QED
      BY <3>1, TextIs
  <2>2. QED
    BY <1>1, <2>1
<1> DEFINE most == Largest({xs[p.to] - xs[p.from] + 92, TextWidth(p.label, 56) + 8})
<1>3. most \in Int
  <2>1. \A m, n \in Int : Largest({m, n}) \in Int
    BY LeastOfTwo
  <2>2. QED
    BY <1>2, <2>1
<1>4. PhaseLeft(p, xs) = IF p.from = p.to THEN xs[p.from] - 46 ELSE (xs[p.from] + xs[p.to] - most) \div 2
  BY DEF PhaseLeft
<1> HIDE DEF most
<1>5. (xs[p.from] + xs[p.to] - most) \div 2 \in Int
  <2>1. xs[p.from] + xs[p.to] - most \in Int
    BY <1>1, <1>3
  <2>2. QED
    BY <2>1, Halved
<1>6. QED
  BY <1>1, <1>4, <1>5

\* The frame of a group holds its title and the nodes in it.
GroupWidth(g, xs) == Largest({(xs[g.to] + 50) - (xs[g.from] - 50), TextWidth(g.label, 56) + 20})
GroupStart(g, xs) ==
  IF g.from = g.to THEN xs[g.from] - 50 ELSE ((xs[g.from] - 50) + (xs[g.to] + 50) - GroupWidth(g, xs)) \div 2
HeldBy(doc, g) == {n \in NodesOf(doc) : n.lane = g.lane /\ n.col \in g.from..g.to}
LeftOf(xs, n) == xs[n.col] - n.width \div 2 - 4
RightOf(xs, n) == xs[n.col] + n.width \div 2 + 4

LEMMA StartIs ==
  ASSUME NEW xs, Rails(xs), NEW g, g.from \in Columns, g.to \in Columns, g.label \in Nat
  PROVE  /\ GroupWidth(g, xs) \in Int /\ GroupWidth(g, xs) >= TextWidth(g.label, 56) + 20
         /\ GroupStart(g, xs) \in Int /\ TextWidth(g.label, 56) \in Int
<1>1. xs[g.from] \in Int /\ xs[g.to] \in Int
  BY DEF Rails
<1>2. TextWidth(g.label, 56) \in Int
  <2>1. g.label \in Int /\ 56 \in Int
    OBVIOUS
  <2>2. QED
    BY <2>1, TextIs
<1>3. GroupWidth(g, xs) \in Int /\ GroupWidth(g, xs) >= TextWidth(g.label, 56) + 20
  <2>1. (xs[g.to] + 50) - (xs[g.from] - 50) \in Int /\ TextWidth(g.label, 56) + 20 \in Int
    BY <1>1, <1>2
  <2>2. \A m, n \in Int : Largest({m, n}) \in Int /\ Largest({m, n}) >= n
    BY LeastOfTwo
  <2>3. QED
    BY <2>1, <2>2 DEF GroupWidth
<1>4. GroupStart(g, xs) \in Int
  <2>1. (xs[g.from] - 50) + (xs[g.to] + 50) - GroupWidth(g, xs) \in Int
    BY <1>1, <1>3
  <2>2. ((xs[g.from] - 50) + (xs[g.to] + 50) - GroupWidth(g, xs)) \div 2 \in Int
    BY <2>1, Halved
  <2>3. QED
    BY <1>1, <2>2 DEF GroupStart
<1>5. QED
  BY <1>2, <1>3, <1>4

LEMMA BoundsAre ==
  ASSUME NEW doc, IsDocument(doc), NEW xs, Rails(xs), NEW g \in ToSet(doc.groups)
  PROVE  LET b == GroupBounds(doc, g, xs)
         IN  /\ b.left \in Int /\ b.right \in Int /\ b.right - b.left >= TextWidth(g.label, 56) + 20
             /\ \A n \in HeldBy(doc, g) : b.left <= LeftOf(xs, n) /\ b.right >= RightOf(xs, n)
             /\ b.left = GroupStart(g, xs) \/ \E n \in HeldBy(doc, g) : b.left = LeftOf(xs, n)
             /\ b.left <= GroupStart(g, xs)
<1>1. g.from \in Columns /\ g.to \in Columns /\ g.label \in Nat
  BY DocumentHolds
<1> DEFINE S == HeldBy(doc, g)   w == GroupWidth(g, xs)   start == GroupStart(g, xs)
           f == [n \in S |-> LeftOf(xs, n)]   r == [n \in S |-> RightOf(xs, n)]
           F == {f[n] : n \in S}   R == {r[n] : n \in S}
<1>2. w \in Int /\ w >= TextWidth(g.label, 56) + 20 /\ start \in Int /\ TextWidth(g.label, 56) \in Int
  BY <1>1, StartIs
<1>3. GroupBounds(doc, g, xs).left = Least({start} \cup F) /\ GroupBounds(doc, g, xs).right = Largest({start + w} \cup R)
  <2>1. /\ F = {xs[n.col] - n.width \div 2 - 4 : n \in S} /\ R = {xs[n.col] + n.width \div 2 + 4 : n \in S}
    BY DEF LeftOf, RightOf
  <2>2. /\ GroupBounds(doc, g, xs).left = Least({start} \cup {xs[n.col] - n.width \div 2 - 4 : n \in S})
        /\ GroupBounds(doc, g, xs).right = Largest({start + w} \cup {xs[n.col] + n.width \div 2 + 4 : n \in S})
    BY DEF GroupBounds, GroupStart, GroupWidth, HeldBy
  <2> HIDE DEF F, R, S, start, w
  <2>3. QED
    BY <2>1, <2>2
<1>4. /\ S \subseteq NodesOf(doc) /\ DOMAIN f = S /\ f = [n \in S |-> f[n]] /\ DOMAIN r = S /\ r = [n \in S |-> r[n]]
      /\ \A n \in S : f[n] = LeftOf(xs, n) /\ r[n] = RightOf(xs, n) /\ f[n] \in F /\ r[n] \in R
      /\ \A v \in F : \E n \in S : v = f[n]
  BY DEF HeldBy
<1> HIDE DEF f, r, S
<1>5. \A n \in S : f[n] \in Int /\ r[n] \in Int
  <2>1. ASSUME NEW n \in S PROVE f[n] \in Int /\ r[n] \in Int
    <3>1. n.col \in Columns /\ n.width \in Nat
      BY <1>4, DocumentHolds
    <3>2. xs[n.col] \in Int /\ n.width \div 2 \in Int
      BY <3>1, Halved DEF Rails
    <3>3. LeftOf(xs, n) \in Int /\ RightOf(xs, n) \in Int
      <4> DEFINE q == n.width \div 2
      <4> HIDE DEF q
      <4>1. LeftOf(xs, n) = xs[n.col] - q - 4 /\ RightOf(xs, n) = xs[n.col] + q + 4
        BY DEF LeftOf, RightOf, q
      <4>2. q \in Int
        BY <3>2 DEF q
      <4>3. QED
        BY <3>2, <4>1, <4>2
    <3>4. QED
      BY <1>4, <3>3
  <2>2. QED
    BY <2>1
<1>6. Ints(F) /\ Ints(R)
  <2>1. IsFiniteSet(S)
    BY <1>4, DocumentHolds, FS_Subset
  <2>2. QED
    BY <1>4, <1>5, <2>1, IntsFrom
<1> HIDE DEF F, R, start, w
<1>7. /\ Least({start} \cup F) \in Int /\ Least({start} \cup F) <= start /\ \A b \in F : Least({start} \cup F) <= b
      /\ Least({start} \cup F) = start \/ Least({start} \cup F) \in F
  BY <1>2, <1>6, MostIs
<1>8. /\ Largest({start + w} \cup R) \in Int /\ Largest({start + w} \cup R) >= start + w
      /\ \A b \in R : Largest({start + w} \cup R) >= b
  <2>1. start + w \in Int
    BY <1>2
  <2>2. QED
    BY <1>6, <2>1, MostIs
<1>9. \A n \in S : Least({start} \cup F) <= LeftOf(xs, n) /\ Largest({start + w} \cup R) >= RightOf(xs, n)
  BY <1>4, <1>7, <1>8
<1>10. Largest({start + w} \cup R) - Least({start} \cup F) >= TextWidth(g.label, 56) + 20
  BY <1>2, <1>7, <1>8
<1>11. Least({start} \cup F) = start \/ \E n \in S : Least({start} \cup F) = LeftOf(xs, n)
  BY <1>4, <1>7
<1>12. QED
  BY <1>3, <1>7, <1>8, <1>9, <1>10, <1>11 DEF S, start

LEMMA ContentIs ==
  ASSUME NEW doc, IsDocument(doc), NEW xs, Rails(xs)
  PROVE  \E by \in Nat : /\ ForContent(doc, xs) = Shifted(xs, by)
                         /\ \A p \in ToSet(doc.phases) : PhaseLeft(p, xs) + by >= 16
                         /\ \A g \in ToSet(doc.groups) : GroupBounds(doc, g, xs).left + by >= 44
<1> DEFINE D == {d \in Direct(doc) : ChannelLabel(d)}
           P == ToSet(doc.phases)   G == ToSet(doc.groups)
           labels == [e \in D |-> 16 - ((xs[Outwards(doc, e)[1].col] + xs[Outwards(doc, e)[2].col] - workflowLabelWidth(e.label)) \div 2)]
           phases == [p \in P |-> 16 - PhaseLeft(p, xs)]
           groups == [g \in G |-> 44 - GroupBounds(doc, g, xs).left]
<1>1. ForContent(doc, xs) = Shifted(xs, Largest({0} \cup {labels[e] : e \in D} \cup {phases[p] : p \in P} \cup {groups[g] : g \in G}))
  <2>1. /\ {labels[e] : e \in D} = {16 - ((xs[Outwards(doc, e)[1].col] + xs[Outwards(doc, e)[2].col] - workflowLabelWidth(e.label)) \div 2) : e \in D}
        /\ {phases[p] : p \in P} = {16 - PhaseLeft(p, xs) : p \in P}
        /\ {groups[g] : g \in G} = {44 - GroupBounds(doc, g, xs).left : g \in G}
    OBVIOUS
  <2>2. ForContent(doc, xs) = Shifted(xs, Largest({0}
          \cup {16 - ((xs[Outwards(doc, e)[1].col] + xs[Outwards(doc, e)[2].col] - workflowLabelWidth(e.label)) \div 2) : e \in D}
          \cup {16 - PhaseLeft(p, xs) : p \in P} \cup {44 - GroupBounds(doc, g, xs).left : g \in G}))
    BY Zenon DEF ForContent, D, P, G
  <2> HIDE DEF D, P, G, labels, phases, groups
  <2>3. QED
    BY <2>1, <2>2
<1>2. Ints({labels[e] : e \in D})
  <2>1. DOMAIN labels = D /\ labels = [e \in D |-> labels[e]] /\ D \subseteq Direct(doc)
    OBVIOUS
  <2>2. ASSUME NEW e \in D PROVE labels[e] \in Int
    <3>1. /\ Outwards(doc, e)[1] \in NodesOf(doc) /\ Outwards(doc, e)[2] \in NodesOf(doc) /\ e \in Edges(doc)
      BY OutwardsAre
    <3>2. /\ xs[Outwards(doc, e)[1].col] \in Int /\ xs[Outwards(doc, e)[2].col] \in Int /\ e.label \in Nat
      BY <3>1, DocumentHolds DEF Rails
    <3>3. workflowLabelWidth(e.label) \in Int
      BY <3>2, LabelsAre
    <3>4. xs[Outwards(doc, e)[1].col] + xs[Outwards(doc, e)[2].col] - workflowLabelWidth(e.label) \in Int
      BY <3>2, <3>3
    <3>5. (xs[Outwards(doc, e)[1].col] + xs[Outwards(doc, e)[2].col] - workflowLabelWidth(e.label)) \div 2 \in Int
      BY <3>4, Halved
    <3>6. labels[e] = 16 - ((xs[Outwards(doc, e)[1].col] + xs[Outwards(doc, e)[2].col] - workflowLabelWidth(e.label)) \div 2)
      OBVIOUS
    <3> HIDE DEF labels
    <3>7. QED
      BY <3>5, <3>6
  <2> HIDE DEF labels, D
  <2>3. IsFiniteSet(D)
    <3>1. Direct(doc) \subseteq Edges(doc)
      BY DEF Direct
    <3>2. QED
      BY <2>1, <3>1, DocumentHolds, FS_Subset
  <2>4. QED
    BY <2>1, <2>2, <2>3, IntsFrom
<1>3. Ints({phases[p] : p \in P})
  <2>1. DOMAIN phases = P /\ phases = [p \in P |-> phases[p]] /\ \A p \in P : phases[p] = 16 - PhaseLeft(p, xs)
    OBVIOUS
  <2>2. \A p \in P : PhaseLeft(p, xs) \in Int
    BY DocumentHolds, PhaseLeftIs
  <2>3. IsFiniteSet(P)
    BY DocumentHolds
  <2> HIDE DEF phases, P
  <2>4. \A p \in P : phases[p] \in Int
    BY <2>1, <2>2
  <2>5. QED
    BY <2>1, <2>3, <2>4, IntsFrom
<1>4. Ints({groups[g] : g \in G})
  <2>1. DOMAIN groups = G /\ groups = [g \in G |-> groups[g]] /\ \A g \in G : groups[g] = 44 - GroupBounds(doc, g, xs).left
    OBVIOUS
  <2>2. \A g \in G : GroupBounds(doc, g, xs).left \in Int
    BY BoundsAre
  <2>3. IsFiniteSet(G)
    BY DocumentHolds
  <2> HIDE DEF groups, G
  <2>4. \A g \in G : groups[g] \in Int
    BY <2>1, <2>2
  <2>5. QED
    BY <2>1, <2>3, <2>4, IntsFrom
<1>5. /\ P = ToSet(doc.phases) /\ \A p \in P : PhaseLeft(p, xs) \in Int /\ phases[p] = 16 - PhaseLeft(p, xs)
      /\ G = ToSet(doc.groups)
      /\ \A g \in G : GroupBounds(doc, g, xs).left \in Int /\ groups[g] = 44 - GroupBounds(doc, g, xs).left
  <2>1. \A p \in P : PhaseLeft(p, xs) \in Int
    BY DocumentHolds, PhaseLeftIs
  <2>2. \A g \in G : GroupBounds(doc, g, xs).left \in Int
    BY BoundsAre
  <2>3. QED
    BY <2>1, <2>2
<1> HIDE DEF labels, phases, groups, D, P, G
<1> DEFINE L == {labels[e] : e \in D}   M == {phases[p] : p \in P}   N == {groups[g] : g \in G}
           by == Largest({0} \cup L \cup M \cup N)
<1>6. (\A p \in P : phases[p] \in M) /\ (\A g \in G : groups[g] \in N)
  OBVIOUS
<1>7. by \in Int /\ by >= 0 /\ (\A b \in M : by >= b) /\ (\A b \in N : by >= b)
  <2> HIDE DEF L, M, N
  <2>1. Ints(L) /\ Ints(M) /\ Ints(N)
    BY <1>2, <1>3, <1>4 DEF L, M, N
  <2> DEFINE K == (L \cup M) \cup N
  <2>2. Ints(K) /\ 0 \in Int
    <3>1. Ints(L \cup M)
      BY <2>1, IntsJoin
    <3>2. QED
      BY <2>1, <3>1, IntsJoin
  <2>3. {0} \cup L \cup M \cup N = {0} \cup K /\ (\A b \in M : b \in K) /\ (\A b \in N : b \in K)
    OBVIOUS
  <2> HIDE DEF K
  <2>4. Largest({0} \cup K) \in Int /\ Largest({0} \cup K) >= 0 /\ \A b \in K : Largest({0} \cup K) >= b
    BY <2>2, MostIs
  <2>5. QED
    BY <2>3, <2>4
<1>8. ForContent(doc, xs) = Shifted(xs, by)
  BY <1>1 DEF L, M, N
<1> HIDE DEF L, M, N, by
<1>9. ASSUME NEW p \in P PROVE PhaseLeft(p, xs) + by >= 16
  <2>1. by >= 16 - PhaseLeft(p, xs) /\ PhaseLeft(p, xs) \in Int
    BY <1>5, <1>6, <1>7
  <2>2. QED
    BY <1>7, <2>1
<1>10. ASSUME NEW g \in G PROVE GroupBounds(doc, g, xs).left + by >= 44
  <2>1. by >= 44 - GroupBounds(doc, g, xs).left /\ GroupBounds(doc, g, xs).left \in Int
    BY <1>5, <1>6, <1>7
  <2>2. QED
    BY <1>7, <2>1
<1>11. by \in Nat
  BY <1>7
<1>12. QED
  BY <1>5, <1>8, <1>9, <1>10, <1>11

\* The columns of a layout are as far apart as the distances asked for.
LEMMA ColumnsAre ==
  ASSUME NEW doc, IsDocument(doc), NEW fb, FeedbackOk(fb)
  PROVE  /\ Rails(ColumnsOf(doc, fb)) /\ Alike(ColumnsOf(doc, fb), Solve(Gaps(doc, fb)))
         /\ \A g \in Gaps(doc, fb) : ColumnsOf(doc, fb)[g.to] - ColumnsOf(doc, fb)[g.from] >= g.least
<1> DEFINE as == Solve(Gaps(doc, fb))   bs == ForFirstRank(doc, as)   cs == ForHeadings(doc, bs)   ds == ForContent(doc, cs)
<1>1. GapsOk(Gaps(doc, fb))
  BY GapsAre
<1>2. Rails(as) /\ \A g \in Gaps(doc, fb) : as[g.to] - as[g.from] >= g.least
  BY <1>1, Solved DEF Rails
<1>3. ColumnsOf(doc, fb) = ds
  BY DEF ColumnsOf
<1> HIDE DEF as
<1>4. Rails(bs) /\ Alike(bs, as)
  BY <1>2, FirstRankIs, ShiftedIs
<1> HIDE DEF bs
<1>5. Rails(cs) /\ Alike(cs, bs)
  <2>1. PICK by \in Nat : cs = Shifted(bs, by)
    BY <1>4, HeadingsAre
  <2>2. by \in Int
    OBVIOUS
  <2>3. QED
    BY <1>4, <2>1, <2>2, ShiftedIs
<1> HIDE DEF cs
<1>6. Rails(ds) /\ Alike(ds, cs)
  <2>1. PICK by \in Nat : ds = Shifted(cs, by)
    BY <1>5, ContentIs
  <2>2. by \in Int
    OBVIOUS
  <2>3. QED
    BY <1>5, <2>1, <2>2, ShiftedIs
<1> HIDE DEF ds
<1>7. Alike(ds, as)
  BY <1>4, <1>5, <1>6 DEF Alike
<1>8. \A g \in Gaps(doc, fb) : g.to \in Columns /\ g.from \in Columns
  BY <1>1 DEF GapsOk
<1>9. \A g \in Gaps(doc, fb) : ds[g.to] - ds[g.from] >= g.least
  <2>1. ASSUME NEW g \in Gaps(doc, fb) PROVE ds[g.to] - ds[g.from] >= g.least
    <3>1. ds[g.to] - ds[g.from] = as[g.to] - as[g.from]
      BY <1>7, <1>8 DEF Alike
    <3>2. QED
      BY <1>2, <3>1
  <2>2. QED
    BY <2>1
<1>10. QED
  BY <1>3, <1>6, <1>7, <1>9 DEF as

-----------------------------------------------------------------------------
(* Rounds of layout                                                         *)

\* Edges routed one after another.
Placed(doc, layout, sides, ports, s, i) ==
  Placing(s, doc.edges[i], Plans(doc, layout, doc.edges[i], Distinct(<<sides[i]>> \o AllSides), ports[i], ToSet(s.placed)))
Nowhere == [placed |-> <<>>, stuck |-> {}]
Tried(doc, layout, sides, ports, n, g) ==
  g = [i \in 0..n |-> IF i = 0 THEN Nowhere ELSE Placed(doc, layout, sides, ports, g[i - 1], i)]

LEMMA TriesExist ==
  ASSUME NEW doc, NEW layout, NEW sides, NEW ports, NEW N \in Nat PROVE \E g : Tried(doc, layout, sides, ports, N, g)
<1> DEFINE next(s, i) == Placed(doc, layout, sides, ports, s, i)
<1> DEFINE Has(n) == \E g : Tried(doc, layout, sides, ports, n, g)
<1>1. Has(0)
  <2> DEFINE g == [i \in 0..0 |-> Nowhere]
  <2>1. g = [i \in 0..0 |-> IF i = 0 THEN Nowhere ELSE next(g[i - 1], i)]
    OBVIOUS
  <2>2. Tried(doc, layout, sides, ports, 0, g)
    BY <2>1 DEF Tried
  <2>3. QED
    BY <2>2
<1>2. ASSUME NEW n \in 0..N, NEW g, Tried(doc, layout, sides, ports, n, g) PROVE Has(n + 1)
  <2> DEFINE h == [i \in 0..(n + 1) |-> IF i <= n THEN g[i] ELSE next(g[n], n + 1)]
  <2>1. \A i \in 0..n : i \in 0..(n + 1) /\ h[i] = g[i]
    OBVIOUS
  <2>2. \A i \in 0..n : g[i] = IF i = 0 THEN Nowhere ELSE next(g[i - 1], i)
    BY <1>2 DEF Tried
  <2>3. h[n + 1] = next(g[n], n + 1)
    OBVIOUS
  <2>4. h = [i \in 0..(n + 1) |-> h[i]]
    OBVIOUS
  <2> HIDE DEF h
  <2>5. ASSUME NEW i \in 0..(n + 1) PROVE h[i] = IF i = 0 THEN Nowhere ELSE next(h[i - 1], i)
    <3>1. CASE i = 0
      BY <2>1, <2>2, <3>1
    <3>2. CASE i \in 1..n
      <4>1. i - 1 \in 0..n /\ i \in 0..n /\ i # 0
        BY <3>2
      <4>2. QED
        BY <2>1, <2>2, <4>1
    <3>3. CASE i = n + 1
      <4>1. n \in 0..n /\ n + 1 - 1 = n /\ n + 1 # 0
        OBVIOUS
      <4>2. QED
        BY <2>1, <2>3, <3>3, <4>1
    <3>4. QED
      BY <3>1, <3>2, <3>3
  <2>6. h = [i \in 0..(n + 1) |-> IF i = 0 THEN Nowhere ELSE next(h[i - 1], i)]
    BY <2>4, <2>5
  <2>7. QED
    BY <2>6 DEF Tried
<1> DEFINE Some == {n \in 0..N : Has(n)}
<1> HIDE DEF Has
<1>3. 0 \in Some /\ \A n \in 0..N : n \in Some /\ n < N => n + 1 \in Some
  <2>1. ASSUME NEW n \in 0..N, Has(n) PROVE Has(n + 1)
    BY <1>2, <2>1 DEF Has
  <2>2. QED
    BY <1>1, <2>1
<1> HIDE DEF Some
<1>4. N \in Some
  BY <1>3, CountUp
<1>5. QED
  BY <1>4 DEF Some, Has

\* An edge that has no way is one of the document's.
LEMMA StuckIs ==
  ASSUME NEW doc, doc.edges \in Seq(ToSet(doc.edges)), NEW layout PROVE Routes(doc, layout).stuck \subseteq ToSet(doc.edges)
<1> DEFINE sides == [i \in DOMAIN doc.edges |-> edgeSides(doc, layout, doc.edges[i])]
           ports == PortsOf(doc, layout, sides)   N == Len(doc.edges)
<1>1. Routes(doc, layout) = RoutesFrom(doc, layout, sides, ports)
  BY DEF Routes, RoutesBy
<1> HIDE DEF sides, ports
<1>2. N \in Nat /\ DOMAIN doc.edges = 1..N
  OBVIOUS
<1> DEFINE after == CHOOSE g : Tried(doc, layout, sides, ports, N, g)
<1>3. Tried(doc, layout, sides, ports, N, after)
  BY <1>2, TriesExist
<1>4. RoutesFrom(doc, layout, sides, ports) = after[N]
  BY Zenon DEF RoutesFrom, Tried, Placed, Nowhere
<1> HIDE DEF after
<1>5. after[0] = Nowhere /\ \A i \in 1..N : after[i] = Placed(doc, layout, sides, ports, after[i - 1], i)
  <2>1. \A i \in 0..N : after[i] = IF i = 0 THEN Nowhere ELSE Placed(doc, layout, sides, ports, after[i - 1], i)
    BY <1>3 DEF Tried
  <2>2. QED
    BY <1>2, <2>1
<1> DEFINE Held(s) == {"placed", "stuck"} \subseteq DOMAIN s /\ s.stuck \subseteq ToSet(doc.edges)
           Some == {n \in 0..N : Held(after[n])}
<1>6. 0 \in Some
  BY <1>2, <1>5 DEF Nowhere
<1>7. ASSUME NEW n \in 0..N, n \in Some, n < N PROVE n + 1 \in Some
  <2>1. n + 1 \in 1..N /\ n + 1 - 1 = n
    BY <1>2, <1>7
  <2>2. PICK ways : after[n + 1] = Placing(after[n], doc.edges[n + 1], ways)
    <3>1. after[n + 1] = Placed(doc, layout, sides, ports, after[n], n + 1)
      BY <1>5, <2>1
    <3>2. QED
      BY <3>1, Zenon DEF Placed
  <2>3. doc.edges[n + 1] \in ToSet(doc.edges)
    BY <1>2, <2>1 DEF ToSet
  <2>4. ASSUME NEW s, Held(s), NEW e \in ToSet(doc.edges) PROVE Held(Placing(s, e, ways))
    BY <2>4 DEF Placing, Extended
  <2>5. Held(after[n])
    BY <1>7
  <2> HIDE DEF Held
  <2>6. Held(after[n + 1])
    BY <2>2, <2>3, <2>4, <2>5
  <2>7. n + 1 \in 0..N
    BY <2>1
  <2>8. QED
    BY <2>6, <2>7
<1> HIDE DEF Some, N
<1>8. N \in Some
  <2>1. N \in Nat /\ N \in 0..N
    BY <1>2
  <2>2. \A n \in 0..N : n \in Some /\ n < N => n + 1 \in Some
    BY <1>7
  <2> HIDE DEF Held
  <2>3. \A n \in 0..N : n \in Some
    BY <2>1, <1>6, <2>2, CountUp
  <2>4. QED
    BY <2>1, <2>3
<1>9. QED
  BY <1>1, <1>4, <1>8 DEF Some

\* What an edge without a way asks for, and that feedback grants it.
Asks == [kind : {"rank", "lane"}, key : (Columns \X Columns) \cup {<<>>}, least : Int]
NotYet(fb, r) ==
  \/ r.kind = "lane" /\ r.key = <<>> /\ fb.lane < r.least /\ r.least = 32
  \/ /\ r.kind = "rank" /\ r.key \in Columns \X Columns /\ r.key[1] < r.key[2] /\ r.least > 0
     /\ r.key \in DOMAIN fb.rank => fb.rank[r.key] < r.least
Given(fb, r) ==
  \/ r.kind = "lane" /\ r.key = <<>> /\ r.least <= fb.lane
  \/ r.kind = "rank" /\ r.key \in Columns \X Columns /\ r.key \in DOMAIN fb.rank /\ r.least <= fb.rank[r.key]

\* What feedback grants, the layout gives.
LEMMA LayoutGives ==
  ASSUME NEW doc, IsDocument(doc), NEW fb, FeedbackOk(fb)
  PROVE  /\ Rails(Layout(doc, fb).columns)
         /\ \A k \in DOMAIN fb.rank : Layout(doc, fb).columns[k[2]] - Layout(doc, fb).columns[k[1]] >= fb.rank[k]
         /\ Layout(doc, fb).lanes[1].gap \in Int /\ Layout(doc, fb).lanes[1].gap >= fb.lane
         /\ Layout(doc, fb).lanes[1].gap < 32 => fb.lane < 32
<1>1. Layout(doc, fb).columns = ColumnsOf(doc, fb)
  BY DEF Layout
<1>2. ASSUME NEW k \in DOMAIN fb.rank
      PROVE  ColumnsOf(doc, fb)[k[2]] - ColumnsOf(doc, fb)[k[1]] >= fb.rank[k]
  <2> DEFINE g == [from |-> k[1], to |-> k[2], least |-> fb.rank[k]]
  <2>1. g \in {[from |-> j[1], to |-> j[2], least |-> fb.rank[j]] : j \in DOMAIN fb.rank}
    OBVIOUS
  <2>2. g.from = k[1] /\ g.to = k[2] /\ g.least = fb.rank[k]
    OBVIOUS
  <2> HIDE DEF g
  <2>3. g \in Gaps(doc, fb)
    BY <2>1 DEF Gaps
  <2>4. ColumnsOf(doc, fb)[g.to] - ColumnsOf(doc, fb)[g.from] >= g.least
    BY <2>3, ColumnsAre
  <2>5. QED
    BY <2>2, <2>4
<1>3. Layout(doc, fb).lanes[1].gap = Largest({20, fb.lane})
  <2>1. 1 \in DOMAIN doc.lanes
    <3>1. doc.lanes \in Seq(ToSet(doc.lanes)) /\ doc.lanes # <<>>
      BY DEF IsDocument
    <3>2. QED
      BY <3>1
  <2>2. Layout(doc, fb).lanes = [i \in DOMAIN doc.lanes |-> Lane(doc, fb, ColumnsOf(doc, fb), i)]
    BY DEF Layout
  <2>3. Layout(doc, fb).lanes[1] = Lane(doc, fb, ColumnsOf(doc, fb), 1)
    BY <2>1, <2>2
  <2>4. Lane(doc, fb, ColumnsOf(doc, fb), 1).gap = Largest({20, fb.lane})
    BY DEF Lane, LaneGap
  <2>5. QED
    BY <2>3, <2>4
<1>4. 20 \in Int /\ fb.lane \in Int
  BY DEF FeedbackOk
<1>5. \A m, n \in Int : Largest({m, n}) = IF m >= n THEN m ELSE n
  BY LeastOfTwo
<1>6. Largest({20, fb.lane}) = IF 20 >= fb.lane THEN 20 ELSE fb.lane
  BY <1>4, <1>5
<1>7. Rails(ColumnsOf(doc, fb))
  BY ColumnsAre
<1>8. QED
  BY <1>1, <1>2, <1>3, <1>4, <1>6, <1>7

LEMMA BoxesAre ==
  ASSUME NEW doc, IsDocument(doc), NEW fb, NEW id \in IdsOf(doc)
  PROVE  LET b == BoxAt(Layout(doc, fb), id) IN b.col \in Columns /\ b.width \in Nat
<1> DEFINE xs == ColumnsOf(doc, fb)   lanes == [i \in DOMAIN doc.lanes |-> Lane(doc, fb, xs, i)]
<1>1. Layout(doc, fb).boxes = {NodeBox(doc, lanes, xs, n) : n \in NodesOf(doc)}
  BY DEF Layout
<1> HIDE DEF xs, lanes
<1>2. \A n : /\ NodeBox(doc, lanes, xs, n).id = n.id /\ NodeBox(doc, lanes, xs, n).col = n.col
             /\ NodeBox(doc, lanes, xs, n).width = n.width
  BY DEF NodeBox
<1>3. PICK n \in NodesOf(doc) : n.id = id
  BY DEF IdsOf
<1>4. \E b \in Layout(doc, fb).boxes : b.id = id
  BY <1>1, <1>2, <1>3
<1>5. BoxAt(Layout(doc, fb), id) \in Layout(doc, fb).boxes
  BY <1>4, Zenon DEF BoxAt
<1>6. PICK m \in NodesOf(doc) : BoxAt(Layout(doc, fb), id) = NodeBox(doc, lanes, xs, m)
  BY <1>1, <1>5
<1>7. m.col \in Columns /\ m.width \in Nat
  BY DocumentHolds
<1>8. QED
  BY <1>2, <1>6, <1>7

LEMMA RequestIs ==
  ASSUME NEW doc, IsDocument(doc), NEW fb, FeedbackOk(fb), NEW e, e.from \in IdsOf(doc), e.to \in IdsOf(doc),
         NEW r \in Request(Layout(doc, fb), e)
  PROVE  r \in Asks /\ NotYet(fb, r)
<1> DEFINE layout == Layout(doc, fb)   from == BoxAt(layout, e.from)   to == BoxAt(layout, e.to)
           low == Least({from.col, to.col})   high == Largest({from.col, to.col})
           least == (from.width + to.width) \div 2 + 32
<1>1. from.col \in Columns /\ to.col \in Columns /\ from.width \in Nat /\ to.width \in Nat
  BY BoxesAre
<1>2. \/ /\ from.col # to.col /\ layout.columns[high] - layout.columns[low] < least
         /\ r = [kind |-> "rank", key |-> <<low, high>>, least |-> least]
      \/ layout.lanes[1].gap < 32 /\ r = [kind |-> "lane", key |-> <<>>, least |-> 32]
  BY DEF Request
<1> HIDE DEF layout, from, to
<1>3. CASE layout.lanes[1].gap < 32 /\ r = [kind |-> "lane", key |-> <<>>, least |-> 32]
  <2>1. fb.lane < 32
    BY <1>3, LayoutGives DEF layout
  <2>2. QED
    BY <1>3, <2>1 DEF Asks, NotYet
<1>4. CASE /\ from.col # to.col /\ layout.columns[high] - layout.columns[low] < least
           /\ r = [kind |-> "rank", key |-> <<low, high>>, least |-> least]
  <2>1. low \in Columns /\ high \in Columns /\ low < high
    <3>1. from.col \in Int /\ to.col \in Int
      BY <1>1 DEF Columns
    <3>2. /\ low = IF from.col <= to.col THEN from.col ELSE to.col
          /\ high = IF from.col >= to.col THEN from.col ELSE to.col
      BY <3>1, LeastOfTwo
    <3> HIDE DEF low, high
    <3>3. QED
      BY <1>1, <1>4, <3>1, <3>2
  <2> HIDE DEF low, high
  <2>2. least \in Int /\ least > 0
    <3>1. from.width + to.width \in Nat
      BY <1>1
    <3>2. \A a \in Nat : a \div 2 \in Nat
      OBVIOUS
    <3>3. (from.width + to.width) \div 2 \in Nat
      BY <3>1, <3>2
    <3>4. QED
      BY <3>3
  <2> HIDE DEF least
  <2>3. <<low, high>> \in DOMAIN fb.rank => fb.rank[<<low, high>>] < least
    <3>1. SUFFICES ASSUME <<low, high>> \in DOMAIN fb.rank PROVE fb.rank[<<low, high>>] < least
      OBVIOUS
    <3>2. layout.columns[high] - layout.columns[low] >= fb.rank[<<low, high>>]
      <4>1. \A k \in DOMAIN fb.rank : layout.columns[k[2]] - layout.columns[k[1]] >= fb.rank[k]
        BY LayoutGives DEF layout
      <4>2. QED
        BY <3>1, <4>1
    <3>3. fb.rank[<<low, high>>] \in Int
      BY <3>1 DEF FeedbackOk
    <3>4. layout.columns[high] - layout.columns[low] \in Int
      <4>1. Rails(layout.columns)
        BY LayoutGives DEF layout
      <4>2. QED
        BY <2>1, <4>1 DEF Rails
    <3>5. QED
      BY <1>4, <2>2, <3>2, <3>3, <3>4
  <2>4. r.kind = "rank" /\ r.key = <<low, high>> /\ r.least = least
    BY <1>4
  <2>5. r \in Asks
    BY <1>4, <2>1, <2>2 DEF Asks
  <2>6. r.key \in Columns \X Columns /\ r.key[1] < r.key[2]
    BY <2>1, <2>4
  <2>7. QED
    BY <2>2, <2>3, <2>4, <2>5, <2>6 DEF NotYet
<1>5. QED
  BY <1>2, <1>3, <1>4

\* Feedback that has what no round gave before.
LEMMA GrantedIs ==
  ASSUME FeedbackOk(feedback), NEW r \in Asks, NotYet(feedback, r)
  PROVE  /\ FeedbackOk(Granted(r)) /\ Given(Granted(r), r) /\ ~(r.least <= SoFar(r))
         /\ \A s \in Asks : Given(feedback, s) => Given(Granted(r), s) /\ (s.key = r.key => s.least < r.least)
<1>1. /\ {"lane", "rank"} \subseteq DOMAIN feedback /\ feedback.lane \in Nat /\ IsFiniteSet(DOMAIN feedback.rank)
      /\ \A k \in DOMAIN feedback.rank :
           k[1] \in Columns /\ k[2] \in Columns /\ k[1] < k[2] /\ feedback.rank[k] \in Int
  BY DEF FeedbackOk
<1>2. r.least \in Int /\ \A s \in Asks : s.least \in Int /\ s.kind \in {"rank", "lane"}
  BY DEF Asks
<1>3. \A k \in Columns \X Columns : k # <<>>
  OBVIOUS
<1>4. CASE r.kind = "lane"
  <2>1. r.key = <<>> /\ feedback.lane < r.least /\ r.least = 32
    BY <1>4 DEF NotYet
  <2>2. Granted(r).lane = r.least /\ Granted(r).rank = feedback.rank /\ {"lane", "rank"} \subseteq DOMAIN Granted(r)
    BY <1>1, <1>4 DEF Granted
  <2>3. FeedbackOk(Granted(r))
    BY <1>1, <2>1, <2>2 DEF FeedbackOk
  <2>4. Given(Granted(r), r) /\ ~(r.least <= SoFar(r))
    BY <1>1, <1>4, <2>1, <2>2 DEF Given, SoFar
  <2>5. ASSUME NEW s \in Asks, Given(feedback, s) PROVE Given(Granted(r), s) /\ (s.key = r.key => s.least < r.least)
    <3>1. CASE s.kind = "lane" /\ s.key = <<>> /\ s.least <= feedback.lane
      BY <1>1, <1>2, <2>1, <2>2, <3>1 DEF Given
    <3>2. CASE /\ s.kind = "rank" /\ s.key \in Columns \X Columns /\ s.key \in DOMAIN feedback.rank
               /\ s.least <= feedback.rank[s.key]
      BY <1>3, <2>1, <2>2, <3>2 DEF Given
    <3>3. QED
      BY <2>5, <3>1, <3>2 DEF Given
  <2>6. QED
    BY <2>3, <2>4, <2>5
<1>5. CASE r.kind = "rank"
  <2>1. /\ r.key \in Columns \X Columns /\ r.key[1] < r.key[2] /\ r.least > 0
        /\ r.key \in DOMAIN feedback.rank => feedback.rank[r.key] < r.least
    BY <1>5 DEF NotYet
  <2>2. /\ Granted(r).lane = feedback.lane /\ {"lane", "rank"} \subseteq DOMAIN Granted(r)
        /\ Granted(r).rank = [k \in DOMAIN feedback.rank \cup {r.key} |-> IF k = r.key THEN r.least ELSE feedback.rank[k]]
    BY <1>1, <1>5 DEF Granted
  <2>3. DOMAIN Granted(r).rank = DOMAIN feedback.rank \cup {r.key} /\ Granted(r).rank[r.key] = r.least
    BY <2>2
  <2>4. \A k \in DOMAIN feedback.rank : k # r.key => Granted(r).rank[k] = feedback.rank[k]
    BY <2>2
  <2>5. FeedbackOk(Granted(r))
    <3>1. IsFiniteSet(DOMAIN feedback.rank \cup {r.key})
      BY <1>1, FS_AddElement
    <3>2. r.key[1] \in Columns /\ r.key[2] \in Columns
      BY <2>1
    <3>3. \A k \in DOMAIN Granted(r).rank :
            k[1] \in Columns /\ k[2] \in Columns /\ k[1] < k[2] /\ Granted(r).rank[k] \in Int
      BY <1>1, <1>2, <2>1, <2>3, <2>4, <3>2
    <3>4. QED
      BY <1>1, <2>2, <2>3, <3>1, <3>3 DEF FeedbackOk
  <2>6. Given(Granted(r), r)
    BY <1>2, <1>5, <2>1, <2>3 DEF Given
  <2>7. ~(r.least <= SoFar(r))
    BY <1>1, <1>2, <1>5, <2>1 DEF SoFar
  <2>8. ASSUME NEW s \in Asks, Given(feedback, s) PROVE Given(Granted(r), s) /\ (s.key = r.key => s.least < r.least)
    <3>1. CASE s.kind = "lane" /\ s.key = <<>> /\ s.least <= feedback.lane
      BY <1>3, <2>1, <2>2, <3>1 DEF Given
    <3>2. CASE /\ s.kind = "rank" /\ s.key \in Columns \X Columns /\ s.key \in DOMAIN feedback.rank
               /\ s.least <= feedback.rank[s.key]
      <4>1. s.key = r.key => s.least < r.least
        BY <1>1, <1>2, <2>1, <3>2
      <4>2. s.key \in DOMAIN Granted(r).rank /\ s.least <= Granted(r).rank[s.key]
        BY <1>1, <1>2, <2>3, <2>4, <3>2, <4>1
      <4>3. QED
        BY <3>2, <4>1, <4>2 DEF Given
    <3>3. QED
      BY <2>8, <3>1, <3>2 DEF Given
  <2>9. QED
    BY <2>5, <2>6, <2>7, <2>8
<1>6. QED
  BY <1>2, <1>4, <1>5

\* The rounds so far: feedback gives all that was asked, each more than what was asked
\* before, and what is made is laid out with it.
RoundsInv ==
  /\ work \in Documents /\ FeedbackOk(feedback) /\ asked \in Seq(Asks)
  /\ \A i \in DOMAIN asked : Given(feedback, asked[i])
  /\ \A i, j \in DOMAIN asked : i < j /\ asked[i].key = asked[j].key => asked[i].least < asked[j].least
  /\ made # <<>> => /\ made.code # "no-progress"
                    /\ made.code = "ok" => /\ work.what \in {"routes", "layout"}
                                           /\ made.layout = Layout(canonicalReadableWorkflow(work.doc), feedback)

LEMMA CanonicalIsDocument ==
  ASSUME NEW doc, IsDocument(doc)
  PROVE  LET out == canonicalReadableWorkflow(doc)
         IN  /\ IsDocument(out) /\ IdsOf(out) = IdsOf(doc) /\ Edges(out) = Edges(doc)
             /\ out.edges \in Seq(ToSet(out.edges)) /\ ToSet(out.edges) = ToSet(doc.edges)
<1> DEFINE out == canonicalReadableWorkflow(doc)
<1>1. /\ out.lanes = doc.lanes /\ out.checks = doc.checks /\ DOMAIN out = DOMAIN doc
      /\ out.nodes \in Seq(ToSet(doc.nodes)) /\ ToSet(out.nodes) = ToSet(doc.nodes)
      /\ out.edges \in Seq(ToSet(doc.edges)) /\ ToSet(out.edges) = ToSet(doc.edges)
      /\ out.phases \in Seq(ToSet(doc.phases)) /\ ToSet(out.phases) = ToSet(doc.phases)
      /\ out.groups \in Seq(ToSet(doc.groups)) /\ ToSet(out.groups) = ToSet(doc.groups)
  BY CanonicalHolds
<1> HIDE DEF out
<1>2. \A items \in {out.lanes, out.nodes, out.edges, out.phases, out.groups} : items \in Seq(ToSet(items))
  <2>1. doc.lanes \in Seq(ToSet(doc.lanes))
    BY DEF IsDocument
  <2>2. QED
    BY <1>1, <2>1
<1>3. /\ {"lanes", "nodes", "edges", "phases", "groups", "checks"} \subseteq DOMAIN out
      /\ out.lanes # <<>> /\ IsContract(out.checks)
      /\ \A l \in ToSet(out.lanes) : l.label \in Nat
  BY <1>1 DEF IsDocument
<1>4. /\ \A n \in ToSet(out.nodes) : /\ n.id \in Int /\ n.lane \in {l.id : l \in ToSet(out.lanes)} /\ n.col \in Columns
                                     /\ n.width \in Nat /\ n.height \in Nat /\ n.offset \in Int
      /\ \A g \in ToSet(out.groups) : g.lane \in {l.id : l \in ToSet(out.lanes)}
  BY <1>1, Zenon DEF IsDocument
<1>5. /\ \A e \in ToSet(out.edges) : e.id \in Int /\ e.from \in Int /\ e.to \in Int /\ e.label \in Nat
      /\ \A e, f \in ToSet(out.edges) :
           <<e.id, e.from, e.to, e.label>> = <<f.id, f.from, f.to, f.label>> => e = f
  BY <1>1, Zenon DEF IsDocument
<1>6. /\ Spans(out.phases) /\ Spans(out.groups)
      /\ Distinguished(out.nodes) /\ Distinguished(out.phases) /\ Distinguished(out.groups)
  <2>1. /\ Spans(doc.phases) /\ Spans(doc.groups)
        /\ Distinguished(doc.nodes) /\ Distinguished(doc.phases) /\ Distinguished(doc.groups)
    BY Zenon DEF IsDocument
  <2>2. QED
    BY <1>1, <2>1, Zenon DEF Spans, Distinguished
<1>7. IsDocument(out)
  BY <1>2, <1>3, <1>4, <1>5, <1>6, Zenon DEF IsDocument
<1>8. NodesOf(out) = NodesOf(doc)
  BY <1>1 DEF NodesOf
<1>9. IdsOf(out) = IdsOf(doc) /\ Edges(out) = Edges(doc)
  BY <1>1, <1>8, Zenon DEF IdsOf, Edges
<1>10. QED
  BY <1>1, <1>7, <1>9 DEF out

\* A turn of the loop keeps the rounds.
LEMMA TurnKeeps ==
  ASSUME RoundsInv, made = <<>>, UNCHANGED work, work.what \in {"routes", "layout"}, NEW doc, doc = canonicalReadableWorkflow(work.doc),
         NEW routes, NEW stuck, \A e \in stuck : e.from \in IdsOf(doc) /\ e.to \in IdsOf(doc),
         Turn(doc, Layout(doc, feedback), routes, stuck)
  PROVE  RoundsInv'
<1> DEFINE layout == Layout(doc, feedback)
<1>1. IsDocument(work.doc)
  BY DocumentsAssumption DEF RoundsInv
<1>2. IsDocument(doc)
  BY <1>1, CanonicalIsDocument
<1>3. ASSUME NEW e \in stuck, NEW r \in Request(layout, e) PROVE r \in Asks /\ NotYet(feedback, r)
  BY <1>2, RequestIs DEF RoundsInv
<1>4. \A e \in stuck : \A r \in Request(layout, e) : ~(r.least <= SoFar(r))
  BY <1>3, GrantedIs DEF RoundsInv
<1>5. CASE UNCHANGED <<feedback, round, asked>> /\ made' = [code |-> "ok", layout |-> layout, routes |-> routes]
  BY <1>5 DEF RoundsInv
<1>6. CASE UNCHANGED <<feedback, round, asked>> /\ made' \in {[code |-> "no-route"], [code |-> "no-rounds-left"]}
  BY <1>6 DEF RoundsInv
<1>7. ASSUME NEW e \in stuck, NEW r \in Request(layout, e),
             feedback' = Granted(r), asked' = Append(asked, r), UNCHANGED made
      PROVE  RoundsInv'
  <2>1. /\ r \in Asks /\ FeedbackOk(Granted(r)) /\ Given(Granted(r), r)
        /\ \A s \in Asks : Given(feedback, s) => Given(Granted(r), s) /\ (s.key = r.key => s.least < r.least)
    BY <1>3, GrantedIs DEF RoundsInv
  <2>2. /\ asked \in Seq(Asks) /\ \A i \in DOMAIN asked : Given(feedback, asked[i])
        /\ \A i, j \in DOMAIN asked : i < j /\ asked[i].key = asked[j].key => asked[i].least < asked[j].least
    BY DEF RoundsInv
  <2> DEFINE n == Len(asked)
  <2>3. /\ n \in Nat /\ DOMAIN asked = 1..n /\ \A i \in 1..n : asked[i] \in Asks
        /\ asked' \in Seq(Asks) /\ DOMAIN asked' = 1..(n + 1) /\ asked'[n + 1] = r
        /\ \A i \in 1..n : asked'[i] = asked[i]
    BY <1>7, <2>1, <2>2
  <2> HIDE DEF n
  <2>4. \A i \in 1..(n + 1) : i \in 1..n \/ i = n + 1
    BY <2>3
  <2>5. \A i \in DOMAIN asked' : Given(feedback', asked'[i])
    BY <1>7, <2>1, <2>2, <2>3, <2>4
  <2>6. ASSUME NEW i \in DOMAIN asked', NEW j \in DOMAIN asked', i < j, asked'[i].key = asked'[j].key
        PROVE  asked'[i].least < asked'[j].least
    <3>1. i \in 1..n
      BY <2>3, <2>6
    <3>2. CASE j \in 1..n
      BY <2>2, <2>3, <2>6, <3>1, <3>2
    <3>3. CASE j = n + 1
      BY <2>1, <2>2, <2>3, <2>6, <3>1, <3>3
    <3>4. QED
      BY <2>3, <2>4, <3>2, <3>3
  <2>7. made' = <<>>
    BY <1>7
  <2>8. QED
    BY <1>7, <2>1, <2>3, <2>5, <2>6, <2>7 DEF RoundsInv
<1>8. QED
  <2>1. \/ UNCHANGED <<feedback, round, asked>> /\ made' = [code |-> "ok", layout |-> layout, routes |-> routes]
        \/ UNCHANGED <<feedback, round, asked>> /\ made' \in {[code |-> "no-route"], [code |-> "no-rounds-left"]}
        \/ \E e \in stuck : \E r \in Request(layout, e) : r.least <= SoFar(r)
        \/ \E e \in stuck : \E r \in Request(layout, e) :
             feedback' = Granted(r) /\ asked' = Append(asked, r) /\ UNCHANGED made
    BY TurnIs
  <2>2. QED
    BY <1>4, <1>5, <1>6, <1>7, <2>1

LEMMA RoundsHold == CompilerSpec => []RoundsInv
<1>1. CompilerInit => RoundsInv
  <2> SUFFICES ASSUME CompilerInit PROVE RoundsInv
    OBVIOUS
  <2>1. FeedbackOk(NoFeedback)
    <3>1. DOMAIN NoFeedback.rank = {} /\ NoFeedback.lane = 0 /\ {"lane", "rank"} \subseteq DOMAIN NoFeedback
      BY DEF NoFeedback
    <3>2. QED
      BY <3>1, FS_EmptySet DEF FeedbackOk
  <2>2. QED
    BY <2>1 DEF CompilerInit, RoundsInv
<1>2. RoundsInv /\ [CompilerNext]_compilerVars => RoundsInv'
  <2> SUFFICES ASSUME RoundsInv, [CompilerNext]_compilerVars PROVE RoundsInv'
    OBVIOUS
  <2>1. CASE Compile
    <3>1. PICK doc : /\ doc = canonicalReadableWorkflow(work.doc)
                     /\ Turn(doc, Layout(doc, feedback), Routes(doc, Layout(doc, feedback)).placed,
                             Routes(doc, Layout(doc, feedback)).stuck)
      BY <2>1, Zenon DEF Compile
    <3>2. work.what = "routes" /\ made = <<>> /\ UNCHANGED work
      BY <2>1 DEF Compile
    <3>3. IsDocument(work.doc) /\ Linked(work.doc)
      BY <3>2, DocumentsAssumption DEF RoundsInv
    <3>4. /\ IdsOf(doc) = IdsOf(work.doc) /\ ToSet(doc.edges) = ToSet(work.doc.edges) /\ doc.edges \in Seq(ToSet(doc.edges))
      BY <3>1, <3>3, CanonicalIsDocument
    <3>5. Routes(doc, Layout(doc, feedback)).stuck \subseteq ToSet(doc.edges)
      BY <3>4, StuckIs
    <3>6. \A e \in ToSet(work.doc.edges) : e.from \in IdsOf(work.doc) /\ e.to \in IdsOf(work.doc)
      BY <3>3 DEF Linked, IdsOf, NodesOf
    <3>7. \A e \in Routes(doc, Layout(doc, feedback)).stuck : e.from \in IdsOf(doc) /\ e.to \in IdsOf(doc)
      BY <3>4, <3>5, <3>6
    <3>8. QED
      BY <3>1, <3>2, <3>7, TurnKeeps
  <2>2. CASE LayOut
    <3>1. PICK doc, stuck : /\ doc = canonicalReadableWorkflow(work.doc) /\ stuck \in {{}} \cup {{e} : e \in Edges(doc)}
                            /\ Turn(doc, Layout(doc, feedback), <<>>, stuck)
      BY <2>2, Zenon DEF LayOut
    <3>2. work.what = "layout" /\ made = <<>> /\ UNCHANGED work
      BY <2>2 DEF LayOut
    <3>3. IsDocument(work.doc)
      BY <3>2, DocumentsAssumption DEF RoundsInv
    <3>4. IsDocument(doc)
      BY <3>1, <3>3, CanonicalIsDocument
    <3>5. \A e \in stuck : e.from \in IdsOf(doc) /\ e.to \in IdsOf(doc)
      <4>1. stuck \subseteq Edges(doc)
        BY <3>1
      <4>2. \A e \in Edges(doc) : e.from \in IdsOf(doc) /\ e.to \in IdsOf(doc)
        BY <3>4, DocumentHolds
      <4>3. QED
        BY <4>1, <4>2
    <3>6. QED
      BY <3>1, <3>2, <3>5, TurnKeeps
  <2>3. CASE CheckContract
    BY <2>3 DEF CheckContract, RoundsInv
  <2>4. CASE Probe
    BY <2>4 DEF Probe, RoundsInv
  <2>5. CASE UNCHANGED compilerVars
    BY <2>5 DEF compilerVars, RoundsInv
  <2>6. QED
    BY <2>1, <2>2, <2>3, <2>4, <2>5 DEF CompilerNext
<1>3. QED
  BY <1>1, <1>2, PTL DEF CompilerSpec

\* The feedback loop, for every document: no round asks for what it was given, so no
\* compilation ends for want of progress, and what is compiled keeps what was asked.
THEOREM RoundsAlwaysProgress == CompilerSpec => []RoundsProgress
<1>1. RoundsInv => RoundsProgress
  <2> SUFFICES ASSUME RoundsInv PROVE RoundsProgress
    OBVIOUS
  <2>1. ~Outcome("no-progress")
    BY DEF RoundsInv, Outcome
  <2>2. \A i, j \in DOMAIN asked : i < j /\ asked[i].key = asked[j].key => asked[i].least < asked[j].least
    BY DEF RoundsInv
  <2>3. ASSUME Outcome("ok"), NEW i \in DOMAIN asked
        PROVE  IF asked[i].kind = "lane" THEN made.layout.lanes[1].gap >= asked[i].least
               ELSE made.layout.columns[asked[i].key[2]] - made.layout.columns[asked[i].key[1]] >= asked[i].least
    <3> DEFINE doc == canonicalReadableWorkflow(work.doc)   layout == Layout(doc, feedback)
    <3>1. work.what \in {"routes", "layout"} /\ made.layout = layout /\ FeedbackOk(feedback) /\ asked[i] \in Asks /\ Given(feedback, asked[i])
      BY <2>3 DEF RoundsInv, Outcome
    <3>2. IsDocument(doc)
      BY <3>1, DocumentsAssumption, CanonicalIsDocument DEF RoundsInv
    <3> HIDE DEF doc
    <3>3. /\ Rails(layout.columns)
          /\ \A k \in DOMAIN feedback.rank : layout.columns[k[2]] - layout.columns[k[1]] >= feedback.rank[k]
          /\ layout.lanes[1].gap \in Int /\ layout.lanes[1].gap >= feedback.lane
      BY <3>1, <3>2, LayoutGives
    <3> HIDE DEF layout
    <3>4. asked[i].least \in Int
      BY <3>1 DEF Asks
    <3>5. CASE asked[i].kind = "lane"
      <4>1. asked[i].least <= feedback.lane /\ feedback.lane \in Int
        BY <3>1, <3>5 DEF Given, FeedbackOk
      <4>2. QED
        BY <3>1, <3>3, <3>4, <3>5, <4>1
    <3>6. CASE asked[i].kind # "lane"
      <4> DEFINE k == asked[i].key
      <4>1. k \in Columns \X Columns /\ k \in DOMAIN feedback.rank /\ asked[i].least <= feedback.rank[k]
        BY <3>1, <3>6 DEF Given
      <4>2. layout.columns[k[2]] - layout.columns[k[1]] >= feedback.rank[k] /\ feedback.rank[k] \in Int
        BY <3>1, <3>3, <4>1 DEF FeedbackOk
      <4>3. layout.columns[k[2]] - layout.columns[k[1]] \in Int
        BY <3>3, <4>1 DEF Rails
      <4> HIDE DEF k
      <4>4. layout.columns[k[2]] - layout.columns[k[1]] >= asked[i].least
        BY <3>4, <4>1, <4>2, <4>3
      <4>5. QED
        BY <3>1, <3>6, <4>4 DEF k
    <3>7. QED
      BY <3>5, <3>6
  <2>4. QED
    BY <2>1, <2>2, <2>3 DEF RoundsProgress
<1>2. QED
  BY <1>1, RoundsHold, PTL

-----------------------------------------------------------------------------
(* Lanes and boxes                                                          *)

LEMMA IntsAll ==
  ASSUME NEW S, IsFiniteSet(S), \A T \in S : Ints(T) PROVE Ints(UNION S)
<1>1. IsFiniteSet(UNION S)
  BY FS_UNION DEF Ints
<1>2. QED
  BY <1>1 DEF Ints

\* What a node takes of the height of its lane.
LEMMA HeightIs ==
  ASSUME NEW doc, IsDocument(doc)
  PROVE  /\ ContentHeight(doc) \in Int
         /\ \A n \in NodesOf(doc) : /\ TopOffset(doc, n) \in Int /\ TopOffset(doc, n) >= 0
                                    /\ TopOffset(doc, n) + n.height <= ContentHeight(doc)
<1> DEFINE N == NodesOf(doc)   f == [n \in N |-> n.height + 2 * Distance(n.offset, 0) + 8]
<1>1. ContentHeight(doc) = Largest({74} \cup {f[n] : n \in N})
  <2>1. {f[n] : n \in N} = {n.height + 2 * Distance(n.offset, 0) + 8 : n \in N}
    OBVIOUS
  <2> HIDE DEF f
  <2>2. QED
    BY <2>1 DEF ContentHeight
<1>2. DOMAIN f = N /\ f = [n \in N |-> f[n]] /\ \A n \in N : f[n] = n.height + 2 * Distance(n.offset, 0) + 8
  OBVIOUS
<1>3. \A n \in N : n.height \in Nat /\ n.offset \in Int /\ Distance(n.offset, 0) \in Int
                   /\ n.offset <= Distance(n.offset, 0) /\ -n.offset <= Distance(n.offset, 0)
  <2>1. ASSUME NEW n \in N
        PROVE  n.height \in Nat /\ n.offset \in Int /\ Distance(n.offset, 0) \in Int
               /\ n.offset <= Distance(n.offset, 0) /\ -n.offset <= Distance(n.offset, 0)
    <3>1. n.height \in Nat /\ n.offset \in Int
      BY DocumentHolds
    <3>2. Distance(n.offset, 0) = IF n.offset - 0 >= 0 - n.offset THEN n.offset - 0 ELSE 0 - n.offset
      <4>1. n.offset - 0 \in Int /\ 0 - n.offset \in Int
        BY <3>1
      <4>2. \A a, b \in Int : Largest({a, b}) = IF a >= b THEN a ELSE b
        BY LeastOfTwo
      <4>3. QED
        BY <4>1, <4>2 DEF Distance
    <3>3. QED
      BY <3>1, <3>2
  <2>2. QED
    BY <2>1
<1> HIDE DEF f
<1>4. \A n \in N : f[n] \in Int
  BY <1>2, <1>3
<1>5. Ints({f[n] : n \in N})
  BY <1>2, <1>4, DocumentHolds, IntsFrom
<1>6. ContentHeight(doc) \in Int /\ \A n \in N : ContentHeight(doc) >= f[n]
  <2> DEFINE S == {f[n] : n \in N}
  <2>1. \A n \in N : f[n] \in S
    OBVIOUS
  <2> HIDE DEF S
  <2>2. 74 \in Int /\ Ints(S)
    BY <1>5 DEF S
  <2>3. Largest({74} \cup S) \in Int /\ \A b \in S : Largest({74} \cup S) >= b
    BY <2>2, MostIs
  <2>4. QED
    BY <1>1, <2>1, <2>3 DEF S
<1>7. ASSUME NEW n \in N
      PROVE  /\ TopOffset(doc, n) \in Int /\ TopOffset(doc, n) >= 0
             /\ TopOffset(doc, n) + n.height <= ContentHeight(doc)
  <2> DEFINE C == ContentHeight(doc)   h == n.height   o == n.offset   d == Distance(n.offset, 0)
  <2>1. C \in Int /\ h \in Nat /\ o \in Int /\ d \in Int /\ o <= d /\ -o <= d /\ C >= h + 2 * d + 8
    BY <1>2, <1>3, <1>6
  <2>2. TopOffset(doc, n) = (C - h) \div 2 + o
    BY DEF TopOffset
  <2> HIDE DEF C, h, o, d
  <2>3. (C - h) \div 2 \in Int /\ 2 * ((C - h) \div 2) <= C - h /\ C - h <= 2 * ((C - h) \div 2) + 1
    <3>1. \A a \in Int : a \div 2 \in Int /\ 2 * (a \div 2) <= a /\ a <= 2 * (a \div 2) + 1
      OBVIOUS
    <3>2. C - h \in Int
      BY <2>1
    <3>3. QED
      BY <3>1, <3>2
  <2> DEFINE q == (C - h) \div 2
  <2> HIDE DEF q
  <2>4. q \in Int /\ 2 * q <= C - h /\ C - h <= 2 * q + 1
    BY <2>3 DEF q
  <2>5. q + o \in Int /\ q + o >= 0 /\ q + o + h <= C
    BY <2>1, <2>4
  <2>6. QED
    BY <2>2, <2>5 DEF q, C, h
<1>8. QED
  BY <1>6, <1>7

\* What a lane reserves for the frames of its groups.
LEMMA RoomIs ==
  ASSUME NEW doc, IsDocument(doc), NEW xs, NEW lane
  PROVE  LET room == FrameRoom(doc, xs, lane)
         IN  /\ room.header \in Int /\ room.header >= 0 /\ room.footer \in Int /\ room.footer >= 0
             /\ \A g \in ToSet(doc.groups) : \A n \in NodesOf(doc) :
                  g.lane = lane /\ n.lane = lane /\ n.col \in g.from..g.to =>
                    /\ room.header >= 9 - TopOffset(doc, n)
                    /\ room.footer >= 1 - (ContentHeight(doc) - 4 - TopOffset(doc, n) - n.height)
<1> DEFINE groups == {g \in ToSet(doc.groups) : g.lane = lane}
           held(g) == {n \in NodesOf(doc) : n.lane = lane /\ n.col \in g.from..g.to}
           beneath(g, n) ==
             LET left == GroupBounds(doc, g, xs).left + 10
             IN  xs[n.col] + n.width \div 2 > left /\ xs[n.col] - n.width \div 2 < left + TextWidth(g.label, 56)
           up == [g \in groups |-> [n \in held(g) |-> (IF beneath(g, n) THEN 11 ELSE 9) - TopOffset(doc, n)]]
           down == [g \in groups |-> [n \in held(g) |-> 1 - (ContentHeight(doc) - 4 - TopOffset(doc, n) - n.height)]]
           all(fun) == UNION {{fun[g][n] : n \in held(g)} : g \in groups}
           family(fun) == \A g \in groups : /\ DOMAIN fun[g] = held(g) /\ fun[g] = [n \in held(g) |-> fun[g][n]]
                                             /\ \A n \in held(g) : fun[g][n] \in Int
           H == all(up)   F == all(down)
<1>1. FrameRoom(doc, xs, lane).header = Largest({0} \cup H) /\ FrameRoom(doc, xs, lane).footer = Largest({0} \cup F)
  <2>1. \A g \in groups : /\ {up[g][n] : n \in held(g)} = {(IF beneath(g, n) THEN 11 ELSE 9) - TopOffset(doc, n) : n \in held(g)}
                          /\ {down[g][n] : n \in held(g)}
                               = {1 - (ContentHeight(doc) - 4 - TopOffset(doc, n) - n.height) : n \in held(g)}
    OBVIOUS
  <2>2. /\ FrameRoom(doc, xs, lane).header = Largest({0} \cup UNION {{(IF beneath(g, n) THEN 11 ELSE 9) - TopOffset(doc, n) : n \in held(g)} : g \in groups})
        /\ FrameRoom(doc, xs, lane).footer = Largest({0} \cup UNION {{1 - (ContentHeight(doc) - 4 - TopOffset(doc, n) - n.height) : n \in held(g)} : g \in groups})
    BY DEF FrameRoom
  <2> DEFINE a(g) == {up[g][n] : n \in held(g)}
             b(g) == {(IF beneath(g, n) THEN 11 ELSE 9) - TopOffset(doc, n) : n \in held(g)}
             c(g) == {down[g][n] : n \in held(g)}
             d(g) == {1 - (ContentHeight(doc) - 4 - TopOffset(doc, n) - n.height) : n \in held(g)}
  <2>3. /\ {{up[g][n] : n \in held(g)} : g \in groups} = {{(IF beneath(g, n) THEN 11 ELSE 9) - TopOffset(doc, n) : n \in held(g)} : g \in groups}
        /\ {{down[g][n] : n \in held(g)} : g \in groups} = {{1 - (ContentHeight(doc) - 4 - TopOffset(doc, n) - n.height) : n \in held(g)} : g \in groups}
    <3>1. \A g \in groups : a(g) = b(g) /\ c(g) = d(g)
      BY <2>1
    <3> HIDE DEF a, b, c, d, groups
    <3>2. {a(g) : g \in groups} = {b(g) : g \in groups} /\ {c(g) : g \in groups} = {d(g) : g \in groups}
      BY <3>1
    <3>3. QED
      BY <3>2 DEF a, b, c, d
  <2> HIDE DEF up, down, beneath, held, groups
  <2>4. QED
    BY <2>2, <2>3
<1>2. /\ groups \subseteq ToSet(doc.groups) /\ \A g \in groups : held(g) \subseteq NodesOf(doc)
      /\ \A g \in ToSet(doc.groups) : g \in groups <=> g.lane = lane
      /\ \A g \in groups : \A n \in NodesOf(doc) : n \in held(g) <=> n.lane = lane /\ n.col \in g.from..g.to
  OBVIOUS
<1>3. \A g \in groups : /\ DOMAIN up[g] = held(g) /\ up[g] = [n \in held(g) |-> up[g][n]]
                        /\ DOMAIN down[g] = held(g) /\ down[g] = [n \in held(g) |-> down[g][n]]
  OBVIOUS
<1>4. \A g \in groups : \A n \in held(g) :
        /\ up[g][n] \in {11 - TopOffset(doc, n), 9 - TopOffset(doc, n)}
        /\ down[g][n] = 1 - (ContentHeight(doc) - 4 - TopOffset(doc, n) - n.height)
  OBVIOUS
<1> HIDE DEF up, down, beneath, held, groups
<1>5. IsFiniteSet(groups) /\ \A g \in groups : IsFiniteSet(held(g))
  BY <1>2, DocumentHolds, FS_Subset
<1>6. \A g \in groups : \A n \in held(g) :
        TopOffset(doc, n) \in Int /\ n.height \in Int /\ up[g][n] \in Int /\ up[g][n] >= 9 - TopOffset(doc, n) /\ down[g][n] \in Int
  <2>1. \A g \in groups : \A n \in held(g) : TopOffset(doc, n) \in Int /\ n.height \in Int /\ ContentHeight(doc) \in Int
    BY <1>2, DocumentHolds, HeightIs
  <2>2. QED
    BY <1>4, <2>1
<1>7. ASSUME NEW fun, family(fun) PROVE Ints(all(fun))
  <2> DEFINE each == [g \in groups |-> {fun[g][n] : n \in held(g)}]
  <2>1. DOMAIN each = groups /\ each = [g \in groups |-> each[g]] /\ \A g \in groups : each[g] = {fun[g][n] : n \in held(g)}
    OBVIOUS
  <2>2. {{fun[g][n] : n \in held(g)} : g \in groups} = {each[g] : g \in groups}
    OBVIOUS
  <2> HIDE DEF each
  <2>3. ASSUME NEW g \in groups PROVE Ints(each[g])
    <3> DEFINE h == fun[g]   S == held(g)
    <3>1. IsFiniteSet(S) /\ DOMAIN h = S /\ h = [n \in S |-> h[n]] /\ \A n \in S : h[n] \in Int
      BY <1>5, <1>7
    <3>2. each[g] = {h[n] : n \in S}
      BY <2>1
    <3> HIDE DEF h, S
    <3>3. Ints({h[n] : n \in S})
      BY <3>1, IntsFrom
    <3>4. QED
      BY <3>2, <3>3
  <2>4. IsFiniteSet({each[g] : g \in groups})
    BY <1>5, <2>1, ImageFinite
  <2>5. Ints(UNION {each[g] : g \in groups})
    BY <2>3, <2>4, IntsAll
  <2>6. QED
    BY <2>2, <2>5
<1>8. Ints(H) /\ Ints(F)
  <2>1. family(up) /\ family(down)
    BY <1>3, <1>6
  <2> HIDE DEF family, all
  <2>2. Ints(all(up)) /\ Ints(all(down))
    BY <1>7, <2>1
  <2>3. QED
    BY <2>2
<1>9. \A g \in groups : \A n \in held(g) : up[g][n] \in H /\ down[g][n] \in F
  OBVIOUS
<1> HIDE DEF H, F
<1>10. /\ Largest({0} \cup H) \in Int /\ Largest({0} \cup H) >= 0 /\ \A b \in H : Largest({0} \cup H) >= b
       /\ Largest({0} \cup F) \in Int /\ Largest({0} \cup F) >= 0 /\ \A b \in F : Largest({0} \cup F) >= b
  <2>1. 0 \in Int
    OBVIOUS
  <2>2. QED
    BY <1>8, <2>1, MostIs
<1>11. ASSUME NEW g \in groups, NEW n \in held(g)
       PROVE  /\ Largest({0} \cup H) >= 9 - TopOffset(doc, n)
              /\ Largest({0} \cup F) >= 1 - (ContentHeight(doc) - 4 - TopOffset(doc, n) - n.height)
  <2>1. Largest({0} \cup H) >= up[g][n] /\ Largest({0} \cup F) >= down[g][n]
    BY <1>9, <1>10
  <2>2. up[g][n] \in Int /\ up[g][n] >= 9 - TopOffset(doc, n) /\ TopOffset(doc, n) \in Int
    BY <1>6
  <2>3. down[g][n] = 1 - (ContentHeight(doc) - 4 - TopOffset(doc, n) - n.height)
    BY <1>4
  <2>4. 9 - TopOffset(doc, n) \in Int /\ Largest({0} \cup H) \in Int
    BY <1>10, <2>2
  <2>5. Largest({0} \cup H) >= 9 - TopOffset(doc, n)
    BY <2>1, <2>2, <2>4
  <2>6. QED
    BY <2>1, <2>3, <2>5
<1>12. QED
  BY <1>1, <1>2, <1>10, <1>11

-----------------------------------------------------------------------------
(* What stays apart                                                         *)

\* What moves with the columns.
LEMMA PhaseMoves ==
  ASSUME NEW xs, Rails(xs), NEW by \in Int, NEW p, p.from \in Columns, p.to \in Columns, p.label \in Nat
  PROVE  PhaseLeft(p, Shifted(xs, by)) = PhaseLeft(p, xs) + by
<1> DEFINE a == xs[p.from]   b == xs[p.to]   most == Largest({b - a + 92, TextWidth(p.label, 56) + 8})
<1>1. a \in Int /\ b \in Int
  BY DEF Rails
<1>2. Shifted(xs, by)[p.from] = a + by /\ Shifted(xs, by)[p.to] = b + by
  BY DEF Shifted
<1>3. TextWidth(p.label, 56) \in Int
  <2>1. p.label \in Int /\ 56 \in Int
    OBVIOUS
  <2>2. QED
    BY <2>1, TextIs
<1>4. PhaseLeft(p, xs) = IF p.from = p.to THEN a - 46 ELSE (a + b - most) \div 2
  BY DEF PhaseLeft
<1>5. PhaseLeft(p, Shifted(xs, by)) =
        IF p.from = p.to THEN (a + by) - 46
        ELSE ((a + by) + (b + by) - Largest({(b + by) - (a + by) + 92, TextWidth(p.label, 56) + 8})) \div 2
  BY <1>2 DEF PhaseLeft
<1> HIDE DEF a, b
<1>6. (b + by) - (a + by) + 92 = b - a + 92
  BY <1>1
<1>7. most \in Int
  <2>1. b - a + 92 \in Int /\ TextWidth(p.label, 56) + 8 \in Int
    BY <1>1, <1>3
  <2>2. \A m, n \in Int : Largest({m, n}) \in Int
    BY LeastOfTwo
  <2>3. QED
    BY <2>1, <2>2
<1>8. PhaseLeft(p, Shifted(xs, by)) = IF p.from = p.to THEN (a + by) - 46 ELSE ((a + by) + (b + by) - most) \div 2
  BY <1>5, <1>6
<1> HIDE DEF most
<1>9. ((a + by) + (b + by) - most) \div 2 = (a + b - most) \div 2 + by /\ (a + by) - 46 = (a - 46) + by
  <2>1. \A v \in Int : (v + 2 * by) \div 2 = v \div 2 + by
    OBVIOUS
  <2>2. a + b - most \in Int /\ (a + by) + (b + by) - most = (a + b - most) + 2 * by
    BY <1>1, <1>7
  <2>3. QED
    BY <1>1, <2>1, <2>2
<1>10. QED
  BY <1>4, <1>8, <1>9

LEMMA StartMoves ==
  ASSUME NEW xs, Rails(xs), NEW by \in Int, NEW g, g.from \in Columns, g.to \in Columns, g.label \in Nat
  PROVE  GroupStart(g, Shifted(xs, by)) = GroupStart(g, xs) + by
<1> DEFINE a == xs[g.from]   b == xs[g.to]   most == Largest({(b + 50) - (a - 50), TextWidth(g.label, 56) + 20})
<1>1. a \in Int /\ b \in Int
  BY DEF Rails
<1>2. Shifted(xs, by)[g.from] = a + by /\ Shifted(xs, by)[g.to] = b + by
  BY DEF Shifted
<1>3. GroupWidth(g, xs) = most /\ most \in Int
  BY StartIs DEF GroupWidth
<1>4. GroupStart(g, xs) = IF g.from = g.to THEN a - 50 ELSE ((a - 50) + (b + 50) - most) \div 2
  BY <1>3 DEF GroupStart
<1>5. GroupWidth(g, Shifted(xs, by)) = Largest({((b + by) + 50) - ((a + by) - 50), TextWidth(g.label, 56) + 20})
  BY <1>2 DEF GroupWidth
<1> HIDE DEF a, b
<1>6. ((b + by) + 50) - ((a + by) - 50) = (b + 50) - (a - 50)
  BY <1>1
<1>7. GroupWidth(g, Shifted(xs, by)) = most
  BY <1>5, <1>6
<1> HIDE DEF most
<1>8. GroupStart(g, Shifted(xs, by)) =
        IF g.from = g.to THEN (a + by) - 50 ELSE (((a + by) - 50) + ((b + by) + 50) - most) \div 2
  BY <1>2, <1>7 DEF GroupStart, a, b
<1>9. /\ (((a + by) - 50) + ((b + by) + 50) - most) \div 2 = ((a - 50) + (b + 50) - most) \div 2 + by
      /\ (a + by) - 50 = (a - 50) + by
  <2>1. \A v \in Int : (v + 2 * by) \div 2 = v \div 2 + by
    OBVIOUS
  <2>2. /\ (a - 50) + (b + 50) - most \in Int
        /\ ((a + by) - 50) + ((b + by) + 50) - most = ((a - 50) + (b + 50) - most) + 2 * by
    BY <1>1, <1>3
  <2>3. (a + by) - 50 = (a - 50) + by
    BY <1>1
  <2> DEFINE v == (a - 50) + (b + 50) - most
  <2>4. (v + 2 * by) \div 2 = v \div 2 + by
    BY <2>1, <2>2
  <2>5. QED
    BY <2>2, <2>3, <2>4
<1>10. QED
  BY <1>4, <1>8, <1>9

LEMMA BoundsMove ==
  ASSUME NEW doc, IsDocument(doc), NEW xs, Rails(xs), NEW by \in Int, NEW g \in ToSet(doc.groups)
  PROVE  GroupBounds(doc, g, Shifted(xs, by)).left >= GroupBounds(doc, g, xs).left + by
<1> DEFINE ys == Shifted(xs, by)   old == GroupBounds(doc, g, xs).left   new == GroupBounds(doc, g, ys).left
<1>1. g.from \in Columns /\ g.to \in Columns /\ g.label \in Nat
  BY DocumentHolds
<1>2. Rails(ys)
  BY ShiftedIs
<1>3. GroupStart(g, ys) = GroupStart(g, xs) + by /\ GroupStart(g, xs) \in Int
  BY <1>1, StartMoves, StartIs
<1>4. \A n \in HeldBy(doc, g) : LeftOf(ys, n) = LeftOf(xs, n) + by /\ LeftOf(xs, n) \in Int
  <2>1. ASSUME NEW n \in HeldBy(doc, g) PROVE LeftOf(ys, n) = LeftOf(xs, n) + by /\ LeftOf(xs, n) \in Int
    <3> DEFINE q == n.width \div 2
    <3>1. n.col \in Columns /\ n.width \in Nat
      BY DocumentHolds DEF HeldBy
    <3>2. xs[n.col] \in Int /\ ys[n.col] = xs[n.col] + by /\ q \in Int
      BY <3>1, Halved DEF Rails, Shifted
    <3>3. LeftOf(xs, n) = xs[n.col] - q - 4 /\ LeftOf(ys, n) = ys[n.col] - q - 4
      BY DEF LeftOf
    <3> HIDE DEF q, ys
    <3>4. QED
      BY <3>2, <3>3
  <2>2. QED
    BY <2>1
<1>5. /\ old \in Int /\ old <= GroupStart(g, xs) /\ \A n \in HeldBy(doc, g) : old <= LeftOf(xs, n)
  BY BoundsAre
<1> HIDE DEF ys
<1>6. /\ new \in Int /\ (new = GroupStart(g, ys) \/ \E n \in HeldBy(doc, g) : new = LeftOf(ys, n))
  BY <1>2, BoundsAre
<1> HIDE DEF old, new
<1>7. new >= old + by
  BY <1>3, <1>4, <1>5, <1>6
<1>8. QED
  BY <1>7 DEF old, new, ys

\* The columns leave room on the left for what stands there.
LEMMA ColumnsHold ==
  ASSUME NEW doc, IsDocument(doc), NEW fb, FeedbackOk(fb)
  PROVE  /\ \A n \in NodesOf(doc) : n.col = 0 => ColumnsOf(doc, fb)[0] >= 48 + n.width \div 2
         /\ \A p \in ToSet(doc.phases) : PhaseLeft(p, ColumnsOf(doc, fb)) >= 16
         /\ \A g \in ToSet(doc.groups) : GroupBounds(doc, g, ColumnsOf(doc, fb)).left >= 44
<1> DEFINE first == Solve(Gaps(doc, fb))   bs == ForFirstRank(doc, first)   cs == ForHeadings(doc, bs)   ds == ForContent(doc, cs)
<1>1. ColumnsOf(doc, fb) = ds
  BY DEF ColumnsOf
<1>2. Rails(first)
  BY GapsAre, Solved DEF Rails
<1> HIDE DEF first
<1>3. PICK b1 \in Int : bs = Shifted(first, b1) /\ \A n \in NodesOf(doc) : n.col = 0 => first[0] + b1 >= 48 + n.width \div 2
  BY <1>2, FirstRankIs
<1>4. Rails(bs)
  BY <1>2, <1>3, ShiftedIs
<1> HIDE DEF bs
<1>5. PICK b2 \in Nat : cs = Shifted(bs, b2)
  BY <1>4, HeadingsAre
<1>6. Rails(cs)
  <2>1. b2 \in Int
    OBVIOUS
  <2>2. QED
    BY <1>4, <1>5, <2>1, ShiftedIs
<1> HIDE DEF cs
<1>7. PICK b3 \in Nat : /\ ds = Shifted(cs, b3)
                        /\ \A p \in ToSet(doc.phases) : PhaseLeft(p, cs) + b3 >= 16
                        /\ \A g \in ToSet(doc.groups) : GroupBounds(doc, g, cs).left + b3 >= 44
  BY <1>6, ContentIs
<1>8. b3 \in Int /\ Rails(ds)
  <2>1. b3 \in Int
    OBVIOUS
  <2>2. QED
    BY <1>6, <1>7, <2>1, ShiftedIs
<1> HIDE DEF ds
<1>9. ASSUME NEW n \in NodesOf(doc), n.col = 0 PROVE ds[0] >= 48 + n.width \div 2
  <2>1. bs[0] = first[0] + b1 /\ cs[0] = bs[0] + b2 /\ ds[0] = cs[0] + b3
    BY <1>3, <1>5, <1>7 DEF Shifted, Columns
  <2>2. first[0] \in Int
    <3>1. 0 \in Columns
      BY DEF Columns
    <3>2. QED
      BY <1>2, <3>1 DEF Rails
  <2> DEFINE q == n.width \div 2
  <2>3. q \in Int
    <3>1. n.width \in Int
      BY DocumentHolds
    <3>2. QED
      BY <3>1, Halved
  <2>4. first[0] + b1 >= 48 + q
    BY <1>3, <1>9
  <2> HIDE DEF q
  <2>5. ds[0] >= 48 + q
    <3>1. \A i, k \in Int : \A j \in Nat : i >= k => i + j \in Int /\ i + j >= k
      OBVIOUS
    <3>2. bs[0] = first[0] + b1
      BY <2>1
    <3>3. bs[0] \in Int
      BY <2>2, <3>2
    <3>4. bs[0] >= 48 + q /\ 48 + q \in Int
      BY <2>3, <2>4, <3>2
    <3>5. cs[0] = bs[0] + b2
      BY <2>1
    <3>6. bs[0] + b2 \in Int /\ bs[0] + b2 >= 48 + q
      BY <3>1, <3>3, <3>4
    <3>7. cs[0] \in Int /\ cs[0] >= 48 + q
      BY <3>5, <3>6
    <3>8. cs[0] + b3 >= 48 + q
      BY <3>1, <3>4, <3>7
    <3>9. ds[0] = cs[0] + b3
      BY <2>1
    <3>10. QED
      BY <3>8, <3>9
  <2>6. QED
    BY <2>5 DEF q
<1>10. ASSUME NEW p \in ToSet(doc.phases) PROVE PhaseLeft(p, ds) >= 16
  <2>1. p.from \in Columns /\ p.to \in Columns /\ p.label \in Nat
    BY DocumentHolds
  <2>2. PhaseLeft(p, ds) = PhaseLeft(p, cs) + b3
    BY <1>6, <1>7, <1>8, <2>1, PhaseMoves
  <2>3. QED
    BY <1>7, <2>2
<1>11. ASSUME NEW g \in ToSet(doc.groups) PROVE GroupBounds(doc, g, ds).left >= 44
  <2>1. GroupBounds(doc, g, ds).left >= GroupBounds(doc, g, cs).left + b3
    BY <1>6, <1>7, <1>8, BoundsMove
  <2>2. GroupBounds(doc, g, ds).left \in Int /\ GroupBounds(doc, g, cs).left \in Int
    BY <1>6, <1>8, BoundsAre
  <2>3. GroupBounds(doc, g, cs).left + b3 >= 44
    BY <1>7
  <2>4. QED
    BY <1>8, <2>1, <2>2, <2>3
<1>12. QED
  BY <1>1, <1>9, <1>10, <1>11

\* Lanes are wide enough for whatever stands in the columns.
LEMMA WidthIs ==
  ASSUME NEW doc, IsDocument(doc), NEW xs, Rails(xs)
  PROVE  /\ LaneWidth(doc, xs) \in Int
         /\ \A n \in NodesOf(doc) : xs[n.col] + n.width \div 2 + 8 <= laneX + LaneWidth(doc, xs)
         /\ \A g \in ToSet(doc.groups) : GroupBounds(doc, g, xs).right + 8 <= laneX + LaneWidth(doc, xs)
<1> DEFINE N == NodesOf(doc)   G == ToSet(doc.groups)   L == DOMAIN doc.lanes
           f == [n \in N |-> xs[n.col] + n.width \div 2]
           r == [g \in G |-> GroupBounds(doc, g, xs).right]
           h == [i \in L |-> TextWidth(Heading(doc, i), 62) + 30]
           F == {f[n] : n \in N}   R == {r[g] : g \in G}   H == {h[i] : i \in L}
           far == Largest({xs[5] + 50} \cup (F \cup R))
           wide == Largest({640} \cup ({far - laneX + 8} \cup H))
<1>1. LaneWidth(doc, xs) = wide
  <2>1. /\ F = {xs[n.col] + n.width \div 2 : n \in N} /\ R = {GroupBounds(doc, g, xs).right : g \in G}
        /\ H = {TextWidth(Heading(doc, i), 62) + 30 : i \in L}
    OBVIOUS
  <2> DEFINE rights == {xs[5] + 50} \cup {xs[n.col] + n.width \div 2 : n \in N} \cup {GroupBounds(doc, g, xs).right : g \in G}
  <2>2. LaneWidth(doc, xs) =
          Largest({640, Largest(rights) - laneX + 8} \cup {TextWidth(Heading(doc, i), 62) + 30 : i \in L})
    BY DEF LaneWidth
  <2> HIDE DEF F, R, H
  <2>3. rights = {xs[5] + 50} \cup (F \cup R)
    BY <2>1
  <2> HIDE DEF rights
  <2>4. LaneWidth(doc, xs) = Largest({640, far - laneX + 8} \cup H)
    BY <2>1, <2>2, <2>3
  <2> HIDE DEF far
  <2>5. {640, far - laneX + 8} \cup H = {640} \cup ({far - laneX + 8} \cup H)
    OBVIOUS
  <2>6. QED
    BY <2>4, <2>5
<1>2. /\ DOMAIN f = N /\ f = [n \in N |-> f[n]] /\ \A n \in N : f[n] = xs[n.col] + n.width \div 2 /\ f[n] \in F
      /\ DOMAIN r = G /\ r = [g \in G |-> r[g]] /\ \A g \in G : r[g] = GroupBounds(doc, g, xs).right /\ r[g] \in R
      /\ DOMAIN h = L /\ h = [i \in L |-> h[i]] /\ \A i \in L : h[i] = TextWidth(Heading(doc, i), 62) + 30
  OBVIOUS
<1> HIDE DEF f, r, h, wide, far
<1>3. \A n \in N : f[n] \in Int
  <2>1. ASSUME NEW n \in N PROVE f[n] \in Int
    <3>1. n.col \in Columns /\ n.width \in Int
      BY DocumentHolds
    <3>2. xs[n.col] \in Int /\ n.width \div 2 \in Int
      BY <3>1, Halved DEF Rails
    <3>3. QED
      BY <1>2, <3>2
  <2>2. QED
    BY <2>1
<1>4. \A g \in G : r[g] \in Int
  BY <1>2, BoundsAre
<1>5. \A i \in L : h[i] \in Int
  <2>1. ASSUME NEW i \in L PROVE h[i] \in Int
    <3>1. doc.lanes[i].label \in Nat
      BY DEF IsDocument, ToSet
    <3>2. Heading(doc, i) \in Int /\ 62 \in Int
      BY <3>1 DEF Heading
    <3>3. TextWidth(Heading(doc, i), 62) \in Int
      BY <3>2, TextIs
    <3>4. h[i] = TextWidth(Heading(doc, i), 62) + 30
      BY <1>2
    <3>5. QED
      BY <3>3, <3>4
  <2>2. QED
    BY <2>1
<1>6. Ints(F) /\ Ints(R) /\ Ints(H)
  <2>1. IsFiniteSet(N) /\ IsFiniteSet(G)
    BY DocumentHolds
  <2>2. IsFiniteSet(L)
    <3>1. L = 1..Len(doc.lanes) /\ Len(doc.lanes) \in Nat
      BY DEF IsDocument
    <3>2. \A a, b \in Int : IsFiniteSet(a..b)
      BY FS_Interval
    <3>3. QED
      BY <3>1, <3>2
  <2> HIDE DEF N, G, L
  <2>3. Ints(F)
    BY <1>2, <1>3, <2>1, IntsFrom
  <2>4. Ints(R)
    BY <1>2, <1>4, <2>1, IntsFrom
  <2>5. Ints(H)
    BY <1>2, <1>5, <2>2, IntsFrom
  <2>6. QED
    BY <2>3, <2>4, <2>5
<1> HIDE DEF F, R, H
<1>7. far \in Int /\ \A b \in F \cup R : far >= b
  <2>1. xs[5] + 50 \in Int
    BY DEF Rails, Columns
  <2>2. Ints(F \cup R)
    BY <1>6, IntsJoin
  <2> DEFINE S == F \cup R   a == xs[5] + 50
  <2> HIDE DEF S, a
  <2>3. Largest({a} \cup S) \in Int /\ \A b \in S : Largest({a} \cup S) >= b
    BY <2>1, <2>2, MostIs DEF S, a
  <2>4. QED
    BY <2>3 DEF S, a, far
<1>8. wide \in Int /\ wide >= far - laneX + 8
  <2> DEFINE a == far - laneX + 8   S == {a} \cup H
  <2>1. a \in Int
    BY <1>7 DEF laneX
  <2> HIDE DEF a
  <2>2. Ints(S) /\ a \in S
    BY <1>6, <2>1, IntsJoin, IntsOne
  <2> HIDE DEF S
  <2> DEFINE floor == 640
  <2>3. floor \in Int
    OBVIOUS
  <2> HIDE DEF floor
  <2>4. Largest({floor} \cup S) \in Int /\ \A b \in S : Largest({floor} \cup S) >= b
    BY <2>2, <2>3, MostIs
  <2>5. Largest({floor} \cup S) >= a
    BY <2>2, <2>4
  <2>6. QED
    BY <2>4, <2>5 DEF wide, S, a, floor
<1>9. ASSUME NEW n \in N PROVE xs[n.col] + n.width \div 2 + 8 <= laneX + wide
  <2>1. f[n] \in F /\ f[n] = xs[n.col] + n.width \div 2 /\ f[n] \in Int
    BY <1>2, <1>3
  <2>2. f[n] <= far
    BY <1>7, <2>1
  <2>3. f[n] + 8 <= laneX + wide
    BY <1>7, <1>8, <2>1, <2>2 DEF laneX
  <2>4. QED
    BY <2>1, <2>3
<1>10. ASSUME NEW g \in G PROVE GroupBounds(doc, g, xs).right + 8 <= laneX + wide
  <2>1. r[g] \in R /\ r[g] = GroupBounds(doc, g, xs).right /\ r[g] \in Int
    BY <1>2, <1>4
  <2>2. r[g] <= far
    BY <1>7, <2>1
  <2>3. r[g] + 8 <= laneX + wide
    BY <1>7, <1>8, <2>1, <2>2 DEF laneX
  <2>4. QED
    BY <2>1, <2>3
<1>11. QED
  BY <1>1, <1>8, <1>9, <1>10

\* A pile of what stands one below another.
Piled(high, gap, n, tops) == tops = [i \in 1..n |-> IF i = 1 THEN 52 ELSE tops[i - 1] + high[i - 1] + gap]
LEMMA PilesExist ==
  ASSUME NEW high, NEW gap, NEW N \in Nat PROVE \E tops : Piled(high, gap, N, tops)
<1> DEFINE next(s, i) == s + high[i - 1] + gap
<1> DEFINE Has(n) == \E g : Piled(high, gap, n, g)
<1>1. Has(0)
  <2> DEFINE g == [i \in 1..0 |-> 52]
  <2>1. g = [i \in 1..0 |-> IF i = 1 THEN 52 ELSE g[i - 1] + high[i - 1] + gap]
    OBVIOUS
  <2>2. Piled(high, gap, 0, g)
    BY <2>1 DEF Piled
  <2>3. QED
    BY <2>2
<1>2. ASSUME NEW n \in 0..N, NEW g, Piled(high, gap, n, g) PROVE Has(n + 1)
  <2> DEFINE h == [i \in 1..(n + 1) |-> IF i <= n THEN g[i] ELSE IF i = 1 THEN 52 ELSE next(g[n], n + 1)]
  <2>1. \A i \in 1..n : i \in 1..(n + 1) /\ h[i] = g[i]
    OBVIOUS
  <2>2. \A i \in 1..n : g[i] = IF i = 1 THEN 52 ELSE next(g[i - 1], i)
    BY <1>2 DEF Piled
  <2>3. h[n + 1] = IF n + 1 = 1 THEN 52 ELSE next(g[n], n + 1)
    OBVIOUS
  <2>4. h = [i \in 1..(n + 1) |-> h[i]]
    OBVIOUS
  <2> HIDE DEF h
  <2>5. ASSUME NEW i \in 1..(n + 1) PROVE h[i] = IF i = 1 THEN 52 ELSE next(h[i - 1], i)
    <3>1. CASE i \in 1..n /\ i = 1
      BY <2>1, <2>2, <3>1
    <3>2. CASE i \in 2..n
      <4>1. i - 1 \in 1..n /\ i \in 1..n /\ i # 1
        BY <3>2
      <4>2. QED
        BY <2>1, <2>2, <4>1
    <3>3. CASE i = n + 1 /\ n = 0
      BY <2>3, <3>3
    <3>4. CASE i = n + 1 /\ n # 0
      <4>1. n \in 1..n /\ i - 1 = n /\ i # 1
        BY <3>4
      <4>2. QED
        BY <2>1, <2>3, <3>4, <4>1
    <3>5. QED
      BY <3>1, <3>2, <3>3, <3>4
  <2>6. h = [i \in 1..(n + 1) |-> IF i = 1 THEN 52 ELSE next(h[i - 1], i)]
    BY <2>4, <2>5
  <2>7. QED
    BY <2>6 DEF Piled
<1> DEFINE Some == {n \in 0..N : Has(n)}
<1> HIDE DEF Has
<1>3. 0 \in Some /\ \A n \in 0..N : n \in Some /\ n < N => n + 1 \in Some
  <2>1. ASSUME NEW n \in 0..N, Has(n) PROVE Has(n + 1)
    BY <1>2, <2>1 DEF Has
  <2>2. QED
    BY <1>1, <2>1
<1> HIDE DEF Some
<1>4. N \in Some
  BY <1>3, CountUp
<1>5. QED
  BY <1>4 DEF Some, Has

\* The lanes of a layout, one below another.
LEMMA LanesAre ==
  ASSUME NEW doc, IsDocument(doc), NEW fb, FeedbackOk(fb)
  PROVE  LET xs == ColumnsOf(doc, fb)   lanes == Layout(doc, fb).lanes
         IN  /\ DOMAIN lanes = DOMAIN doc.lanes
             /\ \A i \in DOMAIN doc.lanes :
                  LET lane == lanes[i]   room == FrameRoom(doc, xs, doc.lanes[i].id)
                  IN  /\ lane.x = laneX /\ lane.y \in Int /\ lane.width = LaneWidth(doc, xs)
                      /\ lane.header = room.header /\ lane.footer = room.footer
                      /\ lane.header \in Int /\ lane.header >= 0 /\ lane.footer \in Int /\ lane.footer >= 0
                      /\ lane.height = laneTitleH + ContentHeight(doc) + lane.header + lane.footer
             /\ \A i \in 1..(Len(doc.lanes) - 1) : lanes[i].y + lanes[i].height + 20 <= lanes[i + 1].y
<1> DEFINE xs == ColumnsOf(doc, fb)   lanes == Layout(doc, fb).lanes   N == Len(doc.lanes)
           room(i) == FrameRoom(doc, xs, doc.lanes[i].id)
           gap == LaneGap(fb)
           high == [i \in 1..N |-> LaneHeight(doc, xs, i)]
           tops == CHOOSE t : Piled(high, gap, N, t)
<1>1. N \in Nat /\ DOMAIN doc.lanes = 1..N
  BY DEF IsDocument
<1>2. Piled(high, gap, N, tops)
  <2> HIDE DEF high, gap, N
  <2>1. \E t : Piled(high, gap, N, t)
    BY <1>1, PilesExist
  <2>2. QED
    BY <2>1, Zenon
<1>3. LaneTops(doc, fb, xs) = tops
  <2> DEFINE by(t) == t = [i \in DOMAIN doc.lanes |-> IF i = 1 THEN 52 ELSE t[i - 1] + LaneHeight(doc, xs, i - 1) + LaneGap(fb)]
  <2>1. LaneTops(doc, fb, xs) = CHOOSE t : by(t)
    BY Zenon DEF LaneTops
  <2>2. ASSUME NEW t PROVE by(t) <=> Piled(high, gap, N, t)
    <3> DEFINE a == [i \in DOMAIN doc.lanes |-> IF i = 1 THEN 52 ELSE t[i - 1] + LaneHeight(doc, xs, i - 1) + LaneGap(fb)]
               b == [i \in 1..N |-> IF i = 1 THEN 52 ELSE t[i - 1] + high[i - 1] + gap]
    <3>1. ASSUME NEW i \in 1..N PROVE a[i] = b[i]
      <4>1. a[i] = IF i = 1 THEN 52 ELSE t[i - 1] + LaneHeight(doc, xs, i - 1) + LaneGap(fb)
        BY <1>1
      <4>2. b[i] = IF i = 1 THEN 52 ELSE t[i - 1] + high[i - 1] + gap
        OBVIOUS
      <4>3. i # 1 => i - 1 \in 1..N
        BY <1>1
      <4>4. i # 1 => high[i - 1] = LaneHeight(doc, xs, i - 1)
        BY <4>3
      <4> HIDE DEF a, b, high
      <4>5. QED
        BY <4>1, <4>2, <4>4
    <3>2. a = [i \in 1..N |-> a[i]] /\ b = [i \in 1..N |-> b[i]]
      BY <1>1
    <3> HIDE DEF a, b
    <3>3. a = b
      BY <3>1, <3>2
    <3>4. QED
      BY <3>3 DEF a, b, Piled
  <2> HIDE DEF by
  <2>3. (CHOOSE t : by(t)) = tops
    BY <2>2
  <2>4. QED
    BY <2>1, <2>3
<1> HIDE DEF tops
<1>4. /\ tops[1] = 52
      /\ \A i \in 1..(N - 1) : tops[i + 1] = tops[i] + LaneHeight(doc, xs, i) + gap
  <2>1. ASSUME NEW i \in 1..N PROVE tops[i] = IF i = 1 THEN 52 ELSE tops[i - 1] + high[i - 1] + gap
    BY <1>2 DEF Piled
  <2>2. \A i \in 1..N : high[i] = LaneHeight(doc, xs, i)
    OBVIOUS
  <2>3. 1 \in 1..N
    <3>1. doc.lanes # <<>> /\ doc.lanes \in Seq(ToSet(doc.lanes))
      BY DEF IsDocument
    <3>2. QED
      BY <3>1
  <2> HIDE DEF high, N, gap
  <2>4. ASSUME NEW i \in 1..(N - 1) PROVE tops[i + 1] = tops[i] + LaneHeight(doc, xs, i) + gap
    <3>1. i + 1 \in 1..N /\ i \in 1..N /\ i + 1 # 1 /\ i + 1 - 1 = i
      BY <1>1
    <3>2. tops[i + 1] = tops[i] + high[i] + gap
      BY <2>1, <3>1
    <3>3. QED
      BY <2>2, <3>1, <3>2
  <2>5. QED
    BY <2>1, <2>3, <2>4
<1>5. gap \in Int /\ gap >= 20
  <2>1. 20 \in Int /\ fb.lane \in Int
    BY DEF FeedbackOk
  <2>2. \A m, n \in Int : Largest({m, n}) = IF m >= n THEN m ELSE n
    BY LeastOfTwo
  <2>3. Largest({20, fb.lane}) = IF 20 >= fb.lane THEN 20 ELSE fb.lane
    BY <2>1, <2>2
  <2>4. QED
    BY <2>1, <2>3 DEF LaneGap
<1>6. ASSUME NEW i \in 1..N
      PROVE  /\ room(i).header \in Int /\ room(i).header >= 0 /\ room(i).footer \in Int /\ room(i).footer >= 0
             /\ LaneHeight(doc, xs, i) = laneTitleH + ContentHeight(doc) + room(i).header + room(i).footer
             /\ LaneHeight(doc, xs, i) \in Int
  <2>1. room(i).header \in Int /\ room(i).header >= 0 /\ room(i).footer \in Int /\ room(i).footer >= 0
    BY RoomIs
  <2>2. LaneHeight(doc, xs, i) = laneTitleH + ContentHeight(doc) + room(i).header + room(i).footer
    BY DEF LaneHeight
  <2>3. ContentHeight(doc) \in Int
    BY HeightIs
  <2> HIDE DEF room
  <2>4. QED
    BY <2>1, <2>2, <2>3 DEF laneTitleH
<1>7. /\ lanes = [i \in DOMAIN doc.lanes |-> Lane(doc, fb, xs, i)]
  BY DEF Layout
<1>8. ASSUME NEW i \in 1..N
      PROVE  /\ lanes[i].x = laneX /\ lanes[i].y = tops[i] /\ lanes[i].width = LaneWidth(doc, xs)
             /\ lanes[i].height = LaneHeight(doc, xs, i)
             /\ lanes[i].header = room(i).header /\ lanes[i].footer = room(i).footer
  <2>1. lanes[i] = Lane(doc, fb, xs, i)
    BY <1>1, <1>7
  <2> HIDE DEF lanes, xs
  <2>2. QED
    BY <1>3, <2>1 DEF Lane
<1> DEFINE S == {n \in 0..N : n = 0 \/ tops[n] \in Int}
<1>9. 0 \in S /\ \A n \in 0..N : n \in S /\ n < N => n + 1 \in S
  <2>1. ASSUME NEW n \in 0..N, n \in S, n < N PROVE n + 1 \in S
    <3>1. CASE n = 0
      BY <1>1, <1>4, <2>1, <3>1
    <3>2. CASE n # 0
      <4>1. n \in 1..(N - 1) /\ n \in 1..N /\ n + 1 \in 0..N /\ tops[n] \in Int
        BY <1>1, <2>1, <3>2
      <4>2. tops[n + 1] = tops[n] + LaneHeight(doc, xs, n) + gap /\ LaneHeight(doc, xs, n) \in Int
        BY <1>4, <1>6, <4>1
      <4>3. tops[n + 1] \in Int
        BY <1>5, <4>1, <4>2
      <4>4. QED
        BY <4>1, <4>3
    <3>3. QED
      BY <3>1, <3>2
  <2>2. QED
    BY <1>1, <2>1
<1>10. ASSUME NEW i \in 1..N PROVE tops[i] \in Int
  <2> HIDE DEF S
  <2>1. i \in 0..N /\ i # 0
    BY <1>1
  <2>2. \A n \in 0..N : n \in S
    BY <1>1, <1>9, CountUp
  <2>3. QED
    BY <2>1, <2>2 DEF S
<1> HIDE DEF lanes, xs, room, gap, N, S
<1>11. ASSUME NEW i \in 1..(N - 1) PROVE lanes[i].y + lanes[i].height + 20 <= lanes[i + 1].y
  <2>1. i \in 1..N /\ i + 1 \in 1..N
    BY <1>1
  <2>2. lanes[i].y = tops[i] /\ lanes[i].height = LaneHeight(doc, xs, i) /\ lanes[i + 1].y = tops[i + 1]
    BY <1>8, <2>1
  <2>3. tops[i] \in Int /\ LaneHeight(doc, xs, i) \in Int /\ tops[i + 1] = tops[i] + LaneHeight(doc, xs, i) + gap
    BY <1>4, <1>6, <1>10, <2>1
  <2>4. tops[i] + LaneHeight(doc, xs, i) + 20 <= tops[i + 1]
    BY <1>5, <2>3
  <2>5. QED
    BY <2>2, <2>4
<1>12. DOMAIN lanes = 1..N
  BY <1>1, <1>7
<1>13. \A i \in 1..N :
         /\ lanes[i].x = laneX /\ lanes[i].y \in Int /\ lanes[i].width = LaneWidth(doc, xs)
         /\ lanes[i].header = room(i).header /\ lanes[i].footer = room(i).footer
         /\ lanes[i].header \in Int /\ lanes[i].header >= 0 /\ lanes[i].footer \in Int /\ lanes[i].footer >= 0
         /\ lanes[i].height = laneTitleH + ContentHeight(doc) + lanes[i].header + lanes[i].footer
  BY <1>6, <1>8, <1>10
<1>14. QED
  BY <1>1, <1>11, <1>12, <1>13 DEF lanes, xs, room, N

\* The boxes of a layout, one for each node.
PlaceBox(doc, layout, n) == NodeBox(doc, layout.lanes, layout.columns, n)
LEMMA EvenHalf ==
  ASSUME NEW w \in Nat, w % 2 = 0 PROVE w \div 2 \in Int /\ w = 2 * (w \div 2)
OBVIOUS

LEMMA LaneOfNode ==
  ASSUME NEW doc, IsDocument(doc), NEW id \in {l.id : l \in ToSet(doc.lanes)}
  PROVE  LaneIndex(doc, id) \in DOMAIN doc.lanes /\ doc.lanes[LaneIndex(doc, id)].id = id
<1>1. \E i \in DOMAIN doc.lanes : doc.lanes[i].id = id
  BY DEF ToSet
<1>2. QED
  BY <1>1, Zenon DEF LaneIndex

LEMMA BoxStands ==
  ASSUME NEW doc, IsDocument(doc), Even(doc), NEW fb, FeedbackOk(fb), NEW n \in NodesOf(doc)
  PROVE  LET layout == Layout(doc, fb)   b == PlaceBox(doc, layout, n)   lane == layout.lanes[LaneIndex(doc, n.lane)]
             x == layout.columns[n.col]   q == n.width \div 2
         IN  /\ b.id = n.id /\ b.lane = n.lane /\ b.col = n.col /\ b.width = n.width /\ b.height = n.height
             /\ x \in Int /\ q \in Int /\ n.width = 2 * q
             /\ b.x = x - q /\ b.y = lane.y + laneTitleH + lane.header + TopOffset(doc, n)
             /\ b.x \in Int /\ b.y \in Int /\ b.x + b.width = x + q
<1> DEFINE layout == Layout(doc, fb)   xs == layout.columns   lanes == layout.lanes   b == PlaceBox(doc, layout, n)
           i == LaneIndex(doc, n.lane)   lane == lanes[i]   q == n.width \div 2   x == xs[n.col]
           content == lane.height - laneTitleH - lane.header - lane.footer
<1>1. n.col \in Columns /\ n.width \in Nat /\ n.height \in Nat /\ n.offset \in Int /\ n.lane \in {l.id : l \in ToSet(doc.lanes)}
  BY DocumentHolds
<1>2. n.width % 2 = 0
  BY DEF Even, NodesOf
<1>3. q \in Int /\ n.width = 2 * q
  BY <1>1, <1>2, EvenHalf
<1>4. i \in DOMAIN doc.lanes
  BY <1>1, LaneOfNode
<1>5. xs = ColumnsOf(doc, fb)
  BY DEF Layout
<1>6. x \in Int
  <2>1. Rails(ColumnsOf(doc, fb))
    BY ColumnsAre
  <2>2. QED
    BY <1>1, <1>5, <2>1 DEF Rails
<1>7. /\ lane.y \in Int /\ lane.header \in Int /\ lane.footer \in Int
      /\ lane.height = laneTitleH + ContentHeight(doc) + lane.header + lane.footer
  BY <1>4, LanesAre
<1>8. ContentHeight(doc) \in Int /\ TopOffset(doc, n) \in Int
  BY HeightIs
<1>9. /\ b.id = n.id /\ b.lane = n.lane /\ b.col = n.col /\ b.width = n.width /\ b.height = n.height
      /\ b.x = x - q /\ b.y = lane.y + laneTitleH + lane.header + (content - n.height) \div 2 + n.offset
  <2> HIDE DEF xs, lanes, layout
  <2>1. QED
    BY DEF PlaceBox, NodeBox, xs, lanes
<1> HIDE DEF b, lane, layout, q, x
<1>10. content = ContentHeight(doc)
  BY <1>7, <1>8 DEF laneTitleH
<1> HIDE DEF content
<1>11. b.y = lane.y + laneTitleH + lane.header + TopOffset(doc, n)
  <2> DEFINE h == (ContentHeight(doc) - n.height) \div 2
  <2>1. TopOffset(doc, n) = h + n.offset
    BY DEF TopOffset
  <2>2. h \in Int
    <3>1. ContentHeight(doc) - n.height \in Int
      BY <1>1, <1>8
    <3>2. QED
      BY <3>1, Halved
  <2>3. b.y = lane.y + laneTitleH + lane.header + h + n.offset
    BY <1>9, <1>10
  <2> HIDE DEF h
  <2>4. QED
    BY <1>1, <1>7, <2>1, <2>2, <2>3 DEF laneTitleH
<1>12. b.y \in Int
  BY <1>7, <1>8, <1>11 DEF laneTitleH
<1>13. b.x \in Int /\ b.x + b.width = x + q
  BY <1>3, <1>6, <1>9
<1>14. QED
  BY <1>3, <1>6, <1>9, <1>11, <1>12, <1>13 DEF b, lane, layout, q, x

LEMMA BoxesAll ==
  ASSUME NEW doc, IsDocument(doc), NEW fb
  PROVE  /\ \A b \in Layout(doc, fb).boxes : \E n \in NodesOf(doc) : b = PlaceBox(doc, Layout(doc, fb), n)
         /\ \A n \in NodesOf(doc) : /\ PlaceBox(doc, Layout(doc, fb), n) \in Layout(doc, fb).boxes
                                    /\ BoxAt(Layout(doc, fb), n.id) = PlaceBox(doc, Layout(doc, fb), n)
<1> DEFINE layout == Layout(doc, fb)
<1>1. layout.boxes = {PlaceBox(doc, layout, n) : n \in NodesOf(doc)}
  <2> DEFINE xs == ColumnsOf(doc, fb)   lanes == [i \in DOMAIN doc.lanes |-> Lane(doc, fb, xs, i)]
  <2>1. layout.boxes = {NodeBox(doc, lanes, xs, n) : n \in NodesOf(doc)} /\ layout.columns = xs /\ layout.lanes = lanes
    BY DEF Layout
  <2> HIDE DEF xs, lanes, layout
  <2>2. QED
    BY <2>1 DEF PlaceBox
<1> HIDE DEF layout
<1>2. \A n : PlaceBox(doc, layout, n).id = n.id
  BY DEF PlaceBox, NodeBox
<1>3. \A m, n \in NodesOf(doc) : m.id = n.id => m = n
  BY DEF IsDocument, Distinguished, NodesOf
<1>4. ASSUME NEW n \in NodesOf(doc) PROVE BoxAt(layout, n.id) = PlaceBox(doc, layout, n)
  <2> DEFINE b == BoxAt(layout, n.id)
  <2>1. b \in layout.boxes /\ b.id = n.id
    <3>1. \E c \in layout.boxes : c.id = n.id
      BY <1>1, <1>2
    <3>2. QED
      BY <3>1, Zenon DEF BoxAt
  <2> HIDE DEF b
  <2>2. PICK m \in NodesOf(doc) : b = PlaceBox(doc, layout, m)
    BY <1>1, <2>1
  <2>3. m = n
    BY <1>2, <1>3, <2>1, <2>2
  <2>4. QED
    BY <2>2, <2>3 DEF b
<1>5. QED
  BY <1>1, <1>4 DEF layout

\* What a layout owes the document, part by part.
LEMMA ColumnsAreLeast ==
  ASSUME NEW doc, IsDocument(doc), NEW fb, FeedbackOk(fb)
  PROVE  ColumnsLeast(doc, fb, Layout(doc, fb))
<1> DEFINE xs == ColumnsOf(doc, fb)   gaps == Gaps(doc, fb)   s == Solve(gaps)
<1>1. Layout(doc, fb).columns = xs
  BY DEF Layout
<1>2. /\ Rails(xs) /\ \A c, d \in Columns : xs[c] - xs[d] = s[c] - s[d]
      /\ \A g \in gaps : xs[g.to] - xs[g.from] >= g.least
  BY ColumnsAre DEF Alike
<1>3. GapsOk(gaps)
  BY GapsAre
<1> HIDE DEF gaps
<1>4. /\ s[0] = Baseline(0)
      /\ \A c \in 1..5 : \/ s[c] = Baseline(c)
                         \/ \E g \in gaps : g.to = c /\ s[c] - s[g.from] = g.least
  <2>1. 0 \in Columns
    BY DEF Columns
  <2>2. QED
    BY <1>3, <2>1, Solved
<1> HIDE DEF xs, s
<1>5. ASSUME NEW c \in 1..5
      PROVE  xs[c] - xs[0] = 120 * c \/ \E g \in gaps : g.to = c /\ xs[c] - xs[g.from] = g.least
  <2>1. c \in Columns /\ 0 \in Columns
    BY DEF Columns
  <2>2. CASE s[c] = Baseline(c)
    <3>1. Baseline(c) - Baseline(0) = 120 * c
      BY DEF Baseline
    <3>2. s[c] - s[0] = 120 * c
      BY <1>4, <2>1, <2>2, <3>1
    <3>3. QED
      BY <1>2, <2>1, <3>2
  <2>3. ASSUME NEW g \in gaps, g.to = c, s[c] - s[g.from] = g.least
        PROVE  \E h \in gaps : h.to = c /\ xs[c] - xs[h.from] = h.least
    <3>1. g.from \in Columns
      BY <1>3 DEF GapsOk
    <3>2. xs[c] - xs[g.from] = g.least
      BY <1>2, <2>1, <2>3, <3>1
    <3>3. QED
      BY <2>3, <3>2
  <2>4. QED
    BY <1>4, <2>2, <2>3
<1>6. QED
  BY <1>1, <1>2, <1>5 DEF ColumnsLeast, xs, gaps

\* Nodes beside one another, whose boxes would else overlap, are in different columns far
\* enough apart; the others are one above the other.
LEMMA AsideIs ==
  ASSUME NEW doc, IsDocument(doc), Even(doc), NEW fb, FeedbackOk(fb),
         NEW m \in NodesOf(doc), NEW n \in NodesOf(doc), m.lane = n.lane, m.col < n.col
  PROVE  LET a == PlaceBox(doc, Layout(doc, fb), m)   b == PlaceBox(doc, Layout(doc, fb), n)
         IN  ~RectsOverlap(a, b, 8) /\ ~RectsOverlap(b, a, 8)
<1> DEFINE layout == Layout(doc, fb)   xs == layout.columns
           a == PlaceBox(doc, layout, m)   b == PlaceBox(doc, layout, n)   q == m.width \div 2   r == n.width \div 2
           lane == layout.lanes[LaneIndex(doc, m.lane)]   C == ContentHeight(doc)
           d == Distance(m.offset, n.offset)
<1>1. /\ a.width = m.width /\ a.height = m.height /\ xs[m.col] \in Int /\ q \in Int /\ m.width = 2 * q
      /\ a.x = xs[m.col] - q /\ a.y = lane.y + laneTitleH + lane.header + TopOffset(doc, m)
      /\ a.x \in Int /\ a.y \in Int /\ a.x + a.width = xs[m.col] + q
  BY BoxStands
<1>2. /\ b.width = n.width /\ b.height = n.height /\ xs[n.col] \in Int /\ r \in Int /\ n.width = 2 * r
      /\ b.x = xs[n.col] - r /\ b.y = lane.y + laneTitleH + lane.header + TopOffset(doc, n)
      /\ b.x \in Int /\ b.y \in Int /\ b.x + b.width = xs[n.col] + r
  BY BoxStands
<1>3. /\ m.height \in Nat /\ n.height \in Nat /\ m.width \in Nat /\ n.width \in Nat /\ m.offset \in Int /\ n.offset \in Int
      /\ m.col \in Columns /\ n.col \in Columns /\ m.lane \in {l.id : l \in ToSet(doc.lanes)}
  BY DocumentHolds
<1>4. lane.y \in Int /\ lane.header \in Int
  <2>1. LaneIndex(doc, m.lane) \in DOMAIN doc.lanes
    BY <1>3, LaneOfNode
  <2>2. QED
    BY <2>1, LanesAre
<1>5. C \in Int
  BY HeightIs
<1>6. TopOffset(doc, m) = (C - m.height) \div 2 + m.offset /\ TopOffset(doc, n) = (C - n.height) \div 2 + n.offset
  BY DEF TopOffset
<1>7. d = IF m.offset - n.offset >= n.offset - m.offset THEN m.offset - n.offset ELSE n.offset - m.offset
  <2>1. m.offset - n.offset \in Int /\ n.offset - m.offset \in Int
    BY <1>3
  <2>2. \A i, j \in Int : Largest({i, j}) = IF i >= j THEN i ELSE j
    BY LeastOfTwo
  <2>3. QED
    BY <2>1, <2>2 DEF Distance
<1>8. CASE verticalIntervalsOverlap(m, n, 8)
  <2> DEFINE g == Gapped(m, n, 8)
  <2>1. g \in Gaps(doc, fb)
    <3> DEFINE p == <<m, n>>
    <3>1. p \in {v \in NodesOf(doc) \X NodesOf(doc) :
                   v[1].lane = v[2].lane /\ v[1].col < v[2].col /\ verticalIntervalsOverlap(v[1], v[2], 8)}
      BY <1>8
    <3>2. g = Gapped(p[1], p[2], 8)
      OBVIOUS
    <3> HIDE DEF p, g
    <3>3. g \in NeighbourGaps(doc)
      BY <3>1, <3>2 DEF NeighbourGaps
    <3>4. QED
      BY <3>3 DEF Gaps
  <2>2. g.from = m.col /\ g.to = n.col /\ g.least = (m.width + n.width) \div 2 + 8
    BY DEF Gapped
  <2> HIDE DEF g
  <2>3. xs[n.col] - xs[m.col] >= (m.width + n.width) \div 2 + 8
    <3>1. xs = ColumnsOf(doc, fb)
      BY DEF Layout
    <3>2. QED
      BY <2>1, <2>2, <3>1, ColumnsAre
  <2> HIDE DEF q, r, xs, a, b, layout
  <2>4. (m.width + n.width) \div 2 = q + r
    <3>1. m.width + n.width = 2 * (q + r) /\ q + r \in Int
      BY <1>1, <1>2
    <3>2. \A i \in Int : (2 * i) \div 2 = i
      OBVIOUS
    <3>3. QED
      BY <3>1, <3>2
  <2>5. a.x + a.width + 8 <= b.x
    BY <1>1, <1>2, <2>3, <2>4
  <2>6. QED
    BY <2>5 DEF RectsOverlap, a, b, layout
<1>9. CASE ~verticalIntervalsOverlap(m, n, 8)
  <2>1. ~(2 * d < m.height + n.height + 2 * 8)
    BY <1>9 DEF verticalIntervalsOverlap
  <2> DEFINE s == (C - m.height) \div 2   t == (C - n.height) \div 2   base == lane.y + laneTitleH + lane.header
  <2>2. /\ s \in Int /\ 2 * s <= C - m.height /\ C - m.height <= 2 * s + 1
        /\ t \in Int /\ 2 * t <= C - n.height /\ C - n.height <= 2 * t + 1
    <3>1. \A i \in Int : i \div 2 \in Int /\ 2 * (i \div 2) <= i /\ i <= 2 * (i \div 2) + 1
      OBVIOUS
    <3>2. C - m.height \in Int /\ C - n.height \in Int
      BY <1>3, <1>5
    <3>3. QED
      BY <3>1, <3>2
  <2>3. base \in Int /\ a.y = base + (s + m.offset) /\ b.y = base + (t + n.offset)
    <3>1. base \in Int /\ a.y = base + TopOffset(doc, m) /\ b.y = base + TopOffset(doc, n)
      BY <1>1, <1>2, <1>4 DEF laneTitleH
    <3> HIDE DEF base, a, b
    <3>2. QED
      BY <1>6, <3>1
  <2> HIDE DEF s, t, base, a, b, d, C, layout, lane
  <2>4. a.y + a.height + 8 <= b.y \/ b.y + b.height + 8 <= a.y
    <3>1. CASE m.offset - n.offset >= n.offset - m.offset
      <4>1. 2 * (m.offset - n.offset) >= m.height + n.height + 16
        BY <1>3, <1>7, <2>1, <3>1
      <4>2. t + n.offset + n.height + 8 <= s + m.offset
        BY <1>3, <1>5, <2>2, <4>1
      <4>3. QED
        BY <1>2, <1>3, <2>2, <2>3, <4>2
    <3>2. CASE ~(m.offset - n.offset >= n.offset - m.offset)
      <4>1. 2 * (n.offset - m.offset) >= m.height + n.height + 16
        BY <1>3, <1>7, <2>1, <3>2
      <4>2. s + m.offset + m.height + 8 <= t + n.offset
        BY <1>3, <1>5, <2>2, <4>1
      <4>3. QED
        BY <1>1, <1>3, <2>2, <2>3, <4>2
    <3>3. QED
      BY <3>1, <3>2
  <2>5. QED
    BY <2>4 DEF RectsOverlap, a, b, layout
<1>10. QED
  BY <1>8, <1>9

LEMMA NodesAreApart ==
  ASSUME NEW doc, IsDocument(doc), Even(doc), NEW fb, FeedbackOk(fb)
  PROVE  NodesApart(Layout(doc, fb))
<1> DEFINE layout == Layout(doc, fb)
<1> SUFFICES ASSUME NEW a \in layout.boxes, NEW b \in layout.boxes, a.lane = b.lane, a.col # b.col
             PROVE  ~RectsOverlap(a, b, 8)
  BY DEF NodesApart
<1>1. PICK m \in NodesOf(doc) : a = PlaceBox(doc, layout, m)
  BY BoxesAll
<1>2. PICK n \in NodesOf(doc) : b = PlaceBox(doc, layout, n)
  BY BoxesAll
<1>3. m.lane = n.lane /\ m.col # n.col
  BY <1>1, <1>2 DEF PlaceBox, NodeBox
<1>4. m.col < n.col \/ n.col < m.col
  <2>1. m.col \in Columns /\ n.col \in Columns
    BY DocumentHolds
  <2>2. QED
    BY <1>3, <2>1 DEF Columns
<1> HIDE DEF layout
<1>5. CASE m.col < n.col
  BY <1>1, <1>2, <1>3, <1>5, AsideIs DEF layout
<1>6. CASE n.col < m.col
  BY <1>1, <1>2, <1>3, <1>6, AsideIs DEF layout
<1>7. QED
  BY <1>4, <1>5, <1>6

LEMMA RoomIsDirect ==
  ASSUME NEW doc, IsDocument(doc), Even(doc), NEW fb, FeedbackOk(fb)
  PROVE  DirectRoom(doc, Layout(doc, fb))
<1> DEFINE layout == Layout(doc, fb)   xs == layout.columns
<1> SUFFICES ASSUME NEW e \in Direct(doc)
             PROVE  LET m == BoxAt(layout, Outwards(doc, e)[1].id)   n == BoxAt(layout, Outwards(doc, e)[2].id)
                    IN  n.x - (m.x + m.width) >= IF ChannelLabel(e) THEN 28 ELSE LabelClearance(e)
  BY DEF DirectRoom
<1> DEFINE m == Outwards(doc, e)[1]   n == Outwards(doc, e)[2]
           a == PlaceBox(doc, layout, m)   b == PlaceBox(doc, layout, n)   q == m.width \div 2   r == n.width \div 2
           halves == (m.width + n.width) \div 2
<1>1. m \in NodesOf(doc) /\ n \in NodesOf(doc) /\ e \in Edges(doc)
  BY OutwardsAre
<1>2. BoxAt(layout, m.id) = a /\ BoxAt(layout, n.id) = b
  BY <1>1, BoxesAll
<1>3. m.col \in Columns /\ n.col \in Columns /\ m.width \in Nat /\ n.width \in Nat /\ e.label \in Nat
  BY <1>1, DocumentHolds
<1>4. xs[m.col] \in Int /\ q \in Int /\ m.width = 2 * q /\ a.x + a.width = xs[m.col] + q
  BY <1>1, BoxStands
<1>5. xs[n.col] \in Int /\ r \in Int /\ n.width = 2 * r /\ b.x = xs[n.col] - r
  BY <1>1, BoxStands
<1>6. LabelClearance(e) \in Int
  BY <1>3, LabelsAre
<1>7. ASSUME NEW least, Gapped(m, n, least) \in Gaps(doc, fb)
      PROVE  xs[n.col] - xs[m.col] >= halves + least
  <2> DEFINE g == Gapped(m, n, least)
  <2>1. g.from = m.col /\ g.to = n.col /\ g.least = halves + least
    BY DEF Gapped
  <2> HIDE DEF g, halves, m, n
  <2>2. xs = ColumnsOf(doc, fb)
    BY DEF Layout
  <2>3. g \in Gaps(doc, fb)
    BY <1>7 DEF g
  <2> HIDE DEF xs
  <2>4. xs[g.to] - xs[g.from] >= g.least
    BY <2>2, <2>3, ColumnsAre
  <2>5. QED
    BY <2>1, <2>4
<1>8. Gapped(m, n, 28) \in Gaps(doc, fb)
  BY DEF Gaps, DirectGaps
<1>9. ~ChannelLabel(e) => Gapped(m, n, LabelClearance(e)) \in Gaps(doc, fb)
  BY DEF Gaps, LabelGaps
<1> HIDE DEF m, n, a, b, q, r, xs, layout
<1>10. halves = q + r
  <2>1. m.width + n.width = 2 * (q + r) /\ q + r \in Int
    BY <1>4, <1>5
  <2>2. \A i \in Int : (2 * i) \div 2 = i
    OBVIOUS
  <2>3. QED
    BY <2>1, <2>2
<1> HIDE DEF halves
<1>11. CASE ChannelLabel(e)
  <2>1. xs[n.col] - xs[m.col] >= halves + 28
    BY <1>7, <1>8
  <2>2. b.x - (a.x + a.width) >= 28
    BY <1>4, <1>5, <1>10, <2>1
  <2>3. QED
    BY <1>2, <1>11, <2>2 DEF m, n, layout
<1>12. CASE ~ChannelLabel(e)
  <2>1. xs[n.col] - xs[m.col] >= halves + LabelClearance(e)
    BY <1>7, <1>9, <1>12
  <2>2. b.x - (a.x + a.width) >= LabelClearance(e)
    BY <1>4, <1>5, <1>6, <1>10, <2>1
  <2>3. QED
    BY <1>2, <1>12, <2>2 DEF m, n, layout
<1>13. QED
  BY <1>11, <1>12

\* Nodes, in their lane and in the frames of their groups.
LEMMA NodesContained ==
  ASSUME NEW doc, IsDocument(doc), Even(doc), NEW fb, FeedbackOk(fb), NEW n \in NodesOf(doc)
  PROVE  LET layout == Layout(doc, fb)   b == PlaceBox(doc, layout, n)   lane == layout.lanes[LaneIndex(doc, n.lane)]
         IN  /\ b.y >= lane.y + laneTitleH + lane.header
             /\ b.y + b.height <= lane.y + lane.height
             /\ b.x + b.width + 8 <= lane.x + lane.width
             /\ b.col = 0 => b.x >= lane.x + 8
<1> DEFINE layout == Layout(doc, fb)   b == PlaceBox(doc, layout, n)   i == LaneIndex(doc, n.lane)   lane == layout.lanes[i]
           xs == layout.columns   q == n.width \div 2   x == xs[n.col]   C == ContentHeight(doc)
<1>1. /\ b.width = n.width /\ b.height = n.height /\ b.col = n.col /\ x \in Int /\ q \in Int
      /\ b.x = x - q /\ b.y = lane.y + laneTitleH + lane.header + TopOffset(doc, n) /\ b.x + b.width = x + q
  BY BoxStands
<1>2. n.height \in Nat /\ n.lane \in {l.id : l \in ToSet(doc.lanes)}
  BY DocumentHolds
<1>3. i \in DOMAIN doc.lanes
  BY <1>2, LaneOfNode
<1>4. xs = ColumnsOf(doc, fb)
  BY DEF Layout
<1>5. /\ lane.x = laneX /\ lane.y \in Int /\ lane.width = LaneWidth(doc, xs) /\ lane.header \in Int /\ lane.footer \in Int
      /\ lane.header >= 0 /\ lane.footer >= 0 /\ lane.height = laneTitleH + C + lane.header + lane.footer
  BY <1>3, <1>4, LanesAre
<1>6. TopOffset(doc, n) \in Int /\ TopOffset(doc, n) >= 0 /\ TopOffset(doc, n) + n.height <= C /\ C \in Int
  BY HeightIs
<1>7. x + q + 8 <= laneX + LaneWidth(doc, xs)
  <2>1. Rails(xs)
    BY <1>4, ColumnsAre
  <2>2. QED
    BY <2>1, WidthIs
<1>8. n.col = 0 => x >= 48 + q
  <2>1. n.col = 0 => ColumnsOf(doc, fb)[0] >= 48 + n.width \div 2
    BY ColumnsHold
  <2>2. QED
    BY <1>4, <2>1
<1> HIDE DEF b, lane, layout, xs, x, q, C
<1>9. b.y >= lane.y + laneTitleH + lane.header /\ b.y + b.height <= lane.y + lane.height
  BY <1>1, <1>2, <1>5, <1>6 DEF laneTitleH
<1>10. b.x + b.width + 8 <= lane.x + lane.width
  BY <1>1, <1>5, <1>7
<1>11. b.col = 0 => b.x >= lane.x + 8
  BY <1>1, <1>5, <1>8 DEF laneX
<1>12. QED
  BY <1>9, <1>10, <1>11 DEF b, lane, layout

LEMMA GroupsContained ==
  ASSUME NEW doc, IsDocument(doc), Even(doc), NEW fb, FeedbackOk(fb), NEW g \in ToSet(doc.groups)
  PROVE  LET layout == Layout(doc, fb)   f == layout.frames[g]   lane == layout.lanes[LaneIndex(doc, g.lane)]
         IN  /\ f.x >= lane.x + 4 /\ f.x + f.width + 8 <= lane.x + lane.width
             /\ f.width >= TextWidth(g.label, 56) + 20
             /\ \A n \in HeldBy(doc, g) :
                  LET b == PlaceBox(doc, layout, n)
                  IN  /\ b.x >= f.x + 4 /\ b.x + b.width + 4 <= f.x + f.width
                      /\ b.y > f.y /\ b.y + b.height < f.y + f.height
<1> DEFINE layout == Layout(doc, fb)   f == layout.frames[g]   i == LaneIndex(doc, g.lane)   lane == layout.lanes[i]
           xs == layout.columns   C == ContentHeight(doc)   bounds == GroupBounds(doc, g, xs)
<1>1. i \in DOMAIN doc.lanes /\ doc.lanes[i].id = g.lane
  <2>1. g.lane \in {l.id : l \in ToSet(doc.lanes)}
    BY DEF IsDocument
  <2>2. QED
    BY <2>1, LaneOfNode
<1>2. xs = ColumnsOf(doc, fb) /\ Rails(xs)
  <2>1. xs = ColumnsOf(doc, fb)
    BY DEF Layout
  <2>2. QED
    BY <2>1, ColumnsAre
<1>3. /\ lane.x = laneX /\ lane.y \in Int /\ lane.width = LaneWidth(doc, xs) /\ lane.header \in Int /\ lane.footer \in Int
      /\ lane.header = FrameRoom(doc, xs, g.lane).header /\ lane.footer = FrameRoom(doc, xs, g.lane).footer
      /\ lane.height = laneTitleH + C + lane.header + lane.footer
  BY <1>1, <1>2, LanesAre
<1>4. /\ bounds.left \in Int /\ bounds.right \in Int /\ bounds.right - bounds.left >= TextWidth(g.label, 56) + 20
      /\ \A n \in HeldBy(doc, g) : bounds.left <= LeftOf(xs, n) /\ bounds.right >= RightOf(xs, n)
  BY <1>2, BoundsAre
<1>5. bounds.left >= 44
  BY <1>2, ColumnsHold
<1>6. bounds.right + 8 <= laneX + LaneWidth(doc, xs) /\ LaneWidth(doc, xs) \in Int
  BY <1>2, WidthIs
<1>7. /\ f.x = bounds.left /\ f.width = bounds.right - bounds.left
      /\ f.y = lane.y + laneTitleH + 8 /\ f.height = lane.height - laneTitleH - 8 - 4
  <2>1. layout.frames = [h \in ToSet(doc.groups) |-> GroupFrame(doc, layout.lanes, xs, h)]
    BY DEF Layout
  <2>2. f = GroupFrame(doc, layout.lanes, xs, g)
    BY <2>1
  <2> HIDE DEF f, xs, layout
  <2>3. QED
    BY <2>2 DEF GroupFrame
<1>8. C \in Int
  BY HeightIs
<1> HIDE DEF f, lane, bounds, C, i
<1>9. f.x >= lane.x + 4 /\ f.x + f.width + 8 <= lane.x + lane.width /\ f.width >= TextWidth(g.label, 56) + 20
  BY <1>3, <1>4, <1>5, <1>6, <1>7 DEF laneX
<1>10. ASSUME NEW n \in HeldBy(doc, g)
       PROVE  LET b == PlaceBox(doc, layout, n)
              IN  /\ b.x >= f.x + 4 /\ b.x + b.width + 4 <= f.x + f.width
                  /\ b.y > f.y /\ b.y + b.height < f.y + f.height
  <2> DEFINE b == PlaceBox(doc, layout, n)   q == n.width \div 2   x == xs[n.col]   t == TopOffset(doc, n)
  <2>1. n \in NodesOf(doc) /\ n.lane = g.lane /\ n.col \in g.from..g.to
    BY DEF HeldBy
  <2>2. /\ b.width = n.width /\ b.height = n.height /\ x \in Int /\ q \in Int
        /\ b.x = x - q /\ b.y = lane.y + laneTitleH + lane.header + t /\ b.x + b.width = x + q
    BY <2>1, BoxStands DEF lane, i
  <2>3. n.height \in Nat /\ t \in Int
    BY <2>1, DocumentHolds, HeightIs
  <2>4. bounds.left <= x - q - 4 /\ bounds.right >= x + q + 4
    BY <1>4 DEF LeftOf, RightOf
  <2>5. lane.header >= 9 - t /\ lane.footer >= 1 - (C - 4 - t - n.height)
    BY <1>3, <2>1, RoomIs DEF C
  <2> HIDE DEF b, q, x, t
  <2>6. b.x >= f.x + 4 /\ b.x + b.width + 4 <= f.x + f.width
    BY <1>4, <1>7, <2>2, <2>4
  <2>7. b.y > f.y
    BY <1>3, <1>7, <2>2, <2>3, <2>5 DEF laneTitleH
  <2>8. b.y + b.height < f.y + f.height
    BY <1>3, <1>7, <1>8, <2>2, <2>3, <2>5 DEF laneTitleH
  <2>9. QED
    BY <2>6, <2>7, <2>8 DEF b
<1>11. QED
  BY <1>9, <1>10 DEF f, lane, i

LEMMA ContainedIs ==
  ASSUME NEW doc, IsDocument(doc), Even(doc), NEW fb, FeedbackOk(fb)
  PROVE  Contained(doc, Layout(doc, fb))
<1> DEFINE layout == Layout(doc, fb)   xs == layout.columns
<1>1. ASSUME NEW b \in layout.boxes
      PROVE  LET lane == layout.lanes[LaneIndex(doc, b.lane)]
             IN  /\ b.y >= lane.y + laneTitleH + lane.header
                 /\ b.y + b.height <= lane.y + lane.height
                 /\ b.x + b.width + 8 <= lane.x + lane.width
                 /\ b.col = 0 => b.x >= lane.x + 8
  <2>1. PICK n \in NodesOf(doc) : b = PlaceBox(doc, layout, n)
    BY BoxesAll
  <2>2. b.lane = n.lane
    BY <2>1 DEF PlaceBox, NodeBox
  <2> HIDE DEF layout
  <2>3. QED
    BY <2>1, <2>2, NodesContained DEF layout
<1>2. ASSUME NEW g \in ToSet(doc.groups)
      PROVE  LET f == layout.frames[g]   lane == layout.lanes[LaneIndex(doc, g.lane)]
             IN  /\ f.x >= lane.x + 4 /\ f.x + f.width + 8 <= lane.x + lane.width
                 /\ f.width >= TextWidth(g.label, 56) + 20
                 /\ \A b \in {c \in layout.boxes : c.lane = g.lane /\ c.col \in g.from..g.to} :
                      /\ b.x >= f.x + 4 /\ b.x + b.width + 4 <= f.x + f.width
                      /\ b.y > f.y /\ b.y + b.height < f.y + f.height
  <2>1. ASSUME NEW b \in {c \in layout.boxes : c.lane = g.lane /\ c.col \in g.from..g.to}
        PROVE  \E n \in HeldBy(doc, g) : b = PlaceBox(doc, layout, n)
    <3>1. PICK n \in NodesOf(doc) : b = PlaceBox(doc, layout, n)
      BY BoxesAll
    <3>2. n.lane = g.lane /\ n.col \in g.from..g.to
      BY <2>1, <3>1 DEF PlaceBox, NodeBox
    <3>3. QED
      BY <3>1, <3>2 DEF HeldBy
  <2> HIDE DEF layout
  <2>2. QED
    BY <2>1, GroupsContained DEF layout
<1>3. ASSUME NEW p \in ToSet(doc.phases) PROVE PhaseLeft(p, xs) >= 16
  <2>1. xs = ColumnsOf(doc, fb)
    BY DEF Layout
  <2>2. QED
    BY <2>1, ColumnsHold
<1>4. \A i \in 1..(Len(doc.lanes) - 1) : layout.lanes[i].y + layout.lanes[i].height + 20 <= layout.lanes[i + 1].y
  BY LanesAre
<1> HIDE DEF layout
<1>5. QED
  BY <1>1, <1>2, <1>3, <1>4 DEF Contained, layout

LEMMA LayoutKeeps ==
  ASSUME NEW doc, IsDocument(doc), Even(doc), NEW fb, FeedbackOk(fb)
  PROVE  LayoutKept(doc, fb, Layout(doc, fb))
BY ColumnsAreLeast, NodesAreApart, RoomIsDirect, ContainedIs DEF LayoutKept

\* What a layout owes a document does not depend on the order it is written in.
LEMMA OwedAlike ==
  ASSUME NEW doc, NEW out, NodesOf(out) = NodesOf(doc), Edges(out) = Edges(doc), out.lanes = doc.lanes,
         ToSet(out.phases) = ToSet(doc.phases), ToSet(out.groups) = ToSet(doc.groups),
         NEW fb, NEW layout, LayoutKept(out, fb, layout)
  PROVE  LayoutKept(doc, fb, layout)
<1>1. \A id : NodeOf(out, id) = NodeOf(doc, id)
  BY DEF NodeOf
<1>2. Direct(out) = Direct(doc)
  <2>1. \A e : e \in Direct(out) <=> e \in Direct(doc)
    <3>1. SUFFICES ASSUME NEW e PROVE e \in Direct(out) <=> e \in Direct(doc)
      OBVIOUS
    <3>2. NodeOf(out, e.from) = NodeOf(doc, e.from) /\ NodeOf(out, e.to) = NodeOf(doc, e.to)
      BY <1>1
    <3>3. QED  BY <3>2 DEF Direct
  <2>2. QED  BY <2>1, Zenon
<1>3. \A e : Outwards(out, e) = Outwards(doc, e)
  BY <1>1 DEF Outwards
<1>4. NeighbourGaps(out) = NeighbourGaps(doc)
  BY DEF NeighbourGaps
<1>5. DirectGaps(out) = DirectGaps(doc)
  BY <1>2, <1>3 DEF DirectGaps
<1>6. LabelGaps(out) = LabelGaps(doc)
  BY <1>2, <1>3 DEF LabelGaps
<1>7. Gaps(out, fb) = Gaps(doc, fb)
  BY <1>4, <1>5, <1>6 DEF Gaps
<1>8. \A id : LaneIndex(out, id) = LaneIndex(doc, id)
  BY DEF LaneIndex
<1>9. ColumnsLeast(doc, fb, layout)
  BY <1>7 DEF LayoutKept, ColumnsLeast
<1>10. DirectRoom(doc, layout)
  BY <1>2, <1>3, Zenon DEF LayoutKept, DirectRoom
<1>11. Contained(doc, layout)
  BY <1>8, Zenon DEF LayoutKept, Contained
<1>12. QED
  BY <1>9, <1>10, <1>11 DEF LayoutKept

\* The layout, for every document: what has been compiled keeps every distance it was asked
\* for and no more, its nodes are apart and in their lanes and frames, and its straight
\* edges have room.
THEOREM LayoutsAreSound == CompilerSpec => []LayoutSound
<1>1. RoundsInv => LayoutSound
  <2> SUFFICES ASSUME RoundsInv, Outcome("ok") PROVE LayoutKept(work.doc, feedback, made.layout)
    BY DEF LayoutSound
  <2> DEFINE out == canonicalReadableWorkflow(work.doc)
  <2>1. work \in Documents /\ work.what \in {"routes", "layout"} /\ made.layout = Layout(out, feedback) /\ FeedbackOk(feedback)
    BY DEF RoundsInv, Outcome
  <2>2. IsDocument(work.doc) /\ Even(work.doc)
    BY <2>1, DocumentsAssumption
  <2>3. /\ IsDocument(out) /\ Edges(out) = Edges(work.doc) /\ out.lanes = work.doc.lanes
        /\ ToSet(out.nodes) = ToSet(work.doc.nodes)
        /\ ToSet(out.phases) = ToSet(work.doc.phases) /\ ToSet(out.groups) = ToSet(work.doc.groups)
    BY <2>2, CanonicalIsDocument, CanonicalHolds
  <2> HIDE DEF out
  <2>4. NodesOf(out) = NodesOf(work.doc) /\ Even(out)
    BY <2>2, <2>3 DEF NodesOf, Even
  <2>5. LayoutKept(out, feedback, made.layout)
    BY <2>1, <2>3, <2>4, LayoutKeeps DEF out
  <2>6. QED
    BY <2>3, <2>4, <2>5, OwedAlike
<1>2. QED
  BY <1>1, RoundsHold, PTL

-----------------------------------------------------------------------------
(* The search for a channel                                                 *)

Halve(F, s) ==
  LET mid == (s.low + s.high + 1) \div 2
  IN  IF s.high - s.low <= 1 THEN s
      ELSE IF mid \in F THEN [s EXCEPT !.high = mid] ELSE [s EXCEPT !.low = mid]
ProbeAt(first, growth, k) == first + growth * Growths[k + 1]
TriedProbes(base, first, growth) == {k \in 0..6 : ProbeAt(first, growth, k) > base}
HitProbes(F, base, first, growth) == {k \in TriedProbes(base, first, growth) : ProbeAt(first, growth, k) \in F}
FirstSpan(F, base, first, growth) ==
  LET hit == Least(HitProbes(F, base, first, growth))
  IN  [low |-> IF hit = Least(TriedProbes(base, first, growth)) THEN base ELSE ProbeAt(first, growth, hit - 1),
       high |-> ProbeAt(first, growth, hit)]
Halvings(F, span, n, g) == g = [i \in 0..n |-> IF i = 0 THEN span ELSE Halve(F, g[i - 1])]

Channel(w) == Search(LAMBDA v : v \in w.feasible, w.base, w.first, w.growth)
LEMMA ChannelIs ==
  ASSUME NEW w
  PROVE  Channel(w)
           = IF HitProbes(w.feasible, w.base, w.first, w.growth) = {} THEN {}
             ELSE {(CHOOSE g : Halvings(w.feasible, FirstSpan(w.feasible, w.base, w.first, w.growth), 53, g))[53].high}
BY Zenon DEF Channel, Search, Halvings, FirstSpan, HitProbes, TriedProbes, ProbeAt, Halve

\* Each probe is beyond the one before it.
LEMMA ProbesAre ==
  ASSUME NEW first \in Int, NEW growth \in Nat \ {0}
  PROVE  /\ {ProbeAt(first, growth, k) : k \in 0..6} = {first + growth * n : n \in {0, 1, 3, 7, 15, 31, 63}}
         /\ \A k \in 0..6 : /\ ProbeAt(first, growth, k) \in Int /\ ProbeAt(first, growth, k) <= first + 63 * growth
                            /\ ProbeAt(first, growth, k) >= first
         /\ \A j, k \in 0..6 : j < k => ProbeAt(first, growth, j) < ProbeAt(first, growth, k)
<1> DEFINE at(k) == ProbeAt(first, growth, k)
<1>1. /\ at(0) = first + growth * 0 /\ at(1) = first + growth * 1 /\ at(2) = first + growth * 3 /\ at(3) = first + growth * 7
      /\ at(4) = first + growth * 15 /\ at(5) = first + growth * 31 /\ at(6) = first + growth * 63
  BY DEF ProbeAt, Growths
<1>2. \A k \in 0..6 : k = 0 \/ k = 1 \/ k = 2 \/ k = 3 \/ k = 4 \/ k = 5 \/ k = 6
  OBVIOUS
<1> HIDE DEF at
<1>3. \A k \in 0..6 : at(k) \in {first + growth * n : n \in {0, 1, 3, 7, 15, 31, 63}}
  BY <1>1, <1>2
<1>4. \A n \in {0, 1, 3, 7, 15, 31, 63} : \E k \in 0..6 : first + growth * n = at(k)
  <2>1. 0 \in 0..6 /\ 1 \in 0..6 /\ 2 \in 0..6 /\ 3 \in 0..6 /\ 4 \in 0..6 /\ 5 \in 0..6 /\ 6 \in 0..6
    OBVIOUS
  <2>2. QED
    BY <1>1, <2>1
<1>5. {at(k) : k \in 0..6} = {first + growth * n : n \in {0, 1, 3, 7, 15, 31, 63}}
  BY <1>3, <1>4
<1>6. /\ at(0) = first /\ at(1) = at(0) + growth /\ at(2) = at(1) + 2 * growth /\ at(3) = at(2) + 4 * growth
      /\ at(4) = at(3) + 8 * growth /\ at(5) = at(4) + 16 * growth /\ at(6) = at(5) + 32 * growth
  BY <1>1
<1>7. /\ at(0) \in Int /\ at(1) \in Int /\ at(2) \in Int /\ at(3) \in Int /\ at(4) \in Int /\ at(5) \in Int /\ at(6) \in Int
      /\ at(0) < at(1) /\ at(1) < at(2) /\ at(2) < at(3) /\ at(3) < at(4) /\ at(4) < at(5) /\ at(5) < at(6)
      /\ at(6) = first + 63 * growth
  BY <1>6
<1>8. \A k \in 0..6 : at(k) \in Int /\ at(k) <= first + 63 * growth /\ at(k) >= first
  BY <1>2, <1>6, <1>7
<1>9. ASSUME NEW j \in 0..6, NEW k \in 0..6, j < k PROVE at(j) < at(k)
  BY <1>2, <1>7, <1>9
<1>10. QED
  BY <1>5, <1>8, <1>9 DEF at

\* Halving keeps a place that is feasible on the one side and one that is not on the other,
\* or the place from which everything is sought.
Bracketed(F, base, s) ==
  /\ s = [low |-> s.low, high |-> s.high] /\ s.low \in Int /\ s.high \in Int /\ s.low < s.high /\ base <= s.low
  /\ s.high \in F /\ (s.low = base \/ s.low \notin F)
LEMMA HalveKeeps ==
  ASSUME NEW F, NEW base \in Int, NEW s, Bracketed(F, base, s)
  PROVE  /\ Bracketed(F, base, Halve(F, s))
         /\ \A half \in Nat \ {0} : s.high - s.low <= 2 * half => Halve(F, s).high - Halve(F, s).low <= half
<1> DEFINE mid == (s.low + s.high + 1) \div 2   t == Halve(F, s)
<1>1. s.low \in Int /\ s.high \in Int /\ s.low < s.high
  BY DEF Bracketed
<1>2. mid \in Int /\ 2 * mid <= s.low + s.high + 1 /\ s.low + s.high <= 2 * mid
  <2>1. \A i \in Int : i \div 2 \in Int /\ 2 * (i \div 2) <= i /\ i <= 2 * (i \div 2) + 1
    OBVIOUS
  <2>2. s.low + s.high + 1 \in Int
    BY <1>1
  <2>3. (s.low + s.high + 1) \div 2 \in Int /\ 2 * ((s.low + s.high + 1) \div 2) <= s.low + s.high + 1
        /\ s.low + s.high + 1 <= 2 * ((s.low + s.high + 1) \div 2) + 1
    BY <2>1, <2>2
  <2> HIDE DEF mid
  <2>4. mid = (s.low + s.high + 1) \div 2
    BY DEF mid
  <2>5. mid \in Int /\ 2 * mid <= s.low + s.high + 1 /\ s.low + s.high + 1 <= 2 * mid + 1
    BY <2>3, <2>4
  <2>6. QED
    BY <1>1, <2>5
<1>3. t = IF s.high - s.low <= 1 THEN s ELSE IF mid \in F THEN [s EXCEPT !.high = mid] ELSE [s EXCEPT !.low = mid]
  BY DEF Halve
<1> HIDE DEF mid, t
<1>4. CASE s.high - s.low <= 1
  <2>1. t = s
    BY <1>3, <1>4
  <2>2. QED
    BY <1>1, <1>4, <2>1 DEF t
<1>5. CASE ~(s.high - s.low <= 1) /\ mid \in F
  <2>1. t = [s EXCEPT !.high = mid]
    BY <1>3, <1>5
  <2>2. t.low = s.low /\ t.high = mid /\ t = [low |-> t.low, high |-> t.high]
    BY <2>1 DEF Bracketed
  <2>3. s.low < mid
    BY <1>1, <1>2, <1>5
  <2>4. Bracketed(F, base, t)
    BY <1>1, <1>2, <1>5, <2>2, <2>3 DEF Bracketed
  <2>5. \A half \in Nat \ {0} : s.high - s.low <= 2 * half => mid - s.low <= half
    BY <1>1, <1>2
  <2>6. QED
    BY <2>2, <2>4, <2>5 DEF t
<1>6. CASE ~(s.high - s.low <= 1) /\ mid \notin F
  <2>1. t = [s EXCEPT !.low = mid]
    BY <1>3, <1>6
  <2>2. t.low = mid /\ t.high = s.high /\ t = [low |-> t.low, high |-> t.high]
    BY <2>1 DEF Bracketed
  <2>3. mid < s.high /\ s.low <= mid
    BY <1>1, <1>2, <1>6
  <2>4. Bracketed(F, base, t)
    BY <1>1, <1>2, <1>6, <2>2, <2>3 DEF Bracketed
  <2>5. \A half \in Nat \ {0} : s.high - s.low <= 2 * half => s.high - mid <= half
    BY <1>1, <1>2
  <2>6. QED
    BY <2>2, <2>4, <2>5 DEF t
<1>7. QED
  BY <1>4, <1>5, <1>6

LEMMA HalvingsExist ==
  ASSUME NEW F, NEW span, NEW N \in Nat PROVE \E g : Halvings(F, span, N, g)
<1> DEFINE Has(n) == \E g : Halvings(F, span, n, g)
<1>1. Has(0)
  <2> DEFINE g == [i \in 0..0 |-> span]
  <2>1. g = [i \in 0..0 |-> IF i = 0 THEN span ELSE Halve(F, g[i - 1])]
    OBVIOUS
  <2>2. Halvings(F, span, 0, g)
    BY <2>1 DEF Halvings
  <2>3. QED
    BY <2>2
<1>2. ASSUME NEW n \in 0..N, NEW g, Halvings(F, span, n, g) PROVE Has(n + 1)
  <2> DEFINE h == [i \in 0..(n + 1) |-> IF i <= n THEN g[i] ELSE Halve(F, g[n])]
  <2>1. \A i \in 0..n : i \in 0..(n + 1) /\ h[i] = g[i]
    OBVIOUS
  <2>2. \A i \in 0..n : g[i] = IF i = 0 THEN span ELSE Halve(F, g[i - 1])
    BY <1>2 DEF Halvings
  <2>3. h[n + 1] = Halve(F, g[n])
    OBVIOUS
  <2>4. h = [i \in 0..(n + 1) |-> h[i]]
    OBVIOUS
  <2> HIDE DEF h
  <2>5. ASSUME NEW i \in 0..(n + 1) PROVE h[i] = IF i = 0 THEN span ELSE Halve(F, h[i - 1])
    <3>1. CASE i = 0
      BY <2>1, <2>2, <3>1
    <3>2. CASE i \in 1..n
      <4>1. i - 1 \in 0..n /\ i \in 0..n /\ i # 0
        BY <3>2
      <4>2. QED
        BY <2>1, <2>2, <4>1
    <3>3. CASE i = n + 1
      <4>1. n \in 0..n /\ n + 1 - 1 = n /\ n + 1 # 0
        OBVIOUS
      <4>2. QED
        BY <2>1, <2>3, <3>3, <4>1
    <3>4. QED
      BY <3>1, <3>2, <3>3
  <2>6. h = [i \in 0..(n + 1) |-> IF i = 0 THEN span ELSE Halve(F, h[i - 1])]
    BY <2>4, <2>5
  <2>7. QED
    BY <2>6 DEF Halvings
<1> DEFINE Some == {n \in 0..N : Has(n)}
<1> HIDE DEF Has
<1>3. 0 \in Some /\ \A n \in 0..N : n \in Some /\ n < N => n + 1 \in Some
  <2>1. ASSUME NEW n \in 0..N, Has(n) PROVE Has(n + 1)
    BY <1>2, <2>1 DEF Has
  <2>2. QED
    BY <1>1, <2>1
<1> HIDE DEF Some
<1>4. N \in Some
  BY <1>3, CountUp
<1>5. QED
  BY <1>4 DEF Some, Has

\* Fifty-three halvings leave nothing between the two.
LEMMA HalvedIs ==
  ASSUME NEW F, NEW base \in Int, NEW span, Bracketed(F, base, span), span.high - span.low <= MaxReach,
         NEW g, Halvings(F, span, 53, g)
  PROVE  Bracketed(F, base, g[53]) /\ g[53].high - g[53].low <= 1
<1> DEFINE N == 53   gap(i) == g[i].high - g[i].low
<1>1. g[0] = span /\ \A i \in 0..52 : g[i + 1] = Halve(F, g[i])
  <2>1. \A i \in 0..53 : g[i] = IF i = 0 THEN span ELSE Halve(F, g[i - 1])
    BY DEF Halvings
  <2>2. ASSUME NEW i \in 0..52 PROVE g[i + 1] = Halve(F, g[i])
    <3>1. i + 1 \in 0..53 /\ i + 1 # 0 /\ i + 1 - 1 = i
      OBVIOUS
    <3>2. QED
      BY <2>1, <3>1
  <2>3. 0 \in 0..53
    OBVIOUS
  <2>4. QED
    BY <2>1, <2>2, <2>3
<1> DEFINE S == {n \in 0..N : Bracketed(F, base, g[n])}
<1>2. \A n \in 0..N : n \in S
  <2>1. 0 \in S
    BY <1>1
  <2>2. ASSUME NEW n \in 0..N, n \in S, n < N PROVE n + 1 \in S
    <3>1. n \in 0..52 /\ n + 1 \in 0..N /\ Bracketed(F, base, g[n])
      BY <2>2
    <3>2. Bracketed(F, base, Halve(F, g[n]))
      BY <3>1, HalveKeeps
    <3>3. Bracketed(F, base, g[n + 1])
      BY <1>1, <3>1, <3>2
    <3>4. QED
      BY <3>1, <3>3
  <2> HIDE DEF S
  <2>3. QED
    BY <2>1, <2>2, CountUp
<1>3. ASSUME NEW i \in 0..52, NEW half \in Nat \ {0}, gap(i) <= 2 * half PROVE gap(i + 1) <= half
  <2>1. Bracketed(F, base, g[i])
    BY <1>2
  <2>2. g[i + 1] = Halve(F, g[i])
    BY <1>1
  <2>3. QED
    BY <1>3, <2>1, <2>2, HalveKeeps
<1>4. gap(0) <= 1073741824
  BY <1>1 DEF MaxReach
<1> HIDE DEF gap
<1>5. ASSUME NEW i \in 0..42, NEW least \in Nat \ {0}, gap(i) <= 1024 * least PROVE gap(i + 10) <= least
  <2>1. gap(i + 1) <= 512 * least
    <3>1. i \in 0..52 /\ 512 * least \in Nat \ {0} /\ 1024 * least = 2 * (512 * least)
      OBVIOUS
    <3>2. QED
      BY <1>3, <1>5, <3>1
  <2>2. gap(i + 2) <= 256 * least
    <3>1. i + 1 \in 0..52 /\ 256 * least \in Nat \ {0} /\ 512 * least = 2 * (256 * least) /\ i + 1 + 1 = i + 2
      OBVIOUS
    <3>2. QED
      BY <1>3, <2>1, <3>1
  <2>3. gap(i + 3) <= 128 * least
    <3>1. i + 2 \in 0..52 /\ 128 * least \in Nat \ {0} /\ 256 * least = 2 * (128 * least) /\ i + 2 + 1 = i + 3
      OBVIOUS
    <3>2. QED
      BY <1>3, <2>2, <3>1
  <2>4. gap(i + 4) <= 64 * least
    <3>1. i + 3 \in 0..52 /\ 64 * least \in Nat \ {0} /\ 128 * least = 2 * (64 * least) /\ i + 3 + 1 = i + 4
      OBVIOUS
    <3>2. QED
      BY <1>3, <2>3, <3>1
  <2>5. gap(i + 5) <= 32 * least
    <3>1. i + 4 \in 0..52 /\ 32 * least \in Nat \ {0} /\ 64 * least = 2 * (32 * least) /\ i + 4 + 1 = i + 5
      OBVIOUS
    <3>2. QED
      BY <1>3, <2>4, <3>1
  <2>6. gap(i + 6) <= 16 * least
    <3>1. i + 5 \in 0..52 /\ 16 * least \in Nat \ {0} /\ 32 * least = 2 * (16 * least) /\ i + 5 + 1 = i + 6
      OBVIOUS
    <3>2. QED
      BY <1>3, <2>5, <3>1
  <2>7. gap(i + 7) <= 8 * least
    <3>1. i + 6 \in 0..52 /\ 8 * least \in Nat \ {0} /\ 16 * least = 2 * (8 * least) /\ i + 6 + 1 = i + 7
      OBVIOUS
    <3>2. QED
      BY <1>3, <2>6, <3>1
  <2>8. gap(i + 8) <= 4 * least
    <3>1. i + 7 \in 0..52 /\ 4 * least \in Nat \ {0} /\ 8 * least = 2 * (4 * least) /\ i + 7 + 1 = i + 8
      OBVIOUS
    <3>2. QED
      BY <1>3, <2>7, <3>1
  <2>9. gap(i + 9) <= 2 * least
    <3>1. i + 8 \in 0..52 /\ 2 * least \in Nat \ {0} /\ 4 * least = 2 * (2 * least) /\ i + 8 + 1 = i + 9
      OBVIOUS
    <3>2. QED
      BY <1>3, <2>8, <3>1
  <2>10. QED
    <3>1. i + 9 \in 0..52 /\ i + 9 + 1 = i + 10
      OBVIOUS
    <3>2. QED
      BY <1>3, <2>9, <3>1
<1>6. gap(30) <= 1
  <2>1. gap(10) <= 1048576
    <3>1. 0 \in 0..42 /\ 1048576 \in Nat \ {0} /\ 1024 * 1048576 = 1073741824 /\ 0 + 10 = 10
      OBVIOUS
    <3>2. QED
      BY <1>4, <1>5, <3>1
  <2>2. gap(20) <= 1024
    <3>1. 10 \in 0..42 /\ 1024 \in Nat \ {0} /\ 1024 * 1024 = 1048576 /\ 10 + 10 = 20
      OBVIOUS
    <3>2. QED
      BY <1>5, <2>1, <3>1
  <2>3. 20 \in 0..42 /\ 1 \in Nat \ {0} /\ 1024 * 1 = 1024 /\ 20 + 10 = 30
    OBVIOUS
  <2>4. QED
    BY <1>5, <2>2, <2>3
<1> DEFINE T == {n \in 0..23 : gap(30 + n) <= 1}
<1>7. \A n \in 0..23 : n \in T
  <2>1. 0 \in T
    BY <1>6
  <2>2. ASSUME NEW n \in 0..23, n \in T, n < 23 PROVE n + 1 \in T
    <3>1. 30 + n \in 0..52 /\ 30 + n + 1 = 30 + (n + 1) /\ n + 1 \in 0..23 /\ gap(30 + n) <= 1
      BY <2>2
    <3>2. gap(30 + n) <= 2 * 1
      <4>1. gap(30 + n) \in Int
        <5>1. Bracketed(F, base, g[30 + n])
          BY <1>2, <3>1
        <5>2. QED
          BY <5>1 DEF Bracketed, gap
      <4>2. QED
        BY <3>1, <4>1
    <3>3. 1 \in Nat \ {0}
      OBVIOUS
    <3>4. gap(30 + n + 1) <= 1
      BY <1>3, <3>1, <3>2, <3>3
    <3>5. QED
      BY <3>1, <3>4
  <2>3. 23 \in Nat
    OBVIOUS
  <2> HIDE DEF T
  <2>4. QED
    BY <2>1, <2>2, <2>3, CountUp
<1>8. 23 \in 0..23 /\ 30 + 23 = 53 /\ 53 \in 0..N
  OBVIOUS
<1>9. gap(53) <= 1
  BY <1>7, <1>8
<1>10. QED
  BY <1>2, <1>8, <1>9 DEF gap

\* The first probe that is feasible, and what is not right before it.
LEMMA ProbesEnd ==
  ASSUME NEW tried \in SUBSET (0..6), NEW hits \in SUBSET tried, NEW some \in hits
  PROVE  /\ Least(hits) \in hits /\ \A k \in hits : Least(hits) <= k
         /\ Least(tried) \in tried /\ \A k \in tried : Least(tried) <= k
<1>1. \A a, b \in Int : IsFiniteSet(a..b)
  BY FS_Interval
<1>2. 0 \in Int /\ 6 \in Int
  OBVIOUS
<1>3. IsFiniteSet(0..6)
  BY <1>1, <1>2
<1>4. IsFiniteSet(tried)
  BY <1>3, FS_Subset
<1>5. IsFiniteSet(hits)
  BY <1>4, FS_Subset
<1>6. \A k \in tried : k \in Int
  OBVIOUS
<1>7. some \in tried /\ \A k \in hits : k \in Int
  BY <1>6
<1>8. Least(hits) \in hits /\ \A k \in hits : Least(hits) <= k
  <2>1. hits \in SUBSET Int
    BY <1>7
  <2>2. hits # {}
    OBVIOUS
  <2>3. QED
    BY <1>5, <2>1, <2>2, EndsOf
<1>9. Least(tried) \in tried /\ \A k \in tried : Least(tried) <= k
  <2>1. tried \in SUBSET Int
    BY <1>6
  <2>2. tried # {}
    BY <1>7
  <2>3. QED
    BY <1>4, <2>1, <2>2, EndsOf
<1>10. QED
  BY <1>8, <1>9

InReach(base, first, growth) ==
  base \in Int /\ first \in Int /\ growth \in Nat \ {0} /\ first + 63 * growth - base <= MaxReach
LEMMA FirstSpanIs ==
  ASSUME NEW F, NEW base, NEW first, NEW growth, InReach(base, first, growth),
         NEW some \in HitProbes(F, base, first, growth)
  PROVE  /\ Bracketed(F, base, FirstSpan(F, base, first, growth))
         /\ FirstSpan(F, base, first, growth).high - FirstSpan(F, base, first, growth).low <= MaxReach
<1>0. base \in Int /\ first \in Int /\ growth \in Nat \ {0} /\ first + 63 * growth - base <= MaxReach
  BY DEF InReach
<1> DEFINE at(k) == ProbeAt(first, growth, k)
<1>1. /\ \A k \in 0..6 : at(k) \in Int /\ at(k) <= first + 63 * growth /\ at(k) >= first
      /\ \A j, k \in 0..6 : j < k => at(j) < at(k)
  BY <1>0, ProbesAre
<1>2. PICK tried, hits : tried = TriedProbes(base, first, growth) /\ hits = HitProbes(F, base, first, growth)
  OBVIOUS
<1>3. /\ tried \in SUBSET (0..6) /\ hits \in SUBSET tried /\ some \in hits /\ \A k \in 0..6 : k \in tried <=> at(k) > base
      /\ \A k \in tried : k \in hits <=> at(k) \in F
  BY <1>0, <1>1, <1>2 DEF TriedProbes, HitProbes
<1>4. PICK hit, one, span : /\ hit = Least(hits) /\ one = Least(tried) /\ span = FirstSpan(F, base, first, growth)
  OBVIOUS
<1>5. span = [low |-> IF hit = one THEN base ELSE at(hit - 1), high |-> at(hit)]
  BY <1>2, <1>4 DEF FirstSpan
<1> HIDE DEF at
<1>6. hit \in hits /\ (\A k \in hits : hit <= k) /\ one \in tried /\ \A k \in tried : one <= k
  BY <1>3, <1>4, ProbesEnd
<1>7. hit \in 0..6 /\ one \in 0..6 /\ one <= hit /\ at(hit) > base /\ at(hit) \in F /\ at(one) > base
  BY <1>3, <1>6
<1>8. CASE hit = one
  <2>1. span = [low |-> base, high |-> at(hit)]
    BY <1>5, <1>8
  <2>2. span.low = base /\ span.high = at(hit) /\ span = [low |-> span.low, high |-> span.high]
    BY <2>1
  <2>3. at(hit) \in Int /\ at(hit) - base <= MaxReach
    BY <1>0, <1>1, <1>7 DEF MaxReach
  <2>4. Bracketed(F, base, span)
    BY <1>0, <1>7, <2>2, <2>3 DEF Bracketed
  <2>5. QED
    BY <1>4, <2>2, <2>3, <2>4
<1>9. CASE hit # one
  <2>1. span = [low |-> at(hit - 1), high |-> at(hit)]
    BY <1>5, <1>9
  <2>2. span.low = at(hit - 1) /\ span.high = at(hit) /\ span = [low |-> span.low, high |-> span.high]
    BY <2>1
  <2>3. hit - 1 \in 0..6 /\ one <= hit - 1 /\ hit - 1 < hit
    BY <1>7, <1>9
  <2>4. at(hit - 1) \in Int /\ at(hit) \in Int /\ at(hit - 1) < at(hit) /\ at(hit - 1) > base
    <3>1. at(hit - 1) \in Int /\ at(hit) \in Int /\ at(hit - 1) < at(hit) /\ at(one) \in Int
      BY <1>1, <1>7, <2>3
    <3>2. one = hit - 1 \/ one < hit - 1
      BY <1>7, <2>3
    <3>3. one < hit - 1 => at(one) < at(hit - 1)
      BY <1>1, <1>7, <2>3
    <3>4. QED
      BY <1>0, <1>7, <3>1, <3>2, <3>3
  <2>5. hit - 1 \in tried /\ hit - 1 \notin hits
    BY <1>3, <1>6, <1>7, <2>3, <2>4
  <2>6. at(hit - 1) \notin F
    BY <1>3, <2>5
  <2>7. at(hit) - at(hit - 1) <= MaxReach
    <3>1. at(hit) <= first + 63 * growth
      BY <1>1, <1>7
    <3>2. QED
      BY <1>0, <2>4, <3>1 DEF MaxReach
  <2>8. Bracketed(F, base, span)
    BY <1>0, <1>7, <2>2, <2>4, <2>6 DEF Bracketed
  <2>9. QED
    BY <1>4, <2>2, <2>7, <2>8
<1>10. QED
  BY <1>8, <1>9

\* What is found for a channel, once it has been looked for.
ProbeInv ==
  /\ work \in Documents
  /\ made # <<>> /\ made.code = "probed" =>
       /\ work.what = "channel"
       /\ made.at = Channel(work)

\* The search for a channel, wherever it may pass and whatever it starts from: a place is
\* found if a probe comes upon one, and the pixel before it will not do.
THEOREM ChannelsAreTight == CompilerSpec => []ChannelTight
<1>1. CompilerInit => ProbeInv
  BY DEF CompilerInit, ProbeInv
<1>2. ProbeInv /\ [CompilerNext]_compilerVars => ProbeInv'
  <2> SUFFICES ASSUME ProbeInv, [CompilerNext]_compilerVars PROVE ProbeInv'
    OBVIOUS
  <2>1. CASE Compile
    <3>1. PICK doc, layout, routes : Turn(doc, layout, routes.placed, routes.stuck)
      BY <2>1, Zenon DEF Compile
    <3>2. made' = made \/ made'.code # "probed"
      BY <3>1, TurnIs
    <3>3. UNCHANGED work /\ made = <<>>
      BY <2>1 DEF Compile
    <3>4. QED
      BY <3>2, <3>3 DEF ProbeInv
  <2>2. CASE LayOut
    <3>1. PICK doc, layout, stuck : Turn(doc, layout, <<>>, stuck)
      BY <2>2, Zenon DEF LayOut
    <3>2. made' = made \/ made'.code # "probed"
      BY <3>1, TurnIs
    <3>3. UNCHANGED work /\ made = <<>>
      BY <2>2 DEF LayOut
    <3>4. QED
      BY <3>2, <3>3 DEF ProbeInv
  <2>3. CASE CheckContract
    BY <2>3 DEF CheckContract, ProbeInv
  <2>4. CASE Probe
    <3>1. /\ work.what = "channel" /\ UNCHANGED work
          /\ made' = [code |-> "probed", at |-> Channel(work)]
      BY <2>4, Zenon DEF Probe, Channel
    <3>2. made'.at = Channel(work)
      BY <3>1, Zenon
    <3>3. QED
      BY <3>1, <3>2, Zenon DEF ProbeInv
  <2>5. CASE UNCHANGED compilerVars
    BY <2>5 DEF compilerVars, ProbeInv
  <2>6. QED
    BY <2>1, <2>2, <2>3, <2>4, <2>5 DEF CompilerNext
<1>3. ProbeInv => ChannelTight
  <2> SUFFICES ASSUME ProbeInv, Outcome("probed") PROVE ChannelTight
    BY DEF ChannelTight
  <2> DEFINE F == work.feasible   base == work.base   first == work.first   growth == work.growth
             hits == HitProbes(F, base, first, growth)   span == FirstSpan(F, base, first, growth)
             g == CHOOSE h : Halvings(F, span, 53, h)
             probes == {first + growth * n : n \in {0, 1, 3, 7, 15, 31, 63}}
             tried == {at \in probes : at > base}
  <2>1. /\ work.what = "channel" /\ work \in Documents
        /\ made.at = Channel(work)
    BY DEF ProbeInv, Outcome
  <2>2. base \in Int /\ first \in Int /\ growth \in Nat \ {0} /\ first + 63 * growth - base <= MaxReach
    BY <2>1, DocumentsAssumption
  <2>3. made.at = IF hits = {} THEN {} ELSE {g[53].high}
    BY <2>1, ChannelIs, Zenon
  <2>4. Halvings(F, span, 53, g)
    <3>1. 53 \in Nat
      OBVIOUS
    <3>2. \E h : Halvings(F, span, 53, h)
      BY <3>1, HalvingsExist
    <3>3. QED
      BY <3>2, Zenon
  <2>5. hits = {} <=> tried \cap F = {}
    <3>1. probes = {ProbeAt(first, growth, k) : k \in 0..6}
      BY <2>2, ProbesAre
    <3>2. tried = {at \in {ProbeAt(first, growth, k) : k \in 0..6} : at > base}
      BY <3>1
    <3> HIDE DEF tried, F, base, first, growth
    <3>3. QED
      BY <3>2 DEF HitProbes, TriedProbes
  <2> HIDE DEF F, base, first, growth, hits, span, g
  <2>6. ASSUME hits # {}
        PROVE  g[53].high \in F /\ (g[53].high - 1 > base => g[53].high - 1 \notin F)
    <3>1. \E some : some \in HitProbes(F, base, first, growth)
      BY <2>6 DEF hits
    <3>2. PICK some : some \in HitProbes(F, base, first, growth)
      BY <3>1
    <3>0. InReach(base, first, growth)
      BY <2>2 DEF InReach
    <3>3. span = FirstSpan(F, base, first, growth)
      BY DEF span
    <3>4. Bracketed(F, base, span)
      BY <3>0, <3>2, <3>3, FirstSpanIs
    <3>5. span.high - span.low <= MaxReach
      BY <3>0, <3>2, <3>3, FirstSpanIs
    <3>6. Bracketed(F, base, g[53]) /\ g[53].high - g[53].low <= 1
      BY <2>2, <2>4, <3>4, <3>5, HalvedIs
    <3>7. /\ g[53].low \in Int /\ g[53].high \in Int /\ g[53].low < g[53].high /\ g[53].high \in F
          /\ g[53].low = base \/ g[53].low \notin F
      BY <3>6 DEF Bracketed
    <3>8. g[53].high - 1 = g[53].low
      BY <3>6, <3>7
    <3>9. g[53].low = base => ~(g[53].low > base)
      BY <2>2
    <3>10. QED
      BY <3>7, <3>8, <3>9
  <2>7. made.at = {} <=> tried \cap F = {}
    BY <2>3, <2>5
  <2>8. \A at \in made.at : at \in F /\ (at - 1 > base => at - 1 \notin F)
    BY <2>3, <2>6
  <2>9. QED
    BY <2>7, <2>8 DEF ChannelTight, F, base, first, growth
<1>4. QED
  BY <1>1, <1>2, <1>3, PTL DEF CompilerSpec
=============================================================================
