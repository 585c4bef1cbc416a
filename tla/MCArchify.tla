------------------------------ MODULE MCArchify ------------------------------
(* The parts of the archify skill in one state space: the two that touch files    *)
(* other processes touch, and those that work out what a page or a drawing holds. *)
(* The scene, chosen initially, says which one runs; the others stay in one       *)
(* initial state of theirs. They share no state.                                  *)
EXTENDS UpdateClaim, ArtifactDelivery, ArchitectureDelta, WorkflowCompiler

CONSTANTS x, y   \* ids in diagrams

VARIABLE scene

\* What runs in one scene stays put in the others, so permuting these sets keeps the
\* state space.
Interchangeable ==
  Permutations(Procs) \cup Permutations(Digests) \cup Permutations(Commands)

-----------------------------------------------------------------------------
(* The diagrams compared: one item of one kind varies, in every pair of its forms. *)

Without(f, values) == {<<>>} \cup {f :> v : v \in values}
Components ==
  {[id |-> x, type |-> "service", label |-> l] @@ s @@ c :
     l \in {"a", "b"}, s \in Without("sources", {<<"s">>, <<"s", "t">>, <<"t", "s">>}),
     c \in Without("col", {1})}
Connections ==
  {[id |-> x, from |-> f, to |-> y] @@ l @@ r :
     f \in {x, y}, l \in Without("label", {"", "m", "n"}), r \in Without("route", {"straight"})}
Boundaries ==
  {[kind |-> "region", label |-> "r", wraps |-> w] @@ p :
     w \in {<<x>>, <<x, y>>, <<y, x>>}, p \in Without("pad", {8})}
Other == [id |-> y, type |-> "service", label |-> "o"]
Plain == [schema |-> 1, type |-> "architecture", repository |-> Undefined, verified |-> FALSE,
          presentation |-> "p", components |-> <<Other>>, connections |-> <<>>, boundaries |-> <<>>]
Optional(items) == {<<>>} \cup {<<i>> : i \in items}
Pairs(ds) == {[base |-> b, head |-> h] : b \in ds, h \in ds}
Repositories ==
  {[url |-> [form |-> f, host |-> h, port |-> "usual", secret |-> c, name |-> "n", upper |-> u,
             suffix |-> s, rooted |-> FALSE], revision |-> r] :
     f \in {"https", "scp"}, h \in {"github", "elsewhere"}, c \in BOOLEAN, u \in BOOLEAN,
     s \in BOOLEAN, r \in {"PINNED"}}
MCSnapshots ==
  Pairs({[Plain EXCEPT !.components = <<Other>> \o c] : c \in Optional(Components)})
  \cup Pairs({[Plain EXCEPT !.connections = c] : c \in Optional(Connections)})
  \cup Pairs({[Plain EXCEPT !.boundaries = c] : c \in Optional(Boundaries)})
  \cup Pairs({[Plain EXCEPT !.repository = r, !.verified = v] : r \in Repositories, v \in {TRUE}})
  \cup Pairs({Plain, [Plain EXCEPT !.presentation = "q", !.schema = 2], [Plain EXCEPT !.type = "workflow"],
              [Plain EXCEPT !.components = <<Other, Other>>], [Plain EXCEPT !.presentation = "q"],
              [Plain EXCEPT !.components = <<[id |-> x]>>], [Plain EXCEPT !.connections = <<[from |-> x]>>]})

-----------------------------------------------------------------------------
(* The routes: seven shapes against every orthogonal one of at most three points. *)

Grid == (0..3) \X (0..3)
Aligned(p, q) == p # q /\ (p[1] = q[1] \/ p[2] = q[2])
Shapes ==
  {pq \in Grid \X Grid : Aligned(pq[1], pq[2])}
  \cup {pqr \in Grid \X Grid \X Grid : Aligned(pqr[1], pqr[2]) /\ Aligned(pqr[2], pqr[3])}
Chosen ==
  {<<<<0, 1>>, <<3, 1>>>>, <<<<0, 1>>, <<1, 1>>, <<3, 1>>>>, <<<<0, 1>>, <<2, 1>>, <<2, 3>>>>,
   <<<<0, 2>>, <<3, 2>>, <<1, 2>>>>, <<<<3, 0>>, <<1, 0>>, <<1, 1>>, <<3, 1>>>>,
   <<<<0, 0>>, <<2, 0>>, <<2, 0>>, <<2, 2>>>>, <<<<0, 3>>, <<1, 3>>, <<2, 3>>, <<1, 3>>>>}
Route(id, from, to, points) == [id |-> id, from |-> from, to |-> to, points |-> points]
Profile(fixed) == [authored |-> "standard", env |-> "showcase", authoritative |-> fixed]
NoProfile == [authored |-> "", env |-> "unset", authoritative |-> FALSE]
Box(px, py) == [x |-> px, y |-> py, width |-> 1, height |-> 1]
Frame(py, radius) == [x |-> 0, y |-> py, width |-> 3, height |-> 2, radius |-> radius]
\* A chosen route before the shape, or the shape before a route down the left.
Setting(beside, to, fixed, node) == [beside |-> beside, to |-> to, fixed |-> fixed, node |-> node]
Settings ==
  {Setting(c, "d", FALSE, "d") : c \in Chosen}
  \cup {Setting(<<>>, "b", FALSE, "d"), Setting(<<>>, "d", FALSE, "d"), Setting(<<>>, "d", TRUE, "a")}
Drawing(shape, s) ==
  LET alone == s.beside = <<>>
  IN  [what |-> "drawing", merge |-> ~alone, profile |-> Profile(s.fixed),
       left |-> Route(1, "a", "b", IF alone THEN shape ELSE s.beside),
       right |-> Route(2, "c", s.to, IF alone THEN <<<<0, 0>>, <<0, 3>>>> ELSE shape),
       node |-> [id |-> s.node, x |-> 2, y |-> 2, width |-> 1, height |-> 1], clearance |-> 0,
       frame |-> IF alone THEN Frame(1, 1) ELSE Frame(0, 0), least |-> 2, interior |-> 2,
       micro |-> 2, room |-> 2, label |-> [of |-> 2, rect |-> Box(1, 2)]]
MCDrawings == {Drawing(shape, s) : shape \in Shapes, s \in Settings}
  \cup {[Drawing(shape, Setting(<<>>, "d", FALSE, "d")) EXCEPT !.profile = NoProfile] :
          shape \in {s \in Shapes : Len(s) = 2}}
MCPorts ==
  {[what |-> "ports", start |-> <<0, 0>>, end |-> e, fromSide |-> f, toSide |-> t, stub |-> 3,
    interior |-> 2, micro |-> 1] :
     e \in (-2..2) \X (-9..9) \cup (-9..9) \X (-2..2), f \in DOMAIN Outward, t \in DOMAIN Outward}
MCFans ==
  {[what |-> "fan", extent |-> e, gutter |-> 16, most |-> 14, counterparts |-> c] :
     e \in {30, 32, 38, 48, 80}, c \in UNION {[1..n -> {10, 20, 30}] : n \in 1..4}}
MCSlants ==
  {[what |-> "slant", segment |-> <<p, q>>, node |-> Box(1, 2), clearance |-> c] :
     p \in Grid \cup {<<4, 5>>}, q \in Grid \cup {<<4, 0>>}, c \in {0, 1}}

-----------------------------------------------------------------------------
(* The workflows: three nodes in two lanes with two edges to route; the widths,    *)
(* labels, phases and groups a layout depends on, two to four nodes in a lane;     *)
(* every graph of three nodes with every contract of one clause; and channels that *)
(* are free from some place on, but for one spot.                                  *)

Placed(id, lane, col, width, offset) ==
  [id |-> id, lane |-> lane, col |-> col, width |-> width, height |-> 52, offset |-> offset]
Joined(id, from, to) ==
  [id |-> id, from |-> from, to |-> to, label |-> 0, fromSide |-> "", toSide |-> "", route |-> "auto", role |-> "", pinned |-> ""]
NoContract == [rooted |-> FALSE, ended |-> FALSE, roots |-> {}, terminals |-> {}, edges |-> {}, paths |-> {}]
Document(nodes, edges) ==
  [lanes |-> <<[id |-> 1, label |-> 15, exception |-> FALSE], [id |-> 2, label |-> 10, exception |-> FALSE]>>, nodes |-> nodes, edges |-> edges,
   phases |-> <<>>, groups |-> <<>>, checks |-> NoContract]
\* The second edge goes forward or back; once it is a return, and the second lane one for
\* exceptions.
Routed ==
  {[what |-> "routes", doc |-> [Document(<<Placed(1, 1, 0, 92, 0), Placed(2, at[1], at[2], at[3], at[4]), Placed(3, 2, 2, 92, 0)>>,
                                        <<Joined(1, 1, 2), [Joined(2, f[1][1], f[1][2]) EXCEPT !.role = f[2]]>>)
                                EXCEPT !.lanes[2].exception = (f[2] = "return")]] :
     at \in {<<1, 1, 200, 20>>, <<2, 0, 92, 0>>, <<2, 1, 200, 20>>},
     f \in {<<<<1, 2>>, "">>, <<<<1, 3>>, "">>, <<<<1, 3>>, "return">>, <<<<2, 1>>, "">>, <<<<3, 1>>, "">>, <<<<3, 2>>, "">>}}
LaidOut ==
  {[what |-> "layout", doc |->
     [Document(<<Placed(1, 1, c[1], w[1], 0), Placed(2, 1, c[2], w[2], o), Placed(3, b, 5, 400, 0)>>,
               <<[Joined(1, 1, 2) EXCEPT !.label = l[1], !.fromSide = l[2], !.pinned = l[3]], Joined(2, 3, 1)>>)
      EXCEPT !.phases = p, !.groups = g]] :
     c \in {<<0, 1>>, <<3, 1>>}, w \in {<<92, 92>>, <<300, 120>>}, o \in {0, 40}, b \in {1, 2},
     l \in {0, 20, 60} \X {"", "top"} \X {""} \cup {0} \X {"top"} \X {"x", "y"},
     p \in {<<>>, <<[id |-> 1, from |-> 0, to |-> 0, label |-> 60], [id |-> 2, from |-> 1, to |-> 3, label |-> 100]>>},
     g \in {<<>>, <<[id |-> 2, lane |-> 1, from |-> 1, to |-> 1, label |-> 40], [id |-> 1, lane |-> 1, from |-> 0, to |-> 3, label |-> 10]>>}}
Crowded ==
  {[what |-> "layout", doc |->
     Document(<<Placed(1, 1, 0, w, 0), Placed(2, 1, 1, 200, 40), Placed(3, 1, 2, w, 0), Placed(4, 1, 3, 120, o),
                Placed(5, 2, 3, 92, 0)>>,
              <<Joined(1, 1, 2), Joined(2, 2, 3), Joined(3, 4, 3), Joined(4, 4, 5), Joined(5, 5, 1)>>)] :
     w \in {92, 200, 240}, o \in {0, 40}}
Graph(edges) ==
  Document(<<Placed(1, 1, 0, 92, 0), Placed(2, 2, 1, 92, 0), Placed(3, 1, 2, 92, 0)>>,
           SelectSeq(<<Joined(5, 1, 2), Joined(4, 2, 1), Joined(3, 2, 3), Joined(2, 3, 1), Joined(1, 1, 3)>>,
                     LAMBDA e : <<e.from, e.to>> \in edges))
Contracts ==
  {[NoContract EXCEPT !.rooted = TRUE, !.roots = r] : r \in {{}, {1}, {1, 4}}}
  \cup {[NoContract EXCEPT !.ended = TRUE, !.terminals = t] : t \in {{}, {3}}}
  \cup {[NoContract EXCEPT !.edges = {r}] : r \in {<<1, 2>>, <<3, 3>>}}
  \cup {[NoContract EXCEPT !.paths = {r}] : r \in {<<1, 2>>, <<1, 3>>, <<3, 1>>, <<2, 2>>, <<1, 4>>}}
Contracted ==
  {[what |-> "contract", doc |-> [Graph(es) EXCEPT !.checks = c]] :
     es \in SUBSET {<<1, 2>>, <<2, 1>>, <<2, 3>>, <<3, 1>>, <<1, 3>>}, c \in Contracts}
Channels ==
  {[what |-> "channel", base |-> 0, first |-> f, growth |-> g, feasible |-> (t..300) \ {h}] :
     f \in {0, 3}, g \in {1, 4}, t \in {1, 2, 3, 11, 62, 200, 300}, h \in {0, 12, 15, 63, 252}}
MCDocuments == Routed \cup LaidOut \cup Crowded \cup Contracted \cup Channels

-----------------------------------------------------------------------------
Scenes == {"update", "delivery", "delta", "geometry", "compiler"}
ArchifyInit ==
  /\ scene \in Scenes /\ Init /\ DeliveryInit
  /\ scene # "delivery" => /\ spec = (CHOOSE v \in Versions : TRUE)
                           /\ kind = [c \in Commands |-> "deliver"]
                           /\ target = [t \in Targets |-> NoFile]
  /\ IF scene = "delta" THEN DeltaInit
     ELSE compared = <<>> /\ stage = "start" /\ receipt = <<>> /\ drawing = {}
  /\ IF scene = "geometry" THEN GeometryInit ELSE subject = [what |-> "none"] /\ report = <<>>
  /\ IF scene = "compiler" THEN CompilerInit
     ELSE work = [what |-> "none"] /\ made = <<>> /\ feedback = NoFeedback /\ round = 0 /\ asked = <<>>

ArchifyNext ==
  \/ scene = "update" /\ Next /\ UNCHANGED <<scene, deliveryVars, deltaVars, geometryVars, compilerVars>>
  \/ scene = "delivery" /\ DeliveryNext /\ UNCHANGED <<scene, vars, deltaVars, geometryVars, compilerVars>>
  \/ scene = "delta" /\ DeltaNext /\ UNCHANGED <<scene, vars, deliveryVars, geometryVars, compilerVars>>
  \/ scene = "geometry" /\ GeometryNext /\ UNCHANGED <<scene, vars, deliveryVars, deltaVars, compilerVars>>
  \/ scene = "compiler" /\ CompilerNext /\ UNCHANGED <<scene, vars, deliveryVars, deltaVars, geometryVars>>
archifyVars == <<scene, vars, deliveryVars, deltaVars, geometryVars, compilerVars>>
ArchifySpec == ArchifyInit /\ [][ArchifyNext]_archifyVars

-----------------------------------------------------------------------------
\* What is worked out for a page or a drawing: the receipt of a comparison and what the
\* page shows of it, what the gates say of routes, and what the compiler makes of a
\* workflow.
DrawingsSound ==
  /\ scene = "delta" => DeltaFaithful
  /\ scene = "geometry" => GeometrySound
  /\ scene = "compiler" => CompilerSound
=============================================================================
