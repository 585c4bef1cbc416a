-------------------------- MODULE ArchitectureDelta --------------------------
(* `archify compare` on two architecture diagrams (.agents/skills/archify/delta/ *)
(* architecture-delta.mjs): the receipt of what changed, the Delta drawing built  *)
(* from both drawings and the receipt, and the validation of the page, which      *)
(* works out on its own what every change must look like.                         *)
(* A diagram's items are functions from the fields they have to values; a drawing *)
(* is a set of tags.                                                              *)
EXTENDS Integers, Sequences, SequencesExt
CONSTANTS Undefined,    \* a field an item does not have
          Snapshots     \* the pairs of diagrams compared

VARIABLES compared,   \* the pair given to the command
          stage,      \* start, compared, built, accepted or refused
          receipt,    \* the changes, once compared
          drawing     \* the tags of the Delta drawing, once built
deltaVars == <<compared, stage, receipt, drawing>>

-----------------------------------------------------------------------------
(* Repositories. A remote is a record: how it is written (https, ssh or scp), its *)
(* host, a standard port or another, credentials, the path's name and its case, a *)
(* ".git" at its end, a leading slash (scp).                                      *)

Provider(u) == IF u.host \in {"github", "gitee"} THEN u.host ELSE "none"
Protocol(u) == IF u.form = "https" THEN "https" ELSE "ssh"

\* parseRepositoryRemote answers null for credentials in an authored address.
Parsable(u) == ~(u.secret /\ u.form # "scp")

WithoutSuffix(u) == [u EXCEPT !.suffix = @ /\ Provider(u) = "none"]
Lowered(u) == [u EXCEPT !.upper = FALSE]

\* Only the known forges have one namespace for both transports.
RemoteIdentity(u) ==
  LET path == IF Provider(u) = "github" THEN Lowered(WithoutSuffix(u)) ELSE WithoutSuffix(u)
  IN  [host |-> u.host,
       endpoint |-> IF Provider(u) # "none" /\ u.port = "usual" THEN <<"standard">>
                    ELSE <<Protocol(u), u.port>>,
       kind |-> IF Provider(u) # "none" THEN "repository"
                ELSE IF u.form = "scp" /\ ~u.rooted THEN "relative" ELSE "absolute",
       name |-> path.name, upper |-> path.upper, suffix |-> path.suffix]

\* normalizeRepository keeps the transport; only GitHub's address loses its case.
NormalizedUrl(u) ==
  IF ~Parsable(u) THEN u
  ELSE IF Provider(u) = "github" THEN Lowered(WithoutSuffix(u)) ELSE WithoutSuffix(u)
NormalizedRepository(r) ==
  IF r = Undefined THEN Undefined
  ELSE [r EXCEPT !.url = NormalizedUrl(@), !.revision = IF @ = "PINNED" THEN "pinned" ELSE @]
RepositoryIdentity(r) ==
  LET u == NormalizedRepository(r).url
  IN  IF Parsable(u) THEN <<RemoteIdentity(u)>> ELSE <<"as written", u>>

-----------------------------------------------------------------------------
(* The comparison.                                                             *)

Field(item, f) == IF f \in DOMAIN item THEN item[f] ELSE Undefined

\* Sources and wrapped components are lists whose order says nothing.
Counted(list) == [v \in ToSet(list) |-> Cardinality({i \in DOMAIN list : list[i] = v})]
NormalizedField(item, f) ==
  IF f \in {"sources", "wraps"} /\ f \in DOMAIN item THEN Counted(item[f]) ELSE Field(item, f)

ComponentFields == [semantic |-> {"type", "label", "sublabel", "tag"}, evidence |-> {"sources"},
                    geometry |-> {"row", "col", "pos", "size"}]
ConnectionFields == [topology |-> {"from", "to"}, semantic |-> {"label", "variant"},
                     geometry |-> {"fromSide", "toSide", "route", "via", "labelAt", "labelDx",
                                   "labelDy", "labelSegment", "width"}]
BoundaryFields == [scope |-> {"wraps"}, geometry |-> {"pad"}]
Groups == [component |-> ComponentFields, connection |-> ConnectionFields,
           boundary |-> BoundaryFields]

\* stableIndex and boundaryIndex: what identifies an item of each collection.
ItemKey(kind, item) ==
  IF kind = "boundary" THEN <<item["kind"], item["label"]>> ELSE Field(item, "id")
Collection(d, kind) ==
  CASE kind = "component" -> d.components [] kind = "connection" -> d.connections
    [] kind = "boundary" -> d.boundaries
Keys(d, kind) == {ItemKey(kind, i) : i \in ToSet(Collection(d, kind))}
ItemOf(d, kind, key) == CHOOSE i \in ToSet(Collection(d, kind)) : ItemKey(kind, i) = key

IndexRefusals(d, kind) ==
  LET items == Collection(d, kind)
      keys  == [i \in DOMAIN items |-> ItemKey(kind, items[i])]
  IN  (IF Undefined \in ToSet(keys)
       THEN <<IF kind = "connection" THEN "relationship-id-required" ELSE "stable-id-required">>
       ELSE <<>>)
      \o (IF \E i, j \in DOMAIN keys : i < j /\ keys[i] = keys[j] /\ keys[i] # Undefined
          THEN <<IF kind = "boundary" THEN "boundary-key-ambiguous" ELSE "duplicate-stable-id">>
          ELSE <<>>)

ShapeRefusals(d) ==
  (IF d.schema # 1 THEN <<"schema-version-mismatch">> ELSE <<>>)
  \o (IF d.type # "architecture" THEN <<"type-mismatch">> ELSE <<>>)

\* The refusals in the order compareArchitecture meets them: the first is thrown.
Refusals(s) ==
  ShapeRefusals(s.base) \o ShapeRefusals(s.head)
  \o IndexRefusals(s.base, "component") \o IndexRefusals(s.head, "component")
  \o (IF Keys(s.base, "component") \cap Keys(s.head, "component") = {}
      THEN <<"no-shared-component-id">> ELSE <<>>)
  \o IndexRefusals(s.base, "connection") \o IndexRefusals(s.head, "connection")
  \o IndexRefusals(s.base, "boundary") \o IndexRefusals(s.head, "boundary")
  \o (IF /\ s.base.repository # Undefined /\ s.head.repository # Undefined
         /\ RepositoryIdentity(s.base.repository) # RepositoryIdentity(s.head.repository)
      THEN <<"repository-mismatch">> ELSE <<>>)

ChangedFields(kind, before, after, group) ==
  {f \in Groups[kind][group] : NormalizedField(before, f) # NormalizedField(after, f)}
Classifications(kind, before, after) ==
  {g \in DOMAIN Groups[kind] : ChangedFields(kind, before, after, g) # {}}

StatusFor(classes, kind) ==
  CASE classes \cap {"topology", "semantic", "scope"} # {} -> "changed"
    [] classes \cap {"topology", "semantic", "scope"} = {} /\ "evidence" \in classes -> "evidence-changed"
    [] classes = {"geometry"} -> (CASE kind = "connection" -> "rerouted"
                                    [] kind = "component" -> "moved"
                                    [] kind = "boundary" -> "geometry-changed")
    [] classes = {} -> "same"

IdentityClass(kind) ==
  CASE kind = "connection" -> "topology" [] kind = "boundary" -> "scope"
    [] kind = "component" -> "semantic"

\* What the receipt says of one item; an empty label counts as none.
LabelOf(item) == IF Field(item, "label") \in {Undefined, ""} THEN "" ELSE item["label"]
ChangeOf(s, kind, key) ==
  LET inBase == key \in Keys(s.base, kind)
      inHead == key \in Keys(s.head, kind)
      base   == IF inBase THEN ItemOf(s.base, kind, key) ELSE <<>>
      head   == IF inHead THEN ItemOf(s.head, kind, key) ELSE <<>>
      classes == Classifications(kind, base, head)
  IN  [kind |-> kind, id |-> key, baseLabel |-> LabelOf(base), headLabel |-> LabelOf(head),
       status |-> IF ~inBase THEN "added" ELSE IF ~inHead THEN "removed" ELSE StatusFor(classes, kind),
       classes |-> IF inBase /\ inHead THEN classes ELSE {IdentityClass(kind)},
       fields |-> IF inBase /\ inHead
                  THEN UNION {ChangedFields(kind, base, head, g) : g \in classes} ELSE {}]
CompareEntities(s, kind) ==
  {c \in {ChangeOf(s, kind, k) : k \in Keys(s.base, kind) \cup Keys(s.head, kind)} : c.status # "same"}

SummaryShape ==
  [component |-> {"added", "changed", "evidence-changed", "removed", "moved"},
   connection |-> {"added", "changed", "removed", "rerouted"},
   boundary |-> {"added", "changed", "removed", "geometry-changed"}]
Summary(changes, kind) ==
  [status \in SummaryShape[kind] |-> Cardinality({c \in changes : c.kind = kind /\ c.status = status})]

\* The comparison proves revisions only when both inputs were checked against them.
ProofLevel(s) ==
  LET pinned(d) == /\ d.repository # Undefined /\ d.verified
                   /\ NormalizedRepository(d.repository).revision = "pinned"
  IN  IF pinned(s.base) /\ pinned(s.head) THEN "revision-pinned" ELSE "authored"

Receipt(s) ==
  LET changes == UNION {CompareEntities(s, kind) : kind \in DOMAIN Groups}
  IN  [changes |-> changes, summary |-> [kind \in DOMAIN Groups |-> Summary(changes, kind)],
       presentationChanged |-> s.base.presentation # s.head.presentation,
       provenanceChanged |-> NormalizedRepository(s.base.repository) # NormalizedRepository(s.head.repository),
       proof |-> ProofLevel(s)]

\* canonicalArchitecture, whose digest identifies a diagram: its items without their
\* order, every field they have.
Canonical(d) ==
  [repository |-> NormalizedRepository(d.repository), presentation |-> d.presentation,
   items |-> [kind \in DOMAIN Groups |->
               {[f \in DOMAIN i |-> NormalizedField(i, f)] : i \in ToSet(Collection(d, kind))}]]

-----------------------------------------------------------------------------
(* The Delta drawing: the later drawing with its tags annotated, and above it the *)
(* phantoms of what the earlier one had elsewhere.                                *)

Tag(change, layer, name, state, classes) ==
  [id |-> <<change.kind, change.id>>, layer |-> layer, name |-> name, state |-> state,
   classes |-> classes]

\* The tags the renderer draws for an item: a group; a path and, if it has a label, a
\* group; a frame and the text of its label, which carries no classifications.
Drawn(change, layer, state, label) ==
  CASE change.kind = "component" -> {Tag(change, layer, "g", state, change.classes)}
    [] change.kind = "connection" ->
         {Tag(change, layer, "path", state, change.classes)}
         \cup (IF label # "" THEN {Tag(change, layer, "g", state, change.classes)} ELSE {})
    [] change.kind = "boundary" ->
         {Tag(change, layer, "rect", state, change.classes), Tag(change, layer, "text", state, {})}

\* annotateArchitectureSideSvg on the later drawing.
Annotated(change) ==
  IF change.status = "removed" THEN {}
  ELSE Drawn(change, "current", change.status, change.headLabel)

\* The state a phantom of the earlier drawing is shown in. An added relationship is
\* classified as topology too, but the earlier drawing has no markup of it to show.
PhantomState(change) ==
  CASE change.status \in {"added", "same"} -> "none"
    [] change.status = "removed" -> "removed"
    [] change.status \notin {"added", "removed"} /\ change.kind = "boundary" -> "moved-from"
    [] change.status \notin {"added", "removed"} /\ change.kind # "boundary" ->
         IF "topology" \in change.classes THEN "removed"
         ELSE IF "geometry" \in change.classes THEN "moved-from" ELSE "none"

\* Mutant: a relationship that still exists leaves no phantom.
PhantomsOfRemoved(change) ==
  IF PhantomState(change) = "none" \/ (change.kind = "connection" /\ change.status # "removed") THEN {}
  ELSE Drawn(change, "phantom", PhantomState(change), change.baseLabel)
Phantoms(change) ==
  IF PhantomState(change) = "none" THEN {}
  ELSE Drawn(change, "phantom", PhantomState(change), change.baseLabel)

\* The symbols beside a relationship, for its phantom and for what it is now.
Symbols(change) ==
  IF change.kind # "connection" THEN {}
  ELSE (IF PhantomState(change) # "none"
        THEN {Tag(change, "symbol of phantom", "text", PhantomState(change), {})} ELSE {})
       \cup (IF change.status \in {"added", "changed", "rerouted"}
             THEN {Tag(change, "symbol", "text",
                       IF change.status = "changed" /\ "topology" \in change.classes
                       THEN "added" ELSE change.status, {})}
             ELSE {})

BuildDelta(changes) == UNION {Annotated(c) \cup Phantoms(c) \cup Symbols(c) : c \in changes}

-----------------------------------------------------------------------------
(* The validation of the page, from the rows of the receipt alone.             *)

ReviewPrimaryStates(row) ==
  CASE row.kind = "component" /\ "geometry" \in row.classes -> {row.status, "moved-from"}
    [] row.kind = "connection" /\ row.status = "changed" /\ "topology" \in row.classes ->
         {"changed", "removed"}
    [] row.kind = "connection" /\ ~(row.status = "changed" /\ "topology" \in row.classes)
         /\ "geometry" \in row.classes -> {"moved-from", row.status}
    [] row.kind = "boundary" /\ row.status \in {"changed", "geometry-changed"} ->
         {row.status, "moved-from"}
    [] OTHER -> {row.status}

Form(state, marker, label) == [state |-> state, marker |-> marker, label |-> label]
Forms(row) ==
  CASE row.status = "added" -> {Form("added", "added", row.headLabel)}
    [] row.status = "removed" -> {Form("removed", "removed", row.baseLabel)}
    [] row.status \in {"changed", "rerouted"} /\ "topology" \in row.classes ->
         {Form("removed", "removed", row.baseLabel), Form("changed", "added", row.headLabel)}
    [] row.status \in {"changed", "rerouted"} /\ "topology" \notin row.classes
         /\ "geometry" \in row.classes ->
         {Form("moved-from", "moved-from", row.baseLabel), Form(row.status, row.status, row.headLabel)}
    [] OTHER -> {Form("changed", "changed", row.headLabel)}

\* expectedReviewTargetSignature: how often each descriptor is to be there.
ExpectedSignature(row) ==
  LET of(name, state, classes) == [name |-> name, state |-> state, classes |-> classes]
      descriptors ==
        CASE row.kind = "component" -> {of("g", st, row.classes) : st \in ReviewPrimaryStates(row)}
          [] row.kind = "boundary" ->
               UNION {{of("rect", st, row.classes), of("text", st, {})} : st \in ReviewPrimaryStates(row)}
          [] row.kind = "connection" ->
               UNION {{of("path", f.state, row.classes), of("text", f.marker, {})}
                      \cup (IF f.label # "" THEN {of("g", f.state, row.classes)} ELSE {}) : f \in Forms(row)}
  IN  [d \in descriptors |-> 1]

TargetTags(tags, row) == {t \in tags : t.id = <<row.kind, row.id>>}
Signature(tags) ==
  LET of(t) == [name |-> t.name, state |-> t.state, classes |-> t.classes]
  IN  [d \in {of(t) : t \in tags} |-> Cardinality({t \in tags : of(t) = d})]
PrimaryTags(tags, row) ==
  {t \in TargetTags(tags, row) :
     t.name = (CASE row.kind = "component" -> "g" [] row.kind = "connection" -> "path"
                 [] row.kind = "boundary" -> "rect")}

PageFailures(tags, changes) ==
  {row \in changes :
     \/ TargetTags(tags, row) = {}
     \/ Signature(TargetTags(tags, row)) # ExpectedSignature(row)
     \/ {t.state : t \in PrimaryTags(tags, row)} # ReviewPrimaryStates(row)
     \/ \E t \in PrimaryTags(tags, row) : t.classes # row.classes}

-----------------------------------------------------------------------------
\* What validation against the schema leaves: lists of items, boundaries with a kind and a
\* label, repositories with an address and a revision; and Undefined is not one of them.
Diagram(d) ==
  /\ \A list \in {d.components, d.connections, d.boundaries} : list \in Seq(ToSet(list))
  /\ \A i \in ToSet(d.boundaries) : {"kind", "label"} \subseteq DOMAIN i
  /\ d.repository # Undefined =>
       /\ {"url", "revision"} \subseteq DOMAIN d.repository
       /\ {"form", "host", "port", "secret", "name", "upper", "suffix", "rooted"}
            \subseteq DOMAIN d.repository.url
       /\ NormalizedRepository(d.repository) # Undefined
ASSUME DeltaAssumption ==
  \A s \in Snapshots : DOMAIN s = {"base", "head"} /\ Diagram(s.base) /\ Diagram(s.head)

DeltaInit == compared \in Snapshots /\ stage = "start" /\ receipt = <<>> /\ drawing = {}

Compare ==
  /\ stage = "start"
  /\ IF Refusals(compared) # <<>>
     THEN stage' = "refused" /\ receipt' = Head(Refusals(compared))
     ELSE stage' = "compared" /\ receipt' = Receipt(compared)
  /\ UNCHANGED <<compared, drawing>>

Build ==
  /\ stage = "compared" /\ stage' = "built"
  /\ drawing' = BuildDelta(receipt.changes)
  /\ UNCHANGED <<compared, receipt>>

Validate ==
  /\ stage = "built"
  /\ stage' = IF PageFailures(drawing, receipt.changes) = {} THEN "accepted" ELSE "refused"
  /\ UNCHANGED <<compared, receipt, drawing>>

DeltaNext == Compare \/ Build \/ Validate
DeltaSpec == DeltaInit /\ [][DeltaNext]_deltaVars

-----------------------------------------------------------------------------
\* What can be compared can be shown: the drawing that buildDeltaSvg makes of a
\* receipt always has the targets that validateArchitectureDeltaHtml expects of it,
\* so that no comparison fails after its receipt is made.
ComparedIsShown == stage = "refused" => drawing = {}

\* Two diagrams with one canonical form (one digest) have a receipt without changes;
\* and a receipt without any change means that no field of its groups differs, and
\* that the same items are there.
DigestAgrees ==
  stage = "compared" =>
    /\ Canonical(compared.base) = Canonical(compared.head) =>
         /\ receipt.changes = {} /\ ~receipt.presentationChanged /\ ~receipt.provenanceChanged
    /\ \A kind \in DOMAIN Groups :
         LET gone == {c.id : c \in {x \in receipt.changes : x.kind = kind /\ x.status = "removed"}}
             new  == {c.id : c \in {x \in receipt.changes : x.kind = kind /\ x.status = "added"}}
         IN  Keys(compared.head, kind) = (Keys(compared.base, kind) \ gone) \cup new

\* The receipt of the pair in the other order says the same changes, what was added
\* being removed and the other way round, from the same evidence; and every change is
\* counted once in the summary.
Reversed(change) ==
  [change EXCEPT !.status = CASE @ = "added" -> "removed" [] @ = "removed" -> "added" [] OTHER -> @,
                 !.baseLabel = change.headLabel, !.headLabel = change.baseLabel]
ReceiptReversible ==
  stage = "compared" =>
    LET back == [base |-> compared.head, head |-> compared.base]
    IN  /\ Refusals(back) = <<>>
        /\ Receipt(back).changes = {Reversed(c) : c \in receipt.changes}
        /\ Receipt(back).proof = receipt.proof
        /\ \A kind \in DOMAIN Groups :
             FoldFunction(+, 0, receipt.summary[kind])
               = Cardinality({c \in receipt.changes : c.kind = kind})

\* A repository keeps its identity however often its address is normalised: what is
\* recognised as the pair's repository is still recognised in its normalised form.
RepositoryStable ==
  stage = "compared" => \A d \in {compared.base, compared.head} : d.repository # Undefined =>
    RepositoryIdentity(NormalizedRepository(d.repository)) = RepositoryIdentity(d.repository)

DeltaFaithful == ComparedIsShown /\ DigestAgrees /\ ReceiptReversible /\ RepositoryStable
=============================================================================
