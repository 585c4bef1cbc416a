---------------------------- MODULE Archify_proofs ----------------------------
(***************************************************************************)
(* TLAPS proofs about what the archify commands promise: ArtifactDelivery, *)
(* for any number of commands, versions and failing renames,               *)
(* ArchitectureDelta, for any pairs of diagrams, and UpdateClaim, for any  *)
(* number of processes, digests, generations, attempts and room in a state *)
(* file.                                                                   *)
(***************************************************************************)
EXTENDS ArtifactDelivery, ArchitectureDelta, UpdateClaim, FiniteSetTheorems, SequenceTheorems, TLAPS

-----------------------------------------------------------------------------
(* The inductive invariant                                                 *)

Preparing == {"new", "staged", "validated", "checked"}
ByOf(c) == {t \in Targets : target[t].by = c}
Stashed(c) == {t \in ToSet(Pair) : \E d \in Commands : stash[d][t].by = c}

\* What a command has put aside, has yet to treat and has placed fits its phase.
PhaseFits(c) ==
  /\ phase[c] \in Preparing \cup {"renaming"} =>
       stash[c] = NoStash /\ left[c] = <<>> /\ backedUp[c] = <<>> /\ placed[c] = <<>>
  /\ phase[c] \in Committing => kind[c] = "compare"
  /\ phase[c] = "renaming" => kind[c] # "compare"
  /\ phase[c] = "backing" =>
       /\ placed[c] = <<>>
       /\ left[c] = Pair => backedUp[c] = <<>>
       /\ left[c] = <<"receipt">> => backedUp[c] \in {<<>>, <<"html">>}
  /\ phase[c] = "placing" =>
       \/ left[c] = Pair /\ placed[c] = <<>>
       \/ left[c] = <<"receipt">> /\ placed[c] = <<"html">>
       \/ left[c] = <<>> /\ placed[c] = Pair
  /\ phase[c] = "restoring" => placed[c] = <<>>
PhasesKept == \A c \in Commands : PhaseFits(c)

\* A candidate comes from what was read; a file is a candidate of the command that made
\* it, and none is there before its command commits.
FilesMade ==
  /\ \A c \in Commands : phase[c] \in {"checked", "renaming"} \cup Committing =>
       candidate[c] = input[c] /\ candidate[c] \in Sound
  /\ \A t \in Targets : target[t].by \in Commands =>
       target[t].of = input[target[t].by] /\ target[t].of \in Sound
  /\ \A d \in Commands : \A t \in ToSet(Pair) : stash[d][t].by \in Commands =>
       stash[d][t].of = input[stash[d][t].by] /\ stash[d][t].of \in Sound
  /\ \A c \in Commands : phase[c] \in Preparing \cup {"renaming", "backing"} =>
       ByOf(c) = {} /\ Stashed(c) = {}

\* Unless commits overlapped or one was cut short, one commits at a time, nothing else
\* is put aside, and a command that failed has left nothing of its own.
CommitsApart ==
  ~split =>
    /\ \A c, d \in Commands : {phase[c], phase[d]} \subseteq Committing => c = d
    /\ \A c \in Commands : phase[c] \notin Committing => stash[c] = NoStash
    /\ \A c \in Commands : phase[c] \in Committing => Stashed(c) = {}
    /\ \A c \in Commands \ broken :
         /\ phase[c] \in Committing => ByOf(c) \subseteq ToSet(placed[c])
         /\ phase[c] = "failed" => ByOf(c) = {} /\ Stashed(c) = {}

Previous(t) == IF t = "html" THEN lastPair[1] ELSE lastPair[2]
\* In the middle of a commit the previous pair is still there, in place or put aside.
KeptOf(c) ==
  \A t \in ToSet(Pair) :
    /\ t \in ToSet(backedUp[c]) => stash[c][t] = Previous(t)
    /\ t \in ToSet(placed[c]) => target[t] = Made(c)
    /\ t \notin ToSet(placed[c]) =>
         target[t] = IF t \in ToSet(backedUp[c]) THEN NoFile ELSE Previous(t)
    /\ t \notin ToSet(backedUp[c]) =>
         /\ t \in ToSet(placed[c]) => Previous(t) = NoFile
         /\ phase[c] = "placing" => Previous(t) = NoFile
         /\ phase[c] = "backing" => t \in ToSet(left[c]) \/ Previous(t) = NoFile
PreviousKept ==
  ~split /\ broken = {} => \A c \in Commands : phase[c] \in Committing => KeptOf(c)

CommitInv == PhasesKept /\ FilesMade /\ CommitsApart /\ PreviousKept /\ PairConsistent

-----------------------------------------------------------------------------
(* The lists of targets: all that is ever in left, backedUp and placed         *)

LEMMA OneLong == ASSUME NEW S, NEW s \in Seq(S), Len(s) = 1 PROVE s = <<s[1]>>
<1>1. s[1] \in S
  OBVIOUS
<1>2. <<s[1]>> \in Seq(S) /\ Len(<<s[1]>>) = 1 /\ <<s[1]>>[1] = s[1]
  BY <1>1
<1>3. \A i \in 1..1 : s[i] = <<s[1]>>[i]
  <2>1. \A i \in 1..1 : i = 1
    OBVIOUS
  <2>2. QED
    BY <1>2, <2>1
<1>4. QED
  BY <1>2, <1>3, SeqEqual

LEMMA TwoLong == ASSUME NEW S, NEW s \in Seq(S), Len(s) = 2 PROVE s = <<s[1], s[2]>>
<1> DEFINE t == <<s[1], s[2]>>
<1>1. s[1] \in S /\ s[2] \in S
  <2>1. s \in [1..2 -> S]
    BY LenProperties
  <2>2. QED
    BY <2>1
<1>2. t \in Seq(S) /\ Len(t) = 2 /\ t[1] = s[1] /\ t[2] = s[2]
  BY <1>1
<1> HIDE DEF t
<1>3. \A i \in 1..2 : s[i] = t[i]
  <2>1. \A i \in 1..2 : i = 1 \/ i = 2
    OBVIOUS
  <2>2. QED
    BY <1>2, <2>1
<1>4. s = t
  BY <1>2, <1>3, SeqEqual
<1>5. QED
  BY <1>4 DEF t

\* What the operations on lists do to these four.
LEMMA Lists ==
  /\ Head(Pair) = "html" /\ Head(<<"receipt">>) = "receipt"
  /\ Tail(Pair) = <<"receipt">> /\ Tail(<<"receipt">>) = <<>>
  /\ Append(<<>>, "html") = <<"html">> /\ Append(<<>>, "receipt") = <<"receipt">>
  /\ Append(<<"html">>, "receipt") = Pair
  /\ Front(Pair) = <<"html">> /\ Front(<<"html">>) = <<>> /\ Front(<<"receipt">>) = <<>>
  /\ Last(Pair) = "receipt" /\ Last(<<"html">>) = "html" /\ Last(<<"receipt">>) = "receipt"
  /\ ToSet(Pair) = {"html", "receipt"} /\ ToSet(<<>>) = {}
  /\ ToSet(<<"html">>) = {"html"} /\ ToSet(<<"receipt">>) = {"receipt"}
  /\ Pair # <<>> /\ <<"html">> # <<>> /\ <<"receipt">> # <<>> /\ <<"html">> # <<"receipt">>
  /\ Pair # <<"html">> /\ Pair # <<"receipt">>
<1> DEFINE T == {"html", "receipt"}
<1>1. /\ Head(Pair) = "html" /\ Head(<<"receipt">>) = "receipt"
      /\ Tail(Pair) = <<"receipt">> /\ Tail(<<"receipt">>) = <<>>
  BY DEF Pair
<1>2. Append(<<>>, "html") = <<"html">> /\ Append(<<>>, "receipt") = <<"receipt">>
  OBVIOUS
<1>3. Append(<<"html">>, "receipt") = Pair
  <2> DEFINE u == Append(<<"html">>, "receipt")
  <2>1. <<"html">> \in Seq(T) /\ Len(<<"html">>) = 1 /\ <<"html">>[1] = "html"
    OBVIOUS
  <2>2. u \in Seq(T) /\ Len(u) = 2 /\ u[1] = "html" /\ u[2] = "receipt"
    BY <2>1, AppendProperties
  <2>3. QED
    BY <2>2, TwoLong DEF Pair
<1>4. Front(Pair) = <<"html">>
  <2>1. Pair \in Seq(T) /\ Len(Pair) = 2 /\ Pair[1] = "html"
    BY DEF Pair
  <2>2. /\ SubSeq(Pair, 1, 1) \in Seq(T) /\ Len(SubSeq(Pair, 1, 1)) = 1
        /\ SubSeq(Pair, 1, 1)[1] = "html"
    BY <2>1, SubSeqProperties
  <2>3. SubSeq(Pair, 1, 1) = <<"html">>
    BY <2>2, OneLong
  <2>4. QED
    BY <2>1, <2>3 DEF Front
<1>5. ASSUME NEW x \in T PROVE Front(<<x>>) = <<>>
  BY SubSeqEmpty DEF Front
<1>6. Last(Pair) = "receipt" /\ Last(<<"html">>) = "html" /\ Last(<<"receipt">>) = "receipt"
  BY DEF Pair, Last
<1>7. /\ ToSet(Pair) = T /\ ToSet(<<>>) = {}
      /\ ToSet(<<"html">>) = {"html"} /\ ToSet(<<"receipt">>) = {"receipt"}
  BY DEF Pair, ToSet
<1>8. /\ Pair # <<>> /\ <<"html">> # <<>> /\ <<"receipt">> # <<>> /\ <<"html">> # <<"receipt">>
      /\ Pair # <<"html">> /\ Pair # <<"receipt">>
  BY DEF Pair
<1>9. QED
  BY <1>1, <1>2, <1>3, <1>4, <1>5, <1>6, <1>7, <1>8

-----------------------------------------------------------------------------
(* Types                                                                       *)

LEMMA FileTypes ==
  /\ NoFile \in File /\ NoStash \in [ToSet(Pair) -> File] /\ NoFile.by \notin Commands
  /\ \A t \in ToSet(Pair) : NoStash[t] = NoFile
  /\ ToSet(Pair) \subseteq Targets
  /\ DeliveryTypeOK => \A c \in Commands : Made(c) \in File
<1>1. /\ NoFile \in File /\ NoStash \in [ToSet(Pair) -> File] /\ NoFile.by \notin Commands
      /\ \A t \in ToSet(Pair) : NoStash[t] = NoFile
  BY DeliveryAssumption DEF NoFile, File, NoStash
<1>2. ToSet(Pair) \subseteq Targets
  BY Lists DEF Targets
<1>3. DeliveryTypeOK => \A c \in Commands : Made(c) \in File
  BY DEF DeliveryTypeOK, Made, File
<1>4. QED
  BY <1>1, <1>2, <1>3

LEMMA DeliveryInitType == DeliveryInit => DeliveryTypeOK
<1> SUFFICES ASSUME DeliveryInit PROVE DeliveryTypeOK
  OBVIOUS
<1>1. NoFile \in File /\ [by |-> Old, of |-> NoVersion] \in File
  BY FileTypes DEF File
<1>2. target \in [Targets -> File] /\ lastPair \in File \X File
  BY <1>1 DEF DeliveryInit
<1>3. stash \in [Commands -> [ToSet(Pair) -> File]]
  BY FileTypes DEF DeliveryInit
<1>4. 0 \in 0..MaxBreaks
  BY DeliveryAssumption
<1>5. QED
  BY <1>2, <1>3, <1>4 DEF DeliveryInit, DeliveryTypeOK

-----------------------------------------------------------------------------
(* The steps of a commit, one outcome at a time                                *)

AllAside(c) ==
  /\ phase[c] = "backing" /\ left[c] = <<>> /\ phase' = [phase EXCEPT ![c] = "placing"]
  /\ left' = [left EXCEPT ![c] = Pair]
  /\ UNCHANGED <<target, stash, backedUp, placed, breaks, account>>
NothingThere(c, t) ==
  /\ phase[c] = "backing" /\ left[c] # <<>> /\ t = Head(left[c]) /\ target[t] = NoFile
  /\ left' = [left EXCEPT ![c] = Tail(left[c])]
  /\ UNCHANGED <<phase, target, stash, backedUp, placed, breaks, account>>
PutAside(c, t) ==
  /\ phase[c] = "backing" /\ left[c] # <<>> /\ t = Head(left[c]) /\ target[t] # NoFile
  /\ left' = [left EXCEPT ![c] = Tail(left[c])]
  /\ stash' = [stash EXCEPT ![c] = [stash[c] EXCEPT ![t] = target[t]]]
  /\ target' = [target EXCEPT ![t] = NoFile]
  /\ backedUp' = [backedUp EXCEPT ![c] = Append(backedUp[c], t)]
  /\ UNCHANGED <<phase, placed, breaks, account>>
Withdraws(c) ==
  /\ phase[c] \in {"backing", "placing"} /\ phase' = [phase EXCEPT ![c] = "removing"]
  /\ RenameFails /\ UNCHANGED <<target, lists, account>>
AllPlaced(c) ==
  /\ phase[c] = "placing" /\ left[c] = <<>> /\ phase' = [phase EXCEPT ![c] = "done"]
  /\ lastPair' = <<Made(c), Made(c)>>
  /\ DropStaging(c) /\ UNCHANGED <<target, breaks, broken, split>>
Place(c, t) ==
  /\ phase[c] = "placing" /\ left[c] # <<>> /\ t = Head(left[c])
  /\ left' = [left EXCEPT ![c] = Tail(left[c])]
  /\ target' = [target EXCEPT ![t] = Made(c)]
  /\ placed' = [placed EXCEPT ![c] = Append(placed[c], t)]
  /\ UNCHANGED <<phase, stash, backedUp, breaks, account>>
AllRemoved(c) ==
  /\ phase[c] = "removing" /\ placed[c] = <<>> /\ phase' = [phase EXCEPT ![c] = "restoring"]
  /\ UNCHANGED <<target, lists, breaks, account>>
TakeAway(c, t) ==
  /\ phase[c] = "removing" /\ placed[c] # <<>> /\ t = Last(placed[c])
  /\ placed' = [placed EXCEPT ![c] = Front(placed[c])]
  /\ \/ target' = [target EXCEPT ![t] = NoFile] /\ UNCHANGED <<breaks, broken>>
     \/ RenameFails /\ broken' = broken \cup {c} /\ UNCHANGED target
  /\ UNCHANGED <<phase, stash, left, backedUp, split, lastPair>>
AllRestored(c) ==
  /\ phase[c] = "restoring" /\ backedUp[c] = <<>> /\ phase' = [phase EXCEPT ![c] = "failed"]
  /\ DropStaging(c) /\ UNCHANGED <<target, breaks, account>>
Restore(c, t) ==
  /\ phase[c] = "restoring" /\ backedUp[c] # <<>> /\ t = Last(backedUp[c])
  /\ backedUp' = [backedUp EXCEPT ![c] = Front(backedUp[c])]
  /\ \/ target' = [target EXCEPT ![t] = stash[c][t]] /\ UNCHANGED <<breaks, broken>>
     \/ /\ RenameFails /\ broken' = broken \cup {c}
        /\ target' \in {target, [target EXCEPT ![t] = NoFile]}
  /\ UNCHANGED <<phase, stash, left, placed, split, lastPair>>

OneOfThePair(c, t) ==
  NothingThere(c, t) \/ PutAside(c, t) \/ Place(c, t) \/ TakeAway(c, t) \/ Restore(c, t)
CommitStep(c) ==
  \/ AllAside(c) \/ Withdraws(c) \/ AllPlaced(c) \/ AllRemoved(c) \/ AllRestored(c)
  \/ \E t \in ToSet(Pair) : OneOfThePair(c, t)

LEMMA ListHeads ==
  ASSUME DeliveryTypeOK, NEW c \in Commands
  PROVE  /\ left[c] # <<>> => Head(left[c]) \in ToSet(Pair)
         /\ placed[c] # <<>> => Last(placed[c]) \in ToSet(Pair)
         /\ backedUp[c] # <<>> => Last(backedUp[c]) \in ToSet(Pair)
BY Lists DEF DeliveryTypeOK

LEMMA CommitSteps ==
  ASSUME DeliveryTypeOK, NEW c \in Commands,
         BackUp(c) \/ PutInPlace(c) \/ TakeBack(c) \/ PutBack(c)
  PROVE  CommitStep(c) /\ UNCHANGED <<spec, kind, input, candidate>>
<1> USE DEF CommitStep, OneOfThePair, Proceed, account, lists
<1>1. CASE BackUp(c)
  <2>1. CASE left[c] = <<>> /\ left' = [left EXCEPT ![c] = Pair] /\ Proceed(c, "placing")
             /\ UNCHANGED <<target, stash, backedUp, breaks>>
    BY <1>1, <2>1 DEF BackUp, AllAside
  <2>2. CASE left[c] # <<>> /\ RenameFails /\ Proceed(c, "removing")
             /\ UNCHANGED <<target, stash, left, backedUp>>
    BY <1>1, <2>2 DEF BackUp, Withdraws
  <2> DEFINE t == Head(left[c])
  <2>3. CASE /\ left[c] # <<>> /\ UNCHANGED phase
             /\ left' = [left EXCEPT ![c] = Tail(@)] /\ UNCHANGED breaks
             /\ IF target[t] = NoFile THEN UNCHANGED <<target, stash, backedUp>>
                ELSE /\ stash' = [stash EXCEPT ![c][t] = target[t]]
                     /\ target' = [target EXCEPT ![t] = NoFile]
                     /\ backedUp' = [backedUp EXCEPT ![c] = Append(@, t)]
    <3>1. t \in ToSet(Pair)
      BY <2>3, ListHeads
    <3>2. phase[c] = "backing" /\ UNCHANGED <<spec, kind, input, candidate, placed, account>>
      BY <1>1 DEF BackUp
    <3>3. left' = [left EXCEPT ![c] = Tail(left[c])]
      BY <2>3
    <3>4. CASE target[t] = NoFile
      <4>1. NothingThere(c, t)
        BY <2>3, <3>2, <3>3, <3>4 DEF NothingThere
      <4>2. QED
        BY <3>1, <3>2, <4>1
    <3>5. CASE target[t] # NoFile
      <4>1. stash' = [stash EXCEPT ![c] = [stash[c] EXCEPT ![t] = target[t]]]
        BY <2>3, <3>5
      <4>2. PutAside(c, t)
        BY <2>3, <3>2, <3>3, <3>5, <4>1 DEF PutAside
      <4>3. QED
        BY <3>1, <3>2, <4>2
    <3>6. QED
      BY <3>4, <3>5
  <2>4. QED
    BY <1>1, <2>1, <2>2, <2>3 DEF BackUp
<1>2. CASE PutInPlace(c)
  <2>1. phase[c] = "placing" /\ UNCHANGED <<spec, kind, input, candidate, broken, split>>
    BY <1>2 DEF PutInPlace
  <2>2. CASE /\ left[c] = <<>> /\ Proceed(c, "done") /\ lastPair' = <<Made(c), Made(c)>>
             /\ DropStaging(c) /\ UNCHANGED <<target, breaks>>
    BY <2>1, <2>2 DEF AllPlaced
  <2>3. CASE left[c] # <<>> /\ RenameFails /\ Proceed(c, "removing")
             /\ UNCHANGED <<target, lists, lastPair>>
    BY <2>1, <2>3 DEF Withdraws
  <2> DEFINE t == Head(left[c])
  <2>4. CASE /\ left[c] # <<>> /\ UNCHANGED <<phase, lastPair, stash, backedUp, breaks>>
             /\ left' = [left EXCEPT ![c] = Tail(@)]
             /\ target' = [target EXCEPT ![t] = Made(c)]
             /\ placed' = [placed EXCEPT ![c] = Append(@, t)]
    <3>1. t \in ToSet(Pair)
      BY <2>4, ListHeads
    <3>2. Place(c, t)
      BY <2>1, <2>4 DEF Place
    <3>3. QED
      BY <2>1, <3>1, <3>2
  <2>5. QED
    BY <1>2, <2>2, <2>3, <2>4 DEF PutInPlace
<1>3. CASE TakeBack(c)
  <2>1. /\ phase[c] = "removing"
        /\ UNCHANGED <<spec, kind, input, candidate, stash, left, backedUp, split, lastPair>>
    BY <1>3 DEF TakeBack
  <2>2. CASE placed[c] = <<>> /\ Proceed(c, "restoring")
             /\ UNCHANGED <<target, placed, breaks, broken>>
    BY <2>1, <2>2 DEF AllRemoved
  <2> DEFINE t == Last(placed[c])
  <2>3. CASE /\ placed[c] # <<>> /\ placed' = [placed EXCEPT ![c] = Front(@)] /\ UNCHANGED phase
             /\ \/ target' = [target EXCEPT ![t] = NoFile] /\ UNCHANGED <<breaks, broken>>
                \/ RenameFails /\ broken' = broken \cup {c} /\ UNCHANGED target
    <3>1. t \in ToSet(Pair)
      BY <2>3, ListHeads
    <3>2. TakeAway(c, t)
      BY <2>1, <2>3 DEF TakeAway
    <3>3. QED
      BY <2>1, <3>1, <3>2
  <2>4. QED
    BY <1>3, <2>2, <2>3 DEF TakeBack
<1>4. CASE PutBack(c)
  <2>1. phase[c] = "restoring" /\ UNCHANGED <<spec, kind, input, candidate, split, lastPair>>
    BY <1>4 DEF PutBack
  <2>2. CASE backedUp[c] = <<>> /\ Proceed(c, "failed") /\ DropStaging(c)
             /\ UNCHANGED <<target, breaks, broken>>
    BY <2>1, <2>2 DEF AllRestored
  <2> DEFINE t == Last(backedUp[c])
  <2>3. CASE /\ backedUp[c] # <<>> /\ backedUp' = [backedUp EXCEPT ![c] = Front(@)]
             /\ UNCHANGED <<phase, stash, left, placed>>
             /\ \/ target' = [target EXCEPT ![t] = stash[c][t]] /\ UNCHANGED <<breaks, broken>>
                \/ /\ RenameFails /\ broken' = broken \cup {c}
                   /\ target' \in {target, [target EXCEPT ![t] = NoFile]}
    <3>1. t \in ToSet(Pair)
      BY <2>3, ListHeads
    <3>2. Restore(c, t)
      BY <2>1, <2>3 DEF Restore
    <3>3. QED
      BY <2>1, <3>1, <3>2
  <2>4. QED
    BY <1>4, <2>2, <2>3 DEF PutBack
<1>5. QED
  BY <1>1, <1>2, <1>3, <1>4

\* The steps before a commit: what a command reads and renders is its own affair.
EarlyStep(c) ==
  /\ phase[c] \in Preparing
  /\ \E place \in Preparing \cup {"renaming", "failed"} :
       /\ phase' = [phase EXCEPT ![c] = place]
       /\ place = "renaming" => kind[c] # "compare"
       /\ place \in {"checked", "renaming"} => candidate'[c] = input'[c] /\ candidate'[c] \in Sound
  /\ \A d \in Commands \ {c} : input'[d] = input[d] /\ candidate'[d] = candidate[d]
  /\ {input', candidate'} \subseteq [Commands -> Versions \cup {NoVersion}]
  /\ UNCHANGED <<spec, target, kind, lists, breaks, account>>
RenameStep(c) ==
  /\ phase[c] = "renaming"
  /\ \/ /\ \E t \in Targets \ ToSet(Pair) : target' = [target EXCEPT ![t] = Made(c)]
        /\ phase' = [phase EXCEPT ![c] = "done"] /\ UNCHANGED breaks
     \/ RenameFails /\ phase' = [phase EXCEPT ![c] = "failed"] /\ UNCHANGED target
  /\ UNCHANGED <<spec, kind, input, candidate, lists, account>>
StepOf(c) ==
  \/ EarlyStep(c) \/ RenameStep(c) \/ Precommit(c) \/ Die(c)
  \/ CommitStep(c) /\ UNCHANGED <<spec, kind, input, candidate>>
NoStep == spec' \in Versions /\ UNCHANGED <<target, commandVars, breaks, account>>

\* Every step is one of these.
LEMMA DeliverySteps ==
  ASSUME DeliveryTypeOK, FilesMade, [DeliveryNext]_deliveryVars
  PROVE  NoStep \/ \E c \in Commands : StepOf(c)
<1>1. CASE UNCHANGED deliveryVars
  BY <1>1 DEF deliveryVars, NoStep, account, DeliveryTypeOK
<1>2. CASE Edit
  BY <1>2 DEF Edit, NoStep
<1>3. ASSUME NEW c \in Commands,
             \/ FailEarly(c) \/ ConfirmOutput(c) \/ ConfirmSource(c) \/ ValidateAuthored(c)
             \/ \E k \in Kinds : Take(c, k)
             \/ \E k \in Kinds, from \in {"staged", "validated"} : Rendered(c, k, from)
      PROVE  EarlyStep(c)
  <2> USE DEF EarlyStep, Preparing, Proceed, DeliveryTypeOK
  <2>1. CASE FailEarly(c)
    BY <2>1 DEF FailEarly
  <2>2. CASE ConfirmOutput(c)
    BY <2>2 DEF ConfirmOutput, FilesMade
  <2>3. CASE ConfirmSource(c)
    BY <2>3 DEF ConfirmSource, FilesMade
  <2>4. CASE ValidateAuthored(c)
    BY <2>4 DEF ValidateAuthored
  <2>5. CASE \E k \in Kinds : Take(c, k)
    BY <2>5 DEF Take
  <2>6. CASE \E k \in Kinds, from \in {"staged", "validated"} : Rendered(c, k, from)
    BY <2>6 DEF Rendered, Frozen
  <2>7. QED
    BY <1>3, <2>1, <2>2, <2>3, <2>4, <2>5, <2>6
<1>4. ASSUME NEW c \in Commands, PublishDelivery(c) \/ PublishMigration(c)
      PROVE  RenameStep(c)
  <2>1. {"artifact", "document"} \subseteq Targets \ ToSet(Pair)
    BY Lists DEF Targets
  <2>2. QED
    BY <1>4, <2>1 DEF PublishDelivery, PublishMigration, Rename, RenameStep, Proceed
<1>5. CASE \E c \in Commands :
             \/ BeginDeliver(c) \/ BeginCompare(c) \/ BeginMigrate(c) \/ FailEarly(c)
             \/ ValidateAuthored(c) \/ RenderDelivery(c) \/ RenderCompare(c) \/ RenderMigration(c)
             \/ ConfirmOutput(c) \/ ConfirmSource(c)
  <2>1. PICK c \in Commands :
             \/ BeginDeliver(c) \/ BeginCompare(c) \/ BeginMigrate(c) \/ FailEarly(c)
             \/ ValidateAuthored(c) \/ RenderDelivery(c) \/ RenderCompare(c) \/ RenderMigration(c)
             \/ ConfirmOutput(c) \/ ConfirmSource(c)
    BY <1>5
  <2>2. (BeginDeliver(c) \/ BeginCompare(c) \/ BeginMigrate(c)) => \E k \in Kinds : Take(c, k)
    BY DEF BeginDeliver, BeginCompare, BeginMigrate, Kinds
  <2>3. (RenderDelivery(c) \/ RenderCompare(c) \/ RenderMigration(c))
          => \E k \in Kinds, from \in {"staged", "validated"} : Rendered(c, k, from)
    BY DEF RenderDelivery, RenderCompare, RenderMigration, Kinds
  <2>4. QED
    BY <1>3, <2>1, <2>2, <2>3 DEF StepOf
<1>6. QED
  BY <1>1, <1>2, <1>4, <1>5, CommitSteps DEF DeliveryNext, StepOf

\* A step of one command leaves what the others keep alone.
LEMMA OthersUntouched ==
  ASSUME DeliveryTypeOK, NEW c \in Commands, StepOf(c)
  PROVE  /\ kind' = kind
         /\ \A d \in Commands \ {c} :
              /\ phase'[d] = phase[d] /\ input'[d] = input[d] /\ candidate'[d] = candidate[d]
              /\ stash'[d] = stash[d] /\ left'[d] = left[d]
              /\ backedUp'[d] = backedUp[d] /\ placed'[d] = placed[d]
<1> USE DEF DeliveryTypeOK, account, lists
<1>1. CASE EarlyStep(c)
  BY <1>1 DEF EarlyStep
<1>2. CASE RenameStep(c)
  BY <1>2 DEF RenameStep
<1>3. CASE Precommit(c)
  BY <1>3 DEF Precommit, Proceed
<1>4. CASE Die(c)
  BY <1>4 DEF Die, Proceed
<1>5. CASE CommitStep(c) /\ UNCHANGED <<spec, kind, input, candidate>>
  <2>1. CASE AllAside(c) \/ Withdraws(c) \/ AllPlaced(c) \/ AllRemoved(c) \/ AllRestored(c)
    BY <1>5, <2>1 DEF AllAside, Withdraws, AllPlaced, AllRemoved, AllRestored, DropStaging
  <2>2. CASE \E t \in ToSet(Pair) : OneOfThePair(c, t)
    BY <1>5, <2>2 DEF OneOfThePair, NothingThere, PutAside, Place, TakeAway, Restore
  <2>3. QED
    BY <1>5, <2>1, <2>2 DEF CommitStep
<1>6. QED
  BY <1>1, <1>2, <1>3, <1>4, <1>5 DEF StepOf

-----------------------------------------------------------------------------
(* Types and phases                                                            *)

LEMMA DeliveryInitInv == DeliveryInit => CommitInv
<1> SUFFICES ASSUME DeliveryInit PROVE CommitInv
  OBVIOUS
<1>1. \A c \in Commands : /\ phase[c] = "new" /\ stash[c] = NoStash
                          /\ left[c] = <<>> /\ backedUp[c] = <<>> /\ placed[c] = <<>>
  BY DEF DeliveryInit
<1>2. \A t \in Targets : target[t].by \notin Commands
  BY DeliveryAssumption DEF DeliveryInit, NoFile
<1>3. \A c, d \in Commands : \A t \in ToSet(Pair) : stash[d][t].by # c
  BY <1>1, FileTypes
<1>4. PhasesKept
  BY <1>1 DEF PhasesKept, PhaseFits, Committing
<1>5. FilesMade
  BY <1>1, <1>2, <1>3 DEF FilesMade, Committing, Preparing, ByOf, Stashed
<1>6. CommitsApart
  BY <1>1, <1>2, <1>3 DEF CommitsApart, Committing, ByOf, Stashed
<1>7. PreviousKept
  BY <1>1 DEF PreviousKept, Committing
<1>8. PairConsistent
  BY DEF PairConsistent, DeliveryInit, Targets
<1>9. QED
  BY <1>4, <1>5, <1>6, <1>7, <1>8 DEF CommitInv

LEMMA DeliveryStepType ==
  ASSUME DeliveryTypeOK, PhasesKept, FilesMade, [DeliveryNext]_deliveryVars
  PROVE  DeliveryTypeOK'
<1> USE DEF DeliveryTypeOK, account, lists, Committing
<1>1. CASE NoStep
  BY <1>1 DEF NoStep, commandVars
<1> SUFFICES ASSUME NEW c \in Commands, StepOf(c) PROVE DeliveryTypeOK'
  BY <1>1, DeliverySteps
<1>2. RenameFails => breaks' \in 0..MaxBreaks
  BY DeliveryAssumption DEF RenameFails
<1>3. DropStaging(c) => /\ stash' \in [Commands -> [ToSet(Pair) -> File]]
                        /\ left' \in [Commands -> {Pair, <<"receipt">>, <<>>}]
                        /\ placed' \in [Commands -> {<<>>, <<"html">>, Pair}]
                        /\ backedUp' \in [Commands -> {<<>>, <<"html">>, <<"receipt">>, Pair}]
  BY FileTypes DEF DropStaging
<1>4. Made(c) \in File
  BY FileTypes
<1>5. CASE EarlyStep(c)
  <2>1. PICK place \in Preparing \cup {"renaming", "failed"} :
           phase' = [phase EXCEPT ![c] = place]
    BY <1>5 DEF EarlyStep
  <2>2. phase' \in [Commands -> {"new", "staged", "validated", "checked", "renaming", "done",
                                 "failed", "dead"} \cup Committing]
    BY <2>1 DEF Preparing
  <2>3. QED
    BY <1>5, <2>2 DEF EarlyStep
<1>6. CASE RenameStep(c)
  <2>1. target' \in [Targets -> File]
    BY <1>4, <1>6 DEF RenameStep
  <2>2. breaks' \in 0..MaxBreaks
    BY <1>2, <1>6 DEF RenameStep
  <2>3. QED
    BY <1>6, <2>1, <2>2 DEF RenameStep
<1>7. CASE Precommit(c)
  BY <1>7 DEF Precommit, Proceed
<1>8. CASE Die(c)
  BY <1>8 DEF Die, Proceed
<1>9. CASE CommitStep(c) /\ UNCHANGED <<spec, kind, input, candidate>>
  <2>1. CASE AllAside(c)
    BY <1>9, <2>1 DEF AllAside
  <2>2. CASE Withdraws(c)
    BY <1>2, <1>9, <2>2 DEF Withdraws
  <2>3. CASE AllPlaced(c)
    BY <1>3, <1>4, <1>9, <2>3 DEF AllPlaced
  <2>4. CASE AllRemoved(c)
    BY <1>9, <2>4 DEF AllRemoved
  <2>5. CASE AllRestored(c)
    BY <1>3, <1>9, <2>5 DEF AllRestored
  <2>6. ASSUME NEW t \in ToSet(Pair), OneOfThePair(c, t) PROVE DeliveryTypeOK'
    <3>1. t \in Targets
      BY FileTypes
    <3>2. (NothingThere(c, t) \/ PutAside(c, t) \/ Place(c, t))
            => left' \in [Commands -> {Pair, <<"receipt">>, <<>>}]
      <4>1. left[c] # <<>> => Tail(left[c]) \in {<<"receipt">>, <<>>}
        BY Lists
      <4>2. QED
        BY <4>1 DEF NothingThere, PutAside, Place
    <3>3. CASE NothingThere(c, t)
      BY <1>9, <3>2, <3>3 DEF NothingThere
    <3>4. CASE PutAside(c, t)
      <4>1. target' \in [Targets -> File]
        BY <3>1, <3>4, FileTypes DEF PutAside
      <4>2. stash' \in [Commands -> [ToSet(Pair) -> File]]
        BY <3>1, <3>4 DEF PutAside
      <4>3. Append(backedUp[c], t) \in {<<"html">>, <<"receipt">>, Pair}
        BY <3>4, Lists DEF PutAside, PhasesKept, PhaseFits
      <4>4. backedUp' \in [Commands -> {<<>>, <<"html">>, <<"receipt">>, Pair}]
        BY <3>4, <4>3 DEF PutAside
      <4>5. QED
        BY <1>9, <3>2, <3>4, <4>1, <4>2, <4>4 DEF PutAside
    <3>5. CASE Place(c, t)
      <4>1. target' \in [Targets -> File]
        BY <1>4, <3>1, <3>5 DEF Place
      <4>2. Append(placed[c], t) \in {<<"html">>, Pair}
        BY <3>5, Lists DEF Place, PhasesKept, PhaseFits
      <4>3. placed' \in [Commands -> {<<>>, <<"html">>, Pair}]
        BY <3>5, <4>2 DEF Place
      <4>4. QED
        BY <1>9, <3>2, <3>5, <4>1, <4>3 DEF Place
    <3>6. CASE TakeAway(c, t)
      <4>1. target' \in [Targets -> File]
        BY <3>1, <3>6, FileTypes DEF TakeAway
      <4>2. placed' \in [Commands -> {<<>>, <<"html">>, Pair}]
        BY <3>6, Lists DEF TakeAway
      <4>3. breaks' \in 0..MaxBreaks /\ broken' \subseteq Commands
        BY <1>2, <3>6 DEF TakeAway
      <4>4. QED
        BY <1>9, <3>6, <4>1, <4>2, <4>3 DEF TakeAway
    <3>7. CASE Restore(c, t)
      <4>1. target' \in [Targets -> File]
        <5>1. stash[c][t] \in File
          OBVIOUS
        <5>2. QED
          BY <3>1, <3>7, <5>1, FileTypes DEF Restore
      <4>2. backedUp' \in [Commands -> {<<>>, <<"html">>, <<"receipt">>, Pair}]
        BY <3>7, Lists DEF Restore
      <4>3. breaks' \in 0..MaxBreaks /\ broken' \subseteq Commands
        BY <1>2, <3>7 DEF Restore
      <4>4. QED
        BY <1>9, <3>7, <4>1, <4>2, <4>3 DEF Restore
    <3>8. QED
      BY <2>6, <3>3, <3>4, <3>5, <3>6, <3>7 DEF OneOfThePair
  <2>7. QED
    BY <1>9, <2>1, <2>2, <2>3, <2>4, <2>5, <2>6 DEF CommitStep
<1>10. QED
  BY <1>5, <1>6, <1>7, <1>8, <1>9 DEF StepOf

LEMMA StepPhases ==
  ASSUME DeliveryTypeOK, PhasesKept, FilesMade, [DeliveryNext]_deliveryVars
  PROVE  PhasesKept'
<1> USE DEF PhaseFits
<1>1. CASE NoStep
  BY <1>1 DEF NoStep, PhasesKept, commandVars
<1> SUFFICES ASSUME NEW c \in Commands, StepOf(c) PROVE PhasesKept'
  BY <1>1, DeliverySteps
<1>2. \A d \in Commands \ {c} : PhaseFits(d)'
  BY OthersUntouched DEF PhasesKept
<1>3. PhaseFits(c) /\ kind' = kind
  BY OthersUntouched DEF PhasesKept
<1> SUFFICES PhaseFits(c)'
  BY <1>2 DEF PhasesKept
<1> USE DEF DeliveryTypeOK, Committing, Preparing, account, lists
<1>4. CASE EarlyStep(c)
  BY <1>3, <1>4 DEF EarlyStep
<1>5. CASE RenameStep(c)
  BY <1>3, <1>5 DEF RenameStep
<1>6. CASE Precommit(c)
  BY <1>3, <1>6, Lists DEF Precommit, Proceed
<1>7. CASE Die(c)
  BY <1>3, <1>7 DEF Die, Proceed
<1>8. CASE AllAside(c)
  BY <1>3, <1>8, Lists DEF AllAside
<1>9. CASE Withdraws(c)
  BY <1>3, <1>9 DEF Withdraws
<1>10. CASE AllPlaced(c)
  BY <1>3, <1>10 DEF AllPlaced
<1>11. CASE AllRemoved(c)
  BY <1>3, <1>11 DEF AllRemoved
<1>12. CASE AllRestored(c)
  BY <1>3, <1>12 DEF AllRestored
<1>13. ASSUME NEW t \in ToSet(Pair), OneOfThePair(c, t) PROVE PhaseFits(c)'
  <2>1. CASE NothingThere(c, t)
    BY <1>3, <2>1, Lists DEF NothingThere
  <2>2. CASE PutAside(c, t)
    BY <1>3, <2>2, Lists DEF PutAside
  <2>3. CASE Place(c, t)
    BY <1>3, <2>3, Lists DEF Place
  <2>4. CASE TakeAway(c, t)
    BY <1>3, <2>4 DEF TakeAway
  <2>5. CASE Restore(c, t)
    BY <1>3, <2>5 DEF Restore
  <2>6. QED
    BY <1>13, <2>1, <2>2, <2>3, <2>4, <2>5 DEF OneOfThePair
<1>14. QED
  BY <1>4, <1>5, <1>6, <1>7, <1>8, <1>9, <1>10, <1>11, <1>12, <1>13 DEF StepOf, CommitStep

-----------------------------------------------------------------------------
(* Where the files come from                                                   *)

\* A file is nobody's, was there before, or is the candidate of the command that made it.
OfItsMaker(f, read) == f.by \in Commands => f.of = read[f.by] /\ f.of \in Sound

\* Where the files of a step come from: they were somewhere before, or c has just made
\* them, past its last check.
LEMMA FilesMove ==
  ASSUME DeliveryTypeOK, NEW c \in Commands, StepOf(c)
  PROVE  /\ \A t \in Targets : \/ target'[t] = target[t] \/ target'[t] = NoFile
                               \/ /\ target'[t] = Made(c) /\ phase[c] \in {"renaming", "placing"}
                                  /\ candidate'[c] = candidate[c] /\ input'[c] = input[c]
                               \/ /\ t \in ToSet(Pair) /\ target'[t] = stash[c][t]
                                  /\ phase[c] = "restoring"
         /\ \A t \in ToSet(Pair) : \/ stash'[c][t] = stash[c][t] \/ stash'[c][t] = NoFile
                                   \/ stash'[c][t] = target[t] /\ phase[c] = "backing"
<1> USE DEF DeliveryTypeOK, account, lists
<1>1. CASE EarlyStep(c)
  BY <1>1 DEF EarlyStep
<1>2. CASE RenameStep(c)
  BY <1>2 DEF RenameStep
<1>3. CASE Precommit(c)
  BY <1>3 DEF Precommit
<1>4. CASE Die(c)
  BY <1>4 DEF Die
<1>5. CASE UNCHANGED <<target, stash>>
  BY <1>5
<1>6. CASE AllPlaced(c) \/ AllRestored(c)
  <2>1. target' = target /\ stash'[c] = NoStash
    BY <1>6 DEF AllPlaced, AllRestored, DropStaging
  <2>2. QED
    BY <2>1, FileTypes
<1>7. ASSUME NEW u \in ToSet(Pair), PutAside(c, u)
      PROVE  /\ \A t \in Targets : target'[t] = target[t] \/ target'[t] = NoFile
             /\ \A t \in ToSet(Pair) : \/ stash'[c][t] = stash[c][t]
                                       \/ stash'[c][t] = target[t] /\ phase[c] = "backing"
  <2>1. phase[c] = "backing" /\ stash'[c] = [stash[c] EXCEPT ![u] = target[u]]
        /\ target' = [target EXCEPT ![u] = NoFile]
    BY <1>7 DEF PutAside
  <2>2. QED
    BY <2>1
<1>8. ASSUME NEW u \in ToSet(Pair), Place(c, u)
      PROVE  /\ \A t \in Targets : target'[t] = target[t] \/ target'[t] = Made(c)
             /\ stash' = stash /\ phase[c] = "placing"
  BY <1>8 DEF Place
<1>9. ASSUME NEW u \in ToSet(Pair), TakeAway(c, u)
      PROVE  /\ \A t \in Targets : target'[t] = target[t] \/ target'[t] = NoFile
             /\ stash' = stash
  BY <1>9 DEF TakeAway
<1>10. ASSUME NEW u \in ToSet(Pair), Restore(c, u)
       PROVE  /\ \A t \in Targets : \/ target'[t] = target[t] \/ target'[t] = NoFile
                                    \/ t \in ToSet(Pair) /\ target'[t] = stash[c][t]
              /\ stash' = stash /\ phase[c] = "restoring"
  BY <1>10 DEF Restore
<1>11. CASE CommitStep(c) /\ UNCHANGED <<spec, kind, input, candidate>>
  BY <1>5, <1>6, <1>7, <1>8, <1>9, <1>10, <1>11
     DEF CommitStep, OneOfThePair, AllAside, Withdraws, AllRemoved, NothingThere
<1>12. QED
  BY <1>1, <1>2, <1>3, <1>4, <1>11 DEF StepOf

\* How the phase of a command may go on.
LEMMA PhaseGoes ==
  ASSUME DeliveryTypeOK, PhasesKept, NEW c \in Commands, StepOf(c)
  PROVE  /\ phase'[c] \in Preparing \cup {"renaming"} => phase[c] \in Preparing
         /\ phase'[c] = "backing" => phase[c] \in Preparing \cup {"backing"}
         /\ phase'[c] \in Committing => Precommit(c) \/ CommitStep(c)
         /\ phase'[c] = "failed" => phase[c] \in Preparing \cup {"renaming"} \/ AllRestored(c)
         /\ phase[c] \notin Preparing => input'[c] = input[c] /\ candidate'[c] = candidate[c]
         /\ phase'[c] \in {"checked", "renaming"} =>
              candidate'[c] = input'[c] /\ candidate'[c] \in Sound
         /\ phase'[c] \in Committing \ {phase[c]} => phase[c] \in {"checked"} \cup Committing
         /\ phase[c] \notin {"done", "failed", "dead"}
<1> USE DEF DeliveryTypeOK, Committing, Preparing, account, lists
<1>1. CASE EarlyStep(c)
  BY <1>1 DEF EarlyStep
<1>2. CASE RenameStep(c)
  BY <1>2 DEF RenameStep
<1>3. CASE Precommit(c)
  BY <1>3 DEF Precommit, Proceed
<1>4. CASE Die(c)
  BY <1>4 DEF Die, Proceed
<1>5. CASE CommitStep(c) /\ UNCHANGED <<spec, kind, input, candidate>>
  <2>1. CASE AllAside(c) \/ Withdraws(c) \/ AllPlaced(c) \/ AllRemoved(c) \/ AllRestored(c)
    BY <1>5, <2>1 DEF AllAside, Withdraws, AllPlaced, AllRemoved, AllRestored
  <2>2. CASE \E t \in ToSet(Pair) : OneOfThePair(c, t)
    BY <1>5, <2>2 DEF OneOfThePair, NothingThere, PutAside, Place, TakeAway, Restore
  <2>3. QED
    BY <1>5, <2>1, <2>2 DEF CommitStep
<1>6. QED
  BY <1>1, <1>2, <1>3, <1>4, <1>5 DEF StepOf

LEMMA StepFiles ==
  ASSUME DeliveryTypeOK, PhasesKept, FilesMade, [DeliveryNext]_deliveryVars
  PROVE  FilesMade'
<1>1. CASE NoStep
  BY <1>1 DEF NoStep, FilesMade, commandVars, ByOf, Stashed
<1> SUFFICES ASSUME NEW c \in Commands, StepOf(c) PROVE FilesMade'
  BY <1>1, DeliverySteps
<1>2. \A d \in Commands : phase'[d] \in {"checked", "renaming"} \cup Committing =>
        candidate'[d] = input'[d] /\ candidate'[d] \in Sound
  <2>1. \A d \in Commands \ {c} : phase'[d] \in {"checked", "renaming"} \cup Committing =>
          candidate'[d] = input'[d] /\ candidate'[d] \in Sound
    BY OthersUntouched DEF FilesMade
  <2>2. phase'[c] \in Committing => phase[c] \in {"checked"} \cup Committing
    BY PhaseGoes DEF FilesMade
  <2>3. CASE phase'[c] \in Committing /\ phase[c] \in Committing
    BY <2>1, <2>3, PhaseGoes DEF FilesMade, Committing, Preparing
  <2>4. CASE phase'[c] \in Committing /\ phase[c] = "checked"
    <3>1. Precommit(c)
      BY <2>4, PhaseGoes DEF CommitStep, OneOfThePair, AllAside, Withdraws, AllPlaced, AllRemoved,
         AllRestored, NothingThere, PutAside, Place, TakeAway, Restore
    <3>2. QED
      BY <2>1, <2>4, <3>1 DEF FilesMade, Precommit, Committing
  <2>5. QED
    BY <2>1, <2>2, <2>3, <2>4, PhaseGoes DEF Committing
\* Whoever has made a file keeps to its input.
<1>3. \A f \in File : OfItsMaker(f, input) /\ (f.by = c => phase[c] \notin Preparing)
                        => OfItsMaker(f, input')
  BY PhaseGoes, OthersUntouched DEF OfItsMaker
<1>4. ASSUME phase[c] \in {"renaming", "placing"},
             candidate'[c] = candidate[c], input'[c] = input[c]
      PROVE  OfItsMaker(Made(c), input')
  BY <1>4 DEF OfItsMaker, Made, FilesMade, Committing
<1>5. \A t \in Targets : OfItsMaker(target[t], input')
  BY <1>3 DEF DeliveryTypeOK, OfItsMaker, FilesMade, ByOf
<1>6. \A d \in Commands : \A t \in ToSet(Pair) : OfItsMaker(stash[d][t], input')
  BY <1>3 DEF DeliveryTypeOK, OfItsMaker, FilesMade, Stashed
<1>7. OfItsMaker(NoFile, input')
  BY FileTypes DEF OfItsMaker
<1>8. \A t \in Targets : OfItsMaker(target'[t], input')
  BY <1>4, <1>5, <1>6, <1>7, FilesMove
<1>9. \A d \in Commands : \A t \in ToSet(Pair) : OfItsMaker(stash'[d][t], input')
  <2>1. \A t \in ToSet(Pair) : OfItsMaker(stash'[c][t], input')
    BY <1>5, <1>6, <1>7, FilesMove, FileTypes
  <2>2. QED
    BY <1>6, <2>1, OthersUntouched
\* Nothing is there of a command that has not begun to commit.
<1>10. ASSUME NEW d \in Commands, phase'[d] \in Preparing \cup {"renaming", "backing"}
       PROVE  ByOf(d)' = {} /\ Stashed(d)' = {}
  <2>1. phase[d] \in Preparing \cup {"backing"} \cup {"renaming"}
    BY <1>10, PhaseGoes, OthersUntouched
  <2>2. /\ \A t \in Targets : target[t].by # d
        /\ \A e \in Commands : \A t \in ToSet(Pair) : stash[e][t].by # d
    BY <2>1 DEF FilesMade, ByOf, Stashed
  <2>3. d = c => phase[c] \notin {"renaming", "placing"}
    BY <1>10, PhaseGoes DEF Preparing
  <2>4. NoFile.by # d
    BY FileTypes
  <2>5. \A t \in Targets : target'[t].by # d
    <3>1. Made(c).by = c
      BY DEF Made
    <3>2. phase[c] \in {"renaming", "placing"} => d # c
      BY <2>3
    <3>3. QED
      BY <2>2, <2>4, <3>1, <3>2, FilesMove
  <2>6. \A t \in ToSet(Pair) : stash'[c][t].by # d
    BY <2>2, <2>4, FilesMove, FileTypes
  <2>7. \A e \in Commands : \A t \in ToSet(Pair) : stash'[e][t].by # d
    BY <2>2, <2>6, OthersUntouched
  <2>8. QED
    BY <2>5, <2>7 DEF ByOf, Stashed
<1>11. QED
  BY <1>2, <1>8, <1>9, <1>10 DEF FilesMade, OfItsMaker

-----------------------------------------------------------------------------
(* One commit at a time                                                        *)

\* What the steps of a commit do to the sets of its lists.
LEMMA ListSets ==
  ASSUME DeliveryTypeOK, PhasesKept, NEW c \in Commands
  PROVE  /\ left[c] # <<>> => ToSet(Tail(left[c])) = ToSet(left[c]) \ {Head(left[c])}
         /\ placed[c] # <<>> => ToSet(Front(placed[c])) = ToSet(placed[c]) \ {Last(placed[c])}
         /\ backedUp[c] # <<>> =>
              ToSet(Front(backedUp[c])) = ToSet(backedUp[c]) \ {Last(backedUp[c])}
         /\ \A t \in ToSet(Pair) :
              /\ Place(c, t) => ToSet(placed'[c]) = ToSet(placed[c]) \cup {t}
              /\ PutAside(c, t) => /\ ToSet(backedUp'[c]) = ToSet(backedUp[c]) \cup {t}
                                   /\ t \notin ToSet(backedUp[c])
<1> USE DEF DeliveryTypeOK
<1>1. left[c] # <<>> => ToSet(Tail(left[c])) = ToSet(left[c]) \ {Head(left[c])}
  BY Lists
<1>2. placed[c] # <<>> => ToSet(Front(placed[c])) = ToSet(placed[c]) \ {Last(placed[c])}
  BY Lists
<1>3. backedUp[c] # <<>> =>
        ToSet(Front(backedUp[c])) = ToSet(backedUp[c]) \ {Last(backedUp[c])}
  BY Lists
<1>4. ASSUME NEW t \in ToSet(Pair), Place(c, t)
      PROVE  ToSet(placed'[c]) = ToSet(placed[c]) \cup {t}
  <2>1. placed'[c] = Append(placed[c], t)
    BY <1>4 DEF Place
  <2>2. \/ t = "html" /\ placed[c] = <<>>
        \/ t = "receipt" /\ placed[c] = <<"html">>
    BY <1>4, Lists DEF Place, PhasesKept, PhaseFits
  <2>3. QED
    BY <2>1, <2>2, Lists
<1>5. ASSUME NEW t \in ToSet(Pair), PutAside(c, t)
      PROVE  /\ ToSet(backedUp'[c]) = ToSet(backedUp[c]) \cup {t}
             /\ t \notin ToSet(backedUp[c])
  <2>1. backedUp'[c] = Append(backedUp[c], t)
    BY <1>5 DEF PutAside
  <2>2. \/ t = "html" /\ backedUp[c] = <<>>
        \/ t = "receipt" /\ backedUp[c] \in {<<>>, <<"html">>}
    BY <1>5, Lists DEF PutAside, PhasesKept, PhaseFits
  <2>3. QED
    BY <2>1, <2>2, Lists
<1>6. QED
  BY <1>1, <1>2, <1>3, <1>4, <1>5

\* A step between commits, of a command that is not in one, ...
Outside(c) ==
  /\ phase[c] \notin Committing /\ phase'[c] \notin Committing
  /\ UNCHANGED <<stash, left, backedUp, placed, split, broken, lastPair>>
  /\ \A t \in Targets : target'[t] = target[t] \/ (target'[t] = Made(c) /\ phase'[c] = "done")
  /\ \A t \in ToSet(Pair) : target'[t] = target[t]
\* ... or it begins a commit, alone, or is in one.
LEMMA ApartSteps ==
  ASSUME DeliveryTypeOK, CommitsApart, PhasesKept, NEW c \in Commands, StepOf(c), ~split'
  PROVE  /\ ~split
         /\ \/ Outside(c)
            \/ Precommit(c) /\ \A d \in Commands : phase[d] \notin Committing
            \/ CommitStep(c) /\ phase[c] \in Committing
                 /\ UNCHANGED <<spec, kind, input, candidate>>
<1> USE DEF DeliveryTypeOK, account, lists
<1>1. CASE EarlyStep(c)
  <2>1. phase[c] \notin Committing /\ phase'[c] \notin Committing
    BY <1>1 DEF EarlyStep, Preparing, Committing
  <2>2. UNCHANGED <<stash, left, backedUp, placed, split, broken, lastPair>> /\ target' = target
    BY <1>1 DEF EarlyStep
  <2>3. QED
    BY <2>1, <2>2 DEF Outside
<1>2. CASE RenameStep(c)
  <2>1. UNCHANGED <<lists, account>> /\ phase[c] = "renaming" /\ phase'[c] \in {"done", "failed"}
    BY <1>2 DEF RenameStep
  <2>2. \A t \in ToSet(Pair) : target'[t] = target[t]
    BY <1>2, FileTypes DEF RenameStep
  <2>3. \A t \in Targets : target'[t] = target[t] \/ (target'[t] = Made(c) /\ phase'[c] = "done")
    <3>1. \/ phase'[c] = "done" /\ \E u \in Targets : target' = [target EXCEPT ![u] = Made(c)]
          \/ target' = target
      BY <1>2 DEF RenameStep
    <3>2. ASSUME NEW u \in Targets, target' = [target EXCEPT ![u] = Made(c)]
          PROVE  \A t \in Targets : target'[t] = target[t] \/ target'[t] = Made(c)
      BY <3>2
    <3>3. QED
      BY <3>1, <3>2
  <2>4. QED
    BY <2>1, <2>2, <2>3 DEF Outside, Committing
<1>3. CASE Precommit(c)
  BY <1>3 DEF Precommit
<1>4. CASE Die(c)
  <2>1. phase[c] \notin Committing /\ phase'[c] = "dead" /\ split' = split
    BY <1>4 DEF Die, Proceed
  <2>2. UNCHANGED <<stash, left, backedUp, placed, broken, lastPair>> /\ target' = target
    BY <1>4 DEF Die
  <2>3. QED
    BY <2>1, <2>2 DEF Outside, Committing
<1>5. CASE CommitStep(c) /\ UNCHANGED <<spec, kind, input, candidate>>
  <2>1. CASE AllAside(c) \/ Withdraws(c) \/ AllPlaced(c) \/ AllRemoved(c) \/ AllRestored(c)
    BY <1>5, <2>1 DEF AllAside, Withdraws, AllPlaced, AllRemoved, AllRestored, Committing
  <2>2. CASE \E t \in ToSet(Pair) : OneOfThePair(c, t)
    BY <1>5, <2>2 DEF OneOfThePair, NothingThere, PutAside, Place, TakeAway, Restore, Committing
  <2>3. QED
    BY <1>5, <2>1, <2>2 DEF CommitStep
<1>6. QED
  BY <1>1, <1>2, <1>3, <1>4, <1>5 DEF StepOf

LEMMA StepApart ==
  ASSUME DeliveryTypeOK, PhasesKept, FilesMade, CommitsApart, [DeliveryNext]_deliveryVars
  PROVE  CommitsApart'
<1>1. CASE NoStep
  BY <1>1 DEF NoStep, CommitsApart, commandVars, account, ByOf, Stashed
<1> SUFFICES ASSUME NEW c \in Commands, StepOf(c), ~split' PROVE CommitsApart'
  BY <1>1, DeliverySteps DEF CommitsApart
<1>2. ~split
  BY ApartSteps
<1>3. CASE Outside(c)
  <2>1. \A d \in Commands : phase'[d] \in Committing <=> phase[d] \in Committing
    BY <1>3, OthersUntouched DEF Outside
  <2>2. \A d \in Commands : Stashed(d)' = Stashed(d)
    BY <1>3 DEF Outside, Stashed
  <2>3. \A d \in Commands \ {c} : ByOf(d)' \subseteq ByOf(d)
    BY <1>3 DEF Outside, ByOf, Made
  <2>4. phase'[c] = "failed" => ByOf(c)' = {} /\ Stashed(c)' = {}
    <3>1. phase'[c] = "failed" => phase[c] \in Preparing \cup {"renaming"}
      BY <1>3, PhaseGoes DEF Outside, AllRestored, Committing
    <3>2. phase'[c] = "failed" => ByOf(c)' = ByOf(c)
      BY <1>3 DEF Outside, ByOf
    <3>3. QED
      BY <2>2, <3>1, <3>2 DEF FilesMade
  <2>5. \A d \in Commands \ {c} : phase'[d] = phase[d]
    BY OthersUntouched
  <2>6. stash' = stash /\ placed' = placed /\ broken' = broken /\ phase'[c] \notin Committing
    BY <1>3 DEF Outside
  <2>7. \A d \in Commands \ broken' :
          /\ phase'[d] \in Committing => ByOf(d)' \subseteq ToSet(placed'[d])
          /\ phase'[d] = "failed" => ByOf(d)' = {} /\ Stashed(d)' = {}
    BY <1>2, <2>2, <2>3, <2>4, <2>5, <2>6 DEF CommitsApart
  <2>8. QED
    BY <1>2, <2>1, <2>2, <2>6, <2>7 DEF CommitsApart
<1>4. CASE Precommit(c) /\ \A d \in Commands : phase[d] \notin Committing
  <2>1. UNCHANGED <<target, stash, broken, placed>> /\ phase'[c] = "backing"
    BY <1>4 DEF Precommit, Proceed, DeliveryTypeOK
  <2>2. \A d \in Commands : Stashed(d)' = Stashed(d) /\ ByOf(d)' = ByOf(d)
    BY <2>1 DEF Stashed, ByOf
  <2>3. \A d \in Commands : phase'[d] \in Committing => d = c
    BY <1>4, OthersUntouched
  <2>4. ByOf(c) = {} /\ Stashed(c) = {}
    BY <1>4 DEF FilesMade, Precommit, Preparing
  <2>5. \A d \in Commands \ {c} : phase'[d] = phase[d]
    BY OthersUntouched
  <2>6. phase'[c] # "failed" /\ phase'[c] \in Committing
    BY <2>1 DEF Committing
  <2>7. QED
    BY <1>2, <2>1, <2>2, <2>3, <2>4, <2>5, <2>6 DEF CommitsApart
<1>5. CASE CommitStep(c) /\ phase[c] \in Committing /\ UNCHANGED <<spec, kind, input, candidate>>
  <2>1. \A d \in Commands \ {c} : phase'[d] = phase[d] /\ phase[d] \notin Committing
    BY <1>2, <1>5, OthersUntouched DEF CommitsApart
  <2>2. \A d \in Commands \ {c} : stash'[d] = NoStash /\ stash[d] = NoStash
    BY <1>2, <2>1, OthersUntouched DEF CommitsApart
  <2>3. phase'[c] \notin Committing => stash'[c] = NoStash /\ (AllPlaced(c) \/ AllRestored(c))
    <3>1. phase'[c] \notin Committing => AllPlaced(c) \/ AllRestored(c)
      BY <1>5 DEF CommitStep, OneOfThePair, AllAside, Withdraws, AllPlaced, AllRemoved, AllRestored,
         NothingThere, PutAside, Place, TakeAway, Restore, Committing, DeliveryTypeOK
    <3>2. QED
      BY <3>1 DEF AllPlaced, AllRestored, DropStaging, DeliveryTypeOK
  <2>4. Stashed(c) = {}
    BY <1>2, <1>5 DEF CommitsApart
  \* Nothing of its own is put aside.
  <2>5. \A t \in ToSet(Pair) : stash'[c][t].by # c
    <3>1. \A t \in ToSet(Pair) : stash[c][t].by # c
      BY <2>4 DEF Stashed
    <3>2. phase[c] = "backing" => \A t \in Targets : target[t].by # c
      BY DEF FilesMade, ByOf
    <3>3. QED
      BY <3>1, <3>2, FilesMove, FileTypes
  <2>6. Stashed(c)' = {}
    BY <2>2, <2>5, FileTypes DEF Stashed
  \* What is there of a command that failed.
  <2>7. ASSUME NEW d \in Commands \ {c}, d \notin broken', phase'[d] = "failed"
        PROVE  ByOf(d)' = {} /\ Stashed(d)' = {}
    <3>1. broken \subseteq broken'
      BY <1>5 DEF CommitStep, OneOfThePair, AllAside, Withdraws, AllPlaced, AllRemoved, AllRestored,
         NothingThere, PutAside, Place, TakeAway, Restore, account
    <3>2. ByOf(d) = {} /\ Stashed(d) = {}
      BY <1>2, <2>1, <2>7, <3>1 DEF CommitsApart
    <3>3. /\ \A t \in Targets : target[t].by # d
          /\ \A t \in ToSet(Pair) : stash[c][t].by # d
      BY <3>2 DEF ByOf, Stashed
    <3>4. NoFile.by # d /\ Made(c).by = c
      BY FileTypes DEF Made
    <3>5. /\ \A t \in Targets : target'[t].by # d
          /\ \A t \in ToSet(Pair) : stash'[c][t].by # d
      BY <3>3, <3>4, FilesMove, FileTypes
    <3>6. QED
      BY <2>2, <3>4, <3>5, FileTypes DEF ByOf, Stashed
  \* What is there of the command itself.
  <2>8. ASSUME c \notin broken', phase'[c] # "done" PROVE ByOf(c)' \subseteq ToSet(placed'[c])
    <3>1. /\ c \notin broken
          /\ \A t \in Targets : target[t].by = c => t \in ToSet(placed[c])
      BY <1>2, <1>5, <2>8 DEF CommitsApart, ByOf, CommitStep, OneOfThePair, AllAside, Withdraws,
         AllPlaced, AllRemoved, AllRestored, NothingThere, PutAside, Place, TakeAway, Restore, account
    <3>2. NoFile.by # c /\ \A t \in ToSet(Pair) : stash[c][t].by # c
      BY <2>4, FileTypes DEF Stashed
    <3> SUFFICES \A t \in Targets : target'[t].by = c => t \in ToSet(placed'[c])
      BY DEF ByOf
    <3>3. CASE AllAside(c) \/ Withdraws(c) \/ AllRemoved(c)
      BY <3>1, <3>3 DEF AllAside, Withdraws, AllRemoved, lists
    <3>4. ~AllPlaced(c)
      BY <2>8 DEF AllPlaced, DeliveryTypeOK
    <3>5. CASE AllRestored(c)
      <4>1. placed[c] = <<>> /\ placed'[c] = <<>> /\ target' = target
        BY <3>5 DEF AllRestored, DropStaging, PhasesKept, PhaseFits, DeliveryTypeOK
      <4>2. QED
        BY <3>1, <4>1
    <3>6. ASSUME NEW u \in ToSet(Pair), OneOfThePair(c, u)
          PROVE  \A t \in Targets : target'[t].by = c => t \in ToSet(placed'[c])
      <4> USE DEF DeliveryTypeOK
      <4>1. CASE NothingThere(c, u)
        BY <3>1, <4>1 DEF NothingThere
      <4>2. CASE PutAside(c, u)
        BY <3>1, <3>2, <4>2 DEF PutAside
      <4>3. CASE Place(c, u)
        <5>1. target' = [target EXCEPT ![u] = Made(c)]
          BY <4>3 DEF Place
        <5>2. ToSet(placed'[c]) = ToSet(placed[c]) \cup {u}
          BY <4>3, ListSets
        <5>3. QED
          BY <3>1, <5>1, <5>2
      <4>4. CASE TakeAway(c, u)
        BY <2>8, <3>1, <3>2, <4>4, ListSets DEF TakeAway
      <4>5. CASE Restore(c, u)
        BY <2>8, <3>1, <3>2, <4>5 DEF Restore
      <4>6. QED
        BY <3>6, <4>1, <4>2, <4>3, <4>4, <4>5 DEF OneOfThePair
    <3>7. QED
      BY <1>5, <3>3, <3>4, <3>5, <3>6 DEF CommitStep
  <2>9. phase'[c] = "failed" => placed'[c] = <<>>
    BY <2>3 DEF Committing, AllPlaced, AllRestored, DropStaging, DeliveryTypeOK
  <2>10. \A d \in Commands : phase'[d] \in Committing => d = c
    BY <2>1
  <2>11. \A d \in Commands \ broken' :
           /\ phase'[d] \in Committing => ByOf(d)' \subseteq ToSet(placed'[d])
           /\ phase'[d] = "failed" => ByOf(d)' = {} /\ Stashed(d)' = {}
    <3>1. "done" \notin Committing /\ "done" # "failed" /\ ToSet(<<>>) = {}
      BY Lists DEF Committing
    <3>2. QED
      BY <2>6, <2>7, <2>8, <2>9, <2>10, <3>1
  <2>12. QED
    BY <2>2, <2>3, <2>6, <2>10, <2>11 DEF CommitsApart
<1>6. QED
  BY <1>3, <1>4, <1>5, ApartSteps

-----------------------------------------------------------------------------
(* The previous pair                                                           *)

LEMMA StepPrevious ==
  ASSUME DeliveryTypeOK, CommitInv, [DeliveryNext]_deliveryVars
  PROVE  PreviousKept' /\ PairConsistent'
<1> USE DEF KeptOf
<1>1. CASE NoStep
  BY <1>1 DEF NoStep, CommitInv, PreviousKept, PairConsistent, Previous, Made, commandVars, account
<1>2. DeliveryTypeOK'
  BY DeliveryStepType DEF CommitInv
<1> SUFFICES ASSUME NEW c \in Commands, StepOf(c), ~split', broken' = {}
             PROVE  PreviousKept' /\ PairConsistent'
  BY <1>1, DeliverySteps DEF CommitInv, PreviousKept, PairConsistent
<1>3. ~split
  BY ApartSteps DEF CommitInv
<1>4. CASE Outside(c)
  <2>1. broken = {}
    BY <1>4 DEF Outside
  <2>2. /\ lastPair' = lastPair /\ \A t \in ToSet(Pair) : target'[t] = target[t]
        /\ \A d \in Commands : phase'[d] \in Committing <=> phase[d] \in Committing
    BY <1>4, OthersUntouched DEF Outside
  <2>3. \A d \in Commands : phase'[d] \in Committing =>
          /\ phase'[d] = phase[d] /\ Made(d)' = Made(d)
          /\ stash'[d] = stash[d] /\ left'[d] = left[d]
          /\ backedUp'[d] = backedUp[d] /\ placed'[d] = placed[d]
    BY <1>4, OthersUntouched DEF Outside, Made
  <2>4. PreviousKept'
    BY <1>3, <2>1, <2>2, <2>3 DEF CommitInv, PreviousKept, Previous
  <2>5. PairConsistent'
    BY <1>3, <2>1, <2>2, Lists DEF CommitInv, PairConsistent
  <2>6. QED
    BY <2>4, <2>5
<1>5. CASE Precommit(c) /\ \A d \in Commands : phase[d] \notin Committing
  <2>1. /\ UNCHANGED <<target, stash, backedUp, placed, broken, lastPair, candidate>>
        /\ phase'[c] = "backing" /\ left'[c] = Pair
    BY <1>5 DEF Precommit, Proceed, DeliveryTypeOK
  <2>2. <<target["html"], target["receipt"]>> = lastPair
    BY <1>3, <1>5, <2>1 DEF CommitInv, PairConsistent
  <2>3. \A t \in ToSet(Pair) : target[t] = Previous(t)
    BY <2>2, Lists DEF Previous
  <2>4. backedUp[c] = <<>> /\ placed[c] = <<>>
    BY <1>5 DEF CommitInv, PhasesKept, PhaseFits, Precommit, Preparing
  <2>5. KeptOf(c)'
    BY <2>1, <2>3, <2>4, Lists DEF Previous
  <2>6. \A d \in Commands \ {c} : phase'[d] \notin Committing
    BY <1>5, OthersUntouched
  <2>7. QED
    BY <2>1, <2>5, <2>6 DEF PreviousKept, PairConsistent, Committing
<1>6. CASE CommitStep(c) /\ phase[c] \in Committing /\ UNCHANGED <<spec, kind, input, candidate>>
  <2>1. \A d \in Commands \ {c} : phase'[d] \notin Committing
    BY <1>3, <1>6, OthersUntouched DEF CommitInv, CommitsApart
  <2>2. broken = {}
    BY <1>6 DEF CommitStep, OneOfThePair, AllAside, Withdraws, AllPlaced, AllRemoved, AllRestored,
       NothingThere, PutAside, Place, TakeAway, Restore, account
  <2>3. KeptOf(c) /\ PhaseFits(c)
    BY <1>3, <1>6, <2>2 DEF CommitInv, PreviousKept, PhasesKept
  <2>4. Made(c)' = Made(c)
    BY <1>6 DEF Made
  <2> SUFFICES /\ phase'[c] \in Committing => KeptOf(c)'
               /\ phase'[c] \notin Committing =>
                    <<target'["html"], target'["receipt"]>> = lastPair'
    BY <2>1 DEF PreviousKept, PairConsistent
  <2> USE DEF DeliveryTypeOK
  <2>5. CASE AllAside(c)
    BY <2>3, <2>4, <2>5, Lists DEF AllAside, account, Previous, Committing, PhaseFits
  <2>6. CASE Withdraws(c)
    BY <2>3, <2>4, <2>6, Lists DEF Withdraws, lists, account, Previous, Committing, PhaseFits
  <2>7. CASE AllPlaced(c)
    <3>1. placed[c] = Pair /\ phase'[c] = "done" /\ target' = target
          /\ lastPair' = <<Made(c), Made(c)>>
      BY <2>3, <2>7, Lists DEF AllPlaced, PhaseFits
    <3>2. QED
      BY <2>3, <3>1, Lists DEF Committing
  <2>8. CASE AllRemoved(c)
    BY <2>3, <2>4, <2>8, Lists DEF AllRemoved, lists, account, Previous, Committing
  <2>9. CASE AllRestored(c)
    <3>1. placed[c] = <<>> /\ backedUp[c] = <<>> /\ phase'[c] = "failed" /\ target' = target
          /\ lastPair' = lastPair
      BY <2>3, <2>9 DEF AllRestored, PhaseFits, account
    <3>2. target["html"] = lastPair[1] /\ target["receipt"] = lastPair[2]
      BY <2>3, <3>1, Lists DEF Previous
    <3>3. QED
      BY <3>1, <3>2 DEF Committing
  <2>10. ASSUME NEW u \in ToSet(Pair), OneOfThePair(c, u)
         PROVE  phase'[c] \in Committing /\ KeptOf(c)'
    <3>1. phase' = phase /\ lastPair' = lastPair /\ \A t \in ToSet(Pair) : Previous(t)' = Previous(t)
      BY <2>10 DEF OneOfThePair, NothingThere, PutAside, Place, TakeAway, Restore, account, Previous
    <3>2. CASE NothingThere(c, u)
      <4>1. placed[c] = <<>> /\ left'[c] = Tail(left[c])
        BY <2>3, <3>2 DEF NothingThere, PhaseFits
      <4>2. QED
        BY <1>6, <2>3, <2>4, <3>1, <3>2, <4>1, ListSets, Lists DEF NothingThere, CommitInv
    <3>3. CASE PutAside(c, u)
      <4>1. placed[c] = <<>> /\ left'[c] = Tail(left[c])
        BY <2>3, <3>3 DEF PutAside, PhaseFits
      <4>2. /\ ToSet(left'[c]) = ToSet(left[c]) \ {u}
            /\ ToSet(backedUp'[c]) = ToSet(backedUp[c]) \cup {u} /\ u \notin ToSet(backedUp[c])
            /\ ToSet(placed'[c]) = {}
        <5>1. left[c] # <<>> /\ u = Head(left[c]) /\ placed'[c] = placed[c]
          BY <3>3 DEF PutAside
        <5>2. ToSet(left'[c]) = ToSet(left[c]) \ {u}
          BY <4>1, <5>1, ListSets DEF CommitInv
        <5>3. ToSet(backedUp'[c]) = ToSet(backedUp[c]) \cup {u} /\ u \notin ToSet(backedUp[c])
          BY <3>3, ListSets DEF CommitInv
        <5>4. QED
          BY <4>1, <5>1, <5>2, <5>3, Lists
      <4>3. /\ phase'[c] = "backing" /\ target' = [target EXCEPT ![u] = NoFile]
            /\ stash'[c] = [stash[c] EXCEPT ![u] = target[u]]
        BY <3>3 DEF PutAside
      <4>4. target[u] = Previous(u)
        BY <2>3, <4>1, <4>2, Lists
      <4>5. ToSet(Pair) \subseteq Targets /\ u \in Targets
        BY FileTypes
      <4>6. \A t \in ToSet(Pair) \ {u} : target'[t] = target[t] /\ stash'[c][t] = stash[c][t]
        BY <4>3, <4>5
      <4>7. target'[u] = NoFile /\ stash'[c][u] = target[u]
        BY <4>3, <4>5
      <4>8. ToSet(placed[c]) = {}
        BY <4>1, Lists
      <4>9. QED
        BY <1>6, <2>3, <3>1, <4>2, <4>3, <4>4, <4>6, <4>7, <4>8 DEF Committing
    <3>4. CASE Place(c, u)
      <4>1. /\ ToSet(placed'[c]) = ToSet(placed[c]) \cup {u} /\ backedUp'[c] = backedUp[c]
            /\ target' = [target EXCEPT ![u] = Made(c)] /\ stash'[c] = stash[c]
            /\ phase[c] = "placing"
        <5>1. ToSet(placed'[c]) = ToSet(placed[c]) \cup {u}
          BY <3>4, ListSets DEF CommitInv
        <5>2. QED
          BY <3>4, <5>1 DEF Place
      <4>2. u \in Targets
        BY FileTypes
      <4>3. /\ \A t \in ToSet(Pair) \ {u} : target'[t] = target[t]
            /\ target'[u] = Made(c)
        BY <4>1, <4>2, FileTypes
      <4>4. QED
        BY <1>6, <2>3, <2>4, <3>1, <4>1, <4>3
    <3>5. CASE TakeAway(c, u)
      <4>1. /\ ToSet(placed'[c]) = ToSet(placed[c]) \ {u} /\ backedUp'[c] = backedUp[c]
            /\ target' = [target EXCEPT ![u] = NoFile] /\ stash'[c] = stash[c]
            /\ phase[c] = "removing" /\ u \in ToSet(placed[c])
        <5>1. placed'[c] = Front(placed[c]) /\ placed[c] # <<>> /\ u = Last(placed[c])
          BY <3>5 DEF TakeAway
        <5>2. u \in ToSet(placed[c])
          BY <5>1, Lists
        <5>3. target' = [target EXCEPT ![u] = NoFile]
          BY <3>5 DEF TakeAway
        <5>4. QED
          BY <3>5, <5>1, <5>2, <5>3, ListSets DEF TakeAway, CommitInv
      <4>2. u \in Targets
        BY FileTypes
      <4>3. /\ \A t \in ToSet(Pair) \ {u} : target'[t] = target[t]
            /\ target'[u] = NoFile
        BY <4>1, <4>2, FileTypes
      <4>4. QED
        BY <1>6, <2>3, <2>4, <3>1, <4>1, <4>3
    <3>6. CASE Restore(c, u)
      <4>1. /\ ToSet(backedUp'[c]) = ToSet(backedUp[c]) \ {u} /\ placed'[c] = placed[c]
            /\ target' = [target EXCEPT ![u] = stash[c][u]] /\ stash'[c] = stash[c]
            /\ phase[c] = "restoring" /\ u \in ToSet(backedUp[c])
        <5>1. /\ backedUp'[c] = Front(backedUp[c]) /\ backedUp[c] # <<>>
              /\ u = Last(backedUp[c])
          BY <3>6 DEF Restore
        <5>2. u \in ToSet(backedUp[c])
          BY <5>1, Lists
        <5>3. target' = [target EXCEPT ![u] = stash[c][u]]
          BY <3>6 DEF Restore
        <5>4. QED
          BY <3>6, <5>1, <5>2, <5>3, ListSets DEF Restore, CommitInv
      <4>2. u \in Targets /\ ToSet(placed[c]) = {}
        BY <2>3, <4>1, FileTypes, Lists DEF PhaseFits
      <4>3. /\ \A t \in ToSet(Pair) \ {u} : target'[t] = target[t]
            /\ target'[u] = Previous(u)
        BY <2>3, <4>1, <4>2, FileTypes
      <4>4. QED
        BY <1>6, <2>3, <2>4, <3>1, <4>1, <4>2, <4>3
    <3>7. QED
      BY <1>6, <2>10, <3>1, <3>2, <3>3, <3>4, <3>5, <3>6 DEF OneOfThePair
  <2>11. QED
    BY <1>6, <2>5, <2>6, <2>7, <2>8, <2>9, <2>10 DEF CommitStep
<1>7. QED
  BY <1>4, <1>5, <1>6, ApartSteps DEF CommitInv

-----------------------------------------------------------------------------
(* The theorems                                                                *)

\* The inductive invariant: types; what the phases allow; where files come from; one
\* commit at a time; and in each the previous pair, in place or put aside.
THEOREM DeliveryInvariant == DeliverySpec => [](DeliveryTypeOK /\ CommitInv)
<1>1. DeliveryInit => DeliveryTypeOK /\ CommitInv
  BY DeliveryInitType, DeliveryInitInv
<1>2. DeliveryTypeOK /\ CommitInv /\ [DeliveryNext]_deliveryVars => (DeliveryTypeOK /\ CommitInv)'
  BY DeliveryStepType, StepPhases, StepFiles, StepApart, StepPrevious DEF CommitInv
<1>3. QED
  BY <1>1, <1>2, PTL DEF DeliverySpec

\* Whatever the author does meanwhile, a published file was rendered from the very
\* specification its receipt names, and passed the checks; a command that reported a
\* failure has left nothing; and between commits the pair is that of the last compare
\* that succeeded. Cut short commits, overlapping ones and failed restores are excepted.
THEOREM PublishedSound == DeliverySpec => []DeliverySound
<1>1. DeliveryTypeOK /\ CommitInv => DeliverySound
  <2> SUFFICES ASSUME DeliveryTypeOK, CommitInv PROVE DeliverySound
    OBVIOUS
  <2>1. ASSUME NEW t \in Targets, target[t].by \in Commands
        PROVE  /\ target[t].of = input[target[t].by] /\ target[t].of \in Sound
               /\ phase[target[t].by] = "failed" => target[t].by \in broken \/ split
    <3>1. t \in ByOf(target[t].by)
      BY DEF ByOf
    <3>2. QED
      BY <2>1, <3>1 DEF CommitInv, FilesMade, CommitsApart
  <2>2. DeliveryTruthful
    BY <2>1 DEF DeliveryTruthful
  <2>3. QED
    BY <2>2 DEF DeliverySound, CommitInv
<1>2. QED
  BY <1>1, DeliveryInvariant, PTL

-----------------------------------------------------------------------------
(* The comparison                                                          *)

\* The sorts of items a diagram has.
KindSet == {"component", "connection", "boundary"}

LEMMA KindsAre == DOMAIN Groups = KindSet /\ KindSet = {"component", "connection", "boundary"}
BY DEF Groups, KindSet

LEMMA ClassesAre ==
  ASSUME NEW a, NEW b
  PROVE  /\ Classifications("component", a, b) \subseteq {"semantic", "evidence", "geometry"}
         /\ Classifications("connection", a, b) \subseteq {"topology", "semantic", "geometry"}
         /\ Classifications("boundary", a, b) \subseteq {"scope", "geometry"}
<1>1. /\ Groups["component"] = ComponentFields /\ Groups["connection"] = ConnectionFields
      /\ Groups["boundary"] = BoundaryFields
  BY DEF Groups
<1>2. /\ DOMAIN ComponentFields = {"semantic", "evidence", "geometry"}
      /\ DOMAIN ConnectionFields = {"topology", "semantic", "geometry"}
      /\ DOMAIN BoundaryFields = {"scope", "geometry"}
  BY DEF ComponentFields, ConnectionFields, BoundaryFields
<1>3. QED
  BY <1>1, <1>2 DEF Classifications

\* No order of the two: what differs differs either way.
LEMMA ClassesEitherWay ==
  ASSUME NEW sort, NEW a, NEW b
  PROVE  /\ Classifications(sort, a, b) = Classifications(sort, b, a)
         /\ \A g : ChangedFields(sort, a, b, g) = ChangedFields(sort, b, a, g)
<1>1. \A g : ChangedFields(sort, a, b, g) = ChangedFields(sort, b, a, g)
  BY DEF ChangedFields
<1>2. QED
  BY <1>1 DEF Classifications

\* Which classifications lead to which status.
LEMMA StatusIs ==
  ASSUME NEW classes
  PROVE  /\ classes \subseteq {"semantic", "evidence", "geometry"} =>
              StatusFor(classes, "component")
                = IF "semantic" \in classes THEN "changed"
                  ELSE IF "evidence" \in classes THEN "evidence-changed"
                  ELSE IF "geometry" \in classes THEN "moved" ELSE "same"
         /\ classes \subseteq {"topology", "semantic", "geometry"} =>
              StatusFor(classes, "connection")
                = IF "topology" \in classes \/ "semantic" \in classes THEN "changed"
                  ELSE IF "geometry" \in classes THEN "rerouted" ELSE "same"
         /\ classes \subseteq {"scope", "geometry"} =>
              StatusFor(classes, "boundary")
                = IF "scope" \in classes THEN "changed"
                  ELSE IF "geometry" \in classes THEN "geometry-changed" ELSE "same"
<1> DEFINE deep == classes \cap {"topology", "semantic", "scope"}
<1>1. ASSUME NEW sort \in KindSet, deep # {} PROVE StatusFor(classes, sort) = "changed"
  BY <1>1 DEF StatusFor
<1>2. ASSUME NEW sort \in KindSet, deep = {}, "evidence" \in classes
      PROVE StatusFor(classes, sort) = "evidence-changed"
  BY <1>2 DEF StatusFor
<1>3. ASSUME NEW sort \in KindSet, classes = {"geometry"}
      PROVE StatusFor(classes, sort)
              = CASE sort = "connection" -> "rerouted" [] sort = "component" -> "moved"
                  [] sort = "boundary" -> "geometry-changed"
  BY <1>3 DEF StatusFor
<1>4. ASSUME NEW sort \in KindSet, classes = {} PROVE StatusFor(classes, sort) = "same"
  BY <1>4 DEF StatusFor
<1>5. ASSUME classes \subseteq {"semantic", "evidence", "geometry"}
      PROVE  StatusFor(classes, "component")
                = IF "semantic" \in classes THEN "changed"
                  ELSE IF "evidence" \in classes THEN "evidence-changed"
                  ELSE IF "geometry" \in classes THEN "moved" ELSE "same"
  <2>1. CASE "semantic" \in classes
    BY <2>1, <1>1 DEF KindSet
  <2>2. CASE "semantic" \notin classes /\ "evidence" \in classes
    BY <2>2, <1>2, <1>5 DEF KindSet
  <2>3. CASE "semantic" \notin classes /\ "evidence" \notin classes /\ "geometry" \in classes
    <3>1. classes = {"geometry"}
      BY <2>3, <1>5
    <3>2. QED
      BY <2>3, <3>1, <1>3 DEF KindSet
  <2>4. CASE "semantic" \notin classes /\ "evidence" \notin classes /\ "geometry" \notin classes
    <3>1. classes = {}
      BY <2>4, <1>5
    <3>2. QED
      BY <2>4, <3>1, <1>4 DEF KindSet
  <2>5. QED
    BY <2>1, <2>2, <2>3, <2>4
<1>6. ASSUME classes \subseteq {"topology", "semantic", "geometry"}
      PROVE  StatusFor(classes, "connection")
                = IF "topology" \in classes \/ "semantic" \in classes THEN "changed"
                  ELSE IF "geometry" \in classes THEN "rerouted" ELSE "same"
  <2>1. CASE "topology" \in classes \/ "semantic" \in classes
    BY <2>1, <1>1 DEF KindSet
  <2>2. CASE "topology" \notin classes /\ "semantic" \notin classes /\ "geometry" \in classes
    <3>1. classes = {"geometry"}
      BY <2>2, <1>6
    <3>2. QED
      BY <2>2, <3>1, <1>3 DEF KindSet
  <2>3. CASE "topology" \notin classes /\ "semantic" \notin classes /\ "geometry" \notin classes
    <3>1. classes = {}
      BY <2>3, <1>6
    <3>2. QED
      BY <2>3, <3>1, <1>4 DEF KindSet
  <2>4. QED
    BY <2>1, <2>2, <2>3
<1>7. ASSUME classes \subseteq {"scope", "geometry"}
      PROVE  StatusFor(classes, "boundary")
                = IF "scope" \in classes THEN "changed"
                  ELSE IF "geometry" \in classes THEN "geometry-changed" ELSE "same"
  <2>1. CASE "scope" \in classes
    BY <2>1, <1>1 DEF KindSet
  <2>2. CASE "scope" \notin classes /\ "geometry" \in classes
    <3>1. classes = {"geometry"}
      BY <2>2, <1>7
    <3>2. QED
      BY <2>2, <3>1, <1>3 DEF KindSet
  <2>3. CASE "scope" \notin classes /\ "geometry" \notin classes
    <3>1. classes = {}
      BY <2>3, <1>7
    <3>2. QED
      BY <2>3, <3>1, <1>4 DEF KindSet
  <2>4. QED
    BY <2>1, <2>2, <2>3
<1>8. QED
  BY <1>5, <1>6, <1>7

\* What every change in a receipt is like: its status fits its classifications.
ComponentRow(c) ==
  /\ c.classes \subseteq {"semantic", "evidence", "geometry"}
  /\ \/ c.status \in {"added", "removed"} /\ c.classes = {"semantic"}
     \/ c.status = "changed" /\ "semantic" \in c.classes
     \/ c.status = "evidence-changed" /\ "semantic" \notin c.classes /\ "evidence" \in c.classes
     \/ c.status = "moved" /\ c.classes = {"geometry"}
ConnectionRow(c) ==
  /\ c.classes \subseteq {"topology", "semantic", "geometry"}
  /\ \/ c.status \in {"added", "removed"} /\ c.classes = {"topology"}
     \/ c.status = "changed" /\ ("topology" \in c.classes \/ "semantic" \in c.classes)
     \/ c.status = "rerouted" /\ c.classes = {"geometry"}
BoundaryRow(c) ==
  /\ c.classes \subseteq {"scope", "geometry"}
  /\ \/ c.status \in {"added", "removed"} /\ c.classes = {"scope"}
     \/ c.status = "changed" /\ "scope" \in c.classes
     \/ c.status = "geometry-changed" /\ c.classes = {"geometry"}
Row(c) == \/ c.kind = "component" /\ ComponentRow(c)
          \/ c.kind = "connection" /\ ConnectionRow(c)
          \/ c.kind = "boundary" /\ BoundaryRow(c)

LEMMA ChangeIs ==
  ASSUME NEW s, NEW sort, NEW ref
  PROVE  /\ ChangeOf(s, sort, ref).kind = sort /\ ChangeOf(s, sort, ref).id = ref
         /\ LET inBase == ref \in Keys(s.base, sort)
                inHead == ref \in Keys(s.head, sort)
                was   == ItemOf(s.base, sort, ref)
                head   == ItemOf(s.head, sort, ref)
            IN  /\ inBase /\ inHead =>
                     /\ ChangeOf(s, sort, ref).classes = Classifications(sort, was, head)
                     /\ ChangeOf(s, sort, ref).status
                          = StatusFor(Classifications(sort, was, head), sort)
                /\ ~inBase => /\ ChangeOf(s, sort, ref).classes = {IdentityClass(sort)}
                              /\ ChangeOf(s, sort, ref).status = "added"
                /\ inBase /\ ~inHead => /\ ChangeOf(s, sort, ref).classes = {IdentityClass(sort)}
                                        /\ ChangeOf(s, sort, ref).status = "removed"
BY DEF ChangeOf

LEMMA IdentityClasses ==
  /\ IdentityClass("component") = "semantic" /\ IdentityClass("connection") = "topology"
  /\ IdentityClass("boundary") = "scope"
BY DEF IdentityClass

LEMMA RowsFit ==
  ASSUME NEW s, NEW sort \in KindSet, NEW ref, ChangeOf(s, sort, ref).status # "same"
  PROVE  Row(ChangeOf(s, sort, ref))
<1> DEFINE c == ChangeOf(s, sort, ref)
           classes == Classifications(sort, ItemOf(s.base, sort, ref), ItemOf(s.head, sort, ref))
<1>1. \/ c.classes = classes /\ c.status = StatusFor(classes, sort)
      \/ c.classes = {IdentityClass(sort)} /\ c.status \in {"added", "removed"}
  BY ChangeIs
<1>2. c.kind = sort /\ c.status # "same"
  BY ChangeIs
<1>3. /\ sort = "component" => classes \subseteq {"semantic", "evidence", "geometry"}
      /\ sort = "connection" => classes \subseteq {"topology", "semantic", "geometry"}
      /\ sort = "boundary" => classes \subseteq {"scope", "geometry"}
  BY ClassesAre
<1> HIDE DEF c, classes
<1>4. CASE sort = "component"
  BY <1>1, <1>2, <1>3, <1>4, StatusIs, IdentityClasses DEF Row, ComponentRow, c
<1>5. CASE sort = "connection"
  BY <1>1, <1>2, <1>3, <1>5, StatusIs, IdentityClasses DEF Row, ConnectionRow, c
<1>6. CASE sort = "boundary"
  BY <1>1, <1>2, <1>3, <1>6, StatusIs, IdentityClasses DEF Row, BoundaryRow, c
<1>7. QED
  BY <1>4, <1>5, <1>6 DEF KindSet

-----------------------------------------------------------------------------
(* The drawing and the page                                                *)

\* The tags of one change, and what the validation asks of them.
TagsOf(c) == Annotated(c) \cup Phantoms(c) \cup Symbols(c)
MainName(row) == CASE row.kind = "component" -> "g" [] row.kind = "connection" -> "path"
                   [] row.kind = "boundary" -> "rect"
Main(tags, row) == {t \in tags : t.name = MainName(row)}
Shown(tags, row) ==
  /\ tags # {} /\ Signature(tags) = ExpectedSignature(row)
  /\ {t.state : t \in Main(tags, row)} = ReviewPrimaryStates(row)
  /\ \A t \in Main(tags, row) : t.classes = row.classes

LEMMA SignatureOnce ==
  ASSUME NEW tags,
         \A t, u \in tags : t.name = u.name /\ t.state = u.state /\ t.classes = u.classes => t = u
  PROVE  Signature(tags)
           = [d \in {[name |-> t.name, state |-> t.state, classes |-> t.classes] : t \in tags} |-> 1]
<1> DEFINE of(t) == [name |-> t.name, state |-> t.state, classes |-> t.classes]
<1>1. \A t, u \in tags : of(t) = of(u) => t = u
  OBVIOUS
<1>2. ASSUME NEW d \in {of(t) : t \in tags} PROVE Cardinality({t \in tags : of(t) = d}) = 1
  <2>1. PICK u \in tags : d = of(u)
    OBVIOUS
  <2> HIDE DEF of
  <2>2. {t \in tags : of(t) = d} = {u}
    BY <1>1, <2>1
  <2>3. QED
    BY <2>2, FS_Singleton
<1>3. Signature(tags) = [d \in {of(t) : t \in tags} |-> Cardinality({t \in tags : of(t) = d})]
  BY DEF Signature
<1>4. QED
  BY <1>2, <1>3

LEMMA PhantomIs ==
  ASSUME NEW c, Row(c)
  PROVE  PhantomState(c) =
           IF c.status = "added" THEN "none"
           ELSE IF c.status = "removed" \/ "topology" \in c.classes THEN "removed"
           ELSE IF c.kind = "boundary" \/ "geometry" \in c.classes THEN "moved-from" ELSE "none"
<1>1. c.status \in {"added", "removed", "changed", "evidence-changed", "moved", "rerouted",
                    "geometry-changed"}
  BY DEF Row, ComponentRow, ConnectionRow, BoundaryRow
<1>2. c.kind = "boundary" => "topology" \notin c.classes
  BY DEF Row, BoundaryRow
<1>3. CASE c.status = "added"
  BY <1>3 DEF PhantomState
<1>4. CASE c.status = "removed"
  BY <1>4 DEF PhantomState
<1>5. CASE c.status \notin {"added", "removed"} /\ c.kind = "boundary"
  BY <1>1, <1>2, <1>5 DEF PhantomState
<1>6. CASE c.status \notin {"added", "removed"} /\ c.kind # "boundary"
  BY <1>1, <1>6 DEF PhantomState
<1>7. QED
  BY <1>3, <1>4, <1>5, <1>6

LEMMA TagIs ==
  ASSUME NEW c, NEW layer, NEW name, NEW state, NEW classes
  PROVE  /\ Tag(c, layer, name, state, classes).id = <<c.kind, c.id>>
         /\ Tag(c, layer, name, state, classes).layer = layer
         /\ Tag(c, layer, name, state, classes).name = name
         /\ Tag(c, layer, name, state, classes).state = state
         /\ Tag(c, layer, name, state, classes).classes = classes
BY DEF Tag

\* How often each descriptor is expected: once.
Descriptor(name, state, classes) == [name |-> name, state |-> state, classes |-> classes]
Shape(t) == Descriptor(t.name, t.state, t.classes)

LEMMA ShapesOnce ==
  ASSUME NEW tags,
         \A t, u \in tags : t.name = u.name /\ t.state = u.state /\ t.classes = u.classes => t = u
  PROVE  Signature(tags) = [d \in {Shape(t) : t \in tags} |-> 1]
<1>1. {Shape(t) : t \in tags} = {[name |-> t.name, state |-> t.state, classes |-> t.classes] : t \in tags}
  BY DEF Shape, Descriptor
<1>2. QED
  BY <1>1, SignatureOnce

\* Tags of a component, each in a state of its own.
LEMMA ComponentTags ==
  ASSUME NEW c, c.kind = "component", NEW tags, tags # {},
         \A t \in tags : t.name = "g" /\ t.classes = c.classes,
         \A t, u \in tags : t.state = u.state => t = u,
         {t.state : t \in tags} = ReviewPrimaryStates(c)
  PROVE  Shown(tags, c)
<1>1. ExpectedSignature(c) = [d \in {Descriptor("g", st, c.classes) : st \in ReviewPrimaryStates(c)} |-> 1]
  BY DEF ExpectedSignature, Descriptor
<1>2. Main(tags, c) = tags
  BY DEF Main, MainName
<1>3. {Descriptor("g", st, c.classes) : st \in ReviewPrimaryStates(c)} = {Shape(t) : t \in tags}
  BY DEF Shape
<1>4. \A t, u \in tags : t.name = u.name /\ t.state = u.state /\ t.classes = u.classes => t = u
  OBVIOUS
<1>5. Signature(tags)
        = [d \in {Descriptor("g", st, c.classes) : st \in ReviewPrimaryStates(c)} |-> 1]
  <2>1. Signature(tags) = [d \in {Shape(t) : t \in tags} |-> 1]
    BY <1>4, ShapesOnce
  <2>2. QED
    BY <1>3, <2>1
<1>6. QED
  BY <1>1, <1>2, <1>5 DEF Shown

LEMMA ComponentShown ==
  ASSUME NEW c, c.kind = "component", ComponentRow(c)
  PROVE  Shown(TagsOf(c), c)
<1> DEFINE current == Tag(c, "current", "g", c.status, c.classes)
           phantom(state) == Tag(c, "phantom", "g", state, c.classes)
<1>1. Row(c)
  BY DEF Row
<1>2. /\ Annotated(c) = IF c.status = "removed" THEN {} ELSE {current}
      /\ Phantoms(c) = IF PhantomState(c) = "none" THEN {} ELSE {phantom(PhantomState(c))}
      /\ Symbols(c) = {}
  BY DEF Annotated, Phantoms, Symbols, Drawn
<1>3. ReviewPrimaryStates(c) = IF "geometry" \in c.classes THEN {c.status, "moved-from"} ELSE {c.status}
  BY DEF ReviewPrimaryStates
<1>4. c.status # "moved-from"
  BY DEF ComponentRow
<1>5. /\ current.name = "g" /\ current.state = c.status /\ current.classes = c.classes
      /\ \A st : /\ phantom(st).name = "g" /\ phantom(st).state = st
                 /\ phantom(st).classes = c.classes
  BY DEF Tag
<1> HIDE DEF current, phantom
<1>6. CASE c.status = "removed"
  <2>1. TagsOf(c) = {phantom("removed")} /\ ReviewPrimaryStates(c) = {"removed"}
    BY <1>1, <1>2, <1>3, <1>6, PhantomIs DEF ComponentRow, TagsOf
  <2>2. {t.state : t \in {phantom("removed")}} = {"removed"}
    BY <1>5
  <2>3. \A t \in TagsOf(c) : t.name = "g" /\ t.classes = c.classes
    BY <1>5, <2>1
  <2>4. QED
    BY <2>1, <2>2, <2>3, ComponentTags
<1>7. CASE c.status # "removed" /\ (c.status = "added" \/ "geometry" \notin c.classes)
  <2>1. TagsOf(c) = {current} /\ ReviewPrimaryStates(c) = {c.status}
    BY <1>1, <1>2, <1>3, <1>7, PhantomIs DEF ComponentRow, TagsOf
  <2>2. {t.state : t \in {current}} = {c.status}
    BY <1>5
  <2>3. \A t \in TagsOf(c) : t.name = "g" /\ t.classes = c.classes
    BY <1>5, <2>1
  <2>4. QED
    BY <2>1, <2>2, <2>3, ComponentTags
<1>8. CASE c.status \notin {"removed", "added"} /\ "geometry" \in c.classes
  <2>1. /\ TagsOf(c) = {current, phantom("moved-from")}
        /\ ReviewPrimaryStates(c) = {c.status, "moved-from"}
    BY <1>1, <1>2, <1>3, <1>8, PhantomIs DEF ComponentRow, TagsOf
  <2>2. {t.state : t \in {current, phantom("moved-from")}} = {c.status, "moved-from"}
    BY <1>5
  <2>3. \A t \in TagsOf(c) : t.name = "g" /\ t.classes = c.classes
    BY <1>5, <2>1
  <2>4. \A t, u \in TagsOf(c) : t.state = u.state => t = u
    BY <1>4, <1>5, <2>1
  <2>5. QED
    BY <2>1, <2>2, <2>3, <2>4, ComponentTags
<1>9. QED
  BY <1>6, <1>7, <1>8

\* Of a boundary there is the frame and its label, in each state.
LEMMA BoundaryTags ==
  ASSUME NEW c, c.kind = "boundary", NEW states, NEW frame, NEW label, NEW tags, states # {},
         \A st \in states :
           /\ frame[st].name = "rect" /\ frame[st].state = st /\ frame[st].classes = c.classes
           /\ label[st].name = "text" /\ label[st].state = st /\ label[st].classes = {},
         \A t : t \in tags <=> \E st \in states : t = frame[st] \/ t = label[st],
         states = ReviewPrimaryStates(c)
  PROVE  Shown(tags, c)
<1> DEFINE descriptors == UNION {{Descriptor("rect", st, c.classes), Descriptor("text", st, {})} : st \in states}
<1>1. ExpectedSignature(c) = [d \in descriptors |-> 1]
  BY DEF ExpectedSignature, Descriptor
<1>2. \A st \in states : frame[st] \in tags /\ label[st] \in tags
  OBVIOUS
<1>3. \A st \in states : /\ Shape(frame[st]) = Descriptor("rect", st, c.classes)
                         /\ Shape(label[st]) = Descriptor("text", st, {})
  BY DEF Shape
<1>4. \A d : d \in descriptors
             <=> \E st \in states : d = Descriptor("rect", st, c.classes) \/ d = Descriptor("text", st, {})
  OBVIOUS
<1> HIDE DEF descriptors
<1>5. descriptors = {Shape(t) : t \in tags}
  <2>1. \A d : d \in descriptors <=> \E st \in states : d = Shape(frame[st]) \/ d = Shape(label[st])
    BY <1>3, <1>4
  <2>2. \A d : d \in {Shape(t) : t \in tags} <=> \E st \in states : d = Shape(frame[st]) \/ d = Shape(label[st])
    BY <1>2
  <2>3. QED
    BY <2>1, <2>2
<1>6. \A t, u \in tags : t.name = u.name /\ t.state = u.state /\ t.classes = u.classes => t = u
  OBVIOUS
<1>7. Signature(tags) = [d \in descriptors |-> 1]
  <2>1. Signature(tags) = [d \in {Shape(t) : t \in tags} |-> 1]
    BY <1>6, ShapesOnce
  <2>2. QED
    BY <1>5, <2>1
<1>8. \A t : t \in Main(tags, c) <=> \E st \in states : t = frame[st]
  BY <1>2 DEF Main, MainName
<1>9. {t.state : t \in Main(tags, c)} = ReviewPrimaryStates(c)
  BY <1>8
<1>10. \A t \in Main(tags, c) : t.classes = c.classes
  BY <1>8
<1>11. tags # {}
  BY <1>2
<1>12. QED
  BY <1>1, <1>7, <1>9, <1>10, <1>11 DEF Shown

LEMMA BoundaryShown ==
  ASSUME NEW c, c.kind = "boundary", BoundaryRow(c)
  PROVE  Shown(TagsOf(c), c)
<1> DEFINE layer(st) == IF st = c.status /\ c.status # "removed" THEN "current" ELSE "phantom"
           states == ReviewPrimaryStates(c)
           frame == [st \in states |-> Tag(c, layer(st), "rect", st, c.classes)]
           label == [st \in states |-> Tag(c, layer(st), "text", st, {})]
<1>1. Row(c)
  BY DEF Row
<1>2. /\ Annotated(c) = IF c.status = "removed" THEN {}
                        ELSE {Tag(c, "current", "rect", c.status, c.classes), Tag(c, "current", "text", c.status, {})}
      /\ Phantoms(c) = IF PhantomState(c) = "none" THEN {}
                       ELSE {Tag(c, "phantom", "rect", PhantomState(c), c.classes),
                             Tag(c, "phantom", "text", PhantomState(c), {})}
      /\ Symbols(c) = {}
  BY DEF Annotated, Phantoms, Symbols, Drawn
<1>3. ReviewPrimaryStates(c) = IF c.status \in {"changed", "geometry-changed"} THEN {c.status, "moved-from"} ELSE {c.status}
  BY DEF ReviewPrimaryStates
<1>4. \A st \in states :
        /\ frame[st].name = "rect" /\ frame[st].state = st /\ frame[st].classes = c.classes
        /\ label[st].name = "text" /\ label[st].state = st /\ label[st].classes = {}
  BY DEF Tag
<1>5. \A t : t \in TagsOf(c) <=> \E st \in states : t = frame[st] \/ t = label[st]
  <2>1. PhantomState(c) = IF c.status = "added" THEN "none"
                          ELSE IF c.status = "removed" THEN "removed" ELSE "moved-from"
    BY <1>1, PhantomIs DEF BoundaryRow
  <2>2. CASE c.status = "removed"
    <3>1. layer("removed") = "phantom" /\ states = {"removed"}
      BY <1>3, <2>2
    <3>2. TagsOf(c) = {frame["removed"], label["removed"]}
      BY <1>2, <2>1, <2>2, <3>1 DEF TagsOf
    <3>3. QED
      BY <3>1, <3>2
  <2>3. CASE c.status = "added"
    <3>1. layer("added") = "current" /\ states = {"added"}
      BY <1>3, <2>3
    <3>2. TagsOf(c) = {frame["added"], label["added"]}
      BY <1>2, <2>1, <2>3, <3>1 DEF TagsOf
    <3>3. QED
      BY <3>1, <3>2
  <2>4. CASE c.status \in {"changed", "geometry-changed"}
    <3>1. /\ layer(c.status) = "current" /\ layer("moved-from") = "phantom"
          /\ states = {c.status, "moved-from"}
      BY <1>3, <2>4
    <3>2. TagsOf(c) = {frame[c.status], label[c.status]} \cup {frame["moved-from"], label["moved-from"]}
      BY <1>2, <2>1, <2>4, <3>1 DEF TagsOf
    <3>3. QED
      BY <3>1, <3>2
  <2>5. QED
    BY <2>2, <2>3, <2>4 DEF BoundaryRow
<1>6. states # {}
  BY <1>3
<1> HIDE DEF states, frame, label
<1>7. states = ReviewPrimaryStates(c)
  BY DEF states
<1>8. QED
  BY <1>4, <1>5, <1>6, <1>7, BoundaryTags

\* Of a relationship there is a path and a symbol for each form it is shown in, and a
\* group if that form has a label.
InForms(c, path, symbol, group, tags) ==
  /\ \A f \in Forms(c) :
       /\ path[f].name = "path" /\ path[f].state = f.state /\ path[f].classes = c.classes
       /\ symbol[f].name = "text" /\ symbol[f].state = f.marker /\ symbol[f].classes = {}
       /\ group[f].name = "g" /\ group[f].state = f.state /\ group[f].classes = c.classes
  /\ \A f \in Forms(c) : path[f] \in tags /\ symbol[f] \in tags /\ (f.label # "" => group[f] \in tags)
  /\ \A t \in tags : \E f \in Forms(c) : t = path[f] \/ t = symbol[f] \/ (f.label # "" /\ t = group[f])
FormsApart(c) ==
  /\ Forms(c) # {} /\ {f.state : f \in Forms(c)} = ReviewPrimaryStates(c)
  /\ \A e, f \in Forms(c) : e.state = f.state => e = f
  /\ \A e, f \in Forms(c) : e.marker = f.marker => e = f

LEMMA ConnectionTags ==
  ASSUME NEW c, c.kind = "connection", NEW path, NEW symbol, NEW group, NEW tags,
         InForms(c, path, symbol, group, tags), FormsApart(c)
  PROVE  Shown(tags, c)
<1> DEFINE Wanted(f) == {Descriptor("path", f.state, c.classes), Descriptor("text", f.marker, {})}
                        \cup (IF f.label # "" THEN {Descriptor("g", f.state, c.classes)} ELSE {})
           descriptors == UNION {Wanted(f) : f \in Forms(c)}
<1>1. ExpectedSignature(c) = [d \in descriptors |-> 1]
  BY DEF ExpectedSignature, Descriptor
<1>2. \A t \in tags : \E f \in Forms(c) : t = path[f] \/ t = symbol[f] \/ (f.label # "" /\ t = group[f])
  BY DEF InForms
<1>3. \A f \in Forms(c) : path[f] \in tags /\ symbol[f] \in tags /\ (f.label # "" => group[f] \in tags)
  BY DEF InForms
<1>4. \A f \in Forms(c) :
        /\ path[f].name = "path" /\ path[f].state = f.state /\ path[f].classes = c.classes
        /\ symbol[f].name = "text" /\ symbol[f].state = f.marker /\ symbol[f].classes = {}
        /\ group[f].name = "g" /\ group[f].state = f.state /\ group[f].classes = c.classes
  BY DEF InForms
<1>5. \A f \in Forms(c) : /\ Shape(path[f]) = Descriptor("path", f.state, c.classes)
                          /\ Shape(symbol[f]) = Descriptor("text", f.marker, {})
                          /\ Shape(group[f]) = Descriptor("g", f.state, c.classes)
  BY <1>4 DEF Shape
<1>6. ASSUME NEW f \in Forms(c), NEW d \in Wanted(f) PROVE \E t \in tags : d = Shape(t)
  <2>1. CASE d = Descriptor("path", f.state, c.classes)
    BY <1>3, <1>5, <2>1
  <2>2. CASE d = Descriptor("text", f.marker, {})
    BY <1>3, <1>5, <2>2
  <2>3. CASE f.label # "" /\ d = Descriptor("g", f.state, c.classes)
    BY <1>3, <1>5, <2>3
  <2>4. QED
    BY <2>1, <2>2, <2>3
<1>7. ASSUME NEW t \in tags PROVE \E f \in Forms(c) : Shape(t) \in Wanted(f)
  <2>1. PICK f \in Forms(c) : t = path[f] \/ t = symbol[f] \/ (f.label # "" /\ t = group[f])
    BY <1>2
  <2>2. Shape(t) \in Wanted(f)
    BY <1>5, <2>1
  <2>3. QED
    BY <2>2
<1>8. \A d : d \in descriptors <=> \E f \in Forms(c) : d \in Wanted(f)
  OBVIOUS
<1> HIDE DEF descriptors, Wanted
<1>9. descriptors = {Shape(t) : t \in tags}
  BY <1>6, <1>7, <1>8
<1>10. ASSUME NEW t \in tags, NEW u \in tags, t.name = u.name, t.state = u.state PROVE t = u
  <2>1. PICK e \in Forms(c) : t = path[e] \/ t = symbol[e] \/ (e.label # "" /\ t = group[e])
    BY <1>2
  <2>2. PICK f \in Forms(c) : u = path[f] \/ u = symbol[f] \/ (f.label # "" /\ u = group[f])
    BY <1>2
  <2>3. \/ t = path[e] /\ u = path[f]
        \/ t = symbol[e] /\ u = symbol[f]
        \/ t = group[e] /\ u = group[f]
    <3>1. \/ t = path[e] /\ t.name = "path"
          \/ t = symbol[e] /\ t.name = "text"
          \/ t = group[e] /\ t.name = "g"
      BY <1>4, <2>1
    <3>2. \/ u = path[f] /\ u.name = "path"
          \/ u = symbol[f] /\ u.name = "text"
          \/ u = group[f] /\ u.name = "g"
      BY <1>4, <2>2
    <3>3. QED
      BY <1>10, <3>1, <3>2
  <2>4. e.state = f.state \/ e.marker = f.marker
    BY <1>4, <1>10, <2>3
  <2>5. e = f
    BY <2>4 DEF FormsApart
  <2>6. QED
    BY <2>3, <2>5
<1>11. Signature(tags) = [d \in descriptors |-> 1]
  <2>1. Signature(tags) = [d \in {Shape(t) : t \in tags} |-> 1]
    BY <1>10, ShapesOnce
  <2>2. QED
    BY <1>9, <2>1
<1>12. ASSUME NEW t \in Main(tags, c) PROVE \E f \in Forms(c) : t = path[f]
  <2>1. t \in tags /\ t.name = "path"
    BY DEF Main, MainName
  <2>2. PICK f \in Forms(c) : t = path[f] \/ t = symbol[f] \/ (f.label # "" /\ t = group[f])
    BY <1>2, <2>1
  <2>3. QED
    BY <1>4, <2>1, <2>2
<1>13. ASSUME NEW f \in Forms(c) PROVE path[f] \in Main(tags, c)
  BY <1>3, <1>4 DEF Main, MainName
<1>14. {t.state : t \in Main(tags, c)} = {f.state : f \in Forms(c)}
  BY <1>4, <1>12, <1>13
<1>15. \A t \in Main(tags, c) : t.classes = c.classes
  BY <1>4, <1>12
<1>16. tags # {}
  BY <1>3 DEF FormsApart
<1>17. {f.state : f \in Forms(c)} = ReviewPrimaryStates(c)
  BY DEF FormsApart
<1>18. QED
  BY <1>1, <1>11, <1>14, <1>15, <1>16, <1>17 DEF Shown

LEMMA FormsAre ==
  ASSUME NEW c, c.kind = "connection", ConnectionRow(c)
  PROVE  LET then == Form(PhantomState(c), PhantomState(c), c.baseLabel)
             now  == Form(c.status, IF c.status = "changed" /\ "topology" \in c.classes THEN "added" ELSE c.status,
                          c.headLabel)
         IN  /\ Forms(c) = (IF PhantomState(c) # "none" THEN {then} ELSE {})
                           \cup (IF c.status # "removed" THEN {now} ELSE {})
             /\ PhantomState(c) \in {"none", "removed", "moved-from"}
             /\ c.status = "removed" => PhantomState(c) # "none"
             /\ {f.state : f \in Forms(c)} = ReviewPrimaryStates(c)
<1>1. Row(c)
  BY DEF Row
<1>2. PhantomState(c) = IF c.status = "added" THEN "none"
                        ELSE IF c.status = "removed" \/ "topology" \in c.classes THEN "removed"
                        ELSE IF "geometry" \in c.classes THEN "moved-from" ELSE "none"
  BY <1>1, PhantomIs
<1>3. ReviewPrimaryStates(c) = IF c.status = "changed" /\ "topology" \in c.classes THEN {"changed", "removed"}
                               ELSE IF "geometry" \in c.classes THEN {"moved-from", c.status} ELSE {c.status}
  BY DEF ReviewPrimaryStates
<1>4. \A st, m, l : Form(st, m, l).state = st
  BY DEF Form
<1>5. CASE c.status = "added"
  <2>1. Forms(c) = {Form("added", "added", c.headLabel)}
    BY <1>5 DEF Forms
  <2>2. QED
    BY <1>2, <1>3, <1>4, <1>5, <2>1 DEF ConnectionRow
<1>6. CASE c.status = "removed"
  <2>1. Forms(c) = {Form("removed", "removed", c.baseLabel)}
    BY <1>6 DEF Forms
  <2>2. QED
    BY <1>2, <1>3, <1>4, <1>6, <2>1 DEF ConnectionRow
<1>7. CASE c.status = "changed" /\ "topology" \in c.classes
  <2>1. Forms(c) = {Form("removed", "removed", c.baseLabel), Form("changed", "added", c.headLabel)}
    BY <1>7 DEF Forms
  <2>2. QED
    BY <1>2, <1>3, <1>4, <1>7, <2>1 DEF ConnectionRow
<1>8. CASE c.status \in {"changed", "rerouted"} /\ "topology" \notin c.classes /\ "geometry" \in c.classes
  <2>1. Forms(c) = {Form("moved-from", "moved-from", c.baseLabel), Form(c.status, c.status, c.headLabel)}
    BY <1>8 DEF Forms
  <2>2. QED
    BY <1>2, <1>3, <1>4, <1>8, <2>1 DEF ConnectionRow
<1>9. CASE c.status = "changed" /\ "topology" \notin c.classes /\ "geometry" \notin c.classes
  <2>1. Forms(c) = {Form("changed", "changed", c.headLabel)}
    BY <1>9 DEF Forms
  <2>2. QED
    BY <1>2, <1>3, <1>4, <1>9, <2>1 DEF ConnectionRow
<1>10. QED
  BY <1>5, <1>6, <1>7, <1>8, <1>9 DEF ConnectionRow

LEMMA ConnectionShown ==
  ASSUME NEW c, c.kind = "connection", ConnectionRow(c)
  PROVE  Shown(TagsOf(c), c)
<1> DEFINE past(f) == f.state \in {"removed", "moved-from"}
           layer(f) == IF past(f) THEN "phantom" ELSE "current"
           path == [f \in Forms(c) |-> Tag(c, layer(f), "path", f.state, c.classes)]
           symbol == [f \in Forms(c) |-> Tag(c, IF past(f) THEN "symbol of phantom" ELSE "symbol", "text", f.marker, {})]
           group == [f \in Forms(c) |-> Tag(c, layer(f), "g", f.state, c.classes)]
           then == Form(PhantomState(c), PhantomState(c), c.baseLabel)
           now  == Form(c.status, IF c.status = "changed" /\ "topology" \in c.classes THEN "added" ELSE c.status,
                        c.headLabel)
           Of(f) == {path[f], symbol[f]} \cup (IF f.label # "" THEN {group[f]} ELSE {})
<1>1. /\ Forms(c) = (IF PhantomState(c) # "none" THEN {then} ELSE {})
                    \cup (IF c.status # "removed" THEN {now} ELSE {})
      /\ PhantomState(c) \in {"none", "removed", "moved-from"}
      /\ c.status = "removed" => PhantomState(c) # "none"
      /\ {f.state : f \in Forms(c)} = ReviewPrimaryStates(c)
  BY FormsAre
<1>2. \A f \in Forms(c) :
        /\ path[f].name = "path" /\ path[f].state = f.state /\ path[f].classes = c.classes
        /\ symbol[f].name = "text" /\ symbol[f].state = f.marker /\ symbol[f].classes = {}
        /\ group[f].name = "g" /\ group[f].state = f.state /\ group[f].classes = c.classes
  BY DEF Tag
<1>3. /\ then.state = PhantomState(c) /\ then.marker = PhantomState(c) /\ then.label = c.baseLabel
      /\ now.state = c.status /\ now.label = c.headLabel
      /\ now.marker = IF c.status = "changed" /\ "topology" \in c.classes THEN "added" ELSE c.status
  BY DEF Form
<1>4. PhantomState(c) # "none" => /\ then \in Forms(c) /\ past(then)
                                  /\ Phantoms(c) \cup {Tag(c, "symbol of phantom", "text", PhantomState(c), {})} = Of(then)
  BY <1>1, <1>3 DEF Phantoms, Drawn
<1>5. c.status # "removed" =>
        /\ now \in Forms(c) /\ ~past(now)
        /\ Annotated(c) \cup {Tag(c, "symbol", "text", now.marker, {})} = Of(now)
  <2> SUFFICES ASSUME c.status # "removed"
               PROVE  /\ now \in Forms(c) /\ ~past(now)
                      /\ Annotated(c) \cup {Tag(c, "symbol", "text", now.marker, {})} = Of(now)
    OBVIOUS
  <2> HIDE DEF then, now
  <2>1. now \in Forms(c)
    BY <1>1
  <2>2. c.status \in {"added", "changed", "rerouted"} /\ ~past(now)
    BY <1>3 DEF ConnectionRow
  <2>3. Annotated(c) = {Tag(c, "current", "path", c.status, c.classes)}
                       \cup (IF c.headLabel # "" THEN {Tag(c, "current", "g", c.status, c.classes)} ELSE {})
    BY DEF Annotated, Drawn
  <2>4. /\ path[now] = Tag(c, "current", "path", c.status, c.classes)
        /\ symbol[now] = Tag(c, "symbol", "text", now.marker, {})
        /\ group[now] = Tag(c, "current", "g", c.status, c.classes)
    BY <1>3, <2>1, <2>2
  <2>5. now.label = c.headLabel
    BY <1>3
  <2> HIDE DEF path, symbol, group
  <2>6. Annotated(c) \cup {Tag(c, "symbol", "text", now.marker, {})} = Of(now)
    BY <2>3, <2>4, <2>5
  <2> HIDE DEF past, Of
  <2>7. QED
    BY <2>1, <2>2, <2>6
<1>6. Symbols(c) = (IF PhantomState(c) # "none" THEN {Tag(c, "symbol of phantom", "text", PhantomState(c), {})} ELSE {})
                   \cup (IF c.status # "removed" THEN {Tag(c, "symbol", "text", now.marker, {})} ELSE {})
  BY <1>3 DEF Symbols, ConnectionRow
<1>7. /\ PhantomState(c) = "none" => Phantoms(c) = {}
      /\ c.status = "removed" => Annotated(c) = {}
  BY DEF Phantoms, Annotated
<1>8. TagsOf(c) = (IF PhantomState(c) # "none" THEN Of(then) ELSE {})
                  \cup (IF c.status # "removed" THEN Of(now) ELSE {})
  <2> HIDE DEF then, now, Of
  <2>1. QED
    BY <1>4, <1>5, <1>6, <1>7 DEF TagsOf
<1>9. \A t : t \in TagsOf(c) <=> \E f \in Forms(c) : t \in Of(f)
  <2> HIDE DEF then, now, Of
  <2>1. QED
    BY <1>1, <1>8
<1>10. \A e, f \in Forms(c) : e.state = f.state => e = f
  <2> HIDE DEF then, now
  <2>1. QED
    BY <1>1, <1>3 DEF ConnectionRow
<1>11. \A e, f \in Forms(c) : e.marker = f.marker => e = f
  <2> HIDE DEF then, now
  <2>1. QED
    BY <1>1, <1>3 DEF ConnectionRow
<1>12. Forms(c) # {}
  BY <1>1
<1>13. \A f \in Forms(c) : path[f] \in TagsOf(c) /\ symbol[f] \in TagsOf(c) /\ (f.label # "" => group[f] \in TagsOf(c))
  <2> HIDE DEF path, symbol, group, then, now
  <2>1. QED
    BY <1>9
<1>14. \A t \in TagsOf(c) : \E f \in Forms(c) : t = path[f] \/ t = symbol[f] \/ (f.label # "" /\ t = group[f])
  <2> HIDE DEF path, symbol, group, then, now
  <2>1. QED
    BY <1>9
<1> HIDE DEF path, symbol, group, then, now
<1>15. InForms(c, path, symbol, group, TagsOf(c))
  BY <1>2, <1>13, <1>14 DEF InForms
<1>16. FormsApart(c)
  BY <1>1, <1>10, <1>11, <1>12 DEF FormsApart
<1>17. QED
  BY <1>15, <1>16, ConnectionTags

LEMMA OwnTags ==
  ASSUME NEW c, c.kind \in KindSet, NEW t \in TagsOf(c)
  PROVE  t.id = <<c.kind, c.id>>
<1>1. ASSUME NEW layer, NEW state, NEW label, NEW u \in Drawn(c, layer, state, label)
      PROVE  u.id = <<c.kind, c.id>>
  <2>1. CASE c.kind = "component"
    <3>1. Drawn(c, layer, state, label) = {Tag(c, layer, "g", state, c.classes)}
      BY <2>1 DEF Drawn
    <3>2. QED
      BY <3>1, TagIs
  <2>2. CASE c.kind = "connection"
    <3>1. u \in {Tag(c, layer, "path", state, c.classes), Tag(c, layer, "g", state, c.classes)}
      BY <2>2 DEF Drawn
    <3>2. QED
      BY <3>1, TagIs
  <2>3. CASE c.kind = "boundary"
    <3>1. Drawn(c, layer, state, label) = {Tag(c, layer, "rect", state, c.classes), Tag(c, layer, "text", state, {})}
      BY <2>3 DEF Drawn
    <3>2. QED
      BY <3>1, TagIs
  <2>4. QED
    BY <2>1, <2>2, <2>3 DEF KindSet
<1>2. CASE t \in Annotated(c)
  BY <1>1, <1>2 DEF Annotated
<1>3. CASE t \in Phantoms(c)
  BY <1>1, <1>3 DEF Phantoms
<1>4. CASE t \in Symbols(c)
  <2>1. \E layer, state : t = Tag(c, layer, "text", state, {})
    BY <1>4 DEF Symbols
  <2>2. QED
    BY <2>1, TagIs
<1>5. QED
  BY <1>2, <1>3, <1>4 DEF TagsOf

\* A page built from a set of changes, one of each identity, is accepted.
LEMMA PageAccepted ==
  ASSUME NEW changes, \A c \in changes : Row(c),
         \A c, d \in changes : c.kind = d.kind /\ c.id = d.id => c = d
  PROVE  PageFailures(BuildDelta(changes), changes) = {}
<1>1. \A c \in changes : c.kind \in KindSet
  BY DEF Row, KindSet
<1>2. ASSUME NEW row \in changes PROVE TargetTags(BuildDelta(changes), row) = TagsOf(row)
  <2>1. \A t : t \in BuildDelta(changes) <=> \E c \in changes : t \in TagsOf(c)
    BY DEF BuildDelta, TagsOf
  <2>2. ASSUME NEW t \in BuildDelta(changes), t.id = <<row.kind, row.id>> PROVE t \in TagsOf(row)
    <3>1. PICK c \in changes : t \in TagsOf(c)
      BY <2>1
    <3>2. <<c.kind, c.id>> = <<row.kind, row.id>>
      BY <1>1, <2>2, <3>1, OwnTags
    <3>3. c.kind = row.kind /\ c.id = row.id
      BY <3>2
    <3>4. QED
      BY <3>1, <3>3
  <2>3. ASSUME NEW t \in TagsOf(row) PROVE t \in BuildDelta(changes) /\ t.id = <<row.kind, row.id>>
    BY <1>1, <2>1, OwnTags
  <2>4. QED
    BY <2>2, <2>3 DEF TargetTags
<1>3. ASSUME NEW row \in changes PROVE Shown(TagsOf(row), row)
  <2>1. Row(row)
    OBVIOUS
  <2>2. QED
    BY <2>1, ComponentShown, ConnectionShown, BoundaryShown DEF Row
<1>4. ASSUME NEW row \in changes
      PROVE  PrimaryTags(BuildDelta(changes), row) = Main(TagsOf(row), row)
  BY <1>2 DEF PrimaryTags, Main, MainName
<1>5. ASSUME NEW row \in changes
      PROVE  ~ \/ TargetTags(BuildDelta(changes), row) = {}
               \/ Signature(TargetTags(BuildDelta(changes), row)) # ExpectedSignature(row)
               \/ {t.state : t \in PrimaryTags(BuildDelta(changes), row)} # ReviewPrimaryStates(row)
               \/ \E t \in PrimaryTags(BuildDelta(changes), row) : t.classes # row.classes
  BY <1>2, <1>3, <1>4 DEF Shown
<1>6. QED
  BY <1>5 DEF PageFailures

\* The changes of a receipt.
LEMMA ChangesAre ==
  ASSUME NEW s
  PROVE  /\ Receipt(s).changes = UNION {CompareEntities(s, sort) : sort \in KindSet}
         /\ \A c : c \in Receipt(s).changes <=>
              \E sort \in KindSet : \E ref \in Keys(s.base, sort) \cup Keys(s.head, sort) :
                c = ChangeOf(s, sort, ref) /\ c.status # "same"
<1>1. Receipt(s).changes = UNION {CompareEntities(s, sort) : sort \in KindSet}
  BY KindsAre DEF Receipt
<1>2. \A sort : \A c : c \in CompareEntities(s, sort) <=>
        \E ref \in Keys(s.base, sort) \cup Keys(s.head, sort) : c = ChangeOf(s, sort, ref) /\ c.status # "same"
  BY DEF CompareEntities
<1>3. QED
  BY <1>1, <1>2

LEMMA ReceiptShown ==
  ASSUME NEW s
  PROVE  PageFailures(BuildDelta(Receipt(s).changes), Receipt(s).changes) = {}
<1> DEFINE changes == Receipt(s).changes
<1>1. \A c \in changes : \E sort \in KindSet : \E ref : c = ChangeOf(s, sort, ref) /\ c.status # "same"
  BY ChangesAre
<1>2. ASSUME NEW c \in changes PROVE Row(c)
  BY <1>1, RowsFit
<1>3. ASSUME NEW c \in changes, NEW d \in changes, c.kind = d.kind, c.id = d.id PROVE c = d
  <2>1. PICK sort \in KindSet : \E ref : c = ChangeOf(s, sort, ref)
    BY <1>1
  <2>2. PICK ref : c = ChangeOf(s, sort, ref)
    BY <2>1
  <2>3. c.kind = sort /\ c.id = ref
    BY <2>2, ChangeIs
  <2>4. PICK sort2 \in KindSet : \E key2 : d = ChangeOf(s, sort2, key2)
    BY <1>1
  <2>5. PICK key2 : d = ChangeOf(s, sort2, key2)
    BY <2>4
  <2>6. d.kind = sort2 /\ d.id = key2
    BY <2>5, ChangeIs
  <2>7. QED
    BY <1>3, <2>2, <2>3, <2>5, <2>6
<1> HIDE DEF changes
<1>4. PageFailures(BuildDelta(changes), changes) = {}
  BY <1>2, <1>3, PageAccepted
<1>5. QED
  BY <1>4 DEF changes

-----------------------------------------------------------------------------
(* What is compared                                                        *)

KeyList(d, sort) == [i \in DOMAIN Collection(d, sort) |-> ItemKey(sort, Collection(d, sort)[i])]
Indexed(d, sort) ==
  /\ Undefined \notin ToSet(KeyList(d, sort))
  /\ ~ \E i, j \in DOMAIN KeyList(d, sort) :
         i < j /\ KeyList(d, sort)[i] = KeyList(d, sort)[j] /\ KeyList(d, sort)[i] # Undefined
SameRepository(s) ==
  s.base.repository # Undefined /\ s.head.repository # Undefined
    => RepositoryIdentity(s.base.repository) = RepositoryIdentity(s.head.repository)
\* What compareArchitecture does not refuse.
Comparable(s) ==
  /\ s.base.schema = 1 /\ s.base.type = "architecture"
  /\ s.head.schema = 1 /\ s.head.type = "architecture"
  /\ \A sort \in KindSet : Indexed(s.base, sort) /\ Indexed(s.head, sort)
  /\ Keys(s.base, "component") \cap Keys(s.head, "component") # {}
  /\ SameRepository(s)

Codes ==
  {"schema-version-mismatch", "type-mismatch", "relationship-id-required", "stable-id-required",
   "boundary-key-ambiguous", "duplicate-stable-id", "no-shared-component-id", "repository-mismatch"}

LEMMA JoinEmpty ==
  ASSUME NEW a \in Seq(Codes), NEW b \in Seq(Codes)
  PROVE  a \o b \in Seq(Codes) /\ (a \o b = <<>> <=> a = <<>> /\ b = <<>>)
<1>1. /\ a \o b \in Seq(Codes) /\ Len(a \o b) = Len(a) + Len(b)
  BY ConcatProperties
<1>2. /\ Len(a) \in Nat /\ (Len(a) = 0 <=> a = <<>>)
      /\ Len(b) \in Nat /\ (Len(b) = 0 <=> b = <<>>)
      /\ (Len(a \o b) = 0 <=> a \o b = <<>>)
  BY <1>1, EmptySeq, LenProperties
<1>3. QED
  BY <1>1, <1>2

LEMMA OneCode ==
  /\ <<>> \in Seq(Codes)
  /\ \A code \in Codes : <<code>> \in Seq(Codes) /\ <<code>> # <<>>
<1>1. ASSUME NEW code \in Codes PROVE <<code>> \in Seq(Codes) /\ <<code>> # <<>>
  <2>1. Len(<<code>>) = 1 /\ Len(<<>>) = 0
    OBVIOUS
  <2>2. <<code>> \in Seq(Codes)
    OBVIOUS
  <2>3. QED
    BY <2>1, <2>2
<1>2. QED
  BY <1>1, EmptySeq

LEMMA ShapeRefused ==
  ASSUME NEW d
  PROVE  /\ ShapeRefusals(d) \in Seq(Codes)
         /\ ShapeRefusals(d) = <<>> <=> d.schema = 1 /\ d.type = "architecture"
<1> DEFINE a == IF d.schema # 1 THEN <<"schema-version-mismatch">> ELSE <<>>
           b == IF d.type # "architecture" THEN <<"type-mismatch">> ELSE <<>>
<1>1. a \in Seq(Codes) /\ (a = <<>> <=> d.schema = 1)
  <2>1. <<"schema-version-mismatch">> \in Seq(Codes) /\ <<"schema-version-mismatch">> # <<>>
    BY OneCode DEF Codes
  <2>2. QED
    BY <2>1, OneCode
<1>2. b \in Seq(Codes) /\ (b = <<>> <=> d.type = "architecture")
  <2>1. <<"type-mismatch">> \in Seq(Codes) /\ <<"type-mismatch">> # <<>>
    BY OneCode DEF Codes
  <2>2. QED
    BY <2>1, OneCode
<1>3. ShapeRefusals(d) = a \o b
  BY DEF ShapeRefusals
<1> HIDE DEF a, b
<1>4. QED
  BY <1>1, <1>2, <1>3, JoinEmpty

LEMMA IndexRefused ==
  ASSUME NEW d, NEW sort
  PROVE  /\ IndexRefusals(d, sort) \in Seq(Codes)
         /\ IndexRefusals(d, sort) = <<>> <=> Indexed(d, sort)
<1> DEFINE keys == KeyList(d, sort)
           twice == \E i, j \in DOMAIN keys : i < j /\ keys[i] = keys[j] /\ keys[i] # Undefined
           a == IF Undefined \in ToSet(keys)
                THEN <<IF sort = "connection" THEN "relationship-id-required" ELSE "stable-id-required">>
                ELSE <<>>
           b == IF twice THEN <<IF sort = "boundary" THEN "boundary-key-ambiguous" ELSE "duplicate-stable-id">> ELSE <<>>
<1>1. IndexRefusals(d, sort) = a \o b
  BY DEF IndexRefusals, KeyList
<1>2. Indexed(d, sort) <=> Undefined \notin ToSet(keys) /\ ~twice
  BY DEF Indexed
<1> HIDE DEF keys, twice
<1>3. a \in Seq(Codes) /\ (a = <<>> <=> Undefined \notin ToSet(keys))
  <2>1. <<"relationship-id-required">> \in Seq(Codes) /\ <<"relationship-id-required">> # <<>> /\ <<"stable-id-required">> \in Seq(Codes) /\ <<"stable-id-required">> # <<>>
    BY OneCode DEF Codes
  <2>2. QED
    BY <2>1, OneCode
<1>4. b \in Seq(Codes) /\ (b = <<>> <=> ~twice)
  <2>1. <<"boundary-key-ambiguous">> \in Seq(Codes) /\ <<"boundary-key-ambiguous">> # <<>> /\ <<"duplicate-stable-id">> \in Seq(Codes) /\ <<"duplicate-stable-id">> # <<>>
    BY OneCode DEF Codes
  <2>2. QED
    BY <2>1, OneCode
<1> HIDE DEF a, b
<1>5. QED
  BY <1>1, <1>2, <1>3, <1>4, JoinEmpty

LEMMA RefusedUnlessComparable ==
  ASSUME NEW s
  PROVE  Refusals(s) = <<>> <=> Comparable(s)
<1> DEFINE p1 == ShapeRefusals(s.base)
           p2 == ShapeRefusals(s.head)
           p3 == IndexRefusals(s.base, "component")
           p4 == IndexRefusals(s.head, "component")
           p5 == IF Keys(s.base, "component") \cap Keys(s.head, "component") = {}
                 THEN <<"no-shared-component-id">> ELSE <<>>
           p6 == IndexRefusals(s.base, "connection")
           p7 == IndexRefusals(s.head, "connection")
           p8 == IndexRefusals(s.base, "boundary")
           p9 == IndexRefusals(s.head, "boundary")
           p10 == IF /\ s.base.repository # Undefined /\ s.head.repository # Undefined
                     /\ RepositoryIdentity(s.base.repository) # RepositoryIdentity(s.head.repository)
                  THEN <<"repository-mismatch">> ELSE <<>>
<1>1. Refusals(s) = p1 \o p2 \o p3 \o p4 \o p5 \o p6 \o p7 \o p8 \o p9 \o p10
  BY DEF Refusals
<1>2. p5 \in Seq(Codes) /\ (p5 = <<>> <=> Keys(s.base, "component") \cap Keys(s.head, "component") # {})
  <2>1. <<"no-shared-component-id">> \in Seq(Codes) /\ <<"no-shared-component-id">> # <<>>
    BY OneCode DEF Codes
  <2>2. QED
    BY <2>1, OneCode
<1>3. p10 \in Seq(Codes) /\ (p10 = <<>> <=> SameRepository(s))
  <2>1. <<"repository-mismatch">> \in Seq(Codes) /\ <<"repository-mismatch">> # <<>>
    BY OneCode DEF Codes
  <2>2. QED
    BY <2>1, OneCode DEF SameRepository
<1>4. /\ p1 \in Seq(Codes) /\ (p1 = <<>> <=> s.base.schema = 1 /\ s.base.type = "architecture")
      /\ p2 \in Seq(Codes) /\ (p2 = <<>> <=> s.head.schema = 1 /\ s.head.type = "architecture")
  BY ShapeRefused
<1>5. /\ p3 \in Seq(Codes) /\ (p3 = <<>> <=> Indexed(s.base, "component"))
      /\ p4 \in Seq(Codes) /\ (p4 = <<>> <=> Indexed(s.head, "component"))
      /\ p6 \in Seq(Codes) /\ (p6 = <<>> <=> Indexed(s.base, "connection"))
      /\ p7 \in Seq(Codes) /\ (p7 = <<>> <=> Indexed(s.head, "connection"))
      /\ p8 \in Seq(Codes) /\ (p8 = <<>> <=> Indexed(s.base, "boundary"))
      /\ p9 \in Seq(Codes) /\ (p9 = <<>> <=> Indexed(s.head, "boundary"))
  BY IndexRefused
<1> HIDE DEF p1, p2, p3, p4, p5, p6, p7, p8, p9, p10
<1> DEFINE e2 == p1 \o p2
           e3 == e2 \o p3
           e4 == e3 \o p4
           e5 == e4 \o p5
           e6 == e5 \o p6
           e7 == e6 \o p7
           e8 == e7 \o p8
           e9 == e8 \o p9
           e10 == e9 \o p10
<1>6. Refusals(s) = e10
  BY <1>1
<1>7. e2 \in Seq(Codes) /\ (e2 = <<>> <=> p1 = <<>> /\ p2 = <<>>)
  BY <1>4, JoinEmpty
<1> HIDE DEF e2
<1>8. e3 \in Seq(Codes) /\ (e3 = <<>> <=> e2 = <<>> /\ p3 = <<>>)
  BY <1>5, <1>7, JoinEmpty
<1> HIDE DEF e3
<1>9. e4 \in Seq(Codes) /\ (e4 = <<>> <=> e3 = <<>> /\ p4 = <<>>)
  BY <1>5, <1>8, JoinEmpty
<1> HIDE DEF e4
<1>10. e5 \in Seq(Codes) /\ (e5 = <<>> <=> e4 = <<>> /\ p5 = <<>>)
  BY <1>2, <1>9, JoinEmpty
<1> HIDE DEF e5
<1>11. e6 \in Seq(Codes) /\ (e6 = <<>> <=> e5 = <<>> /\ p6 = <<>>)
  BY <1>5, <1>10, JoinEmpty
<1> HIDE DEF e6
<1>12. e7 \in Seq(Codes) /\ (e7 = <<>> <=> e6 = <<>> /\ p7 = <<>>)
  BY <1>5, <1>11, JoinEmpty
<1> HIDE DEF e7
<1>13. e8 \in Seq(Codes) /\ (e8 = <<>> <=> e7 = <<>> /\ p8 = <<>>)
  BY <1>5, <1>12, JoinEmpty
<1> HIDE DEF e8
<1>14. e9 \in Seq(Codes) /\ (e9 = <<>> <=> e8 = <<>> /\ p9 = <<>>)
  BY <1>5, <1>13, JoinEmpty
<1> HIDE DEF e9
<1>15. e10 = <<>> <=> e9 = <<>> /\ p10 = <<>>
  BY <1>3, <1>14, JoinEmpty
<1> HIDE DEF e10
<1>16. e10 = <<>> <=> /\ p1 = <<>> /\ p2 = <<>> /\ p3 = <<>> /\ p4 = <<>> /\ p5 = <<>> /\ p6 = <<>>
                      /\ p7 = <<>> /\ p8 = <<>> /\ p9 = <<>> /\ p10 = <<>>
  BY <1>7, <1>8, <1>9, <1>10, <1>11, <1>12, <1>13, <1>14, <1>15
<1>17. QED
  BY <1>2, <1>3, <1>4, <1>5, <1>6, <1>16 DEF Comparable, KindSet

-----------------------------------------------------------------------------
(* Items and their keys                                                    *)

Items(d, sort) == ToSet(Collection(d, sort))

LEMMA CollectionsAre ==
  ASSUME NEW d, Diagram(d), NEW sort \in KindSet
  PROVE  Collection(d, sort) \in Seq(Items(d, sort))
<1>1. Collection(d, sort) \in {d.components, d.connections, d.boundaries}
  BY DEF Collection, KindSet
<1>2. QED
  BY <1>1 DEF Diagram, Items

LEMMA KeysUnique ==
  ASSUME NEW d, Diagram(d), NEW sort \in KindSet, Indexed(d, sort),
         NEW a \in Items(d, sort), NEW b \in Items(d, sort), ItemKey(sort, a) = ItemKey(sort, b)
  PROVE  a = b
<1> DEFINE list == Collection(d, sort)
<1>1. Len(list) \in Nat /\ DOMAIN list = 1..Len(list)
  BY CollectionsAre, LenProperties
<1>2. PICK i \in DOMAIN list : a = list[i]
  BY DEF Items, ToSet
<1>3. PICK j \in DOMAIN list : b = list[j]
  BY DEF Items, ToSet
<1>4. DOMAIN KeyList(d, sort) = DOMAIN list /\ \A k \in DOMAIN list : KeyList(d, sort)[k] = ItemKey(sort, list[k])
  BY DEF KeyList
<1> HIDE DEF list
<1>5. KeyList(d, sort)[i] = KeyList(d, sort)[j] /\ KeyList(d, sort)[i] # Undefined
  BY <1>2, <1>3, <1>4 DEF Indexed, ToSet
<1>6. ~(i < j) /\ ~(j < i)
  BY <1>4, <1>5 DEF Indexed
<1>7. i = j
  BY <1>1, <1>6
<1>8. QED
  BY <1>2, <1>3, <1>7

LEMMA ItemIs ==
  ASSUME NEW d, NEW sort, NEW ref \in Keys(d, sort)
  PROVE  ItemOf(d, sort, ref) \in Items(d, sort) /\ ItemKey(sort, ItemOf(d, sort, ref)) = ref
<1>1. \E i \in Items(d, sort) : ItemKey(sort, i) = ref
  BY DEF Keys, Items
<1>2. QED
  BY <1>1 DEF ItemOf, Items

LEMMA ItemOnly ==
  ASSUME NEW d, Diagram(d), NEW sort \in KindSet, Indexed(d, sort), NEW i \in Items(d, sort)
  PROVE  ItemKey(sort, i) \in Keys(d, sort) /\ ItemOf(d, sort, ItemKey(sort, i)) = i
<1>1. ItemKey(sort, i) \in Keys(d, sort)
  BY DEF Keys, Items
<1>2. QED
  BY <1>1, ItemIs, KeysUnique

-----------------------------------------------------------------------------
(* Two diagrams with one canonical form                                    *)

Normal(i) == [f \in DOMAIN i |-> NormalizedField(i, f)]

LEMMA NormalSame ==
  ASSUME NEW i, NEW j, Normal(i) = Normal(j)
  PROVE  /\ DOMAIN i = DOMAIN j
         /\ \A f : NormalizedField(i, f) = NormalizedField(j, f)
<1>1. DOMAIN i = DOMAIN Normal(i) /\ DOMAIN j = DOMAIN Normal(j)
  BY DEF Normal
<1>2. DOMAIN i = DOMAIN j
  BY <1>1
<1>3. ASSUME NEW f, f \in DOMAIN i PROVE NormalizedField(i, f) = NormalizedField(j, f)
  <2>1. Normal(i)[f] = NormalizedField(i, f) /\ Normal(j)[f] = NormalizedField(j, f)
    BY <1>2, <1>3 DEF Normal
  <2>2. QED
    BY <2>1
<1>4. ASSUME NEW f, f \notin DOMAIN i PROVE NormalizedField(i, f) = NormalizedField(j, f)
  BY <1>2, <1>4 DEF NormalizedField, Field
<1>5. QED
  BY <1>2, <1>3, <1>4

LEMMA NormalKey ==
  ASSUME NEW sort, NEW i, NEW j, Normal(i) = Normal(j),
         sort = "boundary" => {"kind", "label"} \subseteq DOMAIN i
  PROVE  ItemKey(sort, i) = ItemKey(sort, j)
<1>1. DOMAIN i = DOMAIN j /\ \A f : NormalizedField(i, f) = NormalizedField(j, f)
  BY NormalSame
<1>2. \A f \in {"id", "kind", "label"} : Field(i, f) = Field(j, f)
  <2>1. \A f \in {"id", "kind", "label"} : NormalizedField(i, f) = Field(i, f) /\ NormalizedField(j, f) = Field(j, f)
    BY DEF NormalizedField
  <2>2. QED
    BY <1>1, <2>1
<1>3. CASE sort = "boundary"
  <2>1. i["kind"] = j["kind"] /\ i["label"] = j["label"]
    BY <1>1, <1>2, <1>3 DEF Field
  <2>2. QED
    BY <1>3, <2>1 DEF ItemKey
<1>4. CASE sort # "boundary"
  BY <1>2, <1>4 DEF ItemKey
<1>5. QED
  BY <1>3, <1>4

LEMMA NormalUnchanged ==
  ASSUME NEW sort \in KindSet, NEW i, NEW j, Normal(i) = Normal(j)
  PROVE  StatusFor(Classifications(sort, i, j), sort) = "same"
<1>1. \A g : ChangedFields(sort, i, j, g) = {}
  BY NormalSame DEF ChangedFields
<1>2. Classifications(sort, i, j) = {}
  BY <1>1 DEF Classifications
<1>3. StatusFor({}, sort) = "same"
  BY DEF StatusFor, KindSet
<1>4. QED
  BY <1>2, <1>3

LEMMA OneFormNoChange ==
  ASSUME NEW s, Diagram(s.base), Diagram(s.head), Comparable(s), Canonical(s.base) = Canonical(s.head)
  PROVE  /\ Receipt(s).changes = {}
         /\ ~Receipt(s).presentationChanged /\ ~Receipt(s).provenanceChanged
<1>1. /\ NormalizedRepository(s.base.repository) = NormalizedRepository(s.head.repository)
      /\ s.base.presentation = s.head.presentation
      /\ Canonical(s.base).items = Canonical(s.head).items
  BY DEF Canonical
<1>2. ASSUME NEW sort \in KindSet
      PROVE  {Normal(i) : i \in Items(s.base, sort)} = {Normal(i) : i \in Items(s.head, sort)}
  <2>1. \A d : Canonical(d).items[sort] = {Normal(i) : i \in Items(d, sort)}
    BY KindsAre DEF Canonical, Normal, Items
  <2>2. QED
    BY <1>1, <2>1
<1>3. \A i \in Items(s.base, "boundary") \cup Items(s.head, "boundary") : {"kind", "label"} \subseteq DOMAIN i
  BY DEF Diagram, Items, Collection
<1>4. ASSUME NEW sort \in KindSet, NEW i \in Items(s.base, sort), NEW j \in Items(s.head, sort), Normal(i) = Normal(j)
      PROVE  /\ ItemKey(sort, i) = ItemKey(sort, j)
             /\ ChangeOf(s, sort, ItemKey(sort, i)).status = "same"
  <2>1. ItemKey(sort, i) = ItemKey(sort, j)
    BY <1>3, <1>4, NormalKey
  <2>2. Indexed(s.base, sort) /\ Indexed(s.head, sort)
    BY DEF Comparable
  <2>3. /\ ItemKey(sort, i) \in Keys(s.base, sort) /\ ItemOf(s.base, sort, ItemKey(sort, i)) = i
        /\ ItemKey(sort, i) \in Keys(s.head, sort) /\ ItemOf(s.head, sort, ItemKey(sort, i)) = j
    BY <2>1, <2>2, ItemOnly
  <2>4. ChangeOf(s, sort, ItemKey(sort, i)).status = StatusFor(Classifications(sort, i, j), sort)
    BY <2>3, ChangeIs
  <2>5. QED
    BY <1>4, <2>1, <2>4, NormalUnchanged
<1>5. ASSUME NEW sort \in KindSet, NEW ref \in Keys(s.base, sort) \cup Keys(s.head, sort)
      PROVE  ChangeOf(s, sort, ref).status = "same"
  <2>1. CASE ref \in Keys(s.base, sort)
    <3>1. PICK i \in Items(s.base, sort) : ItemKey(sort, i) = ref
      BY <2>1, ItemIs
    <3>2. PICK j \in Items(s.head, sort) : Normal(i) = Normal(j)
      BY <1>2
    <3>3. QED
      BY <1>4, <3>1, <3>2
  <2>2. CASE ref \in Keys(s.head, sort)
    <3>1. PICK j \in Items(s.head, sort) : ItemKey(sort, j) = ref
      BY <2>2, ItemIs
    <3>2. PICK i \in Items(s.base, sort) : Normal(i) = Normal(j)
      BY <1>2
    <3>3. QED
      BY <1>4, <3>1, <3>2
  <2>3. QED
    BY <2>1, <2>2
<1>6. Receipt(s).changes = {}
  BY <1>5, ChangesAre
<1>7. QED
  BY <1>1, <1>6 DEF Receipt

\* What is gone and what is new accounts for the keys of the later diagram.
LEMMA KeysAccounted ==
  ASSUME NEW s, NEW sort \in KindSet
  PROVE  LET gone == {c.id : c \in {x \in Receipt(s).changes : x.kind = sort /\ x.status = "removed"}}
             new  == {c.id : c \in {x \in Receipt(s).changes : x.kind = sort /\ x.status = "added"}}
         IN  Keys(s.head, sort) = (Keys(s.base, sort) \ gone) \cup new
<1> DEFINE changes == Receipt(s).changes
           gone == {c.id : c \in {x \in changes : x.kind = sort /\ x.status = "removed"}}
           new  == {c.id : c \in {x \in changes : x.kind = sort /\ x.status = "added"}}
<1>1. ASSUME NEW ref
      PROVE  /\ ref \in Keys(s.base, sort) /\ ref \in Keys(s.head, sort)
                  => ChangeOf(s, sort, ref).status \notin {"added", "removed"}
             /\ ref \notin Keys(s.base, sort) => ChangeOf(s, sort, ref).status = "added"
             /\ ref \in Keys(s.base, sort) /\ ref \notin Keys(s.head, sort)
                  => ChangeOf(s, sort, ref).status = "removed"
  <2>1. StatusFor(Classifications(sort, ItemOf(s.base, sort, ref), ItemOf(s.head, sort, ref)), sort)
          \notin {"added", "removed"}
    BY ClassesAre, StatusIs DEF KindSet
  <2>2. QED
    BY <2>1, ChangeIs
<1>2. ASSUME NEW st \in {"added", "removed"}, NEW id
      PROVE  id \in {c.id : c \in {x \in changes : x.kind = sort /\ x.status = st}}
               <=> id \in Keys(s.base, sort) \cup Keys(s.head, sort) /\ ChangeOf(s, sort, id).status = st
  <2>1. ASSUME NEW c \in changes, c.kind = sort, c.status = st, c.id = id
        PROVE  id \in Keys(s.base, sort) \cup Keys(s.head, sort) /\ ChangeOf(s, sort, id).status = st
    <3>1. PICK k \in KindSet : \E ref \in Keys(s.base, k) \cup Keys(s.head, k) : c = ChangeOf(s, k, ref)
      BY ChangesAre
    <3>2. PICK ref \in Keys(s.base, k) \cup Keys(s.head, k) : c = ChangeOf(s, k, ref)
      BY <3>1
    <3>3. c.kind = k /\ c.id = ref
      BY <3>2, ChangeIs
    <3>4. QED
      BY <2>1, <3>2, <3>3
  <2>2. ASSUME id \in Keys(s.base, sort) \cup Keys(s.head, sort), ChangeOf(s, sort, id).status = st
        PROVE  \E c \in changes : c.kind = sort /\ c.status = st /\ c.id = id
    <3>1. ChangeOf(s, sort, id) \in changes
      BY <2>2, ChangesAre
    <3>2. QED
      BY <2>2, <3>1, ChangeIs
  <2> HIDE DEF changes
  <2>3. QED
    BY <2>1, <2>2
<1>3. \A id : id \in gone <=> id \in Keys(s.base, sort) /\ id \notin Keys(s.head, sort)
  BY <1>1, <1>2
<1>4. \A id : id \in new <=> id \notin Keys(s.base, sort) /\ id \in Keys(s.head, sort)
  BY <1>1, <1>2
<1> HIDE DEF gone, new
<1>5. Keys(s.head, sort) = (Keys(s.base, sort) \ gone) \cup new
  BY <1>3, <1>4
<1>6. QED
  BY <1>5 DEF gone, new

-----------------------------------------------------------------------------
(* The summary counts every change once                                    *)

Total(fun) == FoldFunction(+, 0, fun)
Picked(s) == CHOOSE x \in s : TRUE
Sums(fun, g) ==
  g = [s \in SUBSET DOMAIN fun |->
        IF s = {} THEN 0 ELSE fun[Picked(s)] + g[s \ {Picked(s)}]]

LEMMA FoldIs ==
  ASSUME NEW fun
  PROVE  FoldFunction(+, 0, fun) = (CHOOSE g : Sums(fun, g))[DOMAIN fun]
BY Zenon DEF FoldFunction, FoldFunctionOnSet, MapThenFoldSet, Sums, Picked

\* The fold adds the values up in some order; what splits into disjoint parts is the
\* number of its elements whatever the order.
LEMMA FoldCounts ==
  ASSUME NEW S, NEW C, IsFiniteSet(C), NEW part, NEW fun,
         DOMAIN fun = S, DOMAIN part = S, S # {}, IsFiniteSet(S), Cardinality(S) <= 5,
         \A t \in S : part[t] \subseteq C /\ fun[t] = Cardinality(part[t]),
         \A t, u \in S : t # u => part[t] \cap part[u] = {}
  PROVE  Total(fun) = Cardinality(UNION {part[t] : t \in S})
<1> DEFINE all(s) == UNION {part[t] : t \in s}
           g0 == [s \in SUBSET S |-> Cardinality(all(s))]
           it == CHOOSE g : Sums(fun, g)
<1>1. ASSUME NEW s \in SUBSET S, NEW x \in s
      PROVE  /\ Cardinality(all(s)) = fun[x] + Cardinality(all(s \ {x}))
             /\ Cardinality(all(s)) \in Nat
  <2>1. all(s) = all(s \ {x}) \cup part[x] /\ all(s \ {x}) \cap part[x] = {}
    OBVIOUS
  <2>2. IsFiniteSet(all(s \ {x})) /\ IsFiniteSet(part[x])
    <3>1. all(s \ {x}) \subseteq C /\ part[x] \subseteq C
      OBVIOUS
    <3>2. QED
      BY <3>1, FS_Subset
  <2> HIDE DEF all
  <2>3. /\ IsFiniteSet(all(s \ {x}) \cup part[x])
        /\ Cardinality(all(s \ {x}) \cup part[x])
             = Cardinality(all(s \ {x})) + Cardinality(part[x]) - Cardinality(all(s \ {x}) \cap part[x])
    BY <2>2, FS_Union
  <2>4. /\ Cardinality(all(s \ {x})) \in Nat /\ Cardinality(part[x]) \in Nat
        /\ Cardinality(all(s \ {x}) \cap part[x]) = 0
    BY <2>1, <2>2, FS_CardinalityType, FS_EmptySet
  <2>5. fun[x] = Cardinality(part[x])
    OBVIOUS
  <2>6. QED
    BY <2>1, <2>3, <2>4, <2>5
<1>2. \A s \in SUBSET S : s # {} => Picked(s) \in s
  BY DEF Picked
<1>3. Cardinality(all({})) = 0
  <2>1. all({}) = {}
    OBVIOUS
  <2>2. QED
    BY <2>1, FS_EmptySet
<1> HIDE DEF all
<1>4. Sums(fun, g0)
  <2>1. ASSUME NEW s \in SUBSET S
        PROVE  g0[s] = IF s = {} THEN 0 ELSE fun[Picked(s)] + g0[s \ {Picked(s)}]
    <3>1. g0[s] = Cardinality(all(s)) /\ g0[s \ {Picked(s)}] = Cardinality(all(s \ {Picked(s)}))
      OBVIOUS
    <3>2. s # {} => Cardinality(all(s)) = fun[Picked(s)] + Cardinality(all(s \ {Picked(s)}))
      BY <1>1, <1>2
    <3>3. QED
      BY <1>3, <3>1, <3>2
  <2>2. DOMAIN g0 = SUBSET S /\ g0 = [s \in SUBSET S |-> g0[s]]
    OBVIOUS
  <2> HIDE DEF g0
  <2>3. QED
    BY <2>1, <2>2 DEF Sums
<1>5. Sums(fun, it)
  <2> HIDE DEF g0
  <2>1. QED
    BY <1>4, Zenon
<1> HIDE DEF it, g0
<1>6. \A s \in SUBSET S : it[s] = IF s = {} THEN 0 ELSE fun[Picked(s)] + it[s \ {Picked(s)}]
  BY <1>5 DEF Sums
<1> DEFINE Level(n) == \A s \in SUBSET S : Cardinality(s) = n => it[s] = Cardinality(all(s))
<1>7. \A s \in SUBSET S : IsFiniteSet(s) /\ Cardinality(s) \in Nat
  BY FS_Subset, FS_CardinalityType
<1>8. Level(0)
  <2>1. ASSUME NEW s \in SUBSET S, Cardinality(s) = 0 PROVE it[s] = Cardinality(all(s))
    <3>1. s = {}
      BY <1>7, <2>1, FS_EmptySet
    <3>2. QED
      BY <1>3, <1>6, <3>1
  <2>2. QED
    BY <2>1
<1>9. ASSUME NEW n \in Nat, Level(n) PROVE Level(n + 1)
  <2>1. ASSUME NEW s \in SUBSET S, Cardinality(s) = n + 1 PROVE it[s] = Cardinality(all(s))
    <3>1. s # {}
      BY <2>1, FS_EmptySet
    <3>2. Picked(s) \in s
      BY <1>2, <3>1
    <3>3. Cardinality(s \ {Picked(s)}) = n
      <4>1. Cardinality(s \ {Picked(s)}) = Cardinality(s) - 1
        BY <1>7, <3>2, FS_RemoveElement
      <4>2. QED
        BY <2>1, <4>1
    <3>4. s \ {Picked(s)} \in SUBSET S
      OBVIOUS
    <3>5. it[s \ {Picked(s)}] = Cardinality(all(s \ {Picked(s)}))
      BY <1>9, <3>3, <3>4
    <3>6. it[s] = fun[Picked(s)] + it[s \ {Picked(s)}]
      BY <1>6, <3>1
    <3>7. QED
      BY <1>1, <3>2, <3>5, <3>6
  <2>2. QED
    BY <2>1
<1>10. Level(1) /\ Level(2) /\ Level(3) /\ Level(4) /\ Level(5)
  <2> HIDE DEF Level
  <2>1. Level(0 + 1)
    BY <1>8, <1>9
  <2>2. Level(1)
    BY <2>1
  <2>3. Level(1 + 1)
    BY <2>2, <1>9
  <2>4. Level(2)
    BY <2>3
  <2>5. Level(2 + 1)
    BY <2>4, <1>9
  <2>6. Level(3)
    BY <2>5
  <2>7. Level(3 + 1)
    BY <2>6, <1>9
  <2>8. Level(4)
    BY <2>7
  <2>9. Level(4 + 1)
    BY <2>8, <1>9
  <2>10. Level(5)
    BY <2>9
  <2>11. QED
    BY <2>2, <2>4, <2>6, <2>8, <2>10
<1>11. Cardinality(S) \in 1..5
  BY <1>7, FS_EmptySet
<1>12. it[S] = Cardinality(all(S))
  BY <1>10, <1>11
<1>13. QED
  BY <1>12, FoldIs DEF Total, it, all

LEMMA UpToFive ==
  ASSUME NEW S, NEW list, S = {list[i] : i \in 1..5}
  PROVE  IsFiniteSet(S) /\ Cardinality(S) <= 5
<1>1. IsFiniteSet(1..5) /\ Cardinality(1..5) = 5
  <2>1. \A b \in Int : IsFiniteSet(1..b) /\ Cardinality(1..b) = IF 1 > b THEN 0 ELSE b - 1 + 1
    BY FS_Interval
  <2>2. 5 \in Int /\ (IF 1 > 5 THEN 0 ELSE 5 - 1 + 1) = 5
    OBVIOUS
  <2>3. QED
    BY <2>1, <2>2, Zenon
<1>2. [i \in 1..5 |-> list[i]] \in Surjection(1..5, S)
  BY DEF Surjection
<1>3. QED
  BY <1>1, <1>2, FS_Surjection

\* The statuses that are counted: few, and all that a change can have.
LEMMA StatusesCounted ==
  ASSUME NEW sort \in KindSet
  PROVE  /\ IsFiniteSet(SummaryShape[sort]) /\ Cardinality(SummaryShape[sort]) <= 5
         /\ SummaryShape[sort] # {}
         /\ \A c : c.kind = sort /\ Row(c) => c.status \in SummaryShape[sort]
<1>1. /\ SummaryShape["component"] = {"added", "changed", "evidence-changed", "removed", "moved"}
      /\ SummaryShape["connection"] = {"added", "changed", "removed", "rerouted", "rerouted"}
      /\ SummaryShape["boundary"] = {"added", "changed", "removed", "geometry-changed", "geometry-changed"}
  BY DEF SummaryShape
<1>2. CASE sort = "component"
  <2>1. IsFiniteSet(SummaryShape["component"]) /\ Cardinality(SummaryShape["component"]) <= 5
    <3> DEFINE list == <<"added", "changed", "evidence-changed", "removed", "moved">>
    <3>1. SummaryShape["component"] = {list[i] : i \in 1..5}
      BY <1>1
    <3> HIDE DEF list
    <3>2. QED
      BY <3>1, UpToFive
  <2>2. \A c : c.kind = sort /\ Row(c) => c.status \in SummaryShape["component"]
    BY <1>1, <1>2 DEF Row, ComponentRow
  <2>3. SummaryShape["component"] # {}
    BY <1>1
  <2>4. QED
    BY <1>2, <2>1, <2>2, <2>3
<1>3. CASE sort = "connection"
  <2>1. IsFiniteSet(SummaryShape["connection"]) /\ Cardinality(SummaryShape["connection"]) <= 5
    <3> DEFINE list == <<"added", "changed", "removed", "rerouted", "rerouted">>
    <3>1. SummaryShape["connection"] = {list[i] : i \in 1..5}
      BY <1>1
    <3> HIDE DEF list
    <3>2. QED
      BY <3>1, UpToFive
  <2>2. \A c : c.kind = sort /\ Row(c) => c.status \in SummaryShape["connection"]
    BY <1>1, <1>3 DEF Row, ConnectionRow
  <2>3. SummaryShape["connection"] # {}
    BY <1>1
  <2>4. QED
    BY <1>3, <2>1, <2>2, <2>3
<1>4. CASE sort = "boundary"
  <2>1. IsFiniteSet(SummaryShape["boundary"]) /\ Cardinality(SummaryShape["boundary"]) <= 5
    <3> DEFINE list == <<"added", "changed", "removed", "geometry-changed", "geometry-changed">>
    <3>1. SummaryShape["boundary"] = {list[i] : i \in 1..5}
      BY <1>1
    <3> HIDE DEF list
    <3>2. QED
      BY <3>1, UpToFive
  <2>2. \A c : c.kind = sort /\ Row(c) => c.status \in SummaryShape["boundary"]
    BY <1>1, <1>4 DEF Row, BoundaryRow
  <2>3. SummaryShape["boundary"] # {}
    BY <1>1
  <2>4. QED
    BY <1>4, <2>1, <2>2, <2>3
<1>5. QED
  BY <1>2, <1>3, <1>4 DEF KindSet

LEMMA KeysFinite ==
  ASSUME NEW d, Diagram(d), NEW sort \in KindSet
  PROVE  IsFiniteSet(Keys(d, sort))
<1> DEFINE list == Collection(d, sort)
<1>1. Len(list) \in Nat /\ DOMAIN list = 1..Len(list)
  BY CollectionsAre, LenProperties
<1>2. IsFiniteSet(DOMAIN list)
  BY <1>1, FS_Interval
<1>3. Keys(d, sort) = {ItemKey(sort, list[i]) : i \in DOMAIN list}
  BY DEF Keys, ToSet
<1> HIDE DEF list
<1>4. [i \in DOMAIN list |-> ItemKey(sort, list[i])] \in Surjection(DOMAIN list, Keys(d, sort))
  BY <1>3 DEF Surjection
<1>5. QED
  BY <1>2, <1>4, FS_Surjection

LEMMA ChangesFinite ==
  ASSUME NEW s, Diagram(s.base), Diagram(s.head), NEW sort \in KindSet
  PROVE  IsFiniteSet({c \in Receipt(s).changes : c.kind = sort})
<1> DEFINE keys == Keys(s.base, sort) \cup Keys(s.head, sort)
           all  == {ChangeOf(s, sort, ref) : ref \in keys}
<1>1. IsFiniteSet(keys)
  BY KeysFinite, FS_Union
<1>2. {c \in Receipt(s).changes : c.kind = sort} \subseteq all
  <2>1. ASSUME NEW c \in Receipt(s).changes, c.kind = sort PROVE c \in all
    <3>1. PICK k \in KindSet : \E ref \in Keys(s.base, k) \cup Keys(s.head, k) : c = ChangeOf(s, k, ref)
      BY ChangesAre
    <3>2. PICK ref \in Keys(s.base, k) \cup Keys(s.head, k) : c = ChangeOf(s, k, ref)
      BY <3>1
    <3>3. c.kind = k
      BY <3>2, ChangeIs
    <3>4. QED
      BY <2>1, <3>2, <3>3
  <2>2. QED
    BY <2>1
<1> HIDE DEF keys
<1>3. [ref \in keys |-> ChangeOf(s, sort, ref)] \in Surjection(keys, all)
  BY DEF Surjection
<1> HIDE DEF all
<1>4. IsFiniteSet(all)
  BY <1>1, <1>3, FS_Surjection
<1>5. QED
  BY <1>2, <1>4, FS_Subset

LEMMA SummaryCounts ==
  ASSUME NEW s, Diagram(s.base), Diagram(s.head), NEW sort \in KindSet
  PROVE  FoldFunction(+, 0, Receipt(s).summary[sort])
           = Cardinality({c \in Receipt(s).changes : c.kind = sort})
<1> DEFINE changes == Receipt(s).changes
           mine == {c \in changes : c.kind = sort}
           S == SummaryShape[sort]
           part == [status \in S |-> {c \in changes : c.kind = sort /\ c.status = status}]
           fun == [status \in S |-> Cardinality({c \in changes : c.kind = sort /\ c.status = status})]
<1>1. Receipt(s).summary[sort] = fun
  BY KindsAre DEF Receipt, Summary
<1>2. \A c \in changes : c.kind = sort => c.status \in S
  <2>1. ASSUME NEW c \in changes, c.kind = sort PROVE c.status \in S
    <3>1. PICK k \in KindSet : \E ref : c = ChangeOf(s, k, ref) /\ c.status # "same"
      BY ChangesAre
    <3>2. Row(c)
      BY <3>1, RowsFit
    <3>3. QED
      BY <2>1, <3>2, StatusesCounted
  <2>2. QED
    BY <2>1
<1>3. IsFiniteSet(mine)
  BY ChangesFinite
<1>4. IsFiniteSet(S) /\ Cardinality(S) <= 5 /\ S # {}
  BY StatusesCounted
<1> HIDE DEF changes, S
<1>5. UNION {part[t] : t \in S} = mine
  BY <1>2
<1>6. /\ DOMAIN part = S /\ DOMAIN fun = S
      /\ \A t \in S : part[t] \subseteq mine /\ fun[t] = Cardinality(part[t])
      /\ \A t, u \in S : t # u => part[t] \cap part[u] = {}
  OBVIOUS
<1> HIDE DEF part, fun, mine
<1>7. Total(fun) = Cardinality(UNION {part[t] : t \in S})
  BY <1>3, <1>4, <1>6, FoldCounts
<1>8. QED
  BY <1>1, <1>5, <1>7 DEF Total, mine, changes

-----------------------------------------------------------------------------
(* The receipt of the pair in the other order                              *)

Back(s) == [base |-> s.head, head |-> s.base]

LEMMA ComparableBack == ASSUME NEW s, Comparable(s) PROVE Comparable(Back(s))
<1>1. Back(s).base = s.head /\ Back(s).head = s.base
  BY DEF Back
<1>2. SameRepository(Back(s))
  BY <1>1 DEF Comparable, SameRepository
<1>3. Keys(Back(s).base, "component") \cap Keys(Back(s).head, "component") # {}
  BY <1>1 DEF Comparable
<1>4. QED
  BY <1>1, <1>2, <1>3 DEF Comparable

Change(sort, id, baseLabel, headLabel, status, classes, fields) ==
  [kind |-> sort, id |-> id, baseLabel |-> baseLabel, headLabel |-> headLabel, status |-> status,
   classes |-> classes, fields |-> fields]
Turned(status) ==
  CASE status = "added" -> "removed" [] status = "removed" -> "added" [] OTHER -> status

ChangedIn(sort, was, head) ==
  UNION {ChangedFields(sort, was, head, g) : g \in Classifications(sort, was, head)}

LEMMA ReversedIs ==
  ASSUME NEW sort, NEW id, NEW a, NEW b, NEW status, NEW classes, NEW fields
  PROVE  Reversed(Change(sort, id, a, b, status, classes, fields))
           = Change(sort, id, b, a, Turned(status), classes, fields)
<1> DEFINE c == Change(sort, id, a, b, status, classes, fields)
           d == Change(sort, id, b, a, Turned(status), classes, fields)
           names == {"kind", "id", "baseLabel", "headLabel", "status", "classes", "fields"}
<1>1. /\ DOMAIN c = names /\ c.kind = sort /\ c.id = id /\ c.baseLabel = a /\ c.headLabel = b
      /\ c.status = status /\ c.classes = classes /\ c.fields = fields
      /\ c = [f \in names |-> c[f]]
  BY DEF Change
<1>2. /\ DOMAIN d = names /\ d.kind = sort /\ d.id = id /\ d.baseLabel = b /\ d.headLabel = a
      /\ d.status = Turned(status) /\ d.classes = classes /\ d.fields = fields
      /\ d = [f \in names |-> d[f]]
  BY DEF Change
<1> HIDE DEF c, d
<1>3. Reversed(c) = [[[c EXCEPT !.status = Turned(status)] EXCEPT !.baseLabel = b] EXCEPT !.headLabel = a]
  BY <1>1 DEF Reversed, Turned
<1> DEFINE e == Reversed(c)
<1>4. /\ DOMAIN e = names /\ e = [f \in names |-> e[f]]
      /\ \A f \in names : e[f] = d[f]
  BY <1>1, <1>2, <1>3
<1> HIDE DEF e
<1>5. e = d
  BY <1>2, <1>4
<1>6. QED
  BY <1>5 DEF c, d, e

LEMMA TurnedIs ==
  /\ Turned("added") = "removed" /\ Turned("removed") = "added"
  /\ \A status : status \notin {"added", "removed"} => Turned(status) = status
  /\ \A status : Turned(status) = "same" <=> status = "same"
BY DEF Turned

\* The change of a key, by where the key is.
LEMMA ChangeCases ==
  ASSUME NEW s, NEW sort, NEW ref
  PROVE  LET was == ItemOf(s.base, sort, ref)
             head == ItemOf(s.head, sort, ref)
             classes == Classifications(sort, was, head)
             own == {IdentityClass(sort)}
         IN  /\ ref \in Keys(s.base, sort) /\ ref \in Keys(s.head, sort) =>
                  ChangeOf(s, sort, ref)
                    = Change(sort, ref, LabelOf(was), LabelOf(head), StatusFor(classes, sort), classes,
                             ChangedIn(sort, was, head))
             /\ ref \in Keys(s.base, sort) /\ ref \notin Keys(s.head, sort) =>
                  ChangeOf(s, sort, ref)
                    = Change(sort, ref, LabelOf(was), LabelOf(<<>>), "removed", own, {})
             /\ ref \notin Keys(s.base, sort) /\ ref \in Keys(s.head, sort) =>
                  ChangeOf(s, sort, ref)
                    = Change(sort, ref, LabelOf(<<>>), LabelOf(head), "added", own, {})
<1>1. ASSUME ref \in Keys(s.base, sort), ref \in Keys(s.head, sort)
      PROVE  LET was == ItemOf(s.base, sort, ref)
                 head == ItemOf(s.head, sort, ref)
                 classes == Classifications(sort, was, head)
             IN  ChangeOf(s, sort, ref)
                    = Change(sort, ref, LabelOf(was), LabelOf(head), StatusFor(classes, sort), classes,
                             ChangedIn(sort, was, head))
  BY <1>1 DEF ChangeOf, Change, ChangedIn
<1>2. ASSUME ref \in Keys(s.base, sort), ref \notin Keys(s.head, sort)
      PROVE  ChangeOf(s, sort, ref)
               = Change(sort, ref, LabelOf(ItemOf(s.base, sort, ref)), LabelOf(<<>>), "removed",
                        {IdentityClass(sort)}, {})
  BY <1>2 DEF ChangeOf, Change
<1>3. ASSUME ref \notin Keys(s.base, sort), ref \in Keys(s.head, sort)
      PROVE  ChangeOf(s, sort, ref)
               = Change(sort, ref, LabelOf(<<>>), LabelOf(ItemOf(s.head, sort, ref)), "added",
                        {IdentityClass(sort)}, {})
  BY <1>3 DEF ChangeOf, Change
<1>4. QED
  BY <1>1, <1>2, <1>3

LEMMA ChangeBack ==
  ASSUME NEW s, NEW sort \in KindSet, NEW ref \in Keys(s.base, sort) \cup Keys(s.head, sort)
  PROVE  ChangeOf(Back(s), sort, ref) = Reversed(ChangeOf(s, sort, ref))
<1>1. Back(s).base = s.head /\ Back(s).head = s.base
  BY DEF Back
<1> DEFINE was == ItemOf(s.base, sort, ref)
           head == ItemOf(s.head, sort, ref)
           classes == Classifications(sort, was, head)
           fields == ChangedIn(sort, was, head)
<1>2. CASE ref \in Keys(s.base, sort) /\ ref \in Keys(s.head, sort)
  <2>1. /\ Classifications(sort, head, was) = classes
        /\ \A g : ChangedFields(sort, head, was, g) = ChangedFields(sort, was, head, g)
    BY ClassesEitherWay
  <2>2. ChangedIn(sort, head, was) = fields
    BY <2>1 DEF ChangedIn
  <2>3. StatusFor(classes, sort) \notin {"added", "removed"}
    BY ClassesAre, StatusIs DEF KindSet
  <2>4. ChangeOf(s, sort, ref)
          = Change(sort, ref, LabelOf(was), LabelOf(head), StatusFor(classes, sort), classes, fields)
    BY <1>2, ChangeCases
  <2>5. ChangeOf(Back(s), sort, ref)
          = Change(sort, ref, LabelOf(head), LabelOf(was), StatusFor(Classifications(sort, head, was), sort),
                   Classifications(sort, head, was), ChangedIn(sort, head, was))
    <3>1. /\ head = ItemOf(Back(s).base, sort, ref) /\ ref \in Keys(Back(s).base, sort)
          /\ was = ItemOf(Back(s).head, sort, ref) /\ ref \in Keys(Back(s).head, sort)
      BY <1>1, <1>2
    <3> HIDE DEF was, head
    <3>2. QED
      BY <3>1, ChangeCases
  <2> HIDE DEF was, head, classes, fields
  <2>6. ChangeOf(Back(s), sort, ref)
          = Change(sort, ref, LabelOf(head), LabelOf(was), StatusFor(classes, sort), classes, fields)
    BY <2>1, <2>2, <2>5
  <2>7. QED
    BY <2>3, <2>4, <2>6, ReversedIs, TurnedIs
<1>3. CASE ref \in Keys(s.base, sort) /\ ref \notin Keys(s.head, sort)
  <2>1. ChangeOf(s, sort, ref)
          = Change(sort, ref, LabelOf(was), LabelOf(<<>>), "removed", {IdentityClass(sort)}, {})
    BY <1>3, ChangeCases
  <2>2. ChangeOf(Back(s), sort, ref)
          = Change(sort, ref, LabelOf(<<>>), LabelOf(was), "added", {IdentityClass(sort)}, {})
    BY <1>1, <1>3, ChangeCases
  <2> HIDE DEF was
  <2>3. QED
    BY <2>1, <2>2, ReversedIs, TurnedIs
<1>4. CASE ref \notin Keys(s.base, sort) /\ ref \in Keys(s.head, sort)
  <2>1. ChangeOf(s, sort, ref)
          = Change(sort, ref, LabelOf(<<>>), LabelOf(head), "added", {IdentityClass(sort)}, {})
    BY <1>4, ChangeCases
  <2>2. ChangeOf(Back(s), sort, ref)
          = Change(sort, ref, LabelOf(head), LabelOf(<<>>), "removed", {IdentityClass(sort)}, {})
    BY <1>1, <1>4, ChangeCases
  <2> HIDE DEF head
  <2>3. QED
    BY <2>1, <2>2, ReversedIs, TurnedIs
<1>5. QED
  BY <1>2, <1>3, <1>4

LEMMA StatusBack ==
  ASSUME NEW s, NEW sort \in KindSet, NEW ref \in Keys(s.base, sort) \cup Keys(s.head, sort)
  PROVE  ChangeOf(Back(s), sort, ref).status = "same" <=> ChangeOf(s, sort, ref).status = "same"
<1>1. ASSUME NEW k, NEW id, NEW a, NEW b, NEW status, NEW classes, NEW fields
      PROVE Change(k, id, a, b, status, classes, fields).status = status
  BY DEF Change
<1>2. \E a, b, status, classes, fields : ChangeOf(s, sort, ref) = Change(sort, ref, a, b, status, classes, fields)
  <2> DEFINE was == ItemOf(s.base, sort, ref)
             head == ItemOf(s.head, sort, ref)
  <2>1. CASE ref \in Keys(s.base, sort) /\ ref \in Keys(s.head, sort)
    <3>1. ChangeOf(s, sort, ref)
            = Change(sort, ref, LabelOf(was), LabelOf(head), StatusFor(Classifications(sort, was, head), sort),
                     Classifications(sort, was, head), ChangedIn(sort, was, head))
      BY <2>1, ChangeCases
    <3>2. QED
      BY <3>1
  <2>2. CASE ref \in Keys(s.base, sort) /\ ref \notin Keys(s.head, sort)
    <3>1. ChangeOf(s, sort, ref)
            = Change(sort, ref, LabelOf(was), LabelOf(<<>>), "removed", {IdentityClass(sort)}, {})
      BY <2>2, ChangeCases
    <3>2. QED
      BY <3>1
  <2>3. CASE ref \notin Keys(s.base, sort) /\ ref \in Keys(s.head, sort)
    <3>1. ChangeOf(s, sort, ref)
            = Change(sort, ref, LabelOf(<<>>), LabelOf(head), "added", {IdentityClass(sort)}, {})
      BY <2>3, ChangeCases
    <3>2. QED
      BY <3>1
  <2>4. QED
    BY <2>1, <2>2, <2>3
<1>3. PICK a, b, status, classes, fields : ChangeOf(s, sort, ref) = Change(sort, ref, a, b, status, classes, fields)
  BY <1>2, Zenon
<1>4. ChangeOf(Back(s), sort, ref) = Change(sort, ref, b, a, Turned(status), classes, fields)
  BY <1>3, ChangeBack, ReversedIs
<1>5. QED
  BY <1>1, <1>3, <1>4, TurnedIs

LEMMA ChangesBack ==
  ASSUME NEW s
  PROVE  /\ Receipt(Back(s)).changes = {Reversed(c) : c \in Receipt(s).changes}
         /\ Receipt(Back(s)).proof = Receipt(s).proof
<1>1. Back(s).base = s.head /\ Back(s).head = s.base
  BY DEF Back
<1>2. ASSUME NEW c \in Receipt(Back(s)).changes PROVE \E d \in Receipt(s).changes : c = Reversed(d)
  <2>1. PICK sort \in KindSet : \E ref \in Keys(s.base, sort) \cup Keys(s.head, sort) :
          c = ChangeOf(Back(s), sort, ref) /\ c.status # "same"
    BY <1>1, ChangesAre
  <2>2. PICK ref \in Keys(s.base, sort) \cup Keys(s.head, sort) :
          c = ChangeOf(Back(s), sort, ref) /\ c.status # "same"
    BY <2>1
  <2>3. ChangeOf(s, sort, ref) \in Receipt(s).changes
    BY <2>2, StatusBack, ChangesAre
  <2>4. QED
    BY <2>2, <2>3, ChangeBack
<1>3. ASSUME NEW d \in Receipt(s).changes PROVE Reversed(d) \in Receipt(Back(s)).changes
  <2>1. PICK sort \in KindSet : \E ref \in Keys(s.base, sort) \cup Keys(s.head, sort) :
          d = ChangeOf(s, sort, ref) /\ d.status # "same"
    BY ChangesAre
  <2>2. PICK ref \in Keys(s.base, sort) \cup Keys(s.head, sort) :
          d = ChangeOf(s, sort, ref) /\ d.status # "same"
    BY <2>1
  <2>3. Reversed(d) = ChangeOf(Back(s), sort, ref) /\ Reversed(d).status # "same"
    BY <2>2, StatusBack, ChangeBack
  <2>4. ref \in Keys(Back(s).base, sort) \cup Keys(Back(s).head, sort)
    BY <1>1
  <2>5. QED
    BY <2>3, <2>4, ChangesAre
<1>4. Receipt(Back(s)).proof = Receipt(s).proof
  <2>1. ProofLevel(Back(s)) = ProofLevel(s)
    BY <1>1 DEF ProofLevel
  <2>2. QED
    BY <2>1 DEF Receipt
<1>5. QED
  BY <1>2, <1>3, <1>4

-----------------------------------------------------------------------------
(* A repository's address, normalised                                      *)

UrlFields == {"form", "host", "port", "secret", "name", "upper", "suffix", "rooted"}

LEMMA SuffixStays ==
  ASSUME NEW v, UrlFields \subseteq DOMAIN v, v = [f \in DOMAIN v |-> v[f]],
         NEW a, v.suffix = (a /\ Provider(v) = "none")
  PROVE  WithoutSuffix(v) = v
<1> DEFINE p == Provider(v) = "none"
<1>1. WithoutSuffix(v) = [v EXCEPT !.suffix = (a /\ p) /\ p]
  BY DEF WithoutSuffix
<1>2. ((a /\ p) /\ p) = (a /\ p)
  OBVIOUS
<1>3. v.suffix = (a /\ p)
  OBVIOUS
<1> HIDE DEF p
<1>4. WithoutSuffix(v) = [v EXCEPT !.suffix = v.suffix]
  BY <1>1, <1>2, <1>3
<1>5. QED
  BY <1>4

\* Neither step of the normalisation changes what the steps are chosen by.
LEMMA SuffixGone ==
  ASSUME NEW u, UrlFields \subseteq DOMAIN u
  PROVE  LET v == WithoutSuffix(u)
         IN  /\ DOMAIN v = DOMAIN u /\ v = [f \in DOMAIN v |-> v[f]]
             /\ Provider(v) = Provider(u)
             /\ Parsable(v) <=> Parsable(u)
             /\ v.suffix = (u.suffix /\ Provider(u) = "none")
<1> DEFINE v == WithoutSuffix(u)
<1>1. /\ \A f \in DOMAIN u : f # "suffix" => v[f] = u[f]
      /\ DOMAIN v = DOMAIN u /\ v = [f \in DOMAIN v |-> v[f]]
      /\ v.suffix = (u.suffix /\ Provider(u) = "none")
  BY DEF WithoutSuffix, UrlFields
<1> HIDE DEF v
<1>2. v.form = u.form /\ v.host = u.host /\ v.secret = u.secret
  BY <1>1 DEF UrlFields
<1>3. Provider(v) = Provider(u) /\ (Parsable(v) <=> Parsable(u))
  BY <1>2 DEF Provider, Parsable
<1>4. QED
  BY <1>1, <1>3 DEF v

LEMMA CaseGone ==
  ASSUME NEW u, UrlFields \subseteq DOMAIN u
  PROVE  LET v == Lowered(u)
         IN  /\ DOMAIN v = DOMAIN u /\ v = [f \in DOMAIN v |-> v[f]]
             /\ Provider(v) = Provider(u)
             /\ Parsable(v) <=> Parsable(u)
             /\ v.suffix = u.suffix
             /\ Lowered(v) = v
<1> DEFINE v == Lowered(u)
<1>1. /\ \A f \in DOMAIN u : f # "upper" => v[f] = u[f]
      /\ DOMAIN v = DOMAIN u /\ v = [f \in DOMAIN v |-> v[f]] /\ v.upper = FALSE
  BY DEF Lowered, UrlFields
<1>2. Lowered(v) = [v EXCEPT !.upper = FALSE]
  BY DEF Lowered
<1> HIDE DEF v
<1>3. v.form = u.form /\ v.host = u.host /\ v.secret = u.secret /\ v.suffix = u.suffix
  BY <1>1 DEF UrlFields
<1>4. Provider(v) = Provider(u) /\ (Parsable(v) <=> Parsable(u))
  BY <1>3 DEF Provider, Parsable
<1>5. Lowered(v) = v
  BY <1>1, <1>2
<1>6. QED
  BY <1>1, <1>3, <1>4, <1>5 DEF v

LEMMA UrlStays ==
  ASSUME NEW u, UrlFields \subseteq DOMAIN u
  PROVE  NormalizedUrl(NormalizedUrl(u)) = NormalizedUrl(u)
<1> DEFINE x == WithoutSuffix(u)
           y == Lowered(x)
<1>1. /\ DOMAIN x = DOMAIN u /\ x = [f \in DOMAIN x |-> x[f]]
      /\ Provider(x) = Provider(u) /\ (Parsable(x) <=> Parsable(u))
      /\ x.suffix = (u.suffix /\ Provider(u) = "none")
  BY SuffixGone
<1>2. NormalizedUrl(u) = IF ~Parsable(u) THEN u ELSE IF Provider(u) = "github" THEN y ELSE x
  BY DEF NormalizedUrl
<1> HIDE DEF x
<1>3. /\ DOMAIN y = DOMAIN x /\ y = [f \in DOMAIN y |-> y[f]]
      /\ Provider(y) = Provider(x) /\ (Parsable(y) <=> Parsable(x))
      /\ y.suffix = x.suffix /\ Lowered(y) = y
  BY <1>1, CaseGone
<1> HIDE DEF y
<1>4. WithoutSuffix(x) = x
  <2>1. UrlFields \subseteq DOMAIN x /\ x.suffix = (u.suffix /\ Provider(x) = "none")
    BY <1>1
  <2>2. QED
    BY <1>1, <2>1, SuffixStays
<1>5. WithoutSuffix(y) = y
  <2>1. UrlFields \subseteq DOMAIN y /\ y.suffix = (u.suffix /\ Provider(y) = "none")
    BY <1>1, <1>3
  <2>2. QED
    BY <1>3, <2>1, SuffixStays
<1>6. CASE ~Parsable(u)
  BY <1>2, <1>6
<1>7. CASE Parsable(u) /\ Provider(u) = "github"
  BY <1>1, <1>2, <1>3, <1>5, <1>7 DEF NormalizedUrl
<1>8. CASE Parsable(u) /\ Provider(u) # "github"
  BY <1>1, <1>2, <1>4, <1>8 DEF NormalizedUrl
<1>9. QED
  BY <1>6, <1>7, <1>8

LEMMA IdentityStays ==
  ASSUME NEW d, Diagram(d), d.repository # Undefined
  PROVE  RepositoryIdentity(NormalizedRepository(d.repository)) = RepositoryIdentity(d.repository)
<1> DEFINE r == d.repository
           n == NormalizedRepository(r)
<1>1. r # Undefined /\ n # Undefined
  BY DEF Diagram
<1>2. {"url", "revision"} \subseteq DOMAIN r /\ UrlFields \subseteq DOMAIN r.url
  BY DEF Diagram, UrlFields
<1> HIDE DEF r
<1>3. n.url = NormalizedUrl(r.url) /\ {"url", "revision"} \subseteq DOMAIN n
  BY <1>1, <1>2 DEF NormalizedRepository
<1> HIDE DEF n
<1>4. NormalizedRepository(n).url = NormalizedUrl(n.url)
  BY <1>1, <1>3 DEF NormalizedRepository
<1>5. NormalizedRepository(n).url = n.url
  BY <1>2, <1>3, <1>4, UrlStays
<1>6. RepositoryIdentity(n) = RepositoryIdentity(r)
  BY <1>5 DEF RepositoryIdentity, n
<1>7. QED
  BY <1>6 DEF n, r

-----------------------------------------------------------------------------
(* The command                                                             *)

\* What each stage of the command knows: the pair was not refused, the receipt is that of
\* the pair, and the drawing is the one made of the receipt.
DeltaInv ==
  /\ compared \in Snapshots
  /\ stage \in {"start", "compared", "built", "accepted", "refused"}
  /\ stage \in {"compared", "built"} => Refusals(compared) = <<>> /\ receipt = Receipt(compared)
  /\ stage \in {"start", "compared"} => drawing = {}
  /\ stage = "built" => drawing = BuildDelta(receipt.changes)
  /\ ComparedIsShown

LEMMA DeltaStart == ASSUME DeltaInit PROVE DeltaInv
BY DEF DeltaInit, DeltaInv, ComparedIsShown

LEMMA DeltaStep == ASSUME DeltaInv, [DeltaNext]_deltaVars PROVE DeltaInv'
<1>1. CASE Compare
  BY <1>1 DEF Compare, DeltaInv, ComparedIsShown
<1>2. CASE Build
  BY <1>2 DEF Build, DeltaInv, ComparedIsShown
<1>3. CASE Validate
  <2>1. receipt = Receipt(compared) /\ drawing = BuildDelta(receipt.changes)
    BY <1>3 DEF Validate, DeltaInv
  <2>2. PageFailures(drawing, receipt.changes) = {}
    BY <2>1, ReceiptShown
  <2>3. stage' = "accepted"
    BY <1>3, <2>2 DEF Validate
  <2>4. QED
    BY <1>3, <2>3 DEF Validate, DeltaInv, ComparedIsShown
<1>4. CASE UNCHANGED deltaVars
  BY <1>4 DEF deltaVars, DeltaInv, ComparedIsShown
<1>5. QED
  BY <1>1, <1>2, <1>3, <1>4 DEF DeltaNext

LEMMA DeltaFollows == ASSUME DeltaInv PROVE DeltaFaithful
<1>1. Diagram(compared.base) /\ Diagram(compared.head)
  BY DeltaAssumption DEF DeltaInv
<1>2. ComparedIsShown
  BY DEF DeltaInv
<1>3. stage = "compared" => Comparable(compared) /\ receipt = Receipt(compared)
  BY RefusedUnlessComparable DEF DeltaInv
<1>4. DigestAgrees
  <2> SUFFICES ASSUME stage = "compared" PROVE DigestAgrees
    BY DEF DigestAgrees
  <2>1. Canonical(compared.base) = Canonical(compared.head) =>
          receipt.changes = {} /\ ~receipt.presentationChanged /\ ~receipt.provenanceChanged
    BY <1>1, <1>3, OneFormNoChange
  <2>2. ASSUME NEW sort \in KindSet
        PROVE  LET gone == {c.id : c \in {x \in receipt.changes : x.kind = sort /\ x.status = "removed"}}
                   new  == {c.id : c \in {x \in receipt.changes : x.kind = sort /\ x.status = "added"}}
               IN  Keys(compared.head, sort) = (Keys(compared.base, sort) \ gone) \cup new
    BY <1>3, KeysAccounted
  <2>3. QED
    BY <2>1, <2>2, KindsAre DEF DigestAgrees
<1>5. ReceiptReversible
  <2> SUFFICES ASSUME stage = "compared" PROVE ReceiptReversible
    BY DEF ReceiptReversible
  <2>1. Refusals(Back(compared)) = <<>>
    BY <1>3, ComparableBack, RefusedUnlessComparable
  <2>2. /\ Receipt(Back(compared)).changes = {Reversed(c) : c \in receipt.changes}
        /\ Receipt(Back(compared)).proof = receipt.proof
    BY <1>3, ChangesBack
  <2>3. \A sort \in KindSet :
          FoldFunction(+, 0, receipt.summary[sort]) = Cardinality({c \in receipt.changes : c.kind = sort})
    BY <1>1, <1>3, SummaryCounts
  <2>4. QED
    BY <2>1, <2>2, <2>3, KindsAre DEF ReceiptReversible, Back
<1>6. RepositoryStable
  BY <1>1, IdentityStays DEF RepositoryStable
<1>7. QED
  BY <1>2, <1>4, <1>5, <1>6 DEF DeltaFaithful

\* A comparison that is not refused is faithful to its two diagrams, whichever they are: the
\* page made of its receipt is accepted, one canonical form means no change, the receipt of
\* the pair in the other order says the same, and repositories keep their identity.
THEOREM DeltaStaysFaithful == DeltaSpec => []DeltaFaithful
<1>1. DeltaInit => DeltaInv
  BY DeltaStart
<1>2. DeltaInv /\ [DeltaNext]_deltaVars => DeltaInv'
  BY DeltaStep
<1>3. DeltaInv => DeltaFaithful
  BY DeltaFollows
<1>4. QED
  BY <1>1, <1>2, <1>3, PTL DEF DeltaSpec

-----------------------------------------------------------------------------
(* The inductive invariant                                                 *)

Promoted == {"confirming", "holding", "fetching", "owned", "fencing", "reading", "storing"}
\* Past the last look for a higher generation.
Claiming == {"inspecting", "retiring", "promoting"} \cup Promoted

\* A generation belongs to the process that reserved it, and its directory is
\* reserved until that process opens it.
GensOwned ==
  /\ \A p \in Procs : gen[p] = 0 <=> pc[p] \in {"idle", "acquiring", "reserving"}
  /\ \A p \in Procs : pc[p] = "opening" => op[gen[p]] = "reserved"
  /\ \A p \in Procs : gen[p] # 0 /\ pc[p] # "opening" => op[gen[p]] \notin {"free", "reserved"}
  /\ \A p, q \in Procs : gen[p] = gen[q] /\ gen[p] # 0 => p = q

\* The claim names an operation that was opened; only a dead claim is retired, and
\* whoever was promoted is named until its operation is.
ClaimNamesLive ==
  /\ active # 0 => op[active] \notin {"free", "reserved"}
  /\ \A p \in Procs : pc[p] = "retiring" =>
       key[p] \in Gens /\ op[key[p]] \notin {"free", "reserved", "pending"}
  /\ \A p \in Procs : pc[p] \in Promoted /\ Live(gen[p]) => active = gen[p]

\* No process of a higher generation gets past its fencing, let alone commits, while
\* the operation of a claiming process is pending.
HigherFences ==
  \A p \in Procs : pc[p] \in Claiming /\ Pending(gen[p]) =>
    \A h \in Gens : h > gen[p] =>
      /\ op[h] # "committed"
      /\ \A q \in Procs : gen[q] = h =>
           /\ pc[q] \notin {"reading", "storing"}
           /\ pc[q] = "fencing" => gen[p] \in fence[q]

\* There is a newest state once there is any.
NewestThere == Committed # {} => \E g \in Committed : \A h \in Committed : h <= g

\* What the files hold, but for its age.
Contents == {Content(s) : s \in Readings}
\* What a process is about to replace is still the state, but for its age, unless its
\* operation was fenced or it could not read the newest one and has an older; and what
\* it acknowledges was offered.
BaseCurrent ==
  \A p \in Procs : pc[p] = "storing" =>
    /\ Pending(gen[p]) /\ p \notin missed => /\ base[p].cand = Current.cand
                                             /\ base[p].offered = Current.offered
                                             /\ base[p].acked = Current.acked
    /\ Content(base[p]) \in Contents
    /\ job[p].kind = "ack" => job[p].digest \in base[p].offered \cup base[p].acked

\* A candidate is offered or acknowledged.
Accounted(s) == s.cand # NoCand => s.cand \in s.offered \cup s.acked
CandidatesAccounted ==
  /\ \A g \in Gens : Accounted(saved[g])
  /\ \A p \in Procs : Accounted(base[p])

ClaimInv == /\ GensOwned /\ ClaimNamesLive /\ HigherFences /\ NewestThere
            /\ BaseCurrent /\ CandidatesAccounted

-----------------------------------------------------------------------------
(* States, and the ways a call ends                                        *)

LEMMA StateTypes ==
  /\ emptyState \in CacheState /\ NoJob \in Jobs
  /\ \A s \in CacheState :
       /\ AfterFailure(s) \in CacheState
       /\ \A d \in Digests \cup {NoCand} : AfterCheck(s, d) \in CacheState
       /\ \A d \in Digests : Acknowledged(s, d) \in CacheState
<1>1. emptyState \in CacheState /\ NoJob \in Jobs
  BY DEF emptyState, CacheState, NoJob, Jobs
<1>2. ASSUME NEW s \in CacheState PROVE AfterFailure(s) \in CacheState
  BY DEF CacheState, AfterFailure
<1>3. ASSUME NEW s \in CacheState, NEW d \in Digests PROVE Acknowledged(s, d) \in CacheState
  BY DEF CacheState, Acknowledged
<1>4. ASSUME NEW s \in CacheState, NEW d \in Digests \cup {NoCand}
      PROVE  AfterCheck(s, d) \in CacheState
  BY DEF CacheState, AfterCheck, AfterFailure
<1>5. QED
  BY <1>1, <1>2, <1>3, <1>4

(* A call ends, its operation cancelled or left as it is.                  *)
Leaves(p) ==
  /\ op' \in {op, Cancelled(gen[p])}
  /\ Goto(p, "idle") /\ Forget(p)
  /\ UNCHANGED <<saved, active, retired, told, lapsed>>

LEMMA LoseLeaves == ASSUME NEW p, NEW quiet, Lose(p, quiet) PROVE Leaves(p)
BY DEF Lose, Leaves, answers

LEMMA CancelledType ==
  ASSUME TypeOK, NEW g \in 0..MaxGen
  PROVE  /\ Cancelled(g) \in [Gens -> {"free", "reserved", "pending", "stale"} \cup Settled]
         /\ \A h \in Gens : Cancelled(g)[h] = IF h = g /\ Pending(g) THEN "cancelled" ELSE op[h]
BY DEF TypeOK, Cancelled, Pending, Gens, Settled

-----------------------------------------------------------------------------
(* Type correctness                                                        *)

LEMMA InitType == Init => TypeOK
<1>1. Init => missed \subseteq Procs /\ lapsed \in BOOLEAN
  BY DEF Init
<1>2. QED
  BY <1>1, UpdateAssumption, StateTypes DEF Init, TypeOK

LEMMA Aged ==
  ASSUME NEW f \in [Gens -> CacheState], NEW g
  PROVE  [f EXCEPT ![g].fresh = FALSE] \in [Gens -> CacheState]
BY DEF CacheState

LEMMA LeavesType ==
  ASSUME TypeOK, NEW p \in Procs, Leaves(p), notified' \subseteq Digests PROVE TypeOK'
<1>1. op' \in [Gens -> {"free", "reserved", "pending", "stale"} \cup Settled]
  BY CancelledType DEF TypeOK, Leaves
<1>2. QED
  BY <1>1, StateTypes, UpdateAssumption DEF TypeOK, Leaves, Goto, Forget

LEMMA ReadingsType ==
  ASSUME TypeOK
  PROVE  \A s \in Readings : s \in CacheState /\ News(s) \subseteq Digests
<1>1. \A s \in Readings : s \in CacheState
  BY StateTypes DEF TypeOK, Readings, Committed
<1>2. QED
  BY <1>1 DEF News, CacheState

LEMMA NewestIs ==
  ASSUME NEW S \in SUBSET Gens, NEW g \in S, \A h \in S : h <= g
  PROVE  Newest(S) = g
<1>1. \A k \in S : (\A h \in S : h <= k) => k = g
  BY DEF Gens
<1>2. QED
  BY <1>1 DEF Newest

LEMMA NewestCommitted ==
  ASSUME NewestThere PROVE Committed = {} \/ Newest(Committed) \in Committed
BY NewestIs DEF NewestThere, Committed

LEMMA CurrentRead == ASSUME NewestThere PROVE Current \in Readings
BY NewestCommitted DEF Current, Readings

LEMMA StepType == ASSUME TypeOK, ClaimNamesLive, [Next]_vars PROVE TypeOK'
<1> USE DEF Goto, dirs, local, answers
<1>1. \A s \in Readings : s \in CacheState /\ News(s) \subseteq Digests
  BY ReadingsType
<1>2. ASSUME NEW p \in Procs, NEW quiet, Lose(p, quiet) PROVE TypeOK'
  BY <1>1, <1>2, LoseLeaves, LeavesType DEF Lose, TypeOK
<1>3. ASSUME NEW p \in Procs, Start(p) PROVE TypeOK'
  BY <1>1, <1>3 DEF Start, TypeOK
<1>4. ASSUME NEW p \in Procs, Acquire(p) PROVE TypeOK'
  BY <1>2, <1>4 DEF Acquire, TypeOK
<1>5. ASSUME NEW p \in Procs, Reserve(p) PROVE TypeOK'
  BY <1>5, UpdateAssumption DEF Reserve, TypeOK, Gens
<1>6. ASSUME NEW p \in Procs, Exhausted(p) \/ Crash(p) \/ GiveUp(p) PROVE TypeOK'
  BY <1>6, LeavesType DEF Exhausted, Crash, GiveUp, TypeOK, Leaves
<1>7. ASSUME NEW p \in Procs, Open(p) PROVE TypeOK'
  BY <1>7 DEF Open, TypeOK
<1>8. ASSUME NEW p \in Procs, Contend(p) PROVE TypeOK'
  <2>1. CASE Lose(p, FALSE)
    BY <2>1, <1>2
  <2>2. CASE ~Lose(p, FALSE)
    <3>1. tries' \in [Procs -> 0..MaxTries]
      <4>1. tries' = [tries EXCEPT ![p] = @ - 1] /\ tries[p] > 0
        BY <1>8, <2>2 DEF Contend
      <4>2. tries[p] - 1 \in 0..MaxTries
        BY <4>1, UpdateAssumption DEF TypeOK
      <4>3. QED
        BY <4>1, <4>2 DEF TypeOK
    <3>2. QED
      BY <1>8, <2>2, <3>1 DEF Contend, TypeOK
  <2>3. QED
    BY <2>1, <2>2
<1>9. ASSUME NEW p \in Procs, Inspect(p) PROVE TypeOK'
  <2>1. CASE Lose(p, FALSE)
    BY <2>1, <1>2
  <2>2. CASE ~Lose(p, FALSE)
    <3>1. CASE Goto(p, "promoting") /\ UNCHANGED <<dirs, local, answers>>
      BY <3>1 DEF TypeOK, Goto, dirs, local, answers
    <3>2. CASE /\ key' = [key EXCEPT ![p] = active] /\ Goto(p, "retiring")
               /\ UNCHANGED <<dirs, job, gen, tries, fence, base, missed, found, answers>>
      BY <3>2 DEF TypeOK, Goto, dirs, answers
    <3>3. QED
      BY <1>9, <2>2, <3>1, <3>2 DEF Inspect
  <2>3. QED
    BY <2>1, <2>2
<1>10. ASSUME NEW p \in Procs, Retire(p) PROVE TypeOK'
  <2>1. CASE Leaves(p) /\ UNCHANGED notified
    BY <2>1, LeavesType DEF TypeOK
  <2>2. CASE key' = [key EXCEPT ![p] = 0] /\ UNCHANGED <<job, gen, tries, fence, base, missed, found>>
    <3>1. active' \in 0..MaxGen /\ retired' \subseteq Gens
      BY <1>10, UpdateAssumption DEF Retire, Retirable, TypeOK, ClaimNamesLive, At
    <3>2. key' \in [Procs -> 0..MaxGen]
      BY <2>2, UpdateAssumption DEF TypeOK
    <3>3. QED
      BY <1>10, <2>2, <3>1, <3>2 DEF Retire, TypeOK
  <2>3. QED
    BY <1>10, <2>1, <2>2 DEF Retire, Leaves
<1>11. ASSUME NEW p \in Procs, Promote(p) PROVE TypeOK'
  BY <1>11 DEF Promote, TypeOK
<1>12. ASSUME NEW p \in Procs, Confirm(p) PROVE TypeOK'
  <2>1. CASE Lose(p, FALSE)
    BY <2>1, <1>2
  <2>2. CASE ~Lose(p, FALSE)
    <3>1. tries' \in [Procs -> 0..MaxTries]
      <4>1. tries' = [tries EXCEPT ![p] = MaxTries]
        BY <1>12, <2>2 DEF Confirm
      <4>2. MaxTries \in 0..MaxTries
        BY UpdateAssumption
      <4>3. QED
        BY <4>1, <4>2 DEF TypeOK
    <3>2. QED
      BY <1>12, <2>2, <3>1 DEF Confirm, TypeOK
  <2>3. QED
    BY <2>1, <2>2
<1>13. ASSUME NEW p \in Procs, Recheck(p) PROVE TypeOK'
  BY <1>2, <1>13 DEF Recheck, TypeOK
<1>14. ASSUME NEW p \in Procs, Fetch(p) PROVE TypeOK'
  BY <1>14 DEF Fetch, TypeOK
<1>15. ASSUME NEW p \in Procs, Verify(p) PROVE TypeOK'
  <2>1. CASE Lose(p, TRUE)
    BY <2>1, <1>2
  <2>2. CASE ~Lose(p, TRUE)
    <3>1. fence' \in [Procs -> SUBSET Gens]
      <4>1. fence' = [fence EXCEPT ![p] = Lower(gen[p])]
        BY <1>15, <2>2 DEF Verify
      <4>2. Lower(gen[p]) \subseteq Gens
        BY DEF Lower
      <4>3. QED
        BY <4>1, <4>2 DEF TypeOK
    <3>2. QED
      BY <1>15, <2>2, <3>1 DEF Verify, TypeOK
  <2>3. QED
    BY <2>1, <2>2
<1>16. ASSUME NEW p \in Procs, Fence(p) PROVE TypeOK'
  BY <1>16 DEF Fence, TypeOK, Settled
<1>17. ASSUME NEW p \in Procs, VerifyAgain(p) PROVE TypeOK'
  BY <1>2, <1>17 DEF VerifyAgain, TypeOK
<1>18. ASSUME NEW p \in Procs, Read(p) PROVE TypeOK'
  BY <1>1, <1>2, <1>18 DEF Read, TypeOK
<1>19. ASSUME NEW p \in Procs, Store(p) PROVE TypeOK'
  <2>1. job[p].kind = "ack" => job[p].digest \in Digests
    BY DEF TypeOK, Jobs
  <2>2. Mutated(p) \in CacheState
    <3>1. CASE job[p].kind = "ack"
      BY <2>1, <3>1, StateTypes DEF Mutated, TypeOK
    <3>2. CASE job[p].kind # "ack"
      <4>1. job[p].kind = "check" /\ base[p] \in CacheState /\ found[p] \in Digests \cup {NoCand, Failed}
        BY <3>2 DEF TypeOK, Jobs
      <4>2. CASE found[p] = Failed
        BY <4>1, <4>2, StateTypes DEF Mutated
      <4>3. CASE found[p] # Failed
        BY <4>1, <4>3, StateTypes DEF Mutated
      <4>4. QED
        BY <4>2, <4>3
    <3>3. QED
      BY <3>1, <3>2
  <2>3. News(Mutated(p)) \subseteq Digests
    BY <2>2 DEF News, CacheState
  <2>4. told' \subseteq Digests /\ notified' \subseteq Digests
    BY <1>19, <2>1, <2>3 DEF Store, TypeOK
  <2>5. op' \in [Gens -> {"free", "reserved", "pending", "stale"} \cup Settled]
    BY <1>19 DEF Store, TypeOK, Settled
  <2>6. saved' \in [Gens -> CacheState]
    BY <1>19, <2>2 DEF Store, TypeOK
  <2>7. lapsed' \in BOOLEAN
    BY <1>19 DEF Store, TypeOK
  <2>8. missed' \subseteq Procs
    BY <1>19 DEF Store, Forget, TypeOK
  <2>9. QED
    BY <1>19, <2>4, <2>5, <2>6, <2>7, <2>8, StateTypes, UpdateAssumption DEF Store, Forget, TypeOK
<1>20. ASSUME NEW g \in Gens, Expire(g) PROVE TypeOK'
  BY <1>20 DEF Expire, TypeOK
<1>21. CASE Elapse
  <2>1. saved' \in [Gens -> CacheState]
    <3>1. PICK g \in Committed : saved' = [saved EXCEPT ![g].fresh = FALSE]
      BY <1>21 DEF Elapse
    <3>2. QED
      BY <3>1, Aged DEF TypeOK
  <2>2. QED
    BY <1>21, <2>1 DEF Elapse, TypeOK
<1>22. CASE UNCHANGED vars
  BY <1>22 DEF vars, TypeOK
<1>23. QED
  BY <1>3, <1>4, <1>5, <1>6, <1>7, <1>8, <1>9, <1>10, <1>11, <1>12, <1>13, <1>14,
     <1>15, <1>16, <1>17, <1>18, <1>19, <1>20, <1>21, <1>22 DEF Next

-----------------------------------------------------------------------------
(* The steps of a call, by what they do to the operations                  *)

Opened == {"contending"} \cup Claiming
\* A step inside a call: its own operation and the state stay as they are.
Inner(p) ==
  /\ pc[p] \in Opened /\ \E l \in Opened : Goto(p, l)
  /\ UNCHANGED <<op, saved, job, gen>>

LEMMA InnerSteps ==
  ASSUME NEW p \in Procs,
         \/ Contend(p) \/ Inspect(p) \/ Retire(p) \/ Promote(p) \/ Confirm(p)
         \/ Recheck(p) \/ Fetch(p) \/ Verify(p) \/ VerifyAgain(p) \/ Read(p)
  PROVE  Inner(p) \/ Leaves(p)
<1> USE DEF Inner, Opened, Claiming, Promoted, At, dirs, local, answers
<1>1. CASE Contend(p)
  BY <1>1, LoseLeaves DEF Contend
<1>2. CASE Inspect(p)
  BY <1>2, LoseLeaves DEF Inspect
<1>3. CASE Retire(p)
  BY <1>3 DEF Retire, Leaves
<1>4. CASE Promote(p)
  BY <1>4 DEF Promote
<1>5. CASE Confirm(p)
  BY <1>5, LoseLeaves DEF Confirm
<1>6. CASE Recheck(p)
  BY <1>6, LoseLeaves DEF Recheck
<1>7. CASE Fetch(p)
  BY <1>7 DEF Fetch
<1>8. CASE Verify(p)
  BY <1>8, LoseLeaves DEF Verify
<1>9. CASE VerifyAgain(p)
  BY <1>9, LoseLeaves DEF VerifyAgain
<1>10. CASE Read(p)
  BY <1>10, LoseLeaves DEF Read
<1>11. QED
  BY <1>1, <1>2, <1>3, <1>4, <1>5, <1>6, <1>7, <1>8, <1>9, <1>10

LEMMA OuterSteps ==
  ASSUME NEW p \in Procs, Acquire(p) \/ Exhausted(p) \/ Crash(p) \/ GiveUp(p)
  PROVE  \/ Leaves(p)
         \/ pc[p] = "acquiring" /\ Goto(p, "reserving") /\ UNCHANGED <<dirs, local, answers>>
<1>1. CASE Acquire(p)
  BY <1>1, LoseLeaves DEF Acquire, At
<1>2. CASE Exhausted(p) \/ Crash(p) \/ GiveUp(p)
  BY <1>2 DEF Exhausted, Crash, GiveUp, Leaves, dirs, answers
<1>3. QED
  BY <1>1, <1>2

LEMMA LeavesOp ==
  ASSUME TypeOK, NEW p \in Procs, Leaves(p), NEW g \in Gens
  PROVE  op'[g] = op[g] \/ (g = gen[p] /\ Pending(g) /\ op'[g] = "cancelled")
BY CancelledType DEF TypeOK, Leaves

-----------------------------------------------------------------------------
(* Every generation has one owner                                          *)

LEMMA StepGensOwned ==
  ASSUME TypeOK, GensOwned, [Next]_vars PROVE GensOwned'
<1> USE DEF GensOwned, Goto
<1>1. ASSUME NEW p \in Procs, Leaves(p) PROVE GensOwned'
  <2>1. \A q \in Procs : q # p => gen'[q] = gen[q] /\ pc'[q] = pc[q]
    BY <1>1 DEF Leaves, Forget, TypeOK
  <2>2. gen'[p] = 0 /\ pc'[p] = "idle"
    BY <1>1 DEF Leaves, Forget, TypeOK
  <2>3. \A q \in Procs : q # p /\ gen[q] # 0 => op'[gen[q]] = op[gen[q]]
    BY <1>1, LeavesOp DEF TypeOK, Gens
  <2>4. QED
    BY <2>1, <2>2, <2>3 DEF TypeOK
<1>2. ASSUME NEW p \in Procs, Inner(p) PROVE GensOwned'
  BY <1>2 DEF Inner, Opened, Claiming, Promoted, TypeOK
<1>3. ASSUME NEW p \in Procs, Start(p) PROVE GensOwned'
  BY <1>3 DEF Start, At, dirs, TypeOK
<1>4. ASSUME NEW p \in Procs, pc[p] = "acquiring", Goto(p, "reserving"), UNCHANGED <<dirs, local, answers>>
      PROVE  GensOwned'
  BY <1>4 DEF dirs, local, TypeOK
<1>5. ASSUME NEW p \in Procs, Reserve(p) PROVE GensOwned'
  <2>1. PICK g \in Gens : /\ op[g] = "free" /\ op' = [op EXCEPT ![g] = "reserved"]
                          /\ gen' = [gen EXCEPT ![p] = g]
    BY <1>5 DEF Reserve
  <2>2. \A q \in Procs : gen[q] # g
    BY <2>1, UpdateAssumption DEF Gens
  <2>3. QED
    BY <1>5, <2>1, <2>2 DEF Reserve, At, TypeOK, Gens
<1>6. ASSUME NEW p \in Procs, Open(p) PROVE GensOwned'
  BY <1>6 DEF Open, At, local, TypeOK, Gens
<1>7. ASSUME NEW p \in Procs, Fence(p) PROVE GensOwned'
  <2>1. \A g \in Gens : op'[g] # op[g] => Pending(g) /\ op'[g] = "fenced"
    BY <1>7 DEF Fence, TypeOK
  <2>2. QED
    BY <1>7, <2>1 DEF Fence, Pending, TypeOK, Gens
<1>8. ASSUME NEW p \in Procs, Store(p) PROVE GensOwned'
  <2>1. \A g \in Gens : op'[g] # op[g] => Pending(g) /\ op'[g] = "committed"
    BY <1>8 DEF Store, TypeOK
  <2>2. gen' = [gen EXCEPT ![p] = 0] /\ pc' = [pc EXCEPT ![p] = "idle"]
    BY <1>8 DEF Store, Forget
  <2>3. \A q \in Procs : gen[q] # 0 =>
          gen[q] \in Gens /\ op[gen[q]] # "free" /\ (op'[gen[q]] = op[gen[q]] \/ Pending(gen[q]))
    BY <2>1 DEF TypeOK, Gens
  <2>4. \A q \in Procs : q # p => gen'[q] = gen[q] /\ pc'[q] = pc[q]
    BY <2>2 DEF TypeOK
  <2>5. gen'[p] = 0 /\ pc'[p] = "idle"
    BY <2>2 DEF TypeOK
  <2>6. QED
    BY <2>1, <2>3, <2>4, <2>5 DEF Pending
<1>9. ASSUME NEW g \in Gens, Expire(g) PROVE GensOwned'
  BY <1>9 DEF Expire, Live, local, TypeOK, Gens
<1>10. CASE Elapse \/ UNCHANGED vars
  BY <1>10 DEF Elapse, vars, dirs, local, TypeOK
<1>11. QED
  BY <1>1, <1>2, <1>3, <1>4, <1>5, <1>6, <1>7, <1>8, <1>9, <1>10, InnerSteps, OuterSteps DEF Next

-----------------------------------------------------------------------------
(* A live claim is its owner's                                             *)

\* A step of a promoted process that touches neither the claim nor its key.
Promotes(p) ==
  /\ pc[p] \in Promoted /\ \E l \in Promoted : Goto(p, l)
  /\ UNCHANGED <<op, saved, active, gen, key>>

LEMMA PromotedSteps ==
  ASSUME NEW p \in Procs,
         \/ Confirm(p) \/ Recheck(p) \/ Fetch(p) \/ Verify(p) \/ VerifyAgain(p) \/ Read(p)
  PROVE  Promotes(p) \/ Leaves(p)
<1> USE DEF Promotes, Promoted, At, dirs, local, answers
<1>1. CASE Confirm(p)
  BY <1>1, LoseLeaves DEF Confirm
<1>2. CASE Recheck(p)
  BY <1>2, LoseLeaves DEF Recheck
<1>3. CASE Fetch(p)
  BY <1>3 DEF Fetch
<1>4. CASE Verify(p)
  BY <1>4, LoseLeaves DEF Verify
<1>5. CASE VerifyAgain(p)
  BY <1>5, LoseLeaves DEF VerifyAgain
<1>6. CASE Read(p)
  BY <1>6, LoseLeaves DEF Read
<1>7. QED
  BY <1>1, <1>2, <1>3, <1>4, <1>5, <1>6

\* No operation comes to life but one that was reserved, and none is reserved twice.
OpsAge ==
  \A g \in Gens :
    /\ op[g] \notin {"free", "reserved"} => op'[g] \notin {"free", "reserved"}
    /\ op[g] \notin {"free", "reserved", "pending"} => op'[g] \notin {"free", "reserved", "pending"}

LEMMA OwnGeneration ==
  ASSUME TypeOK, GensOwned, NEW p \in Procs, pc[p] \in Opened
  PROVE  gen[p] \in Gens /\ op[gen[p]] \notin {"free", "reserved"}
<1>1. gen[p] # 0 /\ pc[p] # "opening"
  BY DEF GensOwned, Opened, Claiming, Promoted
<1>2. gen[p] \in 0..MaxGen
  BY DEF TypeOK
<1>3. QED
  BY <1>1, <1>2, UpdateAssumption DEF GensOwned, Gens

LEMMA ClaimKept ==
  ASSUME TypeOK, GensOwned, ClaimNamesLive, OpsAge,
         active' = active,
         \A p \in Procs : pc'[p] = "retiring" => pc[p] = "retiring" /\ key'[p] = key[p],
         \A p \in Procs : pc'[p] \in Promoted => pc[p] \in Promoted /\ gen'[p] = gen[p]
  PROVE  ClaimNamesLive'
<1>1. active # 0 => active \in Gens
  BY DEF TypeOK, Gens
<1>2. \A p \in Procs : pc[p] \in Promoted => gen[p] \in Gens /\ op[gen[p]] \notin {"free", "reserved"}
  BY OwnGeneration DEF Opened, Claiming
<1>3. \A p \in Procs : pc[p] \in Promoted /\ Live(gen[p])' /\ gen'[p] = gen[p] => Live(gen[p])
  BY <1>2 DEF OpsAge, Live
<1>4. QED
  BY <1>1, <1>2, <1>3 DEF ClaimNamesLive, OpsAge, Live

LEMMA StepClaimNamesLive ==
  ASSUME TypeOK, GensOwned, ClaimNamesLive, [Next]_vars PROVE ClaimNamesLive'
<1> USE DEF Goto, Promoted
<1>1. ASSUME NEW p \in Procs, Leaves(p) PROVE ClaimNamesLive'
  <2>1. OpsAge
    BY <1>1, LeavesOp DEF OpsAge
  <2>2. \A q \in Procs : /\ q # p => pc'[q] = pc[q] /\ gen'[q] = gen[q] /\ key'[q] = key[q]
                         /\ pc'[p] = "idle"
    BY <1>1 DEF Leaves, Forget, TypeOK
  <2>3. QED
    BY <1>1, <2>1, <2>2, ClaimKept DEF Leaves
<1>2. ASSUME NEW p \in Procs, Promotes(p) PROVE ClaimNamesLive'
  BY <1>2, ClaimKept DEF Promotes, OpsAge, TypeOK
<1>3. ASSUME NEW p \in Procs, Start(p) PROVE ClaimNamesLive'
  BY <1>3, ClaimKept DEF Start, OpsAge, At, dirs, TypeOK
<1>4. ASSUME NEW p \in Procs, pc[p] = "acquiring", Goto(p, "reserving"), UNCHANGED <<dirs, local, answers>>
      PROVE  ClaimNamesLive'
  BY <1>4, ClaimKept DEF OpsAge, dirs, local, TypeOK
<1>5. ASSUME NEW p \in Procs, Reserve(p) PROVE ClaimNamesLive'
  <2>1. PICK g \in Gens : /\ op[g] = "free" /\ op' = [op EXCEPT ![g] = "reserved"]
                          /\ gen' = [gen EXCEPT ![p] = g]
    BY <1>5 DEF Reserve
  <2>2. OpsAge
    BY <2>1 DEF OpsAge, TypeOK
  <2>3. QED
    BY <1>5, <2>1, <2>2, ClaimKept DEF Reserve, At, TypeOK
<1>6. ASSUME NEW p \in Procs, Open(p) PROVE ClaimNamesLive'
  <2>1. OpsAge
    BY <1>6 DEF Open, At, OpsAge, GensOwned, TypeOK
  <2>2. QED
    BY <1>6, <2>1, ClaimKept DEF Open, At, local, TypeOK
<1>7. ASSUME NEW p \in Procs, Contend(p), ~Leaves(p) PROVE ClaimNamesLive'
  BY <1>7, ClaimKept, LoseLeaves DEF Contend, At, OpsAge, dirs, TypeOK
<1>8. ASSUME NEW p \in Procs, Inspect(p), ~Leaves(p) PROVE ClaimNamesLive'
  <2>1. CASE Goto(p, "promoting") /\ UNCHANGED <<dirs, local, answers>>
    BY <1>8, <2>1, ClaimKept DEF Inspect, At, OpsAge, dirs, local, TypeOK
  <2>2. CASE /\ active # 0 /\ ~Busy /\ key' = [key EXCEPT ![p] = active] /\ Goto(p, "retiring")
             /\ UNCHANGED <<dirs, gen>>
    <3>1. active \in Gens /\ op[active] \notin {"free", "reserved", "pending"}
      BY <2>2 DEF Busy, Live, ClaimNamesLive, TypeOK, Gens
    <3>2. QED
      BY <1>8, <2>2, <3>1 DEF ClaimNamesLive, Live, dirs, TypeOK
  <2>3. QED
    BY <1>8, <2>1, <2>2, LoseLeaves DEF Inspect
<1>9. ASSUME NEW p \in Procs, Retire(p), ~Leaves(p) PROVE ClaimNamesLive'
  <2>1. CASE Retirable(p) /\ active' = 0
    <3>1. /\ active = key[p] /\ active \in Gens /\ ~Live(active)
      BY <1>9, <2>1 DEF Retire, Retirable, At, ClaimNamesLive, Live
    <3>2. \A q \in Procs : pc[q] \in Promoted => ~Live(gen[q])
      BY <3>1 DEF ClaimNamesLive
    <3>3. UNCHANGED <<op, gen>> /\ pc' = [pc EXCEPT ![p] = "contending"] /\ key' = [key EXCEPT ![p] = 0]
      BY <1>9, <2>1 DEF Retire, Leaves
    <3>4. QED
      BY <2>1, <3>2, <3>3 DEF ClaimNamesLive, Live, TypeOK
  <2>2. CASE UNCHANGED active
    <3>1. UNCHANGED <<op, gen>> /\ pc' = [pc EXCEPT ![p] = "contending"] /\ key' = [key EXCEPT ![p] = 0]
      BY <1>9, <2>2 DEF Retire, Leaves, answers
    <3>2. QED
      BY <2>2, <3>1, ClaimKept DEF OpsAge, TypeOK
  <2>3. QED
    BY <1>9, <2>1, <2>2 DEF Retire
<1>10. ASSUME NEW p \in Procs, Promote(p) PROVE ClaimNamesLive'
  <2>1. CASE Vacant /\ active' = gen[p] /\ Goto(p, "confirming")
    <3>1. UNCHANGED <<op, gen, key>> /\ gen[p] \in Gens /\ op[gen[p]] \notin {"free", "reserved"}
      BY <1>10, OwnGeneration DEF Promote, At, local, Opened, Claiming
    <3>2. \A q \in Procs : pc[q] \in Promoted => gen[q] # 0
      BY DEF GensOwned
    <3>3. \A q \in Procs : pc[q] \in Promoted => ~Live(gen[q])
      BY <2>1, <3>2 DEF ClaimNamesLive, Vacant
    <3>4. QED
      BY <2>1, <3>1, <3>3 DEF ClaimNamesLive, Live, TypeOK
  <2>2. CASE ~Vacant
    BY <1>10, <2>2, ClaimKept DEF Promote, At, OpsAge, local, TypeOK
  <2>3. QED
    BY <1>10, <2>1, <2>2 DEF Promote
<1>11. ASSUME NEW p \in Procs, Fence(p) PROVE ClaimNamesLive'
  <2>1. OpsAge
    BY <1>11 DEF Fence, OpsAge, Pending, TypeOK
  <2>2. QED
    BY <1>11, <2>1, ClaimKept DEF Fence
<1>12. ASSUME NEW p \in Procs, Store(p) PROVE ClaimNamesLive'
  <2>1. OpsAge
    BY <1>12 DEF Store, OpsAge, TypeOK
  <2>2. \A q \in Procs : /\ q # p => pc'[q] = pc[q] /\ gen'[q] = gen[q] /\ key'[q] = key[q]
                         /\ pc'[p] = "idle"
    BY <1>12 DEF Store, Forget, TypeOK
  <2>3. QED
    BY <1>12, <2>1, <2>2, ClaimKept DEF Store
<1>13. ASSUME NEW g \in Gens, Expire(g) PROVE ClaimNamesLive'
  <2>1. OpsAge
    BY <1>13 DEF Expire, Live, OpsAge, TypeOK
  <2>2. QED
    BY <1>13, <2>1, ClaimKept DEF Expire, local
<1>14. CASE Elapse \/ UNCHANGED vars
  <2>1. OpsAge
    BY <1>14 DEF Elapse, vars, dirs, OpsAge
  <2>2. QED
    BY <1>14, <2>1, ClaimKept DEF Elapse, vars, dirs, local
<1>15. QED
  BY <1>1, <1>2, <1>3, <1>4, <1>5, <1>6, <1>7, <1>8, <1>9, <1>10, <1>11, <1>12, <1>13, <1>14,
     PromotedSteps, OuterSteps DEF Next

-----------------------------------------------------------------------------
(* A higher generation fences before it commits                            *)

Publishing == {"fencing", "reading", "storing"}

LEMMA FencesKept ==
  ASSUME TypeOK, GensOwned, HigherFences,
         \A g \in Gens : op'[g] = "committed" => op[g] = "committed",
         \A p \in Procs : pc'[p] \in Claiming => /\ pc[p] \in Claiming /\ gen'[p] = gen[p]
                                                 /\ Pending(gen[p])' => Pending(gen[p]),
         \A q \in Procs : pc'[q] \in Publishing =>
           pc[q] = pc'[q] /\ gen'[q] = gen[q] /\ fence'[q] = fence[q]
  PROVE  HigherFences'
<1> SUFFICES ASSUME NEW p \in Procs, pc'[p] \in Claiming, Pending(gen[p])',
                    NEW h \in Gens, h > gen'[p]
             PROVE  /\ op'[h] # "committed"
                    /\ \A q \in Procs : gen'[q] = h =>
                         /\ pc'[q] \notin {"reading", "storing"}
                         /\ pc'[q] = "fencing" => gen'[p] \in fence'[q]
  BY DEF HigherFences
<1>1. pc[p] \in Claiming /\ gen'[p] = gen[p] /\ Pending(gen[p])
  BY DEF Pending
<1>2. QED
  BY <1>1 DEF HigherFences, Publishing

\* Operations only end, and none is committed.
OpsEnd ==
  /\ \A g \in Gens : op'[g] = "committed" => op[g] = "committed"
  /\ \A p \in Procs : pc[p] \in Claiming /\ op'[gen[p]] \in {"pending", "stale"} => Pending(gen[p])

LEMMA OthersFence ==
  ASSUME TypeOK, GensOwned, HigherFences, OpsEnd, NEW p \in Procs,
         pc'[p] \in Claiming => pc[p] \in Claiming /\ gen'[p] = gen[p],
         pc'[p] \notin Publishing,
         \A q \in Procs : q # p => pc'[q] = pc[q] /\ gen'[q] = gen[q] /\ fence'[q] = fence[q]
  PROVE  HigherFences'
BY FencesKept DEF OpsEnd, Pending

LEMMA StepHigherFences ==
  ASSUME TypeOK, GensOwned, HigherFences, [Next]_vars PROVE HigherFences'
<1> USE DEF Goto, Promoted, Claiming, Publishing
<1>1. ASSUME NEW p \in Procs, Leaves(p) PROVE HigherFences'
  <2>1. \A g \in Gens : op'[g] = op[g] \/ (Pending(g) /\ op'[g] = "cancelled")
    BY <1>1, LeavesOp
  <2>2. OpsEnd
    BY <2>1, OwnGeneration DEF OpsEnd, Pending, Opened
  <2>3. \A q \in Procs : q # p => pc'[q] = pc[q] /\ gen'[q] = gen[q] /\ fence'[q] = fence[q]
    BY <1>1 DEF Leaves, Forget, TypeOK
  <2>4. pc'[p] = "idle"
    BY <1>1 DEF Leaves, TypeOK
  <2>5. QED
    BY <2>2, <2>3, <2>4, OthersFence
<1>2. ASSUME NEW p \in Procs, Start(p) PROVE HigherFences'
  BY <1>2, OthersFence DEF Start, At, OpsEnd, Pending, dirs, TypeOK
<1>3. ASSUME NEW p \in Procs, pc[p] = "acquiring", Goto(p, "reserving"), UNCHANGED <<dirs, local, answers>>
      PROVE  HigherFences'
  BY <1>3, OthersFence DEF OpsEnd, Pending, dirs, local, TypeOK
<1>4. ASSUME NEW p \in Procs, Reserve(p) PROVE HigherFences'
  <2>1. PICK g \in Gens : /\ op[g] = "free" /\ op' = [op EXCEPT ![g] = "reserved"]
                          /\ gen' = [gen EXCEPT ![p] = g]
    BY <1>4 DEF Reserve
  <2>2. OpsEnd
    BY <2>1 DEF OpsEnd, Pending, TypeOK
  <2>3. QED
    BY <1>4, <2>1, <2>2, OthersFence DEF Reserve, At, TypeOK
<1>5. ASSUME NEW p \in Procs, Open(p) PROVE HigherFences'
  <2>1. \A q \in Procs : pc[q] \in Claiming => gen[q] \in Gens /\ gen[q] # gen[p]
    BY <1>5, OwnGeneration DEF Open, At, GensOwned, Opened
  <2>2. OpsEnd
    BY <1>5, <2>1 DEF Open, OpsEnd, Pending, TypeOK
  <2>3. QED
    BY <1>5, <2>2, OthersFence DEF Open, At, local, TypeOK
<1>6. ASSUME NEW p \in Procs, Contend(p), ~Leaves(p) PROVE HigherFences'
  <2>1. /\ ~Superseded(gen[p]) /\ UNCHANGED <<dirs, gen, fence>> /\ pc' = [pc EXCEPT ![p] = "inspecting"]
    BY <1>6, LoseLeaves DEF Contend
  <2>2. \A h \in Gens : h > gen[p] => op[h] = "free" /\ \A q \in Procs : gen[q] # h
    <3>1. \A h \in Gens : h > gen[p] => op[h] = "free"
      BY <2>1 DEF Superseded
    <3>2. \A q \in Procs : gen[q] # 0 => op[gen[q]] # "free"
      BY DEF GensOwned
    <3>3. QED
      BY <3>1, <3>2, UpdateAssumption DEF Gens
  <2>3. QED
    BY <2>1, <2>2 DEF HigherFences, Pending, dirs, TypeOK
<1>7. ASSUME NEW p \in Procs, \/ Inspect(p) \/ Retire(p) \/ Promote(p) \/ Confirm(p)
                              \/ Recheck(p) \/ Fetch(p), ~Leaves(p)
      PROVE  HigherFences'
  <2>1. /\ UNCHANGED <<op, gen, fence>> /\ pc[p] \in Claiming
        /\ \E l \in {"contending"} \cup (Claiming \ Publishing) : pc' = [pc EXCEPT ![p] = l]
    <3>1. CASE Inspect(p)
      BY <1>7, <3>1, LoseLeaves DEF Inspect, At, dirs, local
    <3>2. CASE Retire(p)
      BY <1>7, <3>2 DEF Retire, At, Leaves, answers
    <3>3. CASE Promote(p)
      BY <3>3 DEF Promote, At, local
    <3>4. CASE Confirm(p)
      BY <1>7, <3>4, LoseLeaves DEF Confirm, At, dirs
    <3>5. CASE Recheck(p)
      BY <1>7, <3>5, LoseLeaves DEF Recheck, At, dirs, local
    <3>6. CASE Fetch(p)
      BY <3>6 DEF Fetch, At, dirs
    <3>7. QED
      BY <1>7, <3>1, <3>2, <3>3, <3>4, <3>5, <3>6
  <2>2. OpsEnd
    BY <2>1 DEF OpsEnd, Pending
  <2>3. QED
    BY <2>1, <2>2, OthersFence DEF TypeOK
<1>8. ASSUME NEW p \in Procs, Verify(p), ~Leaves(p) PROVE HigherFences'
  <2>1. /\ UNCHANGED <<op, gen>> /\ pc[p] = "owned" /\ pc' = [pc EXCEPT ![p] = "fencing"]
        /\ fence' = [fence EXCEPT ![p] = Lower(gen[p])]
    BY <1>8, LoseLeaves DEF Verify, At, dirs
  <2>2. \A q \in Procs : pc[q] \in Claiming => gen[q] \in Gens
    BY OwnGeneration DEF Opened
  <2>3. QED
    BY <2>1, <2>2 DEF HigherFences, Lower, Pending, TypeOK, Gens
<1>9. ASSUME NEW p \in Procs, Fence(p) PROVE HigherFences'
  <2>1. PICK h \in fence[p] : /\ op' = IF Pending(h) THEN [op EXCEPT ![h] = "fenced"] ELSE op
                              /\ fence' = [fence EXCEPT ![p] = @ \ {h}]
    BY <1>9 DEF Fence
  <2>2. UNCHANGED <<pc, gen>> /\ h \in Gens
    BY <1>9 DEF Fence, TypeOK
  <2>3. ~Pending(h)'
    BY <2>1, <2>2 DEF Pending, TypeOK
  <2>4. \A g \in Gens : /\ op'[g] = "committed" => op[g] = "committed"
                        /\ Pending(g)' => Pending(g)
    BY <2>1, <2>2 DEF Pending, TypeOK
  <2>5. \A q \in Procs : pc[q] \in Claiming => gen[q] \in Gens
    BY OwnGeneration DEF Opened
  <2>6. \A q \in Procs : fence[q] \ {h} \subseteq fence'[q]
    BY <2>1 DEF TypeOK
  <2>7. QED
    BY <2>2, <2>3, <2>4, <2>5, <2>6 DEF HigherFences, Pending
<1>10. ASSUME NEW p \in Procs, VerifyAgain(p) \/ Read(p), ~Leaves(p) PROVE HigherFences'
  <2>1. /\ UNCHANGED <<op, gen, fence>>
        /\ \/ pc[p] = "fencing" /\ fence[p] = {} /\ pc' = [pc EXCEPT ![p] = "reading"]
           \/ pc[p] = "reading" /\ pc' = [pc EXCEPT ![p] = "storing"]
    BY <1>10, LoseLeaves DEF VerifyAgain, Read, At, dirs, local
  <2>2. QED
    BY <2>1 DEF HigherFences, Pending, TypeOK
<1>11. ASSUME NEW p \in Procs, Store(p) PROVE HigherFences'
  <2>1. /\ pc[p] = "storing" /\ gen' = [gen EXCEPT ![p] = 0] /\ pc' = [pc EXCEPT ![p] = "idle"]
        /\ fence' = [fence EXCEPT ![p] = {}]
        /\ op' \in {op, [op EXCEPT ![gen[p]] = "committed"]}
    BY <1>11 DEF Store, At, Forget
  <2>2. \A q \in Procs : q # p => gen'[q] = gen[q] /\ pc'[q] = pc[q] /\ fence'[q] = fence[q]
    BY <2>1 DEF TypeOK
  <2>3. \A q \in Procs : pc[q] \in Claiming /\ Pending(gen[q]) => ~(gen[p] > gen[q])
    BY <2>1, OwnGeneration DEF HigherFences, Opened
  <2>4. \A q \in Procs : pc[q] \in Claiming => gen[q] \in Gens
    BY OwnGeneration DEF Opened
  <2>5. \A g \in Gens : /\ op'[g] = "committed" => op[g] = "committed" \/ g = gen[p]
                        /\ Pending(g)' => Pending(g)
    BY <2>1 DEF Pending, TypeOK
  <2>6. pc'[p] = "idle"
    BY <2>1 DEF TypeOK
  <2>7. QED
    BY <2>2, <2>3, <2>4, <2>5, <2>6 DEF HigherFences, Pending
<1>12. ASSUME NEW g \in Gens, Expire(g) PROVE HigherFences'
  BY <1>12, FencesKept DEF Expire, Live, Pending, local, TypeOK
<1>13. CASE Elapse \/ UNCHANGED vars
  BY <1>13, FencesKept DEF Elapse, vars, dirs, local, Pending
<1>14. QED
  BY <1>1, <1>2, <1>3, <1>4, <1>5, <1>6, <1>7, <1>8, <1>9, <1>10, <1>11, <1>12, <1>13,
     OuterSteps DEF Next

-----------------------------------------------------------------------------
(* The state, and who changes it                                           *)

Stores(p) == Store(p) /\ Pending(gen[p])
SameRegister == /\ Current'.cand = Current.cand /\ Current'.offered = Current.offered
                /\ Current'.acked = Current.acked

LEMMA StoreEffect ==
  ASSUME TypeOK, GensOwned, HigherFences, NEW p \in Procs, Stores(p)
  PROVE  /\ gen[p] \in Gens /\ Committed' = Committed \cup {gen[p]}
         /\ \A h \in Committed' : h <= gen[p]
         /\ NewestThere' /\ Current' = Mutated(p)
         /\ Contents' = Contents \cup {Content(Mutated(p))}
<1>1. gen[p] \in Gens /\ pc[p] = "storing"
  BY OwnGeneration DEF Stores, Store, At, Opened, Claiming, Promoted
<1>2. Committed' = Committed \cup {gen[p]}
  BY <1>1 DEF Stores, Store, Committed, TypeOK
<1>3. \A h \in Committed : ~(h > gen[p])
  BY <1>1 DEF Stores, HigherFences, Committed, Claiming, Promoted
<1>4. \A h \in Committed' : h <= gen[p]
  BY <1>1, <1>2, <1>3 DEF Committed, Gens
<1>5. Newest(Committed') = gen[p]
  BY <1>1, <1>2, <1>4, NewestIs DEF Committed
<1>6. Current' = saved'[Newest(Committed')]
  BY <1>2 DEF Current, Newest
<1>7. saved'[gen[p]] = Mutated(p)
  BY <1>1 DEF Stores, Store, TypeOK
<1>8. Contents' = Contents \cup {Content(Mutated(p))}
  <2>1. gen[p] \notin Committed /\ \A g \in Committed : saved'[g] = saved[g]
    BY <1>1 DEF Stores, Store, Pending, Committed, TypeOK
  <2>2. Readings' = Readings \cup {Mutated(p)}
    BY <1>2, <1>7, <2>1 DEF Readings
  <2>3. QED
    BY <2>2 DEF Contents
<1>9. QED
  BY <1>1, <1>2, <1>4, <1>5, <1>6, <1>7, <1>8 DEF NewestThere

LEMMA OthersKeep ==
  ASSUME TypeOK, GensOwned, [Next]_vars, ~Elapse, \A p \in Procs : ~Stores(p)
  PROVE  Committed' = Committed /\ saved' = saved
<1>1. ASSUME NEW p \in Procs, Leaves(p) PROVE Committed' = Committed /\ saved' = saved
  BY <1>1, LeavesOp DEF Committed, Leaves, Pending
<1>2. ASSUME UNCHANGED <<op, saved>> PROVE Committed' = Committed /\ saved' = saved
  BY <1>2 DEF Committed
<1>3. ASSUME NEW p \in Procs, Inner(p) PROVE Committed' = Committed /\ saved' = saved
  BY <1>2, <1>3 DEF Inner
<1>4. ASSUME NEW p \in Procs, Start(p) PROVE Committed' = Committed /\ saved' = saved
  BY <1>2, <1>4 DEF Start, dirs
<1>5. ASSUME NEW p \in Procs, Reserve(p) \/ Open(p) PROVE Committed' = Committed /\ saved' = saved
  <2>1. \A g \in Gens : op'[g] = op[g] \/ (op[g] # "committed" /\ op'[g] # "committed")
    BY <1>5 DEF Reserve, Open, At, GensOwned, TypeOK
  <2>2. QED
    BY <1>5, <2>1 DEF Reserve, Open, Committed
<1>6. ASSUME NEW p \in Procs, Fence(p) PROVE Committed' = Committed /\ saved' = saved
  <2>1. \A g \in Gens : op'[g] = op[g] \/ (Pending(g) /\ op'[g] = "fenced")
    BY <1>6 DEF Fence, TypeOK
  <2>2. QED
    BY <1>6, <2>1 DEF Fence, Committed, Pending
<1>7. ASSUME NEW p \in Procs, Store(p) PROVE Committed' = Committed /\ saved' = saved
  BY <1>2, <1>7 DEF Store, Stores
<1>8. ASSUME NEW g \in Gens, Expire(g) PROVE Committed' = Committed /\ saved' = saved
  <2>1. \A h \in Gens : op'[h] = op[h] \/ (op[h] # "committed" /\ op'[h] # "committed")
    BY <1>8 DEF Expire, Live, TypeOK
  <2>2. QED
    BY <1>8, <2>1 DEF Expire, Committed
<1>9. CASE UNCHANGED vars
  BY <1>2, <1>9 DEF vars, dirs
<1>10. QED
  BY <1>1, <1>2, <1>3, <1>4, <1>5, <1>6, <1>7, <1>8, <1>9, InnerSteps, OuterSteps DEF Next, dirs

LEMMA CurrentKept ==
  ASSUME Committed' = Committed, saved' = saved, NewestThere
  PROVE  SameRegister /\ NewestThere' /\ Contents' = Contents
BY DEF Current, Newest, SameRegister, NewestThere, Contents, Readings

LEMMA ElapseKeeps ==
  ASSUME TypeOK, NewestThere, Elapse
  PROVE  SameRegister /\ NewestThere' /\ Contents' = Contents
<1>1. Committed' = Committed
  BY DEF Elapse, Committed
<1>2. \A g \in Gens : Content(saved'[g]) = Content(saved[g])
  BY DEF Elapse, Content, Committed, TypeOK, CacheState
<1>3. Contents' = Contents
  <2>1. \A g \in Committed : g \in Gens
    BY DEF Committed
  <2>2. Readings' = {emptyState} \cup {saved'[g] : g \in Committed}
    BY <1>1 DEF Readings
  <2>3. QED
    BY <1>2, <2>1, <2>2 DEF Contents, Readings
<1>4. Content(Current') = Content(Current)
  <2>1. CASE Committed = {}
    BY <1>1, <2>1 DEF Current
  <2>2. CASE Committed # {}
    BY <1>1, <1>2, <2>2, NewestCommitted DEF Current, Newest, Committed
  <2>3. QED
    BY <2>1, <2>2
<1>5. QED
  BY <1>1, <1>3, <1>4 DEF SameRegister, NewestThere, Content

LEMMA RegisterSteps ==
  ASSUME TypeOK, GensOwned, HigherFences, NewestThere, [Next]_vars
  PROVE  /\ NewestThere' /\ Contents \subseteq Contents'
         /\ (SameRegister /\ Contents' = Contents) \/ \E p \in Procs : Stores(p)
BY StoreEffect, OthersKeep, CurrentKept, ElapseKeeps

-----------------------------------------------------------------------------
(* What is about to be stored                                              *)

\* What q holds for its commit stays, and its operation does not come back to life.
Held(q) ==
  /\ pc[q] = "storing" /\ gen'[q] = gen[q] /\ base'[q] = base[q] /\ job'[q] = job[q]
  /\ q \in missed' <=> q \in missed
  /\ op'[gen[q]] \in {"pending", "stale"} => Pending(gen[q])
JustRead(q) ==
  /\ base'[q] \in Readings /\ job'[q] = job[q] /\ UNCHANGED <<op, saved>>
  /\ base'[q] = Current \/ q \in missed'
  /\ job[q].kind = "check" \/ job[q].digest \in base'[q].offered \cup base'[q].acked

LEMMA StoringSteps ==
  ASSUME TypeOK, GensOwned, [Next]_vars, NEW q \in Procs, pc'[q] = "storing"
  PROVE  Held(q) \/ JustRead(q)
<1> USE DEF Goto, At, Held, dirs, local
<1>1. pc[q] = "storing" => gen[q] \in Gens /\ op[gen[q]] \notin {"free", "reserved"}
  BY OwnGeneration DEF Opened, Claiming, Promoted
<1>2. ASSUME NEW p \in Procs, Leaves(p) PROVE Held(q)
  <2>1. p # q
    BY <1>2 DEF Leaves, TypeOK
  <2>2. /\ pc'[q] = pc[q] /\ gen'[q] = gen[q] /\ base'[q] = base[q] /\ job'[q] = job[q]
        /\ q \in missed' <=> q \in missed
    BY <1>2, <2>1 DEF Leaves, Forget, TypeOK
  <2>3. QED
    BY <1>1, <1>2, <2>2, LeavesOp DEF Pending
<1>3. ASSUME NEW p \in Procs, Start(p) PROVE Held(q)
  BY <1>3 DEF Start, Pending, TypeOK
<1>4. ASSUME NEW p \in Procs, Goto(p, "reserving"), UNCHANGED <<dirs, local, answers>> PROVE Held(q)
  BY <1>4 DEF Pending, TypeOK
<1>5. ASSUME NEW p \in Procs, Reserve(p) PROVE Held(q)
  <2>1. \A r \in Procs : r # p => gen'[r] = gen[r]
    BY <1>5 DEF Reserve, TypeOK
  <2>2. p # q /\ pc'[q] = pc[q] /\ base' = base /\ missed' = missed /\ job' = job
    BY <1>5 DEF Reserve, TypeOK
  <2>3. \A g \in Gens : op'[g] = op[g] \/ op'[g] = "reserved"
    BY <1>5 DEF Reserve, TypeOK
  <2>4. QED
    BY <1>1, <2>1, <2>2, <2>3 DEF Pending
<1>6. ASSUME NEW p \in Procs, Open(p) PROVE Held(q)
  <2>1. p # q /\ pc'[q] = pc[q] /\ base' = base /\ missed' = missed /\ job' = job /\ gen' = gen
    BY <1>6 DEF Open, TypeOK
  <2>2. \A g \in Gens : g # gen[p] => op'[g] = op[g]
    BY <1>6 DEF Open, TypeOK
  <2>3. QED
    BY <1>1, <1>6, <2>1, <2>2 DEF Open, GensOwned, Pending
<1>7. ASSUME NEW p \in Procs, ~Leaves(p),
             \/ Contend(p) \/ Inspect(p) \/ Retire(p) \/ Promote(p) \/ Confirm(p)
             \/ Recheck(p) \/ Fetch(p) \/ Verify(p) \/ VerifyAgain(p)
      PROVE  Held(q)
  <2>1. Inner(p)
    BY <1>7, InnerSteps
  <2>2. base' = base /\ missed' = missed /\ pc'[p] # "storing"
    <3>1. CASE Contend(p) \/ Inspect(p)
      BY <1>7, <3>1, LoseLeaves DEF Contend, Inspect, TypeOK
    <3>2. CASE Retire(p) \/ Promote(p)
      BY <1>7, <3>2 DEF Retire, Promote, Leaves, answers, TypeOK
    <3>3. CASE Confirm(p) \/ Recheck(p)
      BY <1>7, <3>3, LoseLeaves DEF Confirm, Recheck, TypeOK
    <3>4. CASE Fetch(p)
      BY <3>4 DEF Fetch, TypeOK
    <3>5. CASE Verify(p) \/ VerifyAgain(p)
      BY <1>7, <3>5, LoseLeaves DEF Verify, VerifyAgain, TypeOK
    <3>6. QED
      BY <1>7, <3>1, <3>2, <3>3, <3>4, <3>5
  <2>3. QED
    BY <2>1, <2>2 DEF Inner, Pending, TypeOK
<1>8. ASSUME NEW p \in Procs, Read(p), ~Leaves(p) PROVE Held(q) \/ JustRead(q)
  <2>1. PICK s \in Readings :
          /\ base' = [base EXCEPT ![p] = s] /\ pc' = [pc EXCEPT ![p] = "storing"]
          /\ missed' = IF s = Current THEN missed ELSE missed \cup {p}
          /\ UNCHANGED <<op, saved, job, gen>>
          /\ job[p].kind = "check" \/ job[p].digest \in s.offered \cup s.acked
    BY <1>8, LoseLeaves DEF Read
  <2>2. CASE p = q
    BY <2>1, <2>2 DEF JustRead, TypeOK
  <2>3. CASE p # q
    BY <2>1, <2>3 DEF Pending, TypeOK
  <2>4. QED
    BY <2>2, <2>3
<1>9. ASSUME NEW p \in Procs, Fence(p) PROVE Held(q)
  <2>1. \A g \in Gens : op'[g] = op[g] \/ op'[g] = "fenced"
    BY <1>9 DEF Fence, TypeOK
  <2>2. QED
    BY <1>1, <1>9, <2>1 DEF Fence, Pending
<1>10. ASSUME NEW p \in Procs, Store(p) PROVE Held(q)
  <2>1. /\ p # q /\ pc'[q] = pc[q] /\ base'[q] = base[q] /\ job'[q] = job[q] /\ gen'[q] = gen[q]
        /\ q \in missed' <=> q \in missed
    BY <1>10 DEF Store, Forget, TypeOK
  <2>2. \A g \in Gens : op'[g] = op[g] \/ op'[g] = "committed"
    BY <1>10 DEF Store, TypeOK
  <2>3. QED
    BY <1>1, <2>1, <2>2 DEF Pending
<1>11. ASSUME NEW g \in Gens, Expire(g) PROVE Held(q)
  BY <1>1, <1>11 DEF Expire, Live, Pending, TypeOK
<1>12. CASE Elapse \/ UNCHANGED vars
  BY <1>12 DEF Elapse, vars, Pending
<1>13. QED
  BY <1>2, <1>3, <1>4, <1>5, <1>6, <1>7, <1>8, <1>9, <1>10, <1>11, <1>12, OuterSteps DEF Next

\* Of two processes that store, at most one has an operation left to commit.
LEMMA OneStores ==
  ASSUME TypeOK, GensOwned, HigherFences, NEW p \in Procs, NEW q \in Procs,
         pc[p] = "storing", pc[q] = "storing", Pending(gen[p]), Pending(gen[q])
  PROVE  p = q
<1>1. gen[p] \in Gens /\ gen[q] \in Gens
  BY OwnGeneration DEF Opened, Claiming, Promoted
<1>2. ~(gen[p] > gen[q]) /\ ~(gen[q] > gen[p])
  BY <1>1 DEF HigherFences, Claiming, Promoted
<1>3. QED
  BY <1>1, <1>2 DEF GensOwned, Gens

LEMMA StepBaseCurrent ==
  ASSUME TypeOK, GensOwned, HigherFences, NewestThere, BaseCurrent, [Next]_vars
  PROVE  BaseCurrent'
<1> SUFFICES ASSUME NEW q \in Procs, pc'[q] = "storing"
             PROVE  /\ op'[gen'[q]] \in {"pending", "stale"} /\ q \notin missed' =>
                         /\ base'[q].cand = Current'.cand
                         /\ base'[q].offered = Current'.offered
                         /\ base'[q].acked = Current'.acked
                    /\ Content(base'[q]) \in Contents'
                    /\ job'[q].kind = "ack" => job'[q].digest \in base'[q].offered \cup base'[q].acked
  BY DEF BaseCurrent, Pending
<1>1. CASE JustRead(q)
  <2>1. Content(base'[q]) \in Contents'
    BY <1>1, RegisterSteps DEF JustRead, Contents
  <2>2. QED
    BY <1>1, <2>1 DEF JustRead, Current, Committed, Newest
<1>2. CASE Held(q)
  <2>1. /\ job'[q].kind = "ack" => job'[q].digest \in base'[q].offered \cup base'[q].acked
        /\ Content(base'[q]) \in Contents'
    BY <1>2, RegisterSteps DEF Held, BaseCurrent
  <2>2. ASSUME op'[gen[q]] \in {"pending", "stale"} PROVE SameRegister
    <3>1. ~\E p \in Procs : Stores(p)
      <4>1. SUFFICES ASSUME NEW p \in Procs, Stores(p) PROVE FALSE
        OBVIOUS
      <4>2. p = q
        BY <1>2, <2>2, <4>1, OneStores DEF Held, Stores, Store, At
      <4>3. QED
        BY <4>1, <4>2 DEF Stores, Store, Goto, TypeOK
    <3>2. QED
      BY <3>1, RegisterSteps
  <2>3. QED
    BY <1>2, <2>1, <2>2 DEF Held, BaseCurrent, SameRegister
<1>3. QED
  BY <1>1, <1>2, StoringSteps

-----------------------------------------------------------------------------
(* What is stored accounts for its candidate                               *)

LEMMA MutatedAccounted ==
  ASSUME TypeOK, NEW p \in Procs, Accounted(base[p])
  PROVE  /\ Accounted(Mutated(p))
         /\ base[p].acked \subseteq Mutated(p).acked
         /\ base[p].offered \subseteq Mutated(p).offered \cup Mutated(p).acked
<1>1. base[p] \in CacheState /\ job[p] \in Jobs /\ found[p] \in Digests \cup {NoCand, Failed}
  BY DEF TypeOK
<1>2. CASE job[p].kind = "ack"
  <2>1. Mutated(p) = Acknowledged(base[p], job[p].digest) /\ job[p].digest \in Digests
    BY <1>1, <1>2 DEF Mutated, Jobs
  <2>2. QED
    BY <1>1, <2>1 DEF Acknowledged, Accounted, CacheState
<1>3. CASE job[p].kind = "check" /\ found[p] = Failed
  <2>1. Mutated(p) = AfterFailure(base[p])
    BY <1>3 DEF Mutated
  <2>2. QED
    BY <1>1, <2>1 DEF AfterFailure, Accounted, CacheState
<1>4. CASE job[p].kind = "check" /\ found[p] # Failed
  <2>1. Mutated(p) = AfterCheck(base[p], found[p])
    BY <1>4 DEF Mutated
  <2>2. QED
    BY <1>1, <2>1 DEF AfterCheck, AfterFailure, Accounted, CacheState
<1>5. QED
  BY <1>1, <1>2, <1>3, <1>4 DEF Jobs

LEMMA ReadingsAccounted ==
  ASSUME CandidatesAccounted PROVE \A s \in Readings : Accounted(s)
<1>1. Accounted(emptyState)
  BY DEF emptyState, Accounted
<1>2. \A g \in Committed : Accounted(saved[g])
  BY DEF CandidatesAccounted, Committed
<1>3. QED
  BY <1>1, <1>2 DEF Readings

LEMMA StepCandidatesAccounted ==
  ASSUME TypeOK, CandidatesAccounted, [Next]_vars PROVE CandidatesAccounted'
<1> USE DEF dirs, local
<1>1. ASSUME UNCHANGED saved,
             \/ base' = base
             \/ \E p \in Procs : base' = [base EXCEPT ![p] = emptyState]
             \/ \E p \in Procs, s \in Readings : base' = [base EXCEPT ![p] = s]
      PROVE  CandidatesAccounted'
  <2>1. Accounted(emptyState) /\ \A s \in Readings : Accounted(s)
    BY ReadingsAccounted DEF Accounted, emptyState
  <2>2. QED
    BY <1>1, <2>1 DEF CandidatesAccounted, TypeOK, Accounted
<1>2. ASSUME NEW p \in Procs, Leaves(p) PROVE CandidatesAccounted'
  BY <1>1, <1>2 DEF Leaves, Forget
<1>3. ASSUME NEW p \in Procs, Start(p) PROVE CandidatesAccounted'
  BY <1>1, <1>3 DEF Start
<1>4. ASSUME NEW p \in Procs, Reserve(p) \/ Open(p) \/ Promote(p) \/ Fetch(p) \/ Fence(p)
      PROVE  CandidatesAccounted'
  BY <1>1, <1>4 DEF Reserve, Open, Promote, Fetch, Fence
<1>5. ASSUME NEW p \in Procs, ~Leaves(p),
             \/ Contend(p) \/ Inspect(p) \/ Retire(p) \/ Confirm(p) \/ Recheck(p)
             \/ Verify(p) \/ VerifyAgain(p)
      PROVE  CandidatesAccounted'
  <2>1. CASE Contend(p) \/ Inspect(p) \/ Confirm(p)
    BY <1>1, <1>5, <2>1, LoseLeaves DEF Contend, Inspect, Confirm
  <2>2. CASE Retire(p)
    BY <1>1, <1>5, <2>2 DEF Retire, Leaves, answers
  <2>3. CASE Recheck(p) \/ Verify(p) \/ VerifyAgain(p)
    BY <1>1, <1>5, <2>3, LoseLeaves DEF Recheck, Verify, VerifyAgain
  <2>4. QED
    BY <1>5, <2>1, <2>2, <2>3
<1>6. ASSUME NEW p \in Procs, Read(p), ~Leaves(p) PROVE CandidatesAccounted'
  BY <1>1, <1>6, LoseLeaves DEF Read
<1>7. ASSUME NEW p \in Procs, Store(p) PROVE CandidatesAccounted'
  <2>1. base' = [base EXCEPT ![p] = emptyState]
    BY <1>7 DEF Store, Forget
  <2>2. CASE UNCHANGED saved
    BY <1>1, <2>1, <2>2
  <2>3. CASE saved' = [saved EXCEPT ![gen[p]] = Mutated(p)]
    <3>1. Accounted(Mutated(p)) /\ Accounted(emptyState)
      BY MutatedAccounted DEF CandidatesAccounted, Accounted, emptyState
    <3>2. QED
      BY <2>1, <2>3, <3>1 DEF CandidatesAccounted, TypeOK, Accounted
  <2>4. QED
    BY <1>7, <2>2, <2>3 DEF Store
<1>8. ASSUME NEW g \in Gens, Expire(g) PROVE CandidatesAccounted'
  BY <1>1, <1>8 DEF Expire
<1>9. CASE Elapse
  <2>1. \A g \in Gens : /\ saved'[g].cand = saved[g].cand /\ saved'[g].offered = saved[g].offered
                        /\ saved'[g].acked = saved[g].acked
    BY <1>9 DEF Elapse, TypeOK, CacheState
  <2>2. QED
    BY <1>9, <2>1 DEF Elapse, CandidatesAccounted, Accounted
<1>10. CASE UNCHANGED vars
  BY <1>1, <1>10 DEF vars
<1>11. QED
  BY <1>1, <1>2, <1>3, <1>4, <1>5, <1>6, <1>7, <1>8, <1>9, <1>10, OuterSteps DEF Next

-----------------------------------------------------------------------------
(* The register it implements                                              *)

\* Whatever happens to the files, the register stays; at most a candidate it had is told.
LEMMA NoticeIsReminder ==
  ASSUME CandidatesAccounted, SameRegister, Contents' = Contents, told' = told, lapsed' = lapsed,
         NEW s \in Readings, notified' \in {notified, notified \cup News(s)}
  PROVE  Register!RNext \/ UNCHANGED Register!rvars
<1>1. UNCHANGED <<Current.cand, Current.offered, Current.acked, {Content(r) : r \in Readings}>>
  BY DEF SameRegister, Contents
<1>2. CASE notified' = notified
  BY <1>1, <1>2 DEF Register!rvars
<1>3. CASE notified' = notified \cup {s.cand} /\ s.cand \in s.offered
  <2>1. Content(s) \in {Content(r) : r \in Readings} /\ Content(s).cand = s.cand
        /\ Content(s).offered = s.offered
    BY DEF Content
  <2>2. Register!Remind(Content(s))
    BY <1>1, <1>3, <2>1 DEF Register!Remind
  <2>3. QED
    BY <2>1, <2>2 DEF Register!RNext
<1>4. News(s) = {} \/ (News(s) = {s.cand} /\ s.cand \in s.offered)
  BY ReadingsAccounted DEF News, Accounted
<1>5. QED
  BY <1>2, <1>3, <1>4

\* What is said of a state that was read.
Told == /\ told' = told /\ lapsed' = lapsed
        /\ \E s \in Readings : notified' \in {notified, notified \cup News(s)}

LEMMA Notices == ASSUME [Next]_vars, \A p \in Procs : ~Stores(p) PROVE Told
<1> USE DEF answers
<1>1. ASSUME told' = told, lapsed' = lapsed, notified' = notified PROVE Told
  BY <1>1 DEF Told, Readings
<1>2. ASSUME NEW p \in Procs, NEW quiet, Lose(p, quiet) PROVE Told
  BY <1>2 DEF Lose, Told
<1>3. ASSUME NEW p \in Procs, Start(p) PROVE Told
  BY <1>3 DEF Start, Told
<1>4. ASSUME NEW p \in Procs, \/ Acquire(p) \/ Contend(p) \/ Inspect(p) \/ Confirm(p) \/ Recheck(p)
                              \/ Verify(p) \/ VerifyAgain(p) \/ Read(p)
      PROVE  Told
  BY <1>1, <1>2, <1>4 DEF Acquire, Contend, Inspect, Confirm, Recheck, Verify, VerifyAgain, Read
<1>5. ASSUME NEW p \in Procs, \/ Reserve(p) \/ Exhausted(p) \/ Open(p) \/ Retire(p) \/ Promote(p)
                              \/ Fetch(p) \/ Fence(p) \/ Crash(p) \/ GiveUp(p)
      PROVE  Told
  BY <1>1, <1>5 DEF Reserve, Exhausted, Open, Retire, Promote, Fetch, Fence, Crash, GiveUp
<1>6. ASSUME NEW p \in Procs, Store(p) PROVE Told
  BY <1>1, <1>6 DEF Store, Stores
<1>7. CASE Elapse \/ UNCHANGED vars \/ \E g \in Gens : Expire(g)
  BY <1>1, <1>7 DEF Elapse, Expire, vars
<1>8. QED
  BY <1>3, <1>4, <1>5, <1>6, <1>7 DEF Next

\* What a commit writes, in the words of the register: a find, a withdrawal, an
\* acknowledgement or nothing, from the content v of its base.
LEMMA StoreIsChange ==
  ASSUME TypeOK, ClaimInv, NEW p \in Procs, Stores(p)
  PROVE  LET v == Content(base[p]) IN
         \/ Register!Withdraw(v) \/ Register!Leave(v)
         \/ \E d \in Digests : Register!Find(v, d) \/ Register!Acknowledge(v, d)
<1> DEFINE s == base[p]   d == found[p]   v == Content(base[p])
<1>1. /\ s \in CacheState /\ job[p] \in Jobs /\ d \in Digests \cup {NoCand, Failed}
      /\ Current' = Mutated(p)
      /\ v.cand = s.cand /\ v.offered = s.offered /\ v.acked = s.acked
  BY StoreEffect DEF ClaimInv, TypeOK, Content
<1>2. job[p].kind = "ack" => job[p].digest \in s.offered \cup s.acked
  BY DEF ClaimInv, BaseCurrent, Stores, Store, At
<1>3. /\ told' = IF job[p].kind = "ack" THEN told \cup {job[p].digest} ELSE told
      /\ notified' = IF job[p].kind = "check" /\ d # Failed THEN notified \cup News(Mutated(p)) ELSE notified
  BY DEF Stores, Store
<1>4. CASE job[p].kind = "ack"
  <2>1. Mutated(p) = Acknowledged(s, job[p].digest) /\ job[p].digest \in Digests
    BY <1>1, <1>4 DEF Mutated, Jobs
  <2>2. Register!Acknowledge(v, job[p].digest)
    BY <1>1, <1>2, <1>3, <1>4, <2>1 DEF Register!Acknowledge, Acknowledged, CacheState
  <2>3. QED
    BY <2>1, <2>2
<1>5. CASE job[p].kind = "check" /\ d = Failed
  <2>1. Mutated(p) = AfterFailure(s)
    BY <1>5 DEF Mutated
  <2>2. Register!Leave(v)
    BY <1>1, <1>3, <1>5, <2>1 DEF Register!Leave, Register!Value, AfterFailure, CacheState, Content
  <2>3. QED
    BY <2>2
<1>6. CASE job[p].kind = "check" /\ d # Failed
  <2>1. Mutated(p) = AfterCheck(s, d) /\ told' = told /\ notified' = notified \cup News(AfterCheck(s, d))
    BY <1>3, <1>6 DEF Mutated
  <2>2. CASE AfterCheck(s, d).cand = NoCand
    <3>1. AfterCheck(s, d).offered = s.offered /\ AfterCheck(s, d).acked = s.acked
      BY <1>1, <2>2 DEF AfterCheck, AfterFailure, CacheState
    <3>2. Register!Withdraw(v)
      BY <1>1, <2>1, <2>2, <3>1 DEF Register!Withdraw, News
    <3>3. QED
      BY <3>2
  <2>3. CASE AfterCheck(s, d).cand # NoCand
    <3>1. /\ d \in Digests /\ AfterCheck(s, d).cand = d /\ AfterCheck(s, d).acked = s.acked
          /\ AfterCheck(s, d).offered = s.offered \cup ({d} \ s.acked)
      BY <1>1, <1>6, <2>3 DEF AfterCheck, AfterFailure, CacheState
    <3>2. Register!Find(v, d)
      BY <1>1, <2>1, <2>3, <3>1 DEF Register!Find, News
    <3>3. QED
      BY <3>1, <3>2
  <2>4. QED
    BY <2>2, <2>3
<1>7. QED
  BY <1>1, <1>4, <1>5, <1>6 DEF Jobs

\* The register lapses when the base was not the latest value.
LEMMA StoreIsRegister ==
  ASSUME TypeOK, ClaimInv, NEW p \in Procs, Stores(p)
  PROVE  Register!RNext
<1> DEFINE v == Content(base[p])
<1>1. v \in Contents /\ (p \notin missed => v = Register!Value)
  BY DEF ClaimInv, BaseCurrent, Stores, Store, At, Content, Register!Value
<1>2. lapsed' = (lapsed \/ p \in missed) /\ lapsed \in BOOLEAN
  BY DEF Stores, Store, TypeOK
<1>3. /\ lapsed' \in {lapsed, TRUE}
      /\ v # Register!Value => lapsed'
  <2>1. CASE p \in missed
    BY <1>2, <2>1
  <2>2. CASE p \notin missed
    BY <1>1, <1>2, <2>2
  <2>3. QED
    BY <2>1, <2>2
<1>4. Contents' = Contents \cup {Register!Value'}
  BY StoreEffect DEF ClaimInv, Content, Register!Value
<1>5. Register!Change(v)
  BY <1>3, <1>4, StoreIsChange DEF Register!Change, Contents
<1>6. QED
  BY <1>1, <1>5 DEF Register!RNext, Contents

LEMMA StepRegister ==
  ASSUME TypeOK, ClaimInv, [Next]_vars PROVE Register!RNext \/ UNCHANGED Register!rvars
<1>1. CASE \E p \in Procs : Stores(p)
  BY <1>1, StoreIsRegister
<1>2. CASE \A p \in Procs : ~Stores(p)
  <2>1. Told /\ SameRegister /\ Contents' = Contents
    BY <1>2, Notices, RegisterSteps DEF ClaimInv
  <2>2. QED
    BY <2>1, NoticeIsReminder DEF Told, ClaimInv
<1>3. QED
  BY <1>1, <1>2

\* Until the register lapses, whatever an earlier value offered can still be acknowledged.
HeldOffered ==
  ~lapsed => \A v \in Contents : v.offered \cup v.acked \subseteq Current.offered \cup Current.acked

LEMMA RegisterAnswers ==
  ASSUME TypeOK, AnswersKept, HeldOffered, Register!RNext \/ UNCHANGED Register!rvars
  PROVE  AnswersKept' /\ HeldOffered'
<1> USE DEF AnswersKept, AcknowledgedForGood, NotifiedCanBeAcknowledged, HeldOffered
<1> SUFFICES ASSUME ~lapsed'
             PROVE  /\ told' \subseteq Current'.acked
                    /\ notified' \subseteq Current'.offered \cup Current'.acked
                    /\ \A v \in Contents' :
                         v.offered \cup v.acked \subseteq Current'.offered \cup Current'.acked
  OBVIOUS
<1>1. ASSUME NEW v \in Contents, Register!Remind(v) PROVE AnswersKept' /\ HeldOffered'
  BY <1>1 DEF Register!Remind, Contents
<1>2. ASSUME NEW v \in Contents, Register!Change(v) PROVE AnswersKept' /\ HeldOffered'
  <2>1. ~lapsed /\ v = Register!Value /\ Contents' = Contents \cup {Register!Value'}
    <3>1. lapsed' \in {lapsed, TRUE} /\ (v # Register!Value => lapsed')
      BY <1>2 DEF Register!Change
    <3>2. ~lapsed /\ v = Register!Value
      <4>1. v = Register!Value /\ lapsed' # TRUE
        BY <3>1
      <4>2. lapsed \in BOOLEAN
        BY DEF TypeOK
      <4>3. lapsed # TRUE
        BY <3>1, <4>1
      <4>4. QED
        BY <4>1, <4>2, <4>3
    <3>3. Contents' = Contents \cup {Register!Value'}
      BY <1>2 DEF Register!Change, Contents
    <3>4. QED
      BY <3>2, <3>3
  <2>2. v.cand = Current.cand /\ v.offered = Current.offered /\ v.acked = Current.acked
    BY <2>1 DEF Register!Value
  <2>3. Register!Value'.offered = Current'.offered /\ Register!Value'.acked = Current'.acked
    BY DEF Register!Value
  <2>4. /\ Current.offered \cup Current.acked \subseteq Current'.offered \cup Current'.acked
        /\ told' \subseteq Current'.acked
        /\ notified' \subseteq Current'.offered \cup Current'.acked
    <3>1. CASE Register!Withdraw(v)
      BY <2>1, <2>2, <3>1 DEF Register!Withdraw
    <3>2. CASE Register!Leave(v)
      BY <2>1, <2>2, <2>3, <3>2 DEF Register!Leave
    <3>3. ASSUME NEW d \in Digests, Register!Find(v, d) PROVE <2>4!:
      BY <2>1, <2>2, <3>3 DEF Register!Find
    <3>4. ASSUME NEW d \in Digests, Register!Acknowledge(v, d) PROVE <2>4!:
      BY <2>1, <2>2, <3>4 DEF Register!Acknowledge
    <3>5. QED
      BY <1>2, <3>1, <3>2, <3>3, <3>4 DEF Register!Change
  <2>5. QED
    BY <2>1, <2>3, <2>4
<1>3. CASE UNCHANGED Register!rvars
  BY <1>3 DEF Register!rvars, Contents
<1>4. QED
  BY <1>1, <1>2, <1>3 DEF Register!RNext, Contents

-----------------------------------------------------------------------------
(* The theorems                                                            *)

LEMMA InitInv == Init => ClaimInv
BY UpdateAssumption DEF Init, ClaimInv, GensOwned, ClaimNamesLive, HigherFences, NewestThere, BaseCurrent,
   CandidatesAccounted, Accounted, emptyState, Committed, Promoted, Claiming, Pending, Live

LEMMA StepInv == ASSUME TypeOK, ClaimInv, [Next]_vars PROVE TypeOK' /\ ClaimInv'
BY StepType, StepGensOwned, StepClaimNamesLive, StepHigherFences, RegisterSteps, StepBaseCurrent,
   StepCandidatesAccounted DEF ClaimInv

(* Every variable keeps its type; generations have one owner, claims name  *)
(* who holds them, higher generations fence before they commit, and what   *)
(* is committed was made from the state it replaces, or from an older one  *)
(* by a process whose read of the newest failed.                           *)
THEOREM InductiveInvariant == Spec => [](TypeOK /\ ClaimInv)
<1>1. Init => TypeOK /\ ClaimInv
  BY InitType, InitInv
<1>2. TypeOK /\ ClaimInv /\ [Next]_vars => (TypeOK /\ ClaimInv)'
  BY StepInv
<1>3. QED
  BY <1>1, <1>2, PTL DEF Spec

(* While its lease runs, a process past promotion is the only one there    *)
(* is, although the claim is a directory anybody may rename away.          *)
THEOREM HolderUnique == Spec => []OneHolder
<1>1. TypeOK /\ ClaimInv => OneHolder
  <2>1. SUFFICES ASSUME TypeOK, ClaimInv, NEW p \in Procs, NEW q \in Procs,
                        pc[p] \in Promoted, pc[q] \in Promoted, Live(gen[p]), Live(gen[q])
                 PROVE  p = q
    BY DEF OneHolder, Promoted
  <2>2. active = gen[p] /\ active = gen[q]
    BY <2>1 DEF ClaimInv, ClaimNamesLive
  <2>3. gen[p] # 0
    BY <2>1 DEF ClaimInv, GensOwned, Promoted
  <2>4. QED
    BY <2>1, <2>2, <2>3 DEF ClaimInv, GensOwned
<1>2. QED
  BY <1>1, InductiveInvariant, PTL

(* The directory of operations is one register: every rename, look, lapse  *)
(* and death is a change of the register made at once, or none, and a      *)
(* change starts from the latest value, or the register has lapsed: an     *)
(* older one was read past a file that could not be.                       *)
THEOREM RegisterImplemented == Spec => ImplementsRegister
<1>1. Init => Register!RInit
  <2>1. SUFFICES ASSUME Init PROVE Register!RInit
    OBVIOUS
  <2>2. Committed = {}
    BY <2>1 DEF Init, Committed
  <2>3. Current = emptyState /\ Readings = {emptyState}
    BY <2>2 DEF Current, Readings
  <2>4. {Content(s) : s \in Readings} = {Register!Value}
    BY <2>3 DEF Content, Register!Value
  <2>5. QED
    BY <2>1, <2>3, <2>4 DEF Init, Register!RInit, emptyState
<1>2. QED
  BY <1>1, StepRegister, InductiveInvariant, PTL DEF Spec, ImplementsRegister, Register!RSpec

(* Until a commit starts from an older state because the newest could not  *)
(* be read, an acknowledgement reported as done is in the newest state and *)
(* whatever a user was shown, also from an older state, can still be       *)
(* acknowledged.                                                           *)
THEOREM AnswersStand == Spec => []AnswersKept
<1>1. Init => AnswersKept /\ HeldOffered
  BY DEF Init, AnswersKept, AcknowledgedForGood, NotifiedCanBeAcknowledged, HeldOffered, Contents,
         Readings, Current, Content, Committed, emptyState
<1>2. QED
  BY <1>1, StepRegister, RegisterAnswers, InductiveInvariant, PTL DEF Spec
=============================================================================
