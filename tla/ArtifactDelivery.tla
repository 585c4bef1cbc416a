--------------------------- MODULE ArtifactDelivery ---------------------------
(* How the diagram skill publishes files (.agents/skills/archify/bin/           *)
(* archify.mjs): deliver writes one artifact, compare an artifact with its      *)
(* receipt, migrate a document. Each works in a staging directory of its own    *)
(* and renames into place at the end. Invocations overlap, the author edits the *)
(* specification meanwhile, renames fail and processes die. What a specification *)
(* renders to is its version; which ones render and pass the checks is Sound.   *)
EXTENDS Naturals, SequencesExt
CONSTANTS Commands, Versions, Sound, NoVersion,
          Old, Nobody,     \* who wrote what was there before; nobody: no file
          MaxBreaks        \* failing renames in a behaviour

ASSUME DeliveryAssumption ==
  /\ Sound \subseteq Versions /\ NoVersion \notin Versions
  /\ {Old, Nobody} \cap Commands = {} /\ Old # Nobody /\ MaxBreaks \in Nat

Kinds == {"deliver", "compare", "migrate"}
Pair == <<"html", "receipt">>
Targets == {"artifact", "html", "receipt", "document"}
File == [by : Commands \cup {Old, Nobody}, of : Versions \cup {NoVersion}]
NoFile == [by |-> Nobody, of |-> NoVersion]
NoStash == [t \in ToSet(Pair) |-> NoFile]

VARIABLES
  spec,        \* the version in the specification file
  target,      \* target -> what it holds
  kind,        \* command -> which one it is
  phase,       \* command -> where it is
  input,       \* command -> the version it read, which its receipt will name
  candidate,   \* command -> the version its candidate was rendered from
  stash,       \* command -> the previous files it has put aside
  left, backedUp, placed,   \* command -> targets yet to treat, put aside, committed
  breaks,
  (* history *)
  broken,      \* commands that reported an incomplete restore
  split,       \* a compare died in its commit, or two commits overlapped
  lastPair     \* the pair of the last compare that succeeded

commandVars == <<kind, phase, input, candidate, stash, left, backedUp, placed>>
deliveryVars == <<spec, target, commandVars, breaks, broken, split, lastPair>>

Committing == {"backing", "placing", "removing", "restoring"}
DeliveryTypeOK ==
  /\ spec \in Versions /\ target \in [Targets -> File] /\ kind \in [Commands -> Kinds]
  /\ phase \in [Commands -> {"new", "staged", "validated", "checked", "renaming", "done",
                             "failed", "dead"} \cup Committing]
  /\ {input, candidate} \subseteq [Commands -> Versions \cup {NoVersion}]
  /\ stash \in [Commands -> [ToSet(Pair) -> File]]
  /\ breaks \in 0..MaxBreaks /\ broken \subseteq Commands /\ split \in BOOLEAN
  /\ left \in [Commands -> {Pair, <<"receipt">>, <<>>}]
  /\ placed \in [Commands -> {<<>>, <<"html">>, Pair}]
  /\ backedUp \in [Commands -> {<<>>, <<"html">>, <<"receipt">>, Pair}]
  /\ lastPair \in File \X File

DeliveryInit ==
  /\ spec \in Versions /\ kind \in [Commands -> Kinds]
  /\ \E f \in {NoFile, [by |-> Old, of |-> NoVersion]} :
       target = [t \in Targets |-> f] /\ lastPair = <<f, f>>
  /\ phase = [c \in Commands |-> "new"]
  /\ input = [c \in Commands |-> NoVersion] /\ candidate = input
  /\ stash = [c \in Commands |-> NoStash]
  /\ left = [c \in Commands |-> <<>>] /\ backedUp = left /\ placed = left
  /\ breaks = 0 /\ broken = {} /\ split = FALSE

Proceed(c, place) == phase' = [phase EXCEPT ![c] = place]
RenameFails == breaks < MaxBreaks /\ breaks' = breaks + 1
account == <<broken, split, lastPair>>
lists == <<stash, left, backedUp, placed>>

-----------------------------------------------------------------------------
(* From the input to a checked candidate. Any of it may fail; nothing outside   *)
(* the staging directory has been touched then.                                 *)

Edit == spec' \in Versions \ {spec} /\ UNCHANGED <<target, commandVars, breaks, account>>

FailEarly(c) ==
  /\ phase[c] \in {"new", "staged", "validated", "checked"} /\ Proceed(c, "failed")
  /\ UNCHANGED <<spec, target, kind, input, candidate, lists, breaks, account>>

\* The input is read once; then the paths are resolved and the staging directory made.
Take(c, k) ==
  /\ phase[c] = "new" /\ kind[c] = k
  /\ input' = [input EXCEPT ![c] = spec] /\ Proceed(c, "staged")
  /\ UNCHANGED <<spec, target, kind, candidate, lists, breaks, account>>
BeginDeliver(c) == Take(c, "deliver")
BeginCompare(c) == Take(c, "compare")
BeginMigrate(c) == Take(c, "migrate")

\* compare first validates the file of the author as it is by now.
ValidateAuthored(c) ==
  /\ phase[c] = "staged" /\ kind[c] = "compare" /\ spec \in Sound /\ Proceed(c, "validated")
  /\ UNCHANGED <<spec, target, kind, input, candidate, lists, breaks, account>>

\* Mutant: the renderer is given the file of the author.
Authored(c) == spec
\* The renderer is given a copy of what was read, in the staging directory: the
\* snapshot, the canonical form or the migrated document.
Frozen(c) == input[c]

\* A renderer and a checker, each a child process, have passed the candidate.
Rendered(c, k, from) ==
  /\ kind[c] = k /\ phase[c] = from /\ Frozen(c) \in Sound
  /\ candidate' = [candidate EXCEPT ![c] = Frozen(c)] /\ Proceed(c, "checked")
  /\ UNCHANGED <<spec, target, kind, input, lists, breaks, account>>
RenderDelivery(c) == Rendered(c, "deliver", "staged")
\* Both sides in canonical form, the comparison of the two, the page and its receipt.
RenderCompare(c) == Rendered(c, "compare", "validated")
RenderMigration(c) == Rendered(c, "migrate", "staged")

\* The last checks: a delivery resolves its output path again, ...
ConfirmOutput(c) ==
  /\ phase[c] = "checked" /\ kind[c] = "deliver" /\ Proceed(c, "renaming")
  /\ UNCHANGED <<spec, target, kind, input, candidate, lists, breaks, account>>
\* ... a migration looks whether the source is still what it read, ...
ConfirmSource(c) ==
  /\ phase[c] = "checked" /\ kind[c] = "migrate" /\ spec = input[c] /\ Proceed(c, "renaming")
  /\ UNCHANGED <<spec, target, kind, input, candidate, lists, breaks, account>>
\* ... and a compare whether both of its targets are regular files.
Precommit(c) ==
  /\ phase[c] = "checked" /\ kind[c] = "compare"
  /\ Proceed(c, "backing") /\ left' = [left EXCEPT ![c] = Pair]
  /\ split' = (split \/ \E d \in Commands : phase[d] \in Committing)
  /\ UNCHANGED <<spec, target, kind, input, candidate, stash, backedUp, placed, breaks, broken,
                 lastPair>>

-----------------------------------------------------------------------------
(* The commit                                                                   *)

Made(c) == [by |-> c, of |-> candidate[c]]
\* The finally block removes the staging directory, with whatever is still put aside.
DropStaging(c) ==
  /\ stash' = [stash EXCEPT ![c] = NoStash] /\ left' = [left EXCEPT ![c] = <<>>]
  /\ backedUp' = [backedUp EXCEPT ![c] = <<>>] /\ placed' = [placed EXCEPT ![c] = <<>>]

\* deliver and migrate: one rename.
Rename(c, k, t) ==
  /\ phase[c] = "renaming" /\ kind[c] = k
  /\ \/ /\ target' = [target EXCEPT ![t] = Made(c)]
        /\ Proceed(c, "done") /\ UNCHANGED breaks
     \/ RenameFails /\ Proceed(c, "failed") /\ UNCHANGED target
  /\ UNCHANGED <<spec, kind, input, candidate, lists, account>>
PublishDelivery(c) == Rename(c, "deliver", "artifact")
PublishMigration(c) == Rename(c, "migrate", "document")

\* commitComparePair: both previous files are put aside, ...
BackUp(c) ==
  /\ phase[c] = "backing"
  /\ \/ /\ left[c] = <<>> /\ left' = [left EXCEPT ![c] = Pair] /\ Proceed(c, "placing")
        /\ UNCHANGED <<target, stash, backedUp, breaks>>
     \/ /\ left[c] # <<>> /\ UNCHANGED phase
        /\ LET t == Head(left[c]) IN
           /\ left' = [left EXCEPT ![c] = Tail(@)] /\ UNCHANGED breaks
           /\ IF target[t] = NoFile THEN UNCHANGED <<target, stash, backedUp>>
              ELSE /\ stash' = [stash EXCEPT ![c][t] = target[t]]
                   /\ target' = [target EXCEPT ![t] = NoFile]
                   /\ backedUp' = [backedUp EXCEPT ![c] = Append(@, t)]
     \/ /\ left[c] # <<>> /\ RenameFails /\ Proceed(c, "removing")
        /\ UNCHANGED <<target, stash, left, backedUp>>
  /\ UNCHANGED <<spec, kind, input, candidate, placed, account>>
\* ... then both candidates put in their places.
PutInPlace(c) ==
  /\ phase[c] = "placing"
  /\ \/ /\ left[c] = <<>> /\ Proceed(c, "done") /\ lastPair' = <<Made(c), Made(c)>>
        /\ DropStaging(c) /\ UNCHANGED <<target, breaks>>
     \/ /\ left[c] # <<>> /\ UNCHANGED <<phase, lastPair, stash, backedUp, breaks>>
        /\ LET t == Head(left[c]) IN
           /\ left' = [left EXCEPT ![c] = Tail(@)]
           /\ target' = [target EXCEPT ![t] = Made(c)]
           /\ placed' = [placed EXCEPT ![c] = Append(@, t)]
     \/ /\ left[c] # <<>> /\ RenameFails /\ Proceed(c, "removing")
        /\ UNCHANGED <<target, lists, lastPair>>
  /\ UNCHANGED <<spec, kind, input, candidate, broken, split>>

\* The catch block: what was placed is removed and what was put aside restored, last
\* first; an error is noted and the rest still tried.
TakeBack(c) ==
  /\ phase[c] = "removing"
  /\ \/ /\ placed[c] = <<>> /\ Proceed(c, "restoring")
        /\ UNCHANGED <<target, placed, breaks, broken>>
     \/ /\ placed[c] # <<>> /\ placed' = [placed EXCEPT ![c] = Front(@)] /\ UNCHANGED phase
        /\ \/ /\ target' = [target EXCEPT ![Last(placed[c])] = NoFile]
              /\ UNCHANGED <<breaks, broken>>
           \/ RenameFails /\ broken' = broken \cup {c} /\ UNCHANGED target
  /\ UNCHANGED <<spec, kind, input, candidate, stash, left, backedUp, split, lastPair>>

\* Mutant: what was put aside is left there.
LeaveAside(c) ==
  /\ phase[c] = "restoring" /\ Proceed(c, "failed") /\ DropStaging(c)
  /\ UNCHANGED <<spec, target, kind, input, candidate, breaks, account>>
PutBack(c) ==
  /\ phase[c] = "restoring"
  /\ \/ /\ backedUp[c] = <<>> /\ Proceed(c, "failed") /\ DropStaging(c)
        /\ UNCHANGED <<target, breaks, broken>>
     \/ /\ backedUp[c] # <<>> /\ backedUp' = [backedUp EXCEPT ![c] = Front(@)]
        /\ UNCHANGED <<phase, stash, left, placed>>
        /\ LET t == Last(backedUp[c]) IN
           \/ target' = [target EXCEPT ![t] = stash[c][t]] /\ UNCHANGED <<breaks, broken>>
           \/ /\ RenameFails /\ broken' = broken \cup {c}
              /\ target' \in {target, [target EXCEPT ![t] = NoFile]}
  /\ UNCHANGED <<spec, kind, input, candidate, split, lastPair>>

\* The process dies; its staging directory stays, with what was put aside.
Die(c) ==
  /\ phase[c] \notin {"new", "done", "failed", "dead"} /\ Proceed(c, "dead")
  /\ split' = (split \/ phase[c] \in Committing)
  /\ UNCHANGED <<spec, target, kind, input, candidate, lists, breaks, broken, lastPair>>

DeliveryNext ==
  \/ Edit
  \/ \E c \in Commands :
       \/ BeginDeliver(c) \/ BeginCompare(c) \/ BeginMigrate(c) \/ FailEarly(c)
       \/ ValidateAuthored(c) \/ RenderDelivery(c) \/ RenderCompare(c) \/ RenderMigration(c)
       \/ ConfirmOutput(c) \/ ConfirmSource(c) \/ Precommit(c)
       \/ PublishDelivery(c) \/ PublishMigration(c)
       \/ BackUp(c) \/ PutInPlace(c) \/ TakeBack(c) \/ PutBack(c) \/ Die(c)
DeliverySpec == DeliveryInit /\ [][DeliveryNext]_deliveryVars

-----------------------------------------------------------------------------
(* Properties.                                                                  *)

\* Whatever the author does meanwhile, a published file was rendered from the very
\* specification its receipt names, and passed the checks; and one whose command
\* reported a failure is not there.
DeliveryTruthful ==
  \A t \in Targets : LET c == target[t].by IN c \in Commands =>
    /\ target[t].of = input[c] /\ target[t].of \in Sound
    /\ phase[c] = "failed" => c \in broken \/ split

\* Between commits the pair is that of the last compare that succeeded: never one half
\* of it, and after a failed commit the previous one, unless the restore failed too, a
\* commit was cut short or two of them overlapped.
PairConsistent ==
  (broken = {} /\ ~split /\ \A c \in Commands : phase[c] \notin Committing)
    => <<target["html"], target["receipt"]>> = lastPair

\* A published artifact is what its source says, and a pair is never half replaced.
DeliverySound == DeliveryTruthful /\ PairConsistent
=============================================================================
