---------------------------- MODULE PreviewServer ----------------------------
(* The live preview of the diagram skill (.agents/skills/archify/bin/           *)
(* preview.mjs): one Node process that watches a source file, has a child       *)
(* process deliver an artifact from a snapshot of it, and publishes the         *)
(* artifact only for the source it was made from. Every handler runs to its     *)
(* end; the file, the child and the timers are the environment.                 *)
EXTENDS Naturals
CONSTANTS Sources,      \* contents of the watched file (an unreadable file is one)
          Good,         \* those that deliver can turn into an artifact
          NoSource,
          MaxEdits      \* edits of the file in a behaviour

ASSUME PreviewAssumption == Good \subseteq Sources /\ NoSource \notin Sources /\ MaxEdits \in Nat

VARIABLES
  file, edits,   \* the watched file and the edits made to it
  queued,        \* queuedHash
  timer,         \* debounceTimer is set
  changed,       \* sourceEpoch differs from activeEpoch
  building,      \* activeHash while there is a child
  pending,       \* pendingBuild
  lastGood,      \* lastGoodSourceHash: the source of the artifact served
  output,        \* the source of the artifact in the output file
  status, failed,   \* state.status, and the source its failure is about
  life,          \* running, stopping or stopped
  listening,     \* the HTTP server has not closed yet
  drain,         \* off, grace, term (SIGTERM sent) or kill (SIGKILL sent)
  stuck          \* the children of this behaviour hang and ignore SIGTERM

build == <<queued, timer, changed, building, pending, lastGood, output, status, failed>>
ending == <<life, listening, drain>>
pvars == <<file, edits, build, ending, stuck>>

Previewing == life = "running"

PTypeOK ==
  /\ file \in Sources /\ edits \in 0..MaxEdits /\ queued \in Sources
  /\ {timer, changed, pending, listening, stuck} \subseteq BOOLEAN
  /\ {building, lastGood, failed, output} \subseteq Sources \cup {NoSource}
  /\ status \in {"checking", "verified", "needs-fix"}
  /\ life \in {"running", "stopping", "stopped"}
  /\ drain \in {"off", "grace", "term", "kill"}

\* startPreview ends with observeSource({immediate: true}).
PInit ==
  /\ file \in Sources /\ edits = 0 /\ queued = file
  /\ timer = TRUE /\ changed = TRUE /\ pending = FALSE
  /\ building = NoSource /\ lastGood = NoSource /\ output = NoSource /\ failed = NoSource
  /\ status = "checking" /\ life = "running" /\ listening = TRUE /\ drain = "off"
  /\ stuck \in BOOLEAN

-----------------------------------------------------------------------------
(* The author edits, the server observes and builds.                           *)

Edit ==
  /\ edits < MaxEdits /\ life # "stopped"
  /\ file' \in Sources \ {file} /\ edits' = edits + 1
  /\ UNCHANGED <<build, ending, stuck>>

\* observeSource, from the watcher or the poll: nothing new unless the hash is.
observeSource ==
  /\ Previewing /\ file # queued
  /\ queued' = file /\ timer' = TRUE /\ changed' = TRUE
  /\ UNCHANGED <<file, edits, building, pending, lastGood, output, status, failed, ending, stuck>>

\* Mutant: a source that is back at the verified one is left at the last status.
StatusKept == UNCHANGED <<status, failed>>
\* A source that is back at the verified one needs no build.
Reverted ==
  IF status # "verified"
  THEN status' = "verified" /\ failed' = NoSource
  ELSE UNCHANGED <<status, failed>>

\* beginBuild: the snapshot is written and the child started, or writing fails.
beginBuild(s) ==
  /\ changed' = FALSE
  /\ \/ building' = s /\ status' = "checking" /\ failed' = NoSource
     \/ building' = NoSource /\ status' = "needs-fix" /\ failed' = s

\* launch, when the debounce timer fires: a source that changed again is waited
\* for, the verified one is not built, and a second build waits for the first.
launch ==
  /\ Previewing /\ timer
  /\ \/ /\ file # queued
        /\ queued' = file /\ UNCHANGED <<timer, changed, building, pending, status, failed>>
     \/ /\ file = queued /\ timer' = FALSE /\ UNCHANGED queued
        /\ \/ file = lastGood /\ Reverted /\ UNCHANGED <<changed, building, pending>>
           \/ /\ file # lastGood /\ building # NoSource
              /\ pending' = TRUE /\ UNCHANGED <<changed, building, status, failed>>
           \/ /\ file # lastGood /\ building = NoSource
              /\ beginBuild(file) /\ UNCHANGED pending
  /\ UNCHANGED <<file, edits, lastGood, output, ending, stuck>>

\* Mutant: the candidate is published for whatever source is there now.
AnySource == TRUE
\* commitCandidate's last look at the source before it publishes.
SameSource == file = building

\* commitCandidate: publishes the candidate and serves it, gives way to a newer
\* source, or reports why it cannot publish.
commitCandidate(superseded) ==
  \/ /\ SameSource /\ ~superseded
     /\ output' = building /\ lastGood' = building
     /\ status' = "verified" /\ failed' = NoSource
  \/ ~SameSource /\ superseded /\ UNCHANGED <<output, lastGood, status, failed>>
  \/ ~superseded /\ UNCHANGED <<output, lastGood>> /\ status' = "needs-fix" /\ failed' = building

publishFailure == status' = "needs-fix" /\ failed' = building /\ UNCHANGED <<output, lastGood>>

\* The close event of the child: its result counts only when no newer source was
\* observed meanwhile, and a newer one is queued at once.
CloseChild ==
  /\ building # NoSource /\ (stuck => drain = "kill")
  /\ building' = NoSource /\ drain' = "off"
  /\ \E superseded \in BOOLEAN :
       /\ \/ Previewing /\ ~changed /\ building \in Good /\ commitCandidate(superseded)
          \/ Previewing /\ ~changed /\ ~superseded /\ publishFailure
          \/ (~Previewing \/ changed) /\ ~superseded /\ UNCHANGED <<output, lastGood, status, failed>>
       /\ IF Previewing /\ (pending \/ changed \/ superseded)
          THEN pending' = FALSE /\ queued' = file /\ timer' = TRUE /\ changed' = TRUE
          ELSE UNCHANGED <<pending, queued, timer, changed>>
  /\ life' = IF ~Previewing /\ ~listening THEN "stopped" ELSE life
  /\ UNCHANGED <<file, edits, listening, stuck>>

-----------------------------------------------------------------------------
(* Stopping.                                                                   *)

\* stop(): the first SIGINT or SIGTERM, a later one forces the child down.
stop ==
  /\ life = "running"
  /\ life' = "stopping" /\ timer' = FALSE
  /\ drain' = IF building = NoSource THEN "off" ELSE "grace"
  /\ UNCHANGED <<file, edits, queued, changed, building, pending, lastGood, output, status,
                 failed, listening, stuck>>
forceStop ==
  /\ life = "stopping" /\ building # NoSource
  /\ drain' = "kill"
  /\ UNCHANGED <<file, edits, build, life, listening, stuck>>

\* Mutant: the graceful signal is the last one.
TermOnly == drain = "grace" /\ drain' = "term"
\* startBoundedChildDrain's two timers.
Escalate == \/ drain = "grace" /\ drain' = "term"
            \/ drain = "term" /\ drain' = "kill"
DrainTimer ==
  /\ life = "stopping" /\ building # NoSource /\ Escalate
  /\ UNCHANGED <<file, edits, build, life, listening, stuck>>

\* finishStop removes the staging directory once child and server are gone.
ServerClosed ==
  /\ life = "stopping" /\ listening
  /\ listening' = FALSE
  /\ life' = IF building = NoSource THEN "stopped" ELSE life
  /\ UNCHANGED <<file, edits, build, drain, stuck>>

PNext == \/ Edit \/ observeSource \/ launch \/ CloseChild
         \/ stop \/ forceStop \/ DrainTimer \/ ServerClosed

\* Timers fire, the watcher or the poll sees the file, a child that does not hang
\* ends, a killed one too, and a closing server closes.
PFairness == /\ WF_pvars(observeSource) /\ WF_pvars(launch) /\ WF_pvars(CloseChild)
             /\ WF_pvars(DrainTimer) /\ WF_pvars(ServerClosed)
PSpec == PInit /\ [][PNext]_pvars /\ PFairness

-----------------------------------------------------------------------------
(* Properties.                                                                 *)

\* What is published was made from the source as it is at that moment, never from
\* an older one that a slow build finished late.
PublishedFromSource == [][output' # output => output' = file]_pvars

\* Once the author stops editing, the status is about the source as it is: its
\* artifact is served as verified, or its failure is shown.
SettlesOnSource ==
  <>[](\/ life # "running" \/ stuck
       \/ status = "verified" /\ lastGood = file
       \/ status = "needs-fix" /\ failed = file)

\* A stop ends, even when the child hangs, and never before the child is gone.
StopEnds == [](life = "stopping" => <>(life = "stopped" /\ building = NoSource))

\* A preview publishes what it made of the source as it is, ends up with a status about
\* it, and a stop ends.
PreviewSettles == PublishedFromSource /\ SettlesOnSource /\ StopEnds

=============================================================================
