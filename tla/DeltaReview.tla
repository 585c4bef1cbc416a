----------------------------- MODULE DeltaReview -----------------------------
(* The review on a Delta page (the script that renderArchitectureDeltaHtml        *)
(* embeds, .agents/skills/archify/delta/architecture-delta.mjs): a reader steps    *)
(* through the changes or lets them play, one every 1400 ms. Handlers run to their *)
(* end; what happens between them is the reader, the timer, the browser, and       *)
(* whatever else alters the page (an extension, the developer tools).              *)
EXTENDS Naturals
CONSTANTS MaxRows,    \* changes on a page
          MaxToken    \* bound: the reader acts until playbackToken is here
ASSUME ReviewAssumption == MaxRows \in Nat /\ MaxToken \in Nat

None == 0   \* no row (activeIndex is -1), and no timer

VARIABLES
  rows,        \* rowButtons.length
  intact,      \* the rows whose targets in the drawing still are what they were
  available,   \* reviewAvailable
  active,      \* activeIndex + 1
  lit,         \* the rows whose targets are marked as current
  playing, token,   \* and playbackToken
  playTimer,   \* playbackTimer, named by the token its callback closes over
  due,         \* the tokens of the callbacks that a timeout will run
  view,        \* the snapshot shown
  focus,       \* what has the focus
  calm         \* prefers-reduced-motion

marking == <<available, active, lit>>
playback == <<playing, token, playTimer, due>>
reviewVars == <<rows, intact, marking, playback, view, focus, calm>>

\* validateReview, when the page is loaded.
ReviewInit ==
  /\ rows \in 0..MaxRows /\ intact \in SUBSET (1..rows)
  /\ available = (intact = 1..rows)
  /\ active = None /\ lit = {}
  /\ playing = FALSE /\ token = 0 /\ playTimer = None /\ due = {}
  /\ view = "delta" /\ focus = "page" /\ calm \in BOOLEAN

\* stopPlayback, and that after it nothing else takes a token.
Halt(tokens) == token' = token + tokens /\ playing' = FALSE /\ playTimer' = None /\ due' = due \ {playTimer}
stopPlayback == Halt(1)

\* failReview.
Failed == available' = FALSE /\ active' = None /\ lit' = {}

\* selectChange after stopPlayback, for a row there is (the buttons for others, and all of
\* them once the review is not available, are disabled): a mismatch, or the row.
Selected(i) ==
  IF i \in intact
  THEN stopPlayback /\ active' = i /\ lit' = {i} /\ view' = "delta" /\ UNCHANGED available
  ELSE Halt(2) /\ Failed /\ UNCHANGED view

\* overview, which fails once more where the review is not available.
overview ==
  /\ stopPlayback
  /\ IF available THEN active' = None /\ lit' = {} /\ view' = "delta" /\ UNCHANGED available
     ELSE Failed /\ UNCHANGED view

Acting == token < MaxToken /\ UNCHANGED <<rows, intact, calm>>

\* A button is focused before it is pressed, by the keyboard or by the mouse.
Focus(on) ==
  /\ Acting /\ focus # on /\ focus' = on
  /\ IF playing /\ on # "page" THEN stopPlayback ELSE UNCHANGED playback
  /\ UNCHANGED <<marking, view>>

Tab(v) == Acting /\ focus = "button" /\ stopPlayback /\ view' = v /\ UNCHANGED <<marking, focus>>

Row(i) == Acting /\ focus = "button" /\ available /\ Selected(i) /\ UNCHANGED focus
\* Up, Down, Home and End only move the focus.
RowKey == Acting /\ focus = "button" /\ available /\ stopPlayback /\ UNCHANGED <<marking, view, focus>>

Previous ==
  Acting /\ focus = "button" /\ available /\ active > 1 /\ Selected(active - 1) /\ UNCHANGED focus
NextRow ==
  /\ Acting /\ focus = "button" /\ available /\ active # None /\ active < rows
  /\ Selected(active + 1) /\ UNCHANGED focus

Overview == Acting /\ focus = "button" /\ available /\ active # None /\ overview /\ UNCHANGED focus
Escape == Acting /\ active # None /\ overview /\ focus' = "play"
PrintStart == Acting /\ overview /\ UNCHANGED focus

\* startReview: a review that plays is paused, any other starts with the first change.
Play ==
  /\ Acting /\ focus = "play" /\ available /\ rows > 0 /\ UNCHANGED focus
  /\ IF playing THEN stopPlayback /\ UNCHANGED <<marking, view>>
     ELSE IF 1 \notin intact \/ calm \/ rows < 2 THEN Selected(1)
     ELSE /\ active' = 1 /\ lit' = {1} /\ view' = "delta" /\ UNCHANGED available
          /\ playing' = TRUE /\ token' = token + 2
          /\ playTimer' = token + 2 /\ due' = (due \ {playTimer}) \cup {token + 2}

Hide == Acting /\ stopPlayback /\ UNCHANGED <<marking, view, focus>>
Calm ==
  /\ token < MaxToken /\ calm' = ~calm
  /\ IF calm' THEN stopPlayback ELSE UNCHANGED playback
  /\ UNCHANGED <<rows, intact, marking, view, focus>>

\* Something else alters what a row points at.
Disturb(i) ==
  /\ i \in intact /\ intact' = intact \ {i}
  /\ UNCHANGED <<rows, marking, playback, view, focus, calm>>

\* schedulePlayback once a row is selected: at the last one the review is over.
\* Mutant: it merely sets no other timer.
ScheduleAndStay(of) ==
  UNCHANGED <<playing, token, playTimer>> /\ due' = IF active' < rows THEN due ELSE due \ {of}
Schedule(of) ==
  IF active' < rows THEN UNCHANGED playback
  ELSE token' = token + 1 /\ playing' = FALSE /\ playTimer' = None /\ due' = due \ {of}

\* The callback of a timeout, which another token's has to leave alone.
Timeout(of) ==
  /\ of \in due /\ UNCHANGED <<rows, intact, focus, calm>>
  /\ IF ~playing \/ of # token
     THEN due' = due \ {of} /\ UNCHANGED <<playing, token, playTimer, marking, view>>
     ELSE IF active + 1 \in intact
     THEN /\ active' = active + 1 /\ lit' = {active + 1} /\ view' = "delta" /\ UNCHANGED available
          /\ Schedule(of)
     ELSE /\ token' = token + 1 /\ playing' = FALSE /\ playTimer' = None /\ due' = due \ {of, playTimer}
          /\ Failed /\ UNCHANGED view

ReviewNext ==
  \/ \E on \in {"page", "button", "play"} : Focus(on)
  \/ \E v \in {"base", "delta", "head"} : Tab(v)
  \/ \E i \in 1..rows : Row(i) \/ Disturb(i)
  \/ RowKey \/ Previous \/ NextRow \/ Overview \/ Escape \/ PrintStart \/ Play \/ Hide \/ Calm
  \/ \E of \in due : Timeout(of)

ReviewFairness == WF_reviewVars(\E of \in due : Timeout(of))
ReviewSpec == ReviewInit /\ [][ReviewNext]_reviewVars /\ ReviewFairness

-----------------------------------------------------------------------------
\* What is marked is the selected row and nothing else; a review plays only over the
\* Delta, between two rows, with one timeout of its own ahead; and once anything stops
\* it no timeout is left that could move the selection from under the reader.
ReviewTruthful ==
  /\ lit = (IF active = None THEN {} ELSE {active})
  /\ playing => available /\ view = "delta" /\ active \in 1..(rows - 1) /\ due = {token}
  /\ ~playing => due = {}
  /\ ~available => active = None

\* While it plays, the selection moves on row by row.
PlaysInOrder == [][playing /\ playing' => active' \in {active, active + 1}]_reviewVars

\* A review that plays comes to an end, whatever the reader does or leaves, and after
\* every step the page shows what it is at.
ReviewSettles == [][ReviewTruthful']_reviewVars /\ PlaysInOrder /\ (playing ~> ~playing)
=============================================================================
