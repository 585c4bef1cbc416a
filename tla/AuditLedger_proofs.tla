-------------------------- MODULE AuditLedger_proofs --------------------------
(***************************************************************************)
(* TLAPS proofs about AuditLedger, for any number of decisions, failing    *)
(* appends and crashes, and any verification interval.                     *)
(***************************************************************************)
EXTENDS AuditLedger, SequenceTheorems, TLAPS

-----------------------------------------------------------------------------
(* The inductive invariant                                                 *)

Entries == Len(audit.lines)
Checkpoints == Len(chk.lines)
\* The ledger's head when it had k entries.
HeadIn(lines, k) == IF k = 0 THEN NoEvent ELSE lines[k].event
HeadAt(k) == HeadIn(audit.lines, k)

\* The two chains, without the files' prefixes.
Linked ==
  /\ \A k \in 1..Entries : audit.lines[k].sequence = k /\ audit.lines[k].previous = HeadAt(k - 1)
  /\ CheckpointsChained
  /\ \A c \in 1..Checkpoints : /\ chk.lines[c].sequence \in 1..Entries
                               /\ chk.lines[c].head = HeadAt(chk.lines[c].sequence)

\* The writer's fields describe the files as they once were, whole, and in the middle
\* of an append as they are.
MemoryTrue ==
  /\ mem.auditState = <<mem.sequence, FALSE>> /\ mem.chkState = <<mem.chkHead, FALSE>>
  /\ mem.sequence <= Entries /\ mem.head = HeadAt(mem.sequence) /\ mem.chkHead <= Checkpoints
  /\ at \in {"checked", "appended"} => StorageUnchanged /\ mem.appends < Interval
  /\ at = "down" => queue = <<>>

\* A decision is queued once and recorded once; what is queued is not recorded yet, but
\* for the one being appended; and only a queued decision still waits for its answer.
DecisionsOnce ==
  /\ \A j, k \in 1..Entries : audit.lines[j].event = audit.lines[k].event => j = k
  /\ \A i, j \in 1..Len(queue) : queue[i] = queue[j] => i = j
  /\ \A i \in 1..Len(queue) : status[queue[i]] \in {"sent", "refused"}
  /\ \A k \in 1..Entries : status[audit.lines[k].event] # "new"
  /\ \A k \in 1..Entries, i \in 1..Len(queue) :
       audit.lines[k].event = queue[i] => i = 1 /\ k = Entries /\ at = "appended"
  /\ at = "appended" => Entries > 0 /\ audit.lines[Entries].event = queue[1]

LastChk == chk.lines[Checkpoints]
\* Before any append has failed, the files are whole and the ledger is level with its
\* checkpoints, but for an entry just appended or one a crash has cut off.
Level ==
  faults = 0 =>
    /\ ~audit.torn /\ ~chk.torn
    /\ at \in {"ready", "checked"} =>
         /\ StorageUnchanged
         /\ IF Checkpoints = 0 THEN Entries = 0 ELSE Matches(LastChk)
    /\ at = "appended" /\ Checkpoints > 0 => Recoverable(LastChk)
    /\ at = "down" /\ Checkpoints > 0 => Matches(LastChk) \/ Recoverable(LastChk)

LedgerInv == Linked /\ MemoryTrue /\ DecisionsOnce /\ GrantsCheckpointed /\ Level

-----------------------------------------------------------------------------
(* Files and their heads                                                       *)

LEMMA Appending ==
  ASSUME NEW S, NEW s \in Seq(S), NEW x \in S
  PROVE  /\ Append(s, x) \in Seq(S) /\ Len(Append(s, x)) = Len(s) + 1
         /\ \A i \in 1..Len(s) : Append(s, x)[i] = s[i]
         /\ Append(s, x)[Len(s) + 1] = x
BY AppendProperties

LEMMA Heads ==
  ASSUME TypeOK
  PROVE  /\ Entries \in Nat /\ Checkpoints \in Nat
         /\ \A k \in 0..Entries : HeadAt(k) \in Hash
         /\ HeadOf(audit.lines) = HeadAt(Entries)
         /\ \A k \in 1..Entries : HeadOf(SubSeq(audit.lines, 1, k - 1)) = HeadAt(k - 1)
         /\ audit.lines # <<>> => Last(audit.lines) = audit.lines[Entries]
         /\ chk.lines # <<>> => Last(chk.lines) = LastChk
         /\ audit.lines = <<>> <=> Entries = 0
         /\ chk.lines = <<>> <=> Checkpoints = 0
<1> USE DEF Entries, Checkpoints
<1>1. audit.lines \in Seq(Entry) /\ chk.lines \in Seq(Checkpoint)
  BY DEF TypeOK
<1>2. /\ Entries \in Nat /\ Checkpoints \in Nat
      /\ audit.lines = <<>> <=> Entries = 0
      /\ chk.lines = <<>> <=> Checkpoints = 0
  BY <1>1, EmptySeq
<1>3. \A k \in 1..Entries : audit.lines[k] \in Entry
  BY <1>1, ElementOfSeq
<1>4. \A k \in 0..Entries : HeadAt(k) \in Hash
  BY <1>2, <1>3 DEF HeadAt, HeadIn, Entry, Hash
<1>5. HeadOf(audit.lines) = HeadAt(Entries)
  BY <1>2 DEF HeadOf, HeadAt, HeadIn, Last
<1>6. ASSUME NEW k \in 1..Entries PROVE HeadOf(SubSeq(audit.lines, 1, k - 1)) = HeadAt(k - 1)
  <2> DEFINE s == SubSeq(audit.lines, 1, k - 1)
  <2>1. /\ s \in Seq(Entry) /\ Len(s) = k - 1
        /\ \A i \in 1..(k - 1) : s[i] = audit.lines[i]
    BY <1>2, <1>3, SubSeqProperties
  <2>2. CASE k = 1
    BY <2>1, <2>2, EmptySeq DEF HeadOf, HeadAt, HeadIn
  <2>3. CASE k # 1
    <3>1. s # <<>> /\ Last(s) = audit.lines[k - 1]
      BY <1>2, <2>1, <2>3 DEF Last
    <3>2. QED
      BY <1>2, <2>3, <3>1 DEF HeadOf, HeadAt, HeadIn
  <2>4. QED
    BY <2>2, <2>3
<1>7. QED
  BY <1>2, <1>4, <1>5, <1>6 DEF Last, LastChk

LEMMA ChainsLinked == ASSUME TypeOK PROVE Linked <=> ChainsIntact
<1>1. EntriesChained <=> \A k \in 1..Entries : /\ audit.lines[k].sequence = k
                                               /\ audit.lines[k].previous = HeadAt(k - 1)
  BY Heads DEF EntriesChained, Entries
<1>2. \A c \in 1..Checkpoints : chk.lines[c].sequence \in 1..Entries =>
        HeadAt(chk.lines[c].sequence) = audit.lines[chk.lines[c].sequence].event
  BY Heads DEF HeadAt, HeadIn
<1>3. QED
  BY <1>1, <1>2 DEF Linked, ChainsIntact, Checkpoints, Entries

\* The files the writer finds consistent.
LEMMA WhatIsConsistent ==
  ASSUME TypeOK, Linked
  PROVE  /\ Consistent <=> /\ ~audit.torn /\ ~chk.torn
                           /\ Checkpoints > 0 => Matches(LastChk) \/ Recoverable(LastChk)
         /\ CatchesUp <=> IF Checkpoints = 0 THEN Entries > 0 ELSE ~Matches(LastChk)
         /\ Checkpoints > 0 =>
              /\ Matches(LastChk) <=> /\ LastChk.sequence = Entries /\ LastChk.size = Entries
              /\ Recoverable(LastChk) => Entries > 0
<1>1. Consistent <=> /\ ~audit.torn /\ ~chk.torn
                     /\ Checkpoints > 0 => Matches(LastChk) \/ Recoverable(LastChk)
  BY ChainsLinked, Heads DEF Consistent, AuditValid, CheckpointsValid, ChainsIntact
<1>2. CatchesUp <=> IF Checkpoints = 0 THEN Entries > 0 ELSE ~Matches(LastChk)
  BY Heads DEF CatchesUp
<1>3. ASSUME Checkpoints > 0
      PROVE  /\ LastChk \in Checkpoint /\ LastChk.head = HeadAt(LastChk.sequence)
             /\ LastChk.sequence \in 1..Entries
  <2>1. Checkpoints \in 1..Checkpoints
    BY <1>3, Heads
  <2>2. QED
    BY <2>1 DEF Linked, LastChk, TypeOK, Checkpoints
<1>4. QED
  BY <1>1, <1>2, <1>3, Heads DEF Matches, Recoverable, Entries

-----------------------------------------------------------------------------
(* The writer's steps, one outcome at a time                                   *)

EntryLine == [event |-> Head(queue), sequence |-> Entries + 1, previous |-> HeadAt(Entries)]
CheckpointLine == [sequence |-> Entries, head |-> HeadAt(Entries), size |-> Entries,
                   previous |-> Checkpoints]
AuditGrows == audit' = [audit EXCEPT !.lines = Append(audit.lines, EntryLine)]
ChkGrows == chk' = [chk EXCEPT !.lines = Append(chk.lines, CheckpointLine)]
Failed == faults < MaxFaults /\ faults' = faults + 1
\* An append that throws may have written all of the line nonetheless.
AuditFails == Failed /\ (AuditGrows \/ \E b \in BOOLEAN : audit' = [audit EXCEPT !.torn = b])
ChkFails == Failed /\ (ChkGrows \/ \E b \in BOOLEAN : chk' = [chk EXCEPT !.torn = b])
\* The files are verified from their start and level then.
Anchored ==
  /\ Consistent /\ UNCHANGED faults /\ mem' = Reloaded
  /\ IF CatchesUp THEN ChkGrows ELSE UNCHANGED chk

EntryWritten ==
  /\ at = "checked" /\ at' = "appended" /\ AuditGrows
  /\ mem' = [mem EXCEPT !.sequence = Entries + 1, !.head = Head(queue),
                        !.auditState = Size(audit')]
  /\ UNCHANGED <<chk, queue, status, faults, crashes>>
EntryFailed ==
  /\ at = "checked" /\ at' = "ready" /\ AuditFails /\ Answer("refused")
  /\ UNCHANGED <<chk, mem, crashes>>
CheckpointWritten ==
  /\ at = "appended" /\ at' = "ready" /\ ChkGrows /\ Answer("granted")
  /\ mem' = [mem EXCEPT !.chkHead = Checkpoints + 1, !.chkState = Size(chk'),
                        !.appends = mem.appends + 1]
  /\ UNCHANGED <<audit, faults, crashes>>
CheckpointFailed ==
  /\ at = "appended" /\ at' = "ready" /\ ChkFails /\ Answer("refused")
  /\ UNCHANGED <<audit, mem, crashes>>
Checked ==
  /\ at = "ready" /\ at' = "checked" /\ queue # <<>> /\ StorageUnchanged /\ mem.appends < Interval
  /\ UNCHANGED <<audit, chk, mem, queue, status, faults, crashes>>
Reloads ==
  /\ \/ at = "ready" /\ at' = "checked" /\ queue # <<>>
     \/ at = "down" /\ at' = "ready"
  /\ Anchored /\ UNCHANGED <<audit, queue, status, crashes>>
Refused ==
  /\ at = "ready" /\ queue # <<>> /\ Answer("refused")
  /\ \/ Consistent /\ CatchesUp /\ ChkFails
     \/ /\ UNCHANGED <<chk, faults>>
        /\ ~StorageUnchanged \/ ~Consistent
  /\ UNCHANGED <<audit, mem, at, crashes>>
RestartFails ==
  /\ at = "down" /\ Consistent /\ CatchesUp /\ ChkFails
  /\ UNCHANGED <<audit, mem, at, queue, status, crashes>>
WriterStep ==
  \/ EntryWritten \/ EntryFailed \/ CheckpointWritten \/ CheckpointFailed
  \/ Checked \/ Reloads \/ Refused \/ RestartFails

LEMMA Appends ==
  ASSUME NEW L, NEW file \in [lines : L, torn : BOOLEAN], NEW line, NEW o \in Outcome
  PROVE  /\ o = "ok" => Appended(file, line, o) = [file EXCEPT !.lines = Append(file.lines, line)]
         /\ o # "ok" =>
              \/ Appended(file, line, o) = [file EXCEPT !.lines = Append(file.lines, line)]
              \/ \E b \in BOOLEAN : Appended(file, line, o) = [file EXCEPT !.torn = b]
         /\ Tried(o) => IF o = "ok" THEN UNCHANGED faults ELSE Failed
<1>1. o \in {"ok", "late"} =>
        Appended(file, line, o) = [file EXCEPT !.lines = Append(file.lines, line)]
  BY DEF Appended
<1>2. o = "torn" => Appended(file, line, o) = [file EXCEPT !.torn = TRUE]
  BY DEF Appended
<1>3. o = "none" => Appended(file, line, o) = [file EXCEPT !.torn = file.torn]
  BY DEF Appended
<1>4. file.torn \in BOOLEAN
  OBVIOUS
<1>5. o # "ok" => o \in {"none", "torn", "late"}
  BY DEF Outcome
<1>6. o # "ok" =>
              \/ Appended(file, line, o) = [file EXCEPT !.lines = Append(file.lines, line)]
              \/ \E b \in BOOLEAN : Appended(file, line, o) = [file EXCEPT !.torn = b]
  BY <1>1, <1>2, <1>3, <1>4, <1>5
<1>7. Tried(o) => IF o = "ok" THEN UNCHANGED faults ELSE Failed
  BY DEF Tried, Failed
<1>8. QED
  BY <1>1, <1>6, <1>7

\* What the writer knows in the middle of an append.
LEMMA MidAppend ==
  ASSUME TypeOK, MemoryTrue, at \in {"checked", "appended"}
  PROVE  /\ mem.sequence = Entries /\ mem.head = HeadAt(Entries) /\ mem.chkHead = Checkpoints
         /\ ~audit.torn /\ ~chk.torn
<1>1. /\ <<mem.sequence, FALSE>> = <<Entries, audit.torn>>
      /\ <<mem.chkHead, FALSE>> = <<Checkpoints, chk.torn>>
      /\ mem.head = HeadAt(mem.sequence)
  BY DEF MemoryTrue, StorageUnchanged, Size, Entries, Checkpoints
<1>2. mem.sequence = Entries /\ mem.chkHead = Checkpoints /\ ~audit.torn /\ ~chk.torn
  BY <1>1
<1>3. QED
  BY <1>1, <1>2

LEMMA AssertSteps ==
  ASSUME TypeOK, NEW o \in Outcome, AssertConsistent(o)
  PROVE  /\ o = "ok" /\ mem' = Reloaded => Anchored
         /\ o # "ok" => Consistent /\ CatchesUp /\ ChkFails
<1>1. CheckpointOf(Len(audit.lines), HeadOf(audit.lines), Len(chk.lines)) = CheckpointLine
  BY Heads DEF CheckpointOf, CheckpointLine, Entries, Checkpoints
<1>2. ASSUME CatchesUp, o = "ok" PROVE ChkGrows /\ UNCHANGED faults
  BY <1>1, <1>2, Appends DEF TypeOK, AssertConsistent, ChkGrows
<1>3. ASSUME o # "ok" PROVE Consistent /\ CatchesUp /\ ChkFails
  <2>1. Consistent /\ CatchesUp /\ Tried(o) /\ chk' = Appended(chk, CheckpointLine, o)
    BY <1>1, <1>3 DEF AssertConsistent
  <2>2. chk \in [lines : Seq(Checkpoint), torn : BOOLEAN]
    BY DEF TypeOK
  <2>3. QED
    BY <1>3, <2>1, <2>2, Appends DEF ChkFails, ChkGrows
<1>4. QED
  BY <1>2, <1>3 DEF AssertConsistent, Anchored

LEMMA WriterSteps ==
  ASSUME TypeOK, MemoryTrue, Operate \/ Start
  PROVE  WriterStep
<1> USE DEF WriterStep
<1>1. CASE Check
  BY <1>1 DEF Check, Checked, Refused
<1>2. CASE Reverify
  <2>1. CASE Consistent
    <3>1. PICK o \in Outcome :
            /\ AssertConsistent(o)
            /\ IF o = "ok"
               THEN at' = "checked" /\ mem' = Reloaded /\ UNCHANGED <<queue, status>>
               ELSE Answer("refused") /\ UNCHANGED <<at, mem>>
      BY <1>2, <2>1 DEF Reverify
    <3>2. CASE o = "ok"
      BY <1>2, <3>1, <3>2, AssertSteps DEF Reverify, Reloads
    <3>3. CASE o # "ok"
      BY <1>2, <3>1, <3>3, AssertSteps DEF Reverify, Refused
    <3>4. QED
      BY <3>2, <3>3
  <2>2. CASE ~Consistent
    BY <1>2, <2>2 DEF Reverify, Refused
  <2>3. QED
    BY <2>1, <2>2
<1>3. CASE AppendEntry
  <2>1. PICK o \in Outcome :
       /\ Tried(o)
       /\ audit' = Appended(audit, [event |-> Head(queue),
                                    sequence |-> mem.sequence + 1,
                                    previous |-> mem.head], o)
       /\ IF o = "ok"
          THEN /\ at' = "appended"
               /\ mem' = [mem EXCEPT !.sequence = @ + 1, !.head = Head(queue),
                                     !.auditState = Size(audit')]
               /\ UNCHANGED <<queue, status>>
          ELSE /\ at' = "ready"
               /\ Answer("refused")
               /\ UNCHANGED mem
    BY <1>3 DEF AppendEntry
  <2>2. at = "checked" /\ UNCHANGED <<chk, crashes>>
    BY <1>3 DEF AppendEntry
  <2>3. audit' = Appended(audit, EntryLine, o)
    BY <2>1, <2>2, MidAppend DEF EntryLine
  <2>4. CASE o = "ok"
    <3>1. AuditGrows /\ UNCHANGED faults
      <4>1. audit \in [lines : Seq(Entry), torn : BOOLEAN]
        BY DEF TypeOK
      <4>2. audit' = [audit EXCEPT !.lines = Append(audit.lines, EntryLine)]
        BY <2>3, <2>4, <4>1, Appends
      <4>3. UNCHANGED faults
        BY <2>1, <2>4, <4>1, Appends
      <4>4. QED
        BY <4>2, <4>3 DEF AuditGrows
    <3>2. mem' = [mem EXCEPT !.sequence = Entries + 1, !.head = Head(queue),
                             !.auditState = Size(audit')]
      BY <2>1, <2>2, <2>4, MidAppend
    <3>3. QED
      BY <2>1, <2>2, <2>4, <3>1, <3>2 DEF EntryWritten
  <2>5. CASE o # "ok"
    <3>1. audit \in [lines : Seq(Entry), torn : BOOLEAN]
      BY DEF TypeOK
    <3>2. o \in Outcome /\ Tried(o)
      BY <2>1
    <3>3. AuditFails
      BY <2>3, <2>5, <3>1, <3>2, Appends DEF AuditFails, AuditGrows
    <3>4. QED
      BY <2>1, <2>2, <2>5, <3>3 DEF EntryFailed
  <2>6. QED
    BY <2>4, <2>5
<1>4. CASE AppendCheckpoint
  <2> DEFINE verdict == [o \in Outcome |-> IF o = "ok" THEN "granted" ELSE "refused"]
  <2>1. PICK o \in Outcome :
          /\ Tried(o)
          /\ chk' = Appended(chk, CheckpointOf(mem.sequence, mem.head, mem.chkHead), o)
          /\ mem' = IF o = "ok"
                    THEN [mem EXCEPT !.chkHead = @ + 1, !.chkState = Size(chk'),
                                     !.appends = @ + 1]
                    ELSE mem
          /\ Answer(verdict[o])
    BY <1>4 DEF AppendCheckpoint, WriteCheckpoint
  <2>2. at = "appended" /\ at' = "ready" /\ UNCHANGED <<audit, crashes>>
    BY <1>4 DEF AppendCheckpoint, WriteCheckpoint
  <2>3. CheckpointOf(mem.sequence, mem.head, mem.chkHead) = CheckpointLine
    BY <2>2, MidAppend DEF CheckpointOf, CheckpointLine, Entries
  <2>4. chk' = Appended(chk, CheckpointLine, o)
    BY <2>1, <2>3
  <2>5. CASE o = "ok"
    <3>1. ChkGrows /\ UNCHANGED faults
      BY <2>1, <2>4, <2>5, Appends DEF TypeOK, ChkGrows
    <3>2. mem' = [mem EXCEPT !.chkHead = Checkpoints + 1, !.chkState = Size(chk'),
                             !.appends = mem.appends + 1]
      BY <2>1, <2>2, <2>5, MidAppend
    <3>3. QED
      BY <2>1, <2>2, <2>5, <3>1, <3>2 DEF CheckpointWritten
  <2>6. CASE o # "ok"
    <3>1. chk \in [lines : Seq(Checkpoint), torn : BOOLEAN]
      BY DEF TypeOK
    <3>2. ChkFails
      BY <2>1, <2>4, <2>6, <3>1, Appends DEF ChkFails, ChkGrows
    <3>3. QED
      BY <2>1, <2>2, <2>6, <3>2 DEF CheckpointFailed
  <2>7. QED
    BY <2>5, <2>6
<1>5. CASE Start
  <2>1. PICK o \in Outcome :
       /\ AssertConsistent(o)
       /\ IF o = "ok" THEN at' = "ready" /\ mem' = Reloaded
                      ELSE UNCHANGED <<at, mem>>
    BY <1>5 DEF Start
  <2>2. CASE o = "ok"
    BY <1>5, <2>1, <2>2, AssertSteps DEF Start, Reloads
  <2>3. CASE o # "ok"
    BY <1>5, <2>1, <2>3, AssertSteps DEF Start, RestartFails
  <2>4. QED
    BY <2>2, <2>3
<1>6. QED
  BY <1>1, <1>2, <1>3, <1>4, <1>5 DEF Operate

-----------------------------------------------------------------------------
(* What a step does to the files and to the queue                              *)

LEMMA QueueFront ==
  ASSUME TypeOK, queue # <<>>
  PROVE  /\ Head(queue) = queue[1] /\ Head(queue) \in Events /\ Len(queue) > 0
         /\ Tail(queue) \in Seq(Events) /\ Len(Tail(queue)) = Len(queue) - 1
         /\ \A i \in 1..Len(Tail(queue)) : i + 1 \in 1..Len(queue) /\ Tail(queue)[i] = queue[i + 1]
<1>1. queue \in Seq(Events)
  BY DEF TypeOK
<1>2. /\ Head(queue) = queue[1] /\ Head(queue) \in Events
      /\ Tail(queue) \in Seq(Events) /\ Len(Tail(queue)) = Len(queue) - 1
      /\ \A i \in 1..Len(Tail(queue)) : Tail(queue)[i] = queue[i + 1]
  BY <1>1, HeadTailProperties
<1>3. Len(queue) \in Nat \ {0}
  BY <1>1, EmptySeq
<1>4. QED
  BY <1>2, <1>3

\* Nothing is ever taken from a file or changed in it; a step adds a line at most, and to
\* one of them.
Kept ==
  /\ audit' \in [lines : Seq(Entry), torn : BOOLEAN]
  /\ chk' \in [lines : Seq(Checkpoint), torn : BOOLEAN]
  /\ \A k \in 1..Entries : audit'.lines[k] = audit.lines[k]
  /\ \A c \in 1..Checkpoints : chk'.lines[c] = chk.lines[c]
  /\ Entries' \in {Entries, Entries + 1} /\ Checkpoints' \in {Checkpoints, Checkpoints + 1}
  /\ Entries' # Entries => /\ at = "checked" /\ audit'.lines[Entries + 1] = EntryLine
                           /\ chk' = chk
  /\ Checkpoints' # Checkpoints => /\ chk'.lines[Checkpoints + 1] = CheckpointLine /\ audit' = audit
                                   /\ at = "appended" \/ (Consistent /\ CatchesUp)

LEMMA FilesKept ==
  ASSUME TypeOK, WriterStep \/ UNCHANGED <<audit, chk>>
  PROVE  Kept
<1> USE DEF Entries, Checkpoints
<1>1. Entries \in Nat /\ Checkpoints \in Nat
  BY Heads
<1>2. /\ audit \in [lines : Seq(Entry), torn : BOOLEAN]
      /\ chk \in [lines : Seq(Checkpoint), torn : BOOLEAN]
  BY DEF TypeOK
<1>3. ASSUME AuditGrows, queue # <<>>
      PROVE  /\ audit' \in [lines : Seq(Entry), torn : BOOLEAN] /\ Entries' = Entries + 1
             /\ \A k \in 1..Entries : audit'.lines[k] = audit.lines[k]
             /\ audit'.lines[Entries + 1] = EntryLine
  <2>1. EntryLine \in Entry
    BY <1>1, <1>3, QueueFront, Heads DEF EntryLine, Entry
  <2>2. audit'.lines = Append(audit.lines, EntryLine) /\ audit'.torn = audit.torn
        /\ audit' = [lines |-> audit'.lines, torn |-> audit'.torn]
    BY <1>2, <1>3 DEF AuditGrows
  <2>3. /\ audit'.lines \in Seq(Entry) /\ Len(audit'.lines) = Entries + 1
        /\ \A k \in 1..Entries : audit'.lines[k] = audit.lines[k]
        /\ audit'.lines[Entries + 1] = EntryLine
    BY <1>2, <2>1, <2>2, Appending
  <2>4. QED
    BY <1>2, <2>2, <2>3
<1>4. ASSUME ChkGrows
      PROVE  /\ chk' \in [lines : Seq(Checkpoint), torn : BOOLEAN]
             /\ Checkpoints' = Checkpoints + 1
             /\ \A c \in 1..Checkpoints : chk'.lines[c] = chk.lines[c]
             /\ chk'.lines[Checkpoints + 1] = CheckpointLine
  <2>1. CheckpointLine \in Checkpoint
    BY <1>1, Heads DEF CheckpointLine, Checkpoint
  <2>2. chk'.lines = Append(chk.lines, CheckpointLine) /\ chk'.torn = chk.torn
        /\ chk' = [lines |-> chk'.lines, torn |-> chk'.torn]
    BY <1>2, <1>4 DEF ChkGrows
  <2>3. chk.lines \in Seq(Checkpoint) /\ chk.torn \in BOOLEAN
    BY <1>2
  <2>4. /\ chk'.lines \in Seq(Checkpoint) /\ Len(chk'.lines) = Len(chk.lines) + 1
        /\ \A c \in 1..Len(chk.lines) : chk'.lines[c] = chk.lines[c]
        /\ chk'.lines[Len(chk.lines) + 1] = CheckpointLine
    BY <2>1, <2>2, <2>3, Appending
  <2>5. QED
    BY <2>2, <2>3, <2>4
<1>5. ASSUME NEW b \in BOOLEAN, audit' = [audit EXCEPT !.torn = b]
      PROVE  audit' \in [lines : Seq(Entry), torn : BOOLEAN] /\ audit'.lines = audit.lines
  BY <1>2, <1>5
<1>6. ASSUME NEW b \in BOOLEAN, chk' = [chk EXCEPT !.torn = b]
      PROVE  chk' \in [lines : Seq(Checkpoint), torn : BOOLEAN] /\ chk'.lines = chk.lines
  BY <1>2, <1>6
<1>7. CASE EntryWritten \/ EntryFailed
  <2>1. at = "checked" /\ queue # <<>> /\ chk' = chk
    BY <1>7 DEF EntryWritten, EntryFailed, TypeOK
  <2>2. AuditGrows \/ \E b \in BOOLEAN : audit' = [audit EXCEPT !.torn = b]
    BY <1>7 DEF EntryWritten, EntryFailed, AuditFails
  <2>3. QED
    BY <1>1, <1>2, <1>3, <1>5, <2>1, <2>2 DEF Kept
<1>8. ASSUME audit' = audit, chk' = chk PROVE Kept
  BY <1>1, <1>2, <1>8 DEF Kept
<1>9. ASSUME audit' = audit, at = "appended" \/ (Consistent /\ CatchesUp),
             ChkGrows \/ \E b \in BOOLEAN : chk' = [chk EXCEPT !.torn = b]
      PROVE  Kept
  BY <1>1, <1>2, <1>4, <1>6, <1>9 DEF Kept
<1>10. CASE CheckpointWritten \/ CheckpointFailed
  <2>1. at = "appended" /\ audit' = audit
    BY <1>10 DEF CheckpointWritten, CheckpointFailed
  <2>2. ChkGrows \/ \E b \in BOOLEAN : chk' = [chk EXCEPT !.torn = b]
    BY <1>10 DEF CheckpointWritten, CheckpointFailed, ChkFails
  <2>3. QED
    BY <1>9, <2>1, <2>2
<1>11. CASE Checked \/ Reloads \/ Refused \/ RestartFails
  BY <1>8, <1>9, <1>11 DEF Checked, Reloads, Refused, RestartFails, Anchored, ChkFails
<1>12. QED
  BY <1>7, <1>8, <1>10, <1>11 DEF WriterStep

\* The steps that are not the writer's leave the files alone.
CallerStep ==
  UNCHANGED <<audit, chk, mem, faults>> /\ (Crash \/ \E e \in Events : Submit(e) \/ TimeOut(e))

LEMMA Steps ==
  ASSUME TypeOK, MemoryTrue, [Next]_vars
  PROVE  WriterStep \/ CallerStep \/ UNCHANGED vars
BY WriterSteps DEF Next, CallerStep, Crash, Submit, TimeOut

\* An answer is given to the first in the queue, if it still waits.
LEMMA Answers ==
  ASSUME TypeOK, queue # <<>>, NEW v \in {"granted", "refused"}, Answer(v)
  PROVE  /\ queue' = Tail(queue) /\ queue' \in Seq(Events)
         /\ status' \in [Events -> {"new", "sent", "granted", "refused"}]
         /\ \A e \in Events \ {queue[1]} : status'[e] = status[e]
         /\ status'[queue[1]] = IF status[queue[1]] = "sent" THEN v ELSE status[queue[1]]
BY QueueFront DEF Answer, TypeOK

\* The fields once the files have been verified, and a checkpoint written if need be.
LEMMA ReloadedFields ==
  ASSUME TypeOK, Anchored, Kept, audit' = audit
  PROVE  /\ mem' \in [sequence : Nat, head : Hash, chkHead : Nat, auditState : Nat \X BOOLEAN,
                      chkState : Nat \X BOOLEAN, appends : 0..Interval]
         /\ mem'.sequence = Entries /\ mem'.head = HeadAt(Entries) /\ mem'.chkHead = Checkpoints'
         /\ mem'.auditState = <<Entries, FALSE>> /\ mem'.chkState = <<Checkpoints', FALSE>>
         /\ mem'.appends = 0 /\ ~audit.torn /\ ~chk'.torn
         /\ mem'.auditState = Size(audit) /\ mem'.chkState = Size(chk')
<1>1. ~audit.torn /\ ~chk.torn
  BY DEF Anchored, Consistent, AuditValid, CheckpointsValid
<1>2. ~chk'.torn
  BY <1>1 DEF Anchored, ChkGrows, TypeOK
<1>3. Entries \in Nat /\ Checkpoints' \in Nat /\ HeadAt(Entries) \in Hash
  BY Heads DEF Kept
<1>4. 0 \in 0..Interval
  BY LedgerAssumption
<1>5. mem' = [sequence |-> Entries, head |-> HeadAt(Entries), chkHead |-> Checkpoints',
              auditState |-> <<Entries, FALSE>>, chkState |-> <<Checkpoints', FALSE>>,
              appends |-> 0]
  BY <1>1, <1>2, Heads DEF Anchored, Reloaded, Size, Entries, Checkpoints, TypeOK, Kept
<1>6. Size(audit) = <<Entries, FALSE>> /\ Size(chk') = <<Checkpoints', FALSE>>
  BY <1>1, <1>2 DEF Size, Entries, Checkpoints, TypeOK, Kept
<1>7. QED
  BY <1>1, <1>2, <1>3, <1>4, <1>5, <1>6

-----------------------------------------------------------------------------
(* Types                                                                       *)

LEMMA InitType == Init => TypeOK
<1> SUFFICES ASSUME Init PROVE TypeOK
  OBVIOUS
<1>1. <<>> \in Seq(Entry) /\ <<>> \in Seq(Checkpoint) /\ <<>> \in Seq(Events)
  BY EmptySeq
<1>2. /\ audit \in [lines : Seq(Entry), torn : BOOLEAN]
      /\ chk \in [lines : Seq(Checkpoint), torn : BOOLEAN]
  BY <1>1 DEF Init
<1>3. 0 \in 0..Interval /\ 0 \in 0..MaxFaults /\ 0 \in 0..MaxCrashes /\ NoEvent \in Hash
  BY LedgerAssumption DEF Hash
<1>4. mem \in [sequence : Nat, head : Hash, chkHead : Nat, auditState : Nat \X BOOLEAN,
               chkState : Nat \X BOOLEAN, appends : 0..Interval]
  BY <1>3 DEF Init
<1>5. QED
  BY <1>1, <1>2, <1>3, <1>4 DEF Init, TypeOK

LEMMA StepType ==
  ASSUME TypeOK, MemoryTrue, [Next]_vars
  PROVE  TypeOK'
<1> USE DEF TypeOK
<1>1. CASE UNCHANGED vars
  BY <1>1 DEF vars
<1>2. CASE CallerStep
  <2>1. CASE Crash
    <3>1. queue' = <<>> /\ <<>> \in Seq(Events) /\ at' = "down" /\ crashes' \in 0..MaxCrashes
      BY <2>1, EmptySeq, LedgerAssumption DEF Crash
    <3>2. status' \in [Events -> {"new", "sent", "granted", "refused"}]
      BY <2>1 DEF Crash
    <3>3. QED
      BY <1>2, <3>1, <3>2 DEF CallerStep
  <2>2. ASSUME NEW e \in Events, Submit(e) PROVE TypeOK'
    <3>1. queue' \in Seq(Events) /\ queue' # <<>>
      <4>1. queue' = Append(queue, e) /\ queue \in Seq(Events)
        BY <2>2 DEF Submit
      <4>2. QED
        BY <4>1, AppendProperties
    <3>2. QED
      BY <2>2, <3>1 DEF Submit
  <2>3. ASSUME NEW e \in Events, TimeOut(e) PROVE TypeOK'
    BY <2>3 DEF TimeOut
  <2>4. QED
    BY <1>2, <2>1, <2>2, <2>3 DEF CallerStep
<1>3. CASE WriterStep
  <2>1. /\ audit' \in [lines : Seq(Entry), torn : BOOLEAN]
        /\ chk' \in [lines : Seq(Checkpoint), torn : BOOLEAN]
    BY <1>3, FilesKept DEF Kept
  <2>2. faults' \in 0..MaxFaults /\ crashes' = crashes
    <3>1. crashes' = crashes /\ (faults' = faults \/ Failed)
      BY <1>3 DEF WriterStep, EntryWritten, EntryFailed, CheckpointWritten, CheckpointFailed,
         Checked, Reloads, Refused, RestartFails, Anchored, AuditFails, ChkFails
    <3>2. QED
      BY <3>1, LedgerAssumption DEF Failed
  <2>3. /\ queue' \in Seq(Events)
        /\ status' \in [Events -> {"new", "sent", "granted", "refused"}]
    BY <1>3, Answers DEF WriterStep, EntryWritten, EntryFailed, CheckpointWritten,
       CheckpointFailed, Checked, Reloads, Refused, RestartFails
  <2>4. /\ at' \in {"down", "ready", "checked", "appended"}
        /\ at' \in {"checked", "appended"} => queue' # <<>>
    BY <1>3 DEF WriterStep, EntryWritten, EntryFailed, CheckpointWritten,
       CheckpointFailed, Checked, Reloads, Refused, RestartFails
  <2>5. mem' \in [sequence : Nat, head : Hash, chkHead : Nat, auditState : Nat \X BOOLEAN,
                  chkState : Nat \X BOOLEAN, appends : 0..Interval]
    <3>1. CASE EntryWritten
      <4>1. Entries + 1 \in Nat /\ Head(queue) \in Hash /\ Size(audit') \in Nat \X BOOLEAN
        <5>1. queue # <<>>
          BY <3>1 DEF EntryWritten
        <5>2. Head(queue) \in Hash
          BY <5>1, QueueFront DEF Hash
        <5>3. Entries + 1 \in Nat
          BY Heads
        <5>4. Size(audit') \in Nat \X BOOLEAN
          BY <2>1, LenProperties DEF Size
        <5>5. QED
          BY <5>2, <5>3, <5>4
      <4>2. QED
        BY <3>1, <4>1 DEF EntryWritten
    <3>2. CASE CheckpointWritten
      <4>1. Checkpoints + 1 \in Nat /\ Size(chk') \in Nat \X BOOLEAN
        <5>1. Size(chk') \in Nat \X BOOLEAN
          BY <2>1, LenProperties DEF Size
        <5>2. Checkpoints + 1 \in Nat
          BY Heads
        <5>3. QED
          BY <5>1, <5>2
      <4>2. mem.appends + 1 \in 0..Interval
        BY <3>2, LedgerAssumption DEF CheckpointWritten, MemoryTrue
      <4>3. QED
        BY <3>2, <4>1, <4>2 DEF CheckpointWritten
    <3>3. CASE Reloads
      BY <1>3, <3>3, FilesKept, ReloadedFields DEF Reloads
    <3>4. CASE UNCHANGED mem
      BY <3>4
    <3>5. QED
      BY <1>3, <3>1, <3>2, <3>3, <3>4 DEF WriterStep, EntryFailed, CheckpointFailed, Checked,
         Refused, RestartFails
  <2>6. QED
    BY <2>1, <2>2, <2>3, <2>4, <2>5
<1>4. QED
  BY <1>1, <1>2, <1>3, Steps

-----------------------------------------------------------------------------
(* The invariant, part by part                                                 *)

LEMMA InitInv == Init => LedgerInv
<1> SUFFICES ASSUME Init PROVE LedgerInv
  OBVIOUS
<1>1. Entries = 0 /\ Checkpoints = 0 /\ Len(queue) = 0
  BY EmptySeq DEF Init, Entries, Checkpoints
<1>2. HeadAt(0) = NoEvent
  BY DEF HeadAt, HeadIn
<1>3. Linked
  BY <1>1, EmptySeq DEF Linked, CheckpointsChained, Checkpoints
<1>4. MemoryTrue
  <2>1. /\ mem.sequence = 0 /\ mem.head = NoEvent /\ mem.chkHead = 0
        /\ mem.auditState = <<0, FALSE>> /\ mem.chkState = <<0, FALSE>>
        /\ at = "ready"
    BY DEF Init
  <2>2. QED
    BY <1>1, <1>2, <2>1 DEF MemoryTrue
<1>5. DecisionsOnce
  BY <1>1 DEF DecisionsOnce, Init
<1>6. GrantsCheckpointed
  BY DEF GrantsCheckpointed, Init
<1>7. Level
  BY <1>1 DEF Level, Init, StorageUnchanged, Size, Entries, Checkpoints
<1>8. QED
  BY <1>3, <1>4, <1>5, <1>6, <1>7 DEF LedgerInv

\* What a file holds is the same afterwards.
LEMMA HeadsKept ==
  ASSUME TypeOK, Kept
  PROVE  \A k \in 0..Entries : HeadIn(audit'.lines, k) = HeadAt(k)
BY Heads DEF HeadAt, HeadIn, Kept

LEMMA StepLinked ==
  ASSUME TypeOK, LedgerInv, [Next]_vars
  PROVE  Linked'
<1> USE DEF LedgerInv
<1>1. Kept
  BY Steps, FilesKept DEF CallerStep, vars
<1>2. Entries \in Nat /\ Checkpoints \in Nat
  BY Heads
<1>3. ASSUME NEW k \in 1..Entries'
      PROVE  audit'.lines[k].sequence = k /\ audit'.lines[k].previous = HeadIn(audit'.lines, k - 1)
  <2>1. CASE k \in 1..Entries
    <3>1. audit.lines[k].sequence = k /\ audit.lines[k].previous = HeadAt(k - 1)
      BY <2>1 DEF Linked
    <3>2. audit'.lines[k] = audit.lines[k] /\ HeadIn(audit'.lines, k - 1) = HeadAt(k - 1)
      BY <1>1, <1>2, <2>1, HeadsKept DEF Kept
    <3>3. QED
      BY <3>1, <3>2
  <2>2. CASE k = Entries + 1 /\ Entries' = Entries + 1
    <3>1. audit'.lines[k] = EntryLine /\ HeadIn(audit'.lines, Entries) = HeadAt(Entries)
      BY <1>1, <1>2, <2>2, HeadsKept DEF Kept
    <3>2. QED
      BY <1>2, <2>2, <3>1 DEF EntryLine
  <2>3. QED
    BY <1>1, <1>2, <2>1, <2>2 DEF Kept
<1>4. ASSUME NEW c \in 1..Checkpoints'
      PROVE  /\ chk'.lines[c].previous = c - 1 /\ chk'.lines[c].sequence \in 1..Entries'
             /\ chk'.lines[c].head = HeadIn(audit'.lines, chk'.lines[c].sequence)
  <2>1. CASE c \in 1..Checkpoints
    <3>1. /\ chk.lines[c].previous = c - 1 /\ chk.lines[c].sequence \in 1..Entries
          /\ chk.lines[c].head = HeadAt(chk.lines[c].sequence)
      BY <2>1 DEF Linked, CheckpointsChained, Checkpoints
    <3>2. 1..Entries \subseteq 1..Entries' /\ 1..Entries \subseteq 0..Entries
      BY <1>1, <1>2 DEF Kept
    <3>3. chk'.lines[c] = chk.lines[c]
      BY <1>1, <2>1 DEF Kept
    <3>4. QED
      BY <1>1, <3>1, <3>2, <3>3, HeadsKept
  <2>2. CASE c = Checkpoints + 1 /\ Checkpoints' = Checkpoints + 1
    <3>1. /\ chk'.lines[c] = CheckpointLine /\ audit' = audit
          /\ at = "appended" \/ (Consistent /\ CatchesUp)
      BY <1>1, <1>2, <2>2 DEF Kept
    <3>2. Entries' = Entries /\ HeadIn(audit'.lines, Entries) = HeadAt(Entries)
      BY <3>1 DEF Entries, HeadAt
    <3>3. Entries > 0
      BY <1>2, <3>1, WhatIsConsistent DEF DecisionsOnce
    <3>4. /\ chk'.lines[c].sequence = Entries /\ chk'.lines[c].head = HeadAt(Entries)
          /\ chk'.lines[c].previous = Checkpoints
      BY <3>1 DEF CheckpointLine
    <3>5. QED
      BY <1>2, <2>2, <3>2, <3>3, <3>4
  <2>3. QED
    BY <1>1, <1>2, <2>1, <2>2 DEF Kept
<1>5. QED
  BY <1>3, <1>4 DEF Linked, CheckpointsChained, Checkpoints, HeadAt

LEMMA StepMemory ==
  ASSUME TypeOK, LedgerInv, [Next]_vars
  PROVE  MemoryTrue'
<1> USE DEF LedgerInv
<1>1. Kept
  BY Steps, FilesKept DEF CallerStep, vars
<1>2. Entries \in Nat /\ Checkpoints \in Nat /\ Entries' >= Entries /\ Checkpoints' >= Checkpoints
      /\ Entries' \in Nat /\ Checkpoints' \in Nat
  BY <1>1, Heads DEF Kept
<1>3. mem.sequence \in Nat /\ mem.chkHead \in Nat
  BY DEF TypeOK
<1>4. /\ mem.auditState = <<mem.sequence, FALSE>> /\ mem.chkState = <<mem.chkHead, FALSE>>
      /\ mem.sequence <= Entries' /\ mem.head = HeadIn(audit'.lines, mem.sequence)
      /\ mem.chkHead <= Checkpoints'
  BY <1>1, <1>2, <1>3, HeadsKept DEF MemoryTrue
<1>5. CASE UNCHANGED mem /\ at' \notin {"checked", "appended"} /\ (at' = "down" => queue' = <<>>)
  BY <1>4, <1>5 DEF MemoryTrue, HeadAt
<1>6. CASE UNCHANGED <<mem, at, audit, chk>> /\ (at = "down" => queue' = <<>>)
  BY <1>4, <1>6 DEF MemoryTrue, HeadAt, StorageUnchanged
<1>7. CASE WriterStep
  <2>1. CASE EntryWritten
    <3>1. at = "checked" /\ at' = "appended" /\ queue # <<>> /\ audit'.torn = audit.torn
          /\ UNCHANGED chk
      BY <2>1 DEF EntryWritten, AuditGrows, TypeOK
    <3>2. Entries' = Entries + 1 /\ audit'.lines[Entries + 1] = EntryLine
      <4>1. audit'.lines = Append(audit.lines, EntryLine)
        BY <2>1 DEF EntryWritten, AuditGrows, TypeOK
      <4>2. Entries' = Entries + 1
        BY <4>1 DEF Entries, TypeOK
      <4>3. QED
        BY <1>1, <1>2, <4>2 DEF Kept
    <3>3. /\ mem'.sequence = Entries + 1 /\ mem'.head = Head(queue) /\ mem'.chkHead = mem.chkHead
          /\ mem'.auditState = Size(audit') /\ mem'.chkState = mem.chkState
          /\ mem'.appends = mem.appends
      BY <2>1 DEF EntryWritten, TypeOK
    <3>4. Size(audit') = <<Entries + 1, FALSE>>
      BY <3>1, <3>2, MidAppend DEF Size, Entries, TypeOK
    <3>5. HeadIn(audit'.lines, Entries + 1) = Head(queue)
      BY <1>2, <3>2 DEF HeadIn, EntryLine
    <3>6. mem.chkState = Size(chk') /\ mem.appends < Interval
      BY <3>1 DEF MemoryTrue, StorageUnchanged
    <3>7. StorageUnchanged'
      BY <3>3, <3>6 DEF StorageUnchanged
    <3>8. QED
      BY <1>2, <1>4, <3>1, <3>2, <3>3, <3>4, <3>5, <3>6, <3>7 DEF MemoryTrue, HeadAt
  <2>2. CASE CheckpointWritten
    <3>1. at = "appended" /\ at' = "ready" /\ chk'.torn = chk.torn /\ UNCHANGED audit
      BY <2>2 DEF CheckpointWritten, ChkGrows, TypeOK
    <3>2. Checkpoints' = Checkpoints + 1
      <4>1. chk'.lines = Append(chk.lines, CheckpointLine)
        BY <2>2 DEF CheckpointWritten, ChkGrows, TypeOK
      <4>2. QED
        BY <4>1 DEF Checkpoints, TypeOK
    <3>3. /\ mem'.sequence = mem.sequence /\ mem'.head = mem.head
          /\ mem'.chkHead = Checkpoints + 1
          /\ mem'.auditState = mem.auditState /\ mem'.chkState = Size(chk')
      BY <2>2 DEF CheckpointWritten, TypeOK
    <3>4. Size(chk') = <<Checkpoints + 1, FALSE>>
      BY <3>1, <3>2, MidAppend DEF Size, Checkpoints, TypeOK
    <3>5. QED
      BY <1>2, <1>4, <3>1, <3>2, <3>3, <3>4 DEF MemoryTrue, HeadAt
  <2>3. CASE Reloads
    <3>1. UNCHANGED <<audit, queue>> /\ (at' = "checked" \/ at' = "ready") /\ Anchored
      BY <2>3 DEF Reloads
    <3>2. /\ mem'.sequence = Entries /\ mem'.head = HeadAt(Entries)
          /\ mem'.chkHead = Checkpoints' /\ mem'.auditState = <<Entries, FALSE>>
          /\ mem'.chkState = <<Checkpoints', FALSE>> /\ mem'.appends = 0
          /\ mem'.auditState = Size(audit) /\ mem'.chkState = Size(chk')
      BY <1>1, <3>1, ReloadedFields
    <3>3. Entries' = Entries /\ HeadAt(Entries) = HeadIn(audit'.lines, Entries)
      BY <3>1 DEF Entries, HeadAt
    <3>4. 0 < Interval
      BY LedgerAssumption
    <3>5. StorageUnchanged'
      BY <3>1, <3>2 DEF StorageUnchanged
    <3>6. QED
      BY <1>2, <3>1, <3>2, <3>3, <3>4, <3>5 DEF MemoryTrue, HeadAt
  <2>4. CASE Checked
    <3>1. UNCHANGED <<audit, chk, mem, queue>> /\ StorageUnchanged /\ mem.appends < Interval
          /\ at' = "checked"
      BY <2>4 DEF Checked
    <3>2. QED
      BY <1>4, <3>1 DEF MemoryTrue, HeadAt, StorageUnchanged
  <2>5. QED
    BY <1>5, <1>7, <2>1, <2>2, <2>3, <2>4 DEF WriterStep, EntryFailed, CheckpointFailed, Refused,
       RestartFails, MemoryTrue
<1>8. CASE CallerStep
  <2>1. CASE Crash
    BY <1>5, <1>8, <2>1 DEF CallerStep, Crash
  <2>2. CASE \E e \in Events : Submit(e) \/ TimeOut(e)
    BY <1>6, <1>8, <2>2 DEF CallerStep, Submit, TimeOut, MemoryTrue
  <2>3. QED
    BY <1>8, <2>1, <2>2 DEF CallerStep
<1>9. QED
  BY <1>6, <1>7, <1>8, Steps DEF vars, MemoryTrue

LEMMA StepOnce ==
  ASSUME TypeOK, LedgerInv, [Next]_vars
  PROVE  DecisionsOnce'
<1> USE DEF LedgerInv
<1>1. Kept
  BY Steps, FilesKept DEF CallerStep, vars
<1>2. Entries \in Nat /\ \A k \in 1..Entries : audit.lines[k].event \in Events
  <2>1. audit.lines \in Seq(Entry)
    BY DEF TypeOK
  <2>2. \A k \in 1..Entries : audit.lines[k] \in Entry
    BY <2>1, ElementOfSeq DEF Entries
  <2>3. QED
    BY <2>2, Heads DEF Entry
<1>3. Len(queue) \in Nat /\ \A i \in 1..Len(queue) : queue[i] \in Events
  BY LenProperties, ElementOfSeq DEF TypeOK
\* What was recorded or queued stays so at most; a line added is that of the first queued.
<1>4. /\ \A k \in 1..Entries : audit'.lines[k] = audit.lines[k]
      /\ Entries' = Entries \/ /\ Entries' = Entries + 1 /\ at = "checked"
                               /\ audit'.lines[Entries + 1].event = Head(queue)
  BY <1>1 DEF Kept, EntryLine
<1>5. CASE /\ queue # <<>> /\ at' # "appended" /\ \E v \in {"granted", "refused"} : Answer(v)
  <2>1. PICK v \in {"granted", "refused"} : Answer(v)
    BY <1>5
  <2>2. /\ queue' = Tail(queue) /\ Len(queue') = Len(queue) - 1 /\ Head(queue) = queue[1]
        /\ \A i \in 1..Len(queue') : i + 1 \in 1..Len(queue) /\ queue'[i] = queue[i + 1]
    BY <1>5, <2>1, Answers, QueueFront
  <2>3. /\ \A e \in Events \ {queue[1]} : status'[e] = status[e]
        /\ status'[queue[1]] = IF status[queue[1]] = "sent" THEN v ELSE status[queue[1]]
    BY <1>5, <2>1, Answers
  <2>4. 1 \in 1..Len(queue) /\ status[queue[1]] \in {"sent", "refused"}
    BY <1>3, <1>5, QueueFront DEF DecisionsOnce
  <2>5. \A i \in 1..Len(queue') : queue'[i] # queue[1]
    BY <1>3, <2>2, <2>4 DEF DecisionsOnce
  <2>6. \A i, j \in 1..Len(queue') : queue'[i] = queue'[j] => i = j
    BY <1>3, <2>2 DEF DecisionsOnce
  <2>7. \A i \in 1..Len(queue') : status'[queue'[i]] \in {"sent", "refused"}
    BY <1>3, <2>2, <2>3, <2>5 DEF DecisionsOnce
  <2>8. \A k \in 1..Entries : status'[audit.lines[k].event] # "new"
    BY <1>2, <2>3, <2>4 DEF DecisionsOnce
  <2>9. \A k \in 1..Entries : \A i \in 1..Len(queue') : audit.lines[k].event # queue'[i]
    BY <1>3, <2>2 DEF DecisionsOnce
  <2>10. /\ Entries' = Entries + 1 => status'[audit'.lines[Entries + 1].event] # "new"
         /\ Entries' = Entries + 1 =>
              \A k \in 1..Entries : audit.lines[k].event # audit'.lines[Entries + 1].event
    BY <1>2, <1>4, <2>2, <2>3, <2>4 DEF DecisionsOnce
  <2>11. \A k \in 1..Entries' : k \in 1..Entries \/ (k = Entries + 1 /\ Entries' = Entries + 1)
    BY <1>2, <1>4
  <2>12. /\ \A j, k \in 1..Entries' : audit'.lines[j].event = audit'.lines[k].event => j = k
         /\ \A k \in 1..Entries' : status'[audit'.lines[k].event] # "new"
    BY <1>4, <2>8, <2>10, <2>11 DEF DecisionsOnce
  <2>13. \A k \in 1..Entries' : \A i \in 1..Len(queue') : audit'.lines[k].event # queue'[i]
    BY <1>4, <2>2, <2>5, <2>9, <2>11
  <2>14. QED
    BY <1>5, <2>6, <2>7, <2>12, <2>13 DEF DecisionsOnce
<1>6. CASE EntryWritten
  <2>1. /\ queue # <<>> /\ at = "checked" /\ at' = "appended" /\ UNCHANGED <<queue, status>>
        /\ Entries' = Entries + 1
    <3>1. audit'.lines = Append(audit.lines, EntryLine)
      BY <1>6 DEF EntryWritten, AuditGrows, TypeOK
    <3>2. Entries' = Entries + 1
      BY <3>1 DEF Entries, TypeOK
    <3>3. QED
      BY <1>6, <3>2 DEF EntryWritten, TypeOK
  <2>2. audit'.lines[Entries + 1].event = queue[1] /\ 1 \in 1..Len(queue)
    BY <1>2, <1>3, <1>4, <2>1, QueueFront
  <2>3. \A k \in 1..Entries : audit.lines[k].event # queue[1]
    BY <2>1, <2>2 DEF DecisionsOnce
  <2>4. \A k \in 1..Entries' : k \in 1..Entries \/ k = Entries + 1
    BY <1>2, <2>1
  <2>5. /\ \A j, k \in 1..Entries' : audit'.lines[j].event = audit'.lines[k].event => j = k
        /\ \A k \in 1..Entries' : status'[audit'.lines[k].event] # "new"
    BY <1>4, <2>1, <2>2, <2>3, <2>4 DEF DecisionsOnce
  <2>6. \A k \in 1..Entries', i \in 1..Len(queue') :
          audit'.lines[k].event = queue'[i] => i = 1 /\ k = Entries'
    BY <1>3, <1>4, <2>1, <2>2, <2>4 DEF DecisionsOnce
  <2>7. QED
    BY <1>2, <2>1, <2>2, <2>5, <2>6 DEF DecisionsOnce
<1>7. CASE UNCHANGED <<audit, queue, status>> /\ at # "appended" /\ at' # "appended"
  BY <1>7 DEF DecisionsOnce, Entries
<1>8. CASE Crash
  <2>1. UNCHANGED audit /\ queue' = <<>> /\ Len(queue') = 0 /\ at' = "down"
    BY <1>8, EmptySeq DEF Crash
  <2>2. \A e \in Events : status'[e] = "new" => status[e] = "new"
    BY <1>8 DEF Crash
  <2>3. Entries' = Entries
    BY <2>1 DEF Entries
  <2>4. QED
    BY <1>2, <2>1, <2>2, <2>3 DEF DecisionsOnce
<1>9. ASSUME NEW e \in Events, Submit(e) PROVE DecisionsOnce'
  <2>1. UNCHANGED <<audit, at>> /\ queue' = Append(queue, e) /\ status[e] = "new"
    BY <1>9 DEF Submit
  <2>2. /\ Len(queue') = Len(queue) + 1 /\ queue'[Len(queue) + 1] = e
        /\ \A i \in 1..Len(queue) : queue'[i] = queue[i]
    BY <2>1, Appending DEF TypeOK
  <2>3. status'[e] = "sent" /\ \A d \in Events \ {e} : status'[d] = status[d]
    BY <1>9 DEF Submit, TypeOK
  <2>4. /\ \A k \in 1..Entries : audit.lines[k].event # e
        /\ \A i \in 1..Len(queue) : queue[i] # e
    BY <2>1 DEF DecisionsOnce
  <2>5. Entries' = Entries /\ audit' = audit
    BY <2>1 DEF Entries
  <2>6. \A i \in 1..Len(queue') : i \in 1..Len(queue) \/ i = Len(queue) + 1
    BY <1>3, <2>2
  <2>7. \A i, j \in 1..Len(queue') : queue'[i] = queue'[j] => i = j
    BY <2>2, <2>4, <2>6 DEF DecisionsOnce
  <2>8. \A i \in 1..Len(queue') : status'[queue'[i]] \in {"sent", "refused"}
    BY <1>3, <2>2, <2>3, <2>4, <2>6 DEF DecisionsOnce
  <2>9. \A k \in 1..Entries : status'[audit.lines[k].event] # "new"
    BY <1>2, <2>3, <2>4 DEF DecisionsOnce
  <2>10. \A k \in 1..Entries, i \in 1..Len(queue') :
           audit.lines[k].event = queue'[i] => i = 1 /\ k = Entries /\ at = "appended"
    BY <2>2, <2>4, <2>6 DEF DecisionsOnce
  <2>11. at = "appended" => queue'[1] = queue[1]
    <3>1. at = "appended" => Len(queue) > 0
      BY QueueFront DEF TypeOK
    <3>2. QED
      BY <1>3, <2>2, <3>1
  <2>12. QED
    BY <2>1, <2>5, <2>7, <2>8, <2>9, <2>10, <2>11 DEF DecisionsOnce
<1>10. ASSUME NEW e \in Events, TimeOut(e) PROVE DecisionsOnce'
  <2>1. UNCHANGED <<audit, at, queue>> /\ status'[e] = "refused"
        /\ \A d \in Events \ {e} : status'[d] = status[d]
    BY <1>10 DEF TimeOut, TypeOK
  <2>2. Entries' = Entries
    BY <2>1 DEF Entries
  <2>3. \A i \in 1..Len(queue) : status'[queue[i]] \in {"sent", "refused"}
    BY <1>3, <2>1 DEF DecisionsOnce
  <2>4. \A k \in 1..Entries : status'[audit.lines[k].event] # "new"
    BY <1>2, <2>1 DEF DecisionsOnce
  <2>5. QED
    BY <2>1, <2>2, <2>3, <2>4 DEF DecisionsOnce
<1>11. CASE UNCHANGED vars
  BY <1>11 DEF vars, DecisionsOnce, Entries
<1>12. CASE WriterStep
  <2>1. CASE EntryFailed \/ CheckpointWritten \/ CheckpointFailed \/ Refused
    <3>1. /\ queue # <<>> /\ at' # "appended"
          /\ \E v \in {"granted", "refused"} : Answer(v)
      BY <2>1 DEF EntryFailed, CheckpointWritten, CheckpointFailed, Refused, TypeOK
    <3>2. QED
      BY <1>5, <3>1
  <2>2. CASE Checked \/ Reloads \/ RestartFails
    BY <1>7, <2>2 DEF Checked, Reloads, RestartFails
  <2>3. QED
    BY <1>6, <1>12, <2>1, <2>2 DEF WriterStep
<1>13. QED
  BY <1>8, <1>9, <1>10, <1>11, <1>12, Steps DEF CallerStep

\* Only a checkpoint that is durable grants, and only the decision it was written for.
LEMMA OnlyGrant ==
  ASSUME TypeOK, LedgerInv, [Next]_vars, NEW e \in Events
  PROVE  /\ status[e] = "granted" => status'[e] = "granted"
         /\ status'[e] = "granted" => \/ status[e] = "granted"
                                      \/ CheckpointWritten /\ e = queue[1] /\ status[e] = "sent"
<1>1. CASE CallerStep
  BY <1>1 DEF CallerStep, Crash, Submit, TimeOut, TypeOK
<1>2. CASE EntryFailed \/ CheckpointFailed \/ Refused
  <2>1. queue # <<>> /\ Answer("refused")
    BY <1>2 DEF EntryFailed, CheckpointFailed, Refused, TypeOK
  <2>2. QED
    BY <2>1, Answers
<1>3. CASE CheckpointWritten
  <2>1. queue # <<>> /\ Answer("granted")
    BY <1>3 DEF CheckpointWritten, TypeOK
  <2>2. QED
    BY <1>3, <2>1, Answers
<1>4. CASE UNCHANGED status
  BY <1>4
<1>5. QED
  BY <1>1, <1>2, <1>3, <1>4, Steps DEF LedgerInv, vars, WriterStep, EntryWritten, Checked, Reloads,
     RestartFails

LEMMA StepGrants ==
  ASSUME TypeOK, LedgerInv, [Next]_vars
  PROVE  GrantsCheckpointed'
<1> SUFFICES ASSUME NEW e \in Events, status'[e] = "granted"
             PROVE  \E k \in 1..Entries', c \in 1..Checkpoints' :
                      audit'.lines[k].event = e /\ k <= chk'.lines[c].sequence
  BY DEF GrantsCheckpointed, Entries, Checkpoints
<1>1. Kept
  BY Steps, FilesKept DEF LedgerInv, CallerStep, vars
<1>2. Entries \in Nat /\ Checkpoints \in Nat
  BY Heads
<1>3. CASE status[e] = "granted"
  <2>1. PICK k \in 1..Entries, c \in 1..Checkpoints :
          audit.lines[k].event = e /\ k <= chk.lines[c].sequence
    BY <1>3 DEF LedgerInv, GrantsCheckpointed, Entries, Checkpoints
  <2>2. k \in 1..Entries' /\ c \in 1..Checkpoints'
    BY <1>1, <1>2, <2>1 DEF Kept
  <2>3. audit'.lines[k] = audit.lines[k] /\ chk'.lines[c] = chk.lines[c]
    BY <1>1, <2>1 DEF Kept
  <2>4. QED
    BY <2>1, <2>2, <2>3
<1>4. CASE CheckpointWritten /\ e = queue[1]
  <2>1. at = "appended" /\ UNCHANGED audit
    BY <1>4 DEF CheckpointWritten
  <2>2. Entries \in 1..Entries /\ audit.lines[Entries].event = e
    BY <1>2, <1>4, <2>1 DEF LedgerInv, DecisionsOnce
  <2>3. Checkpoints' = Checkpoints + 1
    <3>1. chk'.lines = Append(chk.lines, CheckpointLine)
      BY <1>4 DEF CheckpointWritten, ChkGrows, TypeOK
    <3>2. QED
      BY <3>1 DEF Checkpoints, TypeOK
  <2>4. chk'.lines[Checkpoints + 1].sequence = Entries
    BY <1>1, <1>2, <2>3 DEF Kept, CheckpointLine
  <2>5. Entries' = Entries /\ Checkpoints + 1 \in 1..Checkpoints'
    BY <1>2, <2>1, <2>3 DEF Entries
  <2>6. QED
    BY <1>2, <2>1, <2>2, <2>4, <2>5
<1>5. QED
  BY <1>3, <1>4, OnlyGrant

LEMMA StepLevel ==
  ASSUME TypeOK, LedgerInv, [Next]_vars
  PROVE  Level'
<1> USE DEF LedgerInv
<1>1. Kept
  BY Steps, FilesKept DEF CallerStep, vars
<1>2. Entries \in Nat /\ Checkpoints \in Nat /\ Entries' \in Nat /\ Checkpoints' \in Nat
  BY <1>1, Heads DEF Kept
<1>3. TypeOK' /\ Linked'
  BY StepType, StepLinked
<1>4. Failed => faults' # 0
  BY DEF Failed, TypeOK
<1>5. CASE EntryWritten
  <2>1. /\ at = "checked" /\ at' = "appended" /\ audit'.torn = audit.torn
        /\ UNCHANGED <<chk, faults>>
        /\ audit'.lines = Append(audit.lines, EntryLine)
    BY <1>5 DEF EntryWritten, AuditGrows, TypeOK
  <2>2. Entries' = Entries + 1 /\ Checkpoints' = Checkpoints /\ LastChk' = LastChk
    BY <2>1 DEF Entries, Checkpoints, LastChk, TypeOK
  <2>3. ASSUME faults = 0, Checkpoints > 0 PROVE Recoverable(LastChk)'
    <3>1. Matches(LastChk)
      BY <1>2, <2>1, <2>3 DEF Level
    <3>2. LastChk.sequence = Entries /\ LastChk.head = HeadAt(Entries) /\ LastChk.size = Entries
      BY <3>1, Heads DEF Matches, Entries
    <3>3. audit'.lines[Entries + 1] = EntryLine
      BY <1>1, <1>2, <2>2 DEF Kept
    <3>4. Last(audit'.lines).previous = HeadAt(Entries)
      BY <2>2, <3>3 DEF Last, Entries, EntryLine
    <3>5. QED
      BY <1>2, <2>2, <3>2, <3>4 DEF Recoverable, Entries
  <2>4. QED
    BY <2>1, <2>2, <2>3 DEF Level
<1>6. CASE CheckpointWritten
  <2>1. /\ at = "appended" /\ at' = "ready" /\ chk'.torn = chk.torn /\ UNCHANGED <<audit, faults>>
        /\ chk'.lines = Append(chk.lines, CheckpointLine)
        /\ mem'.auditState = mem.auditState /\ mem'.chkState = Size(chk')
    BY <1>6 DEF CheckpointWritten, ChkGrows, TypeOK
  <2>2. Checkpoints' = Checkpoints + 1
    BY <2>1 DEF Checkpoints, TypeOK
  <2>3. LastChk' = CheckpointLine
    BY <1>1, <1>2, <2>2 DEF Kept, LastChk
  <2>4. StorageUnchanged'
    BY <2>1 DEF MemoryTrue, StorageUnchanged
  <2>5. Matches(LastChk)'
    BY <2>1, <2>3, Heads DEF Matches, CheckpointLine, Entries
  <2>6. QED
    BY <1>2, <2>1, <2>2, <2>4, <2>5 DEF Level
<1>7. CASE Reloads
  <2>1. /\ UNCHANGED audit /\ Anchored
        /\ \/ at' = "checked"
           \/ at' = "ready"
    BY <1>7 DEF Reloads
  <2>2. /\ ~audit.torn /\ ~chk'.torn
        /\ mem'.auditState = Size(audit) /\ mem'.chkState = Size(chk')
    BY <1>1, <2>1, ReloadedFields
  <2>3. StorageUnchanged'
    BY <2>1, <2>2 DEF StorageUnchanged
  <2>4. CASE CatchesUp
    <3>1. chk'.lines = Append(chk.lines, CheckpointLine)
      BY <2>1, <2>4 DEF Anchored, ChkGrows, TypeOK
    <3>2. Checkpoints' = Checkpoints + 1
      BY <3>1 DEF Checkpoints, TypeOK
    <3>3. LastChk' = CheckpointLine
      BY <1>1, <1>2, <3>2 DEF Kept, LastChk
    <3>4. Matches(LastChk)'
      BY <2>1, <3>3, Heads DEF Matches, CheckpointLine, Entries
    <3>5. QED
      BY <1>2, <2>1, <2>2, <2>3, <3>2, <3>4 DEF Level
  <2>5. CASE ~CatchesUp
    <3>1. UNCHANGED <<audit, chk>>
      BY <2>1, <2>5 DEF Anchored
    <3>2. IF Checkpoints = 0 THEN Entries = 0 ELSE Matches(LastChk)
      BY <1>2, <2>5, WhatIsConsistent
    <3>3. (IF Checkpoints = 0 THEN Entries = 0 ELSE Matches(LastChk))'
      BY <3>1, <3>2 DEF Checkpoints, Entries, Matches, LastChk
    <3>4. QED
      BY <2>1, <2>2, <2>3, <3>3 DEF Level
  <2>6. QED
    BY <2>4, <2>5
<1>8. CASE Checked
  BY <1>8 DEF Checked, Level, StorageUnchanged, Matches, Entries, Checkpoints, LastChk
<1>9. CASE EntryFailed \/ CheckpointFailed \/ RestartFails
  BY <1>4, <1>9 DEF EntryFailed, CheckpointFailed, RestartFails, AuditFails, ChkFails, Level
<1>10. CASE Refused
  <2>1. CASE faults = 0
    <3>1. StorageUnchanged /\ Consistent
      BY <1>2, <1>10, <2>1, WhatIsConsistent DEF Refused, Level
    <3>2. QED
      BY <1>4, <1>10, <3>1 DEF Refused, ChkFails, Level
  <2>2. CASE faults # 0
    BY <1>4, <1>10, <2>2 DEF Refused, ChkFails, Level
  <2>3. QED
    BY <2>1, <2>2
<1>11. CASE UNCHANGED <<audit, chk, mem, faults, at>>
  BY <1>11 DEF Level, StorageUnchanged, Matches, Recoverable, Entries, Checkpoints, LastChk
<1>12. CASE Crash
  <2>1. UNCHANGED <<audit, chk, faults>> /\ at # "down" /\ at' = "down"
    BY <1>12 DEF Crash
  <2>2. faults = 0 /\ Checkpoints > 0 => Matches(LastChk) \/ Recoverable(LastChk)
    BY <1>2, <2>1 DEF Level, TypeOK
  <2>3. QED
    BY <2>1, <2>2 DEF Level, Matches, Recoverable, Entries, Checkpoints, LastChk
<1>13. QED
  BY <1>5, <1>6, <1>7, <1>8, <1>9, <1>10, <1>11, <1>12, Steps DEF WriterStep, CallerStep, Submit,
     TimeOut, vars

-----------------------------------------------------------------------------
(* The theorems                                                                *)

\* The inductive invariant: types, the chains, what the writer remembers, each decision
\* queued and recorded once, its grant covered by a checkpoint, and how far the ledger
\* may be ahead of its checkpoints before anything has failed.
THEOREM LedgerInvariant == Spec => [](TypeOK /\ LedgerInv)
<1>1. Init => TypeOK /\ LedgerInv
  BY InitType, InitInv
<1>2. TypeOK /\ LedgerInv /\ [Next]_vars => (TypeOK /\ LedgerInv)'
  <2> SUFFICES ASSUME TypeOK, LedgerInv, [Next]_vars PROVE (TypeOK /\ LedgerInv)'
    OBVIOUS
  <2>1. MemoryTrue
    BY DEF LedgerInv
  <2>2. QED
    BY <2>1, StepType, StepLinked, StepMemory, StepOnce, StepGrants, StepLevel DEF LedgerInv
<1>3. QED
  BY <1>1, <1>2, PTL DEF Spec

\* A caller that was told 201 finds its decision in the ledger, and a durable checkpoint
\* covers it: whatever crashes or fails later, the evidence of a grant cannot be cut off
\* without the chain showing it.
THEOREM GrantsCovered == Spec => []GrantsCheckpointed
<1>1. LedgerInv => GrantsCheckpointed
  BY DEF LedgerInv
<1>2. QED
  BY <1>1, LedgerInvariant, PTL

\* However appends fail and whenever the writer stops, its entries and its checkpoints
\* chain, and every checkpoint describes a prefix of the ledger.
THEOREM ChainsKept == Spec => []ChainsIntact
<1>1. TypeOK /\ LedgerInv => ChainsIntact
  BY ChainsLinked DEF LedgerInv
<1>2. QED
  BY <1>1, LedgerInvariant, PTL

\* As long as no append has failed, the writer accepts its files after any crash.
THEOREM RestartsRecover == Spec => []CrashesRecoverable
<1>1. TypeOK /\ LedgerInv => CrashesRecoverable
  <2> SUFFICES ASSUME TypeOK, LedgerInv, faults = 0 PROVE Consistent
    BY DEF CrashesRecoverable
  <2>1. Checkpoints > 0 => Matches(LastChk) \/ Recoverable(LastChk)
    BY Heads DEF LedgerInv, Level, TypeOK
  <2>2. QED
    BY <2>1, WhatIsConsistent DEF LedgerInv, Level
<1>2. QED
  BY <1>1, LedgerInvariant, PTL

-----------------------------------------------------------------------------
(* The ledger implements the trail                                             *)

EventsOf(lines) == [k \in 1..Len(lines) |-> lines[k].event]

LEMMA EventsOfLines ==
  ASSUME NEW lines \in Seq(Entry)
  PROVE  /\ EventsOf(lines) \in Seq(Events) /\ Len(EventsOf(lines)) = Len(lines)
         /\ \A k \in 1..Len(lines) : EventsOf(lines)[k] = lines[k].event
<1>1. Len(lines) \in Nat
  BY LenProperties
<1>2. \A k \in 1..Len(lines) : lines[k] \in Entry
  BY ElementOfSeq
<1>3. EventsOf(lines) \in [1..Len(lines) -> Events]
  BY <1>2 DEF EventsOf, Entry
<1>4. EventsOf(lines) \in Seq(Events)
  BY <1>1, <1>3, SeqDef
<1>5. QED
  BY <1>1, <1>3, <1>4, LenProperties DEF EventsOf

LEMMA RecordedIs ==
  ASSUME TypeOK
  PROVE  /\ Recorded \in Seq(Events) /\ Len(Recorded) = Entries
         /\ \A k \in 1..Entries : Recorded[k] = audit.lines[k].event
<1>1. Recorded = EventsOf(audit.lines)
  BY DEF Recorded, EventsOf
<1>2. QED
  BY <1>1, EventsOfLines DEF TypeOK, Entries

\* What is recorded is the same as long as no line is added.
LEMMA RecordedGrows ==
  ASSUME TypeOK, TypeOK', Kept
  PROVE  /\ Entries' = Entries => Recorded' = Recorded
         /\ Entries' = Entries + 1 => Recorded' = Append(Recorded, Head(queue))
<1>1. Entries \in Nat /\ Recorded \in Seq(Events) /\ Len(Recorded) = Entries
  BY Heads, RecordedIs
<1>2. Recorded' \in Seq(Events) /\ Len(Recorded') = Entries'
      /\ \A k \in 1..Entries' : Recorded'[k] = audit'.lines[k].event
  <2>1. Recorded' = EventsOf(audit'.lines)
    BY DEF Recorded, EventsOf
  <2>2. QED
    BY <2>1, EventsOfLines DEF TypeOK, Entries
<1>3. \A k \in 1..Entries : audit'.lines[k].event = Recorded[k]
  BY RecordedIs DEF Kept
<1>4. ASSUME Entries' = Entries PROVE Recorded' = Recorded
  BY <1>1, <1>2, <1>3, <1>4, SeqEqual
<1>5. ASSUME Entries' = Entries + 1 PROVE Recorded' = Append(Recorded, Head(queue))
  <2>1. audit'.lines[Entries + 1].event = Head(queue) /\ queue # <<>>
    <3>1. at = "checked" /\ audit'.lines[Entries + 1] = EntryLine
      BY <1>1, <1>5 DEF Kept
    <3>2. QED
      BY <3>1 DEF EntryLine, TypeOK
  <2> DEFINE longer == Append(Recorded, Head(queue))
  <2>2. /\ longer \in Seq(Events) /\ Len(longer) = Entries + 1
        /\ \A k \in 1..Entries : longer[k] = Recorded[k]
        /\ longer[Entries + 1] = Head(queue)
    BY <1>1, <2>1, QueueFront, Appending
  <2> HIDE DEF longer
  <2>3. \A k \in 1..(Entries + 1) : Recorded'[k] = longer[k]
    <3>1. \A k \in 1..(Entries + 1) : k \in 1..Entries \/ k = Entries + 1
      BY <1>1
    <3>2. QED
      BY <1>1, <1>2, <1>3, <1>5, <2>1, <2>2, <3>1
  <2>4. Recorded' = longer
    BY <1>2, <1>5, <2>2, <2>3, SeqEqual
  <2>5. QED
    BY <2>4 DEF longer
<1>6. QED
  BY <1>4, <1>5

Grants == {e \in Events : status[e] = "granted"}

\* The ledger only ever grows, by one submitted decision at a time and never twice by the
\* same, and only recorded ones are granted.
THEOREM TrailImplemented == Spec => ImplementsTrail
<1>1. Init => Trail!Init
  <2> SUFFICES ASSUME Init PROVE Recorded = <<>> /\ Grants = {}
    BY DEF Trail!Init, Grants
  <2>1. TypeOK /\ Entries = 0
    BY InitType, EmptySeq DEF Init, Entries
  <2>2. QED
    BY <2>1, RecordedIs, EmptySeq DEF Init, Grants
<1>2. TypeOK /\ LedgerInv /\ [Next]_vars => [Trail!Next]_(Trail!vars)
  <2> SUFFICES ASSUME TypeOK, LedgerInv, [Next]_vars
               PROVE  \/ UNCHANGED <<Recorded, Grants>>
                      \/ \E e \in Events : /\ ~Trail!Contains(Recorded, e) /\ Grants' = Grants
                                           /\ Recorded' = Append(Recorded, e)
                      \/ \E e \in Events : /\ Trail!Contains(Recorded, e) /\ Recorded' = Recorded
                                           /\ Grants' = Grants \cup {e}
    BY DEF Trail!Next, Trail!vars, Trail!Record, Trail!Grant, Grants
  <2>1. Kept /\ TypeOK'
    BY Steps, FilesKept, StepType DEF LedgerInv, CallerStep, vars
  <2>2. Entries \in Nat /\ (Entries' = Entries \/ Entries' = Entries + 1)
    BY <2>1, Heads DEF Kept
  <2>3. \A e \in Events : Trail!Contains(Recorded, e) <=>
          \E k \in 1..Entries : audit.lines[k].event = e
    BY RecordedIs DEF Trail!Contains
  <2>4. ~CheckpointWritten => Grants' = Grants
    BY OnlyGrant DEF Grants
  <2>5. CASE Entries' = Entries + 1
    <3>1. at = "checked" /\ queue # <<>>
      BY <2>1, <2>2, <2>5 DEF Kept, TypeOK
    <3>2. Grants' = Grants
      BY <2>4, <3>1 DEF CheckpointWritten
    <3>3. Head(queue) \in Events /\ \A k \in 1..Entries : audit.lines[k].event # Head(queue)
      BY <3>1, QueueFront DEF LedgerInv, DecisionsOnce
    <3>4. QED
      BY <2>1, <2>3, <2>5, <3>2, <3>3, RecordedGrows
  <2>6. CASE Entries' = Entries /\ CheckpointWritten
    <3>1. Recorded' = Recorded
      BY <2>1, <2>6, RecordedGrows
    <3>2. at = "appended" /\ queue # <<>>
      BY <2>6 DEF CheckpointWritten, TypeOK
    <3>3. queue[1] \in Events /\ Trail!Contains(Recorded, queue[1])
      BY <2>2, <2>3, <3>2, QueueFront DEF LedgerInv, DecisionsOnce
    <3>4. CASE status'[queue[1]] = "granted"
      <4>1. Grants' = Grants \cup {queue[1]}
        BY <3>3, <3>4, OnlyGrant DEF Grants
      <4>2. QED
        BY <3>1, <3>3, <4>1
    <3>5. CASE status'[queue[1]] # "granted"
      <4>1. Grants' = Grants
        BY <3>5, OnlyGrant DEF Grants
      <4>2. QED
        BY <3>1, <4>1
    <3>6. QED
      BY <3>4, <3>5
  <2>7. CASE Entries' = Entries /\ ~CheckpointWritten
    BY <2>1, <2>4, <2>7, RecordedGrows
  <2>8. QED
    BY <2>2, <2>5, <2>6, <2>7
<1>3. QED
  BY <1>1, <1>2, LedgerInvariant, PTL DEF Spec, ImplementsTrail, Trail!Spec
=============================================================================
