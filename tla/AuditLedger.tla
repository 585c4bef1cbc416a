---------------------------- MODULE AuditLedger -----------------------------
(***************************************************************************)
(* The external audit writer: the ledger of config/audit-writer-core.mjs,  *)
(* the request queue of config/audit-writer.mjs in front of it, and the    *)
(* callers of config/audit-client.mjs behind logGrcAuditEvent.  The        *)
(* writer's container may go down between any two file operations, and     *)
(* any append to a file may fail.                                          *)
(*                                                                         *)
(* Each submitted event is one call with a timestamp of its own, so an     *)
(* entry's hash is as good as its event: previous_hash is the event of the *)
(* predecessor.  A file's size is its number of lines and whether a torn   *)
(* one follows.  The files belong to the writer alone; schema and          *)
(* authentication errors change nothing and are left out.                  *)
(***************************************************************************)
EXTENDS Naturals, Sequences, SequencesExt

CONSTANTS Events,       \* decisions submitted to the writer
          NoEvent,      \* the null hash
          Interval,     \* FULL_VERIFY_INTERVAL: 256
          MaxFaults,    \* bound on failing appends
          MaxCrashes    \* bound on restarts

ASSUME LedgerAssumption == /\ NoEvent \notin Events
                           /\ Interval \in Nat \ {0}
                           /\ MaxFaults \in Nat /\ MaxCrashes \in Nat

VARIABLES
  audit,    \* the ledger file: entries, and whether a torn line follows
  chk,      \* the checkpoint file, likewise
  mem,      \* the writer's fields
  at,       \* where in append the writer is, or that it is down
  queue,    \* operations chained on the handler's promise, in order
  status,   \* each event's call
  faults, crashes

vars == <<audit, chk, mem, at, queue, status, faults, crashes>>

Hash == Events \cup {NoEvent}
Entry == [event : Events, sequence : Nat, previous : Hash]
Checkpoint == [sequence : Nat, head : Hash, size : Nat, previous : Nat]

Size(file) == <<Len(file.lines), file.torn>>

Init ==
  /\ audit = [lines |-> <<>>, torn |-> FALSE]
  /\ chk = [lines |-> <<>>, torn |-> FALSE]
  /\ mem = [sequence |-> 0, head |-> NoEvent, chkHead |-> 0,
            auditState |-> <<0, FALSE>>, chkState |-> <<0, FALSE>>, appends |-> 0]
  /\ at = "ready" /\ queue = <<>>
  /\ status = [e \in Events |-> "new"]
  /\ faults = 0 /\ crashes = 0

-----------------------------------------------------------------------------
(* The files                                                               *)

(* atomicAppend: the line is durable ("ok"); or it throws, having written  *)
(* nothing, a part of the line, or all of it and failed to flush it.       *)
Outcome == {"ok", "none", "torn", "late"}
Appended(file, line, o) ==
  CASE o \in {"ok", "late"} -> [file EXCEPT !.lines = Append(@, line)]
    [] o = "torn"           -> [file EXCEPT !.torn = TRUE]
    [] o = "none"           -> file
Tried(o) == /\ o # "ok" => faults < MaxFaults
            /\ faults' = IF o = "ok" THEN faults ELSE faults + 1

HeadOf(lines) == IF lines = <<>> THEN NoEvent ELSE Last(lines).event

(* verifyAuditLedger: every line is whole, and sequence and hash chain.    *)
EntriesChained ==
  \A k \in 1..Len(audit.lines) :
    /\ audit.lines[k].sequence = k
    /\ audit.lines[k].previous = HeadOf(SubSeq(audit.lines, 1, k - 1))
AuditValid == ~audit.torn /\ EntriesChained

(* verifyCheckpointLedger: previous counts the checkpoint's predecessors.  *)
CheckpointsChained == \A k \in 1..Len(chk.lines) : chk.lines[k].previous = k - 1
CheckpointsValid == ~chk.torn /\ CheckpointsChained

(* The last checkpoint describes the ledger as it is, or as it was before  *)
(* its last entry.                                                         *)
Matches(c) == /\ c.sequence = Len(audit.lines)
              /\ c.head = HeadOf(audit.lines)
              /\ c.size = Len(audit.lines)
RecoverableNever(c) == FALSE                                   \* mutant
Recoverable(c) == /\ Len(audit.lines) = c.sequence + 1
                  /\ Last(audit.lines).previous = c.head
                  /\ c.size < Len(audit.lines)

(* assertConsistent does not throw before it writes a checkpoint ...       *)
Consistent ==
  /\ AuditValid
  /\ CheckpointsValid
  /\ chk.lines # <<>> => Matches(Last(chk.lines)) \/ Recoverable(Last(chk.lines))

(* ... and it writes one to anchor a ledger without checkpoints or to      *)
(* catch up with the entry the last one misses.                            *)
CatchesUp == IF chk.lines = <<>> THEN audit.lines # <<>> ELSE ~Matches(Last(chk.lines))

CheckpointOf(sequence, head, previous) ==
  [sequence |-> sequence, head |-> head, size |-> Len(audit.lines), previous |-> previous]

(* The fields after assertConsistent.                                      *)
Reloaded == [sequence |-> Len(audit.lines), head |-> HeadOf(audit.lines),
             chkHead |-> Len(chk'.lines), auditState |-> Size(audit),
             chkState |-> Size(chk'), appends |-> 0]

(* assertConsistent does not find the files beyond recovery; it may still  *)
(* fail to write its checkpoint (o # "ok").                                *)
AssertConsistent(o) ==
  /\ Consistent
  /\ IF CatchesUp
     THEN /\ Tried(o)
          /\ chk' = Appended(chk, CheckpointOf(Len(audit.lines), HeadOf(audit.lines),
                                               Len(chk.lines)), o)
     ELSE o = "ok" /\ UNCHANGED <<chk, faults>>

-----------------------------------------------------------------------------
(* The callers                                                             *)

Submit(e) ==
  /\ at # "down"
  /\ status[e] = "new"
  /\ status' = [status EXCEPT ![e] = "sent"]
  /\ queue' = Append(queue, e)
  /\ UNCHANGED <<audit, chk, mem, at, faults, crashes>>

(* The client's or execFileSync's timeout: the caller takes the decision   *)
(* for unrecorded, but its operation stays in the writer's queue.          *)
TimeOut(e) ==
  /\ status[e] = "sent"
  /\ status' = [status EXCEPT ![e] = "refused"]
  /\ UNCHANGED <<audit, chk, mem, at, queue, faults, crashes>>

-----------------------------------------------------------------------------
(* The writer: append(event), one queued operation at a time               *)

(* The operation settles: the next one may start, and the caller, if it    *)
(* still waits, gets the answer.                                           *)
AnswerWedging(verdict) ==         \* mutant: a rejected promise stays in the chain
  /\ queue' = IF verdict = "refused" THEN queue ELSE Tail(queue)
  /\ status' = [status EXCEPT ![Head(queue)] =
                  IF @ = "sent" THEN verdict ELSE @]
Answer(verdict) ==
  /\ queue' = Tail(queue)
  /\ status' = [status EXCEPT ![Head(queue)] =
                  IF @ = "sent" THEN verdict ELSE @]

StorageUnchangedUnchecked == TRUE                              \* mutant
StorageUnchanged == /\ mem.auditState = Size(audit)
                    /\ mem.chkState = Size(chk)

(* The first statements of append: every Interval appends the ledger is    *)
(* verified from its start, otherwise only the files' identity.            *)
CheckNever ==                           \* mutant: no periodic verification
  /\ at = "ready" /\ queue # <<>>
  /\ IF StorageUnchanged
     THEN at' = "checked" /\ UNCHANGED <<queue, status>>
     ELSE Answer("refused") /\ UNCHANGED at
  /\ UNCHANGED <<audit, chk, mem, faults, crashes>>
Check ==
  /\ at = "ready" /\ queue # <<>>
  /\ mem.appends < Interval
  /\ IF StorageUnchanged
     THEN at' = "checked" /\ UNCHANGED <<queue, status>>
     ELSE Answer("refused") /\ UNCHANGED at
  /\ UNCHANGED <<audit, chk, mem, faults, crashes>>

Reverify ==
  /\ at = "ready" /\ queue # <<>>
  /\ mem.appends >= Interval
  /\ IF Consistent
     THEN \E o \in Outcome :
            /\ AssertConsistent(o)
            /\ IF o = "ok"
               THEN at' = "checked" /\ mem' = Reloaded /\ UNCHANGED <<queue, status>>
               ELSE Answer("refused") /\ UNCHANGED <<at, mem>>
     ELSE Answer("refused") /\ UNCHANGED <<chk, at, mem, faults>>
  /\ UNCHANGED <<audit, crashes>>

(* The ledger's line.  Once it is durable the fields advance; a failed     *)
(* append leaves them as they were.                                        *)
AppendEntryRetrying ==                  \* mutant: a failed append is repeated
  /\ at = "checked"
  /\ \E o \in Outcome :
       /\ Tried(o)
       /\ audit' = Appended(audit, [event |-> Head(queue),
                                    sequence |-> mem.sequence + 1,
                                    previous |-> mem.head], o)
       /\ IF o = "ok"
          THEN /\ at' = "appended"
               /\ mem' = [mem EXCEPT !.sequence = @ + 1, !.head = Head(queue),
                                     !.auditState = Size(audit')]
          ELSE UNCHANGED <<at, mem>>
  /\ UNCHANGED <<chk, queue, status, crashes>>
AppendEntry ==
  /\ at = "checked"
  /\ \E o \in Outcome :
       /\ Tried(o)
       /\ audit' = Appended(audit, [event |-> Head(queue),
                                    sequence |-> mem.sequence + 1,
                                    previous |-> mem.head], o)
       /\ IF o = "ok"
          THEN /\ at' = "appended"
               /\ mem' = [mem EXCEPT !.sequence = @ + 1, !.head = Head(queue),
                                     !.auditState = Size(audit')]
               /\ UNCHANGED <<queue, status>>
          ELSE /\ at' = "ready"
               /\ Answer("refused")
               /\ UNCHANGED mem
  /\ UNCHANGED <<chk, crashes>>

(* The checkpoint's line, and the answer.  If it fails, the entry is       *)
(* recorded although its caller is refused.                                *)
WriteCheckpoint(verdict) ==
  /\ at = "appended"
  /\ \E o \in Outcome :
       /\ Tried(o)
       /\ chk' = Appended(chk, CheckpointOf(mem.sequence, mem.head, mem.chkHead), o)
       /\ mem' = IF o = "ok"
                 THEN [mem EXCEPT !.chkHead = @ + 1, !.chkState = Size(chk'),
                                  !.appends = @ + 1]
                 ELSE mem
       /\ Answer(verdict[o])
  /\ at' = "ready"
  /\ UNCHANGED <<audit, crashes>>

CheckpointBestEffort == WriteCheckpoint([o \in Outcome |-> "granted"])  \* mutant
AppendCheckpoint ==
  WriteCheckpoint([o \in Outcome |-> IF o = "ok" THEN "granted" ELSE "refused"])

-----------------------------------------------------------------------------
(* Restarts                                                                *)

(* The container stops: the queue is gone and every open call breaks off.  *)
Crash ==
  /\ at # "down" /\ crashes < MaxCrashes
  /\ at' = "down" /\ queue' = <<>>
  /\ status' = [e \in Events |-> IF status[e] = "sent" THEN "refused" ELSE status[e]]
  /\ crashes' = crashes + 1
  /\ UNCHANGED <<audit, chk, mem, faults>>

(* The constructor: verify everything.  If that throws, so does the        *)
(* process, and it is started again.                                       *)
Start ==
  /\ at = "down"
  /\ \E o \in Outcome :
       /\ AssertConsistent(o)
       /\ IF o = "ok" THEN at' = "ready" /\ mem' = Reloaded
                      ELSE UNCHANGED <<at, mem>>
  /\ UNCHANGED <<audit, queue, status, crashes>>

Operate == Check \/ Reverify \/ AppendEntry \/ AppendCheckpoint

Next == \/ \E e \in Events : Submit(e) \/ TimeOut(e)
        \/ Operate
        \/ Crash \/ Start

Spec == Init /\ [][Next]_vars

(* The event loop runs queued operations, and Docker restarts the writer.  *)
FairSpec == Spec /\ WF_vars(Operate) /\ WF_vars(Start)

-----------------------------------------------------------------------------
(* Properties                                                              *)

TypeOK ==
  /\ audit \in [lines : Seq(Entry), torn : BOOLEAN]
  /\ chk \in [lines : Seq(Checkpoint), torn : BOOLEAN]
  /\ mem \in [sequence : Nat, head : Hash, chkHead : Nat, auditState : Nat \X BOOLEAN,
              chkState : Nat \X BOOLEAN, appends : 0..Interval]
  /\ at \in {"down", "ready", "checked", "appended"}
  /\ queue \in Seq(Events) /\ (at \in {"checked", "appended"} => queue # <<>>)
  /\ status \in [Events -> {"new", "sent", "granted", "refused"}]
  /\ faults \in 0..MaxFaults /\ crashes \in 0..MaxCrashes

Recorded == [k \in 1..Len(audit.lines) |-> audit.lines[k].event]

(* A caller that was told 201 finds its decision in the ledger, and a      *)
(* durable checkpoint covers it: whatever crashes or fails later, the      *)
(* evidence of a grant cannot be cut off without the chain showing it.     *)
GrantsCheckpointed ==
  \A e \in Events : status[e] = "granted" =>
    \E k \in 1..Len(audit.lines), c \in 1..Len(chk.lines) :
      audit.lines[k].event = e /\ k <= chk.lines[c].sequence

(* However appends fail, the writer never forks or skips its own chains:   *)
(* the entries and checkpoints that are whole always verify, and every     *)
(* checkpoint describes a prefix of the ledger.                            *)
ChainsIntact ==
  /\ EntriesChained /\ CheckpointsChained
  /\ \A c \in 1..Len(chk.lines) :
       /\ chk.lines[c].sequence \in 1..Len(audit.lines)
       /\ chk.lines[c].head = audit.lines[chk.lines[c].sequence].event

(* As long as no append has failed, the writer can restart after any       *)
(* crashes: the ledger is level with its checkpoints, or one entry ahead   *)
(* (assertConsistent).                                                     *)
CrashesRecoverable == faults = 0 => Consistent

(* A crash "can leave exactly one valid HMAC entry ahead of the last       *)
(* durable checkpoint" (the comment in assertConsistent): a writer that is *)
(* down with whole files has never left more.                              *)
ExactlyOneAhead ==
  at = "down" /\ ~audit.torn /\ ~chk.torn /\ chk.lines # <<>>
    => Len(audit.lines) <= Last(chk.lines).sequence + 1

Trail == INSTANCE AuditTrail
           WITH log <- Recorded, granted <- {e \in Events : status[e] = "granted"}

(* Refinement: the ledger only ever grows, by one submitted decision at a  *)
(* time and never twice by the same, and only recorded ones are granted.   *)
ImplementsTrail == Trail!Spec

(* No failure wedges the handler's promise chain: a queued operation is    *)
(* answered and leaves the queue.                                          *)
QueueDrains == \A e \in Events : Contains(queue, e) ~> ~Contains(queue, e)
=============================================================================
