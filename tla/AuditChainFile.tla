--------------------------- MODULE AuditChainFile ---------------------------
(***************************************************************************)
(* logGrcAuditEvent of config/rbac-policy.mjs without an external writer:  *)
(* every process appends its decisions to one hash-chained file itself,    *)
(* under a lock file, and to a second file, the fallback, if the first     *)
(* cannot be written.  A file operation of a call is an action.            *)
(*                                                                         *)
(* An entry is its event, its sequence number and the event whose hash it  *)
(* names; every call logs an event of its own.  Files begin empty: entries *)
(* from before the chain was introduced, and changes of the key, are left  *)
(* out.  Only the calls write to the files, so that a file has changed     *)
(* if and only if its size has.                                            *)
(***************************************************************************)
EXTENDS Naturals, Sequences, SequencesExt

CONSTANTS Procs, NoProc, Dead,   \* processes; no one; one that has gone
          Events, NoEvent,
          MaxFaults,             \* bound on failing file operations
          MaxCrashes             \* bound on dying processes

ASSUME ChainFileAssumption ==
  /\ NoProc \notin Procs /\ Dead \notin Procs /\ NoProc # Dead
  /\ NoEvent \notin Events
  /\ MaxFaults \in Nat /\ MaxCrashes \in Nat

VARIABLES
  file,          \* of each sink: lines, whether the last one has its newline, size
  lock, old,     \* who made the lock file; whether it is older than 30 s
  cache,         \* auditChainHeadCache of each process
  pc, sink, event, head, outcome,    \* the call each process is in
  answer,        \* of each event: what its caller was told
  faults, crashes,
  (* history *)
  stolen,        \* whether a live holder's lock has been unlinked by another
  joined         \* whether an entry was put behind a line without newline

locks == <<lock, old>>
call == <<sink, event, head, outcome>>
bounds == <<faults, crashes>>
vars == <<file, locks, cache, pc, call, answer, bounds, stolen, joined>>

Sinks == {"primary", "fallback"}
Entry == [event : Events, sequence : Nat, previous : Events \cup {NoEvent}]
ChainHead == [sequence : Nat, hash : Events \cup {NoEvent}]
Garbage == [event |-> NoEvent, sequence |-> 0, previous |-> NoEvent]  \* no JSON
Genesis == [sequence |-> 0, hash |-> NoEvent]

TypeOK ==
  /\ file \in [Sinks -> [lines : Seq(Entry \cup {Garbage}), ended : BOOLEAN, size : Nat]]
  /\ lock \in [Sinks -> Procs \cup {NoProc, Dead}] /\ old \in [Sinks -> BOOLEAN]
  /\ cache \in [Procs -> [Sinks -> [head : ChainHead, size : Nat]]]
  /\ pc \in [Procs -> {"idle", "locking", "unlinking", "reading", "appending",
                       "remembering", "unlocking"}]
  /\ sink \in [Procs -> Sinks]
  /\ event \in [Procs -> Events \cup {NoEvent}]
  /\ head \in [Procs -> ChainHead]
  /\ outcome \in [Procs -> {"none", "recorded", "io", "integrity"}]
  /\ answer \in [Events -> {"none", "pending", "granted", "refused"}]
  /\ faults \in 0..MaxFaults /\ crashes \in 0..MaxCrashes
  /\ stolen \in BOOLEAN /\ joined \in BOOLEAN

NoCache == [s \in Sinks |-> [head |-> Genesis, size |-> 0]]

Init ==
  /\ file = [s \in Sinks |-> [lines |-> <<>>, ended |-> TRUE, size |-> 0]]
  /\ lock = [s \in Sinks |-> NoProc] /\ old = [s \in Sinks |-> FALSE]
  /\ cache = [p \in Procs |-> NoCache]
  /\ pc = [p \in Procs |-> "idle"]
  /\ sink = [p \in Procs |-> "primary"]
  /\ event = [p \in Procs |-> NoEvent]
  /\ head = [p \in Procs |-> Genesis]
  /\ outcome = [p \in Procs |-> "none"]
  /\ answer = [e \in Events |-> "none"]
  /\ faults = 0 /\ crashes = 0
  /\ stolen = FALSE /\ joined = FALSE

-----------------------------------------------------------------------------
(* The chain                                                               *)

(* verifyGrcAuditChain                                                     *)
Verifies(lines) ==
  \A n \in DOMAIN lines :
    /\ lines[n] # Garbage
    /\ lines[n].sequence = n
    /\ lines[n].previous = IF n = 1 THEN NoEvent ELSE lines[n-1].event

(* appendFileSync: what follows a line without newline becomes one with it. *)
Added(f, line, ended) ==
  [lines |-> IF f.ended THEN Append(f.lines, line) ELSE Append(Front(f.lines), Garbage),
   ended |-> ended,
   size  |-> f.size + 1]

HeadOf(f) == IF f.lines = <<>> THEN Genesis
             ELSE [sequence |-> Last(f.lines).sequence, hash |-> Last(f.lines).event]

Fault == faults < MaxFaults /\ faults' = faults + 1 /\ UNCHANGED crashes
Goto(p, place) == pc' = [pc EXCEPT ![p] = place]
Conclude(p, o) == outcome' = [outcome EXCEPT ![p] = o]

Leave(p) ==
  /\ Goto(p, "idle")
  /\ sink' = [sink EXCEPT ![p] = "primary"]
  /\ event' = [event EXCEPT ![p] = NoEvent]
  /\ outcome' = [outcome EXCEPT ![p] = "none"]

Return(p, a) == Leave(p) /\ answer' = [answer EXCEPT ![event[p]] = a]

(* The sink has failed p: the fallback is tried if there is one left and   *)
(* the failure is no evidence of tampering.                                *)
Failed(p, o) ==
  IF o = "io" /\ sink[p] = "primary"
  THEN /\ Goto(p, "locking")
       /\ sink' = [sink EXCEPT ![p] = "fallback"]
       /\ outcome' = [outcome EXCEPT ![p] = "none"]
       /\ UNCHANGED <<event, answer>>
  ELSE Return(p, "refused")

-----------------------------------------------------------------------------
(* withAuditFileLock                                                       *)

Call(p, e) ==
  /\ pc[p] = "idle" /\ answer[e] = "none"
  /\ Goto(p, "locking")
  /\ event' = [event EXCEPT ![p] = e]
  /\ answer' = [answer EXCEPT ![e] = "pending"]
  /\ UNCHANGED <<file, locks, cache, sink, head, outcome, bounds, stolen, joined>>

(* The lock file is created; if the pid cannot be written to it, it stays. *)
Acquire(p) ==
  LET s == sink[p] IN
  /\ pc[p] = "locking" /\ lock[s] = NoProc
  /\ old' = [old EXCEPT ![s] = FALSE]
  /\ \/ /\ lock' = [lock EXCEPT ![s] = p]
        /\ Goto(p, "reading")
        /\ UNCHANGED <<sink, event, outcome, answer, bounds>>
     \/ /\ Fault
        /\ \E l \in {NoProc, Dead} : lock' = [lock EXCEPT ![s] = l]
        /\ Failed(p, "io")
  /\ UNCHANGED <<file, cache, head, stolen, joined>>

(* The deadline of 5 s has passed.                                         *)
GiveUp(p) ==
  /\ pc[p] = "locking" /\ lock[sink[p]] # NoProc
  /\ Failed(p, "io")
  /\ UNCHANGED <<file, locks, cache, head, bounds, stolen, joined>>

SeeOld(p) ==
  /\ pc[p] = "locking" /\ lock[sink[p]] # NoProc /\ old[sink[p]]
  /\ Goto(p, "unlinking")
  /\ UNCHANGED <<file, locks, cache, call, answer, bounds, stolen, joined>>

(* Whatever lock file is there by now is unlinked.                         *)
Unlink(p) ==
  LET s == sink[p] IN
  /\ pc[p] = "unlinking"
  /\ Goto(p, "locking")
  /\ lock' = [lock EXCEPT ![s] = NoProc] /\ old' = [old EXCEPT ![s] = FALSE]
  /\ stolen' = (stolen \/ lock[s] \in Procs)
  /\ UNCHANGED <<file, cache, call, answer, bounds, joined>>

-----------------------------------------------------------------------------
(* The operation under the lock                                            *)

RememberedBlindly(p, f) == cache[p][sink[p]].size > 0 \/ f.size = 0     \* mutant
(* auditChainHeadCache: the file is still the one the head was taken from. *)
Remembered(p, f) == cache[p][sink[p]].size = f.size

AcceptedAsAnchor(lines) ==       \* mutant: no JSON is taken for an old entry
  Verifies(SelectSeq(lines, LAMBDA l : l # Garbage))
Accepted(lines) == Verifies(lines)

(* readAuditChainHead: the head remembered for this state of the file, or  *)
(* the head of the file if all of it verifies.                             *)
ReadHead(p) ==
  LET s == sink[p]  f == file[s] IN
  /\ pc[p] = "reading"
  /\ \/ /\ Remembered(p, f)
        /\ head' = [head EXCEPT ![p] = cache[p][s].head]
        /\ Goto(p, "appending")
        /\ UNCHANGED <<cache, outcome, bounds>>
     \/ /\ ~Remembered(p, f) /\ Accepted(f.lines)
        /\ head' = [head EXCEPT ![p] = HeadOf(f)]
        /\ cache' = [cache EXCEPT ![p][s] = [head |-> HeadOf(f), size |-> f.size]]
        /\ Goto(p, "appending")
        /\ UNCHANGED <<outcome, bounds>>
     \/ /\ ~Remembered(p, f) /\ ~Accepted(f.lines)
        /\ Conclude(p, "integrity") /\ Goto(p, "unlocking")
        /\ UNCHANGED <<cache, head, bounds>>
     \/ /\ Fault
        /\ Conclude(p, "io") /\ Goto(p, "unlocking")
        /\ UNCHANGED <<cache, head>>
  /\ UNCHANGED <<file, locks, sink, event, answer, stolen, joined>>

EntryOf(p) == [event |-> event[p], sequence |-> head[p].sequence + 1,
               previous |-> head[p].hash]

(* The entry is written; or none of it, a part, all but its newline, or    *)
(* all of it, before an error.                                             *)
AppendEntry(p) ==
  LET s == sink[p]  f == file[s] IN
  /\ pc[p] = "appending"
  /\ \/ /\ file' = [file EXCEPT ![s] = Added(f, EntryOf(p), TRUE)]
        /\ Goto(p, "remembering") /\ UNCHANGED <<outcome, bounds>>
     \/ /\ Fault
        /\ \E g \in {f, Added(f, Garbage, FALSE), Added(f, EntryOf(p), FALSE),
                     Added(f, EntryOf(p), TRUE)} :
             file' = [file EXCEPT ![s] = g]
        /\ Conclude(p, "io") /\ Goto(p, "unlocking")
  /\ joined' = (joined \/ (~f.ended /\ file' # file))
  /\ UNCHANGED <<locks, cache, sink, event, head, answer, stolen>>

(* statSync, whose result is remembered with the new head.                 *)
Remember(p) ==
  LET s == sink[p] IN
  /\ pc[p] = "remembering"
  /\ Goto(p, "unlocking")
  /\ \/ /\ cache' = [cache EXCEPT ![p][s] =
               [head |-> [sequence |-> head[p].sequence + 1, hash |-> event[p]],
                size |-> file[s].size]]
        /\ Conclude(p, "recorded") /\ UNCHANGED bounds
     \/ Fault /\ Conclude(p, "io") /\ UNCHANGED cache
  /\ UNCHANGED <<file, locks, sink, event, head, answer, stolen, joined>>

(* finally: the lock file is unlinked, whoever has made it, or stays if    *)
(* that fails.                                                             *)
Unlock(p) ==
  LET s == sink[p] IN
  /\ pc[p] = "unlocking"
  /\ \/ /\ lock' = [lock EXCEPT ![s] = NoProc] /\ old' = [old EXCEPT ![s] = FALSE]
        /\ stolen' = (stolen \/ lock[s] \in Procs \ {p})
        /\ UNCHANGED bounds
     \/ /\ Fault
        /\ lock' = [lock EXCEPT ![s] = IF @ = p THEN Dead ELSE @]
        /\ UNCHANGED <<old, stolen>>
  /\ IF outcome[p] = "recorded"
     THEN Return(p, "granted")
     ELSE Failed(p, outcome[p])
  /\ head' = [head EXCEPT ![p] = Genesis]
  /\ UNCHANGED <<file, cache, joined>>

-----------------------------------------------------------------------------
(* The environment                                                         *)

Age(s) ==
  /\ lock[s] # NoProc /\ ~old[s]
  /\ old' = [old EXCEPT ![s] = TRUE]
  /\ UNCHANGED <<file, lock, cache, pc, call, answer, bounds, stolen, joined>>

(* A process dies, and another takes its place.                            *)
Crash(p) ==
  /\ crashes < MaxCrashes
  /\ crashes' = crashes + 1
  /\ lock' = [s \in Sinks |-> IF lock[s] = p THEN Dead ELSE lock[s]]
  /\ cache' = [cache EXCEPT ![p] = NoCache]
  /\ Leave(p) /\ head' = [head EXCEPT ![p] = Genesis]
  /\ UNCHANGED <<file, old, answer, faults, stolen, joined>>

Step(p) == \/ Acquire(p) \/ GiveUp(p) \/ SeeOld(p) \/ Unlink(p)
           \/ ReadHead(p) \/ AppendEntry(p) \/ Remember(p) \/ Unlock(p)

Next == \/ \E p \in Procs : Step(p) \/ Crash(p) \/ \E e \in Events : Call(p, e)
        \/ \E s \in Sinks : Age(s)

Spec == Init /\ [][Next]_vars

-----------------------------------------------------------------------------
(* Properties                                                              *)

Undisturbed == ~stolen /\ ~joined

(* A caller that is told its decision is recorded can rely on it: the      *)
(* event is in one of the files, and the chain up to it verifies, whatever *)
(* failed, died or was left behind -- until a live holder loses its lock   *)
(* or an entry is put behind a line that lacks only its newline.           *)
GrantsVerifiable ==
  Undisturbed =>
    \A e \in Events : answer[e] = "granted" =>
      \E s \in Sinks : \E n \in DOMAIN file[s].lines :
        /\ Verifies(SubSeq(file[s].lines, 1, n))
        /\ file[s].lines[n].event = e

(* A file that does not verify is evidence, and nothing is added to it,    *)
(* not by a process that remembers a head for it either ("Continuing on a  *)
(* fresh file would hide the break", logGrcAuditEvent).                    *)
EvidenceUntouched ==
  [][\A s \in Sinks : ~Verifies(file[s].lines) /\ Undisturbed => file'[s] = file[s]]_vars

(* The part of a sink's file that verifies, and what has been granted that *)
(* is not in the other one.                                                *)
LogIn(s) ==
  [n \in {k \in DOMAIN file[s].lines : Verifies(SubSeq(file[s].lines, 1, k))} |->
     file[s].lines[n].event]
GrantedIn(s) ==
  {e \in Events : answer[e] = "granted" /\ \A t \in Sinks \ {s} : ~Contains(LogIn(t), e)}

Primary == INSTANCE AuditTrail WITH log <- LogIn("primary"), granted <- GrantedIn("primary")
Fallback == INSTANCE AuditTrail WITH log <- LogIn("fallback"), granted <- GrantedIn("fallback")

(* Either file implements what the writer promises, without the writer: as *)
(* long as it is undisturbed, what verifies of it only ever grows, by one  *)
(* decision at a time and never twice by the same, and what is granted and *)
(* not in the other file is in it (logGrcAuditEvent).                      *)
ImplementsTrails ==
  /\ Primary!Init /\ [][Undisturbed' => [Primary!Next]_Primary!vars]_vars
  /\ Fallback!Init /\ [][Undisturbed' => [Fallback!Next]_Fallback!vars]_vars
=============================================================================
