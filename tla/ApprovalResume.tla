--------------------------- MODULE ApprovalResume ---------------------------
(***************************************************************************)
(* resumeWorkflow of config/declarative-orchestrator.mjs: several          *)
(* command-line processes resume suspended workflow instances that share a *)
(* checkpoint directory.  Every file-system call another process could     *)
(* observe is a step of its own: the exclusive creation of                 *)
(* <id>.resuming.lock, its contents, the stale-lock recovery (judge,       *)
(* unlink, create again), the checkpoint's read and its atomic             *)
(* replacement, the unconditional unlink of the lock, and the writes after *)
(* the lock is gone.                                                       *)
(*                                                                         *)
(* A checkpoint is abstracted to its status and successorInstanceId: the   *)
(* other fields never change once it is written, and consumedAt is set in  *)
(* the write that makes the status IN_PROGRESS and never cleared.  A token *)
(* is the instance it was signed for: its digest covers status and         *)
(* consumedAt, and only a suspended checkpoint gets as far as the          *)
(* signature, so tokens signed over a later state are left out.            *)
(***************************************************************************)
EXTENDS Naturals

CONSTANTS Procs,        \* processes that may call resumeWorkflow
          Host,         \* those outside the container's pid namespace
          Ids,          \* instance identifiers
          NoProc, NoId,
          LocksAge,     \* whether behaviours last beyond the lock's 30 s
          MaxFaults     \* bound on failing writes

ASSUME ConstAssumption == /\ Host \subseteq Procs
                          /\ NoProc \notin Procs
                          /\ NoId \notin Ids
                          /\ LocksAge \in BOOLEAN
                          /\ MaxFaults \in Nat

VARIABLES
  ckpt,      \* <id>.json of each instance
  lock,      \* <id>.resuming.lock of each instance
  tokens,    \* instances the host operator has signed a token for
  pc, inst, tok, mem,  \* each process: place, target, token, checkpoint read
  faults,    \* writes, of checkpoints and of a lock's contents, that have failed
  (* history, read by no action *)
  runs,      \* times the approved step of each instance was started
  stolen     \* whether the lock of a live holder was ever unlinked as stale

vars == <<ckpt, lock, tokens, pc, inst, tok, mem, faults, runs, stolen>>
files == <<ckpt, lock>>
history == <<runs, stolen>>

Suspended == "SUSPENDED_APPROVAL_REQUIRED"
Status == {"absent", Suspended, "IN_PROGRESS", "CONSUMED", "FAILED", "EXPIRED"}
Checkpoint == [status : Status, succ : Ids \cup {NoId}]
Absent == [status |-> "absent", succ |-> NoId]
Fresh  == [status |-> Suspended, succ |-> NoId]

LockFile == [owner : Procs \cup {NoProc}, pid : BOOLEAN, aged : BOOLEAN]
NoLock   == [owner |-> NoProc, pid |-> FALSE, aged |-> FALSE]
NewLock(p) == [owner |-> p, pid |-> FALSE, aged |-> FALSE]

Place == {"idle", "found", "judged", "cleared", "created", "locked", "loaded",
          "refused", "claimed", "released", "running", "settling", "dead"}

TypeOK ==
  /\ ckpt \in [Ids -> Checkpoint]
  /\ lock \in [Ids -> LockFile]
  /\ tokens \in SUBSET Ids
  /\ pc \in [Procs -> Place]
  /\ inst \in [Procs -> Ids \cup {NoId}]
  /\ tok \in [Procs -> Ids \cup {NoId}]
  /\ mem \in [Procs -> Checkpoint]
  /\ faults \in 0..MaxFaults
  /\ runs \in [Ids -> Nat]
  /\ stolen \in BOOLEAN
  /\ \A p \in Procs : pc[p] \notin {"idle", "dead"} => inst[p] \in Ids

Init ==
  /\ ckpt = [i \in Ids |-> Absent]
  /\ lock = [i \in Ids |-> NoLock]
  /\ tokens = {}
  /\ pc   = [p \in Procs |-> "idle"]
  /\ inst = [p \in Procs |-> NoId]
  /\ tok  = [p \in Procs |-> NoId]
  /\ mem  = [p \in Procs |-> Absent]
  /\ faults = 0
  /\ runs = [i \in Ids |-> 0]
  /\ stolen = FALSE

-----------------------------------------------------------------------------
(* Building blocks                                                         *)

Goto(p, place) == /\ pc' = [pc EXCEPT ![p] = place]
                  /\ UNCHANGED <<inst, tok>>

(* resumeWorkflow returns or throws and the process exits, or it dies:     *)
(* what it held in memory is gone either way.                              *)
Leave(p, place) == /\ pc' = [pc EXCEPT ![p] = place]
                   /\ inst' = [inst EXCEPT ![p] = NoId]
                   /\ tok' = [tok EXCEPT ![p] = NoId]
                   /\ mem' = [mem EXCEPT ![p] = Absent]

(* What p has loaded, under another status.                                *)
Marked(p, s) == [mem[p] EXCEPT !.status = s]

(* A check throws: only the finally that unlinks the lock is left to run,  *)
(* and what was loaded or presented is not read again.                     *)
Reject(p) == /\ pc' = [pc EXCEPT ![p] = "refused"]
             /\ tok' = [tok EXCEPT ![p] = NoId]
             /\ mem' = [mem EXCEPT ![p] = Absent]
             /\ UNCHANGED inst

Alive(p) == pc[p] \notin {"idle", "dead"}

HoldingPlaces == {"created", "locked", "loaded", "refused", "claimed"}

(* p is inside the exclusive section of i                                  *)
Holds(p, i) == pc[p] \in HoldingPlaces /\ inst[p] = i

(* writeCheckpointAtomically: the file is replaced ("ok"); a write, fsync  *)
(* or rename fails and the old file stays ("early"); or the directory      *)
(* fsync fails and the caller sees an error although the rename has taken  *)
(* effect ("late").                                                        *)
Outcome == {"ok", "early", "late"}
writeCheckpointAtomically(i, c, o) ==
  /\ o # "ok" => faults < MaxFaults
  /\ ckpt' = IF o = "early" THEN ckpt ELSE [ckpt EXCEPT ![i] = c]
  /\ faults' = IF o = "ok" THEN faults ELSE faults + 1

-----------------------------------------------------------------------------
(* The workflow suspends and the operator approves                         *)

(* executeWorkflow reaches a gate: a checkpoint under a new identifier.    *)
Suspend(i) ==
  /\ ckpt[i].status = "absent"
  /\ ckpt' = [ckpt EXCEPT ![i] = Fresh]
  /\ UNCHANGED <<lock, tokens, pc, inst, tok, mem, faults, history>>

(* dsh.sh approve: sign a token over the checkpoint's digest.              *)
Approve(i) ==
  /\ ckpt[i].status = Suspended
  /\ tokens' = tokens \cup {i}
  /\ UNCHANGED <<files, pc, inst, tok, mem, faults, history>>

-----------------------------------------------------------------------------
(* acquireLock                                                             *)

StartShared(p, i, t) ==                 \* mutant: opened without 'x'
  /\ pc[p] = "idle" /\ t \in tokens \cup {NoId}
  /\ inst' = [inst EXCEPT ![p] = i] /\ tok' = [tok EXCEPT ![p] = t]
  /\ lock' = [lock EXCEPT ![i] = NewLock(p)]
  /\ pc' = [pc EXCEPT ![p] = "created"]
  /\ UNCHANGED <<ckpt, tokens, mem, faults, history>>

(* The first openSync(lockPath, 'wx').                                     *)
Start(p, i, t) ==
  /\ pc[p] = "idle"
  /\ t \in tokens \cup {NoId}
  /\ inst' = [inst EXCEPT ![p] = i]
  /\ tok' = [tok EXCEPT ![p] = t]
  /\ \/ /\ lock[i] = NoLock
        /\ lock' = [lock EXCEPT ![i] = NewLock(p)]
        /\ pc' = [pc EXCEPT ![p] = "created"]
     \/ /\ lock[i] # NoLock
        /\ pc' = [pc EXCEPT ![p] = "found"]
        /\ UNCHANGED lock
  /\ UNCHANGED <<ckpt, tokens, mem, faults, history>>

(* writeFileSync(fd, {pid, createdAt}): if the lock file has been unlinked *)
(* meanwhile, the bytes go to a file no path leads to.  The write may      *)
(* throw: then the resume is refused before the block whose finally would  *)
(* unlink the file, which stays behind without a pid that can be read.     *)
WritePid(p) ==
  LET i == inst[p] IN
  /\ pc[p] = "created"
  /\ \/ /\ lock' = IF lock[i].owner = p THEN [lock EXCEPT ![i].pid = TRUE] ELSE lock
        /\ Goto(p, "locked")
        /\ UNCHANGED <<mem, faults>>
     \/ /\ faults < MaxFaults
        /\ faults' = faults + 1
        /\ Leave(p, "idle")
        /\ UNCHANGED lock
  /\ UNCHANGED <<ckpt, tokens, history>>

(* What process.kill(pid, 0) of the recorded pid may say: across pid       *)
(* namespaces the number belongs to an unrelated process or to none.       *)
SeenDead(p, owner) == IF (p \in Host) = (owner \in Host)
                      THEN {~Alive(owner)}
                      ELSE BOOLEAN

(* The lock counts as stale after 30 s, or when the pid written in it is   *)
(* dead; an empty lock file is stale by its age alone.                     *)
LooksStaleByPid(l, seenDead) == l.pid /\ seenDead          \* mutant
LooksStale(l, seenDead) == l.aged \/ (l.pid /\ seenDead)

(* EEXIST: stat, read and judge the lock file.  If the file is gone by     *)
(* now, the lock is not stale either.  Not stale: the resume is refused.   *)
Verdicts(p, l) == IF l = NoLock THEN {FALSE}
                  ELSE {LooksStale(l, d) : d \in SeenDead(p, l.owner)}
Judge(p) ==
  /\ pc[p] = "found"
  /\ \E stale \in Verdicts(p, lock[inst[p]]) :
       IF stale THEN Goto(p, "judged") /\ UNCHANGED mem
                ELSE Leave(p, "idle")
  /\ UNCHANGED <<files, tokens, faults, history>>

(* The recovery's unlink removes whatever lock file the path names now.    *)
UnlinkStale(p) ==
  LET i == inst[p] IN
  /\ pc[p] = "judged"
  /\ \/ /\ lock[i] # NoLock
        /\ lock' = [lock EXCEPT ![i] = NoLock]
        /\ stolen' = (stolen \/ \E q \in Procs : lock[i].owner = q /\ Holds(q, i))
        /\ Goto(p, "cleared")
        /\ UNCHANGED mem
     \/ /\ lock[i] = NoLock
        /\ Leave(p, "idle")
        /\ UNCHANGED <<lock, stolen>>
  /\ UNCHANGED <<ckpt, tokens, faults, runs>>

(* The second openSync(lockPath, 'wx'): refused if someone was faster.     *)
Recreate(p) ==
  LET i == inst[p] IN
  /\ pc[p] = "cleared"
  /\ \/ /\ lock[i] = NoLock
        /\ lock' = [lock EXCEPT ![i] = NewLock(p)]
        /\ Goto(p, "created")
        /\ UNCHANGED mem
     \/ /\ lock[i] # NoLock
        /\ Leave(p, "idle")
        /\ UNCHANGED lock
  /\ UNCHANGED <<ckpt, tokens, faults, history>>

-----------------------------------------------------------------------------
(* The exclusive section                                                   *)

Load(p) ==
  LET i == inst[p] IN
  /\ pc[p] = "locked"
  /\ IF ckpt[i].status = "absent"
     THEN Reject(p)
     ELSE Goto(p, "loaded") /\ mem' = [mem EXCEPT ![p] = ckpt[i]]
  /\ UNCHANGED <<files, tokens, faults, history>>

(* The status and token checks of a resume that is let through.            *)
AcceptableUnbound(p) == mem[p].status = Suspended /\ tok[p] # NoId \* mutant
AcceptableReplay(p)  == tok[p] = inst[p]                           \* mutant
AcceptableRetry(p)   == /\ mem[p].status \in {Suspended, "IN_PROGRESS"}
                        /\ tok[p] = inst[p]                        \* mutant
Acceptable(p) == mem[p].status = Suspended /\ tok[p] = inst[p]

(* A check throws.  Besides the two above there are the digest, the        *)
(* version, the persona, the manifest's step and the token's expiry: any   *)
(* of them may fail.                                                       *)
Refuse(p) ==
  /\ pc[p] = "loaded"
  /\ Reject(p)
  /\ UNCHANGED <<files, tokens, faults, history>>

(* Older than the time to live: the checkpoint becomes EXPIRED.            *)
Expire(p, o) ==
  /\ pc[p] = "loaded"
  /\ mem[p].status = Suspended
  /\ writeCheckpointAtomically(inst[p], Marked(p, "EXPIRED"), o)
  /\ Reject(p)
  /\ UNCHANGED <<lock, tokens, history>>

(* All checks pass: consume the approval.  If the write throws, the resume *)
(* ends although the checkpoint may already say IN_PROGRESS.               *)
Claim(p, o) ==
  /\ pc[p] = "loaded"
  /\ Acceptable(p)
  /\ writeCheckpointAtomically(inst[p], Marked(p, "IN_PROGRESS"), o)
  /\ IF o = "ok"
     THEN Goto(p, "claimed") /\ mem' = [mem EXCEPT ![p] = Marked(p, "IN_PROGRESS")]
     ELSE Reject(p)
  /\ UNCHANGED <<lock, tokens, history>>

(* finally: unlink the lock file the path names, whoever created it.       *)
Release(p) ==
  LET i == inst[p] IN
  /\ pc[p] \in {"refused", "claimed"}
  /\ lock' = [lock EXCEPT ![i] = NoLock]
  /\ IF pc[p] = "claimed" THEN Goto(p, "released") /\ UNCHANGED mem
                          ELSE Leave(p, "idle")
  /\ UNCHANGED <<ckpt, tokens, faults, history>>

-----------------------------------------------------------------------------
(* After the lock: run the workflow from the approved step                 *)

(* The approved step starts; or policy, audit or loop trap refuses it, or  *)
(* its condition is not met, and it is not run.                            *)
Act(p) ==
  /\ pc[p] = "released"
  /\ runs' \in {runs, [runs EXCEPT ![inst[p]] = @ + 1]}
  /\ Goto(p, "running")
  /\ UNCHANGED <<files, tokens, mem, faults, stolen>>

FinishReopened(p) ==                    \* mutant: suspended once more
  /\ pc[p] = "running"
  /\ mem' = [mem EXCEPT ![p].status = Suspended]
  /\ Goto(p, "settling")
  /\ UNCHANGED <<files, tokens, faults, history>>

FinishCompleted(p) ==                   \* mutant: the workflow's own status
  /\ pc[p] = "running"
  /\ \E s \in {"COMPLETED", "FAILED"} : mem' = [mem EXCEPT ![p].status = s]
  /\ Goto(p, "settling")
  /\ UNCHANGED <<files, tokens, faults, history>>

(* The remaining steps succeed, or one of them fails.                      *)
Finish(p) ==
  /\ pc[p] = "running"
  /\ \E s \in {"CONSUMED", "FAILED"} : mem' = [mem EXCEPT ![p].status = s]
  /\ Goto(p, "settling")
  /\ UNCHANGED <<files, tokens, faults, history>>

GateSwallowed(p, j, o) ==               \* mutant: the error is swallowed
  /\ pc[p] = "running"
  /\ ckpt[j].status = "absent"
  /\ writeCheckpointAtomically(j, Fresh, o)
  /\ mem' = [mem EXCEPT ![p] = [status |-> "CONSUMED", succ |-> j]]
  /\ Goto(p, "settling")
  /\ UNCHANGED <<lock, tokens, history>>

(* A later gate: its checkpoint is written first, under an identifier of   *)
(* its own.  If that write throws, the workflow has failed, and the        *)
(* identifier is recorded as the successor all the same.                   *)
Gate(p, j, o) ==
  /\ pc[p] = "running"
  /\ ckpt[j].status = "absent"
  /\ writeCheckpointAtomically(j, Fresh, o)
  /\ mem' = [mem EXCEPT ![p] =
               [status |-> IF o = "ok" THEN "CONSUMED" ELSE "FAILED", succ |-> j]]
  /\ Goto(p, "settling")
  /\ UNCHANGED <<lock, tokens, history>>

SettleUnlessFailed(p, o) ==             \* mutant: not in a finally block
  /\ pc[p] = "settling"
  /\ writeCheckpointAtomically(inst[p],
       IF mem[p].status = "FAILED" THEN ckpt[inst[p]] ELSE mem[p], o)
  /\ Leave(p, "idle")
  /\ UNCHANGED <<lock, tokens, history>>

(* finally: the accepted checkpoint is written with its terminal status.   *)
Settle(p, o) ==
  /\ pc[p] = "settling"
  /\ writeCheckpointAtomically(inst[p], mem[p], o)
  /\ Leave(p, "idle")
  /\ UNCHANGED <<lock, tokens, history>>

-----------------------------------------------------------------------------
(* The environment                                                         *)

(* A process is killed, or the container goes down, at any point.          *)
Crash(p) ==
  /\ Alive(p)
  /\ Leave(p, "dead")
  /\ UNCHANGED <<files, tokens, faults, history>>

(* 30 s pass since the lock file was written.                              *)
Age(i) ==
  /\ LocksAge
  /\ lock[i] # NoLock
  /\ ~lock[i].aged
  /\ lock' = [lock EXCEPT ![i].aged = TRUE]
  /\ UNCHANGED <<ckpt, tokens, pc, inst, tok, mem, faults, history>>

-----------------------------------------------------------------------------
(* The steps of a running resume, in the order of the code                 *)
Step(p) ==
  \/ WritePid(p) \/ Judge(p) \/ UnlinkStale(p) \/ Recreate(p)
  \/ Load(p) \/ Refuse(p) \/ Release(p) \/ Act(p) \/ Finish(p)
  \/ \E o \in Outcome : Expire(p, o) \/ Claim(p, o) \/ Settle(p, o)
  \/ \E o \in Outcome, j \in Ids : Gate(p, j, o)

Next ==
  \/ \E i \in Ids : Suspend(i) \/ Approve(i) \/ Age(i)
  \/ \E p \in Procs : Step(p) \/ Crash(p)
  \/ \E p \in Procs, i \in Ids, t \in Ids \cup {NoId} : Start(p, i, t)

Spec == Init /\ [][Next]_vars

(* Fairness: a running process is scheduled, and file-system calls and     *)
(* action handlers return; operators may always retry; clocks advance.     *)
Fairness ==
  /\ \A p \in Procs : WF_vars(Step(p))
  /\ \A p \in Procs, i \in Ids :
       SF_vars(\E t \in Ids \cup {NoId} : Start(p, i, t))
  /\ \A i \in Ids : WF_vars(Age(i))

FairSpec == Spec /\ Fairness

-----------------------------------------------------------------------------
(* Properties                                                              *)

(* Unless the lock of a live holder has been taken for stale, no two       *)
(* processes are in the exclusive section of one instance                  *)
(* (resumeWorkflow, "Exclusive Lock Acquisition").                         *)
MutualExclusion ==
  ~stolen => \A i \in Ids : \A p, q \in Procs :
               Holds(p, i) /\ Holds(q, i) => p = q

(* The approved step of a checkpoint is started at most once, whatever     *)
(* crashes, failing writes and resumes do: what README.md calls a          *)
(* single-consumption checkpoint.                                          *)
SingleConsumption == \A i \in Ids : runs[i] <= 1

(* ... and the code keeps that promise for as long as no live holder's     *)
(* lock has been taken for stale.                                          *)
SingleConsumptionUnlessStolen == ~stolen => SingleConsumption

(* A step runs only if a token was signed for that very instance: one for  *)
(* a predecessor does not open a later gate.  This needs no lock.          *)
ApprovedOnly == \A i \in Ids : runs[i] > 0 => i \in tokens

(* The later gate is never lost.  A checkpoint that names a successor has  *)
(* it on disk, whatever crashes between the two writes; the one exception  *)
(* is the gate whose own checkpoint could not be written, and that resume  *)
(* is on record as FAILED: a CONSUMED checkpoint's successor is there.     *)
Named(i) == ckpt[i].succ # NoId
Lost(i)  == Named(i) /\ ckpt[ckpt[i].succ].status = "absent"
SuccessorDurable ==
  \A i \in Ids : Lost(i) => ckpt[i].status = "FAILED" /\ faults > 0

(* Two resumes never settle one checkpoint: the process between claiming   *)
(* and settling is the only one, and the file still says IN_PROGRESS.      *)
Owns(p, i) == inst[p] = i /\ pc[p] \in {"claimed", "released", "running", "settling"}
OwnersUnique ==
  \A p \in Procs, i \in Ids : Owns(p, i) =>
    /\ ckpt[i].status = "IN_PROGRESS"
    /\ \A q \in Procs : Owns(q, i) => q = p
SoleOwner == ~stolen => OwnersUnique

(* The inductive invariant behind the three claims about the lock: who     *)
(* holds an instance also owns its lock file; what a holder read as        *)
(* suspended still is; and an approval nobody has claimed, or that its     *)
(* owner has only just claimed, has not been used.                         *)
LockHeld == \A p \in Procs, i \in Ids : Holds(p, i) => lock[i].owner = p
LoadedCurrent ==
  \A p \in Procs : pc[p] = "loaded" /\ mem[p].status = Suspended
                     => ckpt[inst[p]].status = Suspended
UnusedApprovals ==
  /\ \A i \in Ids : ckpt[i].status \in {"absent", Suspended} => runs[i] = 0
  /\ \A p \in Procs : pc[p] \in {"claimed", "released"} => runs[inst[p]] = 0
SettlesFinally ==
  \A p \in Procs : pc[p] = "settling" => mem[p].status \in {"CONSUMED", "FAILED"}

ResumeInv ==
  /\ SettlesFinally
  /\ ~stolen => /\ LockHeld /\ LoadedCurrent /\ OwnersUnique
                /\ UnusedApprovals /\ SingleConsumption

PhaseOf(status) == CASE status = "absent"      -> "unissued"
                     [] status = Suspended     -> "pending"
                     [] status = "IN_PROGRESS" -> "accepted"
                     [] OTHER                  -> "closed"

Grant == INSTANCE ApprovalGrant
           WITH phase <- [i \in Ids |-> PhaseOf(ckpt[i].status)]

(* Refinement: every step maps to a step of the abstract gate or leaves    *)
(* its state alone, up to the first theft of a live lock; in particular    *)
(* the status only ever moves forward.                                     *)
ImplementsGrant == Grant!Init /\ [][~stolen' => Grant!Next]_(Grant!vars)

(* An accepted checkpoint reaches a terminal status, unless a process died *)
(* or a write failed on the way: then it stays IN_PROGRESS.                *)
AcceptedSettles ==
  \A i \in Ids : ckpt[i].status = "IN_PROGRESS"
    ~> \/ ckpt[i].status \in {"CONSUMED", "FAILED"}
       \/ faults > 0 \/ \E p \in Procs : pc[p] = "dead"

(* A lock file whose creator is gone, because it died or because it could  *)
(* not write its pid, does not block the instance for good: as long as     *)
(* some process lives to retry, it is recovered.                           *)
CrashedLockRecovered ==
  \A i \in Ids, q \in Procs : lock[i].owner = q /\ ~Holds(q, i)
    ~> lock[i].owner # q \/ \A p \in Procs : pc[p] = "dead"
=============================================================================
