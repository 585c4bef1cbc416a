----------------------- MODULE ApprovalResume_proofs -----------------------
(***************************************************************************)
(* TLAPS proofs about ApprovalResume, for any number of processes,         *)
(* instances and failing writes.                                           *)
(***************************************************************************)
EXTENDS ApprovalResume, TLAPS

-----------------------------------------------------------------------------
(* Records: what the steps read and write in checkpoints and lock files    *)

LEMMA RecordTypes ==
  /\ Absent \in Checkpoint /\ Fresh \in Checkpoint /\ NoLock \in LockFile
  /\ \A p \in Procs : NewLock(p) \in LockFile
BY DEF Absent, Fresh, Checkpoint, Status, NoLock, NewLock, LockFile

LEMMA StatusTypes ==
  {"absent", Suspended, "IN_PROGRESS", "CONSUMED", "FAILED", "EXPIRED"} \subseteq Status
BY DEF Status

LEMMA SetStatus ==
  ASSUME NEW f \in [Procs -> Checkpoint], NEW p \in Procs, NEW s \in Status
  PROVE  [f EXCEPT ![p].status = s] \in [Procs -> Checkpoint]
BY DEF Checkpoint

LEMMA SetPid ==
  ASSUME NEW f \in [Ids -> LockFile], NEW i \in Ids
  PROVE  /\ [f EXCEPT ![i].pid = TRUE] \in [Ids -> LockFile]
         /\ [f EXCEPT ![i].aged = TRUE] \in [Ids -> LockFile]
BY DEF LockFile

LEMMA MarkType ==
  ASSUME TypeOK, NEW p \in Procs, NEW s \in Status
  PROVE  /\ Marked(p, s) \in Checkpoint
         /\ Marked(p, s).status = s /\ Marked(p, s).succ = mem[p].succ
BY DEF TypeOK, Marked, Checkpoint

(* An atomic replacement leaves a checkpoint of the right type behind,     *)
(* whichever way it ends.                                                  *)
LEMMA WriteType ==
  ASSUME TypeOK, NEW i \in Ids, NEW c \in Checkpoint, NEW o \in Outcome,
         writeCheckpointAtomically(i, c, o)
  PROVE  ckpt' \in [Ids -> Checkpoint] /\ faults' \in 0..MaxFaults
BY ConstAssumption DEF TypeOK, writeCheckpointAtomically, Outcome

-----------------------------------------------------------------------------
(* Type correctness                                                        *)

LEMMA InitType == Init => TypeOK
<1> SUFFICES ASSUME Init PROVE TypeOK
  OBVIOUS
<1>1. ckpt \in [Ids -> Checkpoint] /\ lock \in [Ids -> LockFile]
  BY RecordTypes DEF Init
<1>2. pc \in [Procs -> Place] /\ mem \in [Procs -> Checkpoint]
  BY RecordTypes DEF Init, Place
<1>3. faults \in 0..MaxFaults /\ runs \in [Ids -> Nat]
  BY ConstAssumption DEF Init
<1>4. QED
  BY <1>1, <1>2, <1>3 DEF Init, TypeOK

LEMMA StepType == ASSUME TypeOK, [Next]_vars PROVE TypeOK'
<1> USE DEF TypeOK, Goto, Reject, Leave, files, history, Place
<1>1. ASSUME NEW i \in Ids, Suspend(i) \/ Approve(i) \/ Age(i) PROVE TypeOK'
  <2>1. CASE Suspend(i)
    BY <2>1, RecordTypes DEF Suspend
  <2>2. CASE Approve(i)
    BY <2>2 DEF Approve
  <2>3. CASE Age(i)
    BY <2>3, SetPid DEF Age
  <2>4. QED
    BY <1>1, <2>1, <2>2, <2>3
<1>2. ASSUME NEW p \in Procs, NEW i \in Ids, NEW t \in Ids \cup {NoId}, Start(p, i, t)
      PROVE TypeOK'
  BY <1>2, RecordTypes DEF Start
<1>3. ASSUME NEW p \in Procs, WritePid(p) PROVE TypeOK'
  <2>1. inst[p] \in Ids /\ [lock EXCEPT ![inst[p]].pid = TRUE] \in [Ids -> LockFile]
    BY <1>3, SetPid DEF WritePid
  <2>2. CASE faults' = faults + 1 /\ faults < MaxFaults /\ Leave(p, "idle")
             /\ UNCHANGED lock
    BY <1>3, <2>2, RecordTypes, ConstAssumption DEF WritePid
  <2>3. CASE UNCHANGED <<mem, faults>> /\ Goto(p, "locked")
             /\ lock' \in {lock, [lock EXCEPT ![inst[p]].pid = TRUE]}
    BY <1>3, <2>1, <2>3 DEF WritePid
  <2>4. QED
    BY <1>3, <2>2, <2>3 DEF WritePid
<1>4. ASSUME NEW p \in Procs, Judge(p) PROVE TypeOK'
  BY <1>4, RecordTypes DEF Judge
<1>5. ASSUME NEW p \in Procs, UnlinkStale(p) PROVE TypeOK'
  <2>1. stolen' \in BOOLEAN
    BY <1>5, Zenon DEF UnlinkStale
  <2>2. lock' \in [Ids -> LockFile] /\ mem' \in [Procs -> Checkpoint]
    BY <1>5, RecordTypes DEF UnlinkStale
  <2>3. /\ pc' \in [Procs -> Place]
        /\ inst' \in [Procs -> Ids \cup {NoId}]
        /\ \A q \in Procs : pc'[q] \notin {"idle", "dead"} => inst'[q] \in Ids
    BY <1>5 DEF UnlinkStale
  <2>4. QED
    BY <1>5, <2>1, <2>2, <2>3 DEF UnlinkStale
<1>6. ASSUME NEW p \in Procs, Recreate(p) PROVE TypeOK'
  BY <1>6, RecordTypes DEF Recreate
<1>7. ASSUME NEW p \in Procs, Load(p) \/ Refuse(p) PROVE TypeOK'
  <2>1. mem' \in [Procs -> Checkpoint]
    BY <1>7, RecordTypes DEF Load, Refuse
  <2>2. QED
    BY <1>7, <2>1 DEF Load, Refuse
<1>8. ASSUME NEW p \in Procs, Release(p) PROVE TypeOK'
  BY <1>8, RecordTypes DEF Release
<1>9. ASSUME NEW p \in Procs, Act(p) PROVE TypeOK'
  BY <1>9 DEF Act
<1>10. ASSUME NEW p \in Procs, Finish(p) PROVE TypeOK'
  BY <1>10, SetStatus, StatusTypes DEF Finish
<1>11. ASSUME NEW p \in Procs, NEW o \in Outcome, Expire(p, o) PROVE TypeOK'
  <2>1. mem' \in [Procs -> Checkpoint]
    BY <1>11, RecordTypes DEF Expire
  <2>2. ckpt' \in [Ids -> Checkpoint] /\ faults' \in 0..MaxFaults
    BY <1>11, MarkType, StatusTypes, WriteType DEF Expire
  <2>3. QED
    BY <1>11, <2>1, <2>2 DEF Expire
<1>12. ASSUME NEW p \in Procs, NEW o \in Outcome, Claim(p, o) PROVE TypeOK'
  <2>1. mem' \in [Procs -> Checkpoint]
    <3>1. Marked(p, "IN_PROGRESS") \in Checkpoint
      BY <1>12, MarkType, StatusTypes
    <3>2. mem' \in {[mem EXCEPT ![p] = Marked(p, "IN_PROGRESS")], [mem EXCEPT ![p] = Absent]}
      BY <1>12, Zenon DEF Claim
    <3>3. QED
      BY <3>1, <3>2, RecordTypes
  <2>2. ckpt' \in [Ids -> Checkpoint] /\ faults' \in 0..MaxFaults
    BY <1>12, MarkType, StatusTypes, WriteType DEF Claim
  <2>3. QED
    BY <1>12, <2>1, <2>2 DEF Claim
<1>13. ASSUME NEW p \in Procs, NEW o \in Outcome, Settle(p, o) PROVE TypeOK'
  <2>1. ckpt' \in [Ids -> Checkpoint] /\ faults' \in 0..MaxFaults
    BY <1>13, WriteType DEF Settle
  <2>2. QED
    BY <1>13, <2>1, RecordTypes DEF Settle
<1>14. ASSUME NEW p \in Procs, NEW o \in Outcome, NEW j \in Ids, Gate(p, j, o)
       PROVE TypeOK'
  <2>1. mem' \in [Procs -> Checkpoint]
    BY <1>14 DEF Gate, Checkpoint, Status
  <2>2. ckpt' \in [Ids -> Checkpoint] /\ faults' \in 0..MaxFaults
    BY <1>14, RecordTypes, WriteType DEF Gate
  <2>3. QED
    BY <1>14, <2>1, <2>2 DEF Gate
<1>15. ASSUME NEW p \in Procs, Crash(p) PROVE TypeOK'
  BY <1>15, RecordTypes DEF Crash
<1>16. CASE UNCHANGED vars
  BY <1>16 DEF vars
<1>17. QED
  BY <1>1, <1>2, <1>3, <1>4, <1>5, <1>6, <1>7, <1>8, <1>9, <1>10, <1>11, <1>12,
     <1>13, <1>14, <1>15, <1>16 DEF Next, Step

(* Every variable keeps its type; in particular the checkpoint a process   *)
(* holds in memory is always one the resume protocol can write.            *)
THEOREM TypeCorrect == Spec => []TypeOK
<1>1. QED BY InitType, StepType, PTL DEF Spec

LEMMA InitInv == Init => ResumeInv
BY DEF Init, ResumeInv, SettlesFinally, LockHeld, LoadedCurrent, OwnersUnique,
   UnusedApprovals, SingleConsumption, Holds, HoldingPlaces, Owns

LEMMA StepInv == ASSUME TypeOK, ResumeInv, [Next]_vars PROVE ResumeInv'
<1> USE DEF Goto, Reject, Leave, files, history, Holds, HoldingPlaces, Owns, TypeOK, ResumeInv,
        SettlesFinally, LockHeld, LoadedCurrent, OwnersUnique, UnusedApprovals,
        SingleConsumption
<1>1. ASSUME NEW i \in Ids, Suspend(i) PROVE ResumeInv'
  BY <1>1 DEF Suspend, Fresh
<1>2. ASSUME NEW i \in Ids, Approve(i) PROVE ResumeInv'
  BY <1>2 DEF Approve
<1>3. ASSUME NEW i \in Ids, Age(i) PROVE ResumeInv'
  BY <1>3 DEF Age, LockFile
(* A lock file is created only where there is none, so nobody holds i:     *)
(* a holder would own the file.                                            *)
<1>4. ASSUME NEW p \in Procs, NEW i \in Ids, NEW t \in Ids \cup {NoId}, Start(p, i, t)
      PROVE ResumeInv'
  BY <1>4, ConstAssumption DEF Start, NewLock, NoLock
<1>5. ASSUME NEW p \in Procs, WritePid(p) PROVE ResumeInv'
  BY <1>5 DEF WritePid, LockFile
<1>6. ASSUME NEW p \in Procs, Judge(p) PROVE ResumeInv'
  BY <1>6 DEF Judge, Absent
(* The one step that can take a live holder's lock away: then it is a      *)
(* theft and the guarded part claims nothing any more.                     *)
<1>7. ASSUME NEW p \in Procs, UnlinkStale(p) PROVE ResumeInv'
  <2> DEFINE i == inst[p]
  <2>1. i \in Ids /\ lock[i] \in LockFile
    BY <1>7 DEF UnlinkStale, Place
  <2>2. SettlesFinally'
    BY <1>7 DEF UnlinkStale, Absent
  <2>3. ASSUME ~stolen' PROVE ~stolen /\ LockHeld'
    <3>1. ~stolen
      BY <1>7, <2>3 DEF UnlinkStale
    <3>2. CASE lock[i] = NoLock
      BY <1>7, <3>1, <3>2 DEF UnlinkStale
    <3>3. CASE lock[i] # NoLock
      <4>1. ~(\E q \in Procs : lock[i].owner = q /\ Holds(q, i))
        BY <1>7, <2>3, <3>3, Zenon DEF UnlinkStale
      <4>2. \A q \in Procs : ~Holds(q, i)
        BY <2>1, <3>1, <4>1
      <4>3. QED
        BY <1>7, <2>1, <3>1, <3>3, <4>2 DEF UnlinkStale
    <3>4. QED
      BY <3>2, <3>3, <3>1
  <2>4. ASSUME ~stolen'
        PROVE  LoadedCurrent' /\ OwnersUnique' /\ UnusedApprovals' /\ SingleConsumption'
    BY <1>7, <2>3, <2>4 DEF UnlinkStale, Absent
  <2>5. QED
    BY <2>2, <2>3, <2>4
<1>8. ASSUME NEW p \in Procs, Recreate(p) PROVE ResumeInv'
  BY <1>8, ConstAssumption DEF Recreate, NoLock, NewLock, Absent
<1>9. ASSUME NEW p \in Procs, Load(p) \/ Refuse(p) PROVE ResumeInv'
  BY <1>9 DEF Load, Refuse, Absent
<1>10. ASSUME NEW p \in Procs, Release(p) PROVE ResumeInv'
  BY <1>10 DEF Release, Absent
(* The owner that starts the step is the only one, and had not started it. *)
<1>11. ASSUME NEW p \in Procs, Act(p) PROVE ResumeInv'
  <2>1. CASE runs' = runs
    BY <1>11, <2>1 DEF Act
  <2>2. CASE runs' = [runs EXCEPT ![inst[p]] = @ + 1]
    <3>1. inst[p] \in Ids /\ pc' = [pc EXCEPT ![p] = "running"]
          /\ UNCHANGED <<ckpt, lock, inst, mem, stolen>>
      BY <1>11 DEF Act
    <3>2. ~stolen => /\ runs[inst[p]] = 0 /\ ckpt[inst[p]].status = "IN_PROGRESS"
                     /\ \A q \in Procs : Owns(q, inst[p]) => q = p
      BY <1>11 DEF Act
    <3>3. ~stolen' => LockHeld' /\ LoadedCurrent' /\ OwnersUnique' /\ SettlesFinally'
      BY <1>11, <3>1 DEF Act
    <3>4. ~stolen' => SingleConsumption'
      BY <2>2, <3>1, <3>2
    <3>5. ~stolen' => UnusedApprovals'
      BY <2>2, <3>1, <3>2 DEF Suspended
    <3>6. QED
      BY <1>11, <3>1, <3>3, <3>4, <3>5 DEF Act
  <2>3. QED
    BY <1>11, <2>1, <2>2 DEF Act
<1>12. ASSUME NEW p \in Procs, Finish(p) PROVE ResumeInv'
  BY <1>12 DEF Finish, Checkpoint
(* The writers: what p has read as suspended is so still, so nobody owns   *)
(* the checkpoint; and no second holder has read it.                       *)
<1>13. ASSUME NEW p \in Procs, NEW o \in Outcome, Expire(p, o) PROVE ResumeInv'
  BY <1>13 DEF Expire, writeCheckpointAtomically, Checkpoint, Suspended
<1>14. ASSUME NEW p \in Procs, NEW o \in Outcome, Claim(p, o) PROVE ResumeInv'
  <2> DEFINE i == inst[p]
  <2> DEFINE c == Marked(p, "IN_PROGRESS")
  <2>1. /\ pc[p] = "loaded" /\ mem[p].status = Suspended /\ i \in Ids
        /\ c \in Checkpoint /\ c.status = "IN_PROGRESS"
        /\ UNCHANGED <<lock, tokens, history, inst>>
    BY <1>14, MarkType, StatusTypes DEF Claim, Acceptable
  <2> HIDE DEF c
  <2>2. CASE o = "ok"
    <3>1. /\ ckpt' = [ckpt EXCEPT ![i] = c] /\ pc' = [pc EXCEPT ![p] = "claimed"]
          /\ mem' = [mem EXCEPT ![p] = c]
      BY <1>14, <2>2 DEF Claim, writeCheckpointAtomically, c
    <3>2. QED
      BY <2>1, <3>1 DEF Suspended
  <2>3. CASE o # "ok"
    <3>1. /\ ckpt' \in {ckpt, [ckpt EXCEPT ![i] = c]} /\ pc' = [pc EXCEPT ![p] = "refused"]
          /\ mem' = [mem EXCEPT ![p] = Absent]
      BY <1>14, <2>3 DEF Claim, writeCheckpointAtomically, c
    <3>2. QED
      BY <2>1, <3>1 DEF Suspended, Absent
  <2>4. QED
    BY <2>2, <2>3
<1>15. ASSUME NEW p \in Procs, NEW o \in Outcome, Settle(p, o) PROVE ResumeInv'
  BY <1>15 DEF Settle, writeCheckpointAtomically, Checkpoint, Absent, Suspended
<1>16. ASSUME NEW p \in Procs, NEW o \in Outcome, NEW j \in Ids, Gate(p, j, o)
       PROVE ResumeInv'
  BY <1>16 DEF Gate, writeCheckpointAtomically, Fresh, Checkpoint, Suspended
<1>17. ASSUME NEW p \in Procs, Crash(p) PROVE ResumeInv'
  BY <1>17 DEF Crash, Absent
<1>18. CASE UNCHANGED vars
  BY <1>18 DEF vars
<1>19. QED
  BY <1>1, <1>2, <1>3, <1>4, <1>5, <1>6, <1>7, <1>8, <1>9, <1>10, <1>11, <1>12,
     <1>13, <1>14, <1>15, <1>16, <1>17, <1>18 DEF Next, Step

(* The strengthening behind the safety theorems: it holds initially and    *)
(* every step preserves it.                                                *)
THEOREM InductiveInvariant == Spec => []ResumeInv
<1>1. QED BY InitInv, StepInv, InitType, StepType, PTL DEF Spec

(* Until the lock of a live holder is taken for stale, the lock excludes:  *)
(* a process that holds an instance owns its lock file, and a file has one *)
(* owner.                                                                  *)
THEOREM LockExcludes == Spec => []MutualExclusion
<1>1. TypeOK /\ ResumeInv => MutualExclusion
  BY DEF MutualExclusion, ResumeInv, LockHeld
<1>2. QED BY <1>1, TypeCorrect, InductiveInvariant, PTL

(* README.md's single-consumption checkpoint, under that same proviso and  *)
(* for any number of processes, crashes and failing writes.                *)
THEOREM ConsumedOnce == Spec => []SingleConsumptionUnlessStolen
<1>1. ResumeInv => SingleConsumptionUnlessStolen
  BY DEF ResumeInv, SingleConsumptionUnlessStolen
<1>2. QED BY <1>1, InductiveInvariant, PTL

(* Between claiming and settling a checkpoint has one owner.               *)
THEOREM OneOwner == Spec => []SoleOwner
<1>1. ResumeInv => SoleOwner
  BY DEF ResumeInv, SoleOwner
<1>2. QED BY <1>1, InductiveInvariant, PTL

-----------------------------------------------------------------------------
(* Two claims that need no lock, and hold after a theft as well            *)

(* Where approvals are: a process carries a token only if it was signed,   *)
(* and it claims an instance only with the token for it.                   *)
TokensSigned ==
  /\ \A p \in Procs : tok[p] # NoId => tok[p] \in tokens
  /\ \A p \in Procs : pc[p] \in {"claimed", "released"} => inst[p] \in tokens
  /\ ApprovedOnly

LEMMA StepTokens == ASSUME TypeOK, TokensSigned, [Next]_vars PROVE TokensSigned'
<1> USE DEF TypeOK, TokensSigned, ApprovedOnly, Goto, Reject, Leave, files, history
<1>1. ASSUME NEW i \in Ids, Suspend(i) \/ Approve(i) \/ Age(i) PROVE TokensSigned'
  BY <1>1 DEF Suspend, Approve, Age
<1>2. ASSUME NEW p \in Procs, NEW i \in Ids, NEW t \in Ids \cup {NoId}, Start(p, i, t)
      PROVE TokensSigned'
  BY <1>2 DEF Start
<1>3. ASSUME NEW p \in Procs,
             WritePid(p) \/ Judge(p) \/ UnlinkStale(p) \/ Recreate(p) \/ Load(p) \/ Refuse(p)
      PROVE  TokensSigned'
  BY <1>3 DEF WritePid, Judge, UnlinkStale, Recreate, Load, Refuse
<1>4. ASSUME NEW p \in Procs, Release(p) \/ Finish(p) \/ Crash(p) PROVE TokensSigned'
  BY <1>4 DEF Release, Finish, Crash
<1>5. ASSUME NEW p \in Procs, Act(p) PROVE TokensSigned'
  <2>1. inst[p] \in tokens
    BY <1>5 DEF Act
  <2>2. \A i \in Ids : runs'[i] > 0 => runs[i] > 0 \/ i = inst[p]
    BY <1>5 DEF Act
  <2>3. QED
    BY <1>5, <2>1, <2>2 DEF Act
<1>6. ASSUME NEW p \in Procs, NEW o \in Outcome, Expire(p, o) \/ Settle(p, o)
      PROVE  TokensSigned'
  BY <1>6 DEF Expire, Settle
<1>7. ASSUME NEW p \in Procs, NEW o \in Outcome, Claim(p, o) PROVE TokensSigned'
  BY <1>7, ConstAssumption DEF Claim, Acceptable
<1>8. ASSUME NEW p \in Procs, NEW o \in Outcome, NEW j \in Ids, Gate(p, j, o)
      PROVE TokensSigned'
  BY <1>8 DEF Gate
<1>9. CASE UNCHANGED vars
  BY <1>9 DEF vars
<1>10. QED
  BY <1>1, <1>2, <1>3, <1>4, <1>5, <1>6, <1>7, <1>8, <1>9 DEF Next, Step

(* No step runs without a signature for its own instance, even if locks    *)
(* are stolen: tokens are bound to the checkpoint they were signed for.    *)
THEOREM RunsApproved == Spec => []ApprovedOnly
<1>1. Init => TokensSigned
  BY DEF Init, TokensSigned, ApprovedOnly
<1>2. TokensSigned => ApprovedOnly
  BY DEF TokensSigned
<1>3. QED
  BY <1>1, <1>2, StepTokens, TypeCorrect, PTL DEF Spec

(* Where successors are named: in no checkpoint that is still suspended,   *)
(* by no process that has not finished running, and then only after the    *)
(* successor's own checkpoint is on disk or has failed to get there.       *)
SuccessorsKnown ==
  /\ SettlesFinally
  /\ \A i \in Ids : ckpt[i].status = Suspended => ckpt[i].succ = NoId
  /\ \A p \in Procs :
       \/ pc[p] = "loaded" /\ mem[p].status = Suspended
       \/ pc[p] \in {"claimed", "released", "running"}
       => mem[p].succ = NoId
  /\ \A p \in Procs :
       pc[p] = "settling" /\ mem[p].succ # NoId
         => \/ ckpt[mem[p].succ].status # "absent"
            \/ mem[p].status = "FAILED" /\ faults > 0
  /\ SuccessorDurable

(* A checkpoint, once on disk, is never absent again.                      *)
LEMMA WriteKeeps ==
  ASSUME TypeOK, NEW i \in Ids, NEW c \in Checkpoint, NEW o \in Outcome,
         c.status # "absent", writeCheckpointAtomically(i, c, o)
  PROVE  \A j \in Ids : ckpt[j].status # "absent" => ckpt'[j].status # "absent"
BY DEF TypeOK, writeCheckpointAtomically

(* A checkpoint that was loaded as suspended is written under another      *)
(* status: it names no successor, then as before.                          *)
LEMMA MarkedKeeps ==
  ASSUME TypeOK, SuccessorsKnown, NEW p \in Procs, NEW o \in Outcome, NEW s \in Status,
         pc[p] = "loaded", mem[p].status = Suspended, s \notin {"absent", Suspended},
         writeCheckpointAtomically(inst[p], Marked(p, s), o),
         pc' \in {[pc EXCEPT ![p] = "claimed"], [pc EXCEPT ![p] = "refused"]},
         mem' \in {[mem EXCEPT ![p] = Marked(p, s)], [mem EXCEPT ![p] = Absent]}
  PROVE  SuccessorsKnown'
<1> DEFINE i == inst[p]
<1> DEFINE c == Marked(p, s)
<1>1. i \in Ids /\ c \in Checkpoint /\ c.status = s /\ c.succ = mem[p].succ
  BY MarkType DEF TypeOK
<1> HIDE DEF c
<1>2. ckpt' \in {ckpt, [ckpt EXCEPT ![i] = c]} /\ (faults > 0 => faults' > 0)
  BY ConstAssumption DEF TypeOK, writeCheckpointAtomically, c
<1>3. c.succ = NoId
  BY <1>1 DEF SuccessorsKnown
<1>4. mem' \in {[mem EXCEPT ![p] = c], [mem EXCEPT ![p] = Absent]}
  BY DEF c
<1>5. \A j \in Ids : ckpt[j].status # "absent" => ckpt'[j].status # "absent"
  BY <1>1, <1>2 DEF TypeOK
<1>6. \A j \in Ids : Lost(j)' => Lost(j)
  BY <1>1, <1>2, <1>3, <1>5 DEF TypeOK, Lost, Named, Checkpoint
<1>7. \A j \in Ids : Lost(j)' => ckpt'[j] = ckpt[j]
  BY <1>1, <1>2, <1>3 DEF TypeOK, Lost, Named
<1>8. SuccessorDurable'
  <2>1. \A j \in Ids : Lost(j)' => ckpt[j].status = "FAILED" /\ faults > 0
    BY <1>6 DEF SuccessorsKnown, SuccessorDurable
  <2>2. QED
    BY <1>2, <1>7, <2>1 DEF SuccessorDurable
<1>9. \A j \in Ids : ckpt'[j].status = Suspended => ckpt'[j].succ = NoId
  BY <1>1, <1>2, <1>3 DEF TypeOK, SuccessorsKnown
<1>10. \A q \in Procs : \/ pc'[q] = "loaded" /\ mem'[q].status = Suspended
                        \/ pc'[q] \in {"claimed", "released", "running"}
                        => mem'[q].succ = NoId
  BY <1>1, <1>3, <1>4 DEF TypeOK, SuccessorsKnown, Absent
<1>11. \A q \in Procs : pc'[q] = "settling" => pc[q] = "settling" /\ mem'[q] = mem[q]
  BY <1>4 DEF TypeOK
<1>12. SettlesFinally'
  BY <1>11 DEF SuccessorsKnown, SettlesFinally
<1>13. \A q \in Procs : pc'[q] = "settling" /\ mem'[q].succ # NoId
                        => \/ ckpt'[mem'[q].succ].status # "absent"
                           \/ mem'[q].status = "FAILED" /\ faults' > 0
  <2>1. \A q \in Procs : mem[q].succ \in Ids \cup {NoId}
    BY DEF TypeOK, Checkpoint
  <2>2. QED
    BY <1>2, <1>5, <1>11, <2>1 DEF SuccessorsKnown
<1>14. QED
  BY <1>8, <1>9, <1>10, <1>12, <1>13 DEF SuccessorsKnown

LEMMA StepSuccessors ==
  ASSUME TypeOK, SuccessorsKnown, [Next]_vars PROVE SuccessorsKnown'
<1> USE DEF TypeOK, SuccessorsKnown, SettlesFinally, SuccessorDurable, Named, Lost,
            Goto, Reject, Leave, files, history
<1>1. ASSUME NEW i \in Ids, Suspend(i) \/ Approve(i) \/ Age(i) PROVE SuccessorsKnown'
  <2>1. CASE Suspend(i)
    <3>1. ckpt' = [ckpt EXCEPT ![i] = Fresh] /\ UNCHANGED <<pc, mem>>
      BY <2>1 DEF Suspend
    <3>2. \A j \in Ids : ckpt[j].status # "absent" => ckpt'[j].status # "absent"
      BY <3>1 DEF Fresh, Suspended
    <3>3. UNCHANGED faults /\ i \in Ids /\ ckpt[i].status = "absent"
      BY <1>1, <2>1 DEF Suspend
    <3>4. \A j \in Ids : Lost(j)' => j # i /\ ckpt'[j] = ckpt[j] /\ Lost(j)
      BY <3>1, <3>2 DEF Fresh, Checkpoint
    <3>5. SuccessorDurable'
      BY <3>3, <3>4
    <3>6. \A j \in Ids : ckpt'[j].status = Suspended => ckpt'[j].succ = NoId
      BY <3>1 DEF Fresh
    <3>7. QED
      BY <3>1, <3>2, <3>3, <3>5, <3>6 DEF Checkpoint
  <2>2. CASE Approve(i) \/ Age(i)
    BY <2>2 DEF Approve, Age
  <2>3. QED
    BY <1>1, <2>1, <2>2
<1>2. ASSUME NEW p \in Procs, NEW i \in Ids, NEW t \in Ids \cup {NoId}, Start(p, i, t)
      PROVE SuccessorsKnown'
  BY <1>2 DEF Start
<1>3. ASSUME NEW p \in Procs,
             WritePid(p) \/ Judge(p) \/ UnlinkStale(p) \/ Recreate(p)
      PROVE  SuccessorsKnown'
  BY <1>3 DEF WritePid, Judge, UnlinkStale, Recreate, Absent
<1>4. ASSUME NEW p \in Procs, Load(p) \/ Refuse(p) PROVE SuccessorsKnown'
  BY <1>4 DEF Load, Refuse
<1>5. ASSUME NEW p \in Procs, Release(p) \/ Act(p) \/ Finish(p) \/ Crash(p)
      PROVE SuccessorsKnown'
  <2>1. CASE Release(p) \/ Crash(p)
    BY <2>1 DEF Release, Crash, Absent
  <2>2. CASE Act(p)
    BY <2>2 DEF Act
  <2>3. CASE Finish(p)
    BY <2>3 DEF Finish, Checkpoint
  <2>4. QED
    BY <1>5, <2>1, <2>2, <2>3
<1>6. ASSUME NEW p \in Procs, NEW o \in Outcome, Expire(p, o) PROVE SuccessorsKnown'
  BY <1>6, MarkedKeeps, StatusTypes DEF Expire, Suspended
<1>7. ASSUME NEW p \in Procs, NEW o \in Outcome, Claim(p, o) PROVE SuccessorsKnown'
  BY <1>7, MarkedKeeps, StatusTypes DEF Claim, Acceptable, Suspended
<1>8. ASSUME NEW p \in Procs, NEW o \in Outcome, Settle(p, o) PROVE SuccessorsKnown'
  BY <1>8 DEF Settle, writeCheckpointAtomically, Checkpoint, Suspended, Absent
<1>9. ASSUME NEW p \in Procs, NEW o \in Outcome, NEW j \in Ids, Gate(p, j, o)
      PROVE SuccessorsKnown'
  BY <1>9 DEF Gate, writeCheckpointAtomically, Fresh, Checkpoint, Suspended
<1>10. CASE UNCHANGED vars
  BY <1>10 DEF vars
<1>11. QED
  BY <1>1, <1>2, <1>3, <1>4, <1>5, <1>6, <1>7, <1>8, <1>9, <1>10 DEF Next, Step

(* A checkpoint that names a successor has it on disk, whatever crashes    *)
(* between the two writes; only one that is FAILED, after a write that     *)
(* failed, may name one that is not there.                                 *)
THEOREM SuccessorsKept == Spec => []SuccessorDurable
<1>1. Init => SuccessorsKnown
  BY DEF Init, SuccessorsKnown, SettlesFinally, SuccessorDurable, Named, Lost, Absent, Suspended
<1>2. SuccessorsKnown => SuccessorDurable
  BY DEF SuccessorsKnown
<1>3. QED
  BY <1>1, <1>2, StepSuccessors, TypeCorrect, PTL DEF Spec

-----------------------------------------------------------------------------
(* Refinement                                                              *)

LEMMA Phases ==
  /\ PhaseOf("absent") = "unissued" /\ PhaseOf(Suspended) = "pending"
  /\ PhaseOf("IN_PROGRESS") = "accepted" /\ PhaseOf("EXPIRED") = "closed"
  /\ PhaseOf("CONSUMED") = "closed" /\ PhaseOf("FAILED") = "closed"
BY DEF PhaseOf, Suspended

(* What one write does to the phases: nothing, or it moves the phase of    *)
(* the checkpoint it replaces.                                             *)
LEMMA WriteMoves ==
  ASSUME TypeOK, NEW i \in Ids, NEW c \in Checkpoint, NEW o \in Outcome,
         writeCheckpointAtomically(i, c, o), runs' = runs
  PROVE  \/ UNCHANGED Grant!vars
         \/ Grant!Move(i, PhaseOf(ckpt[i].status), PhaseOf(c.status))
<1>1. CASE ckpt' = ckpt
  BY <1>1 DEF Grant!vars
<1>2. CASE ckpt' = [ckpt EXCEPT ![i] = c]
  BY <1>2 DEF Grant!Move, TypeOK
<1>3. QED
  BY <1>1, <1>2 DEF writeCheckpointAtomically

LEMMA StepGrant ==
  ASSUME TypeOK, ResumeInv, [Next]_vars
  PROVE  [~stolen' => Grant!Next]_(Grant!vars)
<1> SUFFICES ASSUME ~stolen' PROVE Grant!Next \/ UNCHANGED Grant!vars
  OBVIOUS
<1> USE DEF history, files, Goto, Reject, Leave
<1>1. ASSUME NEW i \in Ids, Suspend(i) PROVE Grant!Next
  <2>1. Grant!Move(i, "unissued", "pending")
    BY <1>1, Phases DEF Suspend, Grant!Move, Fresh, TypeOK
  <2>2. QED
    BY <2>1 DEF Grant!Next, Grant!Issue
<1>2. ASSUME UNCHANGED <<ckpt, runs>> PROVE UNCHANGED Grant!vars
  BY <1>2 DEF Grant!vars
<1>3. ASSUME NEW i \in Ids, Approve(i) \/ Age(i) PROVE UNCHANGED Grant!vars
  BY <1>2, <1>3 DEF Approve, Age
<1>4. ASSUME NEW p \in Procs, NEW i \in Ids, NEW t \in Ids \cup {NoId}, Start(p, i, t)
      PROVE UNCHANGED Grant!vars
  BY <1>2, <1>4 DEF Start
<1>5. ASSUME NEW p \in Procs,
             \/ WritePid(p) \/ Judge(p) \/ UnlinkStale(p) \/ Recreate(p) \/ Load(p)
             \/ Refuse(p) \/ Release(p) \/ Finish(p) \/ Crash(p)
      PROVE UNCHANGED Grant!vars
  BY <1>2, <1>5 DEF WritePid, Judge, UnlinkStale, Recreate, Load, Refuse, Release,
                    Finish, Crash
(* The owner acts on an accepted instance that has not run.                *)
<1>6. ASSUME NEW p \in Procs, Act(p) PROVE Grant!Next \/ UNCHANGED Grant!vars
  <2>1. CASE runs' = runs
    BY <1>2, <1>6, <2>1 DEF Act
  <2>2. CASE runs' = [runs EXCEPT ![inst[p]] = @ + 1]
    <3>1. /\ inst[p] \in Ids /\ runs[inst[p]] = 0
          /\ ckpt[inst[p]].status = "IN_PROGRESS" /\ ckpt' = ckpt
      BY <1>6 DEF Act, TypeOK, ResumeInv, UnusedApprovals, OwnersUnique, Owns
    <3>2. runs' = [runs EXCEPT ![inst[p]] = 1]
      BY <2>2, <3>1 DEF TypeOK
    <3>3. Grant!Act(inst[p])
      BY <3>1, <3>2, Phases DEF Grant!Act
    <3>4. QED
      BY <3>1, <3>3 DEF Grant!Next
  <2>3. QED
    BY <1>6, <2>1, <2>2 DEF Act
<1>7. ASSUME NEW p \in Procs, NEW o \in Outcome, Expire(p, o)
      PROVE Grant!Next \/ UNCHANGED Grant!vars
  <2>1. /\ inst[p] \in Ids /\ ckpt[inst[p]].status = Suspended
        /\ Marked(p, "EXPIRED") \in Checkpoint /\ Marked(p, "EXPIRED").status = "EXPIRED"
    BY <1>7, MarkType, StatusTypes DEF Expire, TypeOK, ResumeInv, LoadedCurrent
  <2>2. UNCHANGED Grant!vars \/ Grant!Move(inst[p], "pending", "closed")
    BY <1>7, <2>1, WriteMoves, Phases DEF Expire
  <2>3. QED
    BY <2>1, <2>2 DEF Grant!Next, Grant!Expire
<1>8. ASSUME NEW p \in Procs, NEW o \in Outcome, Claim(p, o)
      PROVE Grant!Next \/ UNCHANGED Grant!vars
  <2>1. /\ inst[p] \in Ids /\ ckpt[inst[p]].status = Suspended
        /\ Marked(p, "IN_PROGRESS") \in Checkpoint /\ Marked(p, "IN_PROGRESS").status = "IN_PROGRESS"
    BY <1>8, MarkType, StatusTypes DEF Claim, Acceptable, TypeOK, ResumeInv, LoadedCurrent
  <2>2. UNCHANGED Grant!vars \/ Grant!Move(inst[p], "pending", "accepted")
    BY <1>8, <2>1, WriteMoves, Phases DEF Claim
  <2>3. QED
    BY <2>1, <2>2 DEF Grant!Next, Grant!Accept
<1>9. ASSUME NEW p \in Procs, NEW o \in Outcome, Settle(p, o)
      PROVE Grant!Next \/ UNCHANGED Grant!vars
  <2>1. /\ inst[p] \in Ids /\ ckpt[inst[p]].status = "IN_PROGRESS"
        /\ mem[p] \in Checkpoint /\ mem[p].status \in {"CONSUMED", "FAILED"}
    BY <1>9 DEF Settle, TypeOK, ResumeInv, SettlesFinally, OwnersUnique, Owns
  <2>2. UNCHANGED Grant!vars \/ Grant!Move(inst[p], "accepted", "closed")
    BY <1>9, <2>1, WriteMoves, Phases DEF Settle
  <2>3. QED
    BY <2>1, <2>2 DEF Grant!Next, Grant!Close
<1>10. ASSUME NEW p \in Procs, NEW o \in Outcome, NEW j \in Ids, Gate(p, j, o)
       PROVE Grant!Next \/ UNCHANGED Grant!vars
  <2>1. UNCHANGED Grant!vars \/ Grant!Move(j, "unissued", "pending")
    BY <1>10, RecordTypes, WriteMoves, Phases DEF Gate, Fresh
  <2>2. QED
    BY <2>1 DEF Grant!Next, Grant!Issue
<1>11. CASE UNCHANGED vars
  BY <1>2, <1>11 DEF vars
<1>12. QED
  BY <1>1, <1>3, <1>4, <1>5, <1>6, <1>7, <1>8, <1>9, <1>10, <1>11 DEF Next, Step

(* The protocol of locks and files implements the approval gate, until the *)
(* lock of a live holder is taken for stale: every step is a step of the   *)
(* gate or leaves it alone.                                                *)
THEOREM GrantImplemented == Spec => ImplementsGrant
<1>1. Init => Grant!Init
  BY Phases DEF Init, Grant!Init, Absent
<1>2. QED
  BY <1>1, StepGrant, TypeCorrect, InductiveInvariant, PTL DEF Spec, ImplementsGrant
====
