--------------------------- MODULE TenantMigration ---------------------------
(***************************************************************************)
(* scripts/lib/tenant_partition_migration.mjs: invocations of apply and    *)
(* rollback (with --execute) for one manifest and one journal.  A resource *)
(* is a legacy partition of the state or the workspace root.  Each is      *)
(* copied to a backup and renamed to its destination, in the manifest's    *)
(* order, and renamed back, in the opposite order, by a rollback.  An      *)
(* invocation may fail at any file operation, or die between two, and      *)
(* invocations may overlap.                                                *)
(*                                                                         *)
(* Both roots' lock files are one lock: they are taken in a fixed order,   *)
(* so the first decides.  The journal is its status; its list of           *)
(* operations and the dry runs, inventory and plan decide nothing here.    *)
(* DSH is stopped meanwhile, as the guide demands: partitions move, but    *)
(* their contents do not change.                                           *)
(***************************************************************************)
EXTENDS Naturals, FiniteSetsExt

CONSTANTS Procs, NoProc, Dead,  \* invocations; no one; one that has gone
          N,                    \* number of resources in the manifest
          MaxFaults,            \* bound on failing file operations
          MaxCrashes            \* bound on dying invocations

ASSUME MigrationAssumption ==
  /\ NoProc \notin Procs /\ Dead \notin Procs /\ NoProc # Dead
  /\ N \in Nat \ {0} /\ MaxFaults \in Nat /\ MaxCrashes \in Nat

Resources == 1..N

VARIABLES
  source, destination,  \* resources that exist under the old and new name
  backup,               \* each resource's copy
  journal,              \* the journal's status
  lock,                 \* who has created the lock files
  pc,                   \* where each invocation is
  todo, moved,          \* resources it has yet to move, and has moved
  faults, crashes,
  (* history *)
  fresh,                \* whether nobody had the lock at p's checks or since
  stale                 \* whether an apply has run on outdated checks

vars == <<source, destination, backup, journal, lock, pc, todo, moved, faults,
          crashes, fresh, stale>>
partitions == <<source, destination, backup>>
checks == <<fresh, stale>>

Applying == {"opening", "copying", "renaming", "noting", "completing", "verifying",
             "undoing", "failing"}
RollingBack == {"reopening", "restoring", "renoting", "ending", "reverifying",
                "refailing"}
Place == {"idle", "checked", "read", "planned", "releasing"} \cup Applying \cup RollingBack
Status == {"none", "applying", "applied", "failed", "rolling_back", "rolled_back",
           "rollback_failed"}

TypeOK ==
  /\ source \in SUBSET Resources /\ destination \in SUBSET Resources
  /\ backup \in [Resources -> {"none", "partial", "whole"}]
  /\ journal \in Status
  /\ lock \in Procs \cup {NoProc, Dead}
  /\ pc \in [Procs -> Place]
  /\ todo \in [Procs -> SUBSET Resources] /\ moved \in [Procs -> SUBSET Resources]
  /\ faults \in 0..MaxFaults /\ crashes \in 0..MaxCrashes
  /\ fresh \in [Procs -> BOOLEAN] /\ stale \in BOOLEAN
  /\ \A p \in Procs : lock = p <=> pc[p] \in {"releasing"} \cup Applying \cup RollingBack
  /\ \A p \in Procs : pc[p] \in {"copying", "renaming", "restoring"} => todo[p] # {}

Init ==
  /\ source = Resources /\ destination = {}
  /\ backup = [r \in Resources |-> "none"]
  /\ journal = "none" /\ lock = NoProc
  /\ pc = [p \in Procs |-> "idle"]
  /\ todo = [p \in Procs |-> {}] /\ moved = [p \in Procs |-> {}]
  /\ faults = 0 /\ crashes = 0
  /\ fresh = [p \in Procs |-> FALSE] /\ stale = FALSE

-----------------------------------------------------------------------------
(* Building blocks                                                         *)

Goto(p, place) == pc' = [pc EXCEPT ![p] = place]
Fault == faults < MaxFaults /\ faults' = faults + 1

(* The invocation ends: its memory is gone.                                *)
Leave(p) == /\ Goto(p, "idle")
            /\ todo' = [todo EXCEPT ![p] = {}]
            /\ moved' = [moved EXCEPT ![p] = {}]
            /\ fresh' = [fresh EXCEPT ![p] = FALSE]

(* atomicWriteJson: the journal is replaced, or it throws and is not.      *)
atomicWriteJson(p, status, next, handler) ==
  \/ journal' = status /\ Goto(p, next) /\ UNCHANGED faults
  \/ Fault /\ Goto(p, handler) /\ UNCHANGED journal

(* The first write of the journal: outside the try block, so that the lock *)
(* files stay behind if it throws.                                         *)
FirstWrite(p, status, next) ==
  \/ /\ journal' = status /\ Goto(p, next)
     /\ UNCHANGED <<lock, todo, moved, faults, checks>>
  \/ /\ Fault /\ lock' = Dead /\ Leave(p)
     /\ UNCHANGED <<journal, stale>>

(* acquireLocks: refused if the files exist, whoever made them; one that   *)
(* was created but could not be written stays behind.                      *)
acquireLocks(p, next) ==
  \/ /\ lock = NoProc
     /\ lock' = p /\ Goto(p, next)
     /\ fresh' = [q \in Procs |-> q = p /\ fresh[p]]
     /\ UNCHANGED <<todo, moved, faults>>
  \/ lock # NoProc /\ Leave(p) /\ UNCHANGED <<lock, faults>>
  \/ lock = NoProc /\ Fault /\ lock' = Dead /\ Leave(p)

-----------------------------------------------------------------------------
(* applyTenantPartitionMigration                                           *)

(* No journal yet, every source as inventoried, no destination, no backup. *)
(* With a journal, apply verifies or throws and changes nothing.           *)
CheckApply(p) ==
  /\ pc[p] = "idle"
  /\ journal = "none"
  /\ source = Resources /\ destination = {}
  /\ \A r \in Resources : backup[r] = "none"
  /\ Goto(p, "checked")
  /\ todo' = [todo EXCEPT ![p] = Resources]
  /\ fresh' = [fresh EXCEPT ![p] = (lock = NoProc)]
  /\ UNCHANGED <<partitions, journal, lock, moved, faults, crashes, stale>>

LockApply(p) ==
  /\ pc[p] = "checked"
  /\ acquireLocks(p, "opening")
  /\ stale' = (stale \/ (lock' = p /\ ~fresh[p]))
  /\ UNCHANGED <<partitions, journal, crashes>>

OpenJournal(p) ==
  /\ pc[p] = "opening"
  /\ FirstWrite(p, "applying", "copying")
  /\ UNCHANGED <<partitions, crashes>>

CopyUnverified(p) ==                    \* mutant: the backup is not inspected
  LET r == Min(todo[p]) IN
  /\ pc[p] = "copying"
  /\ \/ /\ r \in source /\ backup[r] = "none"
        /\ backup' = [backup EXCEPT ![r] = "whole"]
        /\ Goto(p, "renaming") /\ UNCHANGED faults
     \/ /\ Fault /\ backup[r] = "none"
        /\ backup' = [backup EXCEPT ![r] = "partial"]
        /\ Goto(p, "renaming")
  /\ UNCHANGED <<source, destination, journal, lock, todo, moved, crashes, checks>>

(* Copy the source, compare the copy's fingerprint and the source's with   *)
(* the manifest's.  A failure may leave any part of the copy.              *)
Copy(p) ==
  LET r == Min(todo[p]) IN
  /\ pc[p] = "copying"
  /\ \/ /\ r \in source /\ backup[r] = "none"
        /\ backup' = [backup EXCEPT ![r] = "whole"]
        /\ Goto(p, "renaming") /\ UNCHANGED faults
     \/ /\ r \notin source \/ backup[r] # "none"
        /\ Goto(p, "undoing") /\ UNCHANGED <<backup, faults>>
     \/ /\ r \in source /\ backup[r] = "none"
        /\ Fault
        /\ \E b \in {"none", "partial", "whole"} : backup' = [backup EXCEPT ![r] = b]
        /\ Goto(p, "undoing")
  /\ UNCHANGED <<source, destination, journal, lock, todo, moved, crashes, checks>>

Rename(p) ==
  LET r == Min(todo[p]) IN
  /\ pc[p] = "renaming"
  /\ \/ /\ source' = source \ {r} /\ destination' = destination \cup {r}
        /\ moved' = [moved EXCEPT ![p] = @ \cup {r}]
        /\ todo' = [todo EXCEPT ![p] = @ \ {r}]
        /\ Goto(p, "noting") /\ UNCHANGED faults
     \/ /\ Fault /\ Goto(p, "undoing")
        /\ UNCHANGED <<source, destination, moved, todo>>
  /\ UNCHANGED <<backup, journal, lock, crashes, checks>>

NoteEndless(p) ==                       \* mutant: goes on behind the last one
  /\ pc[p] = "noting"
  /\ atomicWriteJson(p, "applying", "copying", "undoing")
  /\ UNCHANGED <<partitions, lock, todo, moved, crashes, checks>>

Note(p) ==
  /\ pc[p] = "noting"
  /\ atomicWriteJson(p, "applying", IF todo[p] = {} THEN "completing" ELSE "copying",
                     "undoing")
  /\ UNCHANGED <<partitions, lock, todo, moved, crashes, checks>>

Complete(p) ==
  /\ pc[p] = "completing"
  /\ atomicWriteJson(p, "applied", "verifying", "undoing")
  /\ UNCHANGED <<partitions, lock, todo, moved, crashes, checks>>

(* verifyTenantPartitionMigration, still inside the try block.             *)
Verify(p) ==
  /\ pc[p] = "verifying"
  /\ \/ /\ destination = Resources /\ source = {}
        /\ Goto(p, "releasing") /\ UNCHANGED faults
     \/ Fault /\ Goto(p, "undoing")
  /\ UNCHANGED <<partitions, journal, lock, todo, moved, crashes, checks>>

UndoNothing(p) ==                       \* mutant: only the journal is written
  /\ pc[p] = "undoing"
  /\ Goto(p, "failing")
  /\ UNCHANGED <<partitions, journal, lock, todo, moved, faults, crashes, checks>>

(* catch: rename what this invocation has moved back, last first; errors   *)
(* are swallowed.                                                          *)
Undo(p) ==
  /\ pc[p] = "undoing"
  /\ IF moved[p] = {}
     THEN Goto(p, "failing") /\ UNCHANGED <<source, destination, moved, faults>>
     ELSE LET r == Max(moved[p]) IN
          /\ moved' = [moved EXCEPT ![p] = @ \ {r}]
          /\ \/ /\ source' = source \cup {r} /\ destination' = destination \ {r}
                /\ UNCHANGED faults
             \/ Fault /\ UNCHANGED <<source, destination>>
          /\ UNCHANGED pc
  /\ UNCHANGED <<backup, journal, lock, todo, crashes, checks>>

Fail(p) ==
  /\ pc[p] = "failing"
  /\ atomicWriteJson(p, "failed", "releasing", "releasing")
  /\ UNCHANGED <<partitions, lock, todo, moved, crashes, checks>>

-----------------------------------------------------------------------------
(* rollbackTenantPartitionMigration                                        *)

ReadJournalStrict(p) ==                 \* mutant: interrupted ones are refused
  /\ pc[p] = "idle" /\ journal = "applied"
  /\ Goto(p, "read")
  /\ UNCHANGED <<partitions, journal, lock, todo, moved, faults, crashes, checks>>

(* The command line reads the journal.  One that is rolled_back is only    *)
(* verified; any other is refused.                                         *)
ReadJournal(p) ==
  /\ pc[p] = "idle" /\ journal \in {"applied", "rolling_back", "rollback_failed"}
  /\ Goto(p, "read")
  /\ UNCHANGED <<partitions, journal, lock, todo, moved, faults, crashes, checks>>

(* Each resource must exist under exactly one name and have its backup.    *)
CheckRollback(p) ==
  /\ pc[p] = "read"
  /\ IF \A r \in Resources : (r \in source) # (r \in destination) /\ backup[r] = "whole"
     THEN /\ todo' = [todo EXCEPT ![p] = destination]
          /\ Goto(p, "planned")
          /\ UNCHANGED <<moved, fresh>>
     ELSE Leave(p)
  /\ UNCHANGED <<partitions, journal, lock, faults, crashes, stale>>

LockRollback(p) ==
  /\ pc[p] = "planned"
  /\ acquireLocks(p, "reopening")
  /\ UNCHANGED <<partitions, journal, crashes, stale>>

Reopen(p) ==
  /\ pc[p] = "reopening"
  /\ FirstWrite(p, "rolling_back", IF todo[p] = {} THEN "ending" ELSE "restoring")
  /\ UNCHANGED <<partitions, crashes>>

(* The rename fails if another rollback has done it since the checks.      *)
Restore(p) ==
  LET r == Max(todo[p]) IN
  /\ pc[p] = "restoring"
  /\ \/ /\ r \in destination /\ r \notin source
        /\ source' = source \cup {r} /\ destination' = destination \ {r}
        /\ todo' = [todo EXCEPT ![p] = @ \ {r}]
        /\ Goto(p, "renoting") /\ UNCHANGED faults
     \/ /\ \/ r \notin destination /\ UNCHANGED faults
           \/ Fault
        /\ Goto(p, "refailing")
        /\ UNCHANGED <<source, destination, todo>>
  /\ UNCHANGED <<backup, journal, lock, moved, crashes, checks>>

NoteRestored(p) ==
  /\ pc[p] = "renoting"
  /\ atomicWriteJson(p, "rolling_back", IF todo[p] = {} THEN "ending" ELSE "restoring",
                     "refailing")
  /\ UNCHANGED <<partitions, lock, todo, moved, crashes, checks>>

End(p) ==
  /\ pc[p] = "ending"
  /\ atomicWriteJson(p, "rolled_back", "reverifying", "refailing")
  /\ UNCHANGED <<partitions, lock, todo, moved, crashes, checks>>

VerifyRestored(p) ==
  /\ pc[p] = "reverifying"
  /\ \/ /\ source = Resources /\ destination = {}
        /\ Goto(p, "releasing") /\ UNCHANGED faults
     \/ Fault /\ Goto(p, "refailing")
  /\ UNCHANGED <<partitions, journal, lock, todo, moved, crashes, checks>>

FailRollback(p) ==
  /\ pc[p] = "refailing"
  /\ atomicWriteJson(p, "rollback_failed", "releasing", "releasing")
  /\ UNCHANGED <<partitions, lock, todo, moved, crashes, checks>>

(* finally: unlink the lock files; an error is swallowed.                  *)
ReleaseLocks(p) ==
  /\ pc[p] = "releasing"
  /\ Leave(p)
  /\ \/ lock' = NoProc /\ UNCHANGED faults
     \/ lock' = Dead /\ Fault
  /\ UNCHANGED <<partitions, journal, crashes, stale>>

-----------------------------------------------------------------------------
(* The environment                                                         *)

(* An invocation dies; in the middle of a copy, a part of it remains.      *)
Crash(p) ==
  /\ pc[p] # "idle" /\ crashes < MaxCrashes
  /\ crashes' = crashes + 1
  /\ lock' = IF lock = p THEN Dead ELSE lock
  /\ \/ UNCHANGED backup
     \/ /\ pc[p] = "copying"
        /\ LET r == Min(todo[p]) IN
             /\ r \in source /\ backup[r] = "none"
             /\ backup' = [backup EXCEPT ![r] = "partial"]
  /\ Leave(p)
  /\ UNCHANGED <<source, destination, journal, faults, stale>>

(* The operator removes lock files that nobody holds; the program never    *)
(* does.                                                                   *)
ClearLocks ==
  /\ lock = Dead
  /\ lock' = NoProc
  /\ UNCHANGED <<partitions, journal, pc, todo, moved, faults, crashes, checks>>

Step(p) ==
  \/ LockApply(p) \/ OpenJournal(p) \/ Copy(p) \/ Rename(p) \/ Note(p) \/ Complete(p)
  \/ Verify(p) \/ Undo(p) \/ Fail(p)
  \/ CheckRollback(p) \/ LockRollback(p) \/ Reopen(p) \/ Restore(p) \/ NoteRestored(p)
  \/ End(p) \/ VerifyRestored(p) \/ FailRollback(p) \/ ReleaseLocks(p)

Next == \/ \E p \in Procs : CheckApply(p) \/ ReadJournal(p) \/ Step(p) \/ Crash(p)
        \/ ClearLocks

Spec == Init /\ [][Next]_vars

(* File operations return; operators repeat an interrupted rollback, as    *)
(* the guide tells them, and remove the lock files of dead invocations.    *)
FairSpec ==
  /\ Spec
  /\ \A p \in Procs : WF_vars(Step(p)) /\ SF_vars(ReadJournal(p))
  /\ WF_vars(ClearLocks)

-----------------------------------------------------------------------------
(* Properties                                                              *)

(* At every moment, whatever fails, dies or overlaps, each partition       *)
(* exists under exactly one of its names, and no migrated one is without   *)
(* its verified backup.                                                    *)
NothingLost ==
  \A r \in Resources : /\ (r \in source) # (r \in destination)
                       /\ r \in destination => backup[r] = "whole"

(* When nobody is at work, a final status tells where the partitions are:  *)
(* even after one failure or one crash, and whichever invocations overlap, *)
(* unless an apply has run on outdated checks.                             *)
JournalTruthful ==
  lock = NoProc /\ ~stale /\ faults + crashes <= 1
    => /\ journal = "applied" => destination = Resources
       /\ journal \in {"none", "failed", "rolled_back"} => source = Resources

(* An interrupted rollback, however often it fails or dies, can be         *)
(* repeated until everything is restored, once dead invocations' lock      *)
(* files are removed and as long as no apply runs on outdated checks.      *)
RollbackCompletes ==
  journal \in {"rolling_back", "rollback_failed"} ~> journal = "rolled_back" \/ stale

(* "Re-running a completed apply with the same journal is idempotent and   *)
(* performs verification only" (the same guide): no apply begins anew in a *)
(* journal that says applied.                                              *)
AppliedOnce == [][journal = "applied" => journal' # "applying"]_journal

(* A migration loses no partition, and its journal says what has become of *)
(* them.                                                                   *)
MigrationSafe == NothingLost /\ JournalTruthful

=============================================================================
