----------------------- MODULE ExecutorService_proofs -----------------------
(***************************************************************************)
(* TLAPS proofs about ExecutorService, for any finite set of requests and  *)
(* any capabilities, limits and bounds.                                    *)
(***************************************************************************)
EXTENDS ExecutorService, FiniteSetTheorems, TLAPS

(* A request enters or leaves the handled ones, or none does.              *)
LEMMA HandledFinite == IsFiniteSet(Handled) /\ Cardinality(Handled) \in Nat
BY ExecutorAssumption, FS_Subset, FS_CardinalityType DEF Handled

LEMMA HandledGrows ==
  ASSUME NEW r \in Requests, TypeOK, stage[r] = "new",
         stage' = [stage EXCEPT ![r] = "reading"]
  PROVE  Cardinality(Handled') = Cardinality(Handled) + 1
<1>1. r \notin Handled /\ Handled' = Handled \cup {r}
  BY DEF TypeOK, Handled
<1>2. QED
  BY <1>1, HandledFinite, FS_AddElement

LEMMA HandledShrinks ==
  ASSUME NEW r \in Handled, TypeOK, stage' = [stage EXCEPT ![r] = "done"]
  PROVE  Cardinality(Handled') = Cardinality(Handled) - 1 /\ Cardinality(Handled) > 0
<1>1. Handled' = Handled \ {r}
  BY DEF TypeOK, Handled
<1>2. Cardinality(Handled') = Cardinality(Handled) - 1
  BY <1>1, HandledFinite, FS_RemoveElement
<1>3. Cardinality(Handled) # 0
  BY HandledFinite, FS_EmptySet
<1>4. QED
  BY <1>2, <1>3, HandledFinite

LEMMA HandledStays ==
  ASSUME TypeOK,
         \/ stage' = stage
         \/ \E r \in Requests : stage[r] = "reading" /\ stage' = [stage EXCEPT ![r] = "running"]
         \/ \E r \in Requests : stage[r] = "new" /\ stage' = [stage EXCEPT ![r] = "done"]
  PROVE  Handled' = Handled
BY DEF TypeOK, Handled

-----------------------------------------------------------------------------
(* The inductive invariant: the one the runs check, and that a signal, or  *)
(* a SIGKILL that is due, is on record in the notes.                       *)

NotesExplain ==
  \A r \in Requests : sent[r] # "none" \/ timer[r] = "kill" => notes[r] # {}

Inv == TypeOK /\ ExecutorInv /\ NotesExplain

LEMMA InitInv == Init => Inv
<1> SUFFICES ASSUME Init PROVE Inv
  OBVIOUS
<1>1. TypeOK
  BY ExecutorAssumption DEF Init, TypeOK, Note
<1>2. SlotsCounted
  <2>1. Handled = {}
    BY DEF Init, Handled
  <2>2. QED
    BY <2>1, FS_EmptySet DEF Init, SlotsCounted
<1>3. QED
  BY <1>1, <1>2 DEF Init, Inv, ExecutorInv, CommandsHandled, NoncesKept, SingleUse,
                    NotesExplain

(* What every path through the finally block preserves.                    *)
LEMMA FinishKeeps ==
  ASSUME Inv, NEW r \in Handled, Finish(r)
  PROVE  /\ SlotsCounted' /\ NotesExplain' /\ active' \in 0..MaxConcurrent
         /\ stage' \in [Requests -> {"new", "reading", "running", "done"}]
         /\ sent' \in [Requests -> {"none", "TERM", "KILL"}]
         /\ timer' \in [Requests -> {"off", "timeout", "kill"}]
         /\ notes' \in [Requests -> SUBSET Note]
<1>1. Cardinality(Handled') = Cardinality(Handled) - 1 /\ Cardinality(Handled) > 0
  BY HandledShrinks DEF Inv, Finish
<1>2. SlotsCounted' /\ active' \in 0..MaxConcurrent
  BY <1>1, HandledFinite, ExecutorAssumption
     DEF Inv, ExecutorInv, SlotsCounted, Finish, TypeOK
<1>3. QED
  BY <1>2 DEF Inv, Finish, TypeOK, NotesExplain, Handled

(* What a step on a running command preserves: it changes neither the      *)
(* slots nor the nonces.                                                   *)
LEMMA SlotsKept ==
  ASSUME Inv, UNCHANGED <<now, active, used, started>>, Handled' = Handled
  PROVE  SlotsCounted' /\ NoncesKept' /\ SingleUse'
BY DEF Inv, ExecutorInv, SlotsCounted, NoncesKept, SingleUse, Valid

LEMMA StepInv == ASSUME Inv, [Next]_vars PROVE Inv'
<1> USE DEF Inv, ExecutorInv, TypeOK, CommandsHandled, execution
<1>1. ASSUME NEW r \in Requests, Arrive(r) PROVE Inv'
  <2>1. CASE active >= MaxConcurrent
    <3>1. Handled' = Handled
      BY <1>1, <2>1, HandledStays DEF Arrive
    <3>2. QED
      BY <1>1, <2>1, <3>1, SlotsKept DEF Arrive, NotesExplain
  <2>2. CASE ~(active >= MaxConcurrent)
    <3>1. Cardinality(Handled') = Cardinality(Handled) + 1
      BY <1>1, <2>2, HandledGrows DEF Arrive
    <3>2. SlotsCounted' /\ active' \in 0..MaxConcurrent
      BY <1>1, <2>2, <3>1, ExecutorAssumption DEF Arrive, SlotsCounted
    <3>3. QED
      BY <1>1, <2>2, <3>2 DEF Arrive, NoncesKept, SingleUse, Valid, NotesExplain
  <2>3. QED
    BY <2>1, <2>2
<1>2. ASSUME NEW r \in Requests, BodyFails(r) PROVE Inv'
  <2>1. r \in Handled /\ NoncesKept' /\ SingleUse'
    BY <1>2 DEF BodyFails, Handled, NoncesKept, SingleUse, Valid
  <2>2. UNCHANGED <<now, used, child, token, restarts, started>> /\ Finish(r)
    BY <1>2 DEF BodyFails
  <2>3. CommandsHandled'
    BY <1>2, <2>2 DEF BodyFails, Finish
  <2>4. QED
    BY <2>1, <2>2, <2>3, FinishKeeps
<1>3. ASSUME NEW r \in Requests, Refused(r) PROVE Inv'
  <2>1. token[r] \in Tokens
    BY ExecutorAssumption
  <2>2. \/ used' = used
        \/ used' = Unexpired \cup {token[r]}
    BY <1>3 DEF Refused
  <2>3. UNCHANGED <<now, child, token, restarts, started>> /\ Finish(r) /\ r \in Handled
    BY <1>3 DEF Refused, Handled
  <2>4. used' \in SUBSET Tokens /\ NoncesKept' /\ SingleUse'
    BY <2>1, <2>2, <2>3 DEF NoncesKept, Unexpired, Valid, SingleUse
  <2>5. CommandsHandled'
    BY <1>3, <2>3 DEF Refused, Finish
  <2>6. QED
    BY <2>3, <2>4, <2>5, FinishKeeps
(* The nonce of a valid capability that is not among the unexpired ones    *)
(* has not been used since the restart.                                    *)
<1>4. ASSUME NEW r \in Requests, Spawn(r) PROVE Inv'
  <2> DEFINE t == token[r]
  <2>1. t \in Tokens /\ t \notin used /\ started[t] = 0
    <3>1. t \in Tokens /\ Valid(t) /\ t \notin Unexpired
      BY <1>4, ExecutorAssumption DEF Spawn
    <3>2. t \notin used
      BY <3>1 DEF Unexpired
    <3>3. ~(started[t] > 0) /\ started[t] \in Nat
      BY <3>1, <3>2 DEF NoncesKept
    <3>4. QED
      BY <3>1, <3>2, <3>3
  <2>2. Handled' = Handled
    BY <1>4, HandledStays DEF Spawn
  <2>3. SlotsCounted'
    BY <1>4, <2>2 DEF Spawn, SlotsCounted
  <2>4. \A u \in Tokens : started'[u] > 0 => started[u] > 0 \/ u = t
    BY <1>4, <2>1 DEF Spawn
  <2>5. NoncesKept'
    BY <1>4, <2>1, <2>4 DEF Spawn, NoncesKept, Unexpired, Valid
  <2>6. SingleUse' /\ started' \in [Tokens -> Nat]
    BY <1>4, <2>1 DEF Spawn, SingleUse
  <2>7. used' \in SUBSET Tokens
    BY <1>4, <2>1 DEF Spawn, Unexpired
  <2>8. QED
    BY <1>4, <2>3, <2>5, <2>6, <2>7 DEF Spawn, NotesExplain
<1>5. ASSUME NEW r \in Requests,
             Timeout(r) \/ KillLate(r) \/ OutputLimit(r) \/ Abort(r)
      PROVE  Inv'
  <2>1. UNCHANGED <<now, active, used, stage, child, token, restarts, started>>
    BY <1>5 DEF Timeout, KillLate, OutputLimit, Abort
  <2>2. SlotsCounted' /\ NoncesKept' /\ SingleUse'
    BY <2>1, HandledStays, SlotsKept
  <2>3. /\ sent' \in [Requests -> {"none", "TERM", "KILL"}]
        /\ timer' \in [Requests -> {"off", "timeout", "kill"}]
        /\ notes' \in [Requests -> SUBSET Note]
    BY <1>5 DEF Timeout, KillLate, OutputLimit, Abort, Signal, Remark, Note
  <2>4. \A q \in Requests : notes[q] \subseteq notes'[q]
    BY <1>5 DEF Timeout, KillLate, OutputLimit, Abort, Remark
  <2>5. ASSUME NEW q \in Requests, sent'[q] # "none" \/ timer'[q] = "kill"
        PROVE  notes'[q] # {}
    <3>1. CASE q # r
      BY <1>5, <2>4, <2>5, <3>1 DEF Timeout, KillLate, OutputLimit, Abort, Signal, NotesExplain
    <3>2. CASE q = r /\ KillLate(r)
      BY <2>4, <3>2 DEF KillLate, NotesExplain
    <3>3. CASE q = r /\ ~KillLate(r)
      <4>1. \E n \in Note : Remark(r, n)
        BY <1>5, <3>3 DEF Timeout, OutputLimit, Abort, Note
      <4>2. QED
        BY <3>3, <4>1 DEF Remark
    <3>4. QED
      BY <3>1, <3>2, <3>3
  <2>6. QED
    BY <2>1, <2>2, <2>3, <2>5 DEF NotesExplain
<1>6. ASSUME NEW r \in Requests, Close(r) PROVE Inv'
  <2>1. r \in Handled /\ NoncesKept' /\ SingleUse'
    BY <1>6 DEF Close, Handled, NoncesKept, SingleUse, Valid
  <2>2. /\ UNCHANGED <<now, used, token, restarts, started>> /\ Finish(r)
        /\ child' = [child EXCEPT ![r] = "none"]
    BY <1>6 DEF Close
  <2>3. CommandsHandled' /\ child' \in [Requests -> {"none", "alive", "dead", "failed"}]
    BY <2>2 DEF Finish
  <2>4. QED
    BY <2>1, <2>2, <2>3, FinishKeeps
<1>7. ASSUME NEW r \in Requests, Exit(r) PROVE Inv'
  <2>1. UNCHANGED <<now, active, used, stage, sent, timer, notes, token, restarts, started>>
    BY <1>7 DEF Exit
  <2>2. SlotsCounted' /\ NoncesKept' /\ SingleUse'
    BY <2>1, HandledStays, SlotsKept
  <2>3. QED
    BY <1>7, <2>1, <2>2 DEF Exit, NotesExplain
<1>8. CASE Tick
  <2>1. NoncesKept' /\ SingleUse'
    BY <1>8, ExecutorAssumption DEF Tick, NoncesKept, SingleUse, Valid
  <2>2. SlotsCounted'
    BY <1>8 DEF Tick, SlotsCounted, Handled
  <2>3. QED
    BY <1>8, <2>1, <2>2, ExecutorAssumption DEF Tick, NotesExplain
<1>9. CASE Restart
  <2>1. Handled' = {}
    BY <1>9 DEF Restart, Handled
  <2>2. SlotsCounted'
    BY <1>9, <2>1, FS_EmptySet DEF Restart, SlotsCounted
  <2>3. QED
    BY <1>9, <2>2, ExecutorAssumption
       DEF Restart, NotesExplain, NoncesKept, SingleUse, Note
<1>10. CASE UNCHANGED vars
  BY <1>10 DEF vars, SlotsCounted, Handled, NoncesKept, SingleUse, Valid, NotesExplain
<1>11. QED
  BY <1>1, <1>2, <1>3, <1>4, <1>5, <1>6, <1>7, <1>8, <1>9, <1>10
     DEF Next, Handle, Supervise

-----------------------------------------------------------------------------
(* The theorems                                                            *)

(* Types are kept; in particular the counter never leaves its range.       *)
THEOREM TypeCorrect == Spec => []TypeOK
<1>1. Inv => TypeOK
  BY DEF Inv
<1>2. QED
  BY <1>1, InitInv, StepInv, PTL DEF Spec

(* The counter counts the occupied handlers, commands have one, and used   *)
(* nonces are kept while they matter.                                      *)
THEOREM ExecutorInvariant == Spec => []ExecutorInv
<1>1. Inv => ExecutorInv
  BY DEF Inv
<1>2. QED
  BY <1>1, InitInv, StepInv, PTL DEF Spec

(* Never more live commands than MaxConcurrent: each has a handler, and    *)
(* the counter counts those.                                               *)
THEOREM CommandsAreBounded == Spec => []CommandsBounded
<1>1. Inv => CommandsBounded
  <2> SUFFICES ASSUME Inv PROVE CommandsBounded
    OBVIOUS
  <2> DEFINE Live == {r \in Requests : child[r] = "alive"}
  <2>1. Live \subseteq Handled
    BY DEF Inv, ExecutorInv, CommandsHandled, Handled
  <2>2. Cardinality(Live) \in Nat /\ Cardinality(Live) <= Cardinality(Handled)
    BY <2>1, HandledFinite, FS_Subset, FS_CardinalityType
  <2>3. Cardinality(Handled) <= MaxConcurrent
    BY ExecutorAssumption DEF Inv, ExecutorInv, SlotsCounted, TypeOK
  <2>4. QED
    BY <2>2, <2>3, HandledFinite, ExecutorAssumption DEF CommandsBounded
<1>2. QED
  BY <1>1, InitInv, StepInv, PTL DEF Spec

(* Between restarts a capability starts one command at most, whatever its  *)
(* lifetime and however often it is presented.                             *)
THEOREM CapabilityUsedOnce == Spec => []SingleUse
<1>1. ExecutorInv => SingleUse
  BY DEF ExecutorInv
<1>2. QED
  BY <1>1, ExecutorInvariant, PTL

(* A result without a note is that of an undisturbed command.              *)
THEOREM CleanResults == Spec => []CleanMeansUntouched
<1>1. Inv => CleanMeansUntouched
  BY DEF Inv, NotesExplain, CleanMeansUntouched
<1>2. QED
  BY <1>1, InitInv, StepInv, PTL DEF Spec
=============================================================================
