----------------------------- MODULE UpdateClaim -----------------------------
(* The update cache of the diagram skill (.agents/skills/archify/scripts/       *)
(* check-update.mjs): processes that check for a release or acknowledge one     *)
(* share a directory and no lock. Every change is an operation with a           *)
(* generation; its directory is renamed from pending to committed, fenced or    *)
(* cancelled, and the newest committed one is the state.                        *)
EXTENDS Naturals, FiniteSets
CONSTANTS Procs, Digests, NoCand,
          MaxGen,    \* generations there are (10^20 - 1 in the code)
          MaxTries,  \* attempts to promote a claim (8 in the code)
          Cap        \* digests a state file has room for (64 KiB in the code)

ASSUME UpdateAssumption ==
  /\ MaxGen \in Nat \ {0} /\ MaxTries \in Nat \ {0} /\ Cap \in Nat
  /\ NoCand \notin Digests

Gens == 1..MaxGen
Settled == {"committed", "fenced", "cancelled"}
\* A job is a check, or the acknowledgement of one digest.
Jobs == {[kind |-> "check", digest |-> NoCand]}
          \cup [kind : {"ack"}, digest : Digests]
CacheState == [cand : Digests \cup {NoCand}, offered : SUBSET Digests,
               acked : SUBSET Digests, fresh : BOOLEAN]
emptyState == [cand |-> NoCand, offered |-> {}, acked |-> {}, fresh |-> FALSE]
NoJob == [kind |-> "check", digest |-> NoCand]

VARIABLES
  op,         \* generation -> the kind of its operation directory; a pending one
              \* is stale once its owner file is 30 s old
  saved,      \* generation -> the state file in its directory
  active,     \* generation named by active-claim, 0 when there is none
  retired,    \* generations with a retired-claim directory in use
  pc, job, gen,
  tries,      \* attempts left in promoteOperationClaim
  key,        \* the claim a process decided to retire
  fence,      \* lower operations still to be fenced
  base,       \* the state a commit starts from
  missed,     \* processes whose base is not the newest state: its file could not be read
  found,      \* what the check downloaded
  told, notified,   \* the answers given (history)
  lapsed      \* something was committed on a base that was not the newest (history)

dirs == <<op, saved, active, retired>>
local == <<job, gen, tries, key, fence, base, missed, found>>
answers == <<told, notified, lapsed>>
vars == <<dirs, pc, local, answers>>

Failed == "failed"      \* the download failed

\* The state: that of the newest committed generation, or the empty one.
Committed == {g \in Gens : op[g] = "committed"}
Newest(S) == CHOOSE g \in S : \A h \in S : h <= g
Current == IF Committed = {} THEN emptyState ELSE saved[Newest(Committed)]
\* readState: a generation whose file cannot be read is passed over for the one before,
\* and past the first there is the empty state.
Readings == {emptyState} \cup {saved[g] : g \in Committed}

\* operationIsActive and inspectActiveClaim.
Live(g) == op[g] = "pending"
Pending(g) == op[g] \in {"pending", "stale"}
Busy == active # 0 /\ Live(active)
Owns(p) == active = gen[p] /\ Live(gen[p])
\* operationIsSuperseded: any operation directory of a higher generation.
Superseded(g) == \E h \in Gens : h > g /\ op[h] # "free"

At(p, l) == pc[p] = l
Goto(p, l) == pc' = [pc EXCEPT ![p] = l]
\* cancelOperation: nothing happens when a higher generation fenced it first.
Cancelled(g) == IF g # 0 /\ Pending(g)
                THEN [op EXCEPT ![g] = "cancelled"] ELSE op

\* The end of a call: its local variables are gone.
Forget(p) ==
  /\ job' = [job EXCEPT ![p] = NoJob]
  /\ gen' = [gen EXCEPT ![p] = 0]
  /\ tries' = [tries EXCEPT ![p] = MaxTries]
  /\ key' = [key EXCEPT ![p] = 0]
  /\ fence' = [fence EXCEPT ![p] = {}]
  /\ base' = [base EXCEPT ![p] = emptyState]
  /\ missed' = missed \ {p}
  /\ found' = [found EXCEPT ![p] = NoCand]

\* resultForCandidate: a candidate is news until it is acknowledged.
News(s) == IF s.cand = NoCand THEN {} ELSE {s.cand} \ s.acked

TypeOK ==
  /\ op \in [Gens -> {"free", "reserved", "pending", "stale"} \cup Settled]
  /\ saved \in [Gens -> CacheState]
  /\ active \in 0..MaxGen /\ retired \subseteq Gens
  /\ pc \in [Procs -> {"idle", "acquiring", "reserving", "opening",
                       "contending", "inspecting", "retiring", "promoting",
                       "confirming", "holding", "fetching", "owned", "fencing",
                       "reading", "storing"}]
  /\ job \in [Procs -> Jobs] /\ gen \in [Procs -> 0..MaxGen]
  /\ tries \in [Procs -> 0..MaxTries] /\ key \in [Procs -> 0..MaxGen]
  /\ fence \in [Procs -> SUBSET Gens] /\ base \in [Procs -> CacheState]
  /\ missed \subseteq Procs /\ lapsed \in BOOLEAN
  /\ found \in [Procs -> Digests \cup {NoCand, Failed}]
  /\ told \subseteq Digests /\ notified \subseteq Digests

Init ==
  /\ op = [g \in Gens |-> "free"]
  /\ saved = [g \in Gens |-> emptyState]
  /\ active = 0 /\ retired = {}
  /\ pc = [p \in Procs |-> "idle"] /\ job = [p \in Procs |-> NoJob]
  /\ gen = [p \in Procs |-> 0] /\ tries = [p \in Procs |-> MaxTries]
  /\ key = [p \in Procs |-> 0] /\ fence = [p \in Procs |-> {}]
  /\ base = [p \in Procs |-> emptyState] /\ found = [p \in Procs |-> NoCand]
  /\ missed = {} /\ told = {} /\ notified = {} /\ lapsed = FALSE

-----------------------------------------------------------------------------
(* Acquiring an operation.                                                     *)

\* checkForUpdate and acknowledgeUpdate: a check inside the validity of an earlier
\* one only answers from the cache.
Start(p) ==
  /\ At(p, "idle")
  /\ \E j \in Jobs, s \in Readings :
       \/ /\ j.kind = "check" /\ s.fresh
          /\ notified' = notified \cup News(s)
          /\ UNCHANGED <<pc, job>>
       \/ /\ j.kind = "ack" \/ ~s.fresh
          /\ job' = [job EXCEPT ![p] = j] /\ Goto(p, "acquiring")
          /\ UNCHANGED notified
  /\ UNCHANGED <<dirs, gen, tries, key, fence, base, missed, found, told, lapsed>>

\* The operation is lost and cancelled: a check answers from the cache, or with
\* nothing when it was fenced in its commit; an acknowledgement starts again or,
\* past its deadline, answers with nothing.
Lose(p, quiet) ==
  /\ op' = Cancelled(gen[p])
  /\ \E s \in Readings :
       notified' = IF job[p].kind = "check" /\ ~quiet THEN notified \cup News(s)
                                                      ELSE notified
  /\ Goto(p, "idle") /\ Forget(p)
  /\ UNCHANGED <<saved, active, retired, told, lapsed>>

\* acquireOperation's first look: somebody is at work.
Acquire(p) ==
  /\ At(p, "acquiring")
  /\ \/ /\ ~Busy /\ ~\E g \in Gens : Live(g)
        /\ Goto(p, "reserving") /\ UNCHANGED <<dirs, local, answers>>
     \/ /\ Busy \/ \E g \in Gens : Live(g)
        /\ Lose(p, FALSE)

\* reserveOperation: the reserved directory takes the lowest free generation.
Reserve(p) ==
  /\ At(p, "reserving")
  /\ \E g \in Gens :
       /\ op[g] = "free" /\ \A h \in Gens : h < g => op[h] # "free"
       /\ op' = [op EXCEPT ![g] = "reserved"]
       /\ gen' = [gen EXCEPT ![p] = g]
  /\ Goto(p, "opening")
  /\ UNCHANGED <<saved, active, retired, job, tries, key, fence, base, missed, found, answers>>

\* operation generation space exhausted: the call answers cache-unavailable.
Exhausted(p) ==
  /\ At(p, "reserving") /\ \A g \in Gens : op[g] # "free"
  /\ Goto(p, "idle") /\ Forget(p) /\ UNCHANGED <<dirs, answers>>

\* The pending directory and its owner file; the lease starts.
Open(p) ==
  /\ At(p, "opening")
  /\ op' = [op EXCEPT ![gen[p]] = "pending"]
  /\ Goto(p, "contending")
  /\ UNCHANGED <<saved, active, retired, local, answers>>

-----------------------------------------------------------------------------
(* promoteOperationClaim.                                                      *)

Contend(p) ==
  /\ At(p, "contending")
  /\ \/ /\ ~Superseded(gen[p]) /\ tries[p] > 0
        /\ Goto(p, "inspecting") /\ tries' = [tries EXCEPT ![p] = @ - 1]
        /\ UNCHANGED <<dirs, job, gen, key, fence, base, missed, found, answers>>
     \/ /\ Superseded(gen[p]) \/ tries[p] = 0
        /\ Lose(p, FALSE)

Inspect(p) ==
  /\ At(p, "inspecting")
  /\ \/ /\ active = 0
        /\ Goto(p, "promoting") /\ UNCHANGED <<dirs, local, answers>>
     \/ /\ active # 0 /\ ~Busy /\ active <= gen[p]
        /\ key' = [key EXCEPT ![p] = active]
        /\ Goto(p, "retiring")
        /\ UNCHANGED <<dirs, job, gen, tries, fence, base, missed, found, answers>>
     \/ /\ Busy \/ active > gen[p]
        /\ Lose(p, FALSE)

\* The claim a retirement moves away: the one inspected, and no other, because its
\* key names the place it goes to.
Retirable(p) == active = key[p] /\ key[p] \notin retired

\* retireActiveClaim: too late a retirement changes nothing; when it is caught by
\* the identity check, the call ends and its operation stays pending.
Retire(p) ==
  /\ At(p, "retiring")
  /\ \/ /\ Retirable(p)
        /\ active' = 0 /\ retired' = retired \cup {key[p]}
        /\ Goto(p, "contending") /\ key' = [key EXCEPT ![p] = 0]
        /\ UNCHANGED <<job, gen, tries, fence, base, missed, found>>
     \/ /\ ~Retirable(p)
        /\ UNCHANGED <<active, retired>>
        /\ \/ /\ Goto(p, "contending") /\ key' = [key EXCEPT ![p] = 0]
              /\ UNCHANGED <<job, gen, tries, fence, base, missed, found>>
           \/ Goto(p, "idle") /\ Forget(p)
  /\ UNCHANGED <<op, saved, answers>>

\* Mutant: the rename replaces whatever is there.
Replaced == TRUE
\* The rename of a prepared claim fails when another claim took the place.
Vacant == active = 0
Promote(p) ==
  /\ At(p, "promoting")
  /\ \/ Vacant /\ active' = gen[p] /\ Goto(p, "confirming")
     \/ ~Vacant /\ UNCHANGED active /\ Goto(p, "contending")
  /\ UNCHANGED <<op, saved, retired, local, answers>>

\* A process that slept through its lease does not use its claim. What it counted on
\* the way to it is forgotten.
Confirm(p) ==
  /\ At(p, "confirming")
  /\ \/ /\ Live(gen[p])
        /\ Goto(p, IF job[p].kind = "check" THEN "holding" ELSE "owned")
        /\ tries' = [tries EXCEPT ![p] = MaxTries]
        /\ UNCHANGED <<dirs, job, gen, key, fence, base, missed, found, answers>>
     \/ ~Live(gen[p]) /\ Lose(p, FALSE)

-----------------------------------------------------------------------------
(* The check and the commit.                                                   *)

\* checkForUpdate reads the state again under its claim: another check may have
\* finished meanwhile.
Recheck(p) ==
  /\ At(p, "holding")
  /\ \E s \in Readings :
       \/ /\ ~s.fresh /\ Owns(p)
          /\ Goto(p, "fetching") /\ UNCHANGED <<dirs, local, answers>>
       \/ /\ s.fresh \/ ~Owns(p)
          /\ Lose(p, FALSE)

\* fetchCandidate: a newer release, none, or no valid answer in time.
Fetch(p) ==
  /\ At(p, "fetching")
  /\ \E d \in Digests \cup {NoCand, Failed} : found' = [found EXCEPT ![p] = d]
  /\ Goto(p, "owned")
  /\ UNCHANGED <<dirs, job, gen, tries, key, fence, base, missed, answers>>

\* Mutant: only the operations whose lease still runs.
LowerLive(g) == {h \in Gens : h < g /\ Live(h)}
\* fenceLowerOperations lists the pending operations below its own.
Lower(g) == {h \in Gens : h < g /\ Pending(h)}

\* commitOperation: the claim must still be the process's own, before the lower
\* operations are fenced and again after.
Verify(p) ==
  /\ At(p, "owned")
  /\ \/ /\ Owns(p)
        /\ fence' = [fence EXCEPT ![p] = Lower(gen[p])]
        /\ Goto(p, "fencing")
        /\ UNCHANGED <<dirs, job, gen, tries, key, base, missed, found, answers>>
     \/ ~Owns(p) /\ Lose(p, TRUE)

\* One rename; an operation that settled meanwhile is left alone.
Fence(p) ==
  /\ At(p, "fencing") /\ fence[p] # {}
  /\ \E h \in fence[p] :
       /\ \A g \in fence[p] : h <= g
       /\ op' = IF Pending(h) THEN [op EXCEPT ![h] = "fenced"] ELSE op
       /\ fence' = [fence EXCEPT ![p] = @ \ {h}]
  /\ UNCHANGED <<saved, active, retired, pc, job, gen, tries, key, base, missed, found, answers>>

VerifyAgain(p) ==
  /\ At(p, "fencing") /\ fence[p] = {}
  /\ \/ Owns(p) /\ Goto(p, "reading") /\ UNCHANGED <<dirs, local, answers>>
     \/ ~Owns(p) /\ Lose(p, TRUE)

\* The state a commit starts from; acknowledging what it does not offer ends here.
Read(p) ==
  /\ At(p, "reading")
  /\ \E s \in Readings :
       \/ /\ job[p].kind = "check" \/ job[p].digest \in s.offered \cup s.acked
          /\ base' = [base EXCEPT ![p] = s]
          /\ missed' = IF s = Current THEN missed ELSE missed \cup {p}
          /\ Goto(p, "storing")
          /\ UNCHANGED <<dirs, job, gen, tries, key, fence, found, answers>>
       \/ /\ job[p].kind = "ack" /\ job[p].digest \notin s.offered \cup s.acked
          /\ Lose(p, TRUE)

\* stateAfterAcknowledgement.
Acknowledged(s, d) == [s EXCEPT !.offered = @ \ {d}, !.acked = @ \cup {d}]
\* encodeRecoverableState: there is room for it, acknowledged or not.
Fits(s) == Cardinality(s.offered \cup s.acked) <= Cap
\* stateAfterFailedCheck: nothing but the time of the next check changes.
AfterFailure(s) == [s EXCEPT !.fresh = TRUE]
\* Mutant: a candidate there is no room to record as offered is announced anyway.
AfterCheckUnrecorded(s, d) ==
  LET next == [s EXCEPT !.cand = d, !.fresh = TRUE, !.offered = @ \cup ({d} \ (s.acked \cup {NoCand}))]
  IN  IF Fits(next) THEN next ELSE [next EXCEPT !.offered = s.offered]
\* The state after a check that found d: what it announces is first recorded as
\* offered, and when there is no room for that, the candidate is withdrawn.
AfterCheck(s, d) ==
  LET next == [s EXCEPT !.cand = d, !.fresh = TRUE, !.offered = @ \cup ({d} \ (s.acked \cup {NoCand}))]
  IN  IF Fits(next) THEN next ELSE [AfterFailure(s) EXCEPT !.cand = NoCand]
Mutated(p) ==
  CASE job[p].kind = "ack" -> Acknowledged(base[p], job[p].digest)
    [] job[p].kind = "check" /\ found[p] = Failed -> AfterFailure(base[p])
    [] OTHER -> AfterCheck(base[p], found[p])

\* The rename of pending to committed: it fails when a higher generation fenced the
\* operation first, and then nothing is answered.
Store(p) ==
  /\ At(p, "storing")
  /\ \/ /\ Pending(gen[p])
        /\ op' = [op EXCEPT ![gen[p]] = "committed"]
        /\ saved' = [saved EXCEPT ![gen[p]] = Mutated(p)]
        /\ told' = IF job[p].kind = "ack" THEN told \cup {job[p].digest} ELSE told
        /\ notified' = IF job[p].kind = "check" /\ found[p] # Failed
                       THEN notified \cup News(Mutated(p)) ELSE notified
        /\ lapsed' = (lapsed \/ p \in missed)
     \/ /\ ~Pending(gen[p])
        /\ UNCHANGED <<op, saved, answers>>
  /\ Goto(p, "idle") /\ Forget(p)
  /\ UNCHANGED <<active, retired>>

-----------------------------------------------------------------------------
(* Time and failures.                                                          *)

\* 30 s pass since the owner file of g was written.
Expire(g) ==
  /\ Live(g)
  /\ op' = [op EXCEPT ![g] = "stale"]
  /\ UNCHANGED <<saved, active, retired, pc, local, answers>>

\* The nextCheckAt of a state passes.
Elapse ==
  /\ \E g \in Committed :
       saved[g].fresh /\ saved' = [saved EXCEPT ![g].fresh = FALSE]
  /\ UNCHANGED <<op, active, retired, pc, local, answers>>

\* The process dies, or a file-system error ends the call: its operation stays as
\* it is, or the handler of the call cancels it.
Crash(p) ==
  /\ ~At(p, "idle")
  /\ Goto(p, "idle") /\ Forget(p) /\ UNCHANGED <<dirs, answers>>
GiveUp(p) ==
  /\ pc[p] \in {"holding", "fetching", "owned", "fencing", "reading", "storing"}
  /\ op' = Cancelled(gen[p])
  /\ Goto(p, "idle") /\ Forget(p)
  /\ UNCHANGED <<saved, active, retired, answers>>

Next ==
  \/ \E p \in Procs :
       \/ Start(p) \/ Acquire(p) \/ Reserve(p) \/ Exhausted(p) \/ Open(p)
       \/ Contend(p) \/ Inspect(p) \/ Retire(p) \/ Promote(p) \/ Confirm(p)
       \/ Recheck(p) \/ Fetch(p) \/ Verify(p) \/ Fence(p) \/ VerifyAgain(p)
       \/ Read(p) \/ Store(p) \/ Crash(p) \/ GiveUp(p)
  \/ \E g \in Gens : Expire(g)
  \/ Elapse

Spec == Init /\ [][Next]_vars

-----------------------------------------------------------------------------
(* Properties.                                                                 *)

\* An acknowledgement reported as done is in the newest state: no operation that was
\* overtaken commits over it or beside it.
AcknowledgedForGood == told \subseteq Current.acked

\* Whatever digest a user was shown can be acknowledged with its event key.
NotifiedCanBeAcknowledged == notified \subseteq Current.offered \cup Current.acked

\* What a user was told stays true, of an acknowledgement and of a release on offer,
\* whatever processes overtake each other and die, and whatever reads fail on the way
\* to an answer. What ends it is one thing: a commit on an older state, because the
\* newest could not be read at that moment.
AnswersKept == ~lapsed => AcknowledgedForGood /\ NotifiedCanBeAcknowledged

\* While its lease runs, a process that got past promotion is the only one there is.
OneHolder ==
  \A p, q \in Procs :
    /\ {pc[p], pc[q]} \subseteq {"holding", "fetching", "owned", "fencing", "reading", "storing"}
    /\ Live(gen[p]) /\ Live(gen[q])
    => p = q

\* The directory of operations behaves like one register, changed atomically, from its
\* latest value or, past a failing read, knowingly from one it had before.
Content(s) == [cand |-> s.cand, offered |-> s.offered, acked |-> s.acked]
Register == INSTANCE UpdateRegister WITH
  cand <- Current.cand, offered <- Current.offered, acked <- Current.acked,
  held <- {Content(s) : s \in Readings}
ImplementsRegister == Register!RSpec
=============================================================================
