--------------------------- MODULE ExecutorService ---------------------------
(***************************************************************************)
(* The isolated executor of services/isolated-executor/server.mjs: an HTTP *)
(* service that runs one confined shell command per request, each          *)
(* authorized by a capability that may be used once.  The service is one   *)
(* Node process: an action is what one event of its loop does, up to the   *)
(* next await.  Events of different requests, of the children, of timers   *)
(* and of sockets interleave freely, and the container may restart.        *)
(*                                                                         *)
(* A capability is its nonce and its expiry; the signature, the identity   *)
(* and the workdir of a request can only refuse it.  Time is counted in    *)
(* ticks and does not run backwards.                                       *)
(***************************************************************************)
EXTENDS Naturals, FiniteSets

CONSTANTS Requests, Tokens,
          Presentations,    \* which requests may present which capabilities
          Expiry,           \* the last tick at which a capability is valid
          MaxConcurrent,    \* DSH_EXECUTOR_MAX_CONCURRENT
          Horizon,          \* bound on time
          MaxRestarts       \* bound on restarts

ASSUME ExecutorAssumption ==
  /\ IsFiniteSet(Requests)
  /\ Presentations \subseteq [Requests -> Tokens]
  /\ Expiry \in [Tokens -> Nat]
  /\ MaxConcurrent \in Nat \ {0}
  /\ Horizon \in Nat /\ MaxRestarts \in Nat

VARIABLES
  now,
  active,     \* the counter of requests being handled
  used,       \* usedNonces
  stage,      \* where each request's handler is
  child,      \* the command each request runs, with all its descendants
  sent,       \* the strongest signal the service has sent to it
  timer,      \* the time-out, and then the SIGKILL one second later
  notes,      \* timedOut, aborted and outputLimitHit, where set
  token,      \* the capability each request presents
  restarts,
  started     \* history: commands each capability started since the restart

vars == <<now, active, used, stage, child, sent, timer, notes, token, restarts, started>>
execution == <<sent, timer, notes>>

Note == {"timedOut", "aborted", "limit"}

TypeOK ==
  /\ now \in 0..Horizon /\ active \in 0..MaxConcurrent
  /\ used \in SUBSET Tokens
  /\ stage \in [Requests -> {"new", "reading", "running", "done"}]
  /\ child \in [Requests -> {"none", "alive", "dead", "failed"}]
  /\ sent \in [Requests -> {"none", "TERM", "KILL"}]
  /\ timer \in [Requests -> {"off", "timeout", "kill"}]
  /\ notes \in [Requests -> SUBSET Note]
  /\ token \in Presentations
  /\ restarts \in 0..MaxRestarts
  /\ started \in [Tokens -> Nat]

Init ==
  /\ now = 0 /\ active = 0 /\ used = {} /\ restarts = 0
  /\ token \in Presentations
  /\ stage = [r \in Requests |-> "new"]
  /\ child = [r \in Requests |-> "none"]
  /\ sent = [r \in Requests |-> "none"]
  /\ timer = [r \in Requests |-> "off"]
  /\ notes = [r \in Requests |-> {}]
  /\ started = [t \in Tokens |-> 0]

-----------------------------------------------------------------------------
(* The request handler                                                     *)

(* An answer is written and the finally block gives the slot back.  What   *)
(* the handler held is gone; the 'close' and 'error' handlers have cleared *)
(* the time-out, and a SIGKILL still due finds no process any more.        *)
Finish(r) ==
  /\ stage' = [stage EXCEPT ![r] = "done"]
  /\ sent' = [sent EXCEPT ![r] = "none"]
  /\ timer' = [timer EXCEPT ![r] = "off"]
  /\ notes' = [notes EXCEPT ![r] = {}]
  /\ active' = active - 1

ArriveOneMore(r) ==                     \* mutant: off by one
  /\ stage[r] = "new"
  /\ IF active > MaxConcurrent
     THEN /\ stage' = [stage EXCEPT ![r] = "done"]
          /\ UNCHANGED active
     ELSE /\ stage' = [stage EXCEPT ![r] = "reading"]
          /\ active' = active + 1
  /\ UNCHANGED <<now, used, child, execution, token, restarts, started>>

Arrive(r) ==
  /\ stage[r] = "new"
  /\ IF active >= MaxConcurrent
     THEN /\ stage' = [stage EXCEPT ![r] = "done"]        \* 429
          /\ UNCHANGED active
     ELSE /\ stage' = [stage EXCEPT ![r] = "reading"]
          /\ active' = active + 1
  /\ UNCHANGED <<now, used, child, execution, token, restarts, started>>

BodyFailsKeepingSlot(r) ==              \* mutant: no finally block
  /\ stage[r] = "reading"
  /\ stage' = [stage EXCEPT ![r] = "done"]
  /\ UNCHANGED <<now, active, used, child, execution, token, restarts, started>>

(* readJson rejects: too long, no JSON, the client is gone, or Node's      *)
(* requestTimeout has destroyed a connection that sent no complete body.   *)
BodyFails(r) ==
  /\ stage[r] = "reading"
  /\ Finish(r)
  /\ UNCHANGED <<now, used, child, token, restarts, started>>

Valid(t) == Expiry[t] >= now
UnexpiredPurgingEarly == {t \in used : Expiry[t] > now}        \* mutant
Unexpired == {t \in used : Valid(t)}

(* The body is complete.  authorizeExecutionRequest: an invalid capability *)
(* is refused before the expired nonces are purged, a used one after; the  *)
(* nonce is spent even if the workspace or the command is then refused.    *)
Refused(r) ==
  /\ stage[r] = "reading"
  /\ LET t == token[r] IN
       used' \in {used} \cup (IF Valid(t) THEN {Unexpired \cup {t}} ELSE {})
  /\ Finish(r)
  /\ UNCHANGED <<now, child, token, restarts, started>>

(* ... and executeConfined spawns the command, which may fail to start.    *)
Spawn(r) ==
  LET t == token[r] IN
  /\ stage[r] = "reading"
  /\ Valid(t) /\ t \notin Unexpired
  /\ used' = Unexpired \cup {t}
  /\ stage' = [stage EXCEPT ![r] = "running"]
  /\ timer' = [timer EXCEPT ![r] = "timeout"]
  /\ \E c \in {"alive", "failed"} :
       /\ child' = [child EXCEPT ![r] = c]
       /\ started' = [started EXCEPT ![t] = IF c = "alive" THEN @ + 1 ELSE @]
  /\ UNCHANGED <<now, active, sent, notes, token, restarts>>

-----------------------------------------------------------------------------
(* The command                                                             *)

(* terminateGroup: a group that is gone, or never was, is no error.        *)
Signal(r, s) == sent' = IF child[r] = "alive" THEN [sent EXCEPT ![r] = s] ELSE sent
Remark(r, n) == notes' = [notes EXCEPT ![r] = @ \cup {n}]

TimeoutReleasing(r) ==                  \* mutant: answers without waiting
  /\ stage[r] = "running" /\ timer[r] = "timeout"
  /\ Finish(r)
  /\ UNCHANGED <<now, used, child, token, restarts, started>>

TimeoutPolite(r) ==                     \* mutant: no SIGKILL follows
  /\ stage[r] = "running" /\ timer[r] = "timeout"
  /\ Remark(r, "timedOut")
  /\ Signal(r, "TERM")
  /\ timer' = [timer EXCEPT ![r] = "off"]
  /\ UNCHANGED <<now, active, used, stage, child, token, restarts, started>>

(* The time-out: SIGTERM, which the command may ignore ...                 *)
Timeout(r) ==
  /\ stage[r] = "running" /\ timer[r] = "timeout"
  /\ Remark(r, "timedOut")
  /\ IF sent[r] = "KILL" THEN UNCHANGED sent ELSE Signal(r, "TERM")
  /\ timer' = [timer EXCEPT ![r] = "kill"]
  /\ UNCHANGED <<now, active, used, stage, child, token, restarts, started>>

(* ... and SIGKILL a second later.                                         *)
KillLate(r) ==
  /\ stage[r] = "running" /\ timer[r] = "kill"
  /\ Signal(r, "KILL")
  /\ timer' = [timer EXCEPT ![r] = "off"]
  /\ UNCHANGED <<now, active, used, stage, child, notes, token, restarts, started>>

OutputLimitSilent(r) ==                 \* mutant: not noted
  /\ stage[r] = "running" /\ child[r] \in {"alive", "dead"}
  /\ Signal(r, "KILL")
  /\ UNCHANGED <<now, active, used, stage, child, timer, notes,
                 token, restarts, started>>

(* Data arrives beyond twice the output cap, the last of it perhaps after  *)
(* the command has ended.                                                  *)
OutputLimit(r) ==
  /\ stage[r] = "running" /\ child[r] \in {"alive", "dead"}
  /\ "limit" \notin notes[r]
  /\ Remark(r, "limit")
  /\ Signal(r, "KILL")
  /\ UNCHANGED <<now, active, used, stage, child, timer, token, restarts, started>>

(* The client disconnects, in so far as the service notices: the socket's  *)
(* 'end' or 'close' event calls abortExecution.                            *)
Abort(r) ==
  /\ stage[r] = "running"
  /\ "aborted" \notin notes[r]
  /\ Remark(r, "aborted")
  /\ Signal(r, "KILL")
  /\ UNCHANGED <<now, active, used, stage, child, timer, token, restarts, started>>

(* The child's 'close' event: every process of the command that held its   *)
(* pipes is gone, and the result is answered.  Or its 'error' event: it    *)
(* could not be started.                                                   *)
Close(r) ==
  /\ stage[r] = "running" /\ child[r] # "alive"
  /\ child' = [child EXCEPT ![r] = "none"]
  /\ Finish(r)
  /\ UNCHANGED <<now, used, token, restarts, started>>

-----------------------------------------------------------------------------
(* The environment                                                         *)

(* The command ends, by itself or because of a signal.                     *)
Exit(r) ==
  /\ child[r] = "alive"
  /\ child' = [child EXCEPT ![r] = "dead"]
  /\ UNCHANGED <<now, active, used, stage, sent, timer, notes,
                 token, restarts, started>>

Tick ==
  /\ now < Horizon
  /\ now' = now + 1
  /\ UNCHANGED <<active, used, stage, child, execution, token, restarts, started>>

(* The container restarts: its processes die and what the service held in  *)
(* memory is gone, used nonces included.                                   *)
Restart ==
  /\ restarts < MaxRestarts
  /\ restarts' = restarts + 1
  /\ active' = 0 /\ used' = {}
  /\ stage' = [r \in Requests |-> IF stage[r] = "new" THEN "new" ELSE "done"]
  /\ child' = [r \in Requests |-> "none"]
  /\ sent' = [r \in Requests |-> "none"]
  /\ timer' = [r \in Requests |-> "off"]
  /\ notes' = [r \in Requests |-> {}]
  /\ started' = [t \in Tokens |-> 0]
  /\ UNCHANGED <<now, token>>

Handle(r) == Arrive(r) \/ BodyFails(r) \/ Refused(r) \/ Spawn(r)
Supervise(r) == Timeout(r) \/ KillLate(r) \/ OutputLimit(r) \/ Abort(r) \/ Close(r)

Next == \/ \E r \in Requests : Handle(r) \/ Supervise(r) \/ Exit(r)
        \/ Tick \/ Restart

Spec == Init /\ [][Next]_vars

(* A request's body is read or fails (Node's requestTimeout), timers fire, *)
(* a killed command ends and events are delivered.                         *)
Fairness ==
  \A r \in Requests :
    /\ WF_vars(BodyFails(r) \/ Refused(r) \/ Spawn(r))
    /\ WF_vars(Timeout(r)) /\ WF_vars(KillLate(r))
    /\ WF_vars(sent[r] = "KILL" /\ Exit(r))
    /\ WF_vars(Close(r))

FairSpec == Spec /\ Fairness

-----------------------------------------------------------------------------
(* Properties                                                              *)

(* However requests, time-outs and disconnections interleave, no more      *)
(* commands are alive than the limit allows: a slot is given back only     *)
(* when the command and its descendants are gone (executor concurrency     *)
(* limit, createExecutorServer).                                           *)
CommandsBounded == Cardinality({r \in Requests : child[r] = "alive"}) <= MaxConcurrent

(* Between two restarts a capability starts at most one command: its nonce *)
(* is remembered for as long as the capability is valid, to the last tick. *)
SingleUse == \A t \in Tokens : started[t] <= 1

(* A result that is about to report neither a time-out nor an abort nor    *)
(* the output limit is that of a command the service has not interfered    *)
(* with (the fields of the 'close' handler's result).                      *)
CleanMeansUntouched ==
  \A r \in Requests : stage[r] = "running" /\ child[r] = "dead" /\ notes[r] = {}
                         => sent[r] = "none"

(* The counter is the number of handlers between its increment and their   *)
(* finally block, live commands have such a handler, and a capability that *)
(* has started a command is remembered or has expired: the inductive       *)
(* invariant behind the first two.                                         *)
Handled == {r \in Requests : stage[r] \in {"reading", "running"}}
SlotsCounted == active = Cardinality(Handled)
CommandsHandled == \A r \in Requests : child[r] = "alive" => stage[r] = "running"
NoncesKept == \A t \in Tokens : started[t] > 0 => t \in used \/ ~Valid(t)
ExecutorInv == SlotsCounted /\ CommandsHandled /\ NoncesKept /\ SingleUse

(* Every request that has taken a slot gives it back: a command that       *)
(* ignores SIGTERM, a client that never sends its body or never reads the  *)
(* answer do not occupy the executor for good.                             *)
SlotsReturn == \A r \in Requests : stage[r] \in {"reading", "running"} ~> stage[r] = "done"
=============================================================================
