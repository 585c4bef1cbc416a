-------------------------- MODULE PolicyEnforcement --------------------------
(* The policy enforcement point (packages/dsh-dds-core/rbac-interceptor.js) in   *)
(* front of the tools of an agent session, and the client of the isolated       *)
(* executor (isolated-shell-executor.js). Tool calls run concurrently in one    *)
(* Node process; the audit sink and the executor are other processes. What the  *)
(* executor does with a capability is in ExecutorService: here it is a set of   *)
(* nonces that were used.                                                       *)
EXTENDS Naturals, FiniteSets
CONSTANTS Calls,
          Shells,       \* the calls of a shell tool
          NoCap,
          MaxPosts,     \* requests to the executor within one call
          MaxRestarts   \* restarts of the executor

ASSUME EnforcementAssumption ==
  Shells \subseteq Calls /\ NoCap \notin Calls /\ MaxPosts \in Nat /\ MaxRestarts \in Nat

VARIABLES
  engine,      \* the policy engine was resolved (bootstrapRbac)
  isolated,    \* DSH_EXECUTOR_MODE
  call,        \* call -> where it is in the hooks
  cap,         \* call -> the capability on exec.__dds_capability
  recorded,    \* <<call, decision>> records in the audit log
  workdir,     \* calls whose working directory was created for them, or found there
  expired,     \* capabilities past their 30 s
  aborted,     \* calls whose signal has fired
  posts,       \* call -> requests made to the executor
  nonces,      \* capabilities the executor has seen
  restarts,    \* restarts of the executor
  ran,         \* call -> commands or tools started for it (history)
  forgotten    \* call -> restarts that forgot the nonce of its live capability (history)

evars == <<engine, isolated, call, cap, recorded, workdir, expired, aborted, posts, nonces,
           restarts, ran, forgotten>>
lives == <<restarts, forgotten>>
effects == <<expired, aborted, posts, nonces, ran, lives>>

ETypeOK ==
  /\ engine \in BOOLEAN /\ isolated \in BOOLEAN
  /\ call \in [Calls -> {"new", "denied", "allowed", "sent", "running", "answered"}]
  /\ cap \in [Calls -> Calls \cup {NoCap}]
  /\ recorded \subseteq Calls \X {"GRANTED", "DENIED"}
  /\ workdir \subseteq Calls /\ expired \subseteq Calls /\ aborted \subseteq Calls
  /\ posts \in [Calls -> 0..MaxPosts] /\ nonces \subseteq Calls /\ ran \in [Calls -> Nat]
  /\ restarts \in 0..MaxRestarts /\ forgotten \in [Calls -> Nat]

EInit ==
  /\ engine \in BOOLEAN /\ isolated \in BOOLEAN
  /\ call = [c \in Calls |-> "new"] /\ cap = [c \in Calls |-> NoCap]
  /\ recorded = {} /\ workdir = {} /\ expired = {} /\ aborted = {}
  /\ posts = [c \in Calls |-> 0] /\ nonces = {} /\ ran = [c \in Calls |-> 0]
  /\ restarts = 0 /\ forgotten = [c \in Calls |-> 0]

Move(c, s) == call' = [call EXCEPT ![c] = s]

\* bootstrapRbac, from the registration or the ready event; until then a handler
\* resolves the engine itself, or finds none and refuses.
bootstrapRbac == ~engine /\ engine' = TRUE
                 /\ UNCHANGED <<isolated, call, cap, recorded, workdir, effects>>

-----------------------------------------------------------------------------
(* preExecuteWaterfall and the handler it calls: one step of the loop.         *)

\* No user, no verb for the tool, a shell without executor or escape hatch, or no
\* policy engine: refused without a record.
Refuse(c) ==
  /\ call[c] = "new" /\ Move(c, "denied")
  /\ UNCHANGED <<engine, isolated, cap, recorded, workdir, effects>>

\* Another tenant's path, or the policy says no: the record is best effort.
Deny(c) ==
  /\ call[c] = "new" /\ Move(c, "denied")
  /\ recorded' \in {recorded, recorded \cup {<<c, "DENIED">>}}
  /\ UNCHANGED <<engine, isolated, cap, workdir, effects>>

\* logGrcAuditEvent for a grant throws: the sink refused it, or has it and did not
\* say so in time.
AuditFails(c) ==
  /\ call[c] = "new" /\ engine /\ Move(c, "denied")
  /\ recorded' \in {recorded, recorded \cup {<<c, "GRANTED">>}}
  /\ UNCHANGED <<engine, isolated, cap, workdir, effects>>

\* Mutant: the grant is recorded with the best-effort call.
BestEffort(c) == recorded' \in {recorded, recorded \cup {<<c, "GRANTED">>}}
\* The grant is durable before anything is done for it.
AuditGrant(c) == recorded' = recorded \cup {<<c, "GRANTED">>}

\* The caller's directory is created, and a shell call gets its capability; without
\* a key there is none, and a later hook may still say no.
Grant(c) ==
  /\ call[c] = "new" /\ engine
  /\ AuditGrant(c)
  /\ workdir' = workdir \cup {c}
  /\ \/ /\ Move(c, "allowed")
        /\ cap' = IF isolated /\ c \in Shells THEN [cap EXCEPT ![c] = c] ELSE cap
     \/ /\ Move(c, "denied")
        /\ cap' \in {cap, [cap EXCEPT ![c] = c]} /\ (cap' # cap => isolated /\ c \in Shells)
  /\ UNCHANGED <<engine, isolated, effects>>

-----------------------------------------------------------------------------
(* The tool runs inside tools/execute.                                          *)

\* Any other tool, and a shell without isolation, starts in this process.
ExecuteHere(c) ==
  /\ call[c] = "allowed" /\ ~(isolated /\ c \in Shells)
  /\ ran' = [ran EXCEPT ![c] = @ + 1] /\ Move(c, "running")
  /\ UNCHANGED <<engine, isolated, cap, recorded, workdir, expired, aborted, posts, nonces, lives>>

\* Mutant: the capability of whichever call was granted one last is the current one.
SharedContext(c) == CHOOSE d \in Shells : cap[d] # NoCap
\* getCurrentExecutionCapability: the context is that of the call's own continuation.
Context(c) == cap[c]

\* resolve and run: the client verifies the capability and posts the command. start
\* does not look whether its signal has fired already; run does.
Post(c) ==
  /\ call[c] = "allowed" /\ isolated /\ c \in Shells /\ posts[c] < MaxPosts
  /\ Context(c) # NoCap /\ Context(c) \notin expired
  /\ posts' = [posts EXCEPT ![c] = @ + 1] /\ Move(c, "sent")
  /\ UNCHANGED <<engine, isolated, cap, recorded, workdir, expired, aborted, nonces, ran, lives>>

\* ... or the call ends: an expired capability, an aborted signal.
ClientRefuses(c) ==
  /\ call[c] = "allowed" /\ isolated /\ c \in Shells
  /\ Context(c) \in expired \cup {NoCap} \/ c \in aborted
  /\ Move(c, "answered")
  /\ UNCHANGED <<engine, isolated, cap, recorded, workdir, effects>>

\* The executor starts one command for a nonce it has not seen, and refuses others.
ExecutorAccepts(c) ==
  /\ call[c] = "sent"
  /\ Context(c) \notin nonces \cup expired
  /\ nonces' = nonces \cup {Context(c)}
  /\ ran' = [ran EXCEPT ![c] = @ + 1] /\ Move(c, "running")
  /\ UNCHANGED <<engine, isolated, cap, recorded, workdir, expired, aborted, posts, lives>>
\* ... or has no room for one, or refuses the working directory after it took the nonce.
ExecutorRefuses(c) ==
  /\ call[c] = "sent" /\ Move(c, "answered")
  /\ nonces' \in {nonces, nonces \cup ({Context(c)} \ expired)}
  /\ UNCHANGED <<engine, isolated, cap, recorded, workdir, expired, aborted, posts, ran, lives>>

\* The result arrives; or the connection breaks, before or after the command was
\* started, and the tool may try once more within its call.
Result(c) ==
  /\ call[c] = "running" /\ Move(c, "answered")
  /\ UNCHANGED <<engine, isolated, cap, recorded, workdir, effects>>
ConnectionLost(c) ==
  /\ call[c] \in {"sent", "running"} /\ isolated /\ c \in Shells
  /\ \E s \in {"allowed", "answered"} : Move(c, s) /\ (c \in aborted => s = "answered")
  /\ UNCHANGED <<engine, isolated, cap, recorded, workdir, effects>>

Abort(c) ==
  /\ c \notin aborted /\ call[c] \in {"new", "allowed", "sent", "running"}
  /\ aborted' = aborted \cup {c}
  /\ UNCHANGED <<engine, isolated, call, cap, recorded, workdir, expired, posts, nonces, ran, lives>>

\* 30 s pass; at the next request the executor drops the nonces that expired.
ExpireCapability(c) ==
  /\ cap[c] = c /\ c \notin expired /\ expired' = expired \cup {c}
  /\ nonces' \in {nonces, nonces \ {c}}
  /\ UNCHANGED <<engine, isolated, call, cap, recorded, workdir, aborted, posts, ran, lives>>

\* The executor restarts: its commands and connections are cut, and the nonces it kept in
\* memory are gone. A tool that is not aborted may try once more within its call. (A
\* restart that finds the executor without any changes nothing.)
RestartExecutor ==
  /\ \/ nonces # {}
     \/ isolated /\ \E c \in Shells : call[c] \in {"sent", "running"}
  /\ restarts < MaxRestarts /\ restarts' = restarts + 1
  /\ nonces' = {}
  /\ forgotten' = [c \in Calls |-> IF c \in nonces \ expired THEN forgotten[c] + 1 ELSE forgotten[c]]
  /\ LET cut == {c \in Shells : isolated /\ call[c] \in {"sent", "running"}}
     IN  \E again \in SUBSET (cut \ aborted) :
           call' = [c \in Calls |-> IF c \in again THEN "allowed"
                                    ELSE IF c \in cut THEN "answered" ELSE call[c]]
  /\ UNCHANGED <<engine, isolated, cap, recorded, workdir, expired, aborted, posts, ran>>

ENext ==
  \/ bootstrapRbac \/ RestartExecutor
  \/ \E c \in Calls :
       \/ Refuse(c) \/ Deny(c) \/ AuditFails(c) \/ Grant(c)
       \/ ExecuteHere(c) \/ Post(c) \/ ClientRefuses(c)
       \/ ExecutorAccepts(c) \/ ExecutorRefuses(c) \/ Result(c) \/ ConnectionLost(c)
       \/ Abort(c) \/ ExpireCapability(c)
ESpec == EInit /\ [][ENext]_evars

-----------------------------------------------------------------------------
(* Properties.                                                                 *)

\* Nothing is started, and no directory made, for a call without its own grant on
\* record. One grant starts one command in a life of the executor, however often its
\* answer is lost: another one takes a restart that forgot the nonce while the
\* capability was still good.
EveryRunGranted ==
  /\ \A c \in Calls : ran[c] > 0 \/ c \in workdir => <<c, "GRANTED">> \in recorded
  /\ \A c \in Calls : ran[c] <= 1 + forgotten[c]

\* A capability serves the call it was issued for: what the executor took a nonce for was
\* asked by that call, and a denied call never gets that far.
CapabilityServesItsCall ==
  \A c \in Calls : c \in nonces => posts[c] > 0 /\ call[c] # "denied"

\* A tool call starts something only under its own recorded grant and, in the
\* executor, under its own capability.
ShellCallsGoverned == EveryRunGranted /\ CapabilityServesItsCall

=============================================================================
