--------------------------- MODULE WorkflowEngine ---------------------------
(***************************************************************************)
(* The declarative workflow engine of config/declarative-orchestrator.mjs: *)
(* executeWorkflow, executeStep with its fallback dispatch, authorizeStep  *)
(* and the step loop of resumeWorkflow, for one workflow from its start    *)
(* through every suspension and resume.  How a resume takes its checkpoint *)
(* is ApprovalResume's subject; here it is one step.                       *)
(*                                                                         *)
(* The context is what later steps can tell apart: the approval flag, the  *)
(* ring of step signatures, and the conditions it makes true.  A step's    *)
(* signature is its action and arg, which stands for its target, prompt    *)
(* and parameters.  No workflow names an output variable after a field the *)
(* engine itself keeps in the context.                                     *)
(***************************************************************************)
EXTENDS Naturals, Sequences, SequencesExt

CONSTANTS Workflows,     \* the step sequences of the persona's manifest
          Action,        \* action names, registered or not
          Registered,    \* those with a handler
          Known,         \* those the capability registry lists
          Permitted,     \* those the persona's RBAC policy allows
          DefaultGated,  \* DEFAULT_GATED_ACTIONS
          Arg, Cond,
          NoAction, NoCond,
          Window, Cap,   \* of the signature ring: 8 and 32
          MaxResumes     \* bound on the number of resumes

Step == [action : Action, arg : Arg, cond : Cond \cup {NoCond},
         gate : {"on", "off", "unset"},
         fallback : Action \cup {NoAction}, fbGate : {"on", "off", "unset"}]
Signature == Action \X Arg

ASSUME EngineAssumption ==
  /\ Workflows \subseteq Seq(Step) \ {<<>>}
  /\ Registered \subseteq Known /\ Known \subseteq Action
  /\ NoAction \notin Action /\ NoCond \notin Cond
  /\ Window \in Nat \ {0} /\ Cap \in Nat /\ Window <= Cap
  /\ MaxResumes \in Nat

VARIABLES
  wf,        \* the workflow's steps
  mode,      \* running, or how it stopped
  idx,       \* the step being executed
  frame,     \* whether executeStep runs the step itself or its fallback
  place,     \* where in executeStep
  why,       \* what made the step itself fail
  approved, ring, facts,  \* the context
  results,   \* executionLogs
  ckpt,      \* the latest checkpoint: step, ring, facts, logs
  accepted,  \* status of the checkpoint this execution resumed from
  (* history, read by no action *)
  resumes,   \* approvals used to resume
  gatedRuns, \* handlers started for gated steps
  spent,     \* <<step approved, step the approval was spent on>>
  executed,  \* signatures of the handlers started, in order
  fbGated    \* whether a fallback's gate has been hit in this execution

vars == <<wf, mode, idx, frame, place, why, approved, ring, facts, results,
          ckpt, accepted, resumes, gatedRuns, spent, executed, fbGated>>
context == <<approved, ring, facts>>
control == <<wf, mode, idx, frame, place, why>>
history == <<resumes, gatedRuns, spent, executed, fbGated>>

NoCheckpoint == [idx |-> 0, ring |-> <<>>, facts |-> {}, results |-> <<>>]

Init ==
  /\ wf \in Workflows
  /\ mode = "running" /\ idx = 1 /\ frame = "primary" /\ place = "authorize"
  /\ why = "none"
  /\ approved = FALSE /\ ring = <<>> /\ facts \in SUBSET Cond
  /\ results = <<>> /\ ckpt = NoCheckpoint /\ accepted = "none"
  /\ resumes = 0 /\ gatedRuns = 0 /\ spent = {} /\ executed = <<>>
  /\ fbGated = FALSE

-----------------------------------------------------------------------------
(* Steps and results                                                       *)

(* The step triggerFallback builds: the failed one under another action,   *)
(* with a gate of its own and no fallback.                                 *)
FallbackStep(s) ==
  [s EXCEPT !.action = s.fallback, !.gate = s.fbGate, !.fallback = NoAction]

Current == IF frame = "primary" THEN wf[idx] ELSE FallbackStep(wf[idx])

Gated(s) == s.gate = "on" \/ (s.gate = "unset" /\ s.action \in DefaultGated)

SignatureOf(s) == <<s.action, s.arg>>

EntersFallback(reason) == /\ frame' = "fallback" /\ place' = "authorize"
                          /\ why' = reason
                          /\ UNCHANGED <<wf, mode, idx>>

(* finally, after a resume: the accepted checkpoint becomes terminal.  It  *)
(* is FAILED if workflowError is truthy, which the empty message of an     *)
(* Error(undefined) is not.                                                *)
SettleConsumed(message) ==               \* mutant: the error is forgotten
  accepted' = IF accepted = "IN_PROGRESS" THEN "CONSUMED" ELSE accepted
Settle(message) ==
  accepted' = IF accepted # "IN_PROGRESS" THEN accepted
              ELSE IF message \in {"none", "empty"} THEN "CONSUMED" ELSE "FAILED"

(* The execution stops: suspended, completed or failed.                    *)
Stop(m) == /\ mode' = m
           /\ UNCHANGED <<wf, idx, frame, place, why>>

Throw(message) == /\ Stop("failed")
                  /\ Settle(message)
                  /\ UNCHANGED <<results, ckpt>>

FailStep == /\ Stop("failed")
            /\ Settle("message")
            /\ results' = Append(results, <<idx, "FAILED">>)
            /\ UNCHANGED ckpt

(* A step that did not fail: on to the next one, or the workflow is over.  *)
StepDone(status) ==
  /\ results' = Append(results, <<idx, status>>)
  /\ UNCHANGED ckpt
  /\ IF idx = Len(wf)
     THEN Stop("completed") /\ Settle("none")
     ELSE /\ idx' = idx + 1 /\ frame' = "primary" /\ place' = "authorize"
          /\ why' = "none"
          /\ UNCHANGED <<wf, mode, accepted>>

(* triggerFallback; there may be none, and an action is never its own.     *)
HasFallback(s) == s.fallback # NoAction
SelfFallback(s) == s.fallback = s.action

(* The fallback failed too, by whatever result or exception.               *)
FallbackFailed == IF why = "threw" THEN Throw("message") ELSE FailStep

(* The step failed: it was trapped, its handler returned a failure, or its *)
(* handler threw.                                                          *)
StepFailed(reason) ==
  IF frame = "fallback" THEN FallbackFailed
  ELSE IF ~HasFallback(Current)
       THEN IF reason = "returned" THEN FailStep ELSE Throw("message")
  ELSE IF SelfFallback(Current)
       THEN IF reason = "threw" THEN Throw("message") ELSE FailStep
  ELSE /\ EntersFallback(reason)
       /\ UNCHANGED <<results, ckpt, accepted>>

(* The loop of executeWorkflow or resumeWorkflow sees a gated step: a new  *)
(* checkpoint is written and the workflow suspends; or the write throws.   *)
Suspend ==
  \/ /\ Stop("suspended")
     /\ results' = Append(results, <<idx, "GATED">>)
     /\ ckpt' = [idx |-> idx, ring |-> ring, facts |-> facts, results |-> results']
     /\ Settle("none")
  \/ /\ Stop("failed")
     /\ results' = Append(results, <<idx, "GATED">>)
     /\ Settle("message")
     /\ UNCHANGED ckpt

-----------------------------------------------------------------------------
(* authorizeStep                                                           *)

AtAuthorize == mode = "running" /\ place = "authorize"

(* Unknown action, RBAC violation, no handler (after a grant), or the      *)
(* grant cannot be recorded: an exception.  It reaches no fallback of its  *)
(* own, but the fallback's own exception is caught.                        *)
Deny ==
  /\ AtAuthorize
  /\ IF frame = "fallback" THEN FallbackFailed ELSE Throw("message")
  /\ UNCHANGED <<context, history>>

Allowed(s) == s.action \in Known /\ s.action \in Permitted

ConditionMet(s) == s.cond = NoCond \/ s.cond \in facts

Skip ==
  /\ AtAuthorize
  /\ Allowed(Current)
  /\ ~ConditionMet(Current)
  /\ StepDone(IF frame = "primary" THEN "SKIPPED" ELSE "SUCCESS")
  /\ UNCHANGED <<context, history>>

(* The gate is closed.  A fallback's gate suspends the workflow too, but   *)
(* not if the step's handler threw: then executeStep throws Error with the *)
(* undefined error field of the gated result.                              *)
Gate ==
  /\ AtAuthorize
  /\ Allowed(Current) /\ ConditionMet(Current)
  /\ Gated(Current) /\ ~approved
  /\ IF frame = "fallback" /\ why = "threw" THEN Throw("empty") ELSE Suspend
  /\ fbGated' = (frame = "fallback")
  /\ UNCHANGED <<context, resumes, gatedRuns, spent, executed>>

(* The step may run; a gated one consumes the context's approval.          *)
AuthorizeKeepingApproval ==             \* mutant: approved is not deleted
  /\ AtAuthorize
  /\ Allowed(Current) /\ ConditionMet(Current)
  /\ Current.action \in Registered
  /\ Gated(Current) => approved
  /\ spent' = IF Gated(Current) THEN spent \cup {<<ckpt.idx, idx>>} ELSE spent
  /\ place' = "trap"
  /\ UNCHANGED <<wf, mode, idx, frame, why, context, results, ckpt, accepted,
                 resumes, gatedRuns, executed, fbGated>>
Authorize ==
  /\ AtAuthorize
  /\ Allowed(Current) /\ ConditionMet(Current)
  /\ Current.action \in Registered
  /\ Gated(Current) => approved
  /\ approved' = (approved /\ ~Gated(Current))
  /\ spent' = IF Gated(Current) THEN spent \cup {<<ckpt.idx, idx>>} ELSE spent
  /\ place' = "trap"
  /\ UNCHANGED <<wf, mode, idx, frame, why, ring, facts, results, ckpt,
                 accepted, resumes, gatedRuns, executed, fbGated>>

-----------------------------------------------------------------------------
(* The loop trap and the handler                                           *)

Recent == SubSeq(ring, IF Len(ring) > Window THEN Len(ring) - Window + 1 ELSE 1, Len(ring))
LoopedLast(s) == ring # <<>> /\ Last(ring) = SignatureOf(s)        \* mutant
Looped(s) == Contains(Recent, SignatureOf(s))

PushForever(s) == Append(ring, SignatureOf(s))          \* mutant: unbounded
PushToRing(s) == LET longer == Append(ring, SignatureOf(s))
                 IN  IF Len(longer) > Cap THEN Tail(longer) ELSE longer

Trap ==
  /\ mode = "running" /\ place = "trap"
  /\ Looped(Current)
  /\ StepFailed("trapped")
  /\ UNCHANGED <<context, history>>

(* Not looped: the signature is remembered and the handler is called.      *)
Call ==
  /\ mode = "running" /\ place = "trap"
  /\ ~Looped(Current)
  /\ ring' = PushToRing(Current)
  /\ executed' = Append(executed, SignatureOf(Current))
  /\ gatedRuns' = IF Gated(Current) THEN gatedRuns + 1 ELSE gatedRuns
  /\ place' = "handle"
  /\ UNCHANGED <<wf, mode, idx, frame, why, approved, facts, results, ckpt,
                 accepted, resumes, spent, fbGated>>

(* The handler succeeds and its output is merged into the context; if this *)
(* was the fallback, the step counts as recovered.                         *)
Succeed ==
  /\ mode = "running" /\ place = "handle"
  /\ StepDone("SUCCESS")
  /\ facts' \in SUBSET Cond
  /\ UNCHANGED <<approved, ring, history>>

Fail ==
  /\ mode = "running" /\ place = "handle"
  /\ \E reason \in {"returned", "threw"} : StepFailed(reason)
  /\ UNCHANGED <<context, history>>

-----------------------------------------------------------------------------
(* resumeWorkflow                                                          *)

(* An accepted checkpoint: the loop goes on from the step that was gated,  *)
(* with its log entry taken back.  The operator may pass context of their  *)
(* own, which the snapshot does not override.                              *)
ResumeWith(flag, r, logs) ==
  /\ mode = "suspended" /\ resumes < MaxResumes
  /\ mode' = "running" /\ idx' = ckpt.idx
  /\ frame' = "primary" /\ place' = "authorize" /\ why' = "none"
  /\ approved' = flag /\ ring' = r /\ facts' \in SUBSET Cond
  /\ results' = logs
  /\ accepted' = "IN_PROGRESS"
  /\ resumes' = resumes + 1
  /\ fbGated' = FALSE
  /\ UNCHANGED <<wf, ckpt, gatedRuns, spent, executed>>

ResumeUnapproved == ResumeWith(FALSE, ckpt.ring, Front(ckpt.results))  \* mutant
ResumeForgetting == ResumeWith(TRUE, <<>>, Front(ckpt.results))        \* mutant
ResumeKeepingLog == ResumeWith(TRUE, ckpt.ring, ckpt.results)          \* mutant
Resume == ResumeWith(TRUE, ckpt.ring, Front(ckpt.results))

Next == \/ Deny \/ Skip \/ Gate \/ Authorize
        \/ Trap \/ Call \/ Succeed \/ Fail
        \/ Resume

Spec == Init /\ [][Next]_vars

-----------------------------------------------------------------------------
(* Properties                                                              *)

LogEntry == (1..Len(wf)) \X {"SUCCESS", "SKIPPED", "FAILED", "GATED"}

TypeOK ==
  /\ wf # <<>>
  /\ mode \in {"running", "suspended", "completed", "failed"}
  /\ idx \in 1..Len(wf)
  /\ frame \in {"primary", "fallback"} /\ place \in {"authorize", "trap", "handle"}
  /\ why \in {"none", "trapped", "returned", "threw"}
  /\ approved \in BOOLEAN /\ facts \subseteq Cond
  /\ ring \in Seq(Signature) /\ Len(ring) <= Cap
  /\ results \in Seq(LogEntry)
  /\ ckpt.idx \in 0..Len(wf) /\ ckpt.ring \in Seq(Signature)
  /\ ckpt.facts \subseteq Cond /\ ckpt.results \in Seq(LogEntry)
  /\ accepted \in {"none", "IN_PROGRESS", "CONSUMED", "FAILED"}
  /\ resumes \in 0..MaxResumes /\ gatedRuns \in Nat
  /\ spent \subseteq (0..Len(wf)) \X (1..Len(wf))
  /\ executed \in Seq(Signature) /\ fbGated \in BOOLEAN

(* No handler of a gated step, nor of a gated fallback, is started without *)
(* an approval of its own: one approval never opens two gates, whatever    *)
(* fails, falls back or is skipped in between (authorizeStep).             *)
OneApprovalPerGate == gatedRuns + (IF approved THEN 1 ELSE 0) <= resumes

(* An approval is spent on the step that was approved, or on its fallback. *)
(* The one exception the code has: the resumed step's condition no longer  *)
(* holds, so it is skipped, and the approval stays in the context for the  *)
(* next gated step.                                                        *)
ApprovalSpentOnItsStep ==
  \A use \in spent :
    \/ use[2] = use[1]
    \/ use[2] > use[1] /\ use[1] > 0 /\ results[use[1]][2] = "SKIPPED"

(* No handler is started twice for one signature within the ring's window, *)
(* also not when a suspension and a resume lie between the two calls.      *)
LoopTrapHolds ==
  \A j, k \in 1..Len(executed) :
    j < k /\ executed[j] = executed[k] => k - j > Window

(* The log has one entry per step, in order, and only its last one may be  *)
(* of a step that was gated or failed: a resume neither repeats nor        *)
(* forgets a step, and a completed workflow accounts for every step.       *)
LogMatchesSteps ==
  /\ \A k \in 1..Len(results) : results[k][1] = k
  /\ \A k \in 1..Len(results) :
       results[k][2] \in {"GATED", "FAILED"} => k = Len(results) /\ mode # "running"
  /\ mode = "completed" => Len(results) = Len(wf)

(* The accepted checkpoint ends as FAILED exactly if the resumed execution *)
(* failed; the dropped gate of a fallback is the one way to end as         *)
(* CONSUMED with an exception.                                             *)
StatusTruthful ==
  accepted # "none" /\ mode # "running" =>
    /\ accepted \in {"CONSUMED", "FAILED"}
    /\ accepted = "FAILED" => mode = "failed"
    /\ mode = "failed" /\ ~fbGated => accepted = "FAILED"

(* A resumed workflow never stops again at the gate that was just opened:  *)
(* it suspends further on, or because the step's fallback is gated too.    *)
ApprovalAdvances ==
  [][mode' = "suspended" /\ accepted = "IN_PROGRESS"
       => ckpt'.idx > ckpt.idx \/ fbGated']_vars

(* A fallback that has to be approved suspends the workflow                *)
(* (tests/step_gate.test.mjs, "gated step whose fallback must also gate    *)
(* suspends without running fallback ungated").                            *)
FallbackGateSuspends ==
  fbGated => /\ mode # "running"
             /\ results # <<>> /\ results[Len(results)] = <<idx, "GATED">>

(* One approval opens one gate, and that gate is its own.                  *)
ApprovalSpentOnce == OneApprovalPerGate /\ ApprovalSpentOnItsStep

=============================================================================
