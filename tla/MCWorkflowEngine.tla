-------------------------- MODULE MCWorkflowEngine --------------------------
(* A small manifest for the TLC runs of WorkflowEngine: an ordinary step,  *)
(* steps with a returned or thrown failure to recover from, gates by       *)
(* default and by declaration, a condition, a loop, an action without a    *)
(* handler and one the policy forbids.                                     *)
EXTENDS WorkflowEngine

CONSTANTS query, patch, escalate, save, probe, x, y, c

MCAction == {query, patch, escalate, save, probe}

A(action) == [action |-> action, arg |-> x, cond |-> NoCond, gate |-> "unset",
              fallback |-> NoAction, fbGate |-> "unset"]

Steps == {
  A(query),                                          \* ungated, may repeat
  [A(query) EXCEPT !.arg = y],
  A(patch),                                          \* gated by default
  [A(query) EXCEPT !.gate = "on", !.fallback = escalate],        \* both gated
  [A(query) EXCEPT !.fallback = escalate],           \* only the fallback gated
  [A(patch) EXCEPT !.gate = "off", !.fallback = query],  \* ungated by request
  [A(patch) EXCEPT !.cond = c, !.gate = "on"],       \* conditional gate
  [A(save) EXCEPT !.fallback = save],                \* gated, no handler
  [A(query) EXCEPT !.fallback = query],              \* its own fallback
  A(probe)                                           \* not permitted
}

MCWorkflows == {<<s, t>> : s, t \in Steps} \cup {<<s, t, u>> : s, t, u \in Steps}
=============================================================================
