--------------------------- MODULE MCWorkflowSteps ---------------------------
(* What a workflow step goes through, side by side in one state space: the engine *)
(* with its gates, the decision about its targets, the handlers that carry it     *)
(* out, and the fetches some of them make. The scene, chosen initially, says      *)
(* which one runs; the others stay in one initial state of theirs. The engine     *)
(* abstracts the other three to an answer, so they share no state.                *)
EXTENDS MCWorkflowEngine, PolicyDecision, OutboundFetch, ActionHandlers

CONSTANTS work, etc, state, leaf

VARIABLE scene

\* Three directories, one file (or link) in the first two of them.
MCNodes == {<<work>>, <<etc>>, <<state>>, <<work, leaf>>, <<etc, leaf>>}
MCNames == {work, etc, state, leaf}
MCWork == {<<work>>}
MCReadable == {<<work>>, <<state>>}
MCDenied == {<<etc>>, <<work, etc>>}
MCBridge == <<work>>
MCStateDir == <<state>>

Ask(action, targets, command) ==
  [action |-> action, targets |-> targets, web |-> {}, command |-> command]
Spelled(r, web) == [r EXCEPT !.web = web]   \* some of the targets as web addresses
MCRequests ==
  {Ask(a, {<<work, leaf>>}, {}) : a \in {"read", "write", "compute"}}
  \cup {Ask("write", {t}, {}) : t \in {<<work, leaf, leaf>>, <<state, leaf>>}}
  \cup {Ask("write", {<<work, leaf>>, <<etc>>}, {}), Ask("write", {}, {}),
        Ask("shell", {<<work>>}, {}), Ask("shell", {<<work>>}, {<<etc>>}),
        Ask("mcp", {}, {}), Ask("other", {<<state, leaf>>}, {})}
  \cup {Ask(a, {<<work>>}, {}) : a \in {"read", "write"}}
  \cup {Spelled(Ask("write", {<<work, leaf>>, <<etc, leaf>>}, {}), {<<etc, leaf>>})}

CONSTANTS c1, c2, c3
MCDiffs == {[from |-> c1, to |-> c2], [from |-> c2, to |-> c3]}

StepsInit ==
  /\ scene \in {"engine", "decision", "fetch", "handlers"}
  /\ Init /\ (scene # "engine" => wf = (CHOOSE w \in Workflows : TRUE) /\ facts = {})
  /\ DecisionInit /\ FetchInit
  /\ HandlersInit /\ (scene # "handlers" => source = Missing)

StepsNext ==
  \/ /\ scene = "engine" /\ Next
     /\ UNCHANGED <<scene, decisionVars, fetchVars, handlerVars>>
  \/ /\ scene = "decision" /\ DecisionNext
     /\ UNCHANGED <<scene, vars, fetchVars, handlerVars>>
  \/ /\ scene = "fetch" /\ FetchNext
     /\ UNCHANGED <<scene, vars, decisionVars, handlerVars>>
  \/ /\ scene = "handlers" /\ HandlersNext
     /\ UNCHANGED <<scene, vars, decisionVars, fetchVars>>

StepsSpec ==
  StepsInit /\ [][StepsNext]_<<scene, vars, decisionVars, fetchVars, handlerVars>>
=============================================================================
