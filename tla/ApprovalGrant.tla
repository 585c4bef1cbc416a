--------------------------- MODULE ApprovalGrant ---------------------------
(***************************************************************************)
(* What a human approval gate promises, without locks, files or processes. *)
(* A gated step suspends the workflow in an instance of its own; the       *)
(* instance is accepted at most once; only an accepted instance may run    *)
(* its step, at most once; and a closed instance never opens again.        *)
(***************************************************************************)
EXTENDS Naturals

CONSTANT Ids              \* workflow instance identifiers

VARIABLES phase,          \* life cycle of each instance
          runs            \* how often its approved step was started

vars == <<phase, runs>>

Phase == {"unissued", "pending", "accepted", "closed"}

Init == /\ phase = [i \in Ids |-> "unissued"]
        /\ runs  = [i \in Ids |-> 0]

Move(i, from, to) == /\ phase[i] = from
                     /\ phase' = [phase EXCEPT ![i] = to]
                     /\ UNCHANGED runs

Issue(i)  == Move(i, "unissued", "pending")     \* the workflow suspends
Accept(i) == Move(i, "pending", "accepted")     \* a resume consumes the approval
Expire(i) == Move(i, "pending", "closed")
Close(i)  == Move(i, "accepted", "closed")

Act(i) == /\ phase[i] = "accepted"
          /\ runs[i] = 0
          /\ runs' = [runs EXCEPT ![i] = 1]
          /\ UNCHANGED phase

Next == \E i \in Ids :
          Issue(i) \/ Accept(i) \/ Expire(i) \/ Close(i) \/ Act(i)

Spec == Init /\ [][Next]_vars
=============================================================================
