----------------------------- MODULE AuditTrail -----------------------------
(***************************************************************************)
(* What the audit writer promises the policy enforcement points: an        *)
(* append-only log, in which a decision appears at most once, and a grant  *)
(* only for a decision that is in the log.                                 *)
(***************************************************************************)
EXTENDS Naturals, Sequences, SequencesExt

CONSTANT Events

VARIABLES log,      \* the recorded decisions, in order
          granted   \* those whose caller may go ahead

vars == <<log, granted>>

Init == log = <<>> /\ granted = {}

Record(e) == /\ ~Contains(log, e)
             /\ log' = Append(log, e)
             /\ UNCHANGED granted

Grant(e) == /\ Contains(log, e)
            /\ granted' = granted \cup {e}
            /\ UNCHANGED log

Next == \E e \in Events : Record(e) \/ Grant(e)

Spec == Init /\ [][Next]_vars
=============================================================================
