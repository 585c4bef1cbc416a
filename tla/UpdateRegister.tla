---------------------------- MODULE UpdateRegister ----------------------------
(* What the update cache of the diagram skill promises, whatever number of      *)
(* processes share it (check-update.mjs): one register, changed by one check or *)
(* one acknowledgement at a time from its latest value; from a value it had     *)
(* before only when the latest cannot be read, and then the register lapses.    *)
EXTENDS FiniteSets
CONSTANTS Digests,   \* the target digests of the releases a check may find
          NoCand     \* no newer release

VARIABLES
  cand,       \* the candidate of the latest check
  offered,    \* digests a user may still acknowledge
  acked,      \* digests a user acknowledged
  held,       \* the values the register has had
  lapsed,     \* it was changed from one that was not the latest
  told,       \* acknowledgements reported as done
  notified    \* digests reported as available

rvars == <<cand, offered, acked, held, lapsed, told, notified>>

Value == [cand |-> cand, offered |-> offered, acked |-> acked]

RInit == /\ cand = NoCand /\ offered = {} /\ acked = {} /\ held = {Value}
         /\ lapsed = FALSE /\ told = {} /\ notified = {}

\* A check finds d: it offers d and says so, unless d was acknowledged before.
Find(v, d) ==
  /\ cand' = d /\ acked' = v.acked
  /\ offered' = IF d \in v.acked THEN v.offered ELSE v.offered \cup {d}
  /\ notified' = IF d \in v.acked THEN notified ELSE notified \cup {d}
  /\ UNCHANGED told

\* A check finds nothing newer, or withdraws a candidate it cannot record.
Withdraw(v) == /\ cand' = NoCand /\ offered' = v.offered /\ acked' = v.acked
               /\ UNCHANGED <<told, notified>>

\* A check fails.
Leave(v) == Value' = v /\ UNCHANGED <<told, notified>>

\* Only what was offered can be acknowledged, and it is not offered again.
Acknowledge(v, d) ==
  /\ d \in v.offered \cup v.acked
  /\ cand' = v.cand /\ offered' = v.offered \ {d} /\ acked' = v.acked \cup {d}
  /\ told' = told \cup {d}
  /\ UNCHANGED notified

\* A change starts from the value v it read.
Change(v) ==
  /\ lapsed' \in {lapsed, TRUE} /\ (v # Value => lapsed')
  /\ Leave(v) \/ Withdraw(v) \/ \E d \in Digests : Find(v, d) \/ Acknowledge(v, d)
  /\ held' = held \cup {Value'}

\* A check inside the validity of an earlier one repeats the notice it reads.
Remind(v) == /\ v.cand \in v.offered
             /\ notified' = notified \cup {v.cand}
             /\ UNCHANGED <<cand, offered, acked, held, lapsed, told>>

RNext == \E v \in held : Change(v) \/ Remind(v)
RSpec == RInit /\ [][RNext]_rvars
=============================================================================
