-------------------------- MODULE QuarantineLedger --------------------------
(* The incident ledger of the context quarantine (config/                      *)
(* context-quarantine.mjs): each session reads the file when it starts, keeps  *)
(* the list in memory and writes all of it after every incident.               *)
EXTENDS FiniteSets
CONSTANTS Sessions, Incidents

ASSUME QuarantineAssumption == "unreadable" \notin Incidents

VARIABLES
  kept,       \* session -> the list in memory
  up,         \* sessions that run
  onDisk,     \* quarantine_ledger.json, or Unreadable
  blocked,    \* contents that were refused, each with the session that did (history)
  overwrote   \* incidents whose file was written by another session afterwards (history)

ledgerVars == <<kept, up, onDisk, blocked, overwrote>>
Unreadable == {"unreadable"}
Readable(f) == IF f = Unreadable THEN {} ELSE f

LedgerTypeOK ==
  /\ kept \in [Sessions -> SUBSET Incidents] /\ up \subseteq Sessions
  /\ onDisk \in (SUBSET Incidents) \cup {Unreadable}
  /\ blocked \subseteq Sessions \X Incidents /\ overwrote \subseteq Incidents

LedgerInit == /\ kept = [s \in Sessions |-> {}] /\ up = {} /\ onDisk = {}
              /\ blocked = {} /\ overwrote = {}

\* The constructor: loadLedger; a file that cannot be read is an empty list.
StartSession(s) ==
  /\ s \notin up /\ up' = up \cup {s}
  /\ kept' = [kept EXCEPT ![s] = Readable(onDisk)]
  /\ UNCHANGED <<onDisk, blocked, overwrote>>
EndSession(s) ==
  /\ s \in up /\ up' = up \ {s} /\ UNCHANGED <<kept, onDisk, blocked, overwrote>>

\* Mutant: the incident is kept in memory until some later save.
SaveLater(s, list) == onDisk' \in {onDisk, list}
\* saveLedger swallows every error: the file is as it was, or truncated.
saveLedger(s, list) == onDisk' = list

\* sanitizeWorkspaceContent on content of risk HIGH: nothing of it is passed on, and
\* the incident is filed. With failClosed off, or below HIGH, nothing is filed.
Quarantine(s, i) ==
  /\ s \in up /\ \A b \in blocked : b[2] # i
  /\ kept' = [kept EXCEPT ![s] = @ \cup {i}]
  /\ blocked' = blocked \cup {<<s, i>>}
  /\ saveLedger(s, kept[s] \cup {i})
  /\ overwrote' = overwrote \cup (Readable(onDisk) \ kept[s])
  /\ UNCHANGED up
\* ... and the same with a save that fails.
QuarantineUnsaved(s, i) ==
  /\ s \in up /\ \A b \in blocked : b[2] # i
  /\ kept' = [kept EXCEPT ![s] = @ \cup {i}]
  /\ blocked' = blocked \cup {<<s, i>>}
  /\ onDisk' \in {onDisk, Unreadable}
  /\ overwrote' = overwrote \cup {i} \cup (IF onDisk' = Unreadable THEN Readable(onDisk) ELSE {})
  /\ UNCHANGED up

LedgerNext == \E s \in Sessions :
  \/ StartSession(s) \/ EndSession(s)
  \/ \E i \in Incidents : Quarantine(s, i) \/ QuarantineUnsaved(s, i)
LedgerSpec == LedgerInit /\ [][LedgerNext]_ledgerVars

\* An incident leaves the file in two ways only: its own save failed, or a session
\* that started before it was filed wrote its own list since.
IncidentsKept ==
  \A b \in blocked : b[2] \in Readable(onDisk) \/ b[2] \in overwrote
=============================================================================
