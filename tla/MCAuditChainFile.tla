-------------------------- MODULE MCAuditChainFile --------------------------
(* AuditChainFile for TLC: processes and events are interchangeable.       *)
EXTENDS AuditChainFile, TLC

Interchangeable == Permutations(Procs) \cup Permutations(Events)
=============================================================================
