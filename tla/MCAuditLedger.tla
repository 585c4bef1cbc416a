--------------------------- MODULE MCAuditLedger ----------------------------
(* Model values and symmetry for the TLC runs of AuditLedger.              *)
EXTENDS AuditLedger

\* Events differ in nothing but identity.
Symmetry == Permutations(Events)
=============================================================================
