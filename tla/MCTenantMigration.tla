------------------------- MODULE MCTenantMigration -------------------------
(***************************************************************************)
(* TenantMigration for TLC; the invocations are interchangeable in the     *)
(* runs that check safety only.                                            *)
(***************************************************************************)
EXTENDS TenantMigration, TLC

Interchangeable == Permutations(Procs)
=============================================================================
