------------------------- MODULE MCExecutorService -------------------------
(***************************************************************************)
(* An instance for TLC: three requests with a capability each, or two of   *)
(* them with the same one.                                                 *)
(***************************************************************************)
EXTENDS ExecutorService

CONSTANTS r1, r2, r3

MCRequests == {r1, r2, r3}
MCPresentations ==
  {[r \in MCRequests |-> r], [r \in MCRequests |-> IF r = r2 THEN r1 ELSE r]}
MCExpiry == [t \in MCRequests |-> 0]
=============================================================================
