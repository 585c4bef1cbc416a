-------------------------- MODULE MCApprovalResume --------------------------
(* Model values and symmetry for the TLC runs of ApprovalResume.           *)
EXTENDS ApprovalResume, TLC

\* Processes on the same side of the pid namespace are interchangeable, and
\* so are instances: Init and Next single none of them out.
Symmetry == Permutations(Procs \ Host) \cup Permutations(Host) \cup Permutations(Ids)
=============================================================================
