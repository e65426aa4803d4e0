---------------------------- MODULE MCAuditTrail ----------------------------
(* Instances of AuditTrail for TLC. *)
EXTENDS AuditTrail, TLC

Symmetry == Permutations(Procs) \cup Permutations(RunIDs) \cup Permutations(Names)

(* Nothing crashes: what two well-behaved instances alone can do. *)
CalmSpec ==
    Init /\ [][\E p \in Procs : LockStep(p) \/ StoreStep(p) \/ QuarantineStep(p)]_vars
=============================================================================
