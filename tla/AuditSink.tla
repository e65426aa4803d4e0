----------------------------- MODULE AuditSink -----------------------------
(***************************************************************************)
(* What runs.AuditSink promises its callers (internal/runs/manager.go): an *)
(* append-only trail in which a mutation is first approved and then, at    *)
(* most once, completed.  RunManager is written against this contract;     *)
(* AuditTrail, the journal on disk, is shown to implement it: what its     *)
(* files durably hold only ever moves forward along this trail.            *)
(***************************************************************************)

CONSTANT RunIDs     \* identifiers of mutations: Entry.RunID

VARIABLE trail      \* "none" | "approved" (outcome unknown) | "completed"

TrailStates == {"none", "approved", "completed"}

Init == trail = [r \in RunIDs |-> "none"]

(* A mutation may only be approved once in the life of the journal. *)
CanApprove(r) == trail[r] = "none"

(* A completion needs a pending approval: no orphan, no duplicate. *)
CanComplete(r) == trail[r] = "approved"

Approve(r) ==
    /\ CanApprove(r)
    /\ trail' = [trail EXCEPT ![r] = "approved"]

Complete(r) ==
    /\ CanComplete(r)
    /\ trail' = [trail EXCEPT ![r] = "completed"]

(* Records that were written but not synced may reach the disk together    *)
(* with a later one, so one step may advance several mutations.            *)
Next ==
    /\ trail' \in [RunIDs -> TrailStates]
    /\ \A r \in RunIDs :
           \/ trail'[r] = trail[r]
           \/ CanApprove(r) /\ trail'[r] = "approved"
           \/ CanComplete(r) /\ trail'[r] = "completed"

Spec == Init /\ [][Next]_trail
=============================================================================
