--------------------------- MODULE MCSecretAudit ----------------------------
(* Instances of SecretAudit for TLC.                                         *)
EXTENDS SecretAudit, TLC

MCShape == (1 :> "known-id") @@ (2 :> "deep-path") @@ (3 :> "text")

MCAudits == {[mode |-> "references", url |-> NoTarget, min |-> "medium"],
             [mode |-> "id-regex", url |-> "u1", min |-> "high"]}
=============================================================================
