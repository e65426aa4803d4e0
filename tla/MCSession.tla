------------------------------ MODULE MCSession ------------------------------
(* Instances of Session for TLC. *)
EXTENDS Session, TLC

CONSTANTS own, other, foreign, a, b

(* CLIHarbor's page in two browsers, and another site's in the first. *)
MCBrowserOf == (own :> a) @@ (other :> b) @@ (foreign :> a)
=============================================================================
