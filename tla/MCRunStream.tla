---------------------------- MODULE MCRunStream -----------------------------
(* Instances of RunStream for TLC.  One page at a time: nothing to permute.  *)
EXTENDS RunStream
=============================================================================
