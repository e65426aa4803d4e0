---------------------------- MODULE MCToolInstall ----------------------------
(* Instances of ToolInstall for TLC. *)
EXTENDS ToolInstall, TLC

CONSTANTS a, b, a1, a2, b1

MCProcOf == (a1 :> a) @@ (a2 :> a) @@ (b1 :> b)

MCTouched == {<<"cache", "lookalike">>, <<"custom", "broken">>, <<"path", "lookalike">>}

Requests == Permutations({a1, a2})
=============================================================================
