---------------------------- MODULE MCRunManager ----------------------------
(* Instances of RunManager for TLC. *)
EXTENDS RunManager, TLC

CONSTANTS list, set, delete, prune, cli

(* One read, one single change, one destructive and one multiple change. *)
AllCommands == {list, set, delete, prune}

MCRisk  == [c \in Commands |-> CASE c = list -> "read"
                                 [] c = delete -> "destructive"
                                 [] OTHER -> "change"]
MCScope == [c \in Commands |-> IF c = prune THEN "multiple" ELSE "single"]
MCToolOf == [c \in Commands |-> cli]

Symmetry == Permutations(Clients) \cup Permutations(RunIDs)
            \cup Permutations(ApprovalIDs) \cup Permutations(Contexts)
=============================================================================
