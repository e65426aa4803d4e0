--------------------------- MODULE MCStateRemoval ---------------------------
(* Instances of StateRemoval for TLC. *)
EXTENDS StateRemoval, TLC

Symmetry ==
    Permutations(Clients) \cup Permutations(PreviewIDs) \cup Permutations(RunIDs)
        \cup Permutations(Addresses)
=============================================================================
