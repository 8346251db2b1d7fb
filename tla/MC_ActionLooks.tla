--------------------------- MODULE MC_ActionLooks ---------------------------
(* Two actions and two PolicyKit actions, which are interchangeable.       *)
EXTENDS ActionLooks, TLC

Interchangeable == Permutations(Action) \cup Permutations(PkAction)

=============================================================================
