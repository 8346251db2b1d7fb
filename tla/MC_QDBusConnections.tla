------------------------- MODULE MC_QDBusConnections -------------------------
(* Three privates: one name closed and added again while another connection*)
(* to the same bus exists.                                                 *)
EXTENDS QDBusConnections, TLC

Interchangeable == Permutations(Handle) \cup Permutations(Private)
                     \cup Permutations(Name) \cup Permutations(Bus)

=============================================================================
