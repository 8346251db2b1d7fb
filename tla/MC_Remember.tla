---------------------------- MODULE MC_Remember -----------------------------
(* Two actions, both agents and every offer.                               *)
EXTENDS Remember

CONSTANTS mount, format

MCAction == {mount, format}
MCTypes  == Types
=============================================================================
