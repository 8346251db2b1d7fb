---------------------------- MODULE MC_QDBusValues ---------------------------
(* Values of up to MaxNodes parts.                                         *)
EXTENDS QDBusValues

=============================================================================
