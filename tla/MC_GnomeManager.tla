-------------------------- MODULE MC_GnomeManager --------------------------
(* Two callers with a call each, one of them through ShowDialog, and two   *)
(* administrators.                                                         *)
EXTENDS GnomeManager, TLC

CONSTANTS c1, c2, r1, r2, alice, bob

MCClient        == {c1, c2}
MCRequest       == {r1, r2}
MCClientOf      == (r1 :> c1) @@ (r2 :> c2)
MCShowDialogReq == {r2}
MCUser          == {alice, bob}
=============================================================================
