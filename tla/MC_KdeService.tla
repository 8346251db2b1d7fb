---------------------------- MODULE MC_KdeService ----------------------------
(* Two calls, two administrators, and PAM's usual prompt.                  *)
EXTENDS KdeService

CONSTANTS r1, r2, alice, bob

MCRequest  == {r1, r2}
MCUser     == {alice, bob}
MCPassword == {"Password: "}
=============================================================================
