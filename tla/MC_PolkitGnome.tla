--------------------------- MODULE MC_PolkitGnome ---------------------------
(* An action and a toggle action of one program.                           *)
EXTENDS PolkitGnome

CONSTANTS button, lock

MCPlain    == {button}
MCToggle   == {lock}
MCNowhere  == {}
MCDatabase == Database
=============================================================================
