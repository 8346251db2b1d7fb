-------------------------- MODULE MC_EditorDialogs --------------------------
(* The editor run by alice.                                                *)
EXTENDS EditorDialogs

CONSTANTS mount, burn, alice, bob, root, first, second

MCActions == {mount, burn}
MCUsers   == {alice, bob, root}
MCSystem  == {root}
MCPlaces  == {"any", "active"}
MCValues  == {"yes", "no"}
MCTwo     == {first, second}
=============================================================================
