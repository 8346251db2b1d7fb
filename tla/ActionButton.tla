---------------------------- MODULE ActionButton ----------------------------
(***************************************************************************)
(* A PolKitGnomeAction as its program uses it while the PolicyKit action   *)
(* it tracks and its master sensitivity come and go: what it remembers and *)
(* when its proxies can be clicked.  The looks are those of                *)
(* polkit_gnome_action_new_default, where only a refusal is insensitive.   *)
(* No variables: the operators map a button to the button after the call,  *)
(* given what PolicyKit answers for the action it may track.               *)
(***************************************************************************)
Results == {"no", "auth", "yes"}

(* asks: polkit_action is not NULL; sensitive: of the proxies. *)
Buttons == [asks : BOOLEAN, result : Results, master : BOOLEAN, sensitive : BOOLEAN]

(* _compute_polkit_result; without a PolKitAction the answer is yes. *)
Computed(b, answer) == [b EXCEPT !.result = IF b.asks THEN answer ELSE "yes"]

(* _update_action *)
Updated(b) == [b EXCEPT !.sensitive = b.master /\ b.result # "no"]

(* polkit_gnome_action_set_sensitive *)
SetSensitive(b, m) == IF b.master = m THEN b ELSE Updated([b EXCEPT !.master = m])

(* polkit_gnome_action_set_polkit_action *)
SetPolkitAction(b, asks, answer) ==
    IF b.asks = asks THEN b ELSE Updated(Computed([b EXCEPT !.asks = asks], answer))

(* A new button, made insensitive. *)
NewButton(answer) == [asks |-> TRUE, result |-> answer, master |-> FALSE, sensitive |-> FALSE]

NoButton == [asks |-> FALSE, result |-> "yes", master |-> FALSE, sensitive |-> FALSE]

-----------------------------------------------------------------------------
(* A sensitive button has something to offer that is not refused. *)
Sound(b) == b.sensitive => b.master /\ b.result # "no"

(* It is sensitive exactly then.  A result computed without an update may  *)
(* make this untrue.                                                       *)
Exact(b) == b.sensitive <=> b.master /\ b.result # "no"

(* The button remembers what PolicyKit answers. *)
Fresh(b, answer) == b.result = IF b.asks THEN answer ELSE "yes"

=============================================================================
