------------------------------ MODULE Remember ------------------------------
(***************************************************************************)
(* How long an authorization is kept.  PolicyKit offers to keep it, the    *)
(* dialogs of both agents let the user choose, the helper asks the agent   *)
(* to override the type of the grant accordingly and records it; the GNOME *)
(* agent remembers who declined.  Either agent may be started to           *)
(* authenticate, whichever owns the name on the bus.  `phase' is where an  *)
(* authentication is:                                                      *)
(*   starting   the helper has not told the type of the authentication     *)
(*   prompt     the dialog asks for a password                             *)
(*   verifying  the helper checks it                                       *)
(*   recorded   it was right, the authorization is recorded                *)
(* Sensitivity of the boxes, and GConf failing to answer, are left out.    *)
(***************************************************************************)
CONSTANTS
    Action,   \* actions of PolicyKit
    Agents,   \* the agents installed: "gnome", "kde"
    Offers,   \* the types of authentication policies ask for
    NoAction

Keeps == {"one_shot", "no", "session", "always"}
Types == [who : {"admin", "self"}, keep : Keeps]

ASSUME ConstantsOK ==
    /\ Agents \subseteq {"gnome", "kde"}
    /\ Offers \subseteq Types
    /\ NoAction \notin Action

VARIABLES
    agent,      \* the agent that authenticates, or did last
    action,     \* the action it authenticates for
    phase,
    offer,      \* the type of the authentication, told to conversation_type
    box,        \* the check boxes of the dialog
    kept,       \* how long the user's authorization for each action is kept
    retain,     \* the GConf key auth_dialog_retain_authorization
    blacklist,  \* the GConf key auth_dialog_retain_authorization_blacklist
    declined    \* actions whose "remember" was last left unticked, by the GNOME agent

dialogVars == <<agent, action, offer, box>>
vars == <<dialogVars, phase, kept, retain, blacklist, declined>>

Boxes == [remember : BOOLEAN, sessionOnly : BOOLEAN,              \* GNOME
          cbRemember : BOOLEAN, bgRemember : BOOLEAN,
          rbSession : BOOLEAN, rbAlways : BOOLEAN]                \* KDE

TypeOK ==
    /\ agent \in {"gnome", "kde"}
    /\ action \in Action \cup {NoAction}
    /\ phase \in {"idle", "starting", "prompt", "verifying", "recorded"}
    /\ offer \in Types
    /\ box \in Boxes
    /\ kept \in [Action -> {"no", "session", "always"}]
    /\ retain \in BOOLEAN
    /\ blacklist \subseteq Action
    /\ declined \subseteq Action

(* A dialog just built; only the GNOME agent's ticks a box. *)
NewDialog(remember) ==
    [remember |-> remember, sessionOnly |-> FALSE, cbRemember |-> FALSE,
     bgRemember |-> FALSE, rbSession |-> FALSE, rbAlways |-> FALSE]

Init ==
    /\ agent \in Agents
    /\ action = NoAction
    /\ phase = "idle"
    /\ offer = [who |-> "self", keep |-> "one_shot"]
    /\ box = NewDialog(FALSE)
    /\ kept = [a \in Action |-> "no"]
    /\ retain \in BOOLEAN
    /\ blacklist = {}
    /\ declined = {}

-----------------------------------------------------------------------------
(* The type of the grant.                                                  *)

(* polkit_gnome_auth_dialog_get_remember_session *)
GetRememberSession ==
    IF offer.keep = "always" THEN box.remember /\ box.sessionOnly ELSE box.remember

(* polkit_gnome_auth_dialog_get_remember_always *)
GetRememberAlways == offer.keep = "always" /\ box.remember /\ ~box.sessionOnly

(* conversation_override_grant_type *)
GnomeOverride ==
    [offer EXCEPT !.keep =
        CASE offer.keep = "one_shot" -> "one_shot"
          [] offer.keep \in {"session", "always"} /\ GetRememberSession -> "session"
          [] offer.keep = "always" /\ GetRememberAlways -> "always"
          [] OTHER -> "no"]

\* Mutant: the two ways to offer to remember are taken for one.
KdeOverrideEither ==
    [offer EXCEPT !.keep =
        CASE offer.keep \in {"one_shot", "no"} -> offer.keep
          [] offer.keep = "session" /\ ~box.cbRemember -> "no"
          [] offer.keep = "always" /\ ~box.rbAlways /\ ~box.rbSession -> "no"
          [] box.rbSession -> "session"
          [] OTHER -> "always"]

(* polkit_grant_override_grant_type *)
KdeOverride ==
    [offer EXCEPT !.keep =
        CASE offer.keep = "session" -> IF box.cbRemember THEN "session" ELSE "no"
          [] offer.keep = "always" ->
                IF ~box.rbAlways /\ ~box.rbSession THEN "no"
                ELSE IF box.rbSession THEN "session" ELSE "always"
          [] OTHER -> offer.keep]

Override == IF agent = "gnome" THEN GnomeOverride ELSE KdeOverride

-----------------------------------------------------------------------------
(* An authentication.                                                      *)

(* retain_checkbox_set_defaults *)
DefaultRemember(a) == retain /\ a \notin blacklist

(* A program that is not authorized calls the agent. *)
Begin(a, g) ==
    /\ phase = "idle"
    /\ kept[a] = "no"
    /\ agent' = g
    /\ action' = a
    /\ phase' = "starting"
    /\ box' = NewDialog(g = "gnome" /\ DefaultRemember(a))
    /\ UNCHANGED <<offer, kept, retain, blacklist, declined>>

(* conversation_type, polkit_grant_type, and the dialog is shown. *)
Type(t) ==
    /\ phase = "starting"
    /\ offer' = t
    /\ phase' = "prompt"
    /\ UNCHANGED <<agent, action, box, kept, retain, blacklist, declined>>

Clicked(b) ==
    /\ box' = b
    /\ UNCHANGED <<agent, action, offer, phase, kept, retain, blacklist, declined>>

(* The dialog of the GNOME agent stays while the helper checks a password. *)
GnomeClick ==
    /\ agent = "gnome"
    /\ phase \in {"prompt", "verifying", "recorded"}
    /\ \/ /\ offer.keep \in {"session", "always"}
          /\ Clicked([box EXCEPT !.remember = ~@])
       \/ /\ offer.keep = "always"
          /\ Clicked([box EXCEPT !.sessionOnly = ~@])

(* bgRemember, connected to rbSession, one of two exclusive buttons. *)
ToggleGroup ==
    [box EXCEPT !.bgRemember = ~@, !.rbSession = ~box.bgRemember,
                !.rbAlways = @ /\ box.bgRemember]

KdeClick ==
    /\ agent = "kde"
    /\ phase = "prompt"
    /\ \/ offer.keep = "session" /\ Clicked([box EXCEPT !.cbRemember = ~@])
       \/ offer.keep = "always" /\ Clicked(ToggleGroup)
       \/ /\ offer.keep = "always"
          /\ box.bgRemember
          /\ \E always \in BOOLEAN :
                Clicked([box EXCEPT !.rbSession = ~always, !.rbAlways = always])

(* The user presses OK. *)
Accept ==
    /\ phase = "prompt"
    /\ phase' = "verifying"
    /\ UNCHANGED <<dialogVars, kept, retain, blacklist, declined>>

(* A wrong password, or another administrator was chosen: the GNOME agent  *)
(* goes on with the same dialog, the KDE agent with another.               *)
TryAgain ==
    /\ phase \in {"prompt", "verifying"}
    /\ phase' = "starting"
    /\ box' = IF agent = "gnome" THEN box ELSE NewDialog(FALSE)
    /\ UNCHANGED <<agent, action, offer, kept, retain, blacklist, declined>>

(* The authentication is cancelled, or failed too often. *)
Denied ==
    /\ phase \in {"starting", "prompt", "verifying"}
    /\ phase' = "idle"
    /\ action' = NoAction
    /\ UNCHANGED <<agent, offer, box, kept, retain, blacklist, declined>>

(* The password is right; the helper records what the agent makes of the   *)
(* type.                                                                   *)
Record ==
    /\ phase = "verifying"
    /\ phase' = "recorded"
    /\ kept' = [kept EXCEPT ![action] =
                  IF Override.keep = "one_shot" THEN "no" ELSE Override.keep]
    /\ UNCHANGED <<dialogVars, retain, blacklist, declined>>

\* Mutant: an authorization for the session is not looked at.
DeclinesAlways == offer.keep = "always" /\ ~GetRememberAlways

(* What do_polkit_auth takes for declining to remember. *)
Declines ==
    \/ offer.keep = "always" /\ ~GetRememberAlways
    \/ offer.keep = "session" /\ ~GetRememberSession

(* The end of an authentication that was passed, with add_to_blacklist. *)
Gained ==
    /\ phase = "recorded"
    /\ phase' = "idle"
    /\ action' = NoAction
    /\ IF agent = "gnome" /\ retain
       THEN /\ blacklist' = IF Declines THEN blacklist \cup {action} ELSE blacklist
            /\ declined' = IF offer.keep \in {"session", "always"} /\ ~box.remember
                           THEN declined \cup {action} ELSE declined
       ELSE UNCHANGED <<blacklist, declined>>
    /\ UNCHANGED <<agent, offer, box, kept, retain>>

-----------------------------------------------------------------------------
(* Everybody else.                                                         *)

(* The desktop session ends and takes its authorizations with it. *)
SessionEnds ==
    /\ phase = "idle"
    /\ kept' = [a \in Action |-> IF kept[a] = "session" THEN "no" ELSE kept[a]]
    /\ UNCHANGED <<dialogVars, phase, retain, blacklist, declined>>

(* An authorization is revoked, in the editor or by a toggle action. *)
Revoke(a) ==
    /\ kept' = [kept EXCEPT ![a] = "no"]
    /\ UNCHANGED <<dialogVars, phase, retain, blacklist, declined>>

(* The user edits the GConf key. *)
SetRetain ==
    /\ retain' = ~retain
    /\ UNCHANGED <<dialogVars, phase, kept, blacklist, declined>>

-----------------------------------------------------------------------------
Authenticate ==
    \/ \E a \in Action, g \in Agents : Begin(a, g)
    \/ \E t \in Offers : Type(t)
    \/ Accept
    \/ TryAgain
    \/ Denied
    \/ Record
    \/ Gained

Next ==
    \/ Authenticate
    \/ GnomeClick
    \/ KdeClick
    \/ SessionEnds
    \/ \E a \in Action : Revoke(a)
    \/ SetRetain

Spec == Init /\ [][Next]_vars

-----------------------------------------------------------------------------
(* Properties                                                              *)

(* What the boxes on display tell the user, when one of them is ticked.    *)
Ticked ==
    \/ agent = "gnome" /\ offer.keep \in {"session", "always"} /\ box.remember
    \/ agent = "kde" /\ offer.keep = "session" /\ box.cbRemember
    \/ agent = "kde" /\ offer.keep = "always" /\ box.bgRemember

ForSession ==
    \/ offer.keep = "session"
    \/ agent = "gnome" /\ box.sessionOnly
    \/ agent = "kde" /\ box.rbSession

(* No authorization is kept for longer than the policy in force offers,    *)
(* whatever the user clicked when more or less was offered, in this        *)
(* attempt or an earlier one.                                              *)
NeverWidened ==
    [][\A a \in Action :
          kept'[a] # kept[a] /\ kept'[a] # "no"
          => a = action /\ (offer.keep = "always" \/ kept'[a] = offer.keep)]_vars

(* With "remember" ticked an authorization is kept exactly as the dialog   *)
(* said it would be, through retries, changes of mind and new offers.      *)
KeptAsTicked ==
    [][Record /\ Ticked
       => kept'[action] = IF ForSession THEN "session" ELSE "always"]_vars

(* What was not ticked is not kept.  Only the KDE agent, whose button      *)
(* "Always" stays on when the user unticks the group around it, keeps an   *)
(* authorization for ever then.                                            *)
KeptIfTicked ==
    [][Record /\ ~Ticked /\ kept'[action] # "no"
       => agent = "kde" /\ offer.keep = "always" /\ box.rbAlways]_vars

(* No authorization is kept for longer than was offered; it is kept as the *)
(* dialog says when that is ticked, and not at all when it is not, but for *)
(* the button the KDE agent leaves on.                                     *)
KeepsWhatWasAgreed == NeverWidened /\ KeptAsTicked /\ KeptIfTicked

(* Who left "remember" unticked finds it unticked the next time, however   *)
(* many authentications, sessions and agents later, while the key allows.  *)
DeclinedStaysUnticked ==
    [][phase = "idle" /\ phase' = "starting" /\ action' \in declined
       => ~box'.remember]_vars

(* While the KDE dialog offers a choice, exactly one is made; while it     *)
(* does not, "only for this session" is not the one.                       *)
ChoiceIsMade ==
    IF box.bgRemember THEN box.rbSession # box.rbAlways ELSE ~box.rbSession

=============================================================================
