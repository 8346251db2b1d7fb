---------------------------- MODULE EditorDialogs ----------------------------
(***************************************************************************)
(* The dialogs of the authorization editor (policykit-gnome/tools): the    *)
(* Grant and Block dialogs of block_grant_do and the dialog of             *)
(* edit_impl_clicked.  Each runs a main loop of its own in gtk_dialog_run, *)
(* so that answers of the authentication agent, changes of PolicyKit's     *)
(* configuration and calls of single_instance_show_action are served while *)
(* it is open.  Its last button is the proxy of a PolKitGnomeAction made   *)
(* for the dialog and destroyed with it: a click that needs an             *)
(* authentication is held back, and clicked again for the user when the    *)
(* agent answers that the privilege was gained.                            *)
(* An action of this module is one dispatch of the innermost main loop.    *)
(***************************************************************************)
EXTENDS ActionButton

CONSTANTS
    Actions,      \* the PolicyKit actions that are listed
    Users,
    Self,         \* who runs the editor
    Root,         \* the user whose uid is 0
    SystemUsers,  \* the users that are listed only when asked for
    Places,       \* whom defaults are for: any, inactive, active
    Values,       \* the members of PolKitResult a default may be
    Pending,      \* bound: one id for each call of the agent that may be out
    Moves,        \* whether the selection moves by other means than the user
    Faults,       \* what may fail: "bus", the session bus
    NoAction, NoUser, NoValue, NoDialog, NoCall, NoWrite

Tools   == {"grant", "modify"}   \* pk_grant_action, pk_modify_defaults_action
Kinds   == {"grant", "block", "edit"}
Radios  == {"none", "active", "console", "both"}

ASSUME ConstantsOK ==
    /\ Self \in Users /\ Root \in Users
    /\ SystemUsers \subseteq Users
    /\ Moves \in BOOLEAN
    /\ NoAction \notin Actions /\ NoUser \notin Users /\ NoValue \notin Values

(* The PolicyKit action that the button of a dialog tracks. *)
Tool(kind) == IF kind = "edit" THEN "modify" ELSE "grant"

Dialogs  == [kind : Kinds, action : Actions]
Defaults == [Places -> Values \cup {NoValue}]
Calls    == [tool : Tools, live : BOOLEAN, outcome : {"asked", "gained", "refused"}]
Writes   == [kind : Kinds, action : Actions, uid : Users \cup {NoUser},
             constraints : SUBSET {"local", "active"}, values : Defaults, allowed : BOOLEAN]

ASSUME NullsOK == NoDialog \notin Dialogs /\ NoCall \notin Calls /\ NoWrite \notin Writes

VARIABLES
    selected,  \* the action whose row has the cursor
    permit,    \* what PolicyKit answers for each tool
    noted,     \* a change of permit has not been signalled to the program yet
    dialog,    \* the modal dialog, and the action its text names
    seen,      \* what its combo boxes, check button and radio buttons display
    held,      \* entity_selected, or the EditImplData
    button,    \* its PolKitGnomeAction and the sensitivity of the proxy
    calls,     \* the calls of the agent that have not been answered
    written,   \* what the step had libpolkit write
    alive      \* the program has not died of a stray answer

windowVars == <<selected, permit, noted>>
dialogVars == <<dialog, seen, held, button>>
vars       == <<windowVars, dialogVars, calls, written, alive>>

(* Besides the types: a call whose action still exists was made by the     *)
(* dialog that is open.                                                    *)
TypeOK ==
    /\ selected \in Actions \cup {NoAction}
    /\ permit \in [Tools -> Results]
    /\ noted \in BOOLEAN
    /\ dialog \in Dialogs \cup {NoDialog}
    /\ seen \in [user : Users \cup {NoUser}, system : BOOLEAN, radio : Radios, values : Defaults]
    /\ held \in [uid : Users \cup {NoUser}, flags : [Radios -> BOOLEAN], orig : Defaults, data : Defaults]
    /\ button \in Buttons
    /\ calls \in [Pending -> Calls \cup {NoCall}]
    /\ \A c \in Pending :
          calls[c] # NoCall /\ calls[c].live
            => dialog # NoDialog /\ calls[c].tool = Tool(dialog.kind)
    /\ written \in Writes \cup {NoWrite}
    /\ alive \in BOOLEAN

-----------------------------------------------------------------------------
(* What PolicyKit answers for the button of the open dialog. *)
Answer == permit[Tool(dialog.kind)]

-----------------------------------------------------------------------------
NoDefaults == [p \in Places |-> NoValue]
NoFlags    == [r \in Radios |-> r = "none"]

Unseen == [user |-> NoUser, system |-> FALSE, radio |-> "none", values |-> NoDefaults]
Unheld == [uid |-> NoUser, flags |-> NoFlags, orig |-> NoDefaults, data |-> NoDefaults]

Init ==
    /\ selected \in Actions \cup {NoAction}
    /\ permit \in [Tools -> Results]
    /\ noted = FALSE
    /\ dialog = NoDialog
    /\ seen = Unseen
    /\ held = Unheld
    /\ button = NoButton
    /\ calls = [c \in Pending |-> NoCall]
    /\ written = NoWrite
    /\ alive = TRUE

-----------------------------------------------------------------------------
(* Everybody else.                                                         *)

(* The user selects another row; while a dialog is open a call of          *)
(* single_instance_show_action does, or the row is removed.                *)
SelectionMoves(a) ==
    /\ dialog = NoDialog \/ Moves
    /\ selected' = a
    /\ written' = NoWrite
    /\ UNCHANGED <<permit, noted, dialogVars, calls, alive>>

PermitChanged(t, r) ==
    /\ r # permit[t]
    /\ permit' = [permit EXCEPT ![t] = r]
    /\ noted' = TRUE
    /\ written' = NoWrite
    /\ UNCHANGED <<selected, dialogVars, calls, alive>>

AgentRefuses(c) ==
    /\ calls[c] # NoCall
    /\ calls[c].outcome = "asked"
    /\ calls' = [calls EXCEPT ![c].outcome = "refused"]
    /\ written' = NoWrite
    /\ UNCHANGED <<windowVars, dialogVars, alive>>

AgentGrants(c) ==
    /\ calls[c] # NoCall
    /\ calls[c].outcome = "asked"
    /\ calls' = [calls EXCEPT ![c].outcome = "gained"]
    /\ permit' = [permit EXCEPT ![calls[c].tool] = "yes"]
    /\ noted' = (noted \/ permit[calls[c].tool] # "yes")
    /\ written' = NoWrite
    /\ UNCHANGED <<selected, dialogVars, alive>>

(* _pk_config_changed of the dialog's action *)
ConfigChanged ==
    /\ noted
    /\ noted' = FALSE
    /\ button' = IF dialog = NoDialog THEN button ELSE Updated(Computed(button, Answer))
    /\ written' = NoWrite
    /\ UNCHANGED <<selected, permit, dialog, seen, held, calls, alive>>

-----------------------------------------------------------------------------
(* Opening a dialog for the selected action.                               *)

(* block_grant_do *)
BlockGrantDo(kind) ==
    /\ dialog = NoDialog
    /\ selected # NoAction
    /\ kind \in {"grant", "block"}
    /\ dialog' = [kind |-> kind, action |-> selected]
    /\ button' = NewButton(permit[Tool(kind)])
    /\ seen' = Unseen
    /\ held' = Unheld
    /\ written' = NoWrite
    /\ UNCHANGED <<windowVars, calls, alive>>

(* edit_impl_clicked; the entry's defaults are what was last read of them. *)
EditImplClicked(defaults) ==
    /\ dialog = NoDialog
    /\ selected # NoAction
    /\ dialog' = [kind |-> "edit", action |-> selected]
    /\ button' = NewButton(permit[Tool("edit")])
    /\ seen' = [Unseen EXCEPT !.values = defaults]
    /\ held' = [Unheld EXCEPT !.orig = defaults, !.data = defaults]
    /\ written' = NoWrite
    /\ UNCHANGED <<windowVars, calls, alive>>

-----------------------------------------------------------------------------
(* The user changes what the dialog displays.                              *)

OpenGrant == dialog # NoDialog /\ dialog.kind \in {"grant", "block"}
OpenEdit  == dialog # NoDialog /\ dialog.kind = "edit"

(* _entity_combobox_update_sensitivity: blocking oneself needs no privilege. *)
UpdateSensitivity(b, u) ==
    LET s == SetSensitive(b, u # NoUser)
    IN IF dialog.kind = "block" THEN SetPolkitAction(s, u # Self, Answer) ELSE s

(* _entity_combobox_changed *)
ComboboxChanged(u) ==
    /\ OpenGrant
    /\ u # seen.user
    /\ u \in SystemUsers => seen.system
    /\ seen' = [seen EXCEPT !.user = u]
    /\ held' = [held EXCEPT !.uid = u]
    /\ button' = UpdateSensitivity(button, u)
    /\ written' = NoWrite
    /\ UNCHANGED <<windowVars, dialog, calls, alive>>

\* Mutant: the button is not updated after the reset.
ShowSystemUsersStaysSensitive ==
    /\ OpenGrant
    /\ seen' = [seen EXCEPT !.system = ~@, !.user = NoUser]
    /\ held' = [held EXCEPT !.uid = NoUser]
    /\ button' = UpdateSensitivity(button, Root)
    /\ written' = NoWrite
    /\ UNCHANGED <<windowVars, dialog, calls, alive>>

(* _entity_show_system_users_toggled: making "Select user..." the active   *)
(* row reports the uid that row was never given, 0, before it is reset.    *)
ShowSystemUsersToggled ==
    /\ OpenGrant
    /\ seen' = [seen EXCEPT !.system = ~@, !.user = NoUser]
    /\ held' = [held EXCEPT !.uid = NoUser]
    /\ button' = UpdateSensitivity(UpdateSensitivity(button, Root), NoUser)
    /\ written' = NoWrite
    /\ UNCHANGED <<windowVars, dialog, calls, alive>>

(* _entity_radio_toggled, of the button that was ticked and of the other *)
RadioToggled(r) ==
    /\ OpenGrant
    /\ r # seen.radio
    /\ seen' = [seen EXCEPT !.radio = r]
    /\ held' = [held EXCEPT !.flags[seen.radio] = FALSE, !.flags[r] = TRUE]
    /\ written' = NoWrite
    /\ UNCHANGED <<windowVars, dialog, button, calls, alive>>

(* edit_impl_combo_*_changed and edit_impl_update_sensitive *)
EditImplComboChanged(p, v) ==
    /\ OpenEdit
    /\ v # seen.values[p]
    /\ seen' = [seen EXCEPT !.values[p] = v]
    /\ held' = [held EXCEPT !.data[p] = v]
    /\ button' = SetSensitive(button, held'.data # held.orig)
    /\ written' = NoWrite
    /\ UNCHANGED <<windowVars, dialog, calls, alive>>

-----------------------------------------------------------------------------
(* Leaving a dialog.                                                       *)

(* gtk_widget_destroy: the action goes with its proxy, its calls do not. *)
Destroyed(cs) ==
    /\ dialog' = NoDialog
    /\ seen' = Unseen
    /\ held' = Unheld
    /\ button' = NoButton
    /\ calls' = [c \in Pending |-> IF cs[c] = NoCall THEN NoCall
                                                     ELSE [cs[c] EXCEPT !.live = FALSE]]

Constraints(flags) ==
    CASE flags["none"]    -> {}
      [] ~flags["none"] /\ flags["active"] -> {"active"}
      [] ~flags["none"] /\ ~flags["active"] /\ flags["console"] -> {"local"}
      [] OTHER -> {"local", "active"}

(* Whether libpolkit lets this process write. *)
Allowed == \/ permit[Tool(dialog.kind)] = "yes"
           \/ dialog.kind = "block" /\ held.uid = Self

\* Mutant: the row with the cursor is looked up again after gtk_dialog_run.
WriteSelected ==
    IF (dialog.kind = "edit" \/ held.uid # NoUser) /\ selected # NoAction
    THEN [kind |-> dialog.kind, action |-> selected, uid |-> held.uid,
          constraints |-> Constraints(held.flags), values |-> held.data, allowed |-> Allowed]
    ELSE NoWrite

(* What follows GTK_RESPONSE_OK. *)
Write ==
    IF dialog.kind = "edit" \/ held.uid # NoUser
    THEN [kind |-> dialog.kind, action |-> dialog.action, uid |-> held.uid,
          constraints |-> Constraints(held.flags), values |-> held.data, allowed |-> Allowed]
    ELSE NoWrite

Respond(cs) ==
    /\ written' = Write
    /\ Destroyed(cs)

Cancel ==
    /\ dialog # NoDialog
    /\ written' = NoWrite
    /\ Destroyed(calls)
    /\ UNCHANGED <<windowVars, alive>>

(* _auth_start of the dialog's action in the call c *)
AuthStart(cs, c) ==
    \/ calls' = [cs EXCEPT ![c] = [tool |-> Tool(dialog.kind), live |-> TRUE, outcome |-> "asked"]]
    \/ "bus" \in Faults /\ calls' = cs

(* A click: polkit_gnome_action_activate stops and starts an               *)
(* authentication, _button_clicked stops the click, or the dialog sees it. *)
ClickAsks(c) ==
    /\ button.sensitive
    /\ button.result = "auth"
    /\ calls[c] = NoCall
    /\ AuthStart(calls, c)
    /\ written' = NoWrite
    /\ UNCHANGED <<windowVars, dialogVars, alive>>

ClickResponds ==
    /\ dialog # NoDialog
    /\ button.sensitive
    /\ button.result # "auth"
    /\ Respond(calls)
    /\ UNCHANGED <<windowVars, alive>>

-----------------------------------------------------------------------------
(* _notify_callback, _show_dialog_cb and _button_auth_end.                 *)

Answered(c, outcome) ==
    /\ calls[c] # NoCall
    /\ calls[c].live
    /\ calls[c].outcome = outcome

Without(c) == [calls EXCEPT ![c] = NoCall]

AnswerRefused(c) ==
    /\ Answered(c, "refused")
    /\ calls' = Without(c)
    /\ written' = NoWrite
    /\ UNCHANGED <<windowVars, dialogVars, alive>>

(* The result is computed again; should it still be auth, the action asks  *)
(* once more if it is sensitive and the click is stopped.  Otherwise the   *)
(* dialog sees the click, even if the button has become insensitive.       *)
AnswerGained(c) ==
    /\ Answered(c, "gained")
    /\ LET b == Computed(button, Answer)
       IN IF b.result = "auth"
          THEN /\ IF b.sensitive THEN AuthStart(Without(c), c) ELSE calls' = Without(c)
               /\ button' = b
               /\ written' = NoWrite
               /\ UNCHANGED <<dialog, seen, held>>
          ELSE Respond(Without(c))
    /\ UNCHANGED <<windowVars, alive>>

(* The action the answer is for was destroyed with its dialog.  What is    *)
(* done to its memory may have no effect the program notices, or end it.   *)
AnswerAstray(c) ==
    /\ calls[c] # NoCall
    /\ ~calls[c].live
    /\ calls[c].outcome # "asked"
    /\ calls' = Without(c)
    /\ written' = NoWrite
    /\ alive' \in BOOLEAN
    /\ UNCHANGED <<windowVars, dialogVars>>

-----------------------------------------------------------------------------
Opens ==
    \/ \E kind \in Kinds : BlockGrantDo(kind)
    \/ \E defaults \in [Places -> Values] : EditImplClicked(defaults)

Changes ==
    \/ \E u \in Users : ComboboxChanged(u)
    \/ ShowSystemUsersToggled
    \/ \E r \in Radios : RadioToggled(r)
    \/ \E p \in Places, v \in Values : EditImplComboChanged(p, v)

Answers ==
    \E c \in Pending : AnswerRefused(c) \/ AnswerGained(c) \/ AnswerAstray(c)

Next ==
    /\ alive
    /\ \/ \E a \in Actions \cup {NoAction} : SelectionMoves(a)
       \/ \E t \in Tools, r \in Results : PermitChanged(t, r)
       \/ \E c \in Pending : AgentRefuses(c) \/ AgentGrants(c)
       \/ ConfigChanged
       \/ Opens
       \/ Changes
       \/ Cancel
       \/ \E c \in Pending : ClickAsks(c)
       \/ ClickResponds
       \/ Answers

Spec == Init /\ [][Next]_vars

-----------------------------------------------------------------------------
(* Properties                                                              *)

(* The constraints that the label of a radio button promises. *)
Promised(radio) ==
    (IF radio \in {"active", "both"} THEN {"active"} ELSE {})
      \cup (IF radio \in {"console", "both"} THEN {"local"} ELSE {})

(* What is written is what the dialog displays when it closes: for the     *)
(* action its text names, wherever the cursor went meanwhile, and for the  *)
(* user its combo box displays, never for nobody.                          *)
WritesWhatIsShown ==
    [][written' # NoWrite =>
          /\ dialog # NoDialog
          /\ written'.kind = dialog.kind /\ written'.action = dialog.action
          /\ written'.uid = seen.user
          /\ dialog.kind # "edit" => seen.user # NoUser
          /\ written'.constraints = Promised(seen.radio)
          /\ written'.values = seen.values]_vars

(* A write PolicyKit refuses for want of an authentication was only tried  *)
(* because the signal of a change was still on its way: the user is always *)
(* asked first, whomever she chose meanwhile.                              *)
AsksFirst ==
    [][written' # NoWrite /\ ~written'.allowed
         => noted \/ permit[Tool(dialog.kind)] = "no"]_vars

(* The button can be clicked only when there is something to write.        *)
OfferedWhenComplete ==
    button.sensitive =>
        /\ dialog # NoDialog
        /\ IF dialog.kind = "edit" THEN seen.values # held.orig ELSE seen.user # NoUser

(* When the agent's answer lets the user do what she clicked for, the      *)
(* dialog is done: she need not click again, and what she chose is written *)
(* unless she took it back.                                                *)
GainedCompletes ==
    [][\A c \in Pending :
          /\ Answered(c, "gained")
          /\ calls'[c] = NoCall
          /\ permit[calls[c].tool] = "yes"
          => /\ dialog' = NoDialog
             /\ dialog.kind = "edit" \/ seen.user # NoUser => written' # NoWrite]_vars

=============================================================================
