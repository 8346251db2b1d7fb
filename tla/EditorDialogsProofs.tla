------------------------- MODULE EditorDialogsProofs -------------------------
(***************************************************************************)
(* Theorems about EditorDialogs, for any users, actions, implicit results  *)
(* and number of calls that may be out.                                    *)
(***************************************************************************)
EXTENDS EditorDialogs, TLAPS

(* What the program holds is what the widgets display. *)
Mirrors ==
    /\ held.uid = seen.user
    /\ held.data = seen.values
    /\ \A r \in Radios : held.flags[r] <=> r = seen.radio

(* The button of the open dialog is offered for what the program holds,    *)
(* asks unless users block themselves, and knows what PolicyKit says but   *)
(* for a change that was not signalled.                                    *)
ButtonFits ==
    /\ Sound(button)
    /\ dialog = NoDialog => button = NoButton
    /\ OpenEdit => (button.master <=> held.data # held.orig)
    /\ OpenGrant => (button.master <=> held.uid # NoUser)
    /\ dialog # NoDialog /\ ~button.asks => dialog.kind = "block" /\ held.uid = Self
    /\ dialog # NoDialog /\ ~noted => Fresh(button, Answer)

IInv == TypeOK /\ Mirrors /\ ButtonFits

USE ConstantsOK, NullsOK DEF Tools, Kinds, Radios, Answer

-----------------------------------------------------------------------------
(* What the calls make of a button (ActionButton).                         *)

USE DEF Results

LEMMA NewButtonOK ==
    \A answer \in Results :
        /\ NewButton(answer) \in Buttons /\ Sound(NewButton(answer))
        /\ Exact(NewButton(answer)) /\ Fresh(NewButton(answer), answer)
        /\ NewButton(answer).asks /\ ~NewButton(answer).master
BY DEF NewButton, Buttons, Sound, Exact, Fresh

LEMMA NoButtonOK == NoButton \in Buttons /\ Sound(NoButton)
BY DEF NoButton, Buttons, Sound

LEMMA ComputedOK ==
    ASSUME NEW b \in Buttons, NEW answer \in Results
    PROVE  /\ Computed(b, answer) \in Buttons
           /\ Fresh(Computed(b, answer), answer)
           /\ Computed(b, answer).asks = b.asks
           /\ Computed(b, answer).master = b.master
           /\ Computed(b, answer).sensitive = b.sensitive
BY DEF Computed, Fresh, Buttons

LEMMA UpdatedOK ==
    ASSUME NEW b \in Buttons
    PROVE  /\ Updated(b) \in Buttons
           /\ Sound(Updated(b)) /\ Exact(Updated(b))
           /\ Updated(b).asks = b.asks
           /\ Updated(b).result = b.result
           /\ Updated(b).master = b.master
BY DEF Updated, Sound, Exact, Buttons

LEMMA SetSensitiveOK ==
    ASSUME NEW b \in Buttons, NEW m \in BOOLEAN
    PROVE  /\ SetSensitive(b, m) \in Buttons
           /\ Sound(b) => Sound(SetSensitive(b, m))
           /\ Exact(b) => Exact(SetSensitive(b, m))
           /\ SetSensitive(b, m).asks = b.asks
           /\ SetSensitive(b, m).result = b.result
           /\ SetSensitive(b, m).master = m
<1>1. CASE b.master = m
      BY <1>1 DEF SetSensitive
<1>2. CASE b.master # m
  <2> DEFINE c == [b EXCEPT !.master = m]
  <2>1. c \in Buttons /\ c.asks = b.asks /\ c.result = b.result /\ c.master = m
        BY DEF Buttons
  <2>2. SetSensitive(b, m) = Updated(c)
        BY <1>2 DEF SetSensitive
  <2> HIDE DEF c
  <2> QED BY <2>1, <2>2, UpdatedOK
<1> QED BY <1>1, <1>2

LEMMA SetPolkitActionOK ==
    ASSUME NEW b \in Buttons, NEW asks \in BOOLEAN, NEW answer \in Results
    PROVE  /\ SetPolkitAction(b, asks, answer) \in Buttons
           /\ Sound(b) => Sound(SetPolkitAction(b, asks, answer))
           /\ Exact(b) => Exact(SetPolkitAction(b, asks, answer))
           /\ SetPolkitAction(b, asks, answer).asks = asks
           /\ SetPolkitAction(b, asks, answer).master = b.master
           /\ Fresh(b, answer) => Fresh(SetPolkitAction(b, asks, answer), answer)
<1>1. CASE b.asks = asks
      BY <1>1 DEF SetPolkitAction
<1>2. CASE b.asks # asks
  <2> DEFINE c == [b EXCEPT !.asks = asks]
             d == Computed(c, answer)
  <2>1. c \in Buttons /\ c.asks = asks /\ c.master = b.master
        BY DEF Buttons
  <2>2. SetPolkitAction(b, asks, answer) = Updated(d)
        BY <1>2 DEF SetPolkitAction
  <2> HIDE DEF c
  <2>3. d \in Buttons /\ Fresh(d, answer) /\ d.asks = asks /\ d.master = b.master
        BY <2>1, ComputedOK
  <2> HIDE DEF d
  <2>4. /\ Updated(d) \in Buttons
        /\ Sound(Updated(d)) /\ Exact(Updated(d))
        /\ Updated(d).asks = asks
        /\ Updated(d).result = d.result
        /\ Updated(d).master = b.master
        BY <2>3, UpdatedOK
  <2> QED BY <2>2, <2>3, <2>4 DEF Fresh
<1> QED BY <1>1, <1>2

HIDE DEF Results

-----------------------------------------------------------------------------
(* Lemmas about the operators.                                             *)

LEMMA ToolType == \A kind \in Kinds : Tool(kind) \in Tools
BY DEF Tool

LEMMA AnswerType == TypeOK /\ dialog # NoDialog => Answer \in Results
BY ToolType DEF TypeOK, Dialogs

LEMMA NullTypes ==
    /\ Unseen \in [user : Users \cup {NoUser}, system : BOOLEAN, radio : Radios, values : Defaults]
    /\ Unheld \in [uid : Users \cup {NoUser}, flags : [Radios -> BOOLEAN], orig : Defaults, data : Defaults]
    /\ NoButton \in Buttons
    /\ NoDefaults \in Defaults
BY NoButtonOK DEF Unseen, Unheld, NoDefaults, NoFlags, Defaults

(* The radio buttons' flags amount to what the ticked one promises. *)
LEMMA ConstraintsAsPromised ==
    ASSUME NEW flags \in [Radios -> BOOLEAN], NEW radio \in Radios,
           \A r \in Radios : flags[r] <=> r = radio
    PROVE  /\ Constraints(flags) = Promised(radio)
           /\ Constraints(flags) \in SUBSET {"local", "active"}
<1>1. CASE radio = "none"
      BY <1>1 DEF Constraints, Promised
<1>2. CASE radio = "active"
      BY <1>2 DEF Constraints, Promised
<1>3. CASE radio = "console"
      BY <1>3 DEF Constraints, Promised
<1>4. CASE radio = "both"
      BY <1>4 DEF Constraints, Promised
<1> QED BY <1>1, <1>2, <1>3, <1>4

LEMMA UpdateSensitivityOK ==
    ASSUME Answer \in Results, OpenGrant, NEW b \in Buttons,
           NEW u \in Users \cup {NoUser}, Sound(b),
           ~b.asks => dialog.kind = "block"
    PROVE  /\ UpdateSensitivity(b, u) \in Buttons
           /\ Sound(UpdateSensitivity(b, u))
           /\ UpdateSensitivity(b, u).master = (u # NoUser)
           /\ ~UpdateSensitivity(b, u).asks => dialog.kind = "block" /\ u = Self
           /\ Fresh(b, Answer) => Fresh(UpdateSensitivity(b, u), Answer)
<1> DEFINE s == SetSensitive(b, u # NoUser)
           ok == u # NoUser
<1>1. /\ s \in Buttons /\ Sound(s)
      /\ s.asks = b.asks /\ s.result = b.result /\ s.master = ok
      BY SetSensitiveOK
<1>2. CASE dialog.kind = "block"
  <2>1. UpdateSensitivity(b, u) = SetPolkitAction(s, u # Self, Answer)
        BY <1>2 DEF UpdateSensitivity
  <2>2. Fresh(b, Answer) => Fresh(s, Answer)
        BY <1>1 DEF Fresh
  <2> HIDE DEF s
  <2>3. /\ SetPolkitAction(s, u # Self, Answer) \in Buttons
        /\ Sound(SetPolkitAction(s, u # Self, Answer))
        /\ SetPolkitAction(s, u # Self, Answer).asks = (u # Self)
        /\ SetPolkitAction(s, u # Self, Answer).master = s.master
        /\ Fresh(s, Answer) => Fresh(SetPolkitAction(s, u # Self, Answer), Answer)
        BY <1>1, SetPolkitActionOK
  <2> QED BY <1>1, <1>2, <2>1, <2>2, <2>3
<1>3. CASE dialog.kind # "block"
  <2>1. UpdateSensitivity(b, u) = s
        BY <1>3 DEF UpdateSensitivity
  <2> HIDE DEF s
  <2> QED BY <1>1, <1>3, <2>1 DEF Fresh
<1> QED BY <1>2, <1>3

-----------------------------------------------------------------------------
(* The invariant.                                                          *)

LEMMA InitOK == Init => IInv
<1> SUFFICES ASSUME Init PROVE IInv
    OBVIOUS
<1>1. TypeOK
      BY NullTypes DEF Init, TypeOK
<1>2. Mirrors
      BY DEF Init, Mirrors, Unseen, Unheld, NoFlags
<1>3. ButtonFits
      BY DEF Init, ButtonFits, Sound, NoButton, OpenEdit, OpenGrant
<1> QED BY <1>1, <1>2, <1>3 DEF IInv

(* Once the dialog is gone all is well, whichever calls are out. *)
LEMMA DestroyedOK ==
    ASSUME IInv, NEW cs \in [Pending -> Calls \cup {NoCall}], Destroyed(cs),
           UNCHANGED <<selected, permit>>, noted' \in BOOLEAN,
           written' \in Writes \cup {NoWrite}, alive' \in BOOLEAN
    PROVE  IInv'
<1> USE DEF IInv
<1>1. /\ calls' \in [Pending -> Calls \cup {NoCall}]
      /\ \A c \in Pending : calls'[c] # NoCall => ~calls'[c].live
      BY DEF Destroyed, Calls
<1>2. TypeOK'
      BY <1>1, NullTypes DEF TypeOK, Destroyed
<1>3. Mirrors'
      BY DEF Destroyed, Mirrors, Unseen, Unheld, NoFlags
<1>4. ButtonFits'
      BY DEF Destroyed, ButtonFits, Sound, NoButton, OpenEdit, OpenGrant
<1> QED BY <1>2, <1>3, <1>4

LEMMA WriteType == IInv /\ dialog # NoDialog => Write \in Writes \cup {NoWrite}
<1> SUFFICES ASSUME IInv, dialog # NoDialog, Write # NoWrite
             PROVE  Write \in Writes
    OBVIOUS
<1> USE DEF IInv, TypeOK, Mirrors
<1>1. Constraints(held.flags) \in SUBSET {"local", "active"}
      BY ConstraintsAsPromised
<1>2. dialog.kind \in Kinds /\ dialog.action \in Actions
      BY DEF Dialogs
<1>3. Allowed \in BOOLEAN
      BY DEF Allowed
<1> QED BY <1>1, <1>2, <1>3 DEF Write, Writes

LEMMA RespondOK ==
    ASSUME IInv, dialog # NoDialog,
           NEW cs \in [Pending -> Calls \cup {NoCall}], Respond(cs),
           UNCHANGED <<windowVars, alive>>
    PROVE  IInv'
BY WriteType, DestroyedOK DEF Respond, IInv, TypeOK, windowVars

(* Calls may come and go as long as those of living actions are the open   *)
(* dialog's.                                                               *)
LEMMA CallsOK ==
    ASSUME IInv, UNCHANGED <<windowVars, dialogVars>>,
           written' = NoWrite, alive' \in BOOLEAN,
           calls' \in [Pending -> Calls \cup {NoCall}],
           \A c \in Pending : calls'[c] # NoCall /\ calls'[c].live
              => dialog # NoDialog /\ calls'[c].tool = Tool(dialog.kind)
    PROVE  IInv'
<1> USE DEF IInv, windowVars, dialogVars
<1>1. TypeOK'
      BY DEF TypeOK, Tool
<1>2. Mirrors' /\ ButtonFits'
      BY DEF Mirrors, ButtonFits, Fresh, OpenEdit, OpenGrant
<1> QED BY <1>1, <1>2

LEMMA WithoutOK ==
    ASSUME IInv, NEW c \in Pending
    PROVE  /\ Without(c) \in [Pending -> Calls \cup {NoCall}]
           /\ \A e \in Pending : Without(c)[e] # NoCall /\ Without(c)[e].live
                => dialog # NoDialog /\ Without(c)[e].tool = Tool(dialog.kind)
BY DEF IInv, TypeOK, Without, Tool

LEMMA AuthStartOK ==
    ASSUME dialog \in Dialogs, NEW c \in Pending,
           NEW cs \in [Pending -> Calls \cup {NoCall}],
           \A e \in Pending : cs[e] # NoCall /\ cs[e].live
              => dialog # NoDialog /\ cs[e].tool = Tool(dialog.kind),
           AuthStart(cs, c)
    PROVE  /\ calls' \in [Pending -> Calls \cup {NoCall}]
           /\ \A e \in Pending : calls'[e] # NoCall /\ calls'[e].live
                => dialog # NoDialog /\ calls'[e].tool = Tool(dialog.kind)
<1> DEFINE new == [tool |-> Tool(dialog.kind), live |-> TRUE, outcome |-> "asked"]
<1>1. dialog # NoDialog /\ Tool(dialog.kind) \in Tools
      BY ToolType DEF Dialogs
<1>2. new \in Calls /\ new.tool = Tool(dialog.kind)
      BY <1>1 DEF Calls
<1>3. calls' = [cs EXCEPT ![c] = new] \/ calls' = cs
      BY DEF AuthStart
<1> HIDE DEF new
<1> QED BY <1>1, <1>2, <1>3

(* A change of the widgets that leaves the calls alone. *)
LEMMA ChangesOK == IInv /\ Changes => IInv'
<1> SUFFICES ASSUME IInv, Changes PROVE IInv'
    OBVIOUS
<1> USE DEF IInv
<1>1. /\ UNCHANGED <<windowVars, dialog, calls, alive>>
      /\ written' = NoWrite
      /\ dialog \in Dialogs
      BY DEF Changes, ComboboxChanged, ShowSystemUsersToggled, RadioToggled,
         EditImplComboChanged, OpenGrant, OpenEdit, TypeOK, windowVars
<1>2. ASSUME button' \in Buttons, seen' \in [user : Users \cup {NoUser}, system : BOOLEAN, radio : Radios, values : Defaults],
             held' \in [uid : Users \cup {NoUser}, flags : [Radios -> BOOLEAN], orig : Defaults, data : Defaults]
      PROVE  TypeOK'
      BY <1>1, <1>2 DEF TypeOK, windowVars
<1>3. ASSUME NEW u \in Users, ComboboxChanged(u) PROVE IInv'
  <2> DEFINE b == UpdateSensitivity(button, u)
  <2>1. /\ b \in Buttons /\ Sound(b)
        /\ b.master = (u # NoUser)
        /\ ~b.asks => dialog.kind = "block" /\ u = Self
        /\ Fresh(button, Answer) => Fresh(b, Answer)
        BY <1>3, AnswerType, UpdateSensitivityOK DEF ComboboxChanged, TypeOK, ButtonFits, OpenGrant
  <2>2. button' = b /\ OpenGrant
        BY <1>3 DEF ComboboxChanged
  <2> HIDE DEF b
  <2>3. TypeOK'
        BY <1>2, <1>3, <2>1, <2>2 DEF ComboboxChanged, TypeOK
  <2>4. Mirrors'
        BY <1>3 DEF ComboboxChanged, Mirrors, TypeOK
  <2>5. held'.uid = u /\ (b.master <=> held'.uid # NoUser)
        BY <1>3, <2>1 DEF ComboboxChanged, TypeOK
  <2>6. ButtonFits'
        BY <1>1, <2>1, <2>2, <2>5 DEF ButtonFits, Fresh, OpenEdit, OpenGrant, windowVars
  <2> QED BY <2>3, <2>4, <2>6
<1>4. CASE ShowSystemUsersToggled
  <2> DEFINE a == UpdateSensitivity(button, Root)
             b == UpdateSensitivity(a, NoUser)
  <2>1. /\ a \in Buttons /\ Sound(a)
        /\ ~a.asks => dialog.kind = "block"
        /\ Fresh(button, Answer) => Fresh(a, Answer)
        BY <1>4, AnswerType, UpdateSensitivityOK DEF ShowSystemUsersToggled, TypeOK, ButtonFits, OpenGrant
  <2>2. button' = b
        BY <1>4 DEF ShowSystemUsersToggled
  <2> HIDE DEF a
  <2>3. /\ b \in Buttons /\ Sound(b)
        /\ b.master = FALSE
        /\ ~b.asks => dialog.kind = "block" /\ NoUser = Self
        /\ Fresh(a, Answer) => Fresh(b, Answer)
        BY <1>4, <2>1, AnswerType, UpdateSensitivityOK DEF ShowSystemUsersToggled, TypeOK, OpenGrant
  <2> HIDE DEF b
  <2>4. TypeOK'
        BY <1>2, <1>4, <2>2, <2>3 DEF ShowSystemUsersToggled, TypeOK
  <2>5. Mirrors'
        BY <1>4 DEF ShowSystemUsersToggled, Mirrors, TypeOK
  <2>6. held'.uid = NoUser
        BY <1>4 DEF ShowSystemUsersToggled, TypeOK
  <2>7. ButtonFits'
        BY <1>1, <1>4, <2>1, <2>2, <2>3, <2>6
           DEF ShowSystemUsersToggled, ButtonFits, Fresh, OpenEdit, OpenGrant, windowVars
  <2> QED BY <2>4, <2>5, <2>7
<1>5. ASSUME NEW r \in Radios, RadioToggled(r) PROVE IInv'
  <2>1. /\ seen' = [seen EXCEPT !.radio = r]
        /\ held' = [held EXCEPT !.flags[seen.radio] = FALSE, !.flags[r] = TRUE]
        /\ r # seen.radio
        /\ button' = button
        BY <1>5 DEF RadioToggled
  <2>2. TypeOK'
        BY <1>2, <2>1 DEF TypeOK
  <2>3. Mirrors'
        BY <2>1 DEF Mirrors, TypeOK
  <2>4. held'.uid = held.uid /\ held'.data = held.data /\ held'.orig = held.orig
        BY <2>1 DEF TypeOK
  <2>5. ButtonFits'
        BY <1>1, <2>1, <2>4 DEF ButtonFits, Fresh, OpenEdit, OpenGrant, windowVars
  <2> QED BY <2>2, <2>3, <2>5
<1>6. ASSUME NEW p \in Places, NEW v \in Values, EditImplComboChanged(p, v) PROVE IInv'
  <2> DEFINE m == held'.data # held.orig
             b == SetSensitive(button, m)
  <2>1. /\ b \in Buttons /\ Sound(b)
        /\ b.asks = button.asks /\ b.result = button.result /\ b.master = m
        BY SetSensitiveOK DEF TypeOK, ButtonFits
  <2>2. button' = b /\ OpenEdit
        BY <1>6 DEF EditImplComboChanged
  <2> HIDE DEF b
  <2>3. /\ seen' = [seen EXCEPT !.values[p] = v]
        /\ held' = [held EXCEPT !.data[p] = v]
        BY <1>6 DEF EditImplComboChanged
  <2>4. TypeOK'
        BY <1>2, <2>1, <2>2, <2>3 DEF TypeOK, Defaults
  <2>5. Mirrors'
        BY <2>3 DEF Mirrors, TypeOK
  <2>6. held'.uid = held.uid /\ held'.orig = held.orig
        BY <2>3 DEF TypeOK
  <2>7. ButtonFits'
        BY <1>1, <2>1, <2>2, <2>6 DEF ButtonFits, Fresh, OpenEdit, OpenGrant, windowVars
  <2> QED BY <2>4, <2>5, <2>7
<1> QED BY <1>3, <1>4, <1>5, <1>6 DEF Changes

LEMMA OpensOK == IInv /\ Opens => IInv'
<1> SUFFICES ASSUME IInv, Opens PROVE IInv'
    OBVIOUS
<1> USE DEF IInv
<1>1. \A kind \in Kinds : LET b == NewButton(permit[Tool(kind)])
                          IN /\ b \in Buttons /\ Sound(b)
                             /\ Fresh(b, permit[Tool(kind)])
                             /\ b.asks /\ ~b.master
      BY ToolType, NewButtonOK DEF TypeOK
<1>2. ASSUME NEW kind \in Kinds, BlockGrantDo(kind) PROVE IInv'
  <2>1. dialog' \in Dialogs
        BY <1>2 DEF BlockGrantDo, Dialogs, TypeOK
  <2>2. TypeOK'
        BY <1>1, <1>2, <2>1, NullTypes DEF BlockGrantDo, TypeOK, windowVars
  <2>3. Mirrors'
        BY <1>2 DEF BlockGrantDo, Mirrors, Unseen, Unheld, NoFlags
  <2>4. held'.uid = NoUser /\ dialog'.kind = kind
        BY <1>2 DEF BlockGrantDo, Unheld
  <2>5. ButtonFits'
        BY <1>1, <1>2, <2>1, <2>4 DEF BlockGrantDo, ButtonFits, Sound, Fresh, OpenEdit, OpenGrant, windowVars
  <2> QED BY <2>2, <2>3, <2>5
<1>3. ASSUME NEW defaults \in [Places -> Values], EditImplClicked(defaults) PROVE IInv'
  <2>1. dialog' \in Dialogs /\ defaults \in Defaults
        BY <1>3 DEF EditImplClicked, Dialogs, Defaults, TypeOK
  <2>2. TypeOK'
        BY <1>1, <1>3, <2>1, NullTypes DEF EditImplClicked, TypeOK, windowVars
  <2>3. Mirrors'
        BY <1>3 DEF EditImplClicked, Mirrors, Unseen, Unheld, NoFlags
  <2>4. held'.orig = held'.data /\ dialog'.kind = "edit"
        BY <1>3 DEF EditImplClicked, Unheld
  <2>5. ButtonFits'
        BY <1>1, <1>3, <2>1, <2>4 DEF EditImplClicked, ButtonFits, Sound, Fresh, OpenEdit, OpenGrant, windowVars
  <2> QED BY <2>2, <2>3, <2>5
<1> QED BY <1>2, <1>3 DEF Opens

LEMMA NextOK == IInv /\ [Next]_vars => IInv'
<1> SUFFICES ASSUME IInv, [Next]_vars PROVE IInv'
    OBVIOUS
<1> USE DEF IInv
<1>1. ASSUME NEW a \in Actions \cup {NoAction}, SelectionMoves(a) PROVE IInv'
  <2>1. TypeOK'
        BY <1>1 DEF SelectionMoves, TypeOK, dialogVars
  <2>2. Mirrors' /\ ButtonFits'
        BY <1>1 DEF SelectionMoves, Mirrors, ButtonFits, Fresh, OpenEdit, OpenGrant, dialogVars
  <2> QED BY <2>1, <2>2
<1>2. ASSUME NEW t \in Tools, NEW r \in Results, PermitChanged(t, r) PROVE IInv'
  <2>1. TypeOK'
        BY <1>2 DEF PermitChanged, TypeOK, dialogVars
  <2>2. Mirrors' /\ ButtonFits'
        BY <1>2 DEF PermitChanged, Mirrors, ButtonFits, OpenEdit, OpenGrant, dialogVars
  <2> QED BY <2>1, <2>2
<1>3. ASSUME NEW c \in Pending, AgentRefuses(c) PROVE IInv'
  <2> DEFINE new == [calls[c] EXCEPT !.outcome = "refused"]
  <2>1. new \in Calls /\ new.live = calls[c].live /\ new.tool = calls[c].tool
        BY <1>3 DEF AgentRefuses, TypeOK, Calls
  <2>2. calls' = [calls EXCEPT ![c] = new] /\ calls[c] # NoCall
        BY <1>3 DEF AgentRefuses
  <2> HIDE DEF new
  <2>3. /\ calls' \in [Pending -> Calls \cup {NoCall}]
        /\ \A e \in Pending : calls'[e] # NoCall /\ calls'[e].live
              => dialog # NoDialog /\ calls'[e].tool = Tool(dialog.kind)
        BY <2>1, <2>2 DEF TypeOK, Tool
  <2> QED BY <1>3, <2>3, CallsOK DEF AgentRefuses, TypeOK
<1>4. ASSUME NEW c \in Pending, AgentGrants(c) PROVE IInv'
  <2> DEFINE new == [calls[c] EXCEPT !.outcome = "gained"]
  <2>1. /\ new \in Calls /\ new.live = calls[c].live /\ new.tool = calls[c].tool
        /\ calls[c].tool \in Tools
        BY <1>4 DEF AgentGrants, TypeOK, Calls
  <2>2. /\ calls' = [calls EXCEPT ![c] = new] /\ calls[c] # NoCall
        /\ permit' = [permit EXCEPT ![calls[c].tool] = "yes"]
        /\ noted' = (noted \/ permit[calls[c].tool] # "yes")
        /\ UNCHANGED <<selected, dialogVars, alive>> /\ written' = NoWrite
        BY <1>4 DEF AgentGrants
  <2> HIDE DEF new
  <2>3. TypeOK'
        BY <2>1, <2>2 DEF TypeOK, Tool, Results, dialogVars
  <2>4. ~noted' => permit' = permit
        BY <2>2 DEF TypeOK
  <2>5. Mirrors' /\ ButtonFits'
        BY <2>2, <2>4 DEF Mirrors, ButtonFits, Fresh, OpenEdit, OpenGrant, dialogVars
  <2> QED BY <2>3, <2>5
<1>5. CASE ConfigChanged
  <2>1. CASE dialog = NoDialog
    <3>1. TypeOK'
          BY <1>5, <2>1 DEF ConfigChanged, TypeOK
    <3>2. Mirrors' /\ ButtonFits'
          BY <1>5, <2>1 DEF ConfigChanged, Mirrors, ButtonFits, OpenEdit, OpenGrant
    <3> QED BY <3>1, <3>2
  <2>2. CASE dialog # NoDialog
    <3> DEFINE a == Computed(button, Answer)
               b == Updated(a)
    <3>1. /\ a \in Buttons /\ Fresh(a, Answer)
          /\ a.asks = button.asks /\ a.master = button.master
          BY <2>2, AnswerType, ComputedOK DEF TypeOK, Dialogs
    <3>2. button' = b
          BY <1>5, <2>2 DEF ConfigChanged
    <3> HIDE DEF a
    <3>3. /\ b \in Buttons /\ Sound(b)
          /\ b.asks = button.asks /\ b.master = button.master /\ b.result = a.result
          BY <3>1, UpdatedOK
    <3> HIDE DEF b
    <3>4. TypeOK'
          BY <1>5, <3>2, <3>3 DEF ConfigChanged, TypeOK
    <3>5. Mirrors' /\ ButtonFits'
          BY <1>5, <2>2, <3>1, <3>2, <3>3
             DEF ConfigChanged, Mirrors, ButtonFits, Fresh, OpenEdit, OpenGrant
    <3> QED BY <3>4, <3>5
  <2> QED BY <2>1, <2>2
<1>6. CASE Opens
      BY <1>6, OpensOK
<1>7. CASE Changes
      BY <1>7, ChangesOK
<1>8. CASE Cancel
      BY <1>8, DestroyedOK DEF Cancel, windowVars, TypeOK
<1>9. ASSUME NEW c \in Pending, ClickAsks(c) PROVE IInv'
  <2>1. dialog \in Dialogs
        BY <1>9 DEF ClickAsks, ButtonFits, NoButton, TypeOK
  <2>2. /\ calls' \in [Pending -> Calls \cup {NoCall}]
        /\ \A e \in Pending : calls'[e] # NoCall /\ calls'[e].live
              => dialog # NoDialog /\ calls'[e].tool = Tool(dialog.kind)
        BY <1>9, <2>1, AuthStartOK DEF ClickAsks, TypeOK, Tool
  <2> QED BY <1>9, <2>2, CallsOK DEF ClickAsks, TypeOK
<1>10. CASE ClickResponds
      BY <1>10, RespondOK DEF ClickResponds, TypeOK
<1>11. ASSUME NEW c \in Pending, AnswerRefused(c) PROVE IInv'
      BY <1>11, WithoutOK, CallsOK DEF AnswerRefused, TypeOK
<1>12. ASSUME NEW c \in Pending, AnswerAstray(c) PROVE IInv'
      BY <1>12, WithoutOK, CallsOK DEF AnswerAstray, TypeOK
<1>13. ASSUME NEW c \in Pending, AnswerGained(c) PROVE IInv'
  <2> DEFINE b == Computed(button, Answer)
  <2>1. dialog # NoDialog /\ dialog \in Dialogs
        BY <1>13 DEF AnswerGained, Answered, TypeOK
  <2>2. /\ b \in Buttons /\ Fresh(b, Answer) /\ b.asks = button.asks
        /\ b.master = button.master /\ b.sensitive = button.sensitive
        BY <2>1, AnswerType, ComputedOK DEF TypeOK
  <2>3. CASE b.result = "auth"
    <3>1. /\ IF b.sensitive THEN AuthStart(Without(c), c) ELSE calls' = Without(c)
          /\ button' = b
          /\ written' = NoWrite
          /\ UNCHANGED <<windowVars, dialog, seen, held, alive>>
          BY <1>13, <2>3 DEF AnswerGained
    <3> HIDE DEF b
    <3>2. /\ calls' \in [Pending -> Calls \cup {NoCall}]
          /\ \A e \in Pending : calls'[e] # NoCall /\ calls'[e].live
                => dialog # NoDialog /\ calls'[e].tool = Tool(dialog.kind)
          BY <2>1, <3>1, WithoutOK, AuthStartOK
    <3>3. TypeOK'
          BY <2>2, <3>1, <3>2 DEF TypeOK, Tool, windowVars
    <3>4. Mirrors' /\ ButtonFits'
          BY <2>1, <2>2, <2>3, <3>1
             DEF Mirrors, ButtonFits, Sound, Fresh, OpenEdit, OpenGrant, windowVars
    <3> QED BY <3>3, <3>4
  <2>4. CASE b.result # "auth"
        BY <1>13, <2>1, <2>4, WithoutOK, RespondOK DEF AnswerGained
  <2> QED BY <2>3, <2>4
<1>14. CASE UNCHANGED vars
  <2>1. TypeOK'
        BY <1>14 DEF vars, windowVars, dialogVars, TypeOK
  <2>2. Mirrors' /\ ButtonFits'
        BY <1>14 DEF vars, windowVars, dialogVars, Mirrors, ButtonFits, Fresh, OpenEdit, OpenGrant
  <2> QED BY <2>1, <2>2
<1> QED BY <1>1, <1>2, <1>3, <1>4, <1>5, <1>6, <1>7, <1>8, <1>9, <1>10, <1>11, <1>12, <1>13, <1>14
        DEF Next, Answers

(* The invariant holds in every reachable state. *)
THEOREM Invariance == Spec => []IInv
BY InitOK, NextOK, PTL DEF Spec

-----------------------------------------------------------------------------
(* What follows.                                                           *)

(* The variables have their types, and the calls of living actions are     *)
(* those of the open dialog.                                               *)
THEOREM TypeCorrect == Spec => []TypeOK
<1>1. IInv => TypeOK
      BY DEF IInv
<1> QED BY <1>1, Invariance, PTL

(* The button of a dialog is never offered with nothing to write. *)
THEOREM OffersWhenComplete == Spec => []OfferedWhenComplete
<1>1. IInv => OfferedWhenComplete
  <2> SUFFICES ASSUME IInv, button.sensitive
               PROVE  /\ dialog # NoDialog
                      /\ IF dialog.kind = "edit" THEN seen.values # held.orig ELSE seen.user # NoUser
      BY DEF OfferedWhenComplete
  <2> USE DEF IInv
  <2>1. button.master /\ dialog # NoDialog
        BY DEF ButtonFits, Sound, NoButton
  <2>2. dialog.kind \in Kinds
        BY <2>1 DEF TypeOK, Dialogs
  <2> QED BY <2>1, <2>2 DEF ButtonFits, OpenEdit, OpenGrant, Mirrors
<1> QED BY <1>1, Invariance, PTL

(* Only the two ways a dialog ends with GTK_RESPONSE_OK write anything. *)
LEMMA WriteSteps ==
    ASSUME IInv, Next, written' # NoWrite
    PROVE  /\ dialog # NoDialog
           /\ written' = Write
           /\ \/ button.sensitive /\ button.result # "auth"
              \/ Computed(button, Answer).result # "auth"
<1>1. ~ \/ \E a \in Actions \cup {NoAction} : SelectionMoves(a)
        \/ \E t \in Tools, r \in Results : PermitChanged(t, r)
        \/ \E c \in Pending : AgentRefuses(c) \/ AgentGrants(c)
        \/ ConfigChanged
      BY DEF SelectionMoves, PermitChanged, AgentRefuses, AgentGrants, ConfigChanged
<1>2. ~ (Opens \/ Changes \/ Cancel)
      BY DEF Opens, BlockGrantDo, EditImplClicked, Changes, ComboboxChanged,
         ShowSystemUsersToggled, RadioToggled, EditImplComboChanged, Cancel
<1>3. ~ \E c \in Pending : ClickAsks(c) \/ AnswerRefused(c) \/ AnswerAstray(c)
      BY DEF ClickAsks, AnswerRefused, AnswerAstray
<1>4. ClickResponds \/ \E c \in Pending : AnswerGained(c)
      BY ONLY <1>1, <1>2, <1>3, Next DEF Next, Answers
<1>5. CASE ClickResponds
      BY <1>5 DEF ClickResponds, Respond
<1>6. ASSUME NEW c \in Pending, AnswerGained(c)
      PROVE  /\ dialog # NoDialog
             /\ written' = Write
             /\ Computed(button, Answer).result # "auth"
  <2>1. dialog # NoDialog
        BY <1>6 DEF AnswerGained, Answered, IInv, TypeOK
  <2> QED BY <1>6, <2>1 DEF AnswerGained, Respond
<1> QED BY <1>4, <1>5, <1>6

(* A dialog writes what it displays when it closes. *)
THEOREM WritesAsShown == Spec => WritesWhatIsShown
<1>1. IInv /\ [Next]_vars
      => [written' # NoWrite =>
            /\ dialog # NoDialog
            /\ written'.kind = dialog.kind /\ written'.action = dialog.action
            /\ written'.uid = seen.user
            /\ dialog.kind # "edit" => seen.user # NoUser
            /\ written'.constraints = Promised(seen.radio)
            /\ written'.values = seen.values]_vars
  <2> SUFFICES ASSUME IInv, Next, written' # NoWrite
               PROVE  /\ dialog # NoDialog
                      /\ written'.kind = dialog.kind /\ written'.action = dialog.action
                      /\ written'.uid = seen.user
                      /\ dialog.kind # "edit" => seen.user # NoUser
                      /\ written'.constraints = Promised(seen.radio)
                      /\ written'.values = seen.values
      OBVIOUS
  <2>1. dialog # NoDialog /\ written' = Write /\ Write # NoWrite
        BY WriteSteps
  <2>2. Constraints(held.flags) = Promised(seen.radio)
        BY ConstraintsAsPromised DEF IInv, TypeOK, Mirrors
  <2>3. held.uid = seen.user /\ held.data = seen.values
        BY DEF IInv, Mirrors
  <2> QED BY <2>1, <2>2, <2>3 DEF Write
<1> QED BY <1>1, Invariance, PTL DEF Spec, WritesWhatIsShown

(* Nothing is tried unasked that needs an authentication. *)
THEOREM AlwaysAsksFirst == Spec => AsksFirst
<1>1. IInv /\ [Next]_vars
      => [written' # NoWrite /\ ~written'.allowed
            => noted \/ permit[Tool(dialog.kind)] = "no"]_vars
  <2> SUFFICES ASSUME IInv, Next, written' # NoWrite, ~written'.allowed, ~noted
               PROVE  permit[Tool(dialog.kind)] = "no"
      OBVIOUS
  <2> USE DEF IInv
  <2>1. dialog # NoDialog /\ written' = Write /\ Write # NoWrite
        BY WriteSteps
  <2>2. ~Allowed
        BY <2>1 DEF Write
  <2>3. dialog.kind \in Kinds /\ permit[Tool(dialog.kind)] \in Results
        BY <2>1, ToolType DEF TypeOK, Dialogs
  <2>4. button.asks
        BY <2>1, <2>2 DEF ButtonFits, Allowed
  <2>5. button.result = permit[Tool(dialog.kind)]
        BY <2>1, <2>4 DEF ButtonFits, Fresh
  <2>6. Computed(button, Answer).result = permit[Tool(dialog.kind)]
        BY <2>1, <2>3, <2>4, AnswerType, ComputedOK DEF TypeOK, Fresh
  <2>7. permit[Tool(dialog.kind)] # "auth"
    <3> HIDE DEF Answer
    <3>1. button.result # "auth" \/ Computed(button, Answer).result # "auth"
          BY WriteSteps
    <3> QED BY <2>5, <2>6, <3>1
  <2> QED BY <2>2, <2>3, <2>7 DEF Allowed, Results
<1> QED BY <1>1, Invariance, PTL DEF Spec, AsksFirst

(* A call of a living action that is over was answered. *)
LEMMA OverSteps ==
    ASSUME IInv, Next, NEW c \in Pending, Answered(c, "gained"), calls'[c] = NoCall
    PROVE  \/ \E d \in Pending : AnswerGained(d)
           \/ ClickResponds
           \/ Cancel
<1> USE DEF IInv, Answered
<1>0. calls \in [Pending -> Calls \cup {NoCall}]
      BY DEF TypeOK
<1>1. ~ \/ \E a \in Actions \cup {NoAction} : SelectionMoves(a)
        \/ \E t \in Tools, r \in Results : PermitChanged(t, r)
        \/ ConfigChanged
      BY DEF SelectionMoves, PermitChanged, ConfigChanged
<1>2. ~ (Opens \/ Changes)
      BY DEF Opens, BlockGrantDo, EditImplClicked, Changes, ComboboxChanged,
         ShowSystemUsersToggled, RadioToggled, EditImplComboChanged
<1>3. ASSUME NEW d \in Pending, AgentRefuses(d) \/ AgentGrants(d) PROVE FALSE
      BY <1>0, <1>3 DEF AgentRefuses, AgentGrants
<1>4. ASSUME NEW d \in Pending, ClickAsks(d) PROVE FALSE
      BY <1>0, <1>4 DEF ClickAsks, AuthStart
<1>5. ASSUME NEW d \in Pending, AnswerRefused(d) \/ AnswerAstray(d) PROVE FALSE
      BY <1>0, <1>5 DEF AnswerRefused, AnswerAstray, Without
<1> QED BY ONLY <1>1, <1>2, <1>3, <1>4, <1>5, Next DEF Next, Answers

(* A gained authentication completes what the user clicked for. *)
THEOREM CompletesWhenGained == Spec => GainedCompletes
<1>1. IInv /\ [Next]_vars
      => [\A c \in Pending :
            /\ Answered(c, "gained")
            /\ calls'[c] = NoCall
            /\ permit[calls[c].tool] = "yes"
            => /\ dialog' = NoDialog
               /\ dialog.kind = "edit" \/ seen.user # NoUser => written' # NoWrite]_vars
  <2> SUFFICES ASSUME IInv, Next, NEW c \in Pending, Answered(c, "gained"),
                      calls'[c] = NoCall, permit[calls[c].tool] = "yes"
               PROVE  /\ dialog' = NoDialog
                      /\ dialog.kind = "edit" \/ seen.user # NoUser => written' # NoWrite
      OBVIOUS
  <2> USE DEF IInv
  <2>1. dialog # NoDialog /\ calls[c].tool = Tool(dialog.kind) /\ calls[c] \in Calls
        BY DEF Answered, TypeOK, Tool
  <2>2. calls'[c] \notin Calls
        BY NullsOK
  <2>3. ASSUME Respond(calls) \/ \E d \in Pending : Respond(Without(d))
        PROVE  /\ dialog' = NoDialog
               /\ dialog.kind = "edit" \/ seen.user # NoUser => written' # NoWrite
    <3>1. dialog' = NoDialog /\ written' = Write
          BY <2>3 DEF Respond, Destroyed
    <3>2. ASSUME dialog.kind = "edit" \/ seen.user # NoUser PROVE Write # NoWrite
      <4>1. dialog.kind \in Kinds /\ dialog.action \in Actions
            BY <2>1 DEF TypeOK, Dialogs
      <4>2. Constraints(held.flags) \in SUBSET {"local", "active"}
            BY ConstraintsAsPromised DEF TypeOK, Mirrors
      <4>3. Allowed \in BOOLEAN
            BY DEF Allowed
      <4>4. Write \in Writes
            BY <3>2, <4>1, <4>2, <4>3 DEF Write, Writes, TypeOK, Mirrors
      <4> QED BY <4>4
    <3> QED BY <3>1, <3>2
  <2>4. ASSUME NEW d \in Pending, AnswerGained(d) PROVE Respond(Without(d))
    <3>1. dialog.kind \in Kinds
          BY <2>1 DEF TypeOK, Dialogs
    <3>2. Computed(button, Answer).result = "yes"
          BY <2>1, <3>1, AnswerType, ComputedOK DEF TypeOK, Fresh
    <3> QED BY <2>4, <3>2 DEF AnswerGained
  <2>5. CASE Cancel
    <3>1. calls'[c] = [calls[c] EXCEPT !.live = FALSE]
          BY <2>5 DEF Cancel, Destroyed, Answered
    <3>2. [calls[c] EXCEPT !.live = FALSE] \in Calls
          BY <2>1 DEF Calls
    <3> QED BY <2>2, <3>1, <3>2
  <2> QED BY <2>3, <2>4, <2>5, OverSteps DEF ClickResponds
<1> QED BY <1>1, Invariance, PTL DEF Spec, GainedCompletes

=============================================================================
