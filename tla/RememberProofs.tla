--------------------------- MODULE RememberProofs ---------------------------
(***************************************************************************)
(* Theorems about Remember, for any actions, either agent or both, and any *)
(* offers.                                                                 *)
(***************************************************************************)
EXTENDS Remember, TLAPS

(* Who declined is on the list that decides the default. *)
Listed == declined \subseteq blacklist

IInv == TypeOK /\ ChoiceIsMade /\ Listed /\ (phase # "idle" => action \in Action)

USE ConstantsOK DEF Keeps, Types

-----------------------------------------------------------------------------
(* Lemmas about the operators.                                             *)

(* Every click leaves the dialog with boxes that are ticked or not, and    *)
(* the radio buttons with one that is on, or without that of the session.  *)
LEMMA ToggleGroupOK ==
    ASSUME box \in Boxes
    PROVE  /\ ToggleGroup \in Boxes
           /\ IF ToggleGroup.bgRemember THEN ToggleGroup.rbSession # ToggleGroup.rbAlways
                                        ELSE ~ToggleGroup.rbSession
BY DEF Boxes, ToggleGroup

(* An override changes nothing but how long a grant is kept.               *)
LEMMA OverrideType ==
    ASSUME offer \in Types, box \in Boxes
    PROVE  Override.keep \in Keeps
<1>1. offer.keep \in Keeps
      OBVIOUS
<1>2. GnomeOverride.keep \in Keeps
      BY <1>1 DEF GnomeOverride
<1>3. KdeOverride.keep \in Keeps
      BY <1>1 DEF KdeOverride
<1> QED BY <1>2, <1>3 DEF Override

(* ... and never makes it longer than was offered.                         *)
LEMMA OverrideNarrows ==
    ASSUME offer \in Types, box \in Boxes,
           Override.keep \in {"session", "always"}
    PROVE  offer.keep = "always" \/ Override.keep = offer.keep
<1>1. offer.keep \in Keeps
      OBVIOUS
<1>2. GnomeOverride.keep \in {"session", "always"}
      => offer.keep = "always" \/ GnomeOverride.keep = offer.keep
      BY <1>1 DEF GnomeOverride, GetRememberAlways
<1>3. KdeOverride.keep \in {"session", "always"}
      => offer.keep = "always" \/ KdeOverride.keep = offer.keep
      BY <1>1 DEF KdeOverride
<1> QED BY <1>2, <1>3 DEF Override

(* The override follows a ticked dialog.                                   *)
LEMMA OverrideFollows ==
    ASSUME offer \in Types, box \in Boxes, agent \in {"gnome", "kde"},
           ChoiceIsMade, Ticked
    PROVE  Override.keep = IF ForSession THEN "session" ELSE "always"
<1>1. CASE agent = "gnome"
  <2>1. GnomeOverride.keep = IF ForSession THEN "session" ELSE "always"
        BY <1>1 DEF GnomeOverride, GetRememberSession, GetRememberAlways, Ticked,
           ForSession
  <2> QED BY <1>1, <2>1 DEF Override
<1>2. CASE agent = "kde"
  <2>1. KdeOverride.keep = IF ForSession THEN "session" ELSE "always"
        BY <1>2 DEF KdeOverride, Ticked, ForSession, ChoiceIsMade, Boxes
  <2> QED BY <1>2, <2>1 DEF Override
<1> QED BY <1>1, <1>2

-----------------------------------------------------------------------------
(* The invariant.                                                          *)

LEMMA InitOK == Init => IInv
BY DEF Init, IInv, TypeOK, ChoiceIsMade, Listed, NewDialog, Boxes

LEMMA NextOK == IInv /\ [Next]_vars => IInv'
<1> SUFFICES ASSUME IInv, [Next]_vars PROVE IInv'
    OBVIOUS
<1> USE DEF IInv, TypeOK, ChoiceIsMade, Listed, dialogVars
<1>1. ASSUME NEW a \in Action, NEW g \in Agents, Begin(a, g) PROVE IInv'
  <2>1. NewDialog(g = "gnome" /\ DefaultRemember(a)) \in Boxes
        BY DEF NewDialog, Boxes, DefaultRemember
  <2> QED BY <1>1, <2>1 DEF Begin, NewDialog
<1>2. ASSUME NEW t \in Offers, Type(t) PROVE IInv'
      BY <1>2 DEF Type
<1>3. CASE Accept \/ Denied
      BY <1>3 DEF Accept, Denied
<1>4. CASE TryAgain
  <2>1. /\ NewDialog(FALSE) \in Boxes
        /\ ~NewDialog(FALSE).bgRemember /\ ~NewDialog(FALSE).rbSession
        BY DEF NewDialog, Boxes
  <2> QED BY <1>4, <2>1 DEF TryAgain
<1>5. CASE Record
  <2>1. Override.keep \in Keeps
        BY OverrideType
  <2> QED BY <1>5, <2>1 DEF Record
<1>6. CASE Gained
  <2>1. offer.keep \in {"session", "always"} /\ ~box.remember => Declines
        BY DEF Declines, GetRememberAlways, GetRememberSession
  <2> QED BY <1>6, <2>1 DEF Gained
<1>7. CASE GnomeClick
      BY <1>7 DEF GnomeClick, Clicked, Boxes
<1>8. CASE KdeClick
  <2>1. ASSUME Clicked([box EXCEPT !.cbRemember = ~@]) PROVE IInv'
        BY <2>1 DEF Clicked, Boxes
  <2>2. ASSUME Clicked(ToggleGroup) PROVE IInv'
        BY <2>2, ToggleGroupOK DEF Clicked
  <2>3. ASSUME NEW always \in BOOLEAN,
               box.bgRemember,
               Clicked([box EXCEPT !.rbSession = ~always, !.rbAlways = always])
        PROVE  IInv'
        BY <2>3 DEF Clicked, Boxes
  <2> QED BY <1>8, <2>1, <2>2, <2>3 DEF KdeClick
<1>9. CASE SessionEnds
      BY <1>9 DEF SessionEnds
<1>10. ASSUME NEW a \in Action, Revoke(a) PROVE IInv'
      BY <1>10 DEF Revoke
<1>11. CASE SetRetain \/ UNCHANGED vars
      BY <1>11 DEF SetRetain, vars
<1> QED BY <1>1, <1>2, <1>3, <1>4, <1>5, <1>6, <1>7, <1>8, <1>9, <1>10, <1>11
        DEF Next, Authenticate

(* The invariant holds in every reachable state. *)
THEOREM Invariance == Spec => []IInv
BY InitOK, NextOK, PTL DEF Spec

-----------------------------------------------------------------------------
(* What follows.                                                           *)

(* The variables have their types. *)
THEOREM TypeCorrect == Spec => []TypeOK
<1>1. IInv => TypeOK
      BY DEF IInv
<1> QED BY <1>1, Invariance, PTL

(* No authorization is kept for longer than was offered, by either agent.  *)
THEOREM KeepsNoLonger == Spec => NeverWidened
<1>1. IInv /\ [Next]_vars
      => [\A a \in Action :
            kept'[a] # kept[a] /\ kept'[a] # "no"
            => a = action /\ (offer.keep = "always" \/ kept'[a] = offer.keep)]_vars
  <2> SUFFICES ASSUME IInv, Next, NEW a \in Action,
                      kept'[a] # kept[a], kept'[a] # "no"
               PROVE  a = action /\ (offer.keep = "always" \/ kept'[a] = offer.keep)
      OBVIOUS
  <2> USE DEF IInv, TypeOK
  <2>1. kept' # kept
        OBVIOUS
  <2>2. \/ Record
        \/ SessionEnds
        \/ \E b \in Action : Revoke(b)
    <3>1. ASSUME GnomeClick \/ KdeClick PROVE kept' = kept
          BY <3>1 DEF GnomeClick, KdeClick, Clicked
    <3>2. ASSUME NEW b \in Action, NEW g \in Agents, Begin(b, g) PROVE kept' = kept
          BY <3>2 DEF Begin
    <3>3. ASSUME NEW t \in Offers, Type(t) PROVE kept' = kept
          BY <3>3 DEF Type
    <3>4. ASSUME Accept \/ TryAgain \/ Denied \/ Gained \/ SetRetain
          PROVE  kept' = kept
          BY <3>4 DEF Accept, TryAgain, Denied, Gained, SetRetain
    <3> QED BY ONLY <2>1, <3>1, <3>2, <3>3, <3>4, Next DEF Next, Authenticate
  <2>3. Record
        BY <2>2 DEF SessionEnds, Revoke
  <2>4. a = action /\ kept'[a] = Override.keep /\ Override.keep # "one_shot"
        BY <2>3 DEF Record
  <2>5. Override.keep \in {"session", "always"}
        BY <2>4, OverrideType
  <2> QED BY <2>4, <2>5, OverrideNarrows
<1> QED BY <1>1, Invariance, PTL DEF Spec, NeverWidened

(* With "remember" ticked both agents keep what the dialog says.           *)
THEOREM KeepsWhatIsTicked == Spec => KeptAsTicked
<1>1. IInv /\ [Next]_vars
      => [Record /\ Ticked
          => kept'[action] = IF ForSession THEN "session" ELSE "always"]_vars
  <2> SUFFICES ASSUME IInv, Record, Ticked
               PROVE  kept'[action] = IF ForSession THEN "session" ELSE "always"
      OBVIOUS
  <2>1. Override.keep = IF ForSession THEN "session" ELSE "always"
        BY OverrideFollows DEF IInv, TypeOK
  <2> QED BY <2>1 DEF Record, IInv, TypeOK
<1> QED BY <1>1, Invariance, PTL DEF Spec, KeptAsTicked

(* What was not ticked is not kept, but for a button "Always" that was     *)
(* left on in the KDE dialog.                                              *)
THEOREM KeepsOnlyTicked == Spec => KeptIfTicked
<1>1. IInv /\ [Next]_vars
      => [Record /\ ~Ticked /\ kept'[action] # "no"
          => agent = "kde" /\ offer.keep = "always" /\ box.rbAlways]_vars
  <2> SUFFICES ASSUME IInv, Record, ~Ticked, kept'[action] # "no"
               PROVE  agent = "kde" /\ offer.keep = "always" /\ box.rbAlways
      OBVIOUS
  <2>1. /\ offer.keep \in Keeps /\ agent \in {"gnome", "kde"}
        /\ box.remember \in BOOLEAN /\ box.cbRemember \in BOOLEAN /\ box.bgRemember \in BOOLEAN
        BY DEF IInv, TypeOK, Boxes
  <2>2. Override.keep \notin {"no", "one_shot"}
        BY DEF Record, IInv, TypeOK
  <2>3. GnomeOverride.keep \in {"no", "one_shot"} \/ agent # "gnome"
        BY <2>1 DEF GnomeOverride, GetRememberSession, GetRememberAlways, Ticked, IInv, TypeOK
  <2>4. agent = "kde" /\ KdeOverride.keep \notin {"no", "one_shot"}
        BY <2>1, <2>2, <2>3 DEF Override
  <2>5. CASE offer.keep = "always"
        BY <2>1, <2>4, <2>5 DEF KdeOverride, Ticked, ChoiceIsMade, IInv, TypeOK, Boxes
  <2>6. CASE offer.keep # "always"
        BY <2>1, <2>4, <2>6 DEF KdeOverride, Ticked, IInv, TypeOK
  <2> QED BY <2>4, <2>5, <2>6
<1> QED BY <1>1, Invariance, PTL DEF Spec, KeptIfTicked

(* Who declined is not asked again with "remember" ticked.                 *)
THEOREM RemembersDeclined == Spec => DeclinedStaysUnticked
<1>1. IInv /\ [Next]_vars
      => [phase = "idle" /\ phase' = "starting" /\ action' \in declined
          => ~box'.remember]_vars
  <2> SUFFICES ASSUME IInv, Next, phase = "idle", phase' = "starting",
                      action' \in declined
               PROVE  ~box'.remember
      OBVIOUS
  <2>1. PICK a \in Action, g \in Agents : Begin(a, g)
        BY DEF Next, Authenticate, Type, Accept, TryAgain, Denied, Record, Gained,
           GnomeClick, KdeClick, Clicked, SetRetain, SessionEnds, Revoke, dialogVars
  <2>2. a \in blacklist
        BY <2>1 DEF Begin, IInv, Listed
  <2> QED BY <2>1, <2>2 DEF Begin, NewDialog, DefaultRemember
<1> QED BY <1>1, Invariance, PTL DEF Spec, DeclinedStaysUnticked

(* No authorization is kept for longer than was offered, and otherwise     *)
(* than as the dialog says, but for the button the KDE agent leaves on.    *)
THEOREM KeepsAsAgreed == Spec => KeepsWhatWasAgreed
BY KeepsNoLonger, KeepsWhatIsTicked, KeepsOnlyTicked, PTL DEF KeepsWhatWasAgreed

=============================================================================
