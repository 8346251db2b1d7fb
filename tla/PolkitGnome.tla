----------------------------- MODULE PolkitGnome -----------------------------
(***************************************************************************)
(* The client library policykit-gnome/polkit-gnome: objects that show what *)
(* PolicyKit says of one of its actions and, when the user activates them, *)
(* obtain its authorization (PolKitGnomeAction) or obtain and give it up   *)
(* in turn (PolKitGnomeToggleAction).  All objects of the program track    *)
(* the same PolicyKit action.  An action of this module is one dispatch of *)
(* the program's main loop: a click, an answer of the agent, the signal    *)
(* that PolicyKit's configuration or database changed.                     *)
(* The objects have the looks of polkit_gnome_action_new_default and       *)
(* polkit_gnome_toggle_action_new_default.                                 *)
(***************************************************************************)
EXTENDS Naturals, Sequences

CONSTANTS
    Plain,      \* the PolKitGnomeActions that are not toggle actions
    Toggle,     \* the PolKitGnomeToggleActions
    MaxCalls,   \* bound: calls of the agent an object may have made at a time
    Elsewhere,  \* what other programs and administrators may make of the database
    Faults,     \* what may fail: "bus", the session bus, "revoke", a revocation
    NoObject

Object   == Plain \cup Toggle
Results  == {"no", "auth", "yes"}
Looks    == Results \cup {"blocked", "underway"}
Database == [policy : Results, granted : BOOLEAN, blocked : BOOLEAN]
Answers  == [of : Object, gained : BOOLEAN]

ASSUME ConstantsOK ==
    /\ Plain \cap Toggle = {}
    /\ MaxCalls \in Nat \ {0}
    /\ Elsewhere \subseteq Database
    /\ Faults \subseteq {"bus", "revoke"}
    /\ NoObject \notin Object

VARIABLES
    db,       \* the implicit result, and whether the user was granted or blocked
    noted,    \* a change of db has not been signalled to the program yet
    cached,   \* pk_result of each object
    look,     \* the set of labels and sensitivity each object displays
    active,   \* active of each toggle action
    authing,  \* am_authenticating of each toggle action
    waiting,  \* calls each object made and the agent has not taken up
    serving,  \* the object the agent authenticates for
    answers,  \* the agent's answers on their way
    emitted   \* the plain objects whose activate signal reached the program in this step

objVars   == <<cached, look, active, authing>>
agentVars == <<waiting, serving, answers>>
vars      == <<db, noted, objVars, agentVars, emitted>>

TypeOK ==
    /\ db \in Database
    /\ noted \in BOOLEAN
    /\ cached \in [Object -> Results]
    /\ look \in [Object -> Looks]
    /\ \A o \in Plain : look[o] # "underway"
    /\ active \in [Toggle -> BOOLEAN]
    /\ authing \in [Toggle -> BOOLEAN]
    /\ waiting \in [Object -> Nat]
    /\ serving \in Object \cup {NoObject}
    /\ answers \in Seq(Answers)
    /\ emitted \subseteq Plain

(* What PolicyKit answers; an unknown result is treated like "no". *)
Result(d) ==
    IF d.blocked THEN "no" ELSE IF d.granted THEN "yes" ELSE d.policy

(* _update_action *)
Look(d) == IF Result(d) = "no" /\ d.blocked THEN "blocked" ELSE Result(d)

(* Whether an object with this look can be activated. *)
Sensitive(o) == look[o] \in IF o \in Toggle THEN {"blocked", "auth", "yes", "underway"}
                                           ELSE {"auth", "yes"}

Outstanding(o) ==
    waiting[o] + (IF serving = o THEN 1 ELSE 0)
      + Len(SelectSeq(answers, LAMBDA a : a.of = o))

Init ==
    /\ db \in {d \in Database : ~d.granted}
    /\ noted = FALSE
    /\ cached = [o \in Object |-> Result(db)]
    /\ look = [o \in Object |-> Look(db)]
    /\ active = [t \in Toggle |-> Result(db) = "yes"]
    /\ authing = [t \in Toggle |-> FALSE]
    /\ waiting = [o \in Object |-> 0]
    /\ serving = NoObject
    /\ answers = <<>>
    /\ emitted = {}

-----------------------------------------------------------------------------
(* The agent and everybody else, who change the database.                  *)

Changed(d) ==
    /\ db' = d
    /\ noted' = (noted \/ d # db)

ChangedElsewhere ==
    /\ \E d \in Elsewhere \ {db} : Changed(d)
    /\ emitted' = {}
    /\ UNCHANGED <<objVars, agentVars>>

AgentBegins(o) ==
    /\ waiting[o] > 0
    /\ serving = NoObject
    /\ waiting' = [waiting EXCEPT ![o] = @ - 1]
    /\ serving' = o
    /\ emitted' = {}
    /\ UNCHANGED <<db, noted, objVars, answers>>

(* A call during another authentication is not granted. *)
AgentRefuses(o) ==
    /\ waiting[o] > 0
    /\ serving # NoObject
    /\ waiting' = [waiting EXCEPT ![o] = @ - 1]
    /\ answers' = Append(answers, [of |-> o, gained |-> FALSE])
    /\ emitted' = {}
    /\ UNCHANGED <<db, noted, objVars, serving>>

AgentAnswers(gained) ==
    /\ serving # NoObject
    /\ serving' = NoObject
    /\ answers' = Append(answers, [of |-> serving, gained |-> gained])
    /\ Changed([db EXCEPT !.granted = @ \/ gained])
    /\ emitted' = {}
    /\ UNCHANGED <<objVars, waiting>>

-----------------------------------------------------------------------------
(* _auth_start: polkit_gnome_auth_obtain calls the agent, unless there is  *)
(* no session bus, which leaves a warning and no answer to come.           *)

AuthStart(o) ==
    \/ waiting' = [waiting EXCEPT ![o] = @ + 1]
    \/ "bus" \in Faults /\ UNCHANGED waiting

(* polkit_gnome_action_activate, with the result r the object has cached *)
ActionActivate(o, r) ==
    \/ r = "auth" /\ AuthStart(o) /\ emitted' = {}
    \/ r # "auth" /\ emitted' = {o} /\ UNCHANGED waiting

(* _auth_foreach_revoke for every entry of the user, and the negative      *)
(* authorization granted to one who has none.                              *)
Revoked == [db EXCEPT !.granted = FALSE, !.blocked = FALSE]
Blocked == [db EXCEPT !.blocked = TRUE]

(* What polkit_gnome_toggle_action_activate may make of the database. *)
GivesUp(t) ==
    LET goal == IF Result(db) = "yes" /\ ~authing[t]
                THEN IF db.granted THEN Revoked ELSE Blocked
                ELSE IF db.blocked THEN Revoked ELSE db
    IN {goal} \cup IF "revoke" \in Faults THEN {db} ELSE {}

(* An authentication begins when PolicyKit asks for one, or does once the  *)
(* user's block is revoked; not after an authorization was given up.       *)
Authenticates(d) == Result(db) # "yes" /\ Result(d) = "auth"

(* The part of a toggle action's activation that leaves the object. *)
ToggleActivate(t, d) ==
    /\ d \in GivesUp(t)
    /\ Changed(d)
    /\ IF Authenticates(d) THEN AuthStart(t) ELSE UNCHANGED waiting

(* polkit_gnome_toggle_action_activate *)
ClickToggle(t) ==
    /\ Sensitive(t)
    /\ Outstanding(t) < MaxCalls
    /\ \E d \in GivesUp(t) :
          /\ ToggleActivate(t, d)
          /\ cached' = [cached EXCEPT ![t] = Result(d)]
          /\ look' = [look EXCEPT ![t] = IF Authenticates(d) THEN "underway" ELSE Look(d)]
          /\ active' = [active EXCEPT ![t] =
                          IF "yes" \in {Result(db), Result(d)} /\ ~authing[t]
                          THEN Result(d) = "yes" ELSE @]
          /\ authing' = [authing EXCEPT ![t] = @ \/ Authenticates(d)]
    /\ emitted' = {}
    /\ UNCHANGED <<serving, answers>>

(* The user clicks a proxy of a plain action: what is cached decides. *)
ClickAction(o) ==
    /\ Sensitive(o)
    /\ Outstanding(o) < MaxCalls
    /\ ActionActivate(o, cached[o])
    /\ UNCHANGED <<db, noted, objVars, serving, answers>>

(* polkit_gnome_action_get_polkit_result, called by the program. *)
GetPolkitResult(o) ==
    /\ cached' = [cached EXCEPT ![o] = Result(db)]
    /\ look' = [look EXCEPT ![o] = Look(db)]
    /\ emitted' = {}
    /\ UNCHANGED <<db, noted, active, authing, agentVars>>

\* Mutant: the looks change only if the result did.
ConfigChangedIfChanged ==
    /\ noted
    /\ noted' = FALSE
    /\ cached' = [o \in Object |-> Result(db)]
    /\ look' = [o \in Object |-> IF cached[o] = Result(db) THEN look[o] ELSE Look(db)]
    /\ active' = [t \in Toggle |-> IF cached[t] = Result(db) THEN active[t]
                                                            ELSE Result(db) = "yes"]
    /\ emitted' = {}
    /\ UNCHANGED <<db, authing, agentVars>>

\* Mutant: the result is displayed, not remembered.
ConfigChangedNotCached ==
    /\ noted
    /\ noted' = FALSE
    /\ look' = [o \in Object |-> Look(db)]
    /\ emitted' = {}
    /\ UNCHANGED <<db, cached, active, authing, agentVars>>

(* _pk_config_changed of every object; a toggle action that was told of a  *)
(* change updates itself.                                                  *)
ConfigChanged ==
    /\ noted
    /\ noted' = FALSE
    /\ cached' = [o \in Object |-> Result(db)]
    /\ look' = [o \in Object |-> Look(db)]
    /\ active' = [t \in Toggle |-> IF cached[t] = Result(db) THEN active[t]
                                                            ELSE Result(db) = "yes"]
    /\ emitted' = {}
    /\ UNCHANGED <<db, authing, agentVars>>

-----------------------------------------------------------------------------
(* _notify_callback and _show_dialog_cb: an answer of the agent.           *)

Answer == answers # <<>> /\ answers' = Tail(answers) /\ UNCHANGED serving

ActionAnswered(o, gained) ==
    /\ Answer
    /\ Head(answers) = [of |-> o, gained |-> gained]
    /\ cached' = IF gained THEN [cached EXCEPT ![o] = Result(db)] ELSE cached
    /\ IF gained /\ Sensitive(o) THEN ActionActivate(o, Result(db))
                                 ELSE emitted' = {} /\ UNCHANGED waiting
    /\ UNCHANGED <<db, noted, look, active, authing>>

\* Mutant: the end of an authentication does not update the toggle action.
ToggleAnsweredOnly(t, gained) ==
    /\ Answer
    /\ Head(answers) = [of |-> t, gained |-> gained]
    /\ \E d \in GivesUp(t) \cup {db} :
          /\ IF gained /\ Sensitive(t) THEN ToggleActivate(t, d)
                                       ELSE Changed(db) /\ d = db /\ UNCHANGED waiting
          /\ cached' = [cached EXCEPT ![t] = Result(d)]
          /\ look' = [look EXCEPT ![t] = Look(d)]
    /\ authing' = [authing EXCEPT ![t] = FALSE]
    /\ emitted' = {}
    /\ UNCHANGED active

(* ... and polkit_gnome_toggle_action_auth_end. *)
ToggleAnswered(t, gained) ==
    /\ Answer
    /\ Head(answers) = [of |-> t, gained |-> gained]
    /\ \E d \in GivesUp(t) \cup {db} :
          /\ IF gained /\ Sensitive(t) THEN ToggleActivate(t, d)
                                       ELSE Changed(db) /\ d = db /\ UNCHANGED waiting
          /\ cached' = [cached EXCEPT ![t] = Result(d)]
          /\ look' = [look EXCEPT ![t] = Look(d)]
          /\ active' = [active EXCEPT ![t] = Result(d) = "yes"]
    /\ authing' = [authing EXCEPT ![t] = FALSE]
    /\ emitted' = {}

-----------------------------------------------------------------------------
Answered ==
    \E gained \in BOOLEAN :
        \/ \E o \in Plain : ActionAnswered(o, gained)
        \/ \E t \in Toggle : ToggleAnswered(t, gained)

Next ==
    \/ ChangedElsewhere
    \/ \E o \in Object : AgentBegins(o) \/ AgentRefuses(o)
    \/ \E gained \in BOOLEAN : AgentAnswers(gained)
    \/ \E o \in Plain : ClickAction(o) \/ GetPolkitResult(o)
    \/ \E t \in Toggle : ClickToggle(t)
    \/ ConfigChanged
    \/ Answered

Spec == Init /\ [][Next]_vars

(* The program's main loop serves what is ready. *)
FairSpec == Spec /\ WF_vars(ConfigChanged) /\ WF_vars(Answered)

-----------------------------------------------------------------------------
(* Properties                                                              *)

(* The program gets the activate signal of an action only when PolicyKit   *)
(* allows it, or the signal of a change that it no longer does is still on *)
(* its way: whatever the agent answers, a result that was cached or        *)
(* computed long ago is never acted upon.                                  *)
ActivatedWhenAuthorized ==
    [][\A o \in Plain : o \in emitted' => Result(db) = "yes" \/ noted]_vars

(* An authentication the user passed lets the activation through that      *)
(* began it, provided that it still can be activated.                      *)
GainedActivates ==
    [][\A o \in Plain :
          /\ Answer
          /\ Head(answers) = [of |-> o, gained |-> TRUE]
          /\ Result(db) = "yes"
          /\ Sensitive(o)
          => o \in emitted']_vars

(* An action is activated when its user may do what it stands for: not     *)
(* without, and always at the end of an authentication.                    *)
ActivatesExactly == ActivatedWhenAuthorized /\ GainedActivates

(* Except while it authenticates, a toggle action is active when the user  *)
(* is known to be authorized and inactive when an authentication is known  *)
(* to be needed, in whichever way that came to be known.                   *)
ToggleAgrees ==
    \A t \in Toggle :
        ~authing[t] => /\ cached[t] = "yes" => active[t]
                       /\ cached[t] = "auth" => ~active[t]

(* A user who blocked herself can undo it by the next click: but for a     *)
(* change not signalled yet, the toggle action is sensitive.               *)
BlockCanBeUndone == \A t \in Toggle : db.blocked /\ ~noted => Sensitive(t)

(* Objects get to show what PolicyKit says, however often it changes, but  *)
(* for a toggle action that authenticates.                                 *)
ShowsResult ==
    \A o \in Object :
        []<>(look[o] = Look(db) \/ (o \in Toggle /\ authing[o]))

=============================================================================
