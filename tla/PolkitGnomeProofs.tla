-------------------------- MODULE PolkitGnomeProofs --------------------------
(***************************************************************************)
(* Theorems about PolkitGnome, for any number of objects and calls,        *)
(* whatever others make of the database and whatever fails; and, after     *)
(* them, about ActionLooks, for any actions, PolicyKit actions, calls and  *)
(* changes.  The two model the same library; no theorem is about both.     *)
(***************************************************************************)
EXTENDS PolkitGnome, ActionLooks, SequenceTheorems, TLAPS

(* Between changes that were not signalled, every object knows and shows   *)
(* what PolicyKit says.                                                    *)
Synced ==
    ~noted => \A o \in Object :
                 /\ cached[o] = Result(db)
                 /\ look[o] = Look(db) \/ (o \in Toggle /\ look[o] = "underway")

IInv == TypeOK /\ ToggleAgrees /\ Synced

-----------------------------------------------------------------------------
(* PolicyKit's answer is one of three, and it is displayed with one look.  *)
LEMMA ResultType ==
    ASSUME NEW d \in Database
    PROVE  /\ Result(d) \in Results
           /\ Look(d) \in Looks
           /\ Look(d) # "underway"
BY DEF Database, Result, Look, Results, Looks

(* Giving up makes a database of a database. *)
LEMMA GivesUpType ==
    ASSUME db \in Database, NEW t \in Toggle
    PROVE  GivesUp(t) \subseteq Database
BY DEF GivesUp, Revoked, Blocked, Database

(* A call is made or not. *)
LEMMA AuthStartType ==
    ASSUME waiting \in [Object -> Nat], NEW o \in Object,
           AuthStart(o) \/ UNCHANGED waiting
    PROVE  waiting' \in [Object -> Nat]
BY DEF AuthStart

(* The activation of a plain action makes a call or reaches the program.   *)
LEMMA ActivateType ==
    ASSUME waiting \in [Object -> Nat], NEW o \in Plain, NEW r,
           ActionActivate(o, r)
    PROVE  waiting' \in [Object -> Nat] /\ emitted' \subseteq Plain
BY AuthStartType DEF ActionActivate, Object

(* Initially every object was just constructed. *)
LEMMA InitOK == Init => IInv
<1> SUFFICES ASSUME Init PROVE IInv
    OBVIOUS
<1>1. db \in Database
      BY DEF Init
<1>2. Result(db) \in Results /\ Look(db) \in Looks /\ Look(db) # "underway"
      BY <1>1, ResultType
<1>3. TypeOK
  <2>1. cached \in [Object -> Results] /\ look \in [Object -> Looks]
        BY <1>2 DEF Init
  <2>2. \A o \in Plain : look[o] # "underway"
        BY <1>2 DEF Init, Object
  <2>3. /\ active \in [Toggle -> BOOLEAN]
        /\ authing \in [Toggle -> BOOLEAN]
        /\ waiting \in [Object -> Nat]
        /\ answers \in Seq(Answers)
        BY DEF Init
  <2> QED BY <1>1, <2>1, <2>2, <2>3 DEF Init, TypeOK
<1>4. ToggleAgrees
      BY DEF Init, ToggleAgrees, Object
<1>5. Synced
      BY DEF Init, Synced
<1> QED BY <1>3, <1>4, <1>5 DEF IInv

(* Others change the database, the agent takes up and answers calls. *)
LEMMA OthersOK ==
    ASSUME IInv,
           \/ ChangedElsewhere
           \/ \E o \in Object : AgentBegins(o) \/ AgentRefuses(o)
           \/ \E gained \in BOOLEAN : AgentAnswers(gained)
    PROVE  IInv'
<1> USE DEF IInv
<1>1. CASE ChangedElsewhere
  <2>1. db' \in Database
        BY <1>1, ConstantsOK DEF ChangedElsewhere, Changed
  <2>2. noted'
        BY <1>1 DEF ChangedElsewhere, Changed
  <2> QED BY <1>1, <2>1, <2>2
          DEF ChangedElsewhere, TypeOK, ToggleAgrees, Synced, objVars, agentVars
<1>2. ASSUME NEW o \in Object, AgentBegins(o) PROVE IInv'
      BY <1>2 DEF AgentBegins, TypeOK, ToggleAgrees, Synced, objVars
<1>3. ASSUME NEW o \in Object, AgentRefuses(o) PROVE IInv'
  <2>1. [of |-> o, gained |-> FALSE] \in Answers
        BY DEF Answers
  <2>2. answers' \in Seq(Answers) /\ waiting' \in [Object -> Nat]
        BY <1>3, <2>1 DEF AgentRefuses, TypeOK
  <2> QED BY <1>3, <2>2 DEF AgentRefuses, TypeOK, ToggleAgrees, Synced, objVars
<1>4. ASSUME NEW gained \in BOOLEAN, AgentAnswers(gained) PROVE IInv'
  <2>1. [of |-> serving, gained |-> gained] \in Answers
        BY <1>4 DEF AgentAnswers, TypeOK, Answers
  <2>2. answers' \in Seq(Answers)
        BY <1>4, <2>1 DEF AgentAnswers, TypeOK
  <2>3. db' \in Database /\ noted' \in BOOLEAN /\ (~noted' => ~noted /\ db' = db)
        BY <1>4 DEF AgentAnswers, TypeOK, Changed, Database
  <2> QED BY <1>4, <2>2, <2>3 DEF AgentAnswers, TypeOK, ToggleAgrees, Synced, objVars
<1> QED BY <1>1, <1>2, <1>3, <1>4

(* The user clicks a plain action, or the program asks for its result. *)
LEMMA PlainOK ==
    ASSUME IInv, NEW o \in Plain, ClickAction(o) \/ GetPolkitResult(o)
    PROVE  IInv'
<1> USE DEF IInv
<1>1. CASE ClickAction(o)
  <2>1. waiting' \in [Object -> Nat] /\ emitted' \subseteq Plain
        BY <1>1, ActivateType DEF ClickAction, TypeOK
  <2> QED BY <1>1, <2>1 DEF ClickAction, TypeOK, ToggleAgrees, Synced, objVars
<1>2. CASE GetPolkitResult(o)
  <2>1. o \in Object /\ o \notin Toggle
        BY ConstantsOK DEF Object
  <2>2. Result(db) \in Results /\ Look(db) \in Looks /\ Look(db) # "underway"
        BY ResultType DEF TypeOK
  <2>3. TypeOK'
        BY <1>2, <2>1, <2>2 DEF GetPolkitResult, TypeOK, agentVars, Object
  <2>4. ToggleAgrees'
        BY <1>2, <2>1 DEF GetPolkitResult, TypeOK, ToggleAgrees, Object
  <2>5. Synced'
        BY <1>2, <2>1 DEF GetPolkitResult, TypeOK, Synced, Result, Look
  <2> QED BY <2>3, <2>4, <2>5
<1> QED BY <1>1, <1>2

(* The user clicks a toggle action. *)
LEMMA ToggleOK ==
    ASSUME IInv, NEW t \in Toggle, ClickToggle(t)
    PROVE  IInv'
<1> USE DEF IInv
<1>1. PICK d \in GivesUp(t) :
          /\ ToggleActivate(t, d)
          /\ cached' = [cached EXCEPT ![t] = Result(d)]
          /\ look' = [look EXCEPT ![t] = IF Authenticates(d) THEN "underway" ELSE Look(d)]
          /\ active' = [active EXCEPT ![t] =
                          IF "yes" \in {Result(db), Result(d)} /\ ~authing[t]
                          THEN Result(d) = "yes" ELSE @]
          /\ authing' = [authing EXCEPT ![t] = @ \/ Authenticates(d)]
      BY DEF ClickToggle
<1>2. t \in Object /\ t \notin Plain
      BY ConstantsOK DEF Object
<1>3. d \in Database
      BY GivesUpType DEF TypeOK
<1>4. Result(d) \in Results /\ Look(d) \in Looks
      BY <1>3, ResultType
<1>5. db' = d /\ noted' \in BOOLEAN /\ (~noted' => ~noted /\ d = db)
      BY <1>1 DEF ToggleActivate, Changed, TypeOK
<1>6. waiting' \in [Object -> Nat]
      BY <1>1, <1>2, AuthStartType DEF ToggleActivate, TypeOK
<1>7. TypeOK'
  <2>1. cached' \in [Object -> Results] /\ look' \in [Object -> Looks]
        BY <1>1, <1>2, <1>4 DEF TypeOK, Looks
  <2>2. \A o \in Plain : look'[o] # "underway"
        BY <1>1, <1>2 DEF TypeOK, Object
  <2>3. active' \in [Toggle -> BOOLEAN] /\ authing' \in [Toggle -> BOOLEAN]
    <3>1. (authing[t] \/ Authenticates(d)) \in BOOLEAN
          BY DEF TypeOK, Authenticates
    <3> QED BY <1>1, <3>1 DEF TypeOK
  <2> QED BY <1>3, <1>5, <1>6, <2>1, <2>2, <2>3 DEF ClickToggle, TypeOK
<1>8. ToggleAgrees'
  <2> SUFFICES ASSUME NEW u \in Toggle, ~authing'[u]
               PROVE  /\ cached'[u] = "yes" => active'[u]
                      /\ cached'[u] = "auth" => ~active'[u]
      BY DEF ToggleAgrees
  <2>1. CASE u # t
        BY <1>1, <2>1 DEF ToggleAgrees, TypeOK, Object
  <2>2. CASE u = t
    <3>1. ~authing[t] /\ ~Authenticates(d)
          BY <1>1, <2>2 DEF TypeOK
    <3>2. cached'[t] = Result(d)
          BY <1>1, <1>2 DEF TypeOK
    <3>3. CASE "yes" \in {Result(db), Result(d)}
      <4>1. active'[t] = (Result(d) = "yes")
            BY <1>1, <3>1, <3>3 DEF TypeOK
      <4> QED BY <2>2, <3>2, <4>1
    <3>4. CASE "yes" \notin {Result(db), Result(d)}
      <4>1. Result(d) = "no"
            BY <1>4, <3>1, <3>4 DEF Authenticates, Results
      <4> QED BY <2>2, <3>2, <4>1
    <3> QED BY <3>3, <3>4
  <2> QED BY <2>1, <2>2
<1>9. Synced'
  <2> SUFFICES ASSUME ~noted', NEW o \in Object
               PROVE  /\ cached'[o] = Result(d)
                      /\ look'[o] = Look(d) \/ (o \in Toggle /\ look'[o] = "underway")
      BY <1>5 DEF Synced, Result, Look
  <2>1. CASE o = t
        BY <1>1, <1>2, <2>1 DEF TypeOK
  <2>2. CASE o # t
        BY <1>1, <1>5, <2>2 DEF Synced, TypeOK
  <2> QED BY <2>1, <2>2
<1> QED BY <1>7, <1>8, <1>9

(* A change is signalled. *)
LEMMA ConfigOK ==
    ASSUME IInv, ConfigChanged
    PROVE  IInv'
<1> USE DEF IInv
<1>1. Result(db) \in Results /\ Look(db) \in Looks /\ Look(db) # "underway"
      BY ResultType DEF TypeOK
<1>2. TypeOK'
      BY <1>1 DEF ConfigChanged, TypeOK, agentVars, Object
<1>3. ToggleAgrees'
      BY DEF ConfigChanged, ToggleAgrees, TypeOK, Object
<1>4. Synced'
      BY DEF ConfigChanged, Synced, Result, Look
<1> QED BY <1>2, <1>3, <1>4

(* An answer reaches the program. *)
LEMMA AnsweredOK ==
    ASSUME IInv, Answered
    PROVE  IInv'
<1> USE DEF IInv
<1>1. Answer => answers' \in Seq(Answers) /\ serving' \in Object \cup {NoObject}
      BY DEF Answer, TypeOK
<1>2. ASSUME NEW o \in Plain, NEW gained \in BOOLEAN, ActionAnswered(o, gained)
      PROVE  IInv'
  <2>1. o \in Object /\ o \notin Toggle
        BY ConstantsOK DEF Object
  <2>2. Result(db) \in Results
        BY ResultType DEF TypeOK
  <2>3. waiting' \in [Object -> Nat] /\ emitted' \subseteq Plain
        BY <1>2, ActivateType DEF ActionAnswered, TypeOK
  <2>4. TypeOK'
        BY <1>1, <1>2, <2>1, <2>2, <2>3 DEF ActionAnswered, TypeOK
  <2>5. ToggleAgrees'
        BY <1>2, <2>1 DEF ActionAnswered, TypeOK, ToggleAgrees, Object
  <2>6. Synced'
        BY <1>2, <2>1 DEF ActionAnswered, TypeOK, Synced, Result, Look
  <2> QED BY <2>4, <2>5, <2>6
<1>3. ASSUME NEW t \in Toggle, NEW gained \in BOOLEAN, ToggleAnswered(t, gained)
      PROVE  IInv'
  <2>1. PICK d \in GivesUp(t) \cup {db} :
            /\ IF gained /\ Sensitive(t) THEN ToggleActivate(t, d)
                                         ELSE Changed(db) /\ d = db /\ UNCHANGED waiting
            /\ cached' = [cached EXCEPT ![t] = Result(d)]
            /\ look' = [look EXCEPT ![t] = Look(d)]
            /\ active' = [active EXCEPT ![t] = Result(d) = "yes"]
        BY <1>3 DEF ToggleAnswered
  <2>2. t \in Object /\ t \notin Plain
        BY ConstantsOK DEF Object
  <2>3. d \in Database
        BY GivesUpType DEF TypeOK
  <2>4. Result(d) \in Results /\ Look(d) \in Looks
        BY <2>3, ResultType
  <2>5. db' = d /\ noted' \in BOOLEAN /\ (~noted' => ~noted /\ d = db)
        BY <2>1 DEF ToggleActivate, Changed, TypeOK
  <2>6. waiting' \in [Object -> Nat]
        BY <2>1, <2>2, AuthStartType DEF ToggleActivate, TypeOK
  <2>7. TypeOK'
    <3>1. cached' \in [Object -> Results] /\ look' \in [Object -> Looks]
          BY <2>1, <2>2, <2>4 DEF TypeOK
    <3>2. \A o \in Plain : look'[o] # "underway"
          BY <2>1, <2>2 DEF TypeOK, Object
    <3>3. active' \in [Toggle -> BOOLEAN] /\ authing' \in [Toggle -> BOOLEAN]
          BY <1>3, <2>1 DEF ToggleAnswered, TypeOK
    <3> QED BY <1>1, <1>3, <2>3, <2>5, <2>6, <3>1, <3>2, <3>3 DEF ToggleAnswered, TypeOK
  <2>8. ToggleAgrees'
    <3> SUFFICES ASSUME NEW u \in Toggle, ~authing'[u]
                 PROVE  /\ cached'[u] = "yes" => active'[u]
                        /\ cached'[u] = "auth" => ~active'[u]
        BY DEF ToggleAgrees
    <3>1. CASE u # t
          BY <1>3, <2>1, <3>1 DEF ToggleAnswered, ToggleAgrees, TypeOK, Object
    <3>2. CASE u = t
      <4>1. cached'[t] = Result(d) /\ active'[t] = (Result(d) = "yes")
            BY <2>1, <2>2 DEF TypeOK
      <4> QED BY <3>2, <4>1
    <3> QED BY <3>1, <3>2
  <2>9. Synced'
    <3> SUFFICES ASSUME ~noted', NEW o \in Object
                 PROVE  /\ cached'[o] = Result(d)
                        /\ look'[o] = Look(d) \/ (o \in Toggle /\ look'[o] = "underway")
        BY <2>5 DEF Synced, Result, Look
    <3>1. CASE o = t
          BY <2>1, <2>2, <3>1 DEF TypeOK
    <3>2. CASE o # t
          BY <2>1, <2>5, <3>2 DEF Synced, TypeOK
    <3> QED BY <3>1, <3>2
  <2> QED BY <2>7, <2>8, <2>9
<1> QED BY <1>2, <1>3 DEF Answered

(* The invariant holds in every reachable state: objects that were told of *)
(* every change know and show PolicyKit's answer, and toggle actions agree *)
(* with what they know.                                                    *)
THEOREM Invariance == Spec => []IInv
<1>1. Init => IInv
      BY InitOK
<1>2. IInv /\ [Next]_vars => IInv'
  <2> SUFFICES ASSUME IInv, [Next]_vars PROVE IInv'
      OBVIOUS
  <2>1. CASE UNCHANGED vars
        BY <2>1 DEF vars, objVars, agentVars, IInv, TypeOK, ToggleAgrees, Synced,
                    Result, Look
  <2>2. CASE Next
        BY <2>2, OthersOK, PlainOK, ToggleOK, ConfigOK, AnsweredOK DEF Next
  <2> QED BY <2>1, <2>2
<1> QED BY <1>1, <1>2, PTL DEF Spec

(* The variables have their types. *)
THEOREM TypeCorrect == Spec => []TypeOK
<1>1. IInv => TypeOK
      BY DEF IInv
<1> QED BY <1>1, Invariance, PTL

(* Toggle actions agree with the result they know. *)
THEOREM TogglesAgree == Spec => []ToggleAgrees
<1>1. IInv => ToggleAgrees
      BY DEF IInv
<1> QED BY <1>1, Invariance, PTL

(* A user can undo the block of her own by the next click. *)
THEOREM UndoesBlock == Spec => []BlockCanBeUndone
<1>1. IInv => BlockCanBeUndone
      BY DEF IInv, Synced, BlockCanBeUndone, Sensitive, Look, Result, Object
<1> QED BY <1>1, Invariance, PTL

(* The program is told of an activation only when PolicyKit allows it or   *)
(* the signal that it no longer does is on its way.                        *)
THEOREM ActivatesWhenAuthorized == Spec => ActivatedWhenAuthorized
<1>1. IInv /\ [Next]_vars
      => [\A o \in Plain : o \in emitted' => Result(db) = "yes" \/ noted]_vars
  <2> SUFFICES ASSUME IInv, Next, NEW o \in Plain, o \in emitted', ~noted
               PROVE  Result(db) = "yes"
      OBVIOUS
  <2>1. o \in Object /\ o \notin Toggle
        BY ConstantsOK DEF Object
  <2>2. cached[o] = Result(db) /\ look[o] = Look(db)
        BY <2>1 DEF IInv, Synced
  <2>3. Sensitive(o) /\ Result(db) # "auth" => Result(db) = "yes"
        BY <2>1, <2>2 DEF Sensitive, Look
  <2>4. ASSUME NEW p \in Plain, NEW r, ActionActivate(p, r)
        PROVE  p = o /\ r # "auth"
        BY <2>4 DEF ActionActivate
  <2>5. ASSUME NEW p \in Plain, ClickAction(p) PROVE Result(db) = "yes"
        BY <2>2, <2>3, <2>4, <2>5 DEF ClickAction
  <2>6. ASSUME NEW p \in Plain, NEW gained \in BOOLEAN, ActionAnswered(p, gained)
        PROVE  Result(db) = "yes"
        BY <2>3, <2>4, <2>6 DEF ActionAnswered
  <2> QED BY <2>5, <2>6 DEF Next, Answered, ChangedElsewhere, AgentBegins, AgentRefuses,
             AgentAnswers, GetPolkitResult, ClickToggle, ConfigChanged, ToggleAnswered
<1> QED BY <1>1, Invariance, PTL DEF Spec, ActivatedWhenAuthorized

(* The activation that began an authentication comes through when it was   *)
(* passed and the object can still be activated.                           *)
THEOREM ActivatesWhenGained == Spec => GainedActivates
<1>1. IInv /\ [Next]_vars
      => [\A o \in Plain :
            /\ Answer
            /\ Head(answers) = [of |-> o, gained |-> TRUE]
            /\ Result(db) = "yes"
            /\ Sensitive(o)
            => o \in emitted']_vars
  <2> SUFFICES ASSUME IInv, Next, NEW o \in Plain, Answer,
                      Head(answers) = [of |-> o, gained |-> TRUE],
                      Result(db) = "yes", Sensitive(o)
               PROVE  o \in emitted'
      OBVIOUS
  <2>1. answers \in Seq(Answers) /\ answers # <<>>
        BY DEF IInv, TypeOK, Answer
  <2>2. answers' # answers
    <3>1. Len(Tail(answers)) # Len(answers)
          BY <2>1, EmptySeq, LenProperties, HeadTailProperties
    <3> QED BY <3>1 DEF Answer
  <2>3. ASSUME NEW a PROVE answers' # Append(answers, a)
    <3>1. Len(Tail(answers)) < Len(answers)
          BY <2>1
    <3>2. Len(Append(answers, a)) = Len(answers) + 1
          BY <2>1
    <3> QED BY <2>1, <3>1, <3>2 DEF Answer
  <2>4. PICK p \in Object, gained \in BOOLEAN :
            \/ p \in Plain /\ ActionAnswered(p, gained)
            \/ p \in Toggle /\ ToggleAnswered(p, gained)
        BY <2>2, <2>3 DEF Next, Answered, Object, ChangedElsewhere, AgentBegins, AgentRefuses,
           AgentAnswers, ClickAction, GetPolkitResult, ClickToggle, ConfigChanged, agentVars
  <2>5. p = o /\ gained = TRUE
        BY <2>4 DEF ActionAnswered, ToggleAnswered
  <2>6. ActionAnswered(o, TRUE)
        BY <2>4, <2>5, ConstantsOK
  <2>7. ActionActivate(o, "yes")
        BY <2>6 DEF ActionAnswered
  <2> QED BY <2>7 DEF ActionActivate
<1> QED BY <1>1, Invariance, PTL DEF Spec, GainedActivates

(* Actions are activated when, and only when, their user may do what they  *)
(* stand for.                                                              *)
THEOREM ActivatesAsItShould == Spec => ActivatesExactly
BY ActivatesWhenAuthorized, ActivatesWhenGained, PTL DEF ActivatesExactly

-----------------------------------------------------------------------------
(* ActionLooks: what the calls make of an action.                          *)

(* What PolicyKit would answer, and an action that knows and shows it.     *)
WouldBe(b) == IF b.pk = NoPk THEN "yes" ELSE ResultDirect(b)
Current(b) == b.result = WouldBe(b) /\ b.shown = Masked(b, LookState(b))

(* An action that shows one of its looks for what it knows. *)
Fits(b) ==
    b.shown \in {Masked(b, s) : s \in IF b.result \in {"auth", "yes"} THEN {b.result}
                                     ELSE {"self_blocked", "no"}}

Decides == decided \in [Pid -> [PkAction -> PolKitResult \ {"unknown"}]]

LEMMA ResultDirectType ==
    ASSUME Decides, NEW b \in ActionType, b.pk # NoPk
    PROVE  ResultDirect(b) \in PolKitResult
<1>1. b.pid \in Pid /\ b.pk \in PkAction
      BY DEF ActionType
<1>2. decided[b.pid][b.pk] \in PolKitResult
      BY <1>1 DEF Decides
<1>3. CASE b.pid \notin alive
      BY <1>3 DEF ResultDirect, PolKitResult
<1>4. CASE b.pid \in alive /\ \E a \in b.sufficient : decided[b.pid][a] = "yes"
      BY <1>4 DEF ResultDirect, PolKitResult
<1>5. CASE b.pid \in alive /\ ~ \E a \in b.sufficient : decided[b.pid][a] = "yes"
      BY <1>2, <1>5 DEF ResultDirect
<1> QED BY <1>3, <1>4, <1>5

LEMMA LookStateType ==
    ASSUME NEW b \in ActionType
    PROVE  /\ LookState(b) \in State
           /\ LookState(b) \in IF b.result \in {"auth", "yes"} THEN {b.result}
                               ELSE {"self_blocked", "no"}
<1>1. CASE b.result \in {"auth", "yes"}
      BY <1>1 DEF LookState, State
<1>2. CASE b.result \notin {"auth", "yes"} /\ b.pk \in blocked
      BY <1>2 DEF LookState, State
<1>3. CASE b.result \notin {"auth", "yes"} /\ b.pk \notin blocked
      BY <1>3 DEF LookState, State
<1> QED BY <1>1, <1>2, <1>3

LEMMA MaskedType ==
    ASSUME NEW b \in ActionType, NEW s \in State
    PROVE  Masked(b, s) \in LookType
<1>1. b.looks[s] \in LookType /\ b.master_visible \in BOOLEAN /\ b.master_sensitive \in BOOLEAN
      BY DEF ActionType
<1> DEFINE l == b.looks[s]
<1> HIDE DEF l
<1>2. [l EXCEPT !.visible = @ /\ b.master_visible, !.sensitive = @ /\ b.master_sensitive] \in LookType
      BY <1>1 DEF LookType, l
<1> QED BY <1>2 DEF Masked, l

(* What _update_action reads it leaves alone. *)
SameBut(b, c) ==
    /\ c.pk = b.pk /\ c.once = b.once /\ c.sufficient = b.sufficient /\ c.pid = b.pid
    /\ c.looks = b.looks /\ c.master_visible = b.master_visible
    /\ c.master_sensitive = b.master_sensitive

LEMMA UpdateOK ==
    ASSUME NEW b \in ActionType
    PROVE  /\ Update(b) \in ActionType
           /\ SameBut(b, Update(b)) /\ Update(b).result = b.result
           /\ Fits(Update(b))
           /\ b.result = WouldBe(b) => Current(Update(b))
<1> DEFINE display == Masked(b, LookState(b))
           u == [b EXCEPT !.shown = display]
<1>1. display \in LookType /\ LookState(b) \in IF b.result \in {"auth", "yes"} THEN {b.result}
                                           ELSE {"self_blocked", "no"}
      BY LookStateType, MaskedType
<1>2. Update(b) = u
      BY DEF Update
<1> HIDE DEF display
<1>3. u \in ActionType /\ SameBut(b, u) /\ u.result = b.result /\ u.shown = display
      BY <1>1 DEF ActionType, SameBut
<1> HIDE DEF u
<1>4. /\ LookState(u) = LookState(b) /\ \A s \in State : Masked(u, s) = Masked(b, s)
      /\ WouldBe(u) = WouldBe(b)
      BY <1>3 DEF LookState, Masked, WouldBe, ResultDirect, SameBut
<1>5. LookState(b) \in State
      BY LookStateType
<1>6. u.shown = Masked(u, LookState(u))
      BY <1>3, <1>4, <1>5 DEF display
<1>7. Fits(u)
      BY <1>1, <1>3, <1>4, <1>6 DEF Fits
<1>8. b.result = WouldBe(b) => Current(u)
      BY <1>3, <1>4, <1>6 DEF Current
<1> QED BY <1>2, <1>3, <1>7, <1>8

LEMMA ComputeOK ==
    ASSUME Decides, NEW b \in ActionType
    PROVE  /\ Compute(b) \in ActionType
           /\ SameBut(b, Compute(b))
           /\ Compute(b).result = WouldBe(Compute(b))
<1> DEFINE r == WouldBe(b)
           c == [b EXCEPT !.result = r]
<1>1. r \in PolKitResult
      BY ResultDirectType DEF WouldBe, PolKitResult
<1>2. Compute(b) = c
      BY DEF Compute, WouldBe
<1> HIDE DEF r
<1>3. c \in ActionType /\ SameBut(b, c) /\ c.result = r
      BY <1>1 DEF ActionType, SameBut
<1> HIDE DEF c
<1>4. WouldBe(c) = WouldBe(b)
      BY <1>3 DEF WouldBe, ResultDirect, SameBut
<1> QED BY <1>2, <1>3, <1>4 DEF r

LEMMA UpdateComputeOK ==
    ASSUME Decides, NEW b \in ActionType
    PROVE  /\ Update(Compute(b)) \in ActionType
           /\ SameBut(b, Update(Compute(b)))
           /\ Fits(Update(Compute(b))) /\ Current(Update(Compute(b)))
<1>1. /\ Compute(b) \in ActionType /\ SameBut(b, Compute(b))
      /\ Compute(b).result = WouldBe(Compute(b))
      BY ComputeOK
<1> QED BY <1>1, UpdateOK DEF SameBut

-----------------------------------------------------------------------------
(* The setters.  An action they leave with a new answer is current; one    *)
(* they leave with its old answer, of the same process and to the same     *)
(* question, is as current as it was.                                      *)

Improves(b, c) ==
    /\ c \in ActionType /\ Fits(c)
    /\ Current(c) \/ (c.pk = b.pk /\ c.pid = b.pid /\ (Current(b) => Current(c)))

LEMMA SetActionOK ==
    ASSUME Decides, NEW b \in ActionType, Fits(b), NEW pk \in PkAction \cup {NoPk}
    PROVE  Improves(b, SetAction(b, pk))
<1> DEFINE c == [b EXCEPT !.once = TRUE, !.pk = pk]
<1>1. c \in ActionType
      BY DEF ActionType
<1>2. SetAction(b, pk) = IF b.once /\ b.pk = pk THEN b ELSE Update(Compute(c))
      BY DEF SetAction
<1> HIDE DEF c
<1>3. Update(Compute(c)) \in ActionType /\ Fits(Update(Compute(c))) /\ Current(Update(Compute(c)))
      BY <1>1, UpdateComputeOK
<1> QED BY <1>2, <1>3 DEF Improves

LEMMA SetSufficientOK ==
    ASSUME Decides, NEW b \in ActionType, NEW as \in SUBSET PkAction
    PROVE  Improves(b, SetSufficient(b, as))
<1> DEFINE c == [b EXCEPT !.sufficient = as]
<1>1. c \in ActionType
      BY DEF ActionType
<1>2. SetSufficient(b, as) = Update(Compute(c))
      BY DEF SetSufficient
<1> HIDE DEF c
<1> QED BY <1>1, <1>2, UpdateComputeOK DEF Improves

LEMMA SetTargetPidOK ==
    ASSUME Decides, NEW b \in ActionType, NEW p \in Pid
    PROVE  Improves(b, SetTargetPid(b, p))
<1> DEFINE c == [b EXCEPT !.pid = p]
<1>1. c \in ActionType
      BY DEF ActionType
<1>2. SetTargetPid(b, p) = Update(Compute(c))
      BY DEF SetTargetPid
<1> HIDE DEF c
<1> QED BY <1>1, <1>2, UpdateComputeOK DEF Improves

(* What is set without a new answer, a master switch or a look. *)
LEMMA UpdateImproves ==
    ASSUME NEW b \in ActionType, NEW c \in ActionType, c.pk = b.pk, c.pid = b.pid,
           c.sufficient = b.sufficient, c.result = b.result
    PROVE  Improves(b, Update(c))
<1>1. WouldBe(c) = WouldBe(b)
      BY DEF WouldBe, ResultDirect
<1>2. Current(b) => c.result = WouldBe(c)
      BY <1>1 DEF Current
<1> QED BY <1>2, UpdateOK DEF Improves, SameBut

LEMMA SetMasterOK ==
    ASSUME NEW b \in ActionType, Fits(b), NEW m \in BOOLEAN
    PROVE  Improves(b, SetVisible(b, m)) /\ Improves(b, SetSensitive(b, m))
<1>1. Improves(b, b)
      BY DEF Improves
<1>2. ASSUME NEW c, c = [b EXCEPT !.master_visible = m] PROVE Improves(b, Update(c))
  <2>1. /\ c \in ActionType /\ c.pk = b.pk /\ c.pid = b.pid
        /\ c.sufficient = b.sufficient /\ c.result = b.result
        BY <1>2 DEF ActionType
  <2> QED BY <2>1, UpdateImproves
<1>3. ASSUME NEW c, c = [b EXCEPT !.master_sensitive = m] PROVE Improves(b, Update(c))
  <2>1. /\ c \in ActionType /\ c.pk = b.pk /\ c.pid = b.pid
        /\ c.sufficient = b.sufficient /\ c.result = b.result
        BY <1>3 DEF ActionType
  <2> QED BY <2>1, UpdateImproves
<1>4. Improves(b, SetVisible(b, m))
      BY <1>1, <1>2 DEF SetVisible
<1>5. Improves(b, SetSensitive(b, m))
      BY <1>1, <1>3 DEF SetSensitive
<1> QED BY <1>4, <1>5

LEMMA SetLookOK ==
    ASSUME NEW b \in ActionType, NEW s \in State, NEW p \in Property
    PROVE  Improves(b, SetLook(b, s, p))
<1> DEFINE l == [b.looks[s] EXCEPT ![p[1]] = p[2]]
           c == [b EXCEPT !.looks[s][p[1]] = p[2]]
<1>1. b.looks \in [State -> LookType]
      BY DEF ActionType
<1>2. \/ \E v \in BOOLEAN : p = <<"visible", v>>
      \/ \E v \in BOOLEAN : p = <<"sensitive", v>>
      \/ \E t \in Text : p = <<"text", t>>
      BY DEF Property
<1>3. l \in LookType
  <2>1. ASSUME NEW k \in LookType PROVE [k EXCEPT ![p[1]] = p[2]] \in LookType
    <3>1. CASE \E v \in BOOLEAN : p = <<"visible", v>>
      <4>1. PICK v \in BOOLEAN : p = <<"visible", v>>
            BY <3>1
      <4>2. p[1] = "visible" /\ p[2] = v
            BY <4>1
      <4>3. [k EXCEPT !.visible = v] \in LookType
            BY DEF LookType
      <4> QED BY <4>2, <4>3
    <3>2. CASE \E v \in BOOLEAN : p = <<"sensitive", v>>
      <4>1. PICK v \in BOOLEAN : p = <<"sensitive", v>>
            BY <3>2
      <4>2. p[1] = "sensitive" /\ p[2] = v
            BY <4>1
      <4>3. [k EXCEPT !.sensitive = v] \in LookType
            BY DEF LookType
      <4> QED BY <4>2, <4>3
    <3>3. CASE \E t \in Text : p = <<"text", t>>
      <4>1. PICK t \in Text : p = <<"text", t>>
            BY <3>3
      <4>2. p[1] = "text" /\ p[2] = t
            BY <4>1
      <4>3. [k EXCEPT !.text = t] \in LookType
            BY DEF LookType
      <4> QED BY <4>2, <4>3
    <3> QED BY <1>2, <3>1, <3>2, <3>3
  <2> QED BY <1>1, <2>1
<1>4. SetLook(b, s, p) = Update(c)
      BY DEF SetLook
<1>5. c = [b EXCEPT !.looks = [b.looks EXCEPT ![s] = l]]
      OBVIOUS
<1> HIDE DEF l, c
<1>6. [b.looks EXCEPT ![s] = l] \in [State -> LookType]
      BY <1>1, <1>3
<1>7. /\ c \in ActionType /\ c.pk = b.pk /\ c.pid = b.pid
      /\ c.sufficient = b.sufficient /\ c.result = b.result
      BY <1>5, <1>6 DEF ActionType
<1> QED BY <1>4, <1>7, UpdateImproves

(* A new action has no look yet, so that its master switches hide nothing. *)
LEMMA ConstructedOK ==
    ASSUME Decides, NEW pk \in PkAction \cup {NoPk}
    PROVE  /\ Constructed(pk) \in ActionType
           /\ Fits(Constructed(pk)) /\ Current(Constructed(pk))
<1> DEFINE b == [pk |-> NoPk, once |-> FALSE, sufficient |-> {}, pid |-> "self",
                 result |-> "unknown", looks |-> [s \in State |-> Unset],
                 master_visible |-> FALSE, master_sensitive |-> FALSE, shown |-> Unset]
           c1 == [b EXCEPT !.once = TRUE, !.pk = pk]
           d1 == Update(Compute(c1))
           c2 == [d1 EXCEPT !.sufficient = {}]
           d2 == Update(Compute(c2))
           c3 == [d2 EXCEPT !.pid = "self"]
           d3 == Update(Compute(c3))
           e  == [d3 EXCEPT !.master_visible = TRUE, !.master_sensitive = TRUE]
<1>1. Constructed(pk) = e
      BY DEF Constructed, SetAction, SetSufficient, SetTargetPid
<1>2. Unset \in LookType
      BY DEF Unset, LookType, Text
<1>3. c1 \in ActionType /\ c1.looks = [s \in State |-> Unset]
      BY <1>2 DEF ActionType, Pid, PolKitResult
<1> HIDE DEF c1
<1>4. d1 \in ActionType /\ d1.looks = [s \in State |-> Unset]
      BY <1>3, UpdateComputeOK DEF SameBut
<1> HIDE DEF d1
<1>5. c2 \in ActionType /\ c2.looks = [s \in State |-> Unset]
      BY <1>4 DEF ActionType
<1> HIDE DEF c2
<1>6. d2 \in ActionType /\ d2.looks = [s \in State |-> Unset]
      BY <1>5, UpdateComputeOK DEF SameBut
<1> HIDE DEF d2
<1>7. c3 \in ActionType /\ c3.looks = [s \in State |-> Unset]
      BY <1>6 DEF ActionType, Pid
<1> HIDE DEF c3
<1>8. d3 \in ActionType /\ d3.looks = [s \in State |-> Unset] /\ Fits(d3) /\ Current(d3)
      BY <1>7, UpdateComputeOK DEF SameBut
<1> HIDE DEF d3
<1>9. /\ e \in ActionType /\ e.looks = [s \in State |-> Unset]
      /\ e.pk = d3.pk /\ e.pid = d3.pid /\ e.sufficient = d3.sufficient
      /\ e.result = d3.result /\ e.shown = d3.shown
      BY <1>8 DEF ActionType
<1> HIDE DEF e
<1>10. ASSUME NEW k \in ActionType, k.looks = [s \in State |-> Unset]
       PROVE  \A s \in State : Masked(k, s) = Unset
  <2>1. k.master_visible \in BOOLEAN /\ k.master_sensitive \in BOOLEAN
        BY DEF ActionType
  <2>2. ASSUME NEW s \in State PROVE Masked(k, s) = Unset
    <3>1. k.looks[s] = Unset
          BY <1>10
    <3>2. /\ Unset.visible = FALSE /\ Unset.sensitive = FALSE
          BY DEF Unset
    <3>3. /\ (Unset.visible /\ k.master_visible) = FALSE
          /\ (Unset.sensitive /\ k.master_sensitive) = FALSE
          BY <3>2
    <3>4. Masked(k, s) = [Unset EXCEPT !.visible = Unset.visible /\ k.master_visible,
                                      !.sensitive = Unset.sensitive /\ k.master_sensitive]
          BY <3>1 DEF Masked
    <3>5. ASSUME NEW x \in LookType, x.visible = FALSE, x.sensitive = FALSE
          PROVE  [x EXCEPT !.visible = FALSE, !.sensitive = FALSE] = x
          BY <3>5 DEF LookType
    <3>6. [Unset EXCEPT !.visible = FALSE, !.sensitive = FALSE] = Unset
          BY <1>2, <3>2, <3>5
    <3> QED BY <3>3, <3>4, <3>6, Zenon
  <2> QED BY <2>2
<1>11. LookState(e) = LookState(d3) /\ WouldBe(e) = WouldBe(d3) /\ LookState(d3) \in State
      BY <1>8, <1>9, LookStateType DEF LookState, WouldBe, ResultDirect
<1>12. \A s \in State : Masked(e, s) = Unset /\ Masked(d3, s) = Unset
      BY <1>8, <1>9, <1>10
<1>13. Current(e)
      BY <1>8, <1>9, <1>11, <1>12 DEF Current
<1>14. Fits(e)
      BY <1>9, <1>13, LookStateType DEF Fits, Current
<1> QED BY <1>1, <1>9, <1>13, <1>14

LEMMA DefaultOK ==
    ASSUME Decides, NEW pk \in PkAction \cup {NoPk}
    PROVE  Default(pk) \in ActionType /\ Fits(Default(pk)) /\ Current(Default(pk))
<1> DEFINE b == Constructed(pk)
           c == [b EXCEPT !.looks = [s \in State |-> DefaultLook(s)]]
<1>1. b \in ActionType /\ Current(b)
      BY ConstructedOK
<1>2. Default(pk) = Update(c)
      BY DEF Default
<1>3. [s \in State |-> DefaultLook(s)] \in [State -> LookType]
      BY DEF DefaultLook, LookType, Text
<1> HIDE DEF b
<1>4. /\ c \in ActionType /\ c.pk = b.pk /\ c.pid = b.pid
      /\ c.sufficient = b.sufficient /\ c.result = b.result
      BY <1>1, <1>3 DEF ActionType
<1> HIDE DEF c
<1>5. Improves(b, Update(c))
      BY <1>1, <1>4, UpdateImproves
<1> QED BY <1>1, <1>2, <1>5 DEF Improves

-----------------------------------------------------------------------------
(* Who is connected.                                                       *)

LEMMA WithoutOK ==
    ASSUME NEW S, NEW s \in Seq(S), IsInjective(s), NEW o
    PROVE  /\ Without(s, o) \in Seq(S) /\ IsInjective(Without(s, o))
           /\ ToSet(Without(s, o)) = ToSet(s) \ {o}
<1>1. CASE o \notin ToSet(s)
      BY <1>1 DEF Without
<1>2. CASE o \in ToSet(s)
  <2> DEFINE k == CHOOSE i \in DOMAIN s : s[i] = o
             n == Len(s)
             l == SubSeq(s, 1, k - 1)
             r == SubSeq(s, k + 1, n)
             t == l \o r
  <2>1. DOMAIN s = 1..n /\ n \in Nat /\ \A i \in 1..n : s[i] \in S
        BY ElementOfSeq, LenProperties
  <2>2. k \in 1..n /\ s[k] = o
    <3>1. \E i \in DOMAIN s : s[i] = o
          BY <1>2 DEF ToSet
    <3> QED BY <2>1, <3>1
  <2>3. Without(s, o) = t
        BY <1>2 DEF Without, RemoveAt
  <2>4. \A i, j \in 1..n : s[i] = s[j] => i = j
        BY <2>1 DEF IsInjective
  <2> HIDE DEF k, n
  <2>5. /\ l \in Seq(S) /\ Len(l) = k - 1
        /\ \A i \in 1..(k - 1) : l[i] = s[i]
    <3>1. \A i \in 1..(k - 1) : s[i] \in S
          BY <2>1, <2>2
    <3>0. 1 \in Int /\ k - 1 \in Int
          BY <2>1, <2>2
    <3>2. /\ l \in Seq(S) /\ Len(l) = IF 1 <= k - 1 THEN (k - 1) - 1 + 1 ELSE 0
          /\ \A i \in 1..((k - 1) - 1 + 1) : l[i] = s[1 + i - 1]
          BY ONLY <3>0, <3>1, SubSeqProperties DEF l
    <3> HIDE DEF l
    <3> QED BY <2>1, <2>2, <3>2
  <2>6. /\ r \in Seq(S) /\ Len(r) = n - k
        /\ \A i \in 1..(n - k) : r[i] = s[k + i]
    <3>1. \A i \in (k + 1)..n : s[i] \in S
          BY <2>1, <2>2
    <3>2. k + 1 \in Int /\ n \in Int
          BY <2>1, <2>2
    <3>3. /\ r \in Seq(S) /\ Len(r) = IF k + 1 <= n THEN n - (k + 1) + 1 ELSE 0
          /\ \A i \in 1..(n - (k + 1) + 1) : r[i] = s[(k + 1) + i - 1]
          BY ONLY <3>1, <3>2, SubSeqProperties DEF r
    <3> HIDE DEF r
    <3> QED BY <2>1, <2>2, <3>3
  <2> HIDE DEF l, r
  <2>7. /\ t \in Seq(S) /\ Len(t) = n - 1
        /\ \A i \in 1..(n - 1) : t[i] = IF i < k THEN s[i] ELSE s[i + 1]
    <3>1. /\ t \in Seq(S) /\ Len(t) = Len(l) + Len(r)
          /\ \A i \in 1..(Len(l) + Len(r)) : t[i] = IF i <= Len(l) THEN l[i] ELSE r[i - Len(l)]
          BY <2>5, <2>6, ConcatProperties
    <3> HIDE DEF t
    <3>2. Len(t) = n - 1 /\ Len(l) + Len(r) = n - 1
          BY <2>1, <2>2, <2>5, <2>6, <3>1
    <3>3. ASSUME NEW i \in 1..(n - 1) PROVE t[i] = IF i < k THEN s[i] ELSE s[i + 1]
      <4>1. t[i] = IF i <= Len(l) THEN l[i] ELSE r[i - Len(l)]
            BY <3>1, <3>2
      <4>2. CASE i < k
        <5>1. i <= Len(l) /\ i \in 1..(k - 1)
              BY <2>1, <2>2, <2>5, <4>2
        <5> QED BY <2>5, <4>1, <4>2, <5>1
      <4>3. CASE ~(i < k)
        <5>1. ~(i <= Len(l)) /\ i - Len(l) \in 1..(n - k) /\ k + (i - Len(l)) = i + 1
              BY <2>1, <2>2, <2>5, <4>3
        <5>2. r[i - Len(l)] = s[k + (i - Len(l))]
              BY <2>6, <5>1
        <5> QED BY <4>1, <4>3, <5>1, <5>2
      <4> QED BY <4>2, <4>3
    <3> QED BY <3>1, <3>2, <3>3
  <2> HIDE DEF t
  <2>8. DOMAIN t = 1..(n - 1)
        BY <2>7, LenProperties
  <2>9. IsInjective(t)
    <3>1. ASSUME NEW i \in 1..(n - 1), NEW j \in 1..(n - 1), t[i] = t[j] PROVE i = j
      <4>1. /\ i \in 1..n /\ j \in 1..n /\ i + 1 \in 1..n /\ j + 1 \in 1..n
            BY <2>1
      <4>2. /\ t[i] = IF i < k THEN s[i] ELSE s[i + 1]
            /\ t[j] = IF j < k THEN s[j] ELSE s[j + 1]
            BY <2>7
      <4>3. CASE i < k /\ j < k
            BY <2>4, <3>1, <4>1, <4>2, <4>3
      <4>4. CASE i < k /\ ~(j < k)
        <5>1. i = j + 1
              BY <2>4, <3>1, <4>1, <4>2, <4>4
        <5> QED BY <2>2, <4>4, <5>1
      <4>5. CASE ~(i < k) /\ j < k
        <5>1. i + 1 = j
              BY <2>4, <3>1, <4>1, <4>2, <4>5
        <5> QED BY <2>2, <4>5, <5>1
      <4>6. CASE ~(i < k) /\ ~(j < k)
        <5>1. i + 1 = j + 1
              BY <2>4, <3>1, <4>1, <4>2, <4>6
        <5> QED BY <5>1
      <4> QED BY <4>3, <4>4, <4>5, <4>6
    <3> QED BY <2>8, <3>1 DEF IsInjective
  <2>10. ASSUME NEW x PROVE x \in ToSet(t) <=> x \in ToSet(s) /\ x # o
    <3>1. ASSUME x \in ToSet(t) PROVE x \in ToSet(s) /\ x # o
      <4>1. PICK i \in 1..(n - 1) : x = t[i]
            BY <2>8, <3>1 DEF ToSet
      <4>2. i \in 1..n /\ i + 1 \in 1..n
            BY <2>1
      <4>3. CASE i < k
        <5>1. x = s[i] /\ i # k
              BY <2>2, <2>7, <4>1, <4>3
        <5> QED BY <2>1, <2>2, <2>4, <4>2, <5>1 DEF ToSet
      <4>4. CASE ~(i < k)
        <5>1. x = s[i + 1] /\ i + 1 # k
              BY <2>2, <2>7, <4>1, <4>4
        <5> QED BY <2>1, <2>2, <2>4, <4>2, <5>1 DEF ToSet
      <4> QED BY <4>3, <4>4
    <3>2. ASSUME x \in ToSet(s), x # o PROVE x \in ToSet(t)
      <4>1. PICK i \in 1..n : x = s[i]
            BY <2>1, <3>2 DEF ToSet
      <4>2. i # k
            BY <2>2, <3>2, <4>1
      <4>3. CASE i < k
        <5>1. i \in 1..(n - 1) /\ t[i] = x
              BY <2>1, <2>2, <2>7, <4>1, <4>3
        <5> QED BY <2>8, <5>1 DEF ToSet
      <4>4. CASE i > k
        <5>1. i - 1 \in 1..(n - 1) /\ ~(i - 1 < k) /\ (i - 1) + 1 = i
              BY <2>1, <2>2, <4>1, <4>4
        <5>2. t[i - 1] = x
              BY <2>7, <4>1, <5>1
        <5> QED BY <2>8, <5>1, <5>2 DEF ToSet
      <4> QED BY <2>1, <2>2, <4>1, <4>2, <4>3, <4>4
    <3> QED BY <3>1, <3>2
  <2> QED BY <2>3, <2>7, <2>9, <2>10
<1> QED BY <1>1, <1>2

LEMMA EnsureContextOK ==
    ASSUME LooksTypeOK, NEW o, NEW b, EnsureContext(o, b)
    PROVE  /\ handlers' \in Seq(DOMAIN objects \cup {o}) /\ IsInjective(handlers')
           /\ ToSet(handlers) \subseteq ToSet(handlers')
           /\ b.pk # NoPk => o \in ToSet(handlers')
           /\ ToSet(handlers') \subseteq ToSet(handlers) \cup {o}
<1> DEFINE S == DOMAIN objects \cup {o}
           n == Len(handlers)
<1>1. handlers \in Seq(S) /\ IsInjective(handlers)
      BY SeqMonotonic DEF LooksTypeOK
<1>2. CASE handlers' = handlers /\ (b.pk # NoPk => o \in ToSet(handlers))
      BY <1>1, <1>2
<1>3. CASE handlers' = Append(handlers, o) /\ o \notin ToSet(handlers)
  <2> DEFINE t == Append(handlers, o)
  <2>1. o \in S
        OBVIOUS
  <2> HIDE DEF S
  <2>2. /\ DOMAIN handlers = 1..n /\ n \in Nat
        /\ t \in Seq(S) /\ Len(t) = n + 1 /\ DOMAIN t = 1..(n + 1)
        /\ \A i \in 1..n : t[i] = handlers[i]
        /\ t[n + 1] = o
        BY ONLY <1>1, <2>1, LenProperties, AppendProperties
  <2> HIDE DEF t, n
  <2>3. \A i \in 1..n : handlers[i] # o
        BY <1>3, <2>2 DEF ToSet
  <2>4. IsInjective(t)
    <3>1. ASSUME NEW i \in 1..(n + 1), NEW j \in 1..(n + 1), t[i] = t[j] PROVE i = j
          BY <1>1, <2>2, <2>3, <3>1 DEF IsInjective
    <3> QED BY <2>2, <3>1 DEF IsInjective
  <2>5. ToSet(t) = ToSet(handlers) \cup {o}
    <3>1. /\ n + 1 \in 1..(n + 1) /\ \A i \in 1..n : i \in 1..(n + 1)
          /\ \A i \in 1..(n + 1) : i \in 1..n \/ i = n + 1
          BY <2>2
    <3> QED BY <2>2, <3>1 DEF ToSet
  <2> QED BY <1>3, <2>2, <2>4, <2>5 DEF S, t
<1> QED BY <1>2, <1>3 DEF EnsureContext

(* A sequence is one of what is in it. *)
LEMMA OwnElements ==
    ASSUME NEW S, NEW s \in Seq(S)
    PROVE  s \in Seq(ToSet(s)) /\ ToSet(s) \subseteq S
<1>1. Range(s) = ToSet(s)
      BY DEF Range, ToSet
<1> QED BY <1>1, SeqOfRange, RangeOfSeq

LEMMA TailOK ==
    ASSUME NEW S, NEW s \in Seq(S), IsInjective(s), s # <<>>
    PROVE  /\ Head(s) \in S /\ Tail(s) \in Seq(S) /\ IsInjective(Tail(s))
           /\ \A x \in ToSet(s) : x = Head(s) \/ x \in ToSet(Tail(s))
<1> DEFINE n == Len(s)
           t == Tail(s)
<1>1. /\ DOMAIN s = 1..n /\ n \in Nat /\ n # 0 /\ Head(s) = s[1]
      BY EmptySeq, LenProperties
<1>2. /\ Head(s) \in S /\ t \in Seq(S) /\ Len(t) = n - 1
      /\ \A i \in 1..Len(t) : t[i] = s[i + 1]
      BY HeadTailProperties
<1>3. DOMAIN t = 1..Len(t)
      BY <1>2, LenProperties
<1> HIDE DEF t, n
<1>4. \A i \in 1..(n - 1) : t[i] = s[i + 1] /\ i + 1 \in 1..n
      BY <1>1, <1>2
<1>5. IsInjective(t)
  <2>1. ASSUME NEW i \in 1..(n - 1), NEW j \in 1..(n - 1), t[i] = t[j] PROVE i = j
    <3>1. i + 1 = j + 1
          BY <1>1, <1>4, <2>1 DEF IsInjective
    <3> QED BY <3>1
  <2> QED BY <1>2, <1>3, <2>1 DEF IsInjective
<1>6. ASSUME NEW x \in ToSet(s) PROVE x = s[1] \/ x \in ToSet(t)
  <2>1. PICK i \in 1..n : x = s[i]
        BY <1>1 DEF ToSet
  <2>2. CASE i = 1
        BY <2>1, <2>2
  <2>3. CASE i # 1
    <3>1. i - 1 \in 1..(n - 1) /\ (i - 1) + 1 = i
          BY <1>1, <2>3
    <3>2. t[i - 1] = x
          BY <1>4, <2>1, <3>1
    <3> QED BY <1>2, <1>3, <3>1, <3>2 DEF ToSet
  <2> QED BY <2>2, <2>3
<1> QED BY <1>1, <1>2, <1>5, <1>6 DEF t

-----------------------------------------------------------------------------
(* The invariant.                                                          *)

(* An action that asks is connected ...                                    *)
Connected == \A o \in DOMAIN objects : objects[o].pk # NoPk => o \in ToSet(handlers)

(* ... and current unless it has yet to be told; one that does not is      *)
(* current whatever happens.                                               *)
Told ==
    \A o \in DOMAIN objects :
        /\ objects[o].pid \in alive
        /\ objects[o].pk = NoPk \/ (~due /\ o \notin ToSet(notifying))
        => Current(objects[o])

(* There is no context, and never was an action, before the leak.          *)
Leaked == DOMAIN objects # {} \/ singleton \/ handlers # <<>> => leaked

(* The program is running. *)
Running == "self" \in alive

LooksInv ==
    /\ LooksTypeOK /\ Running
    /\ ShowsWhatItKnows /\ Connected /\ Told /\ Leaked /\ FilterHasContext

LEMMA ShowsFits == ShowsWhatItKnows <=> \A o \in DOMAIN objects : Fits(objects[o])
BY DEF ShowsWhatItKnows, Fits

LEMMA LooksInitOK == LooksInit => LooksInv
<1> SUFFICES ASSUME LooksInit PROVE LooksInv
    OBVIOUS
<1>1. DOMAIN objects = {} /\ handlers = <<>> /\ notifying = <<>>
      BY DEF LooksInit
<1>2. handlers \in Seq(DOMAIN objects) /\ notifying \in Seq(ToSet(handlers))
      BY <1>1, EmptySeq
<1>3. IsInjective(handlers) /\ IsInjective(notifying)
      BY <1>1 DEF IsInjective
<1>4. objects \in [DOMAIN objects -> ActionType]
      BY DEF LooksInit
<1>5. decided \in [Pid -> [PkAction -> PolKitResult \ {"unknown"}]]
      BY DEF LooksInit, PolKitResult
<1>6. LooksTypeOK
  <2>1. calls \in 0..MaxUses /\ changes \in 0..MaxChanges
        BY LooksConstantsOK DEF LooksInit
  <2>2. /\ handling \in BOOLEAN /\ due \in BOOLEAN /\ blocked \subseteq PkAction
        /\ alive \subseteq Pid /\ singleton \in BOOLEAN /\ leaked \in BOOLEAN
        /\ stale \in BOOLEAN
        BY DEF LooksInit
  <2> QED BY <1>1, <1>2, <1>3, <1>4, <1>5, <2>1, <2>2 DEF LooksTypeOK
<1>7. ShowsWhatItKnows /\ Connected /\ Told /\ Leaked /\ FilterHasContext
      BY <1>1 DEF LooksInit, ShowsWhatItKnows, Connected, Told, Leaked, FilterHasContext
<1>8. Running
      BY DEF LooksInit, Running, Pid
<1> QED BY <1>6, <1>7, <1>8 DEF LooksInv

(* The context keeps its references. *)
LEMMA ContextGetOK ==
    ASSUME LooksTypeOK, Leaked, FilterHasContext, NEW updated \in BOOLEAN, ContextGet(updated),
           updated \/ DOMAIN objects # {}
    PROVE  /\ singleton' \in BOOLEAN /\ leaked' /\ leaked' \in BOOLEAN /\ stale' \in BOOLEAN
           /\ Leaked' /\ FilterHasContext'
<1>1. /\ leaked' = (leaked \/ updated)
      /\ singleton' = (leaked \/ updated \/ handlers' # <<>>)
      /\ stale' = (stale \/ ((singleton \/ updated) /\ ~(leaked \/ updated \/ handlers' # <<>>)))
      BY DEF ContextGet, Leaks
<1>2. leaked \/ updated
      BY DEF Leaked
<1>3. leaked' /\ singleton' /\ ~stale'
      BY <1>1, <1>2 DEF FilterHasContext
<1> QED BY <1>1, <1>3 DEF Leaked, FilterHasContext, LooksTypeOK

(* An action is made, or one of its properties set. *)
LEMMA MadeOK ==
    ASSUME LooksInv, Calls, NEW o \in Action, NEW b \in ActionType, NEW updated \in BOOLEAN,
           Made(o, b, updated), Fits(b), updated \/ o \in DOMAIN objects,
           Current(b) \/ (/\ o \in DOMAIN objects
                          /\ b.pk = objects[o].pk /\ b.pid = objects[o].pid
                          /\ Current(objects[o]) => Current(b))
    PROVE  LooksInv'
<1>1. /\ LooksTypeOK /\ Connected /\ Told /\ Leaked /\ FilterHasContext
      /\ \A i \in DOMAIN objects : Fits(objects[i])
      BY ShowsFits DEF LooksInv
<1>2. /\ objects' = [i \in DOMAIN objects \cup {o} |-> IF i = o THEN b ELSE objects[i]]
      /\ EnsureContext(o, b) /\ ContextGet(updated) /\ notifying' = notifying
      /\ UNCHANGED <<handling, due, decided, blocked, alive, changes>>
      /\ calls' = calls + 1 /\ calls < MaxUses
      BY DEF Made, Calls, database
<1>3. /\ DOMAIN objects' = DOMAIN objects \cup {o} /\ objects'[o] = b
      /\ \A i \in DOMAIN objects \ {o} : objects'[i] = objects[i]
      BY <1>2
<1>4. /\ handlers' \in Seq(DOMAIN objects') /\ IsInjective(handlers')
      /\ ToSet(handlers) \subseteq ToSet(handlers')
      /\ b.pk # NoPk => o \in ToSet(handlers')
      BY <1>1, <1>2, <1>3, EnsureContextOK
<1>5. leaked' /\ leaked' \in BOOLEAN /\ singleton' \in BOOLEAN /\ stale' \in BOOLEAN
      /\ Leaked' /\ FilterHasContext'
      BY <1>1, <1>2, ContextGetOK
<1>6. LooksTypeOK'
  <2>1. objects' \in [DOMAIN objects' -> ActionType] /\ DOMAIN objects' \subseteq Action
        BY <1>1, <1>2, <1>3 DEF LooksTypeOK
  <2>2. notifying' \in Seq(ToSet(handlers')) /\ IsInjective(notifying')
        BY <1>1, <1>2, <1>4, SeqMonotonic DEF LooksTypeOK
  <2>3. calls' \in 0..MaxUses
        BY <1>1, <1>2, LooksConstantsOK DEF LooksTypeOK
  <2> QED BY <1>1, <1>2, <1>4, <1>5, <2>1, <2>2, <2>3 DEF LooksTypeOK
<1>7. decided' = decided /\ blocked' = blocked /\ alive' = alive /\ due' = due
      /\ notifying' = notifying
      BY <1>2
<1>8. ShowsWhatItKnows'
  <2>1. \A i \in DOMAIN objects' : Fits(objects'[i])
        BY <1>1, <1>3
  <2> QED BY <2>1 DEF ShowsWhatItKnows, Fits, Masked
<1>9. Connected'
      BY <1>1, <1>3, <1>4 DEF Connected
<1>10. Told'
  <2> SUFFICES ASSUME NEW i \in DOMAIN objects', objects'[i].pid \in alive,
                      objects'[i].pk = NoPk \/ (~due /\ i \notin ToSet(notifying))
               PROVE  Current(objects'[i])
      BY <1>7 DEF Told, Current, WouldBe, ResultDirect, LookState, Masked
  <2>1. CASE i = o
        BY <1>1, <1>3, <2>1 DEF Told
  <2>2. CASE i # o
        BY <1>1, <1>3, <2>2 DEF Told
  <2> QED BY <2>1, <2>2
<1>11. Running'
      BY <1>7 DEF LooksInv, Running
<1> QED BY <1>5, <1>6, <1>8, <1>9, <1>10, <1>11 DEF LooksInv

LEMMA PropertySetOK ==
    ASSUME LooksInv, NEW o \in DOMAIN objects, SetProperty(o) \/ AskPolkitResult(o)
    PROVE  LooksInv'
<1> DEFINE b == objects[o]
<1>1. /\ Decides /\ b \in ActionType /\ o \in Action /\ Fits(b)
      BY ShowsFits DEF LooksInv, LooksTypeOK, Decides
<1>2. ASSUME NEW c, Improves(b, c), NEW updated \in BOOLEAN, Calls, Made(o, c, updated)
      PROVE  LooksInv'
      BY <1>1, <1>2, MadeOK DEF Improves
<1>3. CASE \E pk \in PkAction \cup {NoPk} : ChangeAction(o, pk)
      BY <1>1, <1>2, <1>3, SetActionOK DEF ChangeAction
<1>4. CASE \E as \in SUBSET PkAction : ChangeSufficient(o, as)
      BY <1>1, <1>2, <1>4, SetSufficientOK DEF ChangeSufficient
<1>5. CASE \E p \in Pid : ChangePid(o, p)
      BY <1>1, <1>2, <1>5, SetTargetPidOK DEF ChangePid
<1>6. CASE \E m \in BOOLEAN : ChangeVisible(o, m) \/ ChangeSensitive(o, m)
      BY <1>1, <1>2, <1>6, SetMasterOK DEF ChangeVisible, ChangeSensitive
<1>7. CASE \E p \in Property : \/ ChangeSelfBlocked(o, p) \/ ChangeNo(o, p)
                               \/ ChangeAuth(o, p) \/ ChangeYes(o, p)
  <2>1. {"self_blocked", "no", "auth", "yes"} = State
        BY DEF State
  <2> QED BY <1>1, <1>2, <1>7, <2>1, SetLookOK
          DEF ChangeSelfBlocked, ChangeNo, ChangeAuth, ChangeYes
<1>8. CASE AskPolkitResult(o)
  <2>1. Improves(b, Update(Compute(b)))
        BY <1>1, UpdateComputeOK DEF Improves
  <2> QED BY <1>2, <1>8, <2>1 DEF AskPolkitResult
<1> QED BY <1>3, <1>4, <1>5, <1>6, <1>7, <1>8 DEF SetProperty

LEMMA NewOK ==
    ASSUME LooksInv, NEW o \in Action,
           New(o) \/ \E pk \in PkAction \cup {NoPk} : NewDefault(o, pk)
    PROVE  LooksInv'
<1>1. Decides
      BY DEF LooksInv, LooksTypeOK, Decides
<1>2. CASE New(o)
      BY <1>1, <1>2, ConstructedOK, MadeOK DEF New
<1>3. CASE \E pk \in PkAction \cup {NoPk} : NewDefault(o, pk)
      BY <1>1, <1>3, DefaultOK, MadeOK DEF NewDefault
<1> QED BY <1>2, <1>3

LEMMA FinalizeOK == ASSUME LooksInv, NEW o \in DOMAIN objects, Finalize(o) PROVE LooksInv'
<1>1. /\ LooksTypeOK /\ Connected /\ Told /\ Leaked /\ FilterHasContext
      /\ \A i \in DOMAIN objects : Fits(objects[i])
      BY ShowsFits DEF LooksInv
<1>2. /\ objects' = [i \in DOMAIN objects \ {o} |-> objects[i]]
      /\ handlers' = Without(handlers, o) /\ notifying' = Without(notifying, o)
      /\ ContextGet(FALSE)
      /\ UNCHANGED <<handling, due, decided, blocked, alive, changes>>
      /\ calls' = calls + 1 /\ calls < MaxUses
      BY DEF Finalize, Calls, database
<1>3. /\ DOMAIN objects' = DOMAIN objects \ {o}
      /\ \A i \in DOMAIN objects' : i \in DOMAIN objects /\ objects'[i] = objects[i]
      BY <1>2
<1>4. /\ handlers' \in Seq(DOMAIN objects) /\ IsInjective(handlers')
      /\ ToSet(handlers') = ToSet(handlers) \ {o}
      BY <1>1, <1>2, WithoutOK DEF LooksTypeOK
<1>5. /\ notifying' \in Seq(ToSet(handlers)) /\ IsInjective(notifying')
      /\ ToSet(notifying') = ToSet(notifying) \ {o}
      BY <1>1, <1>2, WithoutOK DEF LooksTypeOK
<1>6. handlers' \in Seq(DOMAIN objects')
  <2>1. handlers' \in Seq(ToSet(handlers')) /\ ToSet(handlers') \subseteq DOMAIN objects
        BY <1>4, OwnElements
  <2>2. ToSet(handlers') \subseteq DOMAIN objects'
        BY <1>3, <1>4, <2>1
  <2> QED BY <2>1, <2>2, SeqMonotonic
<1>7. notifying' \in Seq(ToSet(handlers'))
  <2>1. notifying' \in Seq(ToSet(notifying')) /\ ToSet(notifying') \subseteq ToSet(handlers)
        BY <1>5, OwnElements
  <2>2. ToSet(notifying') \subseteq ToSet(handlers')
        BY <1>4, <1>5, <2>1
  <2> QED BY <2>1, <2>2, SeqMonotonic
<1>8. leaked' /\ leaked' \in BOOLEAN /\ singleton' \in BOOLEAN /\ stale' \in BOOLEAN
      /\ Leaked' /\ FilterHasContext'
      BY <1>1, <1>2, ContextGetOK
<1>9. LooksTypeOK'
  <2>1. objects' \in [DOMAIN objects' -> ActionType] /\ DOMAIN objects' \subseteq Action
        BY <1>1, <1>2, <1>3 DEF LooksTypeOK
  <2>2. calls' \in 0..MaxUses
        BY <1>1, <1>2, LooksConstantsOK DEF LooksTypeOK
  <2> QED BY <1>1, <1>2, <1>4, <1>5, <1>6, <1>7, <1>8, <2>1, <2>2 DEF LooksTypeOK
<1>10. ShowsWhatItKnows'
  <2>1. \A i \in DOMAIN objects' : Fits(objects'[i])
        BY <1>1, <1>3
  <2> QED BY <2>1 DEF ShowsWhatItKnows, Fits, Masked
<1>11. Connected'
      BY <1>1, <1>3, <1>4 DEF Connected
<1>12. Told'
  <2>0. decided' = decided /\ blocked' = blocked /\ alive' = alive /\ due' = due
        BY <1>2
  <2> SUFFICES ASSUME NEW i \in DOMAIN objects', objects'[i].pid \in alive,
                      objects'[i].pk = NoPk \/ (~due /\ i \notin ToSet(notifying'))
               PROVE  Current(objects'[i])
      BY <2>0 DEF Told, Current, WouldBe, ResultDirect, LookState, Masked
  <2>1. i # o /\ i \in DOMAIN objects /\ objects'[i] = objects[i]
        BY <1>3
  <2> QED BY <1>1, <1>5, <2>1 DEF Told
<1>13. Running'
      BY <1>2 DEF LooksInv, Running
<1> QED BY <1>8, <1>9, <1>10, <1>11, <1>12, <1>13 DEF LooksInv

(* An action that asks about nothing is current whatever PolicyKit answers;*)
(* a process that exited matters to nobody.                                *)
LEMMA DatabaseOK == ASSUME LooksInv, DatabaseChanges PROVE LooksInv'
<1>1. /\ LooksTypeOK /\ Connected /\ Told /\ Leaked /\ FilterHasContext /\ ShowsWhatItKnows
      BY DEF LooksInv
<1>2. UNCHANGED <<objects, handlers, notifying, handling, singleton, leaked, stale, calls>>
      /\ changes' = changes + 1 /\ changes < MaxChanges
      BY DEF DatabaseChanges, context
<1>3. changes' \in 0..MaxChanges
      BY <1>1, <1>2, LooksConstantsOK DEF LooksTypeOK
<1>4. ShowsWhatItKnows' /\ Connected' /\ Leaked' /\ FilterHasContext'
  <2>1. \A i \in DOMAIN objects' : Fits(objects'[i])
        BY <1>1, <1>2, ShowsFits
  <2>2. ShowsWhatItKnows'
        BY <2>1 DEF ShowsWhatItKnows, Fits, Masked
  <2>3. Connected'
        BY <1>1, <1>2 DEF Connected
  <2>4. Leaked' /\ FilterHasContext'
        BY <1>1, <1>2 DEF Leaked, FilterHasContext
  <2> QED BY <2>2, <2>3, <2>4
<1>5. CASE /\ \E p \in Pid, a \in PkAction, r \in PolKitResult \ {"unknown"} :
                /\ decided' = [decided EXCEPT ![p][a] = r]
                /\ blocked' \in {blocked, blocked \cup {a}, blocked \ {a}}
           /\ due' = TRUE /\ alive' = alive
  <2>1. decided' \in [Pid -> [PkAction -> PolKitResult \ {"unknown"}]] /\ blocked' \subseteq PkAction
    <3>1. PICK p \in Pid, a \in PkAction, r \in PolKitResult \ {"unknown"} :
             /\ decided' = [decided EXCEPT ![p][a] = r]
             /\ blocked' \in {blocked, blocked \cup {a}, blocked \ {a}}
          BY <1>5
    <3> QED BY <1>1, <3>1 DEF LooksTypeOK
  <2>2. LooksTypeOK'
        BY <1>1, <1>2, <1>3, <1>5, <2>1 DEF LooksTypeOK
  <2>3. Told'
    <3> SUFFICES ASSUME NEW o \in DOMAIN objects, objects[o].pid \in alive, objects[o].pk = NoPk
                 PROVE  Current(objects[o])'
        BY <1>2, <1>5 DEF Told
    <3>1. Current(objects[o])
          BY <1>1 DEF Told
    <3>2. /\ WouldBe(objects[o]) = "yes" /\ WouldBe(objects[o])' = "yes"
          /\ objects[o].result = "yes"
          BY <1>2, <3>1 DEF Current, WouldBe
    <3>3. LookState(objects[o]) = "yes" /\ LookState(objects[o])' = "yes"
          BY <1>2, <3>2 DEF LookState
    <3> QED BY <1>2, <3>1, <3>2, <3>3 DEF Current, Masked
  <2>4. Running'
        BY <1>5 DEF LooksInv, Running
  <2> QED BY <1>4, <2>2, <2>3, <2>4 DEF LooksInv
<1>6. CASE "other" \in alive /\ alive' = {"self"} /\ UNCHANGED <<decided, blocked, due>>
  <2>1. LooksTypeOK'
        BY <1>1, <1>2, <1>3, <1>6 DEF LooksTypeOK, Pid
  <2>2. Told'
    <3>1. ASSUME NEW o \in DOMAIN objects, objects[o].pid \in alive',
                 objects[o].pk = NoPk \/ (~due /\ o \notin ToSet(notifying))
          PROVE  Current(objects[o])'
      <4>1. objects[o].pid \in alive
            BY <1>6, <3>1 DEF LooksInv, Running
      <4>2. Current(objects[o])
            BY <1>1, <3>1, <4>1 DEF Told
      <4> QED BY <1>2, <1>6, <3>1, <4>1, <4>2
              DEF Current, WouldBe, ResultDirect, LookState, Masked
    <3> QED BY <1>2, <1>6, <3>1 DEF Told
  <2>3. Running'
        BY <1>6 DEF Running
  <2> QED BY <1>4, <2>1, <2>2, <2>3 DEF LooksInv
<1> QED BY <1>5, <1>6 DEF DatabaseChanges

(* All that are connected have yet to be told: who is not asks nothing. *)
LEMMA ContextChangedOK == ASSUME LooksInv, ContextChanged PROVE LooksInv'
<1>1. /\ LooksTypeOK /\ Connected /\ Told /\ Leaked /\ FilterHasContext
      /\ \A i \in DOMAIN objects : Fits(objects[i])
      BY ShowsFits DEF LooksInv
<1>2. /\ UNCHANGED <<objects, handlers, decided, blocked, alive, singleton, leaked, stale,
                     calls, changes>>
      /\ due' = FALSE /\ handling' = FALSE /\ notifying' = handlers
      BY DEF ContextChanged, database, context
<1>3. notifying' \in Seq(ToSet(handlers')) /\ IsInjective(notifying')
  <2>1. handlers \in Seq(DOMAIN objects) /\ IsInjective(handlers)
        BY <1>1 DEF LooksTypeOK
  <2>2. handlers \in Seq(ToSet(handlers))
        BY <2>1, OwnElements
  <2> QED BY <1>2, <2>1, <2>2
<1>4. LooksTypeOK'
      BY <1>1, <1>2, <1>3 DEF LooksTypeOK
<1>5. ShowsWhatItKnows'
  <2>1. \A i \in DOMAIN objects' : Fits(objects'[i])
        BY <1>1, <1>2
  <2> QED BY <2>1 DEF ShowsWhatItKnows, Fits, Masked
<1>6. Connected' /\ Leaked' /\ FilterHasContext'
      BY <1>1, <1>2 DEF Connected, Leaked, FilterHasContext
<1>7. Told'
  <2> SUFFICES ASSUME NEW i \in DOMAIN objects, objects[i].pid \in alive,
                      objects[i].pk = NoPk \/ i \notin ToSet(handlers)
               PROVE  Current(objects[i])
      BY <1>2 DEF Told, Current, WouldBe, ResultDirect, LookState, Masked
  <2> QED BY <1>1 DEF Connected, Told
<1>8. Running'
      BY <1>2 DEF LooksInv, Running
<1> QED BY <1>4, <1>5, <1>6, <1>7, <1>8 DEF LooksInv

(* One action is told, and those behind it still wait. *)
LEMMA PkConfigChangedOK == ASSUME LooksInv, PkConfigChanged PROVE LooksInv'
<1> DEFINE o == Head(notifying)
           b == Update(Compute(objects[o]))
<1>1. /\ LooksTypeOK /\ Connected /\ Told /\ Leaked /\ FilterHasContext /\ Decides
      /\ \A i \in DOMAIN objects : Fits(objects[i])
      BY ShowsFits DEF LooksInv, LooksTypeOK, Decides
<1>2. /\ notifying # <<>>
      /\ objects' = [objects EXCEPT ![o] = b]
      /\ handling' = (b.result # objects[o].result)
      /\ notifying' = Tail(notifying) /\ ContextGet(TRUE)
      /\ UNCHANGED <<handlers, due, decided, blocked, alive, calls, changes>>
      BY DEF PkConfigChanged, database
<1>3. /\ handlers \in Seq(DOMAIN objects) /\ IsInjective(handlers)
      /\ notifying \in Seq(ToSet(handlers)) /\ IsInjective(notifying)
      /\ objects \in [DOMAIN objects -> ActionType]
      BY <1>1 DEF LooksTypeOK
<1>4. /\ o \in ToSet(handlers) /\ notifying' \in Seq(ToSet(handlers)) /\ IsInjective(notifying')
      /\ \A x \in ToSet(notifying) : x = o \/ x \in ToSet(notifying')
      BY <1>2, <1>3, TailOK
<1>5. o \in DOMAIN objects
      BY <1>3, <1>4, OwnElements
<1>6. b \in ActionType /\ SameBut(objects[o], b) /\ Fits(b) /\ Current(b)
      BY <1>1, <1>3, <1>5, UpdateComputeOK
<1> HIDE DEF o, b
<1>7. /\ DOMAIN objects' = DOMAIN objects /\ objects'[o] = b
      /\ \A i \in DOMAIN objects : i # o => objects'[i] = objects[i]
      BY <1>2, <1>5
<1>8. leaked' /\ leaked' \in BOOLEAN /\ singleton' \in BOOLEAN /\ stale' \in BOOLEAN
      /\ Leaked' /\ FilterHasContext'
      BY <1>1, <1>2, ContextGetOK
<1>9. LooksTypeOK'
  <2>1. objects' \in [DOMAIN objects' -> ActionType] /\ DOMAIN objects' \subseteq Action
        BY <1>1, <1>2, <1>3, <1>6, <1>7 DEF LooksTypeOK
  <2>2. handling' \in BOOLEAN
        BY <1>2
  <2> QED BY <1>1, <1>2, <1>3, <1>4, <1>7, <1>8, <2>1, <2>2 DEF LooksTypeOK
<1>10. ShowsWhatItKnows'
  <2>1. \A i \in DOMAIN objects' : Fits(objects'[i])
        BY <1>1, <1>6, <1>7
  <2> QED BY <2>1 DEF ShowsWhatItKnows, Fits, Masked
<1>11. Connected'
      BY <1>1, <1>2, <1>6, <1>7 DEF Connected, SameBut
<1>12. Told'
  <2>0. /\ decided' = decided /\ blocked' = blocked /\ alive' = alive /\ due' = due
        /\ DOMAIN objects' = DOMAIN objects
        BY <1>2, <1>7
  <2> SUFFICES ASSUME NEW i \in DOMAIN objects', objects'[i].pid \in alive,
                      objects'[i].pk = NoPk \/ (~due /\ i \notin ToSet(notifying'))
               PROVE  Current(objects'[i])
      BY <2>0 DEF Told, Current, WouldBe, ResultDirect, LookState, Masked
  <2>1. CASE i = o
        BY <1>6, <1>7, <2>0, <2>1
  <2>2. CASE i # o
    <3>1. objects[i].pk = NoPk \/ (~due /\ i \notin ToSet(notifying))
          BY <1>4, <1>7, <2>0, <2>2
    <3> QED BY <1>1, <1>7, <2>0, <2>2, <3>1 DEF Told
  <2> QED BY <2>1, <2>2
<1>13. Running'
      BY <1>2 DEF LooksInv, Running
<1> QED BY <1>8, <1>9, <1>10, <1>11, <1>12, <1>13 DEF LooksInv

LEMMA LooksStutterOK == ASSUME LooksInv, UNCHANGED looksVars PROVE LooksInv'
<1>1. /\ LooksTypeOK /\ Connected /\ Told /\ Leaked /\ FilterHasContext
      /\ \A i \in DOMAIN objects : Fits(objects[i])
      BY ShowsFits DEF LooksInv
<1>2. UNCHANGED <<objects, handlers, notifying, handling, due, decided, blocked, alive,
                  singleton, leaked, stale, calls, changes>>
      BY DEF looksVars, database, context
<1>3. LooksTypeOK'
      BY <1>1, <1>2 DEF LooksTypeOK
<1>4. ShowsWhatItKnows'
  <2>1. \A i \in DOMAIN objects' : Fits(objects'[i])
        BY <1>1, <1>2
  <2> QED BY <2>1 DEF ShowsWhatItKnows, Fits, Masked
<1>5. Connected' /\ Leaked' /\ FilterHasContext'
      BY <1>1, <1>2 DEF Connected, Leaked, FilterHasContext
<1>6. Told'
      BY <1>1, <1>2 DEF Told, Current, WouldBe, ResultDirect, LookState, Masked
<1>7. Running'
      BY <1>2 DEF LooksInv, Running
<1> QED BY <1>3, <1>4, <1>5, <1>6, <1>7 DEF LooksInv

LEMMA LooksNextOK == LooksInv /\ [LooksNext]_looksVars => LooksInv'
<1> SUFFICES ASSUME LooksInv, [LooksNext]_looksVars PROVE LooksInv'
    OBVIOUS
<1>1. DOMAIN objects \subseteq Action
      BY DEF LooksInv, LooksTypeOK
<1>2. CASE \E o \in Action : New(o) \/ \E pk \in PkAction \cup {NoPk} : NewDefault(o, pk)
      BY <1>2, NewOK
<1>3. CASE \E o \in DOMAIN objects : SetProperty(o) \/ AskPolkitResult(o)
      BY <1>3, PropertySetOK
<1>4. CASE \E o \in DOMAIN objects : Finalize(o)
      BY <1>4, FinalizeOK
<1>5. CASE DatabaseChanges
      BY <1>5, DatabaseOK
<1>6. CASE ContextChanged
      BY <1>6, ContextChangedOK
<1>7. CASE PkConfigChanged
      BY <1>7, PkConfigChangedOK
<1>8. CASE UNCHANGED looksVars
      BY <1>8, LooksStutterOK
<1> QED BY <1>2, <1>3, <1>4, <1>5, <1>6, <1>7, <1>8 DEF LooksNext

LEMMA LooksInvariant == LooksSpec => []LooksInv
BY LooksInitOK, LooksNextOK, PTL DEF LooksSpec

(* The values of an action, a look and an answer have their types: whoever *)
(* waits for an emission is connected to the context and exists, and is    *)
(* told once, though actions are finalized while it lasts.                 *)
THEOREM LooksTypeCorrect == LooksSpec => []LooksTypeOK
<1>1. LooksInv => LooksTypeOK
      BY DEF LooksInv
<1> QED BY <1>1, LooksInvariant, PTL

(* Each action shows, under its master switches, the look its program gave *)
(* it for the answer it last computed, whichever of _update_action's       *)
(* callers came last.                                                      *)
THEOREM LooksFitAnswers == LooksSpec => []ShowsWhatItKnows
<1>1. LooksInv => ShowsWhatItKnows
      BY DEF LooksInv
<1> QED BY <1>1, LooksInvariant, PTL

(* What is current is what it would be, were it computed and shown again.  *)
LEMMA CurrentIsFixed ==
    ASSUME NEW b \in ActionType, Current(b)
    PROVE  b = Update(Compute(b))
<1>1. ASSUME NEW r, NEW l, b.result = r, b.shown = l
      PROVE  [b EXCEPT !.result = r] = b /\ [b EXCEPT !.shown = l] = b
      BY <1>1 DEF ActionType
<1>2. Compute(b) = [b EXCEPT !.result = WouldBe(b)]
      BY DEF Compute, WouldBe
<1>3. Compute(b) = b
      BY <1>1, <1>2 DEF Current
<1>4. Update(b) = b
      BY <1>1 DEF Current, Update
<1> QED BY <1>3, <1>4

(* When the context has nothing more to tell, every action for a process   *)
(* that is alive shows what PolicyKit would answer now: none misses a      *)
(* change, whatever a handler of polkit-result-changed did in between.     *)
THEOREM LooksAgree == LooksSpec => []AgreesWhenQuiet
<1>1. LooksInv => AgreesWhenQuiet
  <2> SUFFICES ASSUME LooksInv, ~due, notifying = <<>>,
                      NEW o \in DOMAIN objects, objects[o].pid \in alive
               PROVE  objects[o] = Update(Compute(objects[o]))
      BY DEF AgreesWhenQuiet
  <2>1. o \notin ToSet(notifying)
        BY DEF ToSet
  <2>2. Current(objects[o]) /\ objects[o] \in ActionType
        BY <2>1 DEF LooksInv, LooksTypeOK, Told
  <2> QED BY <2>2, CurrentIsFixed
<1> QED BY <1>1, LooksInvariant, PTL

(* libdbus never calls the filter of a context that was freed, because the *)
(* context is never freed: from the first action on it holds a reference   *)
(* of _update_action's that nobody gives back.                             *)
THEOREM ContextOutlivesFilter == LooksSpec => []FilterHasContext
<1>1. LooksInv => FilterHasContext
      BY DEF LooksInv
<1> QED BY <1>1, LooksInvariant, PTL

=============================================================================
