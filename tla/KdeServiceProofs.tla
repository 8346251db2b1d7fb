-------------------------- MODULE KdeServiceProofs ---------------------------
(***************************************************************************)
(* Theorems about KdeService, for any number of requests and               *)
(* administrators and with everything that may go wrong.                   *)
(***************************************************************************)
EXTENDS KdeService, SequenceTheorems, TLAPS

(* The types of the variables obtainAuthorization leaves at its end ...    *)
BusTypeOK ==
    /\ running \in BOOLEAN
    /\ timer \in BOOLEAN
    /\ reply \in [Request -> {"none", "gained", "denied", "busy", "error", "lost"}]
    /\ active \in Request \cup {NoReq}
    /\ authdb \subseteq Request

(* ... and of those of an attempt.                                         *)
AuthTypeOK ==
    /\ nest \in {"idle", "starting", "loop", "prompt"}
    /\ flags \in Flags
    /\ tries \in 0 .. POLICYKITKDE_MAX_TRY - 1
    /\ quit \in BOOLEAN
    /\ helper \in Unreaped \cup {"none", "reaped"}
    /\ helperUser \in User \cup {NoUser}
    /\ combo \in User \cup {NoUser}

(* Where obtainAuthorization is when, and what the exit timer does.        *)
Rest ==
    /\ InProgress <=> nest # "idle"
    /\ InProgress => running /\ ~timer
    /\ ~running => ~timer

(* A request is in the inbox, authenticated or answered, once.             *)
Once ==
    /\ inbox \in Seq(Request)
    /\ \A i \in 1 .. Len(inbox) : reply[inbox[i]] = "none" /\ inbox[i] # active
    /\ \A i, j \in 1 .. Len(inbox) : inbox[i] = inbox[j] => i = j
    /\ InProgress => reply[active] = "none"

(* What says that the user was authenticated is true.                      *)
Grants ==
    /\ InProgress /\ (flags.gained \/ helper = "success") => active \in authdb
    /\ \A r \in Request : reply[r] = "gained" => r \in authdb

(* An administrator was chosen exactly when one is remembered.             *)
Choice == flags.newUser <=> flags.user # NoUser

IInv == BusTypeOK /\ AuthTypeOK /\ Rest /\ Once /\ Grants /\ Choice

(* The helper verifies the administrator chosen, or else the one on        *)
(* display.                                                                *)
Named ==
    /\ helper \in Live /\ helperUser # NoUser =>
          IF flags.newUser THEN helperUser = flags.user ELSE combo = helperUser
    /\ PromptNamesHelperUser

-----------------------------------------------------------------------------
(* Lemmas about the operators the actions share.                           *)

USE ConstantsOK DEF POLICYKITKDE_MAX_TRY, Live, Exited, Unreaped, InProgress

(* polkit_grant_done changes two flags. *)
LEMMA DoneFacts ==
    ASSUME NEW f \in Flags, NEW g \in BOOLEAN, NEW b \in BOOLEAN
    PROVE  LET d == PolkitGrantDone(f, g, b) IN
           /\ d \in Flags
           /\ d.gained = g /\ d.bogus = b /\ d.cancelled = f.cancelled
           /\ d.newUser = f.newUser /\ d.user = f.user
BY DEF PolkitGrantDone, Flags

(* A cancelled attempt of a live helper has not gained anything.           *)
LEMMA CancelFacts ==
    ASSUME NEW f \in Flags, CancelAuth(f), AuthTypeOK
    PROVE  /\ flags' \in Flags
           /\ flags'.newUser = f.newUser /\ flags'.user = f.user
           /\ flags'.cancelled = f.cancelled
           /\ flags'.gained => f.gained
           /\ helper' \in {"none", "reaped"} /\ quit' \in BOOLEAN
<1>1. CASE helper \in Unreaped
  <2>1. flags' = PolkitGrantDone(f, FALSE, FALSE) /\ helper' = "reaped" /\ quit' = TRUE
        BY <1>1 DEF CancelAuth
  <2> QED BY <2>1, DoneFacts
<1>2. CASE helper \notin Unreaped
  <2>1. flags' = f /\ helper' = helper /\ quit' = quit
        BY <1>2 DEF CancelAuth
  <2> QED BY <1>2, <2>1 DEF AuthTypeOK
<1> QED BY <1>1, <1>2

(* The flags of a new attempt. *)
LEMMA FreshFacts ==
    ASSUME NEW f \in Flags
    PROVE  LET g == [f EXCEPT !.gained = FALSE, !.bogus = FALSE, !.cancelled = FALSE] IN
           /\ g \in Flags /\ ~g.gained
           /\ g.newUser = f.newUser /\ g.user = f.user
BY DEF Flags

(* The flags of a rejected dialog, of one whose user was changed, of a     *)
(* restart and of an authentication that is decided.                       *)
LEMMA FlagsFacts ==
    ASSUME NEW f \in Flags, NEW u \in User
    PROVE  /\ LET g == [f EXCEPT !.cancelled = TRUE] IN
              g \in Flags /\ g.gained = f.gained /\ g.newUser = f.newUser /\ g.user = f.user
           /\ LET g == [f EXCEPT !.newUser = TRUE, !.reset = TRUE, !.user = u,
                                 !.cancelled = TRUE] IN
              g \in Flags /\ g.gained = f.gained /\ g.newUser /\ g.user = u
BY DEF Flags

LEMMA RestartFacts ==
    ASSUME NEW f \in Flags
    PROVE  /\ LET g == [f EXCEPT !.reset = FALSE] IN
              g \in Flags /\ g.gained = f.gained /\ g.newUser = f.newUser /\ g.user = f.user
           /\ LET g == [f EXCEPT !.cancelled = TRUE] IN
              g \in Flags /\ g.gained = f.gained /\ g.newUser = f.newUser /\ g.user = f.user
           /\ LET g == [f EXCEPT !.user = NoUser, !.newUser = FALSE, !.reset = FALSE] IN
              g \in Flags /\ g.gained = f.gained /\ ~g.newUser /\ g.user = NoUser
BY DEF Flags

USE DEF BusTypeOK, AuthTypeOK, Rest, Once, Grants, Choice, procVars, authVars

(* A state at rest, and one where an attempt begins, is well typed. *)
LEMMA RestTyped == ASSUME AtRest, flags' \in Flags PROVE AuthTypeOK'
<1>1. tries' \in 0 .. POLICYKITKDE_MAX_TRY - 1
      BY DEF AtRest
<1>2. quit' \in BOOLEAN /\ nest' = "idle" /\ helper' = "none"
      BY DEF AtRest
<1>3. helperUser' \in User \cup {NoUser} /\ combo' \in User \cup {NoUser}
      BY DEF AtRest
<1> QED BY <1>1, <1>2, <1>3

LEMMA AttemptTyped ==
    ASSUME NEW r, NEW f, NEW n \in 0 .. POLICYKITKDE_MAX_TRY - 1,
           Attempt(r, f, n), flags' \in Flags
    PROVE  AuthTypeOK'
<1>1. tries' \in 0 .. POLICYKITKDE_MAX_TRY - 1
      BY DEF Attempt
<1>2. quit' \in BOOLEAN /\ nest' = "starting" /\ helper' = "started"
      BY DEF Attempt
<1>3. helperUser' \in User \cup {NoUser} /\ combo' \in User \cup {NoUser}
      BY DEF Attempt
<1> QED BY <1>1, <1>2, <1>3

LEMMA InitIInv == ASSUME Init PROVE IInv
<1>1. /\ flags \in Flags
      /\ ~flags.newUser /\ flags.user = NoUser
      BY DEF Init, Flags
<1>2. BusTypeOK
      BY DEF Init
<1>3. AuthTypeOK
  <2>1. tries \in 0 .. POLICYKITKDE_MAX_TRY - 1
        BY DEF Init
  <2>2. quit \in BOOLEAN /\ nest = "idle" /\ helper = "none"
        BY DEF Init
  <2> QED BY <1>1, <2>1, <2>2 DEF Init
<1>4. Rest /\ Once /\ Grants /\ Choice
      BY <1>1 DEF Init
<1> QED BY <1>2, <1>3, <1>4 DEF IInv

-----------------------------------------------------------------------------
(* Every action preserves the invariant.                                   *)

(* The steps within an attempt leave the process and its requests alone.   *)
LEMMA WithinIInv ==
    ASSUME IInv, UNCHANGED procVars, authdb \subseteq authdb', authdb' \subseteq Request,
           nest # "idle", nest' # "idle", AuthTypeOK', Choice',
           flags'.gained \/ helper' = "success" => active \in authdb'
    PROVE  IInv'
<1>1. BusTypeOK' /\ Rest' /\ Grants'
      BY DEF IInv
<1>2. Once'
      BY DEF IInv
<1> QED BY <1>1, <1>2 DEF IInv

LEMMA HelperIInv ==
    ASSUME IInv,
           \/ EnterLoop
           \/ HelperStep
           \/ HelperCrashes
           \/ SigchldHandler
           \/ Accepted
    PROVE  IInv'
<1>1. nest # "idle" => InProgress
      BY DEF IInv
<1>2. CASE EnterLoop \/ (\E prompt \in Prompts : Prompt(prompt)) \/ Accepted
  <2>1. /\ UNCHANGED <<procVars, flags, authdb>>
        /\ nest # "idle" /\ nest' \in {"loop", "prompt"} /\ quit' \in BOOLEAN
        /\ tries' = tries /\ helperUser' = helperUser
        /\ helper' \in {helper, "verifying"}
        BY <1>2 DEF IInv, EnterLoop, Prompt, Accepted
  <2>2. combo' \in {combo, flags.user} /\ flags.user \in User \cup {NoUser}
        BY <1>2 DEF IInv, EnterLoop, Prompt, Accepted, Flags
  <2>3. AuthTypeOK' /\ Choice'
        BY <2>1, <2>2 DEF IInv
  <2>4. flags'.gained \/ helper' = "success" => active \in authdb'
        BY <1>1, <2>1 DEF IInv
  <2> QED BY <2>1, <2>3, <2>4, WithinIInv DEF IInv
<1>3. ASSUME NEW u \in User, SelectAdminUser(u) PROVE IInv'
  <2>1. flags.user \in User \cup {NoUser}
        BY DEF IInv, Flags
  <2>2. AuthTypeOK' /\ Choice'
        BY <1>3, <2>1 DEF IInv, SelectAdminUser
  <2>3. flags'.gained \/ helper' = "success" => active \in authdb'
        BY <1>1, <1>3 DEF IInv, SelectAdminUser
  <2> QED BY <1>3, <2>2, <2>3, WithinIInv DEF IInv, SelectAdminUser
<1>4. ASSUME NEW code \in {"success", "failure", "bogus"}, HelperExits(code) PROVE IInv'
  <2>1. AuthTypeOK' /\ Choice'
        BY <1>4 DEF IInv, HelperExits
  <2>2. nest # "idle" /\ nest' = nest /\ active \in Request
        BY <1>1, <1>4 DEF IInv, HelperExits
  <2>3. authdb \subseteq authdb' /\ authdb' \subseteq Request
        BY <1>4, <2>2 DEF IInv, HelperExits
  <2>4. flags'.gained \/ helper' = "success" => active \in authdb'
        BY <1>1, <1>4, <2>2 DEF IInv, HelperExits
  <2> QED BY <1>4, <2>1, <2>2, <2>3, <2>4, WithinIInv DEF IInv, HelperExits
<1>5. CASE HelperCrashes
  <2>1. CASE nest = "idle"
    <3>1. BusTypeOK' /\ Rest' /\ Choice'
          BY <1>5 DEF IInv, HelperCrashes
    <3>2. AuthTypeOK' /\ Grants'
          BY <1>5, <2>1 DEF IInv, HelperCrashes
    <3>3. Once'
          BY <1>5 DEF IInv, HelperCrashes
    <3> QED BY <3>1, <3>2, <3>3 DEF IInv
  <2>2. CASE nest # "idle"
    <3>1. AuthTypeOK' /\ Choice'
          BY <1>5 DEF IInv, HelperCrashes
    <3>2. flags'.gained \/ helper' = "success" => active \in authdb'
          BY <1>1, <1>5, <2>2 DEF IInv, HelperCrashes
    <3> QED BY <1>5, <2>2, <3>1, <3>2, WithinIInv DEF IInv, HelperCrashes
  <2> QED BY <2>1, <2>2
<1>6. CASE SigchldHandler
  <2>1. PICK bogus \in BOOLEAN : flags' = PolkitGrantDone(flags, helper = "success", bogus)
        BY <1>6 DEF SigchldHandler
  <2>2. /\ flags' \in Flags /\ flags'.gained = (helper = "success")
        /\ flags'.newUser = flags.newUser /\ flags'.user = flags.user
    <3> DEFINE g == helper = "success"
    <3>1. g \in BOOLEAN /\ flags' = PolkitGrantDone(flags, g, bogus) /\ flags \in Flags
          BY <2>1 DEF IInv
    <3> HIDE DEF g
    <3>2. /\ flags' \in Flags /\ flags'.gained = g
          /\ flags'.newUser = flags.newUser /\ flags'.user = flags.user
          BY <3>1, DoneFacts
    <3> QED BY <3>2 DEF g
  <2>3. /\ helper' = "reaped" /\ quit' = TRUE
        /\ UNCHANGED <<procVars, nest, tries, helperUser, combo, authdb>>
        BY <1>6 DEF SigchldHandler
  <2>4. AuthTypeOK' /\ Choice'
        BY <2>2, <2>3 DEF IInv
  <2>5. BusTypeOK' /\ Rest'
        BY <2>3 DEF IInv
  <2>6. Once'
        BY <2>3 DEF IInv
  <2>7. Grants'
        BY <2>2, <2>3 DEF IInv
  <2> QED BY <2>4, <2>5, <2>6, <2>7 DEF IInv
<1> QED BY <1>2, <1>3, <1>4, <1>5, <1>6 DEF HelperStep

LEMMA UserIInv ==
    ASSUME IInv, Rejected \/ \E u \in User : UserSelected(u)
    PROVE  IInv'
<1>1. nest # "idle" => InProgress
      BY DEF IInv
<1>2. CASE Rejected
  <2> DEFINE f == [flags EXCEPT !.cancelled = TRUE]
  <2>1. f \in Flags /\ f.gained = flags.gained /\ f.newUser = flags.newUser /\ f.user = flags.user
        BY RestartFacts DEF IInv
  <2>2. CancelAuth(f)
        BY <1>2 DEF Rejected
  <2> HIDE DEF f
  <2>3. /\ flags' \in Flags /\ flags'.newUser = flags.newUser /\ flags'.user = flags.user
        /\ flags'.gained => flags.gained
        /\ helper' \in {"none", "reaped"} /\ quit' \in BOOLEAN
        BY <2>1, <2>2, CancelFacts DEF IInv
  <2>4. AuthTypeOK' /\ Choice'
        BY <1>2, <2>3 DEF IInv, Rejected
  <2>5. flags'.gained \/ helper' = "success" => active \in authdb'
        BY <1>1, <1>2, <2>3 DEF IInv, Rejected
  <2> QED BY <1>2, <2>4, <2>5, WithinIInv DEF IInv, Rejected
<1>3. ASSUME NEW u \in User, UserSelected(u) PROVE IInv'
  <2> DEFINE f == [flags EXCEPT !.newUser = TRUE, !.reset = TRUE, !.user = u,
                                !.cancelled = TRUE]
  <2>1. f \in Flags /\ f.gained = flags.gained /\ f.newUser /\ f.user = u
        BY FlagsFacts DEF IInv
  <2>2. CancelAuth(f)
        BY <1>3 DEF UserSelected
  <2> HIDE DEF f
  <2>3. /\ flags' \in Flags /\ flags'.newUser /\ flags'.user = u
        /\ flags'.gained => flags.gained
        /\ helper' \in {"none", "reaped"} /\ quit' \in BOOLEAN
        BY <2>1, <2>2, CancelFacts DEF IInv
  <2>4. AuthTypeOK' /\ Choice'
        BY <1>3, <2>3 DEF IInv, UserSelected
  <2>5. flags'.gained \/ helper' = "success" => active \in authdb'
        BY <1>1, <1>3, <2>3 DEF IInv, UserSelected
  <2> QED BY <1>3, <2>4, <2>5, WithinIInv DEF IInv, UserSelected
<1> QED BY <1>2, <1>3

(* obtainAuthorization is left with an answer. *)
LEMMA LeaveIInv ==
    ASSUME IInv, InProgress, AtRest, running' = running, inbox' = inbox,
           timer' \in BOOLEAN, flags' \in Flags, Choice',
           UNCHANGED authdb,
           NEW o \in {"gained", "denied", "error"},
           reply' = [reply EXCEPT ![active] = o],
           o = "gained" => flags.gained
    PROVE  IInv'
<1>1. active \in Request /\ running
      BY DEF IInv
<1>2. reply'[active] = o /\ \A s \in Request \ {active} : reply'[s] = reply[s]
      BY <1>1 DEF IInv
<1>3. BusTypeOK'
      BY <1>1 DEF IInv, AtRest
<1>4. AuthTypeOK'
      BY RestTyped
<1>5. Rest'
      BY <1>1 DEF IInv, AtRest
<1>6. Once'
  <2>1. \A i \in 1 .. Len(inbox) : inbox[i] \in Request /\ inbox[i] # active
        BY DEF IInv
  <2>2. active' = NoReq /\ NoReq \notin Request
        BY DEF AtRest
  <2> QED BY <1>2, <2>1, <2>2 DEF IInv
<1>7. Grants'
      BY <1>2 DEF IInv, AtRest
<1> QED BY <1>3, <1>4, <1>5, <1>6, <1>7 DEF IInv

LEMMA ConcludeIInv ==
    ASSUME IInv, InProgress, NEW f \in Flags, Conclude(f),
           f.gained = flags.gained, f.newUser <=> f.user # NoUser,
           UNCHANGED <<running, inbox, authdb>>
    PROVE  IInv'
<1>1. /\ AtRest /\ timer' \in BOOLEAN /\ flags' = f
      /\ reply' = [reply EXCEPT ![active] = IF f.gained THEN "gained" ELSE "denied"]
      BY DEF Conclude
<1> QED BY <1>1, LeaveIInv

LEMMA EndsIInv == ASSUME IInv, ProcessEnds PROVE IInv'
<1>1. AuthTypeOK'
      BY RestTyped DEF IInv, ProcessEnds
<1>4. BusTypeOK'
      BY DEF IInv, ProcessEnds, AtRest
<1>2. Rest' /\ Choice' /\ Grants'
      BY DEF IInv, ProcessEnds, AtRest
<1>3. Once'
      BY DEF IInv, ProcessEnds, AtRest
<1> QED BY <1>1, <1>2, <1>3, <1>4 DEF IInv

LEMMA TryAgainIInv ==
    ASSUME IInv, InProgress, NEW f \in Flags, NEW n \in 0 .. 2, TryAgain(f, n),
           f.newUser <=> f.user # NoUser
    PROVE  IInv'
<1> DEFINE g == [f EXCEPT !.gained = FALSE, !.bogus = FALSE, !.cancelled = FALSE]
<1>1. g \in Flags /\ ~g.gained /\ (g.newUser <=> g.user # NoUser)
      BY FreshFacts
<1>2. CASE Attempt(active, f, n) /\ UNCHANGED reply
  <2>1. flags' = g
        BY <1>2 DEF Attempt
  <2> HIDE DEF g
  <2>2. AuthTypeOK' /\ Choice'
        BY <1>1, <1>2, <2>1, AttemptTyped
  <2>3. UNCHANGED procVars /\ nest' # "idle" /\ helper' = "started" /\ nest # "idle"
        BY <1>2 DEF Attempt, TryAgain, IInv
  <2> QED BY <1>1, <2>1, <2>2, <2>3, WithinIInv DEF IInv, TryAgain
<1>3. CASE InitiateFails(active, f)
  <2>1. flags' = g /\ AtRest /\ reply' = [reply EXCEPT ![active] = "error"]
        BY <1>3 DEF InitiateFails
  <2> HIDE DEF g
  <2>2. flags' \in Flags /\ Choice'
        BY <1>1, <2>1
  <2> QED BY <2>1, <2>2, LeaveIInv DEF TryAgain, IInv
<1> QED BY <1>2, <1>3 DEF TryAgain

LEMMA LoopReturnsIInv == ASSUME IInv, LoopReturns PROVE IInv'
<1>1. InProgress /\ flags \in Flags /\ tries \in 0 .. 2
      BY DEF IInv, LoopReturns, RestartForUser, AttemptFailed, AttemptBogus, AttemptDecided,
             LoopReturned
<1>2. CASE RestartForUser
  <2> DEFINE f == [flags EXCEPT !.reset = FALSE]
  <2>1. f \in Flags /\ f.newUser = flags.newUser /\ f.user = flags.user
        BY <1>1, RestartFacts
  <2>2. TryAgain(f, tries)
        BY <1>2 DEF RestartForUser
  <2> HIDE DEF f
  <2>3. f.newUser <=> f.user # NoUser
        BY <2>1 DEF IInv
  <2> QED BY <1>1, <2>1, <2>2, <2>3, TryAgainIInv
<1>3. CASE AttemptFailed
  <2>1. CASE tries + 1 < 3 /\ TryAgain(flags, tries + 1)
        BY <1>1, <2>1, TryAgainIInv DEF IInv
  <2>2. CASE Conclude(flags) /\ UNCHANGED <<running, inbox, authdb>>
        BY <1>1, <2>2, ConcludeIInv DEF IInv
  <2> QED BY <1>3, <2>1, <2>2, EndsIInv DEF AttemptFailed
<1>4. CASE AttemptBogus
      BY <1>1, <1>4, ConcludeIInv DEF AttemptBogus, IInv
<1>5. CASE AttemptDecided
      BY <1>1, <1>5, RestartFacts, ConcludeIInv DEF AttemptDecided, IInv
<1> QED BY <1>2, <1>3, <1>4, <1>5 DEF LoopReturns

-----------------------------------------------------------------------------
(* The calls.                                                              *)

LEMMA DispatchFacts ==
    ASSUME IInv, Dispatch
    PROVE  /\ Head(inbox) \in Request
           /\ reply[Head(inbox)] = "none" /\ active # Head(inbox)
           /\ inbox' \in Seq(Request)
           /\ \A i \in 1 .. Len(inbox') : /\ reply[inbox'[i]] = "none"
                                          /\ inbox'[i] # active
                                          /\ inbox'[i] # Head(inbox)
           /\ \A i, j \in 1 .. Len(inbox') : inbox'[i] = inbox'[j] => i = j
<1>1. /\ inbox \in Seq(Request) /\ inbox # <<>>
      /\ inbox' \in Seq(Request) /\ Len(inbox') = Len(inbox) - 1
      /\ Head(inbox) = inbox[1] /\ Len(inbox) \in Nat \ {0}
      /\ \A i \in 1 .. Len(inbox') : inbox'[i] = inbox[i + 1]
      BY DEF IInv, Dispatch
<1>2. /\ 1 \in 1 .. Len(inbox)
      /\ \A i \in 1 .. Len(inbox') : i + 1 \in 1 .. Len(inbox) /\ i + 1 # 1
      BY <1>1
<1>3. Head(inbox) \in Request /\ reply[Head(inbox)] = "none" /\ active # Head(inbox)
      BY <1>1, <1>2 DEF IInv
<1>4. ASSUME NEW i \in 1 .. Len(inbox')
      PROVE  reply[inbox'[i]] = "none" /\ inbox'[i] # active /\ inbox'[i] # Head(inbox)
      BY <1>1, <1>2 DEF IInv
<1>5. ASSUME NEW i \in 1 .. Len(inbox'), NEW j \in 1 .. Len(inbox'), inbox'[i] = inbox'[j]
      PROVE  i = j
  <2> HIDE DEF Once
  <2>1. \A m, n \in 1 .. Len(inbox) : inbox[m] = inbox[n] => m = n
        BY DEF IInv, Once
  <2>2. i + 1 \in 1 .. Len(inbox) /\ j + 1 \in 1 .. Len(inbox)
        BY <1>2
  <2>3. inbox[i + 1] = inbox[j + 1]
        BY <1>1, <1>5
  <2>4. i + 1 = j + 1
        BY <2>1, <2>2, <2>3
  <2> QED BY <2>4
<1> QED BY <1>1, <1>3, <1>4, <1>5

(* A call that is answered when it is dispatched. *)
LEMMA AnswerIInv ==
    ASSUME IInv, Dispatch, NEW o \in {"busy", "error"},
           reply' = [reply EXCEPT ![Head(inbox)] = o],
           active' = active, nest' = nest, timer' \in BOOLEAN,
           InProgress => timer' = timer, ~running => timer' = timer,
           AuthTypeOK', Choice',
           InProgress /\ (flags'.gained \/ helper' = "success")
              => flags.gained \/ helper = "success"
    PROVE  IInv'
<1> DEFINE r == Head(inbox)
<1>1. /\ r \in Request /\ active # r /\ running' = running /\ authdb' = authdb
      /\ inbox' \in Seq(Request)
      /\ \A i \in 1 .. Len(inbox') : /\ inbox'[i] \in Request
                                     /\ reply[inbox'[i]] = "none"
                                     /\ inbox'[i] # active
                                     /\ inbox'[i] # r
      /\ \A i, j \in 1 .. Len(inbox') : inbox'[i] = inbox'[j] => i = j
      BY DispatchFacts DEF Dispatch
<1>2. reply'[r] = o /\ \A s \in Request \ {r} : reply'[s] = reply[s]
      BY <1>1 DEF IInv
<1> HIDE DEF r
<1>3. BusTypeOK'
      BY <1>1 DEF IInv
<1>4. Rest'
      BY <1>1 DEF IInv
<1>5. Once'
  <2>1. InProgress => active \in Request \ {r}
        BY <1>1 DEF IInv
  <2> QED BY <1>1, <1>2, <2>1 DEF IInv
<1>6. Grants'
      BY <1>1, <1>2 DEF IInv
<1> QED BY <1>3, <1>4, <1>5, <1>6 DEF IInv

LEMMA CallIInv == ASSUME IInv, NEW r \in Request, Call(r) PROVE IInv'
<1>1. /\ inbox' = Append(inbox, r) /\ reply[r] = "none" /\ active # r
      /\ \A i \in 1 .. Len(inbox) : inbox[i] # r
      BY DEF Call, Sent, Queued
<1>2. /\ inbox' \in Seq(Request) /\ Len(inbox') = Len(inbox) + 1
      /\ inbox'[Len(inbox) + 1] = r /\ Len(inbox) \in Nat
      /\ \A i \in 1 .. Len(inbox) : inbox'[i] = inbox[i]
      BY <1>1 DEF IInv
<1>3. \A i \in 1 .. Len(inbox') : i \in 1 .. Len(inbox) \/ i = Len(inbox) + 1
      BY <1>2
<1>4. Once'
  <2>1. \A i \in 1 .. Len(inbox') : reply[inbox'[i]] = "none" /\ inbox'[i] # active
        BY <1>1, <1>2, <1>3 DEF IInv
  <2>2. ASSUME NEW i \in 1 .. Len(inbox'), NEW j \in 1 .. Len(inbox'), inbox'[i] = inbox'[j]
        PROVE  i = j
        BY <1>1, <1>2, <1>3, <2>2 DEF IInv
  <2> QED BY <1>2, <2>1, <2>2 DEF IInv, Call
<1>5. BusTypeOK' /\ AuthTypeOK' /\ Rest' /\ Grants' /\ Choice'
      BY DEF Call, IInv
<1> QED BY <1>4, <1>5 DEF IInv

LEMMA HandleIInv == ASSUME IInv, Handle PROVE IInv'
<1>1. CASE ObtainBusy
  <2>1. AuthTypeOK' /\ Choice' /\ timer' = timer /\ timer' \in BOOLEAN
        BY <1>1 DEF ObtainBusy, IInv
  <2> QED BY <1>1, <2>1, AnswerIInv DEF ObtainBusy, IInv
<1>2. CASE ObtainFails
  <2>1. AuthTypeOK' /\ Choice' /\ running
        BY <1>2 DEF ObtainFails, Dispatch, IInv
  <2> QED BY <1>2, <2>1, AnswerIInv DEF ObtainFails, IInv
<1>3. CASE ObtainAuthorization
  <2> DEFINE g == [flags EXCEPT !.gained = FALSE, !.bogus = FALSE, !.cancelled = FALSE]
  <2>1. g \in Flags /\ ~g.gained /\ (g.newUser <=> g.user # NoUser)
        BY FreshFacts DEF IInv
  <2>2. Dispatch /\ ~InProgress /\ timer' = FALSE
        BY <1>3 DEF ObtainAuthorization
  <2>3. CASE Attempt(Head(inbox), flags, 0) /\ UNCHANGED reply
    <3>1. flags' = g /\ active' = Head(inbox) /\ nest' = "starting" /\ helper' = "started"
          BY <2>3 DEF Attempt
    <3> HIDE DEF g
    <3>2. AuthTypeOK' /\ Choice'
          BY <2>1, <2>3, <3>1, AttemptTyped, 0 \in 0 .. POLICYKITKDE_MAX_TRY - 1
    <3>3. BusTypeOK'
          BY <2>2, <2>3, <3>1, DispatchFacts DEF IInv, Dispatch
    <3>4. Rest' /\ Grants'
          BY <2>1, <2>2, <2>3, <3>1, DispatchFacts DEF IInv, Dispatch
    <3>5. Once'
          BY <2>2, <2>3, <3>1, DispatchFacts
    <3> QED BY <3>2, <3>3, <3>4, <3>5 DEF IInv
  <2>4. CASE InitiateFails(Head(inbox), flags)
    <3>1. flags' = g /\ AtRest /\ reply' = [reply EXCEPT ![Head(inbox)] = "error"]
          BY <2>4 DEF InitiateFails
    <3> HIDE DEF g
    <3>2. active' = active /\ nest' = nest
          BY <2>2, <3>1 DEF AtRest, IInv
    <3>3. AuthTypeOK' /\ Choice'
          BY <2>1, <3>1, RestTyped
    <3>4. running
          BY <2>2 DEF Dispatch
    <3> QED BY <2>2, <3>1, <3>2, <3>3, <3>4, AnswerIInv DEF IInv
  <2> QED BY <1>3, <2>3, <2>4 DEF ObtainAuthorization
<1> QED BY <1>1, <1>2, <1>3 DEF Handle

LEMMA StepIInv == IInv /\ [Next]_vars => IInv'
<1> SUFFICES ASSUME IInv, [Next]_vars PROVE IInv'
    OBVIOUS
<1>1. CASE UNCHANGED vars
  <2>1. BusTypeOK' /\ AuthTypeOK' /\ Rest' /\ Grants' /\ Choice'
        BY <1>1 DEF vars, IInv
  <2>2. Once'
        BY <1>1 DEF vars, IInv
  <2> QED BY <2>1, <2>2 DEF IInv
<1>2. CASE Next
      BY <1>2, CallIInv, EndsIInv, HandleIInv, HelperIInv, UserIInv, LoopReturnsIInv
      DEF Next, QuitSlot, UserStep
<1> QED BY <1>1, <1>2

-----------------------------------------------------------------------------
(* What follows.                                                           *)

HIDE DEF BusTypeOK, AuthTypeOK, Rest, Once, Grants, Choice

(* The invariant holds in every reachable state. *)
THEOREM Invariance == Spec => []IInv
BY InitIInv, StepIInv, PTL DEF Spec

(* The variables have their types. *)
THEOREM TypeCorrect == Spec => []TypeOK
<1>1. IInv => TypeOK
      BY DEF IInv, BusTypeOK, AuthTypeOK, Once, TypeOK
<1> QED BY <1>1, Invariance, PTL

(* A caller told that it gained the authorization has one: no rejected     *)
(* dialog, restart, crash of the helper or early signal leaves             *)
(* m_gainedPrivilege set without it.                                       *)
THEOREM GrantsAreReal == Spec => []GainedMeansAuthorized
<1>1. IInv => GainedMeansAuthorized
      BY DEF IInv, Grants, GainedMeansAuthorized
<1> QED BY <1>1, Invariance, PTL

(* The exit timer never ends the agent under an authentication. *)
THEOREM TimerStopped == Spec => []TimerOnlyWhenInactive
<1>1. IInv => TimerOnlyWhenInactive
      BY DEF IInv, Rest, TimerOnlyWhenInactive
<1> QED BY <1>1, Invariance, PTL

(* Where PAM asks for nothing but the password, the dialog names the       *)
(* administrator whose password is verified, through every choice of       *)
(* another one.                                                            *)
LEMMA NamedStep ==
    ASSUME Prompts = {"Password: "}, IInv, Named, [Next]_vars
    PROVE  Named'
<1> USE DEF Named, PromptNamesHelperUser
<1>1. flags \in Flags /\ (flags.newUser <=> flags.user # NoUser)
      BY DEF IInv, AuthTypeOK, Choice
<1>2. ASSUME AtRest \/ \E r, f, n : Attempt(r, f, n) PROVE Named'
      BY <1>2 DEF AtRest, Attempt
<1>3. ASSUME UNCHANGED <<nest, flags, helper, helperUser, combo>> PROVE Named'
      BY <1>3
<1>4. CASE Handle
      BY <1>2, <1>3, <1>4 DEF Handle, ObtainBusy, ObtainFails, ObtainAuthorization,
         InitiateFails, authVars
<1>5. CASE LoopReturns
      BY <1>2, <1>5 DEF LoopReturns, RestartForUser, AttemptFailed, AttemptBogus,
         AttemptDecided, TryAgain, InitiateFails, Conclude, ProcessEnds
<1>6. ASSUME NEW u \in User, SelectAdminUser(u) PROVE Named'
      BY <1>1, <1>6 DEF SelectAdminUser
<1>7. ASSUME NEW prompt \in Prompts, Prompt(prompt) PROVE Named'
      BY <1>1, <1>7 DEF Prompt
<1>8. CASE Rejected \/ \E u \in User : UserSelected(u)
  <2>1. \E f \in Flags : CancelAuth(f)
        BY <1>1, <1>8, FlagsFacts, RestartFacts DEF Rejected, UserSelected
  <2>2. helper' \in {"none", "reaped"}
        BY <2>1, CancelFacts DEF IInv
  <2> QED BY <2>2
<1>9. CASE EnterLoop \/ Accepted \/ HelperCrashes \/ SigchldHandler
           \/ \E code \in {"success", "failure", "bogus"} : HelperExits(code)
      BY <1>9 DEF EnterLoop, Accepted, HelperCrashes, SigchldHandler, HelperExits
<1>10. CASE UNCHANGED vars \/ QuitSlot \/ \E r \in Request : Call(r)
      BY <1>2, <1>3, <1>10 DEF vars, authVars, QuitSlot, ProcessEnds, Call
<1> QED BY <1>4, <1>5, <1>6, <1>7, <1>8, <1>9, <1>10 DEF Next, HelperStep, UserStep

(* The same, of the specification.                                         *)
THEOREM AdministratorAgrees ==
    ASSUME Prompts = {"Password: "} PROVE Spec => []PromptNamesHelperUser
<1>1. Init => Named
      BY DEF Init, Named, PromptNamesHelperUser
<1>2. IInv /\ Named /\ [Next]_vars => Named'
      BY NamedStep
<1>3. Named => PromptNamesHelperUser
      BY DEF Named
<1> QED BY <1>1, <1>2, <1>3, Invariance, PTL DEF Spec

(* The user has POLICYKITKDE_MAX_TRY attempts unless the dialog was closed *)
(* or the helper confused.                                                 *)
THEOREM DenialHasCause == Spec => DeniedForCause
<1>1. IInv /\ [Next]_vars
      => [\A r \in Request :
            active = r /\ reply[r] = "none" /\ reply'[r] = "denied"
            => flags.cancelled \/ flags.bogus \/ tries = POLICYKITKDE_MAX_TRY - 1]_vars
  <2> SUFFICES ASSUME IInv, Next, NEW r \in Request,
                      active = r, reply[r] = "none", reply'[r] = "denied"
               PROVE  flags.cancelled \/ flags.bogus \/ tries = POLICYKITKDE_MAX_TRY - 1
      OBVIOUS
  <2>1. reply \in [Request -> {"none", "gained", "denied", "busy", "error", "lost"}]
        BY DEF IInv, BusTypeOK
  <2>2. tries \in 0 .. 2
        BY DEF IInv, AuthTypeOK
  <2>3. reply' # reply
        OBVIOUS
  <2>4. ASSUME NEW s, NEW o, o # "denied", reply' = [reply EXCEPT ![s] = o] PROVE FALSE
        BY <2>1, <2>4
  <2>5. ~ProcessEnds
        BY <2>1 DEF ProcessEnds
  <2>7. LoopReturns
        BY <2>3, <2>4, <2>5 DEF Next, QuitSlot, Handle, ObtainBusy, ObtainFails,
           ObtainAuthorization, InitiateFails, HelperStep, UserStep, Call, EnterLoop,
           SelectAdminUser, Prompt, HelperExits, HelperCrashes, SigchldHandler, Accepted,
           Rejected, UserSelected, procVars
  <2>8. CASE RestartForUser
        BY <2>3, <2>4, <2>8 DEF RestartForUser, TryAgain, InitiateFails
  <2>9. CASE AttemptFailed
    <3>1. CASE TryAgain(flags, tries + 1)
          BY <2>3, <2>4, <3>1 DEF TryAgain, InitiateFails
    <3>2. CASE tries + 1 >= POLICYKITKDE_MAX_TRY
          BY <2>2, <3>2
    <3> QED BY <2>9, <3>1, <3>2 DEF AttemptFailed
  <2>10. CASE AttemptBogus
        BY <2>10 DEF AttemptBogus, Bogus
  <2>11. CASE AttemptDecided
    <3>1. flags.gained => reply' = [reply EXCEPT ![active] = "gained"]
          BY <2>11, RestartFacts DEF AttemptDecided, Conclude, IInv, AuthTypeOK
    <3> QED BY <2>4, <2>11, <3>1 DEF AttemptDecided, Failed, Bogus
  <2> QED BY <2>7, <2>8, <2>9, <2>10, <2>11 DEF LoopReturns
<1> QED BY <1>1, Invariance, PTL DEF Spec, DeniedForCause

-----------------------------------------------------------------------------
(* The agent implements AuthAgent.                                         *)

(* What is known of a call that is dispatched, sent or waiting.            *)
LEMMA QueuedHead ==
    ASSUME IInv, Dispatch
    PROVE  /\ Head(inbox) \in Request /\ Queued(Head(inbox))
           /\ reply[Head(inbox)] = "none" /\ active # Head(inbox)
           /\ \A s \in Request : Queued(s)' <=> Queued(s) /\ s # Head(inbox)
<1>1. /\ inbox \in Seq(Request) /\ Head(inbox) = inbox[1] /\ Len(inbox) \in Nat \ {0}
      /\ inbox' \in Seq(Request) /\ Len(inbox') = Len(inbox) - 1
      /\ \A i \in 1 .. Len(inbox') : inbox'[i] = inbox[i + 1]
      BY DEF Dispatch, IInv, Once
<1>2. /\ \A i \in 1 .. Len(inbox') : i + 1 \in 1 .. Len(inbox)
      /\ \A i \in 1 .. Len(inbox) :
            i = 1 \/ (i - 1 \in 1 .. Len(inbox') /\ inbox'[i - 1] = inbox[i])
      /\ 1 \in 1 .. Len(inbox)
      BY <1>1
<1>3. /\ Head(inbox) \in Request /\ reply[Head(inbox)] = "none" /\ active # Head(inbox)
      /\ \A i \in 1 .. Len(inbox') : inbox'[i] # Head(inbox)
      BY DispatchFacts
<1>4. Queued(Head(inbox))
      BY <1>1, <1>2 DEF Queued
<1>5. ASSUME NEW s \in Request, Queued(s)' PROVE Queued(s) /\ s # Head(inbox)
  <2>1. PICK i \in 1 .. Len(inbox') : inbox'[i] = s
        BY <1>5 DEF Queued
  <2> QED BY <2>1, <1>1, <1>2, <1>3 DEF Queued
<1>6. ASSUME NEW s \in Request, Queued(s), s # Head(inbox) PROVE Queued(s)'
  <2>1. PICK i \in 1 .. Len(inbox) : inbox[i] = s
        BY <1>6 DEF Queued
  <2>2. i - 1 \in 1 .. Len(inbox') /\ inbox'[i - 1] = s
        BY <2>1, <1>1, <1>2, <1>6
  <2> QED BY <2>2 DEF Queued
<1> QED BY <1>3, <1>4, <1>5, <1>6

LEMMA QueuedCall ==
    ASSUME IInv, NEW r \in Request, Call(r)
    PROVE  /\ ~Queued(r) /\ reply[r] = "none" /\ active # r
           /\ \A s \in Request : Queued(s)' <=> Queued(s) \/ s = r
<1>1. /\ inbox \in Seq(Request) /\ inbox' = Append(inbox, r)
      /\ ~Queued(r) /\ reply[r] = "none" /\ active # r
      BY DEF Call, Sent, IInv, Once
<1>2. /\ Len(inbox') = Len(inbox) + 1 /\ Len(inbox) \in Nat
      /\ \A i \in 1 .. Len(inbox) : i \in 1 .. Len(inbox') /\ inbox'[i] = inbox[i]
      /\ Len(inbox) + 1 \in 1 .. Len(inbox') /\ inbox'[Len(inbox) + 1] = r
      /\ \A i \in 1 .. Len(inbox') : i \in 1 .. Len(inbox) \/ i = Len(inbox) + 1
      BY <1>1
<1>3. ASSUME NEW s \in Request PROVE Queued(s)' <=> Queued(s) \/ s = r
      BY <1>2 DEF Queued
<1> QED BY <1>1, <1>3

LEMMA QueuedFacts ==
    ASSUME IInv, NEW r \in Request, Queued(r)
    PROVE  reply[r] = "none" /\ active # r
BY DEF Queued, IInv, Once

(* outcome depends on three things.                                        *)
LEMMA SameOutcome ==
    UNCHANGED <<reply, active, inbox>> => UNCHANGED outcome
BY DEF outcome, Queued

LEMMA OutcomeChanges ==
    ASSUME NEW r \in Request, NEW o,
           outcome'[r] = o, \A s \in Request \ {r} : outcome'[s] = outcome[s]
    PROVE  outcome' = [outcome EXCEPT ![r] = o]
<1>1. outcome = [s \in Request |-> outcome[s]] /\ outcome' = [s \in Request |-> outcome'[s]]
      BY DEF outcome
<1> QED BY <1>1

LEMMA SubmitStep == ASSUME IInv, NEW r \in Request, Call(r) PROVE Agent!Submit(r)
<1>1. outcome[r] = "unsent"
      BY QueuedCall DEF outcome
<1>2. outcome'[r] = "waiting" /\ \A s \in Request \ {r} : outcome'[s] = outcome[s]
      BY QueuedCall DEF outcome, Call
<1> QED BY <1>1, <1>2, OutcomeChanges DEF Agent!Submit

LEMMA RefuseStep ==
    ASSUME IInv, Dispatch, NEW o \in {"busy", "error"},
           reply' = [reply EXCEPT ![Head(inbox)] = o], active' = active
    PROVE  Agent!Refuse(Head(inbox))
<1> DEFINE r == Head(inbox)
<1>1. /\ r \in Request /\ Queued(r) /\ reply[r] = "none" /\ active # r
      /\ \A s \in Request : Queued(s)' <=> Queued(s) /\ s # r
      BY QueuedHead
<1>2. reply'[r] = o /\ \A s \in Request \ {r} : reply'[s] = reply[s]
      BY <1>1 DEF IInv, BusTypeOK
<1> HIDE DEF r
<1>3. outcome[r] = "waiting"
      BY <1>1 DEF outcome
<1>4. outcome'[r] = IF o = "busy" THEN "refused" ELSE "denied"
      BY <1>1, <1>2 DEF outcome
<1>5. \A s \in Request \ {r} : outcome'[s] = outcome[s]
      BY <1>1, <1>2 DEF outcome
<1> QED BY <1>1, <1>3, <1>4, <1>5, OutcomeChanges DEF Agent!Refuse, r

LEMMA BeginStep ==
    ASSUME IInv, Dispatch, ~InProgress, active' = Head(inbox), reply' = reply
    PROVE  Agent!Begin(Head(inbox))
<1> DEFINE r == Head(inbox)
<1>1. /\ r \in Request /\ Queued(r) /\ reply[r] = "none" /\ active = NoReq
      /\ \A s \in Request : Queued(s)' <=> Queued(s) /\ s # r
      BY QueuedHead DEF InProgress
<1> HIDE DEF r
<1>2. \A s \in Request : active # s /\ s # NoReq
      BY <1>1, ConstantsOK
<1>3. outcome[r] = "waiting" /\ Agent!Authenticating = {}
      BY <1>1, <1>2 DEF outcome, Agent!Authenticating, IInv, BusTypeOK
<1>4. outcome'[r] = "authenticating" /\ \A s \in Request \ {r} : outcome'[s] = outcome[s]
      BY <1>1, <1>2 DEF outcome, r
<1> QED BY <1>1, <1>3, <1>4, OutcomeChanges DEF Agent!Begin, r

LEMMA ConcludeStep ==
    ASSUME IInv, InProgress, active' = NoReq, inbox' = inbox,
           NEW o \in {"gained", "denied", "error"},
           reply' = [reply EXCEPT ![active] = o]
    PROVE  Agent!Conclude(active)
<1>1. active \in Request /\ reply[active] = "none" /\ ~Queued(active)
      BY QueuedFacts DEF IInv, BusTypeOK, Once, InProgress
<1>2. reply'[active] = o /\ \A s \in Request \ {active} : reply'[s] = reply[s]
      BY <1>1 DEF IInv, BusTypeOK
<1>3. outcome[active] = "authenticating"
      BY <1>1 DEF outcome
<1>4. outcome'[active] = IF o = "gained" THEN "gained" ELSE "denied"
      BY <1>1, <1>2 DEF outcome
<1>5. \A s \in Request \ {active} : outcome'[s] = outcome[s]
      BY <1>1, <1>2, ConstantsOK DEF outcome, Queued
<1> QED BY <1>1, <1>3, <1>4, <1>5, OutcomeChanges DEF Agent!Conclude

LEMMA DieStep == ASSUME IInv, ProcessEnds PROVE Agent!Die
<1>1. /\ reply' = [r \in Request |->
                      IF reply[r] = "none" /\ Sent(r) THEN "lost" ELSE reply[r]]
      /\ active' = NoReq /\ \A r \in Request : ~Queued(r)' /\ r # NoReq
      BY ConstantsOK DEF ProcessEnds, AtRest, Queued
<1>2. ASSUME NEW r \in Request
      PROVE  outcome'[r] = IF outcome[r] \in {"waiting", "authenticating"}
                           THEN "lost" ELSE outcome[r]
  <2>1. reply[r] \in {"none", "gained", "denied", "busy", "error", "lost"}
        BY DEF IInv, BusTypeOK
  <2> QED BY <1>1, <2>1 DEF outcome, Sent
<1> QED BY <1>2 DEF Agent!Die, outcome

(* Every step of the agent is one of AuthAgent or leaves what callers can  *)
(* know alone.                                                             *)
LEMMA StepRefines == ASSUME IInv, [Next]_vars PROVE [Agent!Next]_outcome
<1>1. ASSUME NEW r \in Request, Call(r) PROVE Agent!Next
      BY <1>1, SubmitStep DEF Agent!Next
<1>2. CASE QuitSlot
      BY <1>2, DieStep DEF Agent!Next, QuitSlot
<1>3. CASE Handle
  <2>1. Dispatch /\ Head(inbox) \in Request
        BY <1>3, QueuedHead DEF Handle, ObtainBusy, ObtainFails, ObtainAuthorization
  <2>2. CASE ObtainBusy \/ ObtainFails
        BY <2>1, <2>2, RefuseStep DEF ObtainBusy, ObtainFails, Agent!Next
  <2>3. CASE ObtainAuthorization /\ InitiateFails(Head(inbox), flags)
        BY <2>1, <2>3, RefuseStep DEF ObtainAuthorization, InitiateFails, AtRest, InProgress,
           Agent!Next
  <2>4. CASE ObtainAuthorization /\ Attempt(Head(inbox), flags, 0) /\ UNCHANGED reply
        BY <2>1, <2>4, BeginStep DEF ObtainAuthorization, Attempt, Agent!Next
  <2> QED BY <1>3, <2>2, <2>3, <2>4 DEF Handle, ObtainAuthorization
<1>4. CASE LoopReturns
  <2>1. InProgress /\ active \in Request
        BY <1>4 DEF LoopReturns, RestartForUser, AttemptFailed, AttemptBogus, AttemptDecided,
           LoopReturned, IInv, Rest, BusTypeOK
  <2>2. ASSUME NEW f, NEW n, TryAgain(f, n) PROVE [Agent!Next]_outcome
    <3>1. CASE Attempt(active, f, n) /\ UNCHANGED reply
          BY <2>2, <3>1, SameOutcome DEF TryAgain, Attempt
    <3>2. CASE InitiateFails(active, f)
          BY <2>1, <2>2, <3>2, ConcludeStep DEF TryAgain, InitiateFails, AtRest, Agent!Next
    <3> QED BY <2>2, <3>1, <3>2 DEF TryAgain
  <2>3. ASSUME NEW f, Conclude(f), UNCHANGED inbox PROVE [Agent!Next]_outcome
    <3>1. \E o \in {"gained", "denied"} : reply' = [reply EXCEPT ![active] = o]
          BY <2>3 DEF Conclude
    <3> QED BY <2>1, <2>3, <3>1, ConcludeStep DEF Conclude, AtRest, Agent!Next
  <2>4. ASSUME ProcessEnds PROVE [Agent!Next]_outcome
        BY <2>4, DieStep DEF Agent!Next
  <2> QED BY <1>4, <2>2, <2>3, <2>4 DEF LoopReturns, RestartForUser, AttemptFailed,
             AttemptBogus, AttemptDecided
<1>5. CASE UNCHANGED <<reply, active, inbox>>
      BY <1>5, SameOutcome
<1>6. \/ \E r \in Request : Call(r)
      \/ QuitSlot \/ Handle \/ LoopReturns
      \/ UNCHANGED <<reply, active, inbox>>
      BY DEF Next, vars, procVars, HelperStep, UserStep, EnterLoop, SelectAdminUser, Prompt,
         HelperExits, HelperCrashes, SigchldHandler, Accepted, Rejected, UserSelected
<1> QED BY <1>1, <1>2, <1>3, <1>4, <1>5, <1>6

(* One request at a time and at most one answer for each: the agent is an  *)
(* AuthAgent, whatever goes wrong.                                         *)
THEOREM Refinement == Spec => ImplementsAuthAgent
<1>1. Init => Agent!Init
      BY ConstantsOK DEF Init, Agent!Init, outcome, Queued
<1>2. IInv /\ [Next]_vars => [Agent!Next]_outcome
      BY StepRefines
<1> QED BY <1>1, <1>2, Invariance, PTL DEF Spec, ImplementsAuthAgent, Agent!Spec

(* No caller is told twice: once the agent has answered a request, refused *)
(* it or died with it, nothing it does for another one changes what the    *)
(* caller was told, whatever went wrong.                                   *)
THEOREM AnswersAreFinal ==
    Spec => [][\A r \in Request : outcome[r] \in Agent!Answered
                                    => outcome'[r] = outcome[r]]_outcome
<1> DEFINE Final == \A r \in Request : outcome[r] \in Agent!Answered
                                          => outcome'[r] = outcome[r]
<1>1. ASSUME Agent!Next PROVE Final
  <2> SUFFICES ASSUME NEW r \in Request, outcome[r] \in Agent!Answered
               PROVE  outcome'[r] = outcome[r]
    OBVIOUS
  <2>1. DOMAIN outcome = Request
    BY DEF outcome
  <2>2. CASE Agent!Die
    BY <2>2 DEF Agent!Die, Agent!Answered
  <2>3. ASSUME NEW q \in Request,
               Agent!Submit(q) \/ Agent!Refuse(q) \/ Agent!Begin(q) \/ Agent!Conclude(q)
        PROVE  outcome'[r] = outcome[r]
    <3>1. q # r
      BY <2>3 DEF Agent!Submit, Agent!Refuse, Agent!Begin, Agent!Conclude, Agent!Answered
    <3>2. \E o : outcome' = [outcome EXCEPT ![q] = o]
      BY <2>3 DEF Agent!Submit, Agent!Refuse, Agent!Begin, Agent!Conclude
    <3> QED BY <2>1, <3>1, <3>2
  <2> QED BY <1>1, <2>2, <2>3 DEF Agent!Next
<1>2. [Agent!Next]_outcome => [Final]_outcome
      BY <1>1
<1> QED BY <1>2, Refinement, PTL DEF ImplementsAuthAgent, Agent!Spec

=============================================================================
