------------------------- MODULE GnomeManagerProofs -------------------------
(***************************************************************************)
(* Theorems about GnomeManager, for any number of callers, requests and    *)
(* administrators, with every fault.  The invariants of GnomeManager are   *)
(* not inductive: the conjuncts below say how the flags of UserData, the   *)
(* state of the helper, the innermost loop and the queue go together.      *)
(***************************************************************************)
EXTENDS GnomeManager, TLAPS

(* Which variables are at rest when.                                       *)
AtRest ==
    /\ ~running => ~InProgress /\ queue = <<>> /\ ~timer
    /\ InProgress <=> nest # "idle"
    /\ InProgress <=> helper # "none"
    /\ ~InProgress => ud = NoUd /\ ~quit /\ tries = 0
    /\ nest # "prompt" => answer = "none"
    /\ running /\ ~InProgress => timer = ~NoExit

(* A request is in the queue, authenticated or answered, once.             *)
Once ==
    /\ queue \in Seq(Request)
    /\ \A i \in 1 .. Len(queue) : reply[queue[i]] = "none" /\ queue[i] # active
    /\ \A i, j \in 1 .. Len(queue) : queue[i] = queue[j] => i = j
    /\ InProgress => reply[active] = "none"

(* The loop is quit exactly when the helper is gone, and only then are     *)
(* there reasons to end the attempt.                                       *)
Attempt ==
    /\ InProgress => (quit <=> helper = "reaped")
    /\ ud.cancelled \/ ud.bogus \/ ud.newUser => quit
    /\ nest = "shake" => quit
    /\ nest \in {"select", "prompt"} => helper \in Live \cup {"crashed", "reaped"}

Tries == IF nest = "shake" THEN tries \in 1 .. MaxTries ELSE tries \in 0 .. MaxTries - 1

(* Who destroyed the dialog. *)
Dialog ==
    /\ InProgress /\ ~ud.dialog => quit /\ (ud.cancelled \/ ud.bogus) /\ ~ud.gained /\ ~ud.newUser
    /\ nest \in {"select", "prompt"} /\ ~ud.dialog => ClientOf[active] \notin connected
    /\ nest = "shake" => ud.dialog
    /\ gone \cap connected = {}

(* The administrator. *)
Admin ==
    /\ ud.newUser => ud.user \in User
    /\ nest = "select" => helperUser = NoUser /\ helper \in {"typed", "crashed", "reaped"}
    /\ helper \in {"started", "typed"} => helperUser = NoUser
    /\ ud.user = Closed => nest = "select" \/ (ud.cancelled /\ quit /\ nest = "loop")
    /\ helper \in Unreaped /\ helperUser # NoUser => helperUser = ud.user /\ helperUser \in User

IInv == BusTypeOK /\ AuthTypeOK /\ AtRest /\ Once /\ Attempt /\ Tries /\ Dialog /\ Admin

-----------------------------------------------------------------------------
(* Lemmas about the operators the actions share.                           *)

USE ConstantsOK DEF MaxTries, Live, Exited, Unreaped, InProgress

(* The fields of a fresh UserData. *)
LEMMA NoUdFacts ==
    /\ NoUd \in UserData
    /\ ~NoUd.gained /\ ~NoUd.cancelled /\ ~NoUd.bogus /\ ~NoUd.newUser
    /\ NoUd.user = NoUser
BY DEF NoUd, UserData

(* conversation_done changes three fields. *)
LEMMA DoneFacts ==
    ASSUME NEW u \in UserData, NEW g \in BOOLEAN, NEW b \in BOOLEAN
    PROVE  LET d == ConversationDone(u, g, b) IN
           /\ d \in UserData
           /\ d.gained = g /\ d.bogus = b
           /\ d.dialog = (u.dialog /\ ~(b \/ u.cancelled))
           /\ d.cancelled = u.cancelled /\ d.newUser = u.newUser
           /\ d.user = u.user /\ d.shown = u.shown
BY DEF ConversationDone, UserData

(* Cancelling ends a live attempt without success, and touches nothing     *)
(* else.                                                                   *)
LEMMA CancelFacts ==
    ASSUME NEW u \in UserData, CancelAuth(u)
    PROVE  /\ ud' \in UserData
           /\ ud'.cancelled = u.cancelled /\ ud'.newUser = u.newUser
           /\ ud'.user = u.user
           /\ helper \in Unreaped =>
                 /\ helper' = "reaped" /\ quit' = TRUE
                 /\ ~ud'.gained /\ ~ud'.bogus
                 /\ ud'.dialog = (u.dialog /\ ~u.cancelled)
           /\ helper \notin Unreaped =>
                 helper' = helper /\ quit' = quit /\ ud' = u
<1>1. CASE helper \in Unreaped
  <2>1. /\ helper' = "reaped" /\ quit' = TRUE
        /\ ud' = ConversationDone(u, FALSE, FALSE)
    BY <1>1 DEF CancelAuth
  <2>. QED BY <1>1, <2>1, DoneFacts
<1>2. CASE helper \notin Unreaped
  BY <1>2 DEF CancelAuth
<1>. QED BY <1>1, <1>2

(* A new attempt starts without reasons to end. *)
LEMMA TryAgainFacts ==
    ASSUME NEW u \in UserData, TryAgain(u)
    PROVE  /\ ud' \in UserData
           /\ ~ud'.cancelled /\ ~ud'.bogus /\ ~ud'.newUser
           /\ ud'.dialog = u.dialog /\ ud'.user = u.user /\ ud'.gained = u.gained
           /\ helper' = "started" /\ quit' = FALSE /\ nest' = "loop"
           /\ helperUser' = NoUser /\ tries' = tries /\ answer' = answer
BY DEF TryAgain, UserData

(* The updates of UserData that come before a cancellation. *)
LEMMA CancelledFacts ==
    ASSUME NEW u \in UserData
    PROVE  LET v == [u EXCEPT !.cancelled = TRUE] IN
           /\ v \in UserData /\ v.cancelled
           /\ v.gained = u.gained /\ v.bogus = u.bogus /\ v.newUser = u.newUser
           /\ v.user = u.user /\ v.dialog = u.dialog
BY DEF UserData

LEMMA NewUserFacts ==
    ASSUME NEW u \in UserData, NEW a \in User
    PROVE  LET v == [u EXCEPT !.user = a, !.newUser = TRUE] IN
           /\ v \in UserData /\ v.newUser /\ v.user = a
           /\ v.gained = u.gained /\ v.bogus = u.bogus
           /\ v.cancelled = u.cancelled /\ v.dialog = u.dialog
BY DEF UserData

-----------------------------------------------------------------------------
(* Every action preserves the invariant.                                   *)

LEMMA InitIInv == ASSUME Init PROVE IInv
<1>1. BusTypeOK
  BY NoUdFacts DEF Init, BusTypeOK
<1>2. AuthTypeOK
  BY NoUdFacts DEF Init, AuthTypeOK
<1>3. AtRest
  BY NoUdFacts DEF Init, AtRest
<1>4. Once
  BY NoUdFacts DEF Init, Once
<1>5. Attempt
  BY NoUdFacts DEF Init, Attempt
<1>6. Tries
  BY NoUdFacts DEF Init, Tries
<1>7. Dialog
  BY NoUdFacts DEF Init, Dialog
<1>8. Admin
  BY NoUdFacts DEF Init, Admin
<1>. QED BY <1>1, <1>2, <1>3, <1>4, <1>5, <1>6, <1>7, <1>8 DEF IInv

USE DEF IInv, BusTypeOK, AuthTypeOK, AtRest, Once, Attempt, Tries, Dialog, Admin,
        procVars, busVars, authVars

LEMMA ProcessEndsIInv ==
    ASSUME IInv,
           ProcessEnds
    PROVE  IInv'
<1>1. BusTypeOK'
  BY NoUdFacts DEF ProcessEnds, Sent
<1>2. AtRest' /\ Tries'
  BY NoUdFacts DEF ProcessEnds, Sent
<1>3. Once'
  BY NoUdFacts DEF ProcessEnds, Sent
<1>4. AuthTypeOK'
  BY NoUdFacts DEF ProcessEnds, Sent
<1>5. Attempt' /\ Dialog' /\ Admin'
  BY NoUdFacts DEF ProcessEnds, Sent
<1>. QED BY ONLY <1>1, <1>2, <1>3, <1>4, <1>5 DEF IInv

LEMMA ConcludeIInv ==
    ASSUME IInv,
           NEW r \in Request,
           NEW g \in BOOLEAN,
           Conclude(r, g),
           running,
           reply[r] = "none",
           queue' \in Seq(Request),
           \A i \in 1 .. Len(queue') : reply[queue'[i]] = "none" /\ queue'[i] # r,
           \A i, j \in 1 .. Len(queue') : queue'[i] = queue'[j] => i = j,
           UNCHANGED <<running, connected, gone>>,
           authdb' = authdb
    PROVE  IInv'
<1>1. BusTypeOK' /\ AtRest' /\ Tries' /\ Once'
  BY NoUdFacts DEF Conclude, KillTimerStart
<1>2. AuthTypeOK'
  BY NoUdFacts DEF Conclude, KillTimerStart
<1>3. Attempt' /\ Dialog' /\ Admin'
  BY NoUdFacts DEF Conclude, KillTimerStart
<1>. QED BY ONLY <1>1, <1>2, <1>3 DEF IInv

LEMMA ObtainAuthorizationIInv ==
    ASSUME IInv,
           NEW r \in Request,
           ObtainAuthorization(r)
    PROVE  IInv'
<1>1. BusTypeOK'
  BY DEF ObtainAuthorization, Sent, Queued, KillTimerStart
<1>2. AtRest' /\ Tries'
  BY DEF ObtainAuthorization, Sent, Queued, KillTimerStart
<1>3. Once'
  BY DEF ObtainAuthorization, Sent, Queued, KillTimerStart
<1>4. AuthTypeOK'
  BY DEF ObtainAuthorization, Sent, Queued, KillTimerStart
<1>5. Attempt' /\ Dialog' /\ Admin'
  BY DEF ObtainAuthorization, Sent, Queued, KillTimerStart
<1>. QED BY ONLY <1>1, <1>2, <1>3, <1>4, <1>5 DEF IInv

LEMMA NameOwnerChangedIInv ==
    ASSUME IInv,
           NEW c \in Client,
           NameOwnerChanged(c)
    PROVE  IInv'
<1> DEFINE u == [ud EXCEPT !.cancelled = TRUE]
<1>a. /\ u \in UserData /\ u.cancelled /\ u.gained = ud.gained /\ u.bogus = ud.bogus
      /\ u.newUser = ud.newUser /\ u.user = ud.user /\ u.dialog = ud.dialog
  BY CancelledFacts
<1>b. InProgress /\ ClientOf[active] = c => CancelAuth(u)
  BY DEF NameOwnerChanged
<1> HIDE DEF u
<1>1. BusTypeOK' /\ AtRest' /\ Tries' /\ Once'
  BY CancelFacts, <1>a, <1>b DEF NameOwnerChanged
<1>2. AuthTypeOK'
  BY CancelFacts, <1>a, <1>b DEF NameOwnerChanged
<1>3. Attempt' /\ Dialog' /\ Admin'
  BY CancelFacts, <1>a, <1>b DEF NameOwnerChanged
<1>. QED BY ONLY <1>1, <1>2, <1>3 DEF IInv

LEMMA SelectReturnsIInv ==
    ASSUME IInv,
           SelectReturns
    PROVE  IInv'
<1> DEFINE u == [ud EXCEPT !.cancelled = TRUE]
<1>a. /\ u \in UserData /\ u.cancelled /\ u.gained = ud.gained /\ u.bogus = ud.bogus
      /\ u.newUser = ud.newUser /\ u.user = ud.user /\ u.dialog = ud.dialog
  BY CancelledFacts
<1>b. ud.user = Closed => CancelAuth(u)
  BY DEF SelectReturns
<1> HIDE DEF u
<1>c. ud.user # Closed => ud.user \in User
  BY DEF SelectReturns, UserData
<1>1. CASE ud.user = Closed /\ helper \in Unreaped
  <2>1. BusTypeOK' /\ AtRest' /\ Tries' /\ Once'
    BY <1>1, CancelFacts, <1>a, <1>b DEF SelectReturns
  <2>2. AuthTypeOK'
    BY <1>1, CancelFacts, <1>a, <1>b DEF SelectReturns
  <2>3. Attempt' /\ Dialog' /\ Admin'
    BY <1>1, CancelFacts, <1>a, <1>b DEF SelectReturns
  <2>. QED BY ONLY <2>1, <2>2, <2>3 DEF IInv
<1>2. CASE ud.user = Closed /\ helper \notin Unreaped
  <2>1. BusTypeOK' /\ AtRest' /\ Tries' /\ Once'
    BY <1>2, CancelFacts, <1>a, <1>b DEF SelectReturns
  <2>2. AuthTypeOK'
    BY <1>2, CancelFacts, <1>a, <1>b DEF SelectReturns
  <2>3. Attempt' /\ Dialog' /\ Admin'
    BY <1>2, CancelFacts, <1>a, <1>b DEF SelectReturns
  <2>. QED BY ONLY <2>1, <2>2, <2>3 DEF IInv
<1>3. CASE ud.user # Closed /\ helper = "typed"
  <2>1. BusTypeOK' /\ AtRest' /\ Tries' /\ Once'
    BY <1>3, <1>c DEF SelectReturns
  <2>2. AuthTypeOK'
    BY <1>3, <1>c DEF SelectReturns
  <2>3. Attempt' /\ Dialog' /\ Admin'
    BY <1>3, <1>c DEF SelectReturns
  <2>. QED BY ONLY <2>1, <2>2, <2>3 DEF IInv
<1>4. CASE ud.user # Closed /\ helper # "typed"
  <2>1. BusTypeOK' /\ AtRest' /\ Tries' /\ Once'
    BY <1>4, <1>c DEF SelectReturns
  <2>2. AuthTypeOK'
    BY <1>4, <1>c DEF SelectReturns
  <2>3. Attempt' /\ Dialog' /\ Admin'
    BY <1>4, <1>c DEF SelectReturns
  <2>. QED BY ONLY <2>1, <2>2, <2>3 DEF IInv
<1>. QED BY ONLY IInv, <1>1, <1>2, <1>3, <1>4 DEF IInv, AuthTypeOK

LEMMA PromptReturnsIInv ==
    ASSUME IInv,
           PromptReturns
    PROVE  IInv'
<1> DEFINE u == [ud EXCEPT !.cancelled = TRUE]
<1>a. /\ u \in UserData /\ u.cancelled /\ u.gained = ud.gained /\ u.bogus = ud.bogus
      /\ u.newUser = ud.newUser /\ u.user = ud.user /\ u.dialog = ud.dialog
  BY CancelledFacts
<1>b. answer = "cancel" \/ (answer = "none" /\ ~ud.dialog) => CancelAuth(u)
  BY DEF PromptReturns
<1> HIDE DEF u
<1>1. CASE answer = "ok"
  <2>1. BusTypeOK' /\ AtRest' /\ Tries' /\ Once'
    BY <1>1 DEF PromptReturns
  <2>2. AuthTypeOK'
    BY <1>1 DEF PromptReturns
  <2>3. Attempt' /\ Dialog' /\ Admin'
    BY <1>1 DEF PromptReturns
  <2>. QED BY ONLY <2>1, <2>2, <2>3 DEF IInv
<1>2. CASE answer # "ok" /\ helper \in Unreaped
  <2>1. BusTypeOK' /\ AtRest' /\ Tries' /\ Once'
    BY <1>2, CancelFacts, <1>a, <1>b DEF PromptReturns
  <2>2. AuthTypeOK'
    BY <1>2, CancelFacts, <1>a, <1>b DEF PromptReturns
  <2>3. Attempt' /\ Dialog' /\ Admin'
    BY <1>2, CancelFacts, <1>a, <1>b DEF PromptReturns
  <2>. QED BY ONLY <2>1, <2>2, <2>3 DEF IInv
<1>3. CASE answer # "ok" /\ helper \notin Unreaped
  <2>1. BusTypeOK' /\ AtRest' /\ Tries' /\ Once'
    BY <1>3, CancelFacts, <1>a, <1>b DEF PromptReturns
  <2>2. AuthTypeOK'
    BY <1>3, CancelFacts, <1>a, <1>b DEF PromptReturns
  <2>3. Attempt' /\ Dialog' /\ Admin'
    BY <1>3, CancelFacts, <1>a, <1>b DEF PromptReturns
  <2>. QED BY ONLY <2>1, <2>2, <2>3 DEF IInv
<1>. QED BY ONLY IInv, <1>1, <1>2, <1>3 DEF IInv, AuthTypeOK

LEMMA UserReselectedIInv ==
    ASSUME IInv,
           NEW a \in User,
           UserReselected(a)
    PROVE  IInv'
<1>u. ud \in UserData
  OBVIOUS
<1> DEFINE v == [ud EXCEPT !.user = a, !.newUser = TRUE]
<1>a. /\ v \in UserData /\ v.newUser /\ v.user = a /\ v.gained = ud.gained
      /\ v.bogus = ud.bogus /\ v.cancelled = ud.cancelled /\ v.dialog = ud.dialog
  BY ONLY <1>u, NewUserFacts
<1>b. CancelAuth(v)
  BY DEF UserReselected
<1> HIDE DEF v
<1>1. BusTypeOK' /\ AtRest' /\ Tries' /\ Once'
  BY CancelFacts, <1>a, <1>b DEF UserReselected, UserMayAnswer
<1>2. AuthTypeOK'
  BY CancelFacts, <1>a, <1>b DEF UserReselected, UserMayAnswer
<1>3. Attempt' /\ Dialog' /\ Admin'
  BY CancelFacts, <1>a, <1>b DEF UserReselected, UserMayAnswer
<1>. QED BY ONLY <1>1, <1>2, <1>3 DEF IInv

LEMMA SelectAdminUserIInv ==
    ASSUME IInv,
           SelectAdminUser
    PROVE  IInv'
<1>u. ud \in UserData
  OBVIOUS
<1> DEFINE v == [ud EXCEPT !.user = Self, !.newUser = TRUE]
<1>a. Self # NoUser =>
      /\ v \in UserData /\ v.newUser /\ v.user = Self /\ v.gained = ud.gained
      /\ v.bogus = ud.bogus /\ v.cancelled = ud.cancelled /\ v.dialog = ud.dialog
  BY ONLY <1>u, NewUserFacts, ConstantsOK DEF ConstantsOK
<1>b. ud.user = NoUser /\ Self # NoUser => CancelAuth(v)
  BY DEF SelectAdminUser
<1> HIDE DEF v
<1>c. ud.user = NoUser /\ Self # NoUser =>
      /\ ud' \in UserData /\ ud'.newUser /\ ud'.user = Self /\ Self \in User
      /\ helper' = "reaped" /\ quit' = TRUE /\ ~ud'.gained /\ ~ud'.bogus
      /\ ~ud'.cancelled /\ ud'.dialog
  BY CancelFacts, <1>a, <1>b DEF SelectAdminUser
<1>1. CASE ud.user # NoUser
  <2>1. BusTypeOK' /\ AtRest' /\ Tries' /\ Once'
    BY <1>1 DEF SelectAdminUser, UserData
  <2>2. AuthTypeOK'
    BY <1>1 DEF SelectAdminUser, UserData
  <2>3. Attempt' /\ Dialog' /\ Admin'
    BY <1>1 DEF SelectAdminUser, UserData
  <2>. QED BY ONLY <2>1, <2>2, <2>3 DEF IInv
<1>2. CASE ud.user = NoUser /\ Self # NoUser
  <2>1. BusTypeOK' /\ AtRest' /\ Tries' /\ Once'
    BY <1>2, <1>a, <1>c DEF SelectAdminUser, UserData
  <2>2. AuthTypeOK'
    BY <1>2, <1>a, <1>c DEF SelectAdminUser, UserData
  <2>3. Attempt' /\ Dialog' /\ Admin'
    BY <1>2, <1>a, <1>c DEF SelectAdminUser, UserData
  <2>. QED BY ONLY <2>1, <2>2, <2>3 DEF IInv
<1>3. CASE ud.user = NoUser /\ Self = NoUser
  <2>1. BusTypeOK' /\ AtRest' /\ Tries' /\ Once'
    BY <1>3 DEF SelectAdminUser, UserData
  <2>2. AuthTypeOK'
    BY <1>3 DEF SelectAdminUser, UserData
  <2>3. Attempt' /\ Dialog' /\ Admin'
    BY <1>3 DEF SelectAdminUser, UserData
  <2>. QED BY ONLY <2>1, <2>2, <2>3 DEF IInv
<1>. QED BY ONLY IInv, <1>1, <1>2, <1>3 DEF IInv, AuthTypeOK

LEMMA ChildWatchIInv ==
    ASSUME IInv,
           ChildWatch
    PROVE  IInv'
<1>u. ud \in UserData /\ ExitedZero \in BOOLEAN /\ (helper = "bogus") \in BOOLEAN
  BY DEF ExitedZero
<1> DEFINE d == ConversationDone(ud, ExitedZero, helper = "bogus")
<1>a. /\ d \in UserData /\ d.gained = ExitedZero /\ d.bogus = (helper = "bogus")
      /\ d.dialog = (ud.dialog /\ ~(helper = "bogus" \/ ud.cancelled))
      /\ d.cancelled = ud.cancelled /\ d.newUser = ud.newUser /\ d.user = ud.user
  BY ONLY <1>u, DoneFacts
<1>b. ud' = d
  BY DEF ChildWatch
<1> HIDE DEF d
<1>1. CASE helper = "bogus"
  <2>1. BusTypeOK' /\ AtRest' /\ Tries' /\ Once'
    BY <1>1, <1>a, <1>b DEF ChildWatch, ExitedZero
  <2>2. AuthTypeOK'
    BY <1>1, <1>a, <1>b DEF ChildWatch, ExitedZero
  <2>3. Attempt' /\ Dialog' /\ Admin'
    BY <1>1, <1>a, <1>b DEF ChildWatch, ExitedZero
  <2>. QED BY ONLY <2>1, <2>2, <2>3 DEF IInv
<1>2. CASE helper \in {"success", "failure", "crashed"}
  <2>1. BusTypeOK' /\ AtRest' /\ Tries' /\ Once'
    BY <1>2, <1>a, <1>b DEF ChildWatch, ExitedZero
  <2>2. AuthTypeOK'
    BY <1>2, <1>a, <1>b DEF ChildWatch, ExitedZero
  <2>3. Attempt' /\ Dialog' /\ Admin'
    BY <1>2, <1>a, <1>b DEF ChildWatch, ExitedZero
  <2>. QED BY ONLY <2>1, <2>2, <2>3 DEF IInv
<1>. QED BY <1>1, <1>2 DEF ChildWatch

LEMMA ClientVanishesIInv ==
    ASSUME IInv,
           NEW c \in Client,
           ClientVanishes(c)
    PROVE  IInv'
<1>1. BusTypeOK' /\ AtRest' /\ Tries' /\ Once'
  BY DEF ClientVanishes
<1>2. AuthTypeOK'
  BY DEF ClientVanishes
<1>3. Attempt' /\ Dialog' /\ Admin'
  BY DEF ClientVanishes
<1>. QED BY ONLY <1>1, <1>2, <1>3 DEF IInv

LEMMA DoAuthBusyIInv ==
    ASSUME IInv,
           DoAuthBusy
    PROVE  IInv'
<1>1. BusTypeOK' /\ AtRest' /\ Tries' /\ Once'
  BY DEF DoAuthBusy, Dequeue, KillTimerStart
<1>2. AuthTypeOK'
  BY DEF DoAuthBusy, Dequeue, KillTimerStart
<1>3. Attempt' /\ Dialog' /\ Admin'
  BY DEF DoAuthBusy, Dequeue, KillTimerStart
<1>. QED BY ONLY <1>1, <1>2, <1>3 DEF IInv

LEMMA DoAuthNoPidIInv ==
    ASSUME IInv,
           DoAuthNoPid
    PROVE  IInv'
<1>1. BusTypeOK' /\ AtRest' /\ Tries' /\ Once'
  BY DEF DoAuthNoPid, Dequeue, KillTimerStart
<1>2. AuthTypeOK'
  BY DEF DoAuthNoPid, Dequeue, KillTimerStart
<1>3. Attempt' /\ Dialog' /\ Admin'
  BY DEF DoAuthNoPid, Dequeue, KillTimerStart
<1>. QED BY ONLY <1>1, <1>2, <1>3 DEF IInv

LEMMA ConversationTypeIInv ==
    ASSUME IInv,
           NEW a \in BOOLEAN,
           ConversationType(a)
    PROVE  IInv'
<1>1. BusTypeOK' /\ AtRest' /\ Tries' /\ Once'
  BY DEF ConversationType, UserData
<1>2. AuthTypeOK'
  BY DEF ConversationType, UserData
<1>3. Attempt' /\ Dialog' /\ Admin'
  BY DEF ConversationType, UserData
<1>. QED BY ONLY <1>1, <1>2, <1>3 DEF IInv

LEMMA PamPromptIInv ==
    ASSUME IInv,
           PamPrompt
    PROVE  IInv'
<1>1. BusTypeOK' /\ AtRest' /\ Tries' /\ Once'
  BY DEF PamPrompt, UserData
<1>2. AuthTypeOK'
  BY DEF PamPrompt, UserData
<1>3. Attempt' /\ Dialog' /\ Admin'
  BY DEF PamPrompt, UserData
<1>. QED BY ONLY <1>1, <1>2, <1>3 DEF IInv

LEMMA HelperExitsIInv ==
    ASSUME IInv,
           NEW code \in {"success", "failure", "bogus"},
           HelperExits(code)
    PROVE  IInv'
<1>1. BusTypeOK' /\ AtRest' /\ Tries' /\ Once'
  BY DEF HelperExits
<1>2. AuthTypeOK'
  BY DEF HelperExits
<1>3. Attempt' /\ Dialog' /\ Admin'
  BY DEF HelperExits
<1>. QED BY ONLY <1>1, <1>2, <1>3 DEF IInv

LEMMA HelperCrashesIInv ==
    ASSUME IInv,
           HelperCrashes
    PROVE  IInv'
<1>1. BusTypeOK' /\ AtRest' /\ Tries' /\ Once'
  BY DEF HelperCrashes
<1>2. AuthTypeOK'
  BY DEF HelperCrashes
<1>3. Attempt' /\ Dialog' /\ Admin'
  BY DEF HelperCrashes
<1>. QED BY ONLY <1>1, <1>2, <1>3 DEF IInv

LEMMA UserRespondsIInv ==
    ASSUME IInv,
           NEW a \in {"ok", "cancel"},
           UserResponds(a)
    PROVE  IInv'
<1>1. BusTypeOK' /\ AtRest' /\ Tries' /\ Once'
  BY DEF UserResponds, UserMayAnswer
<1>2. AuthTypeOK'
  BY DEF UserResponds, UserMayAnswer
<1>3. Attempt' /\ Dialog' /\ Admin'
  BY DEF UserResponds, UserMayAnswer
<1>. QED BY ONLY <1>1, <1>2, <1>3 DEF IInv

LEMMA DialogResponseIInv ==
    ASSUME IInv,
           DialogResponse
    PROVE  IInv'
<1>1. BusTypeOK' /\ AtRest' /\ Tries' /\ Once'
  BY DEF DialogResponse, UserData
<1>2. AuthTypeOK'
  BY DEF DialogResponse, UserData
<1>3. Attempt' /\ Dialog' /\ Admin'
  BY DEF DialogResponse, UserData
<1>. QED BY ONLY <1>1, <1>2, <1>3 DEF IInv

LEMMA UserSelectedIInv ==
    ASSUME IInv,
           NEW a \in User,
           UserSelected(a)
    PROVE  IInv'
<1>1. BusTypeOK' /\ AtRest' /\ Tries' /\ Once'
  BY DEF UserSelected, UserData
<1>2. AuthTypeOK'
  BY DEF UserSelected, UserData
<1>3. Attempt' /\ Dialog' /\ Admin'
  BY DEF UserSelected, UserData
<1>. QED BY ONLY <1>1, <1>2, <1>3 DEF IInv

LEMMA ShakeIInv ==
    ASSUME IInv,
           Shake
    PROVE  IInv'
<1>1. BusTypeOK' /\ AtRest' /\ Tries' /\ Once'
  BY DEF Shake, Failed
<1>2. AuthTypeOK'
  BY DEF Shake, Failed
<1>3. Attempt' /\ Dialog' /\ Admin'
  BY DEF Shake, Failed
<1>. QED BY ONLY <1>1, <1>2, <1>3 DEF IInv

(* The head of the queue becomes the request at hand. *)
LEMMA DequeueFacts ==
    ASSUME IInv, Dequeue
    PROVE  /\ Head(queue) \in Request /\ reply[Head(queue)] = "none"
           /\ queue' \in Seq(Request)
           /\ \A i \in 1 .. Len(queue') : reply[queue'[i]] = "none" /\ queue'[i] # Head(queue)
           /\ \A i, j \in 1 .. Len(queue') : queue'[i] = queue'[j] => i = j
<1>1. /\ Head(queue) = queue[1] /\ Len(queue) \in Nat \ {0}
      /\ queue' \in Seq(Request) /\ Len(queue') = Len(queue) - 1
      /\ \A i \in 1 .. Len(queue') : queue'[i] = queue[i + 1]
  BY DEF Dequeue
<1>2. \A i \in 1 .. Len(queue') : i + 1 \in 1 .. Len(queue) /\ i + 1 # 1
  BY <1>1
<1>3. 1 \in 1 .. Len(queue) /\ queue[1] \in Request
  BY <1>1
<1>4. \A i \in 1 .. Len(queue') : reply[queue'[i]] = "none" /\ queue'[i] # Head(queue)
  BY ONLY Once, <1>1, <1>2, <1>3 DEF Once
<1>5. \A i, j \in 1 .. Len(queue') : queue'[i] = queue'[j] => i = j
  <2> SUFFICES ASSUME NEW i \in 1 .. Len(queue'), NEW j \in 1 .. Len(queue'),
                      queue'[i] = queue'[j]
               PROVE  i = j
    OBVIOUS
  <2>1. queue[i + 1] = queue[j + 1] /\ i + 1 \in 1 .. Len(queue) /\ j + 1 \in 1 .. Len(queue)
    BY <1>1, <1>2
  <2>2. i + 1 = j + 1
    BY ONLY Once, <2>1 DEF Once
  <2>. QED BY <2>2
<1>. QED BY <1>1, <1>3, <1>4, <1>5

LEMMA DoAuthNoPolicyIInv ==
    ASSUME IInv,
           DoAuthNoPolicy
    PROVE  IInv'
<1>1. Conclude(Head(queue), FALSE) /\ Dequeue
  BY DEF DoAuthNoPolicy
<1>2. running /\ UNCHANGED <<running, connected, gone, authdb>>
  BY <1>1 DEF Dequeue
<1>. QED BY ONLY IInv, <1>1, <1>2, DequeueFacts, ConcludeIInv

LEMMA FinishIInv ==
    ASSUME IInv, InProgress, NEW g \in BOOLEAN, Conclude(active, g),
           UNCHANGED <<running, queue, busVars, authdb>>
    PROVE  IInv'
<1>1. /\ active \in Request /\ reply[active] = "none" /\ running
      /\ queue' = queue /\ queue \in Seq(Request)
      /\ \A i \in 1 .. Len(queue) : reply[queue[i]] = "none" /\ queue[i] # active
      /\ \A i, j \in 1 .. Len(queue) : queue[i] = queue[j] => i = j
      /\ UNCHANGED <<running, connected, gone, authdb>>
  OBVIOUS
<1>. QED BY ONLY IInv, <1>1, ConcludeIInv, Conclude(active, g), g \in BOOLEAN

LEMMA RestartIInv ==
    ASSUME IInv, InProgress, quit, Restart,
           (nest = "loop" /\ ud.newUser) \/ (nest = "shake" /\ tries < MaxTries)
    PROVE  IInv'
<1>u. ud \in UserData
  OBVIOUS
<1>t. tries \in 0 .. MaxTries - 1
  OBVIOUS
<1>1. CASE TryAgain(ud) /\ UNCHANGED <<procVars, busVars, authdb>>
  <2>1. BusTypeOK'
    BY <1>1, <1>u, <1>t, TryAgainFacts
  <2>2. AtRest'
    BY <1>1, <1>u, <1>t, TryAgainFacts
  <2>3. Tries'
    BY <1>1, <1>u, <1>t, TryAgainFacts
  <2>4. Once'
    BY <1>1, <1>u, <1>t, TryAgainFacts
  <2>5. AuthTypeOK'
    BY <1>1, <1>u, <1>t, TryAgainFacts
  <2>6. Attempt'
    BY <1>1, <1>u, <1>t, TryAgainFacts
  <2>7. Dialog'
    BY <1>1, <1>u, <1>t, TryAgainFacts
  <2>8. Admin'
    BY <1>1, <1>u, <1>t, TryAgainFacts
  <2>. QED BY ONLY <2>1, <2>2, <2>3, <2>4, <2>5, <2>6, <2>7, <2>8 DEF IInv
<1>2. CASE InitiateFails(active) /\ UNCHANGED <<running, queue, busVars, authdb>>
  BY <1>2, FinishIInv DEF InitiateFails
<1>. QED BY <1>1, <1>2 DEF Restart

LEMMA RestartAsNewUserIInv ==
    ASSUME IInv,
           RestartAsNewUser
    PROVE  IInv'
BY RestartIInv DEF RestartAsNewUser

LEMMA LoopReturnsIInv ==
    ASSUME IInv,
           LoopReturns
    PROVE  IInv'
<1>1. ud.gained \in BOOLEAN /\ InProgress
  BY DEF LoopReturns, UserData
<1>. QED BY <1>1, FinishIInv DEF LoopReturns, Finish

LEMMA ShakeReturnsIInv ==
    ASSUME IInv,
           ShakeReturns
    PROVE  IInv'
<1>1. ud.gained \in BOOLEAN /\ InProgress /\ quit /\ nest = "shake"
  BY DEF ShakeReturns, UserData
<1>2. CASE tries < MaxTries /\ Restart
  BY <1>1, <1>2, RestartIInv
<1>3. CASE tries = MaxTries /\ Finish
  BY <1>1, <1>3, FinishIInv DEF Finish
<1>. QED BY <1>2, <1>3 DEF ShakeReturns

LEMMA DoAuthStartIInv ==
    ASSUME IInv,
           DoAuthStart
    PROVE  IInv'
<1> DEFINE u == [NoUd EXCEPT !.dialog = TRUE]
<1>u. u \in UserData /\ u.dialog /\ u.user = NoUser /\ ~u.gained
  BY DEF NoUd, UserData
<1>1. /\ running /\ ~InProgress /\ UNCHANGED <<running, connected, gone, authdb>>
      /\ helperUser \in User \cup {NoUser, Closed} /\ answer = "none" /\ tries = 0
      /\ Dequeue
  BY DEF DoAuthStart, Dequeue
<1>2. CASE /\ active' = Head(queue) /\ timer' = FALSE
           /\ TryAgain(u) /\ UNCHANGED reply
  <2> HIDE DEF u
  <2>1. BusTypeOK' /\ AtRest' /\ Tries' /\ Once'
    BY <1>u, <1>1, <1>2, DequeueFacts, TryAgainFacts
  <2>2. AuthTypeOK'
    BY <1>u, <1>1, <1>2, DequeueFacts, TryAgainFacts
  <2>3. Attempt' /\ Dialog' /\ Admin'
    BY <1>u, <1>1, <1>2, DequeueFacts, TryAgainFacts
  <2>. QED BY ONLY <2>1, <2>2, <2>3 DEF IInv
<1>3. CASE InitiateFails(Head(queue))
  BY ONLY IInv, <1>1, <1>3, DequeueFacts, ConcludeIInv DEF InitiateFails
<1>. QED BY <1>2, <1>3 DEF DoAuthStart, KillTimerStop

-----------------------------------------------------------------------------
(* The invariant, and what follows from it.                                *)

LEMMA NextIInv == IInv /\ [Next]_vars => IInv'
<1> SUFFICES ASSUME IInv, [Next]_vars PROVE IInv'
  OBVIOUS
<1>1. ASSUME NEW r \in Request, ObtainAuthorization(r) PROVE IInv'
  BY <1>1, ObtainAuthorizationIInv
<1>2. ASSUME NEW c \in Client, ClientVanishes(c) \/ NameOwnerChanged(c) PROVE IInv'
  BY <1>2, ClientVanishesIInv, NameOwnerChangedIInv
<1>3. CASE KillTimerExit
  BY <1>3, ProcessEndsIInv DEF KillTimerExit
<1>4. CASE DoAuth
  BY <1>4, DoAuthBusyIInv, DoAuthNoPidIInv, DoAuthNoPolicyIInv, DoAuthStartIInv DEF DoAuth
<1>5. CASE HelperStep
  BY <1>5, ConversationTypeIInv, SelectAdminUserIInv, PamPromptIInv, HelperExitsIInv
     DEF HelperStep
<1>6. CASE HelperCrashes
  BY <1>6, HelperCrashesIInv
<1>7. CASE ChildWatch
  BY <1>7, ChildWatchIInv
<1>8. CASE UserStep
  BY <1>8, UserRespondsIInv, DialogResponseIInv, UserSelectedIInv, UserReselectedIInv
     DEF UserStep
<1>9. CASE LoopStep
  <2>1. CASE PromptReturnsNoDialog
    BY <2>1, ProcessEndsIInv DEF PromptReturnsNoDialog
  <2>. QED BY <1>9, <2>1, SelectReturnsIInv, PromptReturnsIInv, RestartAsNewUserIInv,
              ShakeIInv, LoopReturnsIInv, ShakeReturnsIInv DEF LoopStep
<1>10. CASE UNCHANGED vars
  BY <1>10 DEF vars
<1>. QED BY ONLY [Next]_vars, <1>1, <1>2, <1>3, <1>4, <1>5, <1>6, <1>7, <1>8, <1>9, <1>10
         DEF Next

HIDE DEF IInv, BusTypeOK, AuthTypeOK, AtRest, Once, Attempt, Tries, Dialog, Admin,
         procVars, busVars, authVars, InProgress, Live, Exited, Unreaped, MaxTries

THEOREM Invariance == Spec => []IInv
<1>1. Init => IInv
  BY InitIInv
<1>. QED BY <1>1, NextIInv, PTL DEF Spec

(* Every variable keeps its type.                                          *)
THEOREM TypeCorrect == Spec => []TypeOK
<1>1. IInv => TypeOK
  BY DEF TypeOK, IInv, Once, Tries, MaxTries
<1>. QED BY <1>1, Invariance, PTL

(* No cancellation, restart or refused request takes the dialog away from  *)
(* a helper that can still make the agent use it.                          *)
THEOREM DialogKept == Spec => []DialogOutlivesHelper
<1>1. IInv => DialogOutlivesHelper
  BY DEF DialogOutlivesHelper, IInv, Dialog, Attempt, Unreaped, Live, Exited
<1>. QED BY <1>1, Invariance, PTL

(* The administrator the dialog names is the one the helper verifies.      *)
THEOREM AdministratorAgrees == Spec => []PromptNamesHelperUser
<1>1. IInv => PromptNamesHelperUser
  BY DEF PromptNamesHelperUser, IInv, Admin
<1>. QED BY <1>1, Invariance, PTL

(* The dialog a helper may use exists and is about the administrator whose *)
(* password it checks.                                                     *)
THEOREM DialogKeptRight == Spec => []DialogIsRight
<1>1. DialogOutlivesHelper /\ PromptNamesHelperUser => DialogIsRight
  BY DEF DialogIsRight
<1>. QED BY <1>1, DialogKept, AdministratorAgrees, PTL

(* An idle agent always has its kill timer set, unless --no-exit.          *)
THEOREM TimerSet == Spec => []IdleAgentHasTimer
<1>1. IInv => IdleAgentHasTimer
  BY DEF IdleAgentHasTimer, IInv, AtRest
<1>. QED BY <1>1, Invariance, PTL

-----------------------------------------------------------------------------
(* What a step may never do.                                               *)

LEMMA RunningEnds ==
    ASSUME IInv, Next, running, ~running'
    PROVE  KillTimerExit \/ PromptReturnsNoDialog
BY DEF Next, DoAuth, HelperStep, UserStep, LoopStep, ObtainAuthorization, ClientVanishes,
       NameOwnerChanged, DoAuthBusy, DoAuthNoPid, DoAuthNoPolicy, DoAuthStart, Dequeue,
       ConversationType, SelectAdminUser, PamPrompt, HelperExits, HelperCrashes, ChildWatch,
       UserResponds, DialogResponse, UserSelected, UserReselected, SelectReturns, PromptReturns,
       RestartAsNewUser, Shake, LoopReturns, ShakeReturns, Restart, Finish, procVars

(* The agent ends by its kill timer, or for a caller that is gone.         *)
THEOREM EndsForCause == Spec => EndsByTimerOrVanishedCaller
<1> DEFINE A == running /\ ~running' =>
                    timer \/ (InProgress /\ ClientOf[active] \notin connected)
<1>1. IInv /\ [Next]_vars => [A]_vars
  <2> SUFFICES ASSUME IInv, Next, running, ~running'
               PROVE  timer \/ (InProgress /\ ClientOf[active] \notin connected)
    BY DEF vars
  <2>1. CASE KillTimerExit
    BY <2>1 DEF KillTimerExit
  <2>2. CASE PromptReturnsNoDialog
    BY <2>2 DEF PromptReturnsNoDialog, IInv, Dialog, AtRest
  <2>. QED BY <2>1, <2>2, RunningEnds
<1>. QED BY <1>1, Invariance, PTL DEF Spec, EndsByTimerOrVanishedCaller

LEMMA AnswerGiven ==
    ASSUME IInv, Next, NEW r \in Request, active = r, reply[r] = "none", reply'[r] = "denied"
    PROVE  LoopReturns \/ ShakeReturns
<1>1. reply \in [Request -> {"none", "gained", "denied", "busy", "nopid", "lost"}]
  BY DEF IInv, BusTypeOK
<1>2. reply'[r] # reply[r] /\ InProgress
  BY ConstantsOK DEF InProgress
<1>3. ~ProcessEnds
  BY <1>1 DEF ProcessEnds
<1>4. ~DoAuthBusy /\ ~DoAuthNoPid
  BY <1>1, <1>2, DequeueFacts DEF DoAuthBusy, DoAuthNoPid
<1>5. ~RestartAsNewUser
  BY <1>1, <1>2 DEF RestartAsNewUser, Restart, InitiateFails, Conclude, procVars
<1>. QED BY <1>2, <1>3, <1>4, <1>5
     DEF Next, DoAuth, HelperStep, UserStep, LoopStep, ObtainAuthorization, ClientVanishes,
       NameOwnerChanged, DoAuthNoPolicy, DoAuthStart, KillTimerExit, PromptReturnsNoDialog,
       ConversationType, SelectAdminUser, PamPrompt, HelperExits, HelperCrashes, ChildWatch,
       UserResponds, DialogResponse, UserSelected, UserReselected, SelectReturns, PromptReturns,
       Shake, procVars

(* A user's authentication is denied for one of three reasons only.        *)
THEOREM DenialHasCause == Spec => DeniedForCause
<1> DEFINE A == \A r \in Request :
                    active = r /\ reply[r] = "none" /\ reply'[r] = "denied"
                    => ud.cancelled \/ ud.bogus \/ tries = MaxTries
<1>1. IInv /\ [Next]_vars => [A]_vars
  <2> SUFFICES ASSUME IInv, Next, NEW r \in Request,
                      active = r, reply[r] = "none", reply'[r] = "denied"
               PROVE  ud.cancelled \/ ud.bogus \/ tries = MaxTries
    BY DEF vars
  <2>1. InProgress /\ reply \in [Request -> {"none", "gained", "denied", "busy", "nopid", "lost"}]
    BY ConstantsOK DEF InProgress, IInv, BusTypeOK
  <2>2. CASE LoopReturns
    BY <2>1, <2>2 DEF LoopReturns, Finish, Conclude, Failed, IInv, Dialog
  <2>3. CASE ShakeReturns
    BY <2>1, <2>3 DEF ShakeReturns, Finish, Restart, InitiateFails, Conclude, procVars
  <2>. QED BY <2>2, <2>3, AnswerGiven
<1>. QED BY <1>1, Invariance, PTL DEF Spec, DeniedForCause

-----------------------------------------------------------------------------
(* The agent implements AuthAgent.                                         *)

LEMMA QueuedAppend ==
    ASSUME queue \in Seq(Request), NEW r \in Request, queue' = Append(queue, r)
    PROVE  \A s \in Request : Queued(s)' <=> Queued(s) \/ s = r
<1>1. /\ Len(queue') = Len(queue) + 1 /\ Len(queue) \in Nat
      /\ \A i \in 1 .. Len(queue) : queue'[i] = queue[i] /\ i \in 1 .. Len(queue')
      /\ queue'[Len(queue')] = r /\ Len(queue') \in 1 .. Len(queue')
  OBVIOUS
<1>2. \A i \in 1 .. Len(queue') : i = Len(queue') \/ i \in 1 .. Len(queue)
  BY <1>1
<1>. QED BY <1>1, <1>2 DEF Queued

LEMMA QueuedTail ==
    ASSUME IInv, Dequeue
    PROVE  /\ Queued(Head(queue))
           /\ \A s \in Request : Queued(s)' <=> Queued(s) /\ s # Head(queue)
<1>1. /\ Head(queue) = queue[1] /\ Len(queue) \in Nat \ {0}
      /\ queue' \in Seq(Request) /\ Len(queue') = Len(queue) - 1
      /\ \A i \in 1 .. Len(queue') : queue'[i] = queue[i + 1]
  BY DEF Dequeue, IInv, Once
<1>2. \A i \in 1 .. Len(queue') : i + 1 \in 1 .. Len(queue)
  BY <1>1
<1>3. \A i \in 1 .. Len(queue) : i = 1 \/ (i - 1 \in 1 .. Len(queue') /\ queue'[i - 1] = queue[i])
  BY <1>1
<1>4. 1 \in 1 .. Len(queue)
  BY <1>1
<1>5. Queued(Head(queue))
  BY <1>1, <1>4 DEF Queued
<1>6. ASSUME NEW s \in Request, Queued(s)' PROVE Queued(s) /\ s # Head(queue)
  <2>1. PICK i \in 1 .. Len(queue') : queue'[i] = s
    BY <1>6 DEF Queued
  <2>. QED BY <2>1, <1>1, <1>2, DequeueFacts DEF Queued
<1>7. ASSUME NEW s \in Request, Queued(s), s # Head(queue) PROVE Queued(s)'
  <2>1. PICK i \in 1 .. Len(queue) : queue[i] = s
    BY <1>7 DEF Queued
  <2>2. i - 1 \in 1 .. Len(queue') /\ queue'[i - 1] = s
    BY <2>1, <1>1, <1>3, <1>7
  <2>. QED BY <2>2 DEF Queued
<1>. QED BY <1>5, <1>6, <1>7

(* A request in the queue has no answer and is not the active one.         *)
LEMMA QueuedFacts ==
    ASSUME IInv, NEW r \in Request, Queued(r)
    PROVE  reply[r] = "none" /\ active # r
BY DEF Queued, IInv, Once

(* outcome depends on three things.                                        *)
LEMMA SameOutcome ==
    UNCHANGED <<reply, active, queue>> => UNCHANGED outcome
BY DEF outcome, Queued

LEMMA OutcomeChanges ==
    ASSUME NEW r \in Request, NEW o,
           outcome'[r] = o, \A s \in Request \ {r} : outcome'[s] = outcome[s]
    PROVE  outcome' = [outcome EXCEPT ![r] = o]
<1>1. outcome = [s \in Request |-> outcome[s]] /\ outcome' = [s \in Request |-> outcome'[s]]
  BY DEF outcome
<1>. QED BY <1>1

LEMMA SubmitStep ==
    ASSUME IInv, NEW r \in Request, ObtainAuthorization(r)
    PROVE  Agent!Submit(r)
<1>1. outcome[r] = "unsent"
  BY DEF ObtainAuthorization, Sent, outcome
<1>2. /\ reply' = reply /\ active' = active /\ ~Queued(r) /\ reply[r] = "none" /\ active # r
      /\ \A s \in Request : Queued(s)' <=> Queued(s) \/ s = r
  BY QueuedAppend DEF ObtainAuthorization, Sent, IInv, Once, BusTypeOK
<1>3. outcome'[r] = "waiting" /\ \A s \in Request \ {r} : outcome'[s] = outcome[s]
  BY <1>2 DEF outcome
<1>. QED BY <1>1, <1>3, OutcomeChanges DEF Agent!Submit

(* The head of the queue is answered without an authentication.            *)
LEMMA RefuseStep ==
    ASSUME IInv, Dequeue, NEW o \in {"busy", "nopid", "denied"},
           reply' = [reply EXCEPT ![Head(queue)] = o],
           active' = active
    PROVE  Agent!Refuse(Head(queue))
<1> DEFINE r == Head(queue)
<1>1. /\ r \in Request /\ Queued(r) /\ reply[r] = "none" /\ active # r
      /\ \A s \in Request : Queued(s)' <=> Queued(s) /\ s # r
  BY QueuedTail, DequeueFacts, QueuedFacts
<1>2. reply'[r] = o /\ \A s \in Request \ {r} : reply'[s] = reply[s]
  BY <1>1 DEF IInv, BusTypeOK
<1> HIDE DEF r
<1>3. outcome[r] = "waiting"
  BY <1>1 DEF outcome
<1>4. outcome'[r] = (IF o = "denied" THEN "denied" ELSE "refused")
  BY <1>1, <1>2 DEF outcome
<1>5. \A s \in Request \ {r} : outcome'[s] = outcome[s]
  BY <1>1, <1>2 DEF outcome
<1>. QED BY <1>1, <1>3, <1>4, <1>5, OutcomeChanges DEF Agent!Refuse, r

LEMMA BeginStep ==
    ASSUME IInv, Dequeue, ~InProgress, active' = Head(queue), reply' = reply
    PROVE  Agent!Begin(Head(queue))
<1> DEFINE r == Head(queue)
<1>1. /\ r \in Request /\ Queued(r) /\ reply[r] = "none" /\ active = NoReq
      /\ \A s \in Request : Queued(s)' <=> Queued(s) /\ s # r
  BY QueuedTail, DequeueFacts DEF InProgress
<1> HIDE DEF r
<1>2. \A s \in Request : active # s /\ s # NoReq
  BY <1>1, ConstantsOK
<1>3. outcome[r] = "waiting" /\ Agent!Authenticating = {}
  BY <1>1, <1>2 DEF outcome, Agent!Authenticating, IInv, BusTypeOK
<1>4. outcome'[r] = "authenticating" /\ \A s \in Request \ {r} : outcome'[s] = outcome[s]
  BY <1>1, <1>2 DEF outcome, r
<1>. QED BY <1>1, <1>3, <1>4, OutcomeChanges DEF Agent!Begin, r

LEMMA ConcludeStep ==
    ASSUME IInv, Finish, InProgress
    PROVE  Agent!Conclude(active)
<1> DEFINE o == IF ud.gained THEN "gained" ELSE "denied"
<1>1. /\ active \in Request /\ reply[active] = "none" /\ queue' = queue /\ active' = NoReq
      /\ reply' = [reply EXCEPT ![active] = o] /\ ~Queued(active)
  BY QueuedFacts DEF IInv, BusTypeOK, Once, InProgress, Finish, Conclude
<1>2. reply'[active] = o /\ \A s \in Request \ {active} : reply'[s] = reply[s]
  BY <1>1 DEF IInv, BusTypeOK
<1>3. o \in {"gained", "denied"}
  OBVIOUS
<1> HIDE DEF o
<1>4. outcome[active] = "authenticating" /\ outcome'[active] = o
  BY <1>1, <1>2, <1>3 DEF outcome
<1>5. \A s \in Request \ {active} : outcome'[s] = outcome[s]
  BY <1>1, <1>2, ConstantsOK DEF outcome, Queued
<1>. QED BY <1>1, <1>3, <1>4, <1>5, OutcomeChanges DEF Agent!Conclude

LEMMA DieStep ==
    ASSUME IInv, ProcessEnds
    PROVE  Agent!Die
<1>1. /\ reply' = [r \in Request |->
                      IF reply[r] = "none" /\ Sent(r) THEN "lost" ELSE reply[r]]
      /\ active' = NoReq /\ \A r \in Request : ~Queued(r)' /\ r # NoReq
  BY ConstantsOK DEF ProcessEnds, Queued
<1>2. ASSUME NEW r \in Request
      PROVE  outcome'[r] = IF outcome[r] \in {"waiting", "authenticating"}
                           THEN "lost" ELSE outcome[r]
  <2>1. reply[r] \in {"none", "gained", "denied", "busy", "nopid", "lost"}
    BY DEF IInv, BusTypeOK
  <2>. QED BY <1>1, <2>1 DEF outcome, Sent
<1>. QED BY <1>2 DEF Agent!Die, outcome

(* Where the helper always starts, every step of the agent is one of       *)
(* AuthAgent or leaves what the callers can know alone.                    *)
LEMMA StepRefines ==
    ASSUME IInv, [Next]_vars, "initiate" \notin Faults
    PROVE  [Agent!Next]_outcome
<1>1. ASSUME NEW r \in Request, ObtainAuthorization(r) PROVE Agent!Next
  BY <1>1, SubmitStep DEF Agent!Next
<1>2. CASE KillTimerExit \/ PromptReturnsNoDialog
  BY <1>2, DieStep DEF Agent!Next, KillTimerExit, PromptReturnsNoDialog
<1>3. CASE DoAuth
  <2>1. Dequeue /\ Head(queue) \in Request
    BY <1>3, DequeueFacts DEF DoAuth, DoAuthBusy, DoAuthNoPid, DoAuthNoPolicy, DoAuthStart
  <2>2. CASE DoAuthBusy \/ DoAuthNoPid
    BY <2>1, <2>2, RefuseStep DEF DoAuthBusy, DoAuthNoPid, Agent!Next
  <2>3. CASE DoAuthNoPolicy
    BY <2>1, <2>3, RefuseStep DEF DoAuthNoPolicy, Conclude, InProgress, Agent!Next
  <2>4. CASE DoAuthStart
    BY <2>1, <2>4, BeginStep DEF DoAuthStart, InitiateFails, Agent!Next
  <2>. QED BY <1>3, <2>2, <2>3, <2>4 DEF DoAuth
<1>4. CASE InProgress /\ Finish
  BY <1>4, ConcludeStep DEF Agent!Next, InProgress, IInv, BusTypeOK
<1>5. CASE UNCHANGED <<reply, active, queue>>
  BY <1>5, SameOutcome
<1>6. \/ \E r \in Request : ObtainAuthorization(r)
      \/ KillTimerExit \/ PromptReturnsNoDialog \/ DoAuth \/ (InProgress /\ Finish)
      \/ UNCHANGED <<reply, active, queue>>
  <2>1. nest \in {"loop", "shake"} => InProgress
    BY DEF IInv, AtRest
  <2>. QED
    BY <2>1 DEF Next, vars, procVars, HelperStep, UserStep, LoopStep, ClientVanishes,
       NameOwnerChanged, ConversationType, SelectAdminUser, PamPrompt, HelperExits,
       HelperCrashes, ChildWatch, UserResponds, DialogResponse, UserSelected, UserReselected,
       SelectReturns, PromptReturns, Restart, RestartAsNewUser, Shake, LoopReturns,
       ShakeReturns, InitiateFails
<1>. QED BY <1>1, <1>2, <1>3, <1>4, <1>5, <1>6

(* One request at a time, at most one answer for each: the agent is an     *)
(* AuthAgent, as long as polkit_grant_initiate_auth does not fail.         *)
THEOREM Refinement == ASSUME "initiate" \notin Faults PROVE Spec => ImplementsAuthAgent
<1>1. Init => Agent!Init
  BY ConstantsOK DEF Init, Agent!Init, outcome, Queued
<1>2. IInv /\ [Next]_vars => [Agent!Next]_outcome
  BY StepRefines
<1>. QED BY <1>1, <1>2, Invariance, PTL DEF Spec, ImplementsAuthAgent, Agent!Spec

(* No caller is told twice: once the agent has answered a request, refused *)
(* it or died with it, no main loop that returns late, no helper and no    *)
(* dialog of a later request changes what its caller was told.             *)
THEOREM AnswersAreFinal ==
    ASSUME "initiate" \notin Faults
    PROVE  Spec => [][\A r \in Request : outcome[r] \in Agent!Answered
                                           => outcome'[r] = outcome[r]]_outcome
<1> DEFINE Final == \A r \in Request : outcome[r] \in Agent!Answered
                                          => outcome'[r] = outcome[r]
<1>1. ASSUME Agent!Next PROVE Final
  <2> SUFFICES ASSUME NEW r \in Request, outcome[r] \in Agent!Answered
               PROVE  outcome'[r] = outcome[r]
    OBVIOUS
  <2>1. DOMAIN outcome = Request
    BY DEF outcome
  <2>2. CASE Agent!Die
    BY <2>2 DEF Agent!Die, Agent!Answered
  <2>3. ASSUME NEW q \in Request,
               Agent!Submit(q) \/ Agent!Refuse(q) \/ Agent!Begin(q) \/ Agent!Conclude(q)
        PROVE  outcome'[r] = outcome[r]
    <3>1. q # r
      BY <2>3 DEF Agent!Submit, Agent!Refuse, Agent!Begin, Agent!Conclude, Agent!Answered
    <3>2. \E o : outcome' = [outcome EXCEPT ![q] = o]
      BY <2>3 DEF Agent!Submit, Agent!Refuse, Agent!Begin, Agent!Conclude
    <3> QED BY <2>1, <3>1, <3>2
  <2> QED BY <1>1, <2>2, <2>3 DEF Agent!Next
<1>2. [Agent!Next]_outcome => [Final]_outcome
  BY <1>1
<1>. QED BY <1>2, Refinement, PTL DEF ImplementsAuthAgent, Agent!Spec

-----------------------------------------------------------------------------
(* Who is told to have gained an authorization has it, as long as the      *)
(* helper starts and no signal ends it.  GainedMeansAuthorized is          *)
(* strengthened by what a successful helper and the flag gained_privilege  *)
(* of UserData say of the database; the rest comes from IInv.              *)

(* What goes with GainedMeansAuthorized while a request is authenticated.  *)
Granted ==
    /\ helper # "crashed"
    /\ helper = "success" \/ ud.gained => active \in authdb
    /\ GainedMeansAuthorized

(* Answers that are no grant do not matter. *)
LEMMA GainsNothing ==
    ASSUME GainedMeansAuthorized, authdb' = authdb, NEW r \in Request, NEW o,
           reply \in [Request -> {"none", "gained", "denied", "busy", "nopid", "lost"}],
           reply' = [reply EXCEPT ![r] = o], o = "gained" => r \in authdb
    PROVE  GainedMeansAuthorized'
BY DEF GainedMeansAuthorized

(* What the authentication under way knows is unchanged. *)
LEMMA SameAuth ==
    ASSUME Granted, UNCHANGED <<helper, ud, active, authdb>>, GainedMeansAuthorized'
    PROVE  Granted'
BY DEF Granted

(* The database only grows. *)
LEMMA SameReply ==
    ASSUME GainedMeansAuthorized, reply' = reply, authdb \subseteq authdb'
    PROVE  GainedMeansAuthorized'
BY DEF GainedMeansAuthorized

LEMMA ConcludeGranted ==
    ASSUME IInv, Granted, NEW r \in Request, NEW g \in BOOLEAN, Conclude(r, g),
           g => r \in authdb, authdb' = authdb
    PROVE  Granted'
<1>1. helper' = "none" /\ ~ud'.gained
  BY NoUdFacts DEF Conclude
<1>2. GainedMeansAuthorized'
  BY GainsNothing DEF Conclude, Granted, IInv, BusTypeOK
<1>. QED BY <1>1, <1>2 DEF Granted

LEMMA ProcessEndsGranted ==
    ASSUME IInv, Granted, ProcessEnds PROVE Granted'
<1>1. helper' = "none" /\ ~ud'.gained
  BY NoUdFacts DEF ProcessEnds
<1>. QED BY <1>1 DEF Granted, ProcessEnds, GainedMeansAuthorized

(* A new attempt keeps what an earlier one gained. *)
LEMMA RestartGranted ==
    ASSUME IInv, Granted, Restart, "initiate" \notin Faults PROVE Granted'
<1>1. ud \in UserData
  BY DEF IInv, AuthTypeOK
<1>2. TryAgain(ud) /\ UNCHANGED <<reply, active, authdb>>
  BY DEF Restart, InitiateFails, procVars
<1>. QED BY <1>1, <1>2, TryAgainFacts DEF Granted, GainedMeansAuthorized

(* A cancellation never turns a failure into a success. *)
LEMMA CancelGranted ==
    ASSUME Granted, NEW u \in UserData, u.gained = ud.gained, CancelAuth(u),
           UNCHANGED <<reply, active, authdb>>
    PROVE  Granted'
<1>1. GainedMeansAuthorized'
  BY SameReply DEF Granted
<1>2. \/ helper' = "reaped" /\ ~ud'.gained
      \/ helper' = helper /\ ud' = u
  BY CancelFacts
<1>. QED BY <1>1, <1>2 DEF Granted

LEMMA HelperGranted ==
    ASSUME IInv, Granted, HelperStep
    PROVE  Granted'
<1>u. ud \in UserData
  BY DEF IInv, AuthTypeOK
<1>1. ASSUME NEW a \in BOOLEAN, ConversationType(a) PROVE Granted'
  BY <1>1, <1>u DEF ConversationType, UserData, Granted, GainedMeansAuthorized, procVars
<1>2. CASE SelectAdminUser
  <2>1. UNCHANGED <<reply, active, authdb>>
    BY <1>2 DEF SelectAdminUser, procVars
  <2>2. CASE Self # NoUser /\ ud.user = NoUser
    <3> DEFINE v == [ud EXCEPT !.user = Self, !.newUser = TRUE]
    <3>1. v \in UserData /\ v.gained = ud.gained
      BY <1>u, <2>2, NewUserFacts, ConstantsOK DEF ConstantsOK
    <3>2. CancelAuth(v)
      BY <1>2, <2>2 DEF SelectAdminUser
    <3>. QED BY ONLY <3>1, <3>2, <2>1, CancelGranted, Granted
  <2>3. CASE ~(Self # NoUser /\ ud.user = NoUser)
    BY <1>2, <1>u, <2>1, <2>3 DEF SelectAdminUser, UserData, Granted, GainedMeansAuthorized
  <2>. QED BY <2>2, <2>3
<1>3. CASE PamPrompt
  BY <1>3, <1>u DEF PamPrompt, UserData, Granted, GainedMeansAuthorized, procVars
<1>4. ASSUME NEW code \in {"success", "failure", "bogus"}, HelperExits(code) PROVE Granted'
  BY <1>4, <1>u DEF HelperExits, Granted, GainedMeansAuthorized, procVars
<1>. QED BY <1>1, <1>2, <1>3, <1>4 DEF HelperStep

LEMMA UserGranted ==
    ASSUME IInv, Granted, UserStep
    PROVE  Granted'
<1>u. ud \in UserData
  BY DEF IInv, AuthTypeOK
<1>1. ASSUME NEW a \in {"ok", "cancel"}, UserResponds(a) PROVE Granted'
  BY <1>1 DEF UserResponds, Granted, GainedMeansAuthorized, procVars
<1>2. CASE DialogResponse
  BY <1>2, <1>u DEF DialogResponse, UserData, Granted, GainedMeansAuthorized, procVars
<1>3. ASSUME NEW a \in User, UserSelected(a) PROVE Granted'
  BY <1>3, <1>u DEF UserSelected, UserData, Granted, GainedMeansAuthorized, procVars
<1>4. ASSUME NEW a \in User, UserReselected(a) PROVE Granted'
  <2> DEFINE v == [ud EXCEPT !.user = a, !.newUser = TRUE]
  <2>1. v \in UserData /\ v.gained = ud.gained
    BY <1>u, NewUserFacts
  <2>2. CancelAuth(v) /\ UNCHANGED <<reply, active, authdb>>
    BY <1>4 DEF UserReselected, procVars
  <2>. QED BY ONLY <2>1, <2>2, CancelGranted, Granted
<1>. QED BY <1>1, <1>2, <1>3, <1>4 DEF UserStep

LEMMA LoopGranted ==
    ASSUME IInv, Granted, LoopStep, "initiate" \notin Faults
    PROVE  Granted'
<1> DEFINE v == [ud EXCEPT !.cancelled = TRUE]
<1>u. ud \in UserData /\ v \in UserData /\ v.gained = ud.gained
  BY CancelledFacts DEF IInv, AuthTypeOK
<1> HIDE DEF v
<1>1. CASE SelectReturns
  <2>1. (CancelAuth(v) \/ (helper' \in {"chosen", helper} /\ ud' = ud))
        /\ UNCHANGED <<reply, active, authdb>>
    BY <1>1 DEF SelectReturns, procVars, v
  <2>. QED BY <2>1, <1>u, CancelGranted DEF Granted, GainedMeansAuthorized
<1>2. CASE PromptReturns
  <2>1. (CancelAuth(v) \/ (helper' \in {"verifying", helper} /\ ud' = ud))
        /\ UNCHANGED <<reply, active, authdb>>
    BY <1>2 DEF PromptReturns, procVars, v
  <2>. QED BY <2>1, <1>u, CancelGranted DEF Granted, GainedMeansAuthorized
<1>3. CASE PromptReturnsNoDialog
  BY <1>3, ProcessEndsGranted DEF PromptReturnsNoDialog
<1>4. CASE Shake
  BY <1>4 DEF Shake, Granted, GainedMeansAuthorized, procVars
<1>5. CASE Finish /\ nest # "idle"
  <2>1. active \in Request /\ ud.gained \in BOOLEAN /\ Conclude(active, ud.gained) /\ authdb' = authdb
    BY <1>5, <1>u DEF Finish, IInv, AtRest, BusTypeOK, InProgress, UserData
  <2>2. ud.gained => active \in authdb
    BY DEF Granted
  <2>. QED BY ONLY <2>1, <2>2, ConcludeGranted, IInv, Granted
<1>6. CASE Restart
  BY <1>6, RestartGranted
<1>. QED BY <1>1, <1>2, <1>3, <1>4, <1>5, <1>6
         DEF LoopStep, RestartAsNewUser, LoopReturns, ShakeReturns

LEMMA NextGranted ==
    ASSUME IInv, Granted, [Next]_vars, Faults \cap {"initiate", "crash"} = {}
    PROVE  Granted'
<1>u. ud \in UserData
  BY DEF IInv, AuthTypeOK
<1>1. ASSUME NEW r \in Request, ObtainAuthorization(r) PROVE Granted'
  BY <1>1 DEF ObtainAuthorization, Granted, GainedMeansAuthorized, authVars
<1>2. ASSUME NEW c \in Client, ClientVanishes(c) PROVE Granted'
  BY <1>2 DEF ClientVanishes, Granted, GainedMeansAuthorized, authVars, procVars
<1>3. ASSUME NEW c \in Client, NameOwnerChanged(c) PROVE Granted'
  <2> DEFINE v == [ud EXCEPT !.cancelled = TRUE]
  <2>1. v \in UserData /\ v.gained = ud.gained
    BY <1>u, CancelledFacts
  <2>2. (CancelAuth(v) \/ UNCHANGED <<ud, quit, helper>>) /\ UNCHANGED <<reply, active, authdb>>
    BY <1>3 DEF NameOwnerChanged, procVars
  <2> HIDE DEF v
  <2>. QED BY <2>1, <2>2, CancelGranted DEF Granted, GainedMeansAuthorized
<1>4. CASE KillTimerExit
  BY <1>4, ProcessEndsGranted DEF KillTimerExit
<1>5. CASE DoAuth
  <2>1. Dequeue /\ Head(queue) \in Request /\ authdb' = authdb
    BY <1>5, DequeueFacts DEF DoAuth, DoAuthBusy, DoAuthNoPid, DoAuthNoPolicy, DoAuthStart, Dequeue
  <2>2. CASE DoAuthBusy \/ DoAuthNoPid
    <3>1. GainedMeansAuthorized'
      BY <2>1, <2>2, GainsNothing DEF DoAuthBusy, DoAuthNoPid, Granted, IInv, BusTypeOK
    <3>. QED BY <2>1, <2>2, <3>1, SameAuth DEF DoAuthBusy, DoAuthNoPid, authVars
  <2>3. CASE DoAuthNoPolicy
    BY <2>1, <2>3, ConcludeGranted DEF DoAuthNoPolicy
  <2>4. CASE DoAuthStart
    <3> DEFINE v == [NoUd EXCEPT !.dialog = TRUE]
    <3>1. v \in UserData /\ ~v.gained
      BY DEF NoUd, UserData
    <3>2. TryAgain(v) /\ reply' = reply
      BY <2>4 DEF DoAuthStart, InitiateFails
    <3> HIDE DEF v
    <3>. QED BY <2>1, <3>1, <3>2, TryAgainFacts DEF Granted, GainedMeansAuthorized
  <2>. QED BY <1>5, <2>2, <2>3, <2>4 DEF DoAuth
<1>6. CASE HelperStep
  BY <1>6, HelperGranted
<1>7. ~HelperCrashes
  BY DEF HelperCrashes
<1>8. CASE ChildWatch
  <2>1. ExitedZero => helper = "success"
    BY DEF ExitedZero, Granted
  <2>2. /\ ud' = ConversationDone(ud, ExitedZero, helper = "bogus") /\ helper' = "reaped"
        /\ ExitedZero \in BOOLEAN /\ (helper = "bogus") \in BOOLEAN
        /\ UNCHANGED <<reply, active, authdb>>
    BY <1>8 DEF ChildWatch, ExitedZero, procVars
  <2>3. ud'.gained = ExitedZero
    BY ONLY <2>2, <1>u, DoneFacts
  <2>. QED BY <2>1, <2>2, <2>3 DEF Granted, GainedMeansAuthorized
<1>9. CASE UserStep
  BY <1>9, UserGranted
<1>10. CASE LoopStep
  BY <1>10, LoopGranted
<1>11. CASE UNCHANGED vars
  BY <1>11 DEF vars, procVars, authVars, Granted, GainedMeansAuthorized
<1>. QED BY <1>1, <1>2, <1>3, <1>4, <1>5, <1>6, <1>7, <1>8, <1>9, <1>10, <1>11 DEF Next

(* Where the helper starts and is not killed by a signal, a caller that is *)
(* told it gained an authorization has it.                                 *)
THEOREM GrantsAreReal ==
    ASSUME Faults \cap {"initiate", "crash"} = {}
    PROVE  Spec => []GainedMeansAuthorized
<1>1. Init => Granted
  BY NoUdFacts DEF Init, Granted, GainedMeansAuthorized
<1>2. IInv /\ Granted /\ [Next]_vars => Granted'
  BY NextGranted
<1>3. Granted => GainedMeansAuthorized
  BY DEF Granted
<1>. QED BY <1>1, <1>2, <1>3, Invariance, PTL DEF Spec

-----------------------------------------------------------------------------
(* Who cancelled is not told of a grant.  While a dialog is being answered *)
(* only a cancellation can have ended the helper, which left nothing       *)
(* gained; so a success and a cancellation come together only when the     *)
(* signal that the caller is gone follows the success.                     *)

NotBoth ==
    /\ helper # "crashed"
    /\ nest \in {"select", "prompt"} /\ helper = "reaped" => ~ud.gained
    /\ ud.cancelled /\ ud.gained => ClientOf[active] \notin connected

(* The authentication under way is not touched. *)
LEMMA SameNotBoth ==
    ASSUME NotBoth, UNCHANGED <<helper, nest, ud, active>>, connected' \subseteq connected
    PROVE  NotBoth'
BY DEF NotBoth

(* The request is over.                                                    *)
LEMMA OverNotBoth ==
    ASSUME nest' = "idle", ud' = NoUd, helper' = "none"
    PROVE  NotBoth'
BY NoUdFacts DEF NotBoth

(* Any call of polkit_grant_cancel_auth, by a user in a dialog, by another *)
(* choice of the administrator or for a caller that is gone.               *)
LEMMA CancelNotBoth ==
    ASSUME IInv, NotBoth, NEW u \in UserData, u.gained = ud.gained, CancelAuth(u),
           \/ u.cancelled = ud.cancelled
           \/ nest \in {"select", "prompt"}
           \/ ClientOf[active] \notin connected,
           UNCHANGED <<active, connected>>, nest' = nest \/ nest' = "loop"
    PROVE  NotBoth'
<1>1. CASE helper \in Unreaped
  <2>1. helper' = "reaped" /\ ~ud'.gained
    BY <1>1, CancelFacts
  <2>. QED BY <2>1 DEF NotBoth
<1>2. CASE helper \notin Unreaped
  <2>1. helper' = helper /\ ud' = u
    BY <1>2, CancelFacts
  <2>2. nest \in {"select", "prompt"} => helper = "reaped"
    BY <1>2 DEF IInv, AtRest, AuthTypeOK
  <2>. QED BY <2>1, <2>2 DEF NotBoth
<1>. QED BY <1>1, <1>2

LEMMA HelperNotBoth ==
    ASSUME IInv, NotBoth, HelperStep
    PROVE  NotBoth'
<1>u. ud \in UserData
  BY DEF IInv, AuthTypeOK
<1>1. ASSUME NEW a \in BOOLEAN, ConversationType(a) PROVE NotBoth'
  BY <1>1, <1>u DEF ConversationType, UserData, NotBoth, procVars, busVars
<1>2. CASE SelectAdminUser
  <2>1. UNCHANGED <<active, connected>> /\ nest = "loop" /\ helper = "typed"
    BY <1>2 DEF SelectAdminUser, procVars, busVars
  <2>2. CASE Self # NoUser /\ ud.user = NoUser
    <3> DEFINE v == [ud EXCEPT !.user = Self, !.newUser = TRUE]
    <3>1. Self \in User
      BY <2>2, ConstantsOK DEF ConstantsOK
    <3>3. v \in UserData /\ v.gained = ud.gained /\ v.cancelled = ud.cancelled
      BY <1>u, <3>1 DEF UserData
    <3>2. CancelAuth(v) /\ nest' = nest
      BY <1>2, <2>2 DEF SelectAdminUser
    <3>. QED BY ONLY <3>3, <3>2, <2>1, CancelNotBoth, IInv, NotBoth
  <2>3. CASE ~(Self # NoUser /\ ud.user = NoUser)
    <3>1. helper' \in {"typed", "chosen"}
      BY <1>2, <2>1, <2>3 DEF SelectAdminUser
    <3>2. ud'.cancelled = ud.cancelled /\ ud'.gained = ud.gained
      BY <1>2, <1>u, <2>3 DEF SelectAdminUser, UserData
    <3>. QED BY <2>1, <3>1, <3>2 DEF NotBoth
  <2>. QED BY <2>2, <2>3
<1>3. CASE PamPrompt
  BY <1>3, <1>u DEF PamPrompt, UserData, NotBoth, procVars, busVars
<1>4. ASSUME NEW code \in {"success", "failure", "bogus"}, HelperExits(code) PROVE NotBoth'
  BY <1>4 DEF HelperExits, NotBoth, procVars, busVars
<1>. QED BY <1>1, <1>2, <1>3, <1>4 DEF HelperStep

LEMMA UserNotBoth ==
    ASSUME IInv, NotBoth, UserStep
    PROVE  NotBoth'
<1>u. ud \in UserData
  BY DEF IInv, AuthTypeOK
<1>1. ASSUME NEW a \in {"ok", "cancel"}, UserResponds(a) PROVE NotBoth'
  BY <1>1 DEF UserResponds, NotBoth, procVars, busVars
<1>2. CASE DialogResponse
  BY <1>2, <1>u DEF DialogResponse, UserData, NotBoth, procVars, busVars
<1>3. ASSUME NEW a \in User, UserSelected(a) PROVE NotBoth'
  BY <1>3, <1>u DEF UserSelected, UserData, NotBoth, procVars, busVars
<1>4. ASSUME NEW a \in User, UserReselected(a) PROVE NotBoth'
  <2> DEFINE v == [ud EXCEPT !.user = a, !.newUser = TRUE]
  <2>1. v \in UserData /\ v.gained = ud.gained /\ v.cancelled = ud.cancelled
    BY <1>u, <1>4 DEF UserData
  <2>2. CancelAuth(v) /\ UNCHANGED <<active, connected, nest>>
    BY <1>4 DEF UserReselected, procVars, busVars
  <2>. QED BY ONLY <2>1, <2>2, CancelNotBoth, IInv, NotBoth
<1>. QED BY <1>1, <1>2, <1>3, <1>4 DEF UserStep

LEMMA LoopNotBoth ==
    ASSUME IInv, NotBoth, LoopStep, "initiate" \notin Faults
    PROVE  NotBoth'
<1> DEFINE v == [ud EXCEPT !.cancelled = TRUE]
<1>u. ud \in UserData /\ v \in UserData /\ v.gained = ud.gained
  BY CancelledFacts DEF IInv, AuthTypeOK
<1> HIDE DEF v
<1>1. CASE SelectReturns \/ PromptReturns
  <2>1. /\ nest \in {"select", "prompt"} /\ nest' = "loop"
        /\ UNCHANGED <<active, connected>>
        /\ CancelAuth(v) \/ (helper' \in {"chosen", "verifying", helper} /\ ud' = ud)
    BY <1>1 DEF SelectReturns, PromptReturns, procVars, busVars, v
  <2>. QED BY <2>1, <1>u, CancelNotBoth DEF NotBoth
<1>2. CASE PromptReturnsNoDialog
  BY <1>2, OverNotBoth DEF PromptReturnsNoDialog, ProcessEnds
<1>3. CASE Shake
  BY <1>3 DEF Shake, NotBoth, procVars, busVars
<1>4. CASE Finish
  BY <1>4, OverNotBoth DEF Finish, Conclude
<1>5. CASE Restart
  <2>1. TryAgain(ud)
    BY <1>5 DEF Restart, InitiateFails
  <2>. QED BY <2>1, <1>u, TryAgainFacts DEF NotBoth
<1>. QED BY <1>1, <1>2, <1>3, <1>4, <1>5
         DEF LoopStep, RestartAsNewUser, LoopReturns, ShakeReturns

LEMMA NextNotBoth ==
    ASSUME IInv, NotBoth, [Next]_vars, Faults \cap {"initiate", "crash"} = {}
    PROVE  NotBoth'
<1>u. ud \in UserData
  BY DEF IInv, AuthTypeOK
<1>1. ASSUME NEW r \in Request, ObtainAuthorization(r) PROVE NotBoth'
  BY <1>1, SameNotBoth DEF ObtainAuthorization, authVars, busVars
<1>2. ASSUME NEW c \in Client, ClientVanishes(c) PROVE NotBoth'
  BY <1>2, SameNotBoth DEF ClientVanishes, authVars, procVars
<1>3. ASSUME NEW c \in Client, NameOwnerChanged(c) PROVE NotBoth'
  <2> DEFINE v == [ud EXCEPT !.cancelled = TRUE]
  <2>1. v \in UserData /\ v.gained = ud.gained
    BY <1>u, CancelledFacts
  <2>2. c \notin connected /\ UNCHANGED <<active, connected, nest>>
    BY <1>3 DEF NameOwnerChanged, procVars, IInv, Dialog
  <2>3. \/ ClientOf[active] = c /\ CancelAuth(v)
        \/ UNCHANGED <<ud, helper>>
    BY <1>3 DEF NameOwnerChanged
  <2> HIDE DEF v
  <2>4. CASE UNCHANGED <<ud, helper>>
    BY <2>2, <2>4, SameNotBoth
  <2>5. CASE ClientOf[active] = c /\ CancelAuth(v)
    BY ONLY <2>1, <2>2, <2>5, CancelNotBoth, IInv, NotBoth
  <2>. QED BY <2>3, <2>4, <2>5
<1>4. CASE KillTimerExit
  BY <1>4, OverNotBoth DEF KillTimerExit, ProcessEnds
<1>5. CASE DoAuth
  <2>1. CASE DoAuthBusy \/ DoAuthNoPid
    BY <2>1, SameNotBoth DEF DoAuthBusy, DoAuthNoPid, Dequeue, authVars, busVars
  <2>2. CASE DoAuthNoPolicy
    BY <2>2, OverNotBoth DEF DoAuthNoPolicy, Conclude
  <2>3. CASE DoAuthStart
    <3> DEFINE v == [NoUd EXCEPT !.dialog = TRUE]
    <3>1. v \in UserData
      BY DEF NoUd, UserData
    <3>2. TryAgain(v)
      BY <2>3 DEF DoAuthStart, InitiateFails
    <3> HIDE DEF v
    <3>. QED BY <3>1, <3>2, TryAgainFacts DEF NotBoth
  <2>. QED BY <1>5, <2>1, <2>2, <2>3 DEF DoAuth
<1>6. CASE HelperStep
  BY <1>6, HelperNotBoth
<1>7. ~HelperCrashes
  BY DEF HelperCrashes
<1>8. CASE ChildWatch
  <2>1. /\ ud' = ConversationDone(ud, ExitedZero, helper = "bogus") /\ helper' = "reaped"
        /\ ExitedZero \in BOOLEAN /\ (helper = "bogus") \in BOOLEAN
    BY <1>8 DEF ChildWatch, ExitedZero
  <2>2. ud'.cancelled = ud.cancelled
    BY ONLY <2>1, <1>u, DoneFacts
  <2>3. helper \in Exited /\ nest' = nest /\ InProgress
    BY <1>8 DEF ChildWatch, IInv, AtRest, InProgress, Exited
  <2>4. ~quit /\ nest \notin {"select", "prompt"}
    BY <2>3 DEF IInv, Attempt, NotBoth, Exited, Live
  <2>5. ~ud.cancelled
    BY <2>4 DEF IInv, Attempt
  <2>. QED BY <2>1, <2>2, <2>3, <2>4, <2>5 DEF NotBoth
<1>9. CASE UserStep
  BY <1>9, UserNotBoth
<1>10. CASE LoopStep
  BY <1>10, LoopNotBoth
<1>11. CASE UNCHANGED vars
  BY <1>11, SameNotBoth DEF vars, procVars, busVars, authVars
<1>. QED BY <1>1, <1>2, <1>3, <1>4, <1>5, <1>6, <1>7, <1>8, <1>9, <1>10, <1>11 DEF Next

(* Only a return of the main loop of do_polkit_auth tells the caller that  *)
(* is authenticated what it gained.                                        *)
LEMMA GrantTold ==
    ASSUME IInv, Next, NEW r \in Request, active = r, reply[r] = "none", reply'[r] = "gained",
           "initiate" \notin Faults
    PROVE  Finish
<1>1. reply \in [Request -> {"none", "gained", "denied", "busy", "nopid", "lost"}]
  BY DEF IInv, BusTypeOK
<1>2. reply'[r] # reply[r] /\ InProgress
  BY ConstantsOK DEF InProgress
<1>3. ~ProcessEnds
  BY <1>1 DEF ProcessEnds
<1>4. ~DoAuthBusy /\ ~DoAuthNoPid
  BY <1>1, <1>2, DequeueFacts DEF DoAuthBusy, DoAuthNoPid
<1>5. ~Restart
  BY <1>1, <1>2 DEF Restart, InitiateFails, procVars
<1>6. CASE LoopStep
  <2>1. Finish \/ Restart \/ ProcessEnds \/ reply' = reply
    BY <1>6 DEF LoopStep, SelectReturns, PromptReturns, PromptReturnsNoDialog, RestartAsNewUser,
                Shake, LoopReturns, ShakeReturns, procVars
  <2>. QED BY <2>1, <1>2, <1>3, <1>5
<1>7. ~DoAuth
  BY <1>2, <1>4 DEF DoAuth, DoAuthNoPolicy, DoAuthStart
<1>8. CASE ~LoopStep
  <2>1. HelperStep \/ HelperCrashes \/ ChildWatch => reply' = reply
    BY DEF HelperStep, ConversationType, SelectAdminUser, PamPrompt, HelperExits, HelperCrashes,
           ChildWatch, procVars
  <2>2. UserStep => reply' = reply
    BY DEF UserStep, UserResponds, DialogResponse, UserSelected, UserReselected, procVars
  <2>3. ASSUME NEW c \in Client, ClientVanishes(c) \/ NameOwnerChanged(c)
        PROVE  reply' = reply
    BY <2>3 DEF ClientVanishes, NameOwnerChanged, procVars
  <2>4. ASSUME NEW s \in Request, ObtainAuthorization(s)
        PROVE  reply' = reply
    BY <2>4 DEF ObtainAuthorization
  <2>5. ~KillTimerExit
    BY <1>3 DEF KillTimerExit
  <2>. QED BY <1>2, <1>7, <1>8, <2>1, <2>2, <2>3, <2>4, <2>5 DEF Next
<1>. QED BY <1>6, <1>8

(* Where the helper starts and is not killed by a signal, a caller that    *)
(* stays is not told it gained what its user cancelled.                    *)
THEOREM CancellationDenies ==
    ASSUME Faults \cap {"initiate", "crash"} = {}
    PROVE  Spec => CancelledIsDenied
<1> DEFINE A == \A r \in Request :
                    /\ active = r /\ reply[r] = "none" /\ reply'[r] = "gained"
                    /\ ud.cancelled
                    => ClientOf[r] \notin connected
<1>1. Init => NotBoth
  BY NoUdFacts DEF Init, NotBoth
<1>2. IInv /\ NotBoth /\ [Next]_vars => NotBoth'
  BY NextNotBoth
<1>3. IInv /\ NotBoth /\ [Next]_vars => [A]_vars
  <2> SUFFICES ASSUME IInv, NotBoth, Next, NEW r \in Request,
                      active = r, reply[r] = "none", reply'[r] = "gained", ud.cancelled
               PROVE  ClientOf[r] \notin connected
    BY DEF vars
  <2>1. Finish
    BY GrantTold
  <2>2. ud.gained
    BY <2>1 DEF Finish, Conclude, IInv, BusTypeOK
  <2>. QED BY <2>2 DEF NotBoth
<1>. QED BY <1>1, <1>2, <1>3, Invariance, PTL DEF Spec, CancelledIsDenied

=============================================================================
