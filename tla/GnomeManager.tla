---------------------------- MODULE GnomeManager ----------------------------
(***************************************************************************)
(* The GNOME authentication agent, policykit-gnome/src/polkit-gnome-       *)
(* manager.c.  One thread runs a GLib main loop.  An ObtainAuthorization   *)
(* or ShowDialog call only queues an idle source; the source's function    *)
(* do_auth runs the whole authentication, and while it does, nested main   *)
(* loops dispatch everything else: further do_auth sources, the bus's      *)
(* NameOwnerChanged signals, the user's input, the exit of the helper that *)
(* talks to PAM, and the kill timer.                                       *)
(*                                                                         *)
(* Each action is what the thread does between two returns to a main loop. *)
(* `nest' says which loop is innermost:                                    *)
(*   idle    the outermost loop, no authentication                         *)
(*   loop    g_main_loop_run in do_polkit_auth                             *)
(*   select  the loop over g_main_context_iteration in                     *)
(*           conversation_select_admin_user                                *)
(*   prompt  gtk_dialog_run in conversation_pam_prompt                     *)
(*   shake   gtk_main_iteration in ..._indicate_auth_error                 *)
(***************************************************************************)
EXTENDS Naturals, Sequences

CONSTANTS
    Client,        \* connections to the session bus that call the agent
    Request,       \* the calls, each made once
    ClientOf,      \* the caller of each request
    ShowDialogReq, \* the calls made through the deprecated ShowDialog
    User,          \* the administrators the helper offers
    Self,          \* the user the agent runs as, NoUser if not in User
    NoExit,        \* the option --no-exit
    Faults,        \* what may go wrong: "initiate", "crash", "vanish"
    NoReq, NoUser, \* NULL
    Closed         \* the user name "": the dialog was closed instead

ASSUME ConstantsOK ==
    /\ ClientOf \in [Request -> Client]
    /\ ShowDialogReq \subseteq Request
    /\ Self \in User \cup {NoUser}
    /\ NoExit \in BOOLEAN
    /\ Faults \subseteq {"initiate", "crash", "vanish"}
    /\ NoReq \notin Request
    /\ NoUser \notin User
    /\ Closed \notin User \cup {NoUser}

VARIABLES
    connected,  \* the clients on the bus
    gone,       \* NameOwnerChanged signals not dispatched yet
    running,    \* the agent's process exists
    timer,      \* kill_timer_id > 0
    queue,      \* do_auth idle sources, in the order they will be dispatched
    reply,      \* what each request was answered
    active,     \* the request of the do_auth that authenticates
    nest,       \* the innermost main loop
    ud,         \* the static UserData
    quit,       \* g_main_loop_quit was called on ud->loop
    tries,      \* num_tries
    helper,     \* the helper process of the static grant
    helperUser, \* the administrator that helper was told to verify
    answer,     \* the response gtk_dialog_run will return
    authdb      \* requests the helper recorded an authorization for

procVars == <<running, timer, queue, reply, active>>
busVars  == <<connected, gone>>
authVars == <<nest, ud, quit, tries, helper, helperUser, answer>>
vars     == <<procVars, busVars, authVars, authdb>>

MaxTries == 3

(* The helper talks to PAM: it tells the kind of authentication, may ask   *)
(* for an administrator, and then asks for passwords until PAM decides.    *)
Live     == {"started", "typed", "chosen", "verifying"}
Exited   == {"success", "failure", "bogus", "crashed"}
Unreaped == Live \cup Exited

InProgress == active # NoReq

NoUd == [gained |-> FALSE, cancelled |-> FALSE, bogus |-> FALSE,
         newUser |-> FALSE, admin |-> FALSE, user |-> NoUser,
         dialog |-> FALSE, shown |-> FALSE]

UserData ==
    [gained : BOOLEAN, cancelled : BOOLEAN, bogus : BOOLEAN, newUser : BOOLEAN,
     admin : BOOLEAN, user : User \cup {NoUser, Closed}, dialog : BOOLEAN,
     shown : BOOLEAN]

BusTypeOK ==
    /\ connected \subseteq Client
    /\ gone \subseteq Client
    /\ running \in BOOLEAN
    /\ timer \in BOOLEAN
    /\ reply \in [Request -> {"none", "gained", "denied", "busy", "nopid", "lost"}]
    /\ active \in Request \cup {NoReq}
    /\ authdb \subseteq Request

AuthTypeOK ==
    /\ nest \in {"idle", "loop", "select", "prompt", "shake"}
    /\ ud \in UserData
    /\ quit \in BOOLEAN
    /\ helper \in Unreaped \cup {"none", "reaped"}
    /\ helperUser \in User \cup {NoUser, Closed}
    /\ answer \in {"none", "ok", "cancel"}

TypeOK ==
    /\ BusTypeOK
    /\ AuthTypeOK
    /\ queue \in Seq(Request)
    /\ tries \in 0 .. MaxTries

Init ==
    /\ connected = Client
    /\ gone = {}
    /\ running = FALSE
    /\ timer = FALSE
    /\ queue = <<>>
    /\ reply = [r \in Request |-> "none"]
    /\ active = NoReq
    /\ nest = "idle"
    /\ ud = NoUd
    /\ quit = FALSE
    /\ tries = 0
    /\ helper = "none"
    /\ helperUser = NoUser
    /\ answer = "none"
    /\ authdb = {}

Queued(r) == \E i \in 1 .. Len(queue) : queue[i] = r
Sent(r)   == Queued(r) \/ active = r \/ reply[r] # "none"

-----------------------------------------------------------------------------
(* The parts of polkit-gnome-manager.c the handlers share.                 *)

KillTimerStop  == timer' = FALSE
KillTimerStart == timer' = ~NoExit

\* Mutant: the dialog is destroyed whenever the attempt did not succeed.
DoneDestroysOnFailure(u, gained, bogus) ==
    [u EXCEPT !.gained = gained, !.bogus = bogus, !.dialog = @ /\ gained]

\* Mutant: everything but bogus input counts as success.
DoneGainsUnlessBogus(u, gained, bogus) ==
    [u EXCEPT !.gained = ~bogus, !.bogus = bogus,
              !.dialog = @ /\ ~(bogus \/ u.cancelled)]

(* conversation_done on the UserData u. *)
ConversationDone(u, gained, bogus) ==
    [u EXCEPT !.gained = gained, !.bogus = bogus,
              !.dialog = @ /\ ~(bogus \/ u.cancelled)]

\* Mutant: the cancellation is noted but the helper left alone.
CancelOnlyNoted(u) ==
    /\ ud' = u
    /\ UNCHANGED <<helper, quit>>

(* polkit_grant_cancel_auth, with the UserData as u: kills a helper that   *)
(* has not been reaped and reports the failure, else does nothing.         *)
CancelAuth(u) ==
    IF helper \in Unreaped
    THEN /\ helper' = "reaped"
         /\ ud' = ConversationDone(u, FALSE, FALSE)
         /\ quit' = TRUE
    ELSE /\ ud' = u
         /\ UNCHANGED <<helper, quit>>

\* Mutant: the kill timer is not restarted after an authentication.
ConcludeNoTimer(r, gained) ==
    /\ reply' = [reply EXCEPT ![r] = IF gained THEN "gained" ELSE "denied"]
    /\ active' = NoReq
    /\ timer' = FALSE
    /\ nest' = "idle"
    /\ ud' = NoUd
    /\ quit' = FALSE
    /\ tries' = 0
    /\ helper' = "none"
    /\ helperUser' = NoUser
    /\ answer' = "none"

(* do_polkit_auth and do_auth after `error:' and the return: the dialog is *)
(* destroyed, the caller answered, the kill timer restarted.               *)
Conclude(r, gained) ==
    /\ reply' = [reply EXCEPT ![r] = IF gained THEN "gained" ELSE "denied"]
    /\ active' = NoReq
    /\ KillTimerStart
    /\ nest' = "idle"
    /\ ud' = NoUd
    /\ quit' = FALSE
    /\ tries' = 0
    /\ helper' = "none"
    /\ helperUser' = NoUser
    /\ answer' = "none"

(* do_polkit_auth from `try_again:' into g_main_loop_run, with a helper    *)
(* that starts.                                                            *)
TryAgain(u) ==
    /\ helper' = "started"
    /\ ud' = [u EXCEPT !.cancelled = FALSE, !.bogus = FALSE, !.newUser = FALSE]
    /\ quit' = FALSE
    /\ nest' = "loop"
    /\ helperUser' = NoUser
    /\ UNCHANGED <<tries, answer>>

(* do_polkit_auth from `try_again:' when polkit_grant_initiate_auth fails. *)
InitiateFails(r) ==
    /\ "initiate" \in Faults
    /\ Conclude(r, TRUE)

-----------------------------------------------------------------------------
(* The bus and the callers.                                                *)

(* polkit_gnome_manager_obtain_authorization or ..._show_dialog; a call    *)
(* that finds no agent makes the bus start one (main,                      *)
(* polkit_gnome_manager_new).                                              *)
ObtainAuthorization(r) ==
    /\ ~Sent(r)
    /\ ClientOf[r] \in connected
    /\ queue' = Append(queue, r)
    /\ running' = TRUE
    /\ IF running THEN UNCHANGED timer ELSE KillTimerStart
    /\ UNCHANGED <<reply, active, busVars, authVars, authdb>>

(* A caller leaves the bus; the signal reaches an agent that runs. *)
ClientVanishes(c) ==
    /\ "vanish" \in Faults
    /\ c \in connected
    /\ connected' = connected \ {c}
    /\ gone' = IF running THEN gone \cup {c} ELSE gone
    /\ UNCHANGED <<procVars, authVars, authdb>>

(* session_bus_name_owner_changed, and do_cancel_auth. *)
NameOwnerChanged(c) ==
    /\ running
    /\ c \in gone
    /\ gone' = gone \ {c}
    /\ IF InProgress /\ ClientOf[active] = c
       THEN CancelAuth([ud EXCEPT !.cancelled = TRUE])
       ELSE UNCHANGED <<ud, quit, helper>>
    /\ UNCHANGED <<procVars, connected, nest, tries, helperUser, answer, authdb>>

(* The process ends: the bus answers every call it still owed. *)
ProcessEnds ==
    /\ running' = FALSE
    /\ timer' = FALSE
    /\ reply' = [r \in Request |->
                    IF reply[r] = "none" /\ Sent(r) THEN "lost" ELSE reply[r]]
    /\ queue' = <<>>
    /\ active' = NoReq
    /\ gone' = {}
    /\ nest' = "idle"
    /\ ud' = NoUd
    /\ quit' = FALSE
    /\ tries' = 0
    /\ helper' = "none"
    /\ helperUser' = NoUser
    /\ answer' = "none"
    /\ UNCHANGED <<connected, authdb>>

(* kill_timer_exit: exit (0), whatever else is going on. *)
KillTimerExit == running /\ timer /\ ProcessEnds

-----------------------------------------------------------------------------
(* do_auth, dispatched by any of the main loops.                           *)

(* An idle source is never dispatched between g_main_loop_quit and the     *)
(* return of the loop: its priority is the lowest.                         *)
Dequeue ==
    /\ running
    /\ ~(nest = "loop" /\ quit)
    /\ queue # <<>>
    /\ queue' = Tail(queue)
    /\ UNCHANGED <<running, busVars, authdb>>

(* Another authentication is in progress. *)
DoAuthBusy ==
    /\ Dequeue
    /\ InProgress
    /\ reply' = [reply EXCEPT ![Head(queue)] = "busy"]
    /\ KillTimerStart
    /\ UNCHANGED <<active, authVars>>

(* GetConnectionUnixProcessID needs the sender of a ShowDialog call to be  *)
(* on the bus.                                                             *)
CallerLookupFails(r) == r \in ShowDialogReq /\ ClientOf[r] \notin connected

DoAuthNoPid ==
    /\ Dequeue
    /\ ~InProgress
    /\ CallerLookupFails(Head(queue))
    /\ reply' = [reply EXCEPT ![Head(queue)] = "nopid"]
    /\ KillTimerStart
    /\ UNCHANGED <<active, authVars>>

(* do_polkit_auth finds no caller, no policy or no message and gives up. *)
DoAuthNoPolicy ==
    /\ Dequeue
    /\ ~InProgress
    /\ ~CallerLookupFails(Head(queue))
    /\ Conclude(Head(queue), FALSE)

\* Mutant: do_auth does not look at auth_in_progress.
DoAuthStartUnguarded ==
    /\ Dequeue
    /\ ~CallerLookupFails(Head(queue))
    /\ \/ /\ active' = Head(queue)
          /\ KillTimerStop
          /\ TryAgain([NoUd EXCEPT !.dialog = TRUE])
          /\ UNCHANGED reply
       \/ InitiateFails(Head(queue))

(* do_polkit_auth builds the dialog and enters its main loop. *)
DoAuthStart ==
    /\ Dequeue
    /\ ~InProgress
    /\ ~CallerLookupFails(Head(queue))
    /\ \/ /\ active' = Head(queue)
          /\ KillTimerStop
          /\ TryAgain([NoUd EXCEPT !.dialog = TRUE])
          /\ UNCHANGED reply
       \/ InitiateFails(Head(queue))

-----------------------------------------------------------------------------
(* The helper, and the grant library's calls into the agent.  The helper's *)
(* output is read in the innermost loop of do_polkit_auth only: its source *)
(* is not dispatched while a conversation function it called has not       *)
(* returned.                                                               *)

(* conversation_type: the kind of authentication this attempt needs. *)
ConversationType(admin) ==
    /\ nest = "loop"
    /\ helper = "started"
    /\ helper' = "typed"
    /\ ud' = [ud EXCEPT !.admin = admin]
    /\ UNCHANGED <<procVars, busVars, nest, quit, tries, helperUser, answer, authdb>>

(* conversation_select_admin_user: the user already chosen is reused, the  *)
(* agent's own user is preselected, which the combo box reports like a     *)
(* choice of the user (user_selected), or a loop waits for a choice.       *)
SelectAdminUser ==
    /\ nest = "loop"
    /\ helper = "typed"
    /\ ud.admin
    /\ \/ /\ ud.user # NoUser
          /\ helper' = "chosen"
          /\ helperUser' = ud.user
          /\ UNCHANGED <<nest, ud, quit>>
       \/ /\ ud.user = NoUser
          /\ Self # NoUser
          /\ CancelAuth([ud EXCEPT !.user = Self, !.newUser = TRUE])
          /\ UNCHANGED <<nest, helperUser>>
       \/ /\ ud.user = NoUser
          /\ Self = NoUser
          /\ nest' = "select"
          /\ ud' = [ud EXCEPT !.shown = TRUE]
          /\ UNCHANGED <<helper, helperUser, quit>>
    /\ UNCHANGED <<procVars, busVars, tries, answer, authdb>>

(* conversation_pam_prompt, up to gtk_dialog_run on the dialog shown. *)
PamPrompt ==
    /\ nest = "loop"
    /\ helper \in {"typed", "chosen", "verifying"}
    /\ nest' = "prompt"
    /\ ud' = [ud EXCEPT !.shown = TRUE]
    /\ answer' = "none"
    /\ UNCHANGED <<procVars, busVars, quit, tries, helper, helperUser, authdb>>

(* The helper ends by itself: PAM decided, after which it records the      *)
(* authorization, or it could not make sense of what it read.              *)
HelperExits(code) ==
    /\ nest = "loop"
    /\ \/ code = "bogus" /\ helper \in Live
       \/ code \in {"success", "failure"} /\ helper \in {"typed", "chosen", "verifying"}
    /\ helper' = code
    /\ authdb' = IF code = "success" THEN authdb \cup {active} ELSE authdb
    /\ UNCHANGED <<procVars, busVars, nest, ud, quit, tries, helperUser, answer>>

(* A signal ends the helper at any time. *)
HelperCrashes ==
    /\ "crash" \in Faults
    /\ helper \in Live
    /\ helper' = "crashed"
    /\ UNCHANGED <<procVars, busVars, nest, ud, quit, tries, helperUser, answer, authdb>>

(* child_watch_func takes WEXITSTATUS of the wait status, which is 0 for a *)
(* process a signal ended.                                                 *)
ExitedZero == helper \in {"success", "crashed"}

\* Mutant: conversation_done does not quit the loop.
ChildWatchNoQuit ==
    /\ helper \in Exited
    /\ ud' = ConversationDone(ud, ExitedZero, helper = "bogus")
    /\ helper' = "reaped"
    /\ UNCHANGED <<procVars, busVars, nest, quit, tries, helperUser, answer, authdb>>

(* child_watch_func, polkit_grant_child_func and conversation_done. *)
ChildWatch ==
    /\ helper \in Exited
    /\ ud' = ConversationDone(ud, ExitedZero, helper = "bogus")
    /\ quit' = TRUE
    /\ helper' = "reaped"
    /\ UNCHANGED <<procVars, busVars, nest, tries, helperUser, answer, authdb>>

-----------------------------------------------------------------------------
(* The user.  A main loop handles one event of the user in an iteration,   *)
(* so nothing is done between an answer and the return of the loop that    *)
(* waits for it, though other sources may be dispatched.                   *)

UserMayAnswer == ud.dialog /\ ud.shown /\ answer = "none"

(* A response of the dialog while gtk_dialog_run waits. *)
UserResponds(response) ==
    /\ nest = "prompt"
    /\ UserMayAnswer
    /\ answer' = response
    /\ UNCHANGED <<procVars, busVars, nest, ud, quit, tries, helper, helperUser, authdb>>

(* dialog_response: the dialog is closed while a user should be selected. *)
DialogResponse ==
    /\ nest = "select"
    /\ ud.dialog
    /\ ud.user = NoUser
    /\ ud' = [ud EXCEPT !.user = Closed]
    /\ UNCHANGED <<procVars, busVars, nest, quit, tries, helper, helperUser, answer, authdb>>

(* user_selected, first case: the choice the select loop waits for. *)
UserSelected(u) ==
    /\ nest = "select"
    /\ ud.dialog
    /\ ud.user = NoUser
    /\ ud' = [ud EXCEPT !.user = u]
    /\ UNCHANGED <<procVars, busVars, nest, quit, tries, helper, helperUser, answer, authdb>>

\* Mutant: the helper goes on checking the password of the first user.
UserReselectedNoRestart(u) ==
    /\ nest \in {"loop", "prompt", "shake"}
    /\ UserMayAnswer
    /\ ud.user \notin {NoUser, u}
    /\ ud' = [ud EXCEPT !.user = u]
    /\ UNCHANGED <<procVars, busVars, nest, quit, tries, helper, helperUser, answer, authdb>>

(* user_selected, second case: another user is chosen, at any later time   *)
(* the dialog exists.  A gtk_dialog_run is answered GTK_RESPONSE_OK.       *)
UserReselected(u) ==
    /\ nest \in {"loop", "prompt", "shake"}
    /\ UserMayAnswer
    /\ ud.user \notin {NoUser, u}
    /\ CancelAuth([ud EXCEPT !.user = u, !.newUser = TRUE])
    /\ answer' = IF nest = "prompt" THEN "ok" ELSE answer
    /\ UNCHANGED <<procVars, busVars, nest, tries, helperUser, authdb>>

-----------------------------------------------------------------------------
(* The nested loops return.                                                *)

(* The rest of conversation_select_admin_user. *)
SelectReturns ==
    /\ nest = "select"
    /\ ud.user # NoUser
    /\ nest' = "loop"
    /\ \/ /\ ud.user = Closed
          /\ CancelAuth([ud EXCEPT !.cancelled = TRUE])
          /\ UNCHANGED helperUser
       \/ /\ ud.user # Closed
          /\ helper' = IF helper = "typed" THEN "chosen" ELSE helper
          /\ helperUser' = ud.user
          /\ UNCHANGED <<ud, quit>>
    /\ UNCHANGED <<procVars, busVars, tries, answer, authdb>>

(* The rest of conversation_pam_prompt: gtk_dialog_run returns the         *)
(* response, or GTK_RESPONSE_NONE when the dialog was destroyed first.     *)
PromptReturns ==
    /\ nest = "prompt"
    /\ \/ /\ answer = "ok"
          /\ ud.dialog
          /\ helper' = IF helper \in Live THEN "verifying" ELSE helper
          /\ UNCHANGED <<ud, quit>>
       \/ /\ answer = "cancel" \/ (answer = "none" /\ ~ud.dialog)
          /\ CancelAuth([ud EXCEPT !.cancelled = TRUE])
    /\ nest' = "loop"
    /\ answer' = "none"
    /\ UNCHANGED <<procVars, busVars, tries, helperUser, authdb>>

(* "Authenticate" was clicked and the dialog destroyed in one iteration:   *)
(* polkit_gnome_auth_dialog_get_password reads through a null pointer.     *)
PromptReturnsNoDialog ==
    /\ nest = "prompt"
    /\ answer = "ok"
    /\ ~ud.dialog
    /\ ProcessEnds

(* The caller of do_polkit_auth is told ud->gained_privilege. *)
Finish ==
    /\ Conclude(active, ud.gained)
    /\ UNCHANGED <<running, queue, busVars, authdb>>

(* `goto try_again' *)
Restart ==
    \/ /\ TryAgain(ud)
       /\ UNCHANGED <<procVars, busVars, authdb>>
    \/ /\ InitiateFails(active)
       /\ UNCHANGED <<running, queue, busVars, authdb>>

(* g_main_loop_run returns to do_polkit_auth. *)
RestartAsNewUser ==
    /\ nest = "loop"
    /\ quit
    /\ ud.newUser
    /\ Restart

Failed == ~ud.gained /\ ~ud.cancelled /\ ~ud.bogus /\ ud.dialog

Shake ==
    /\ nest = "loop"
    /\ quit
    /\ ~ud.newUser
    /\ Failed
    /\ tries' = tries + 1
    /\ nest' = "shake"
    /\ UNCHANGED <<procVars, busVars, ud, quit, helper, helperUser, answer, authdb>>

LoopReturns ==
    /\ nest = "loop"
    /\ quit
    /\ ~ud.newUser
    /\ ~Failed
    /\ Finish

\* Mutant: one attempt too few.
ShakeReturnsTwoTries ==
    /\ nest = "shake"
    /\ \/ tries < MaxTries - 1 /\ Restart
       \/ tries >= MaxTries - 1 /\ Finish

(* polkit_gnome_auth_dialog_indicate_auth_error returns. *)
ShakeReturns ==
    /\ nest = "shake"
    /\ \/ tries < MaxTries /\ Restart
       \/ tries = MaxTries /\ Finish

-----------------------------------------------------------------------------
DoAuth == DoAuthBusy \/ DoAuthNoPid \/ DoAuthNoPolicy \/ DoAuthStart

HelperStep ==
    \/ \E admin \in BOOLEAN : ConversationType(admin)
    \/ SelectAdminUser
    \/ PamPrompt
    \/ \E code \in {"success", "failure", "bogus"} : HelperExits(code)

LoopStep ==
    \/ SelectReturns
    \/ PromptReturns
    \/ PromptReturnsNoDialog
    \/ RestartAsNewUser
    \/ Shake
    \/ LoopReturns
    \/ ShakeReturns

UserStep ==
    \/ \E response \in {"ok", "cancel"} : UserResponds(response)
    \/ DialogResponse
    \/ \E u \in User : UserSelected(u) \/ UserReselected(u)

Next ==
    \/ \E r \in Request : ObtainAuthorization(r)
    \/ \E c \in Client : ClientVanishes(c) \/ NameOwnerChanged(c)
    \/ KillTimerExit
    \/ DoAuth
    \/ HelperStep
    \/ HelperCrashes
    \/ ChildWatch
    \/ UserStep
    \/ LoopStep

Spec == Init /\ [][Next]_vars

(* The main loop serves every source in the end, and returns from a loop   *)
(* that was quit.  The helper is a process of its own that the user can    *)
(* interrupt, by choosing another administrator, but not outrun for ever.  *)
(* Nothing is assumed of the user or of the callers.                       *)
Fairness ==
    /\ SF_vars(DoAuth)
    /\ WF_vars(ChildWatch)
    /\ WF_vars(LoopStep)
    /\ WF_vars(KillTimerExit)
    /\ \A c \in Client : WF_vars(NameOwnerChanged(c))
    /\ SF_vars(\E admin \in BOOLEAN : ConversationType(admin))
    /\ SF_vars(SelectAdminUser)
    /\ SF_vars(PamPrompt)

FairSpec == Spec /\ Fairness

-----------------------------------------------------------------------------
(* Properties                                                              *)

(* Conversation functions use ud->dialog without a check: while the helper *)
(* can still call one, and once it has succeeded (the "remember" options   *)
(* are read then), no cancellation, restart or refusal has destroyed it.   *)
DialogOutlivesHelper ==
    InProgress /\ (helper \in Unreaped \/ ud.gained) => ud.dialog

(* The administrator whose password the helper checks is the one the       *)
(* dialog shows, however often the choice changes and the helper restarts, *)
(* and never the empty name that stands for a closed dialog.               *)
PromptNamesHelperUser ==
    helper \in Unreaped /\ helperUser # NoUser =>
        helperUser = ud.user /\ helperUser \in User

(* What the agent does with its dialog while a helper may use it: it keeps *)
(* it, and keeps it about the administrator whose password is checked.     *)
DialogIsRight == DialogOutlivesHelper /\ PromptNamesHelperUser

(* Once the user or a vanished caller cancelled while the helper was at    *)
(* work, a caller that is still there is not told it gained anything.      *)
CancelledIsDenied ==
    [][\A r \in Request :
          /\ active = r /\ reply[r] = "none" /\ reply'[r] = "gained"
          /\ ud.cancelled
          => ClientOf[r] \notin connected]_vars

(* An authentication the user completed is denied only because it was      *)
(* cancelled, the helper could not make sense of its input, or the third   *)
(* attempt failed: an attempt is never cut short by a restart, a request   *)
(* refused meanwhile or a signal for another client.                       *)
DeniedForCause ==
    [][\A r \in Request :
          active = r /\ reply[r] = "none" /\ reply'[r] = "denied"
          => ud.cancelled \/ ud.bogus \/ tries = MaxTries]_vars

(* A caller told it gained the authorization has one in the database.      *)
GainedMeansAuthorized ==
    \A r \in Request : reply[r] = "gained" => r \in authdb

(* An agent started without --no-exit that has nothing to do will exit: no *)
(* path through do_auth leaves the kill timer stopped.                     *)
IdleAgentHasTimer ==
    running /\ ~InProgress /\ queue = <<>> => timer = ~NoExit

(* The process ends by the kill timer, or else on account of a caller that *)
(* is no longer there: no caller still on the bus can make it crash.       *)
EndsByTimerOrVanishedCaller ==
    [][running /\ ~running' =>
          timer \/ (InProgress /\ ClientOf[active] \notin connected)]_vars

(* A queued request does not wait for the authentication in progress: some *)
(* nested loop answers it, whatever that loop is waiting for.              *)
NoRequestWaits == \A r \in Request : Queued(r) ~> ~Queued(r)

(* The dialog is there and waits for its user. *)
AwaitsUser == nest \in {"select", "prompt"} /\ UserMayAnswer

(* An authentication whose caller stays gets to where its user has to      *)
(* decide, or ends: a helper that is killed or does not start, other       *)
(* callers, restarts and failed attempts never leave the agent in a loop   *)
(* that nobody will quit.                                                  *)
CallerProgresses ==
    InProgress ~> (~InProgress \/ AwaitsUser \/ ClientOf[active] \notin connected)

(* No caller is left waiting by the agent, neither in its queue nor while  *)
(* it is authenticated.                                                    *)
CallersAreServed == NoRequestWaits /\ CallerProgresses

-----------------------------------------------------------------------------
(* The agent implements AuthAgent.                                         *)

outcome ==
    [r \in Request |->
        CASE reply[r] \in {"gained", "denied", "lost"} -> reply[r]
          [] reply[r] \in {"busy", "nopid"}           -> "refused"
          [] OTHER -> IF active = r THEN "authenticating"
                      ELSE IF Queued(r) THEN "waiting" ELSE "unsent"]

Agent == INSTANCE AuthAgent WITH Request <- Request, outcome <- outcome

(* One request at a time, at most one answer each.                         *)
ImplementsAuthAgent == Agent!Spec

=============================================================================
