----------------------------- MODULE KdeService -----------------------------
(***************************************************************************)
(* The KDE 3 authentication agent, PolicyService in policykit-kde3-        *)
(* pardus/src/service.cpp, with its dialog, authdialog.cpp.  The D-Bus     *)
(* message handler runs a whole authentication, attempt after attempt: it  *)
(* starts the helper, enters an event loop, and in it a conversation       *)
(* function may enter the one of the dialog.  Both dispatch further calls. *)
(* The exit of the helper is reported by a signal handler, at any time.    *)
(* `nest' says where the handler is:                                       *)
(*   idle    nowhere, the application's own event loop runs                *)
(*   starting  between polkit_grant_initiate_auth and QEventLoop::exec     *)
(*   loop    QEventLoop::exec in obtainAuthorization                       *)
(*   prompt  QDialog::exec in polkit_grant_prompt                          *)
(***************************************************************************)
EXTENDS Naturals, Sequences

CONSTANTS
    Request,       \* the calls of ObtainAuthorization, each made once
    User,          \* the administrators
    NoExit,        \* the option --no-exit
    Faults,        \* what may go wrong: "setup", "initiate", "early", "crash"
    Prompts,       \* what PAM asks for: "Password: " and other things
    NoReq, NoUser  \* none, the empty user name

ASSUME ConstantsOK ==
    /\ NoExit \in BOOLEAN
    /\ Faults \subseteq {"setup", "initiate", "early", "crash"}
    /\ NoReq \notin Request
    /\ NoUser \notin User

VARIABLES
    running,    \* the agent's process exists
    timer,      \* exitTimer is active
    inbox,      \* calls the connection has not dispatched
    reply,      \* what each request was answered
    active,     \* the request being authenticated, m_authInProgress
    nest,       \* where obtainAuthorization is
    flags,      \* the members of PolicyService that outlive an attempt
    tries,      \* i, the failures so far
    quit,       \* QEventLoop::exit was called since the event loop was entered
    helper,     \* the helper process of m_grant
    helperUser, \* the administrator it was told to verify
    combo,      \* the current text of cbUsers in m_dialog
     \* the request under which m_userSelected was chosen
    authdb      \* requests the helper recorded an authorization for

procVars == <<running, timer, inbox, reply, active>>
authVars == <<nest, tries, quit, helper, helperUser, combo>>
vars     == <<procVars, flags, authVars, authdb>>

POLICYKITKDE_MAX_TRY == 3

Live     == {"started", "chosen", "verifying"}
Exited   == {"success", "failure", "bogus", "killed"}
Unreaped == Live \cup Exited

InProgress == active # NoReq

Flags == [gained : BOOLEAN, bogus : BOOLEAN, cancelled : BOOLEAN,
          newUser : BOOLEAN, reset : BOOLEAN, user : User \cup {NoUser}]

TypeOK ==
    /\ running \in BOOLEAN
    /\ timer \in BOOLEAN
    /\ inbox \in Seq(Request)
    /\ reply \in [Request -> {"none", "gained", "denied", "busy", "error", "lost"}]
    /\ active \in Request \cup {NoReq}
    /\ nest \in {"idle", "starting", "loop", "prompt"}
    /\ flags \in Flags
    /\ tries \in 0 .. POLICYKITKDE_MAX_TRY - 1
    /\ quit \in BOOLEAN
    /\ helper \in Unreaped \cup {"none", "reaped"}
    /\ helperUser \in User \cup {NoUser}
    /\ combo \in User \cup {NoUser}
    /\ authdb \subseteq Request

Init ==
    /\ running = TRUE
    /\ timer = ~NoExit
    /\ inbox = <<>>
    /\ reply = [r \in Request |-> "none"]
    /\ active = NoReq
    /\ nest = "idle"
    /\ flags = [gained |-> FALSE, bogus |-> FALSE, cancelled |-> FALSE,
                newUser |-> FALSE, reset |-> FALSE, user |-> NoUser]
    /\ tries = 0
    /\ quit = FALSE
    /\ helper = "none"
    /\ helperUser = NoUser
    /\ combo = NoUser
    /\ authdb = {}

Queued(r) == \E i \in 1 .. Len(inbox) : inbox[i] = r
Sent(r)   == Queued(r) \/ active = r \/ reply[r] # "none"

-----------------------------------------------------------------------------
(* The parts of service.cpp the handlers share.                            *)

\* Mutant: everything but bogus input counts as success.
DoneIgnoresGained(f, gained, bogus) ==
    [f EXCEPT !.gained = ~bogus, !.bogus = bogus]

(* polkit_grant_done; it also leaves the innermost event loops. *)
PolkitGrantDone(f, gained, bogus) ==
    [f EXCEPT !.gained = gained, !.bogus = bogus]

(* polkit_grant_cancel_auth kills a helper that has not been reaped and    *)
(* reports the failure, else does nothing.                                 *)
CancelAuth(f) ==
    IF helper \in Unreaped
    THEN /\ helper' = "reaped"
         /\ flags' = PolkitGrantDone(f, FALSE, FALSE)
         /\ quit' = TRUE
    ELSE /\ flags' = f
         /\ UNCHANGED <<helper, quit>>

(* obtainAuthorization is left: by its end, or by an exception. *)
AtRest ==
    /\ active' = NoReq
    /\ nest' = "idle"
    /\ tries' = 0
    /\ quit' = FALSE
    /\ helper' = "none"
    /\ helperUser' = NoUser
    /\ combo' = NoUser

(* One turn of the loop over attempts, with a helper that starts: a new    *)
(* grant and a new dialog.                                                 *)
Attempt(r, f, n) ==
    /\ active' = r
    /\ nest' = "starting"
    /\ flags' = [f EXCEPT !.gained = FALSE, !.bogus = FALSE, !.cancelled = FALSE]
    /\ tries' = n
    /\ quit' = FALSE
    /\ helper' = "started"
    /\ helperUser' = NoUser
    /\ combo' = NoUser

(* polkit_grant_initiate_auth fails: the exception makes handleMethodCall  *)
(* say that it did not handle the call, and the bus library answers.       *)
InitiateFails(r, f) ==
    /\ "initiate" \in Faults
    /\ AtRest
    /\ flags' = [f EXCEPT !.gained = FALSE, !.bogus = FALSE, !.cancelled = FALSE]
    /\ reply' = [reply EXCEPT ![r] = "error"]

(* obtainAuthorization after the loop over attempts. *)
Conclude(f) ==
    /\ reply' = [reply EXCEPT ![active] = IF f.gained THEN "gained" ELSE "denied"]
    /\ timer' = ~NoExit
    /\ flags' = f
    /\ AtRest

(* The process ends; the bus answers the calls it still owed. *)
ProcessEnds ==
    /\ running' = FALSE
    /\ timer' = FALSE
    /\ reply' = [r \in Request |->
                    IF reply[r] = "none" /\ Sent(r) THEN "lost" ELSE reply[r]]
    /\ inbox' = <<>>
    /\ AtRest
    /\ UNCHANGED <<flags, authdb>>

-----------------------------------------------------------------------------
(* The calls.                                                              *)

(* A program calls the agent.  One that has ended is not started again. *)
Call(r) ==
    /\ running
    /\ ~Sent(r)
    /\ inbox' = Append(inbox, r)
    /\ UNCHANGED <<running, timer, reply, active, flags, authVars, authdb>>

(* quitSlot: nothing but the application's own event loop runs. *)
QuitSlot ==
    /\ running
    /\ timer
    /\ ProcessEnds

(* The connection dispatches a call, in whichever event loop. *)
Dispatch ==
    /\ running
    /\ nest # "starting"
    /\ inbox # <<>>
    /\ inbox' = Tail(inbox)
    /\ UNCHANGED <<running, authdb>>

(* obtainAuthorization while another authentication is in progress: the    *)
(* answer is FALSE.                                                        *)
ObtainBusy ==
    /\ Dispatch
    /\ InProgress
    /\ reply' = [reply EXCEPT ![Head(inbox)] = "busy"]
    /\ UNCHANGED <<timer, active, flags, authVars>>

(* obtainAuthorization without an action, a system bus or a caller. *)
ObtainFails ==
    /\ Dispatch
    /\ ~InProgress
    /\ "setup" \in Faults
    /\ reply' = [reply EXCEPT ![Head(inbox)] = "error"]
    /\ timer' = FALSE
    /\ UNCHANGED <<active, flags, authVars>>

\* Mutant: m_authInProgress is not looked at.
ObtainUnguarded ==
    /\ Dispatch
    /\ timer' = FALSE
    /\ \/ Attempt(Head(inbox), flags, 0) /\ UNCHANGED reply
       \/ InitiateFails(Head(inbox), flags)

(* obtainAuthorization, up to the event loop of the first attempt. *)
ObtainAuthorization ==
    /\ Dispatch
    /\ ~InProgress
    /\ timer' = FALSE
    /\ \/ Attempt(Head(inbox), flags, 0) /\ UNCHANGED reply
       \/ InitiateFails(Head(inbox), flags)

-----------------------------------------------------------------------------
(* An attempt.                                                             *)

(* QEventLoop::exec starts afresh: an exit before it is forgotten. *)
EnterLoop ==
    /\ nest = "starting"
    /\ nest' = "loop"
    /\ quit' = FALSE
    /\ UNCHANGED <<procVars, flags, tries, helper, helperUser, combo, authdb>>

\* Mutant: the user chosen in the dialog is not passed on to the helper.
SelectAdminUserShown(preset) ==
    /\ nest = "loop"
    /\ helper = "started"
    /\ combo' = preset
    /\ helperUser' = preset
    /\ helper' = "chosen"
    /\ UNCHANGED <<procVars, flags, nest, tries, quit, authdb>>

(* polkit_grant_select_admin_user: the dialog preselects the agent's own   *)
(* user, root, or the first of the list; a user chosen earlier wins.       *)
SelectAdminUser(preset) ==
    /\ nest = "loop"
    /\ helper = "started"
    /\ combo' = preset
    /\ helperUser' = IF flags.newUser THEN flags.user ELSE preset
    /\ helper' = "chosen"
    /\ UNCHANGED <<procVars, flags, nest, tries, quit, authdb>>

(* polkit_grant_prompt, up to QDialog::exec; AuthDialog::setPrompt. *)
Prompt(prompt) ==
    /\ nest = "loop"
    /\ helper \in Live
    /\ nest' = "prompt"
    /\ combo' = IF prompt = "Password: " /\ flags.user # NoUser THEN flags.user ELSE combo
    /\ UNCHANGED <<procVars, flags, tries, quit, helper, helperUser, authdb>>

(* The user presses OK. *)
Accepted ==
    /\ nest = "prompt"
    /\ ~quit
    /\ nest' = "loop"
    /\ helper' = IF helper \in Live THEN "verifying" ELSE helper
    /\ UNCHANGED <<procVars, flags, tries, quit, helperUser, combo, authdb>>

(* The user closes the dialog, or the event loops are left: QDialog::exec  *)
(* returns Rejected.                                                       *)
Rejected ==
    /\ nest = "prompt"
    /\ nest' = "loop"
    /\ CancelAuth([flags EXCEPT !.cancelled = TRUE])
    /\ UNCHANGED <<procVars, tries, helperUser, combo, authdb>>

(* userSelected, whose closing of the dialog polkit_grant_prompt takes for *)
(* a rejection.                                                            *)
UserSelected(u) ==
    /\ nest = "prompt"
    /\ ~quit
    /\ helperUser # NoUser
    /\ nest' = "loop"
    /\ CancelAuth([flags EXCEPT !.newUser = TRUE, !.reset = TRUE, !.user = u,
                                !.cancelled = TRUE])
    /\ combo' = u
    /\ UNCHANGED <<procVars, tries, helperUser, authdb>>

(* The helper ends by itself: PAM decided, after which it records the      *)
(* authorization, or it had nothing to ask.                                *)
HelperExits(code) ==
    /\ \/ nest = "loop"
       \/ nest = "starting" /\ "early" \in Faults /\ code = "bogus"
    /\ helper \in Live
    /\ helper' = code
    /\ authdb' = IF code = "success" THEN authdb \cup {active} ELSE authdb
    /\ UNCHANGED <<procVars, flags, nest, tries, quit, helperUser, combo>>

(* A signal ends the helper. *)
HelperCrashes ==
    /\ "crash" \in Faults
    /\ nest # "starting"
    /\ helper \in Live
    /\ helper' = "killed"
    /\ UNCHANGED <<procVars, flags, nest, tries, quit, helperUser, combo, authdb>>

\* Mutant: polkit_grant_done does not leave the event loop.
SigchldNoExit ==
    /\ helper \in Exited
    /\ flags' = PolkitGrantDone(flags, helper = "success", helper = "bogus")
    /\ helper' = "reaped"
    /\ UNCHANGED <<procVars, nest, tries, quit, helperUser, combo, authdb>>

(* polkit_grant_sigchld_handler, at any time, polkit_grant_child_func and  *)
(* polkit_grant_done; the number of the signal stands for an exit status.  *)
SigchldHandler ==
    /\ helper \in Exited
    /\ \E bogus \in IF helper = "killed" THEN BOOLEAN ELSE {helper = "bogus"} :
          flags' = PolkitGrantDone(flags, helper = "success", bogus)
    /\ helper' = "reaped"
    /\ quit' = TRUE
    /\ UNCHANGED <<procVars, nest, tries, helperUser, combo, authdb>>

-----------------------------------------------------------------------------
(* The event loop of an attempt returns.                                   *)

LoopReturned == nest = "loop" /\ quit

(* The next attempt, if its helper starts. *)
TryAgain(f, n) ==
    /\ \/ Attempt(active, f, n) /\ UNCHANGED reply
       \/ InitiateFails(active, f)
    /\ UNCHANGED <<running, timer, inbox, authdb>>

NewUser == flags.newUser /\ flags.reset
Failed  == ~flags.gained /\ ~flags.bogus /\ ~flags.cancelled
Bogus   == ~flags.gained /\ flags.bogus /\ ~flags.cancelled

RestartForUser ==
    /\ LoopReturned
    /\ NewUser
    /\ TryAgain([flags EXCEPT !.reset = FALSE], tries)

(* The grant of the last attempt is released in the loop and once more     *)
(* after it, which nothing or the end of the process may come of.          *)
AttemptFailed ==
    /\ LoopReturned
    /\ ~NewUser
    /\ Failed
    /\ \/ /\ tries + 1 < POLICYKITKDE_MAX_TRY
          /\ TryAgain(flags, tries + 1)
       \/ /\ tries + 1 >= POLICYKITKDE_MAX_TRY
          /\ \/ Conclude(flags) /\ UNCHANGED <<running, inbox, authdb>>
             \/ ProcessEnds

(* Bogus input: the user chosen is not forgotten. *)
AttemptBogus ==
    /\ LoopReturned
    /\ ~NewUser
    /\ Bogus
    /\ Conclude(flags)
    /\ UNCHANGED <<running, inbox, authdb>>

(* Gained or cancelled. *)
AttemptDecided ==
    /\ LoopReturned
    /\ ~NewUser
    /\ ~Failed
    /\ ~Bogus
    /\ Conclude([flags EXCEPT !.user = NoUser, !.newUser = FALSE, !.reset = FALSE])
    /\ UNCHANGED <<running, inbox, authdb>>

-----------------------------------------------------------------------------
Handle == ObtainBusy \/ ObtainFails \/ ObtainAuthorization

HelperStep ==
    \/ \E u \in User : SelectAdminUser(u)
    \/ \E prompt \in Prompts : Prompt(prompt)
    \/ \E code \in {"success", "failure", "bogus"} : HelperExits(code)

UserStep == Accepted \/ Rejected \/ \E u \in User : UserSelected(u)

LoopReturns ==
    \/ RestartForUser
    \/ AttemptFailed
    \/ AttemptBogus
    \/ AttemptDecided

Next ==
    \/ \E r \in Request : Call(r)
    \/ QuitSlot
    \/ Handle
    \/ EnterLoop
    \/ HelperStep
    \/ UserStep
    \/ HelperCrashes
    \/ SigchldHandler
    \/ LoopReturns

Spec == Init /\ [][Next]_vars

(* The event loops serve what is ready, the connection's dispatch timer    *)
(* too, though no event loop may run for a moment between two attempts; a  *)
(* dialog whose loop was left returns; the helper asks its next question.  *)
Fairness ==
    /\ SF_vars(Handle)
    /\ WF_vars(QuitSlot)
    /\ WF_vars(EnterLoop)
    /\ WF_vars(\E prompt \in Prompts : Prompt(prompt))
    /\ WF_vars(SigchldHandler)
    /\ WF_vars(quit /\ Rejected)
    /\ WF_vars(LoopReturns)

FairSpec == Spec /\ Fairness

-----------------------------------------------------------------------------
(* Properties                                                              *)

(* A caller told that it gained the authorization has one in the database: *)
(* an early exit of a dialog, a helper a signal ended or a restart for     *)
(* another user never leaves m_gainedPrivilege set.                        *)
GainedMeansAuthorized ==
    \A r \in Request : reply[r] = "gained" => r \in authdb

(* A user who neither closes the dialog nor meets a confused helper is     *)
(* given POLICYKITKDE_MAX_TRY attempts, restarts for another administrator *)
(* not counted, before the request is denied.                              *)
DeniedForCause ==
    [][\A r \in Request :
          active = r /\ reply[r] = "none" /\ reply'[r] = "denied"
          => flags.cancelled \/ flags.bogus \/ tries = POLICYKITKDE_MAX_TRY - 1]_vars

(* The exit timer never runs under an authentication, whatever calls are   *)
(* refused meanwhile.                                                      *)
TimerOnlyWhenInactive == timer => ~InProgress

(* While the dialog waits, the administrator its combo box shows is the    *)
(* one whose password the helper verifies.                                 *)
PromptNamesHelperUser ==
    nest = "prompt" /\ helper \in Live /\ helperUser # NoUser => combo = helperUser

(* A call is answered or begun even while another request's dialog waits.  *)
NoRequestWaits == \A r \in Request : Queued(r) ~> ~Queued(r)

(* An authentication always gets to where the user has to decide, or ends, *)
(* as long as no helper exits before the event loop that waits for it is   *)
(* entered.                                                                *)
AuthenticationProgresses ==
    [](nest = "starting" => helper = "started")
    => \A r \in Request : active = r ~> (active # r \/ nest = "prompt")

(* No caller is left waiting by the agent, neither on its connection nor   *)
(* while it is authenticated.                                              *)
CallersAreServed == NoRequestWaits /\ AuthenticationProgresses

-----------------------------------------------------------------------------
(* The agent implements AuthAgent.                                         *)

outcome ==
    [r \in Request |->
        CASE reply[r] \in {"gained", "denied", "lost"} -> reply[r]
          [] reply[r] = "busy"                        -> "refused"
          [] reply[r] = "error"                       -> "denied"
          [] OTHER -> IF active = r THEN "authenticating"
                      ELSE IF Queued(r) THEN "waiting" ELSE "unsent"]

Agent == INSTANCE AuthAgent WITH Request <- Request, outcome <- outcome

(* One request at a time, at most one answer each.                         *)
ImplementsAuthAgent == Agent!Spec

=============================================================================
