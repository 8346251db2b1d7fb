# TLA+ models of policykit-kde

This repository holds the desktop half of PolicyKit: the *authentication agents*
that ask a user for a password on behalf of a mechanism, the client library that
programs use to call an agent and to show what they may do, and an editor for the
authorizations.  This directory models its core in TLA+, checks the models with
TLC on small instances and proves theorems about them with TLAPS.

## The system

| part | state it keeps | operations | what is hard about it |
|---|---|---|---|
| **GNOME agent** (`policykit-gnome/src`: `polkit-gnome-manager.c`, `polkit-gnome-auth-dialog.c`, `main.c`) | the D-Bus requests queued as idle sources, `auth_in_progress`, the static `UserData` and `grant`, the dialog, the kill timer | `ObtainAuthorization`, `ShowDialog`, `NameOwnerChanged`, the conversation functions the grant library calls, the user's clicks, the exit of the helper, the timer | one thread, but five kinds of nested main loop: anything can be dispatched while a conversation function waits |
| **KDE 3 agent** (`policykit-kde3-pardus/src`) | `m_authInProgress`, the grant, the dialog, flags of the last attempt, the exit timer, watches of the grant library | `ObtainAuthorization`, conversation functions, `userSelected`, the timer, `SIGCHLD` | the same conversation over `QDialog::exec`, a signal handler, reuse of state between requests |
| **client library** (`policykit-gnome/polkit-gnome`) | per action: the last result of PolicyKit, four looks, sensitivity and visibility; a shared, counted context | setters, `activate`, the agent's answer, "the database changed" | the cached result is stale when used; the answer comes asynchronously; handlers of one action's change set properties of others |
| **toggle actions** (`polkit-gnome-toggle-action.c`) | `am_authenticating`, the active flag, the proxies | `activate`, result changes, `auth-end` | activates itself again from callbacks; revokes as well as obtains |
| **authorization editor** (`policykit-gnome/tools/polkit-gnome-authorization.c`) | the tree of actions, the cursors of the tree and of the list of authorizations, what an open dialog was told, the PolKitGnomeActions of its buttons | `update_action_tree`, `update_summary`, `update_authlist`, the Grant, Block and Edit dialogs, Revert, Revoke | a click may be held back for an authentication and carried out later, on whatever has the cursor then; dialogs run nested loops and destroy their actions while calls are out |
| **D-Bus bindings for Qt 3** (`policykit-kde3-pardus/dbus-qt3-backport`), with which the KDE 3 agent is on the bus | watches, timeouts, pending calls, registered objects, counted and named connections; proxies; typed values | asynchronous and blocking calls, socket ready, timeouts, dispatch, register; copy, assign and close connections; build, marshal and demarshal values | libdbus queues messages and calls back; replies, timeouts and the end of their receiver race; a connection may be older than the application |

A program calls `polkit_gnome_auth_obtain` (client library), which sends
`ObtainAuthorization` on the session bus to whichever agent owns
`org.freedesktop.PolicyKit.AuthenticationAgent`.  The agent starts PolicyKit's
setuid helper through libpolkit-grant; the helper talks to PAM and asks the agent,
through *conversation functions*, for the administrator and the passwords, records
the authorization when PAM agrees, and exits.  The agent answers the call.  The
database change reaches every client library as a signal, upon which actions
recompute what they show.

## What makes each part correct

* Agents: one authentication at a time, at most one answer per call, and the answer
  agrees with the authorization database; the password is checked for the
  administrator on display; a vanished caller's authentication is cancelled; the
  process stays as long as somebody needs it and leaves when nobody does.
* Client library: a program's `activate` is emitted only on a positive result; what
  an action shows is what PolicyKit last said; authentications begun also end.
* Editor: once every change was signalled, what is displayed is what PolicyKit says; a
  dialog writes what it displays, of the action it names; nothing that needs an
  authentication is tried unasked; what an authentication was for is then done.
* Bindings: an asynchronous call ends once, with the reply or an error, unless its
  receiver is gone, and none is forgotten; a message that was read is dispatched; the
  counted connections are freed when, and only when, nothing leads to them; a value
  arrives as it was sent, or is lost, but nothing is made up.

## Modules

| module | models |
|---|---|
| `AuthAgent` | what any agent promises its callers (the abstract specification) |
| `GnomeManager`, `MC_GnomeManager` | the GNOME agent, a refinement of `AuthAgent`; its instance for TLC |
| `GnomeManagerProofs` | its inductive invariant, the theorems that follow, and the proof of the refinement |
| `KdeService`, `MC_KdeService` | the KDE 3 agent, another refinement of `AuthAgent`; its instance |
| `KdeServiceProofs` | its inductive invariant, the theorems that follow, and the proof of the refinement |
| `PolkitGnome`, `MC_PolkitGnome` | the client library's actions and toggle actions, calling some agent; its instance |
| `ActionLooks`, `MC_ActionLooks` | what the client library's actions show, all their setters, and the context they share; its instance |
| `PolkitGnomeProofs` | the inductive invariants of `PolkitGnome` and of `ActionLooks`, and the theorems that follow |
| `Remember`, `MC_Remember` | how long authorizations are kept: the boxes of both dialogs, the grant types, the blacklist; its instance |
| `RememberProofs` | the theorems about it |
| `ActionButton` | a PolKitGnomeAction as its program handles it: operators on what it remembers; no variables |
| `EditorDialogs`, `MC_EditorDialogs` | the editor's Grant, Block and Edit dialogs; their instance |
| `EditorDialogsProofs` | their inductive invariant and the theorems that follow |
| `AuthorizationWindow`, `MC_AuthorizationWindow` | the editor's main window; its instance |
| `AuthorizationWindowProofs` | its inductive invariant and the theorems that follow |
| `AsyncCalls` | what the bindings promise a program of its asynchronous calls (the abstract specification) |
| `QDBusCalls`, `MC_QDBusCalls` | one connection of the bindings with its proxies, objects and event loop, a refinement of `AsyncCalls`; its instance |
| `QDBusCallsProofs` | its inductive invariant, the theorems that follow, and the proof of the refinement |
| `QDBusConnections`, `MC_QDBusConnections` | handles, counted connections and their names; their instance |
| `QDBusContainers` | the values of the bindings that a program makes: constructors, lists, maps, structs, variants, equality |
| `QDBusValues`, `MC_QDBusValues` | the same programs, by extension of `QDBusContainers`, with the way of their values through a message; its instance for TLC |
| `QDBusProofs` | the inductive invariants of `QDBusConnections` and of `QDBusContainers`, and the theorems that follow |

The agents do not share variables with the bindings or the client library; they meet in
the promises that `AuthAgent` and `AsyncCalls` state: `PolkitGnome` and the editor's
modules call *some* agent, which does what `AuthAgent` allows, and the KDE agent gets its
calls one at a time, as `QDBusCalls` dispatches them.

Some definitions are preceded by a *mutant*, a variant with a plausible error (a
dropped guard, a missing reset, one attempt too many) that nothing uses.  Put in the
place of the definition it makes the property named with it in `PROJECT.json` fail; it
documents what the property guards against.

### GnomeManager

An action is what the agent's thread does between two returns to a main loop, so all
of a handler is one step and everything a nested loop dispatches is another.  The
variable `nest` names the innermost loop: `loop` is `g_main_loop_run` in
`do_polkit_auth`, `select` the loop over `g_main_context_iteration` in
`conversation_select_admin_user`, `prompt` the `gtk_dialog_run` in
`conversation_pam_prompt`, `shake` the `gtk_main_iteration` in
`polkit_gnome_auth_dialog_indicate_auth_error`.  `ud` is the static `UserData`
(`gained_privilege`, `was_cancelled`, `was_bogus`, `new_user_selected`,
`requires_admin`, `admin_user_selected`, whether the dialog exists and was shown),
`tries` is `num_tries`, `timer` says whether `kill_timer_id` is set, `queue` holds the
idle sources of `do_auth`.  When do_polkit_auth returns, its frame and `ud` are gone and
the variables go back to their initial values.

The helper and the grant library are not in this repository.  They are modelled from how
they are used: the helper tells the type of authentication, may ask for an
administrator, asks for passwords until PAM decides, records an authorization and exits;
`polkit_grant_cancel_auth` kills a helper that has not been reaped and calls
`conversation_done`.  `Faults` says what else may happen: the helper cannot be started
(`initiate`), is ended by a signal (`crash`), a caller leaves the bus (`vanish`).

The order of events in one main context is kept where the code depends on it: the I/O
watch of the helper is not dispatched recursively, so the helper asks nothing while a
conversation function waits; idle sources have the lowest priority, so none is
dispatched between `g_main_loop_quit` and the return of the loop; the user does one
thing in an iteration, but a signal may come with it, which is what makes the step
`PromptReturnsNoDialog` possible.

### KdeService

The same conversation, written as one function: `obtainAuthorization` runs inside the
handler of the D-Bus message, enters a `QEventLoop` for each attempt, and
`polkit_grant_prompt` enters the one of the dialog from there.  `nest` says which of
these is innermost; `starting` is the stretch between `polkit_grant_initiate_auth` and
`QEventLoop::exec`, in which no loop runs but the process may get a signal.  Both loops
dispatch further calls (`Dispatch`), which the check of `m_authInProgress` presumes.

* `flags` are the members of `PolicyService` (`m_gainedPrivilege`, `m_inputBogus`,
  `m_cancelled`, `m_newUserSelected`, `m_resetForUser`, `m_userSelected`).  Unlike the
  GNOME agent's `UserData` they outlive an attempt and even a request.
* `quit` says that `QEventLoop::exit` was called.  `QEventLoop::exec` forgets an exit
  that came before it (`EnterLoop`).
* `SigchldHandler` is a signal handler: it runs `polkit_grant_child_func` and
  `polkit_grant_done` in any state in which the helper has ended.
* After the third failure `m_grant` is released twice, so that the step either concludes
  or ends the process (`AttemptFailed`).
* `Prompts` is what PAM may ask.  `AuthDialog::setPrompt` moves the combo box to the
  administrator chosen before only for `"Password: "`; with another prompt a new dialog
  shows its preselection while the helper verifies the administrator chosen earlier, so
  that `PromptNamesHelperUser` needs `Prompts = {"Password: "}`.

`Faults`: a set-up step fails (`setup`), the helper does not start (`initiate`), it exits
before the event loop is entered (`early`), a signal ends it (`crash`).

### PolkitGnome

An action of the module is one dispatch of the program's main loop.  All objects track
one PolicyKit action and have the looks of the `_new_default` constructors; `cached` is
`pk_result`, `look` the set of texts and the sensitivity that `_update_action` picks.
The database (`db`) is what decides PolicyKit's answer: the implicit result, whether the
user was granted an authorization, whether she blocked herself.  Who calls
`polkit_context_is_caller_authorized` gets `Result(db)`, always current, as the comment
at `polkit-gnome-action.c:1926` presumes; only the *signal* of a change is late
(`noted`).  PolicyKit's "unknown" is treated as "no".  The agent is anyone's: it takes
calls up, refuses those it gets meanwhile and answers in its own time; answers are
dispatched in the order they were sent.

`ClickToggle` and `ToggleAnswered` are `polkit_gnome_toggle_action_activate` with the
calls it makes into the library: the evaluation, the revocations, the negative
authorization for a user authorized by policy alone, the start of an authentication and
the refresh of the active flag.  `Faults`: the session bus is not to be had (`bus`), a
revocation fails (`revoke`).

### ActionLooks

`PolkitGnome` is about what happens when actions are clicked; here nobody clicks, and the
program does everything else: it makes actions (`New`, `NewDefault`), sets every property
(`SetAction`, `SetSufficient`, `SetTargetPid`, the master switches `SetVisible` and
`SetSensitive`, and the properties of the four looks), asks (`AskPolkitResult`) and ends
them (`Finalize`).  Each setter ends in `Compute`, which is `_compute_polkit_result`, or
in `Update` alone, which is `_update_action` and looks up once more whether a refusal is
the user's own doing (`LookState`).

The context emits one signal to its actions in the order they connected: `notifying` are
those still to be told.  A handler of `polkit-result-changed` is the program, so that
between two actions (`handling`) every call is possible, on actions told and untold.
`ContextGet` is `polkit_gnome_context_get` with the unreferences that follow it;
`leaked` says that `_update_action` took a reference it never gives back, `stale` that
libdbus has a filter of a context that was freed.  Processes exit without anybody being
told.

### Remember

The agents' modules leave out what the user ticks; this one leaves out everything else.
PolicyKit offers to keep an authorization for the session or always (`offer`), the
dialogs have check boxes for it (`box`), and the helper, once the password is right, asks
the agent which type to record (`Record`, with `GnomeOverride` or `KdeOverride`).  The
GNOME dialog stays for all attempts of a request and can be clicked while the helper
works, also after it recorded the authorization; the KDE agent builds another dialog for
each attempt, so that there a wrong password unticks everything.  In the KDE dialog the
check box of the group "Remember authorization" is connected to one of two exclusive
radio buttons (`authdialogui.ui`), which is `ToggleGroup`.  The other one, "Always", stays
on when the group is unticked after it was chosen, and the override reads the buttons only:
the authorization is kept for ever, though nothing is ticked.  `KeptIfTicked` excepts this
case and no other.

After an authentication that was passed the GNOME agent puts the action on a GConf list
when the user declined (`Declines`, `Gained`), which decides the default of the next
dialog (`DefaultRemember`).  The list, like the authorizations, outlives the processes, and
which agent is activated next depends on the desktop (`Begin`).  `declined` is not in the
code: it says of which actions the user last left "remember" unticked, while the key
`auth_dialog_retain_authorization` was on.  Left out: GConf errors, and when a box is
insensitive (a box that is on display can be clicked).

### ActionButton

The editor makes its buttons of the client library's actions, one PolicyKit action each.
`PolkitGnome` models the library in full for objects that stay what they are; the
editor's actions come and go, swap their PolicyKit action and are made insensitive by
their owner, so that `ActionButton` has what those uses need: `Computed` is
`_compute_polkit_result`, `Updated` is `_update_action`, `SetSensitive` and
`SetPolkitAction` are the two setters with their early returns.  `Fresh` says that a
button remembers PolicyKit's answer, `Exact` that it can be clicked exactly when it has
something to offer that is not refused.

### EditorDialogs

The three dialogs run `gtk_dialog_run`, so that everything but the main window's own
widgets is served while one is open.  `dialog` is the open dialog with the action its text
names, `seen` what its widgets display, `held` the `EntitySelected` or `EditImplData` that
is written from, `button` the action made for the dialog.  A dialog ends by `Cancel`, by
a click that needs no authentication (`ClickResponds`), or by the click that
`_button_auth_end` synthesises when the agent's answer arrives (`AnswerGained`).
`Destroyed` ends the action with its dialog; its calls stay out, and `_notify_callback` is
then called with freed memory (`AnswerAstray`, after which the program is there or not:
`alive`).  `ShowSystemUsersToggled` keeps the intermediate report of uid 0, which the
reset of the combo box makes before it settles.

Outside the dialogs: PolicyKit's answers change (`PermitChanged`) and are signalled later
(`noted`, `ConfigChanged`), the agent refuses or grants, and the cursor of the tree moves
(`SelectionMoves`; with `Moves` also while a dialog is open, by
`single_instance_show_action` or because the row goes).  libpolkit's writers are modelled
by whether they let this process write (`Allowed`).

### AuthorizationWindow

`installed`, `db`, `permit` and `readable` are PolicyKit's: the implicit results of the
installed actions, the explicit authorizations, what the caller may do and whether it may
read all authorizations.  They change by anyone's doing, the editor's dialogs included,
and `noted` counts what was not signalled.  `known`, `rows`, `cursor`, `summary` and
`authCursor` are the program's: the policy cache, the tree, its cursor, what the right
half displays and the cursor of the list.  What the third action, `read_action`, remembers
is no part of the state: whenever `update_summary` asks for its result,
`polkit_gnome_action_get_polkit_result` computes it anew, so that the list is always of
what may be read now.

* `UpdateActionTree` is `update_action_tree` with `get_namespace_iter` and
  `update_action_tree_cull`, on the set of rows.  `NewNamespaces` keeps that the search for
  the namespaces above an action ends at the first that has a row.
* `UpdateSummary` is `update_summary` with `update_authlist`, which runs for each position
  the list's cursor takes while the list is cleared and filled again: `passed` is an
  entry it may pass over, `first` the entry `gtk_tree_view_set_cursor` puts it on.  The
  order of entries is libpolkit's, so either may be any.
* `ConfigChanged` is the handlers of one signal in the order they were connected: those of
  the buttons' actions before the window's own.
* `Activate` is what Revert and Revoke do when they are activated, at once (`ClickActs`) or
  after an authentication (`Gained`).
* `calls[c].item` is not in the code: it records what was under the cursor when the user
  clicked.  `did` says what the step had libpolkit do, and whether libpolkit let it.

### QDBusCalls

libdbus queues what it reads from the socket; a message reaches nobody before
`dbus_connection_dispatch` takes it from the queue.  `wire` is the socket, `inbox` the
queue, `dispatcher` the `QTimer` that dispatches one message each time it fires.
`pendingCalls` is the map of the code and `attached` what libdbus keeps, so that what one
has and the other has not is visible; `timeouts` have a Qt timer, `pendingTimeouts` wait
for the application.

* `SocketRead` reads any number of messages and starts the dispatcher; reading a reply ends
  the timeout of its call.
* `SendWithReply` is a blocking call, which reads messages for others; after it the program
  owes the `scheduleDispatch` that `qdbusconnection.h` asks for (`owes`).
* `DispatchOne` takes one message: a reply or the error in its place
  (`QDBusResultReceived`), a signal, which goes to the proxies whose filter it passes
  (`Hears`), or a call of an object (`HandleObjectCall`).  What a slot does with it may
  include a blocking call, which reads more.
* `TimerEvent` queues the error of a call and, as in the code, starts no dispatcher.
* `ObjectDestroyed` is the destructor of a proxy, with Qt's disconnection of its slots and
  the cancellation of its calls.

`Stage` is the refinement mapping to `AsyncCalls`.  Left out: a bus that closes the
connection, and slots that enter an event loop of their own.

### QDBusConnections

`handles` are the `QDBusConnection` variables that exist, `d` where each points, `registry`
the manager's names, `ref` the counters.  libdbus has one connection per bus and hands it
to whoever asks, so that the second private that opens it takes the watch functions
(`owner`) and adds a second filter (`filters`).  `watcher` says what a private does about
the socket: wait for the application, listen with a notifier, hold a watch that was
removed and is to be purged, or have a notifier nobody reads for (`dropped`).

A program creates its application (`CreateApplication`) and some time later calls
`qDBusBindToApplication` for it (`BindToApplication`), once or, like the KDE agent, never.
The code then takes every watcher out of the list of each named connection and adds those
that have no notifier again.  So a watcher that waited listens; one that was made between
the two, and listens already, is dropped; and for one that was removed and not purged, a
null watch is given to libdbus, which is undefined: either the program crashes or, where
libdbus checks its arguments, nothing happens.  `between` is not in the code: it holds
the connections opened between the two calls.  The manager of the code has a field for the default name and a map
for others; they behave alike but for `closeConnection` of a name nobody added, which is
left out.

### QDBusContainers and QDBusValues

A value is a record with the fields its type uses.  In `QDBusContainers` values are built,
taken apart, compared and put in containers by the operations of `QDBusData`,
`QDBusDataList`, `QDBusDataMap` and `QDBusVariant`, one action for each that a program
calls (`Program`).  What is defined by recursion over a value (its signature, `operator==`,
what it holds) is a parameter of that module, and `EqualTo`, `HeldHere`, `TypedHere` and
`MapHere` say what it is at one value given what it is at the parts, which they take as
an argument.  `QDBusValues` extends it and gives each of them to itself
(`Same(a, b, zeroed) == EqualTo(Same, a, b, zeroed)`), and `QDBusValues.cfg` gives the
result to the parameter (`Equal <- Same`): TLC evaluates the recursion, and TLAPS, which
cannot use a `RECURSIVE` operator, reasons about the parameters from the same definitions.

`QDBusValues` adds the message.  Signatures are sequences of letters, because their
comparison and their parsing decide which items are kept.  `Marshal` gives what libdbus is told to append,
`WellFormed` what it accepts, `Fetch` what the receiver makes of it: it parses the
signature of an array into *prototypes* (`Parse`) and drops what does not fit.  Numbers
stand for what basic values are (`Atom`); their width does not matter, as nothing
converts from one to another.

`Carried` describes the values the bindings can carry.  It excludes maps with keys other
than strings, structs of which a signature alone does not tell the members (basic members
beside others, or something behind a nested container) as the item of a list or map, and
containers without an item type.

## Runs

| run | instance | shows |
|---|---|---|
| `GnomeManager_safety` | callers vanish, own user preselected | `GainedMeansAuthorized`, `IdleAgentHasTimer`, `CancelledIsDenied`; the agent implements `AuthAgent` |
| `GnomeManager_live` | every fault, `--no-exit`, fairness | `DialogIsRight` (the dialog exists when it is needed and names the administrator verified), `DeniedForCause`, `EndsByTimerOrVanishedCaller`; `CallersAreServed`: no queued request waits for ever, and one whose caller stays gets on |
| `KdeService_safety` | every fault, fairness | `GainedMeansAuthorized`, `PromptNamesHelperUser`; the agent implements `AuthAgent`; `CallersAreServed`: a call is dispatched even while another one's dialog waits, and an authentication gets to where its user decides, or ends |
| `PolkitGnome_safety` | an action and a toggle action, every change of the database, every fault, fairness | `ToggleAgrees`; `ActivatesExactly`: activated is what PolicyKit allows, and what an authentication was passed for; objects come to show what PolicyKit says (`ShowsResult`) |
| `ActionLooks` | two actions, two PolicyKit actions, three calls of the program, two changes | types; `ShowsWhatItKnows`, `AgreesWhenQuiet`, `FilterHasContext` |
| `Remember_safety` | two actions, both agents, every offer | `KeepsWhatWasAgreed`: nothing is kept longer than offered, what is ticked is kept as the dialog says, and nothing else is, except by the KDE agent's button "Always" that was left on; `DeclinedStaysUnticked` |
| `EditorDialogs_safety` | two actions, three users, two calls out, moving selections, a bus that may fail | `OfferedWhenComplete`, `WritesWhatIsShown` |
| `AuthorizationWindow_safety` | two actions in nested namespaces, three authorizations, cursors that move during a call | `TreeComplete`, `ShowsWhatIs` |
| `AuthorizationWindow_first` | the user keeps still during a call | **violated**: the authentication for Revoke moves the cursor of the list, and the first entry is revoked instead of the one clicked for |
| `QDBusCalls` | two proxies, a call with timeout, a signal, an invocation, an application created early or late, fairness | `NotForgotten`, `ReceiversAlive`, `NothingStranded`, `HeardOnce`; what arrives is handled (`ArrivalsAreHandled`); the connection implements `AsyncCalls` |
| `QDBusConnections` | three handles, three connections, two names, two buses | types; `RefsCount`, `CallbacksAlive`, `SoleConnectionWorks`, `OneListener` |
| `QDBusValues` | all values of up to five parts, of three basic types and three key types | `Typed`, `EqualityIsExact`, `ArrivesAsSent`, `NothingInvented` |

**Bounds.**  The agents have two requests, of two callers, and two administrators.  In
the GNOME instances one request comes through the deprecated `ShowDialog`.  Two
requests are enough for one to be authenticated while the other is queued, refused or
restarts the timer, or to follow it and meet what it left behind; the code keeps no
relation between more than these two.  Two administrators are enough to change the
choice, and to change it back.  Each request is made once and an agent that ended is not
started again, so that the systems may stop and deadlock is not checked.  `MaxCalls = 2`
calls of the agent per object allow the second click on an object that authenticates;
`Elsewhere` is every database.  Two actions are enough for the blacklist to hold one and
not the other.  In `EditorDialogs` two calls are those of a dialog that is gone and of the
one that is open; three users are oneself, another one and one of the system, and two
defaults of two values are enough to edit one and undo it.  In `AuthorizationWindow` two
actions share two namespaces and one of them has a third of its own, so that each
namespace can lose its last action or only one of two; the three authorizations are one's
own by authentication, one's own by root's grant, and another user's.  `Burst = 1`: a
handler reads everything anew, so that what several changes did before one signal is what
one of them did in another initial state.  The agent authenticates one caller at a time,
so that the window has one call.  `Remember` and the window never stop, and their runs check for deadlock; the
dialogs' program may die of a stray answer, so that theirs does not.  Most instances use no
symmetry: the requests differ, and liveness runs do not allow it.

`ActionLooks` takes any three calls of a program, creations included, around any two
changes: one to give an action a state, one before and one within the emission of a
signal.  `QDBusCalls` has one asynchronous call, because calls share nothing but the
dispatcher and the queue, in which a signal and an invocation stand before or behind its
reply; its second proxy hears the signal and makes no call.  `QDBusConnections` has a name
and a connection more than a bus needs, so that a bus is opened twice, and opened again
after a name was closed, and so that connections are opened before, between and after the
creation of the application and its binding.  In `QDBusValues` a value and all its items count five parts at
most, which is a map of structs or a list of maps of lists with something in them; `Rare`
types, of which one is enough to tell them from others, count twice.  In the last three,
and in `ActionLooks`, the programs may run out of things to do, and deadlock is not checked; the
two without liveness and with interchangeable constants use symmetry.

In the KDE agent the second half of `CallersAreServed` presumes that no helper ends before the event
loop of its attempt is entered (the fault `early`): such an exit is forgotten by
`QEventLoop::exec`, and `obtainAuthorization` waits for ever.  In
`GnomeManager_safety` helpers start and are not killed: a helper that cannot be started
makes `GainedMeansAuthorized` fail, because that branch of `do_polkit_auth` returns 1,
which `do_auth` passes on as TRUE, and a helper ended by a signal makes it fail too,
because `WEXITSTATUS` of such a helper is 0, that of a success.

**Fairness.**  *GNOME agent:* `do_auth` (strong: an idle source may be held up by other
sources, but not for ever), `child_watch_func`, the returns of the loops, the timer and
the dispatch of `NameOwnerChanged` (weak: the main loop serves every ready source), and
the helper's next question (strong: a process of its own, which the user can restart by
choosing another administrator).  *KDE agent:* the dispatch of calls (strong: between two
attempts no event loop runs for a moment), the exit timer, entering and leaving the
event loops, the signal handler and the return of a dialog whose loop was left (weak),
and the helper's next question (weak).  *Client library:* the signal of changes and the
answers of the agent (weak: the main loop serves what is ready).  *Bindings:* a readable
socket, the dispatcher and the timeouts (weak: Qt serves ready notifiers and timers), the
creation of the application and its binding, and the `scheduleDispatch` a program owes
after a blocking call (weak: the documentation asks for both).  Nothing is assumed of
the user, of callers, of PAM's decision, of when a helper exits, or of an agent's
answering.

## Proofs

Every theorem holds for any number of requests, callers, administrators and objects.

**GNOME agent.**  `GnomeManagerProofs` proves, with every fault, `Spec => []IInv`.  The
safety properties are not inductive alone: `DialogOutlivesHelper`, the first half of
`DialogIsRight`, needs to know that
whatever destroyed the dialog also quit the loop and left a reason in `UserData`
(`Dialog`, `Attempt`), `PromptNamesHelperUser`, its second half, when the empty name that stands for a
closed dialog can be in `ud` (`Admin`), `IdleAgentHasTimer` which variables are at rest
when (`AtRest`).  `Once` says a request is in the queue, authenticated or answered but
never two of these, which the refinement rests on.  One lemma per action shows it
preserves the invariant; the lemmas on `CancelAuth`, `TryAgain` and `ConversationDone`
say what each does to `UserData`.  From `IInv` follow `TypeCorrect`, `DialogKept`,
`AdministratorAgrees`, `DialogKeptRight`, `TimerSet`, the action properties `EndsForCause` and
`DenialHasCause`, and `Refinement`, which assumes that the helper can be started.
For `GrantsAreReal` a second invariant adds to `IInv` what a successful helper and `gained_privilege` say of
the database; the theorem assumes that the helper starts and is not ended
by a signal, and neither assumption can be dropped, as said above.  Under the same
assumptions `CancellationDenies` rests on `NotBoth`: while a dialog waits for its user only
a cancellation can have ended the helper, and that left nothing gained, so a success and a
cancellation meet only when the signal that the caller has gone comes after the success.
With a signal that ends the helper at the prompt they do meet: `child_watch_func` takes
that for success, and the user's cancellation of the dialog that still waits does not
take it back.

**KDE agent.**  `KdeServiceProofs` proves `Spec => []IInv` with every fault.  `Rest` says
which variables are at rest when nothing is authenticated, `Once` is as above, `Grants`
that a successful helper and `m_gainedPrivilege` during an authentication tell the
truth, and `Choice` that `m_newUserSelected` is set exactly when `m_userSelected` is.
From it follow `TypeCorrect`, `GrantsAreReal`, `TimerStopped`, `DenialHasCause` and
`Refinement`, none of which needs an assumption on what goes wrong: here a helper that
was killed does not count as one that succeeded.  `AdministratorAgrees` needs one more
invariant, `Named` (the administrator verified is the one chosen, or the one shown), and
assumes that PAM asks for `"Password: "`.

**What the refinements give.**  A theorem of the abstract specification holds of whatever
implements it.  `AnswersAreFinal`, of each agent, follows from its `Refinement` alone: once
a request was answered, refused or lost, no step of the agent changes what its caller
knows (the GNOME agent needs that the helper can be started, as its `Refinement` does).
In the same way `EndsAreFinal` and `RepliesWereSent` follow for the calls of the bindings.

**Client library.**  The invariant of `PolkitGnomeProofs` is the conjunction of the
types, `ToggleAgrees` and `Synced`: unless a signal is on its way, every object knows
the answer of PolicyKit and looks like it.  `BlockCanBeUndone` and
`ActivatedWhenAuthorized` follow from `Synced`, `GainedActivates` from the evaluation that
precedes the activation; the last two are the halves of `ActivatesExactly`.

**What actions show.**  For `ActionLooks` the same module proves `LooksSpec => []LooksInv`.
`AgreesWhenQuiet` speaks of quiet states only, and says nothing while an emission is under
way, which is when it could be broken.  `Told` extends it to every state: an action is
*current* (it remembers what PolicyKit would answer and shows the look for that) unless a
change was not yet signalled or it is among those still to be told.  That a new emission
tells all that could have become outdated is `Connected`: whoever asks PolicyKit is
connected to the context; who does not ask is current whatever happens.  Each setter is
shown to improve an action (`Improves`): it leaves it current, or, for the same question,
as current as it was, and with a look that fits what it knows.  `WithoutOK`, `TailOK` and
`EnsureContextOK` are about the two queues of handlers, from which an action may vanish
while it waits.  `FilterHasContext` needs `Leaked`: before there is any action, handler or
context a reference of `_update_action` has leaked.  `Told` also needs that the program
itself runs (`Running`), for a process that exits is told to nobody.

**Grant types.**  `RememberProofs` needs `ChoiceIsMade` (exactly one radio button is on
while the group is enabled, and that of the session is off while it is not) to show that
what is ticked is what is kept and what else may be, and that who
declined is on the blacklist to show that the box stays unticked.  The lemmas
`OverrideNarrows` and `OverrideFollows` say what both agents' overrides make of an offer.
`KeepsAsAgreed` joins the three that are about what is kept.

**Editor dialogs.**  The invariant is the types, `Mirrors` (what is held is what is
displayed) and `ButtonFits` (the button is offered for what is held, asks unless users
block themselves, and knows PolicyKit's answer but for a change not signalled).
`WritesWhatIsShown` follows from `Mirrors`, `OfferedWhenComplete` and `AsksFirst` from
`ButtonFits`.  The lemmas on what the setters of `ActionButton` make of a button stand at the
head of the module, and of the window's.

**Editor window.**  `Shown` says that the parts of the window belong to one another at any
time, `Signalled` that they are what PolicyKit says once `noted` is 0.  The tree needs the
lemma `TreeOK`: in a set of rows that is closed under what is above them, the search that
ends at the first namespace with a row loses nothing, so that rebuilding in place gives
what building anew would.  `BehindOK` covers every step that leaves the window alone,
which is most of them.  `AlwaysAsksFirst` follows from `Fresh` and from the button's asking
exactly for what `NeedsRevoke`.

**Bindings.**  `QDBusCallsProofs` proves `Spec => []IInv`.  `NotForgotten` is not inductive
alone: that a call is not forgotten when its reply is read depends on which replies and
errors are in the queues, and that no error is told after a reply on there being no
timeout for a call whose reply was read.  The lemmas `OfKind...` say what reading,
dispatching and appending do to the messages of a kind in a queue.  From the invariant
follow `TypeCorrect`, `NoCallForgotten`, `NoReceiverDead`, `NoMessageStranded`, the action
property `OnlyAddressedSend`, and `Refinement`: every step is one of `AsyncCalls` or a
stutter, whatever was destroyed or timed out before.  `SignalsHeardOnce` needs `Signals`,
about the two queues read as one: a signal is in it at most once, and is unheard as long
as it is.  Reading leaves that queue as it is, a dispatch takes its head, an arrival adds
to its end, and only the error of a timeout is put in between.

`QDBusProofs` proves `Spec => []IInv` for the connections.  `RefsCount` alone
does not survive a step: that a counter can be compared with the number of handles and
names needs these to be finitely many and handles that do not exist to lead nowhere
(`Countable`), and the deletion of a private with the last one, that its name was closed
before (`Lives`, since the manager's name counts as well).  `CallbacksAlive` rests on the
same conjunct.  `SoleConnectionWorks` needs to know what libdbus was given: whoever has the
watch functions or a filter of a bus was opened to it, filters are never doubled, and a
bus somebody opened has its watch functions with someone (`Opened`); and, for each stage of
the application, what the watcher is of who has them and a name (`Listens`, `WatcherOf`),
for connections opened between its creation and its binding and for all others.  Assignment takes a reference before it gives one back, so that assigning a
handle to itself deletes nothing: `CardinalityStep` and the lemmas after it count both.
`OneWatchesEachBus` joins `OneListener` and `Opened`: however many privates were opened to a
bus, one of them at most watches its socket.

The same module proves `ProgramSpec => []Built` for the values a program makes, of any
depth and number.  `Typed` and `EqualityIsExact` are statements about trees, and would ask
for an induction over them, which the prover does not offer.  `Built` does without: there is
a stock of values, the parts of all that were ever made, in which each is made of others
(`MadeOf`), is well typed and is told apart exactly from each (`Exact`).  A new value is made
of parts in the stock, so that what is claimed of it follows from what is known of them, in
one unfolding (`MadeTyped`, `MadeExact`): the induction is the one over the steps of the
program.  What remains is that every operation makes its result of what fits: `PutMade` and
`InsertMade` drop the rest, `AdoptMade` shows that a container that takes the type of its
first item holds nothing valid then, `TogetherMade` that the constructors from several
values compare them all, `ToForms` that the cast of a map to another key type changes
nothing else.  The theorems assume `Recursion`, that each parameter is at a value
what its definition makes of it at the parts, as the operators `QDBusValues.cfg` gives for
them are, and `TypesOK`, which is part of its `ConstantsOK` and is checked by TLC.
They say nothing of values that were received: `Fetch` calls the same operations, but how
often and with what is again a recursion, over the message; the run `QDBusValues` covers
them.

**What is proved and not checked by a run.**  The type correctness of the modules with
proofs, and properties that follow from deeper ones the runs check or that are stated in
their parts: `SendsOnlyAddressed`, `BlockCanBeUndone`, the editor's `AsksFirst` and
`GainedCompletes`, and the KDE agent's `TimerOnlyWhenInactive` and `DeniedForCause`.

**What is only checked.**  Liveness (`CallersAreServed`, `ShowsResult`,
`ArrivalsAreHandled`), which is out of the prover's reach; and what `QDBusValues` says of
messages (`ArrivesAsSent`, `NothingInvented`, and `Typed` and `EqualityIsExact` of received
values), where marshalling, parsing and demarshalling are recursions over a value, a
signature and a message that no step of the program follows.

The only assumptions on the constants are the `ConstantsOK` of the modules and the
`LooksConstantsOK` of `ActionLooks`, the `NullsOK` of the editor's two modules, `Recursion`
and `TypesOK` of `QDBusContainers`, and what is said above of faults and prompts.

## Known weaknesses no property states

GNOME agent:

* A request that is refused restarts the kill timer (`polkit-gnome-manager.c:465`), which
  can then end the agent during the authentication of another one.
* When the helper cannot be started the caller is told that it gained the authorization
  (`polkit-gnome-manager.c:1123`).
* When the caller vanishes while an administrator should be selected, cancelling destroys
  the dialog and the loop at `polkit-gnome-manager.c:692` never ends: every later request
  is refused.  The liveness properties speak of callers that stay.
* An authorization kept "for this session only", when it could have been kept always,
  blacklists its action although "remember" was ticked (`polkit-gnome-manager.c:1155`
  speaks of who unticked it); a box clicked between the recording of the grant and the
  exit of the helper blacklists what was kept.

KDE agent:

* The administrator chosen for a request that ends by bogus input or three failures is
  used for the first question of the next request (`service.cpp:686`; the log at line 407
  calls it the first time).
* "Remember authorization", "Always" and "Remember authorization" again leave the radio
  button on, and the authorization is kept for ever though the box is unticked
  (`service.cpp:493`); `KeepsWhatWasAgreed` excepts it.
* A set-up step that fails leaves the exit timer stopped (`service.cpp:549`).
* `requestName` is a blocking call made before the event loop runs
  (`policykitkde.cpp:32`) and nothing schedules a dispatch after it: a call that was read
  with its reply waits until another message arrives.
* Each failed attempt leaks its dialog; the third failure releases the grant twice; an
  exception is thrown through the frames of libpolkit-grant.

Client library:

* A toggle action clicked twice while it authenticates makes a second call; the refusal of
  that one clears `am_authenticating` (`polkit-gnome-toggle-action.c:582`), and the grant
  that answers the first activates the action, which gives up what was just obtained.
* A toggle action that finds "no" when clicked, before the signal of that change, stays
  active afterwards; `ToggleAgrees` says nothing of the result "no".
* When `polkit_gnome_auth_obtain` fails, `auth-start` was emitted and `auth-end` never
  is: the toggle action stays `am_authenticating`, which `ToggleAgrees` and `ShowsResult`
  excuse.
* An action whose look became that of a refusal while the agent was asked does not pass
  on the activation it began: the GTK action is insensitive (`Sensitive` in
  `GainedActivates`).
* `_update_action` takes a reference to the context each time and never gives it back
  (`polkit-gnome-action.c:868`); that is what keeps the context alive, whose
  `finalize` does not remove its D-Bus filter (`polkit-gnome-context.c:105`).
* When the context cannot be had, the first `_compute_polkit_result` reads a null pointer
  (`polkit-gnome-action.c:812`).
* A property set or `get_polkit_result` between a change and its signal caches the new
  result, so that `polkit-result-changed` is not emitted for it; and a refusal is looked up
  anew each time it is shown, while the result is remembered.
* The looks of `polkit_gnome_action_new` are invisible until the program sets them, although
  the properties declare TRUE as their default.

Editor:

* A dialog that is closed while its call is out leaves libdbus with a callback on freed
  memory (`AnswerAstray`).
* The Edit dialog writes all three defaults as it displays them, over what others
  changed meanwhile; and the user to be granted may be changed while the agent asks, the
  grant going to the one on display when the answer comes.

Bindings, calls: `timerEvent` (`qdbusconnection.cpp:244`) queues the error of a call that
timed out and schedules no dispatch, so that without further messages it is not delivered,
although `qdbusmessage.h:422` promises it; `dispatch()` takes one message where its
documentation speaks of all; `qDBusBindToApplication` is declared in no header;
`qDBusResultReceived` uses its iterator after a slot that may have erased what it points
to; a slot that enters an event loop gets the replies of other calls too, as one signal
serves them all; `requestName` succeeds also when the name is somebody else's.

Bindings, connections: a connection opened after the application was created and before
it is bound listens until then and is deaf afterwards, because `bindToApplication` clears
the list and adds only watchers without notifiers again (`qdbusintegrator.cpp:337`;
`SoleConnectionWorks` says so), and one whose watch was removed and not purged when it is
bound makes it give libdbus a null pointer; a second name for a bus takes the first one's watch functions and
never sees a signal, since the first one's filter handles it; a name closed while its
connection was opened leaves libdbus with pointers to the deleted private; `systemBus()`
after `sessionBus()` returns the session bus, both being the default name;
`closeConnection` of the default name nobody added reads a null pointer; a connection that
failed stays registered; `purgeRemovedWatches` does not end when a list holds a live
watcher beside a removed one; a D-Bus error with an empty message counts as none.

Bindings, values: two maps are equal only if they share their data; `UInt32` is compared
with eight bytes, four of which were not written (`qdbusdata.cpp:193`); a map with numbers
for keys appends the key to the wrong iterator and loses the connection
(`qdbusmarshall.cpp:791`); a map with object paths for keys arrives with null strings for
keys; `parseSignature` reads past the end of a nested container, and reports basic members
of a struct as Invalid, so that the items that do not fit are dropped without an error;
empty structs and variants are left out of a message, so that the arguments after them
move up; `insert` of a map returns true for what it rejects; `QDBusObjectPath` accepts any
path that begins with a slash and does not end in one.

## Not modelled

libpolkit, libpolkit-grant, PAM, libdbus and GTK, except as far as their use shows;
layout, texts and icons; translations; the URL label (vendored) and the example program.
The KDE 4 prototype, which was given up before it answered a call.  `QDBusServer`: its
`setServer` gives up whenever it has no server yet, which is always
(`qdbusintegrator.cpp:493`), and a new connection is ignored.  `QDBusError` and the headers of
messages, which hold strings.  The watch that waits for a socket to become writable: what
libdbus cannot write at once delays a message and changes nothing else here.  The property
getters of the client library, which read.  The acquisition of the bus names of the agents
and of the editor's single instance.  The lifetime of GTK widgets (a dialog whose window is
closed outside `gtk_dialog_run` is destroyed behind the agent's back) is GTK's.

## Plan

Done: `AuthAgent` with both agents refining it, the client library with its setters and its
context, the grant types, the authorization editor, the bindings' calls, connections and
values, and the proofs of every safety property the runs check but those about messages.
Left, in this order:

1. A connection whose bus goes away (`DBUS_DISPATCH_COMPLETE` after `Disconnected`), and
   slots that enter an event loop while other replies are dispatched.
2. The acquisition of the agents' bus names and of the editor's single instance.
3. Proofs about messages: `Fetch` as steps of the receiver, one for each item it reads, so
   that an invariant can follow it as `Built` follows the program.
