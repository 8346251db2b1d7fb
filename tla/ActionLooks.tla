----------------------------- MODULE ActionLooks -----------------------------
(***************************************************************************)
(* What a PolKitGnomeAction shows (polkit-gnome-action.c): the GtkActions  *)
(* of a program, each with the PolicyKit action it tracks, the actions     *)
(* that are sufficient for it, the process that would be authorized and    *)
(* the look its program wants for each answer.  The actions share one      *)
(* PolKitGnomeContext (polkit-gnome-context.c), which tells them when what *)
(* PolicyKit would answer may have changed.  The handlers of               *)
(* polkit-result-changed may use any action while others still wait to be  *)
(* told.  Icon name, tooltip and the two labels are one text.  A program   *)
(* whose system bus or PolicyKit cannot be reached crashes in the first    *)
(* _compute_polkit_result and is left out.                                 *)
(***************************************************************************)
EXTENDS Naturals, Sequences, SequencesExt, FiniteSets

CONSTANTS
    Action,    \* the PolKitGnomeActions of the program
    PkAction,  \* the PolKitActions
    NoPk,      \* NULL
    MaxUses,   \* bound: the calls of the program
    MaxChanges \* bound: the changes of the PolicyKit database

ASSUME LooksConstantsOK == NoPk \notin PkAction /\ MaxUses \in Nat /\ MaxChanges \in Nat

Pid == {"self", "other"}
PolKitResult == {"unknown", "no", "auth", "yes"}
State == {"self_blocked", "no", "auth", "yes"}
Text == {"none", "label"}
LookType == [visible : BOOLEAN, sensitive : BOOLEAN, text : Text]

(* The properties of a look, and the values they take.                     *)
Property == {<<f, v>> : f \in {"visible", "sensitive"}, v \in BOOLEAN}
              \cup {<<"text", t>> : t \in Text}

VARIABLES
    objects,   \* the actions that exist, and what each one holds
    handlers,  \* those connected to the context, in order
    notifying, \* those an emission of config-changed has still to tell
    handling,  \* a handler of polkit-result-changed may be running
    due,       \* the context has yet to hear of a change
    decided,   \* what PolicyKit answers for a process and an action
    blocked,   \* the actions the user blocked
    alive,     \* the processes alive
    singleton, \* the context exists
    leaked,    \* it holds references nobody will give back
    stale,     \* libdbus calls a filter of a context that was freed
    calls, changes

database == <<decided, blocked, alive>>
context == <<singleton, leaked, stale>>
looksVars == <<objects, handlers, notifying, handling, due, database, context,
               calls, changes>>

ActionType ==
    [pk : PkAction \cup {NoPk}, once : BOOLEAN, sufficient : SUBSET PkAction, pid : Pid,
     result : PolKitResult, looks : [State -> LookType], master_visible : BOOLEAN,
     master_sensitive : BOOLEAN, shown : LookType]

Exists(o) == o \in DOMAIN objects

LooksTypeOK ==
    /\ DOMAIN objects \subseteq Action
    /\ objects \in [DOMAIN objects -> ActionType]
    /\ handlers \in Seq(DOMAIN objects) /\ IsInjective(handlers)
    /\ notifying \in Seq(ToSet(handlers)) /\ IsInjective(notifying)
    /\ handling \in BOOLEAN /\ due \in BOOLEAN
    /\ decided \in [Pid -> [PkAction -> PolKitResult \ {"unknown"}]]
    /\ blocked \subseteq PkAction /\ alive \subseteq Pid
    /\ singleton \in BOOLEAN /\ leaked \in BOOLEAN /\ stale \in BOOLEAN
    /\ calls \in 0..MaxUses /\ changes \in 0..MaxChanges

-----------------------------------------------------------------------------
(* What the calls make of an action b.                                     *)

ResultDirect(b) ==
    IF b.pid \notin alive THEN "unknown"
    ELSE IF \E a \in b.sufficient : decided[b.pid][a] = "yes" THEN "yes"
    ELSE decided[b.pid][b.pk]

(* _compute_polkit_result: no PolKitAction is a yes.                       *)
Compute(b) ==
    [b EXCEPT !.result = IF b.pk = NoPk THEN "yes" ELSE ResultDirect(b)]

(* The answer no is looked up again: the user may have asked for it.       *)
LookState(b) ==
    IF b.result \in {"auth", "yes"} THEN b.result
    ELSE IF b.pk \in blocked THEN "self_blocked" ELSE "no"

Masked(b, state) ==
    [b.looks[state] EXCEPT !.visible = @ /\ b.master_visible,
                           !.sensitive = @ /\ b.master_sensitive]

(* _update_action                                                          *)
Update(b) == [b EXCEPT !.shown = Masked(b, LookState(b))]

(* Mutant: a new PolKitAction is not asked about.                          *)
SetActionOnly(b, pk) ==
    IF b.once /\ b.pk = pk THEN b ELSE Update([b EXCEPT !.once = TRUE, !.pk = pk])

SetAction(b, pk) ==
    IF b.once /\ b.pk = pk THEN b ELSE Update(Compute([b EXCEPT !.once = TRUE, !.pk = pk]))

SetSufficient(b, as) == Update(Compute([b EXCEPT !.sufficient = as]))
SetTargetPid(b, p) == Update(Compute([b EXCEPT !.pid = p]))

(* Mutant: the master switch takes effect at the next update.              *)
SetVisibleLater(b, m) == [b EXCEPT !.master_visible = m]

SetVisible(b, m) ==
    IF b.master_visible = m THEN b ELSE Update([b EXCEPT !.master_visible = m])
SetSensitive(b, m) ==
    IF b.master_sensitive = m THEN b ELSE Update([b EXCEPT !.master_sensitive = m])

SetLook(b, state, p) == Update([b EXCEPT !.looks[state][p[1]] = p[2]])

Unset == [visible |-> FALSE, sensitive |-> FALSE, text |-> "none"]

(* GObject sets the construct properties, then the constructor the masters.*)
Constructed(pk) ==
    LET b == [pk |-> NoPk, once |-> FALSE, sufficient |-> {}, pid |-> "self",
              result |-> "unknown", looks |-> [s \in State |-> Unset],
              master_visible |-> FALSE, master_sensitive |-> FALSE, shown |-> Unset]
    IN [SetTargetPid(SetSufficient(SetAction(b, pk), {}), "self")
          EXCEPT !.master_visible = TRUE, !.master_sensitive = TRUE]

DefaultLook(s) ==
    [visible |-> TRUE, sensitive |-> s \in {"auth", "yes"}, text |-> "label"]
Default(pk) == Update([Constructed(pk) EXCEPT !.looks = [s \in State |-> DefaultLook(s)]])

-----------------------------------------------------------------------------
(* The context.  polkit_gnome_context_get makes it when there is none, and *)
(* installs a filter; whoever gives back the last reference frees it, and  *)
(* leaves the filter with libdbus.                                         *)

(* Mutant: _update_action gives its reference back.                        *)
GivesBack(updated) == FALSE

Leaks(updated) == updated

ContextGet(updated) ==
    LET kept == leaked \/ Leaks(updated) \/ handlers' # <<>>
    IN /\ leaked' = (leaked \/ Leaks(updated))
       /\ singleton' = kept
       /\ stale' = (stale \/ ((singleton \/ updated) /\ ~kept))

(* _ensure_pk_g_context: an action that has to ask is connected.           *)
EnsureContext(o, b) ==
    handlers' = IF b.pk # NoPk /\ o \notin ToSet(handlers) THEN Append(handlers, o)
                ELSE handlers

-----------------------------------------------------------------------------
(* Steps.  The program is called by the main loop, or by an action whose   *)
(* result changed while the context tells its actions.                     *)

LooksInit ==
    /\ objects = [o \in {} |-> 0] /\ handlers = <<>> /\ notifying = <<>>
    /\ handling = FALSE /\ due = FALSE
    /\ decided \in [Pid -> [PkAction -> {"auth"}]]
    /\ blocked = {} /\ alive = Pid
    /\ singleton = FALSE /\ leaked = FALSE /\ stale = FALSE
    /\ calls = 0 /\ changes = 0

Calls ==
    /\ notifying = <<>> \/ handling
    /\ calls < MaxUses /\ calls' = calls + 1
    /\ UNCHANGED <<handling, due, database, changes>>

Made(o, b, updated) ==
    /\ objects' = [i \in DOMAIN objects \cup {o} |-> IF i = o THEN b ELSE objects[i]]
    /\ EnsureContext(o, b)
    /\ ContextGet(updated)
    /\ UNCHANGED notifying

New(o) == Calls /\ ~Exists(o) /\ Made(o, Constructed(NoPk), TRUE)
NewDefault(o, pk) == Calls /\ ~Exists(o) /\ Made(o, Default(pk), TRUE)

ChangeAction(o, pk) ==
    /\ Calls /\ Made(o, SetAction(objects[o], pk), objects[o].pk # pk)
ChangeSufficient(o, as) ==
    /\ Calls /\ Made(o, SetSufficient(objects[o], as), TRUE)
ChangePid(o, p) ==
    /\ Calls /\ Made(o, SetTargetPid(objects[o], p), TRUE)
ChangeVisible(o, m) ==
    /\ Calls /\ Made(o, SetVisible(objects[o], m), objects[o].master_visible # m)
ChangeSensitive(o, m) ==
    /\ Calls /\ Made(o, SetSensitive(objects[o], m), objects[o].master_sensitive # m)

ChangeSelfBlocked(o, p) == Calls /\ Made(o, SetLook(objects[o], "self_blocked", p), TRUE)
ChangeNo(o, p) == Calls /\ Made(o, SetLook(objects[o], "no", p), TRUE)
ChangeAuth(o, p) == Calls /\ Made(o, SetLook(objects[o], "auth", p), TRUE)
ChangeYes(o, p) == Calls /\ Made(o, SetLook(objects[o], "yes", p), TRUE)

AskPolkitResult(o) == Calls /\ Made(o, Update(Compute(objects[o])), TRUE)

SetProperty(o) ==
    \/ \E pk \in PkAction \cup {NoPk} : ChangeAction(o, pk)
    \/ \E as \in SUBSET PkAction : ChangeSufficient(o, as)
    \/ \E p \in Pid : ChangePid(o, p)
    \/ \E m \in BOOLEAN : ChangeVisible(o, m) \/ ChangeSensitive(o, m)
    \/ \E p \in Property : \/ ChangeSelfBlocked(o, p) \/ ChangeNo(o, p)
                           \/ ChangeAuth(o, p) \/ ChangeYes(o, p)

(* The sequence s, where o occurs at most once, without o.                 *)
Without(s, o) ==
    IF o \in ToSet(s) THEN RemoveAt(s, CHOOSE i \in DOMAIN s : s[i] = o) ELSE s

(* Mutant: a finalized action stays connected to the context.              *)
FinalizeConnected(o) ==
    /\ Calls
    /\ objects' = [i \in DOMAIN objects \ {o} |-> objects[i]]
    /\ UNCHANGED <<handlers, notifying>>
    /\ ContextGet(FALSE)

(* finalize: the action lets go of the context it asked for, and waits for *)
(* no emission any more.                                                   *)
Finalize(o) ==
    /\ Calls
    /\ objects' = [i \in DOMAIN objects \ {o} |-> objects[i]]
    /\ handlers' = Without(handlers, o)
    /\ notifying' = Without(notifying, o)
    /\ ContextGet(FALSE)

(* Another program, or the user in one, changes what PolicyKit answers.    *)
DatabaseChanges ==
    /\ changes < MaxChanges /\ changes' = changes + 1
    /\ \/ \E p \in Pid, a \in PkAction, r \in PolKitResult \ {"unknown"} :
            /\ decided' = [decided EXCEPT ![p][a] = r]
            /\ blocked' \in {blocked, blocked \cup {a}, blocked \ {a}}
            /\ <<decided, blocked>>' # <<decided, blocked>>
            /\ due' = TRUE /\ UNCHANGED alive
       \/ /\ "other" \in alive /\ alive' = {"self"}
          /\ UNCHANGED <<decided, blocked, due>>
    /\ UNCHANGED <<objects, handlers, notifying, handling, context, calls>>

(* pk_config_changed and the filter of the context: config-changed or      *)
(* console-kit-db-changed is emitted, to those connected now.              *)
ContextChanged ==
    /\ due /\ notifying = <<>>
    /\ due' = FALSE /\ handling' = FALSE
    /\ notifying' = handlers
    /\ UNCHANGED <<objects, handlers, database, context, calls, changes>>

(* _pk_config_changed, which emits polkit-result-changed.                  *)
PkConfigChanged ==
    /\ notifying # <<>>
    /\ LET o == Head(notifying)
           b == Update(Compute(objects[o])) IN
       /\ objects' = [objects EXCEPT ![o] = b]
       /\ handling' = (b.result # objects[o].result)
    /\ notifying' = Tail(notifying)
    /\ UNCHANGED handlers
    /\ ContextGet(TRUE)
    /\ UNCHANGED <<due, database, calls, changes>>

LooksNext ==
    \/ \E o \in Action : New(o) \/ \E pk \in PkAction \cup {NoPk} : NewDefault(o, pk)
    \/ \E o \in DOMAIN objects : SetProperty(o) \/ AskPolkitResult(o) \/ Finalize(o)
    \/ DatabaseChanges \/ ContextChanged \/ PkConfigChanged

LooksSpec == LooksInit /\ [][LooksNext]_looksVars

-----------------------------------------------------------------------------
(* Properties.                                                             *)

(* Whatever is called, and whoever calls it, each action shows the look    *)
(* its program last gave it for the answer it last computed, hidden or     *)
(* insensitive if the program said so; only of the two looks for a refusal *)
(* it may show either, until the context tells it.                         *)
ShowsWhatItKnows ==
    \A o \in DOMAIN objects : LET b == objects[o] IN
      b.shown \in {Masked(b, s) : s \in IF b.result \in {"auth", "yes"} THEN {b.result}
                                       ELSE {"self_blocked", "no"}}

(* When the context has nothing more to tell, every action shows what      *)
(* PolicyKit would answer now, however often its actions and its process   *)
(* were changed, by handlers of the same emission too.  A process that     *)
(* exits changes nothing the context hears of.                             *)
AgreesWhenQuiet ==
    ~due /\ notifying = <<>> =>
      \A o \in DOMAIN objects : LET b == objects[o] IN
        b.pid \in alive => b = Update(Compute(b))

(* libdbus never calls the filter of a context that was freed: the context *)
(* does not remove its filter, and lives because _update_action keeps the  *)
(* references it gets.                                                     *)
FilterHasContext == ~stale

=============================================================================
