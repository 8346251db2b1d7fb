------------------------- MODULE AuthorizationWindow -------------------------
(***************************************************************************)
(* The main window of the authorization editor (policykit-gnome/tools):    *)
(* the tree of installed actions under their namespaces, the summary of    *)
(* the action with the cursor (its implicit authorizations and the list of *)
(* explicit ones) and the buttons Revert To Defaults and Revoke.  Both are *)
(* PolKitGnomeActions (ActionButton): a click that needs an authentication *)
(* is held back, and what it was for is done to whatever has the cursor    *)
(* when the agent answers.  The tree, the summary and the list are built   *)
(* anew when the context signals a change.                                 *)
(* An action of this module is one dispatch of the main loop.  The dialogs *)
(* of the editor (EditorDialogs) write like anybody else.                  *)
(***************************************************************************)
EXTENDS ActionButton, Naturals

CONSTANTS
    Actions,
    Namespaces,  \* rows above actions, "org.foo." for the action org.foo.bar
    Above,       \* the namespaces that are prefixes of an action or namespace
    Users,
    Self,        \* who runs the editor
    Nobody,      \* granted an authorization obtained by authenticating
    Auths,       \* the explicit authorizations there may be
    Defaults,    \* the implicit authorizations an action may have
    Factory,     \* those each action was installed with
    Pending,     \* bound: one id for each call of the agent that may be out
    Burst,       \* bound: changes by others that wait for one signal
    Wanders,     \* whether the user moves the cursors while a call is out
    Faults,      \* what may fail: "bus", the session bus
    NotInstalled, NoRow, NoAuth, NoCall, NoAct

Tools == {"revoke", "modify"}          \* pk_revoke_action, pk_modify_defaults_action
AuthRecords == [of : Actions, uid : Users, by : Users \cup {Nobody}]

ASSUME ConstantsOK ==
    /\ Actions \cap Namespaces = {}
    /\ Above \in [Actions \cup Namespaces -> SUBSET Namespaces]
    /\ \A r \in Actions \cup Namespaces, n \in Namespaces : n \in Above[r] => Above[n] \subseteq Above[r]
    /\ Self \in Users /\ Nobody \notin Users
    /\ Auths \subseteq AuthRecords
    /\ Factory \in [Actions -> Defaults]
    /\ Wanders \in BOOLEAN /\ Burst \in Nat \ {0}
    /\ NotInstalled \notin Defaults
    /\ NoRow \notin Actions \cup Namespaces
    /\ NoAuth \notin Auths

Calls == [tool : Tools, item : Auths \cup Actions, outcome : {"asked", "gained", "refused"}]
Acts  == [tool : Tools, item : Auths \cup Actions, allowed : BOOLEAN]

ASSUME NullsOK == NoCall \notin Calls /\ NoAct \notin Acts

VARIABLES
    installed,  \* the implicit authorizations of the installed actions
    db,         \* the explicit authorizations
    permit,     \* what PolicyKit answers for the tools
    readable,   \* whether it lets the user read all of db
    noted,      \* how many changes of these have not been signalled to the program
    known,      \* installed, as the policy cache has it
    rows,       \* of the tree of actions
    cursor,     \* its cursor
    summary,    \* the row it is of, its implicit authorizations, those listed
    authCursor, \* the cursor of the list
    revoke, revert,  \* the two actions
    calls,      \* the calls of the agent that have not been answered
    did         \* what the step had libpolkit do

worldVars == <<installed, db, permit, readable>>
treeVars  == <<known, rows, cursor>>
listVars  == <<summary, authCursor>>
vars      == <<worldVars, noted, treeVars, listVars, revoke, revert, calls, did>>

Policies == [Actions -> Defaults \cup {NotInstalled}]

(* Besides the types: a cursor is on a row that is there.                  *)
TypeOK ==
    /\ installed \in Policies /\ known \in Policies
    /\ db \subseteq Auths
    /\ permit \in [Tools -> Results]
    /\ readable \in BOOLEAN
    /\ noted \in 0..Burst
    /\ rows \subseteq Actions \cup Namespaces
    /\ cursor \in rows \cup {NoRow}
    /\ summary \in [row : Actions \cup Namespaces \cup {NoRow},
                    defaults : Defaults \cup {NotInstalled}, listed : SUBSET Auths]
    /\ authCursor \in summary.listed \cup {NoAuth}
    /\ revoke \in Buttons /\ revert \in Buttons
    /\ calls \in [Pending -> Calls \cup {NoCall}]
    /\ did \in Acts \cup {NoAct}

-----------------------------------------------------------------------------
(* The tree.                                                               *)

Installed(policy) == {a \in Actions : policy[a] # NotInstalled}

(* get_namespace_iter: the namespaces above a, up to one that has a row. *)
NewNamespaces(a, rs) == {n \in Above[a] : \A m \in Above[a] \cap rs : n # m /\ n \notin Above[m]}

(* update_action_tree *)
Inserted(rs, policy) ==
    rs \cup Installed(policy)
       \cup UNION {NewNamespaces(a, rs) : a \in Installed(policy) \ rs}

\* Mutant: a namespace stays when its last action goes.
CulledActions(rs, policy) == {r \in rs : r \in Actions => r \in Installed(policy)}

(* update_action_tree_cull *)
Culled(rs, policy) ==
    {r \in rs : IF r \in Actions THEN r \in Installed(policy)
                                 ELSE \E a \in Installed(policy) : r \in Above[a]}

UpdateActionTree(rs, policy) == Culled(Inserted(rs, policy), policy)

-----------------------------------------------------------------------------
(* The summary.                                                            *)

(* get_selected_pfe: the entry of an action, none of a namespace. *)
DefaultsOf(policy, row) == IF row \in Actions THEN policy[row] ELSE NotInstalled

(* The authorizations the user can see, or may see once she could read all. *)
Listing(row, all) == {x \in db : x.of = row /\ (all \/ x.uid = Self)}

(* Revoking what one obtained or granted oneself needs no privilege. *)
NeedsRevoke(x) == x.uid # Self \/ x.by \notin {Self, Nobody}

(* update_authlist *)
UpdateAuthlist(b, x) ==
    IF x = NoAuth THEN SetSensitive(b, FALSE)
    ELSE SetPolkitAction(SetSensitive(b, TRUE), NeedsRevoke(x), permit["revoke"])

(* update_summary, with the buttons rvk and rvt.  The result of            *)
(* read_action is computed anew each time, so that what it remembers is no *)
(* part of the state.  While the old list is cleared its cursor may pass   *)
(* over another entry; the new one gets it on the first entry, which may   *)
(* be any.                                                                 *)
UpdateSummary(row, policy, rvk, rvt) ==
    /\ summary' = [row |-> row, defaults |-> DefaultsOf(policy, row), listed |-> Listing(row, readable)]
    /\ revert' = SetSensitive(rvt, row \in Actions /\ policy[row] \notin {NotInstalled, Factory[row]})
    /\ \E passed \in summary.listed \cup {NoAuth},
          first \in IF summary'.listed = {} THEN {NoAuth} ELSE summary'.listed :
          /\ authCursor' = first
          /\ revoke' = UpdateAuthlist(UpdateAuthlist(rvk, passed), first)

-----------------------------------------------------------------------------
Init ==
    /\ installed \in Policies /\ db \in SUBSET Auths
    /\ permit \in [Tools -> Results] /\ readable \in BOOLEAN
    /\ noted = 0
    /\ known = installed
    /\ rows = UpdateActionTree({}, installed)
    /\ cursor = NoRow
    /\ summary = [row |-> NoRow, defaults |-> NotInstalled, listed |-> {}]
    /\ authCursor = NoAuth
    /\ revoke = NewButton(permit["revoke"]) /\ revert = NewButton(permit["modify"])
    /\ calls = [c \in Pending |-> NoCall]
    /\ did = NoAct

-----------------------------------------------------------------------------
(* Everybody else, this program's dialogs among them.                      *)

OthersChange == noted < Burst /\ noted' = noted + 1
Changes == noted' = IF noted < Burst THEN noted + 1 ELSE noted

DefaultsChanged(a, d) ==
    /\ OthersChange
    /\ d # installed[a]
    /\ installed' = [installed EXCEPT ![a] = d]
    /\ did' = NoAct
    /\ UNCHANGED <<db, permit, readable, treeVars, listVars, revoke, revert, calls>>

AuthChanged(x) ==
    /\ OthersChange
    /\ db' = IF x \in db THEN db \ {x} ELSE db \cup {x}
    /\ did' = NoAct
    /\ UNCHANGED <<installed, permit, readable, treeVars, listVars, revoke, revert, calls>>

PermitChanged(t, r) ==
    /\ OthersChange
    /\ r # permit[t]
    /\ permit' = [permit EXCEPT ![t] = r]
    /\ did' = NoAct
    /\ UNCHANGED <<installed, db, readable, treeVars, listVars, revoke, revert, calls>>

(* Who may read all: by policy, or because read_action obtained it. *)
ReadableChanged ==
    /\ OthersChange
    /\ readable' = ~readable
    /\ did' = NoAct
    /\ UNCHANGED <<installed, db, permit, treeVars, listVars, revoke, revert, calls>>

AgentAnswers(c, outcome) ==
    /\ calls[c] # NoCall
    /\ calls[c].outcome = "asked"
    /\ calls' = [calls EXCEPT ![c].outcome = outcome]
    /\ IF outcome = "gained"
       THEN /\ permit' = [permit EXCEPT ![calls[c].tool] = "yes"]
            /\ IF permit[calls[c].tool] # "yes" THEN Changes ELSE UNCHANGED noted
       ELSE UNCHANGED <<permit, noted>>
    /\ did' = NoAct
    /\ UNCHANGED <<installed, db, readable, treeVars, listVars, revoke, revert>>

-----------------------------------------------------------------------------
(* The program.                                                            *)

Recomputed(b, t) == Updated(Computed(b, permit[t]))

\* Mutant: the tree is rebuilt, the summary stays.
ConfigChangedTree ==
    /\ noted > 0
    /\ noted' = 0
    /\ known' = installed
    /\ rows' = UpdateActionTree(rows, installed)
    /\ cursor' \in IF cursor \in rows' THEN {cursor} ELSE {NoRow} \cup rows'
    /\ revoke' = Recomputed(revoke, "revoke") /\ revert' = Recomputed(revert, "modify")
    /\ did' = NoAct
    /\ UNCHANGED <<worldVars, listVars, calls>>

(* The handlers of config-changed and console-kit-db-changed: those of the *)
(* three actions, which were connected first, then _pk_config_changed.     *)
(* The cursor of a row that goes moves to another one or is lost.          *)
ConfigChanged ==
    /\ noted > 0
    /\ noted' = 0
    /\ known' = installed
    /\ rows' = UpdateActionTree(rows, installed)
    /\ cursor' \in IF cursor \in rows' THEN {cursor} ELSE {NoRow} \cup rows'
    /\ UpdateSummary(cursor', installed, Recomputed(revoke, "revoke"), Recomputed(revert, "modify"))
    /\ did' = NoAct
    /\ UNCHANGED <<worldVars, calls>>

StaysPut == Wanders \/ \A c \in Pending : calls[c] = NoCall

(* action_tree_changed, by the user or by single_instance_show_action *)
ActionTreeChanged(row) ==
    /\ StaysPut
    /\ row \in rows \ {cursor}
    /\ cursor' = row
    /\ UpdateSummary(row, known, revoke, revert)
    /\ did' = NoAct
    /\ UNCHANGED <<worldVars, noted, known, rows, calls>>

(* authlist_changed *)
AuthlistChanged(x) ==
    /\ StaysPut
    /\ x \in summary.listed \ {authCursor}
    /\ authCursor' = x
    /\ revoke' = UpdateAuthlist(revoke, x)
    /\ did' = NoAct
    /\ UNCHANGED <<worldVars, noted, treeVars, summary, revert, calls>>

-----------------------------------------------------------------------------
(* Revert and Revoke.                                                      *)

(* What the activate handler of each tool acts on: none, or whatever has   *)
(* the cursor.                                                             *)
Target(t) == IF t = "revoke" THEN {authCursor} \ {NoAuth}
                             ELSE {cursor} \cap Installed(known)

Button(t) == IF t = "revoke" THEN revoke ELSE revert

(* What libpolkit lets this process do. *)
Allowed(t, x) == permit[t] = "yes" \/ (t = "revoke" /\ ~NeedsRevoke(x))

(* revoke_action_activate and revert_impl_activate *)
Activate(t) ==
    IF Target(t) = {} THEN did' = NoAct /\ UNCHANGED <<installed, db, noted>>
    ELSE \E x \in Target(t) :
           LET ok == Allowed(t, x)
           IN /\ did' = [tool |-> t, item |-> x, allowed |-> ok]
              /\ db' = IF ok /\ t = "revoke" THEN db \ {x} ELSE db
              /\ installed' = IF ok /\ t = "modify" /\ installed[x] # NotInstalled
                              THEN [installed EXCEPT ![x] = Factory[x]] ELSE installed
              /\ IF db' # db \/ installed' # installed THEN Changes ELSE UNCHANGED noted

(* _auth_start in the call c, for the item x *)
AuthStart(t, x, cs, c) ==
    \/ calls' = [cs EXCEPT ![c] = [tool |-> t, item |-> x, outcome |-> "asked"]]
    \/ "bus" \in Faults /\ calls' = cs

(* polkit_gnome_action_activate, of a click: the emission is stopped and   *)
(* an authentication started, or the handler is called.                    *)
ClickAsks(t, c) ==
    /\ Button(t).sensitive
    /\ Button(t).result = "auth"
    /\ calls[c] = NoCall
    /\ \E x \in Target(t) : AuthStart(t, x, calls, c)
    /\ did' = NoAct
    /\ UNCHANGED <<worldVars, noted, treeVars, listVars, revoke, revert>>

ClickActs(t) ==
    /\ Button(t).sensitive
    /\ Button(t).result # "auth"
    /\ Activate(t)
    /\ UNCHANGED <<permit, readable, treeVars, listVars, revoke, revert, calls>>

(* _show_dialog_cb *)
Refused(c) ==
    /\ calls[c] # NoCall
    /\ calls[c].outcome = "refused"
    /\ calls' = [calls EXCEPT ![c] = NoCall]
    /\ did' = NoAct
    /\ UNCHANGED <<worldVars, noted, treeVars, listVars, revoke, revert>>

(* The result is computed again and, if the action is still sensitive, it  *)
(* is activated for the user; should the result still be auth, it asks     *)
(* once more.                                                              *)
Gained(c) ==
    /\ calls[c] # NoCall
    /\ calls[c].outcome = "gained"
    /\ LET t == calls[c].tool
           b == Computed(Button(t), permit[t])
           without == [calls EXCEPT ![c] = NoCall]
       IN /\ revoke' = IF t = "revoke" THEN b ELSE revoke
          /\ revert' = IF t = "modify" THEN b ELSE revert
          /\ \/ /\ ~b.sensitive
                /\ calls' = without /\ did' = NoAct
                /\ UNCHANGED <<installed, db, noted>>
             \/ /\ b.sensitive /\ b.result = "auth"
                /\ \E x \in Target(t) : AuthStart(t, x, without, c)
                /\ did' = NoAct
                /\ UNCHANGED <<installed, db, noted>>
             \/ /\ b.sensitive /\ b.result # "auth"
                /\ calls' = without
                /\ Activate(t)
    /\ UNCHANGED <<permit, readable, treeVars, listVars>>

-----------------------------------------------------------------------------
World ==
    \/ \E a \in Actions, d \in Defaults \cup {NotInstalled} : DefaultsChanged(a, d)
    \/ \E x \in Auths : AuthChanged(x)
    \/ \E t \in Tools, r \in Results : PermitChanged(t, r)
    \/ ReadableChanged
    \/ \E c \in Pending, outcome \in {"gained", "refused"} : AgentAnswers(c, outcome)

Next ==
    \/ World
    \/ ConfigChanged
    \/ \E row \in Actions \cup Namespaces : ActionTreeChanged(row)
    \/ \E x \in Auths : AuthlistChanged(x)
    \/ \E t \in Tools, c \in Pending : ClickAsks(t, c)
    \/ \E t \in Tools : ClickActs(t)
    \/ \E c \in Pending : Refused(c) \/ Gained(c)

Spec == Init /\ [][Next]_vars

-----------------------------------------------------------------------------
(* Properties                                                              *)

(* The tree holds the actions of the policy cache and every namespace      *)
(* above one of them, whichever came and went in whichever order.          *)
TreeComplete == rows = Installed(known) \cup UNION {Above[a] : a \in Installed(known)}

(* Once the last change was signalled the window shows what is: the        *)
(* implicit authorizations of the action with the cursor and the explicit  *)
(* ones the user may see, and each button can be clicked when there is     *)
(* something for it to do that PolicyKit does not forbid.                  *)
ShowsWhatIs ==
    noted = 0 =>
        /\ summary.row = cursor
        /\ summary.defaults = DefaultsOf(installed, cursor)
        /\ summary.listed = Listing(cursor, readable)
        /\ authCursor = NoAuth <=> summary.listed = {}
        /\ revert.sensitive <=>
              /\ cursor \in Actions /\ installed[cursor] # Factory[cursor]
              /\ permit["modify"] # "no"
        /\ revoke.sensitive <=>
              /\ authCursor # NoAuth
              /\ NeedsRevoke(authCursor) => permit["revoke"] # "no"

(* What PolicyKit refuses for want of an authentication was only tried     *)
(* because the signal of a change was still on its way: wherever the       *)
(* cursors were moved, the user is asked first.                            *)
AsksFirst ==
    [][did' # NoAct /\ ~did'.allowed => noted > 0 \/ permit[did'.tool] = "no"]_vars

(* What is done after an authentication is what the user clicked for.      *)
ActsOnWhatWasClicked ==
    [][\A c \in Pending :
          calls[c] # NoCall /\ calls'[c] = NoCall /\ did' # NoAct
            => did'.item = calls[c].item]_vars

=============================================================================
