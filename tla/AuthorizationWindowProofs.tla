----------------------- MODULE AuthorizationWindowProofs -----------------------
(***************************************************************************)
(* Theorems about AuthorizationWindow, for any actions, namespaces,        *)
(* authorizations and number of calls and changes that may be out.         *)
(***************************************************************************)
EXTENDS AuthorizationWindow, TLAPS

Offers(row, policy) == row \in Actions /\ policy[row] \notin {NotInstalled, Factory[row]}

(* The parts of the window belong to one another, signal or not: the       *)
(* summary is of the row with the cursor, Revert is offered for that row   *)
(* and Revoke for the authorization with the cursor.                       *)
Shown ==
    /\ summary.row = cursor
    /\ summary.defaults = DefaultsOf(known, cursor)
    /\ authCursor = NoAuth <=> summary.listed = {}
    /\ revert.asks
    /\ revert.master <=> Offers(cursor, known)
    /\ revoke.master <=> authCursor # NoAuth
    /\ authCursor # NoAuth => (revoke.asks <=> NeedsRevoke(authCursor))

(* What the program remembers is so once every change was signalled. *)
Signalled ==
    noted = 0 =>
        /\ known = installed
        /\ summary.listed = Listing(cursor, readable)
        /\ Exact(revoke) /\ Exact(revert)
        /\ Fresh(revoke, permit["revoke"]) /\ Fresh(revert, permit["modify"])

IInv == TypeOK /\ TreeComplete /\ Shown /\ Signalled

Summaries == [row : Actions \cup Namespaces \cup {NoRow},
              defaults : Defaults \cup {NotInstalled}, listed : SUBSET Auths]

USE ConstantsOK, NullsOK DEF Tools

-----------------------------------------------------------------------------
(* What the calls make of a button (ActionButton).                         *)

USE DEF Results

LEMMA NewButtonOK ==
    \A answer \in Results :
        /\ NewButton(answer) \in Buttons /\ Sound(NewButton(answer))
        /\ Exact(NewButton(answer)) /\ Fresh(NewButton(answer), answer)
        /\ NewButton(answer).asks /\ ~NewButton(answer).master
BY DEF NewButton, Buttons, Sound, Exact, Fresh

LEMMA ComputedOK ==
    ASSUME NEW b \in Buttons, NEW answer \in Results
    PROVE  /\ Computed(b, answer) \in Buttons
           /\ Fresh(Computed(b, answer), answer)
           /\ Computed(b, answer).asks = b.asks
           /\ Computed(b, answer).master = b.master
           /\ Computed(b, answer).sensitive = b.sensitive
BY DEF Computed, Fresh, Buttons

LEMMA UpdatedOK ==
    ASSUME NEW b \in Buttons
    PROVE  /\ Updated(b) \in Buttons
           /\ Sound(Updated(b)) /\ Exact(Updated(b))
           /\ Updated(b).asks = b.asks
           /\ Updated(b).result = b.result
           /\ Updated(b).master = b.master
BY DEF Updated, Sound, Exact, Buttons

LEMMA SetSensitiveOK ==
    ASSUME NEW b \in Buttons, NEW m \in BOOLEAN
    PROVE  /\ SetSensitive(b, m) \in Buttons
           /\ Sound(b) => Sound(SetSensitive(b, m))
           /\ Exact(b) => Exact(SetSensitive(b, m))
           /\ SetSensitive(b, m).asks = b.asks
           /\ SetSensitive(b, m).result = b.result
           /\ SetSensitive(b, m).master = m
<1>1. CASE b.master = m
      BY <1>1 DEF SetSensitive
<1>2. CASE b.master # m
  <2> DEFINE c == [b EXCEPT !.master = m]
  <2>1. c \in Buttons /\ c.asks = b.asks /\ c.result = b.result /\ c.master = m
        BY DEF Buttons
  <2>2. SetSensitive(b, m) = Updated(c)
        BY <1>2 DEF SetSensitive
  <2> HIDE DEF c
  <2> QED BY <2>1, <2>2, UpdatedOK
<1> QED BY <1>1, <1>2

LEMMA SetPolkitActionOK ==
    ASSUME NEW b \in Buttons, NEW asks \in BOOLEAN, NEW answer \in Results
    PROVE  /\ SetPolkitAction(b, asks, answer) \in Buttons
           /\ Sound(b) => Sound(SetPolkitAction(b, asks, answer))
           /\ Exact(b) => Exact(SetPolkitAction(b, asks, answer))
           /\ SetPolkitAction(b, asks, answer).asks = asks
           /\ SetPolkitAction(b, asks, answer).master = b.master
           /\ Fresh(b, answer) => Fresh(SetPolkitAction(b, asks, answer), answer)
<1>1. CASE b.asks = asks
      BY <1>1 DEF SetPolkitAction
<1>2. CASE b.asks # asks
  <2> DEFINE c == [b EXCEPT !.asks = asks]
             d == Computed(c, answer)
  <2>1. c \in Buttons /\ c.asks = asks /\ c.master = b.master
        BY DEF Buttons
  <2>2. SetPolkitAction(b, asks, answer) = Updated(d)
        BY <1>2 DEF SetPolkitAction
  <2> HIDE DEF c
  <2>3. d \in Buttons /\ Fresh(d, answer) /\ d.asks = asks /\ d.master = b.master
        BY <2>1, ComputedOK
  <2> HIDE DEF d
  <2>4. /\ Updated(d) \in Buttons
        /\ Sound(Updated(d)) /\ Exact(Updated(d))
        /\ Updated(d).asks = asks
        /\ Updated(d).result = d.result
        /\ Updated(d).master = b.master
        BY <2>3, UpdatedOK
  <2> QED BY <2>2, <2>3, <2>4 DEF Fresh
<1> QED BY <1>1, <1>2

HIDE DEF Results

-----------------------------------------------------------------------------
(* The tree.                                                               *)

Closed(rs) == rs \subseteq Actions \cup Namespaces /\ \A r \in rs : Above[r] \subseteq rs

Complete(policy) == Installed(policy) \cup UNION {Above[a] : a \in Installed(policy)}

LEMMA CompleteClosed == \A policy \in Policies : Closed(Complete(policy))
BY DEF Closed, Complete, Installed

(* Rebuilding a tree in which nothing hangs in the air gives the same tree *)
(* as building one from nothing.                                           *)
LEMMA TreeOK ==
    ASSUME NEW rs, Closed(rs), NEW policy \in Policies
    PROVE  UpdateActionTree(rs, policy) = Complete(policy)
<1>1. UpdateActionTree(rs, policy) \subseteq Complete(policy)
      BY DEF UpdateActionTree, Culled, Complete
<1>2. Installed(policy) \subseteq UpdateActionTree(rs, policy)
      BY DEF UpdateActionTree, Culled, Inserted, Installed
<1>3. ASSUME NEW a \in Installed(policy), NEW n \in Above[a]
      PROVE  n \in UpdateActionTree(rs, policy)
  <2>1. a \in Actions /\ n \in Namespaces /\ n \notin Actions
        BY DEF Installed
  <2>2. n \in Inserted(rs, policy)
    <3>1. CASE a \in rs
          BY <3>1 DEF Closed, Inserted
    <3>2. CASE a \notin rs /\ n \in NewNamespaces(a, rs)
          BY <3>2 DEF Inserted
    <3>3. CASE n \notin NewNamespaces(a, rs)
          BY <3>3 DEF NewNamespaces, Closed, Inserted
    <3> QED BY <3>1, <3>2, <3>3
  <2> QED BY <2>1, <2>2 DEF UpdateActionTree, Culled
<1> QED BY <1>1, <1>2, <1>3 DEF Complete

-----------------------------------------------------------------------------
(* The summary and the buttons.                                            *)

LEMMA UpdateAuthlistOK ==
    ASSUME permit["revoke"] \in Results, NEW b \in Buttons, NEW x \in Auths \cup {NoAuth}
    PROVE  /\ UpdateAuthlist(b, x) \in Buttons
           /\ UpdateAuthlist(b, x).master <=> x # NoAuth
           /\ x # NoAuth => (UpdateAuthlist(b, x).asks <=> NeedsRevoke(x))
           /\ Exact(b) => Exact(UpdateAuthlist(b, x))
           /\ Fresh(b, permit["revoke"]) => Fresh(UpdateAuthlist(b, x), permit["revoke"])
<1>1. CASE x = NoAuth
      BY <1>1, SetSensitiveOK DEF UpdateAuthlist, Fresh
<1>2. CASE x # NoAuth
  <2> DEFINE s == SetSensitive(b, TRUE)
  <2>1. /\ s \in Buttons /\ s.master
        /\ Exact(b) => Exact(s)
        /\ Fresh(b, permit["revoke"]) => Fresh(s, permit["revoke"])
        BY SetSensitiveOK DEF Fresh
  <2>2. UpdateAuthlist(b, x) = SetPolkitAction(s, NeedsRevoke(x), permit["revoke"])
        BY <1>2 DEF UpdateAuthlist
  <2>3. NeedsRevoke(x) \in BOOLEAN
        BY DEF NeedsRevoke
  <2> HIDE DEF s
  <2> QED BY <1>2, <2>1, <2>2, <2>3, SetPolkitActionOK
<1> QED BY <1>1, <1>2

LEMMA ListingType == db \subseteq Auths => \A row, all : Listing(row, all) \subseteq Auths
BY DEF Listing

LEMMA DefaultsOfType ==
    \A policy \in Policies : \A row : DefaultsOf(policy, row) \in Defaults \cup {NotInstalled}
BY DEF DefaultsOf, Policies

LEMMA UpdateSummaryOK ==
    ASSUME TypeOK, NEW row \in Actions \cup Namespaces \cup {NoRow},
           NEW policy \in Policies,
           NEW rvk \in Buttons, NEW rvt \in Buttons,
           UpdateSummary(row, policy, rvk, rvt)
    PROVE  /\ summary' \in Summaries
           /\ summary'.row = row
           /\ summary'.defaults = DefaultsOf(policy, row)
           /\ summary'.listed = Listing(row, readable)
           /\ authCursor' \in summary'.listed \cup {NoAuth}
           /\ authCursor' = NoAuth <=> summary'.listed = {}
           /\ revoke' \in Buttons
           /\ revoke'.master <=> authCursor' # NoAuth
           /\ authCursor' # NoAuth => (revoke'.asks <=> NeedsRevoke(authCursor'))
           /\ Exact(rvk) => Exact(revoke')
           /\ Fresh(rvk, permit["revoke"]) => Fresh(revoke', permit["revoke"])
           /\ revert' \in Buttons
           /\ revert'.asks = rvt.asks
           /\ revert'.master <=> Offers(row, policy)
           /\ Exact(rvt) => Exact(revert')
           /\ Fresh(rvt, permit["modify"]) => Fresh(revert', permit["modify"])
<1>1. summary' = [row |-> row, defaults |-> DefaultsOf(policy, row), listed |-> Listing(row, readable)]
      BY DEF UpdateSummary
<1>2. Listing(row, readable) \subseteq Auths /\ DefaultsOf(policy, row) \in Defaults \cup {NotInstalled}
      BY ListingType, DefaultsOfType DEF TypeOK
<1>3. /\ summary' \in Summaries /\ summary'.row = row
      /\ summary'.defaults = DefaultsOf(policy, row)
      /\ summary'.listed = Listing(row, readable)
      BY <1>1, <1>2 DEF Summaries
<1>4. revert' = SetSensitive(rvt, Offers(row, policy))
      BY DEF UpdateSummary, Offers
<1>5. Offers(row, policy) \in BOOLEAN
      BY DEF Offers
<1>6. /\ revert' \in Buttons /\ revert'.asks = rvt.asks
      /\ revert'.master <=> Offers(row, policy)
      /\ Exact(rvt) => Exact(revert')
      /\ Fresh(rvt, permit["modify"]) => Fresh(revert', permit["modify"])
      BY <1>4, <1>5, SetSensitiveOK DEF Fresh
<1>7. summary.listed \subseteq Auths /\ permit["revoke"] \in Results
      BY DEF TypeOK
<1>8. PICK passed \in summary.listed \cup {NoAuth},
           one \in IF summary'.listed = {} THEN {NoAuth} ELSE summary'.listed :
           authCursor' = one /\ revoke' = UpdateAuthlist(UpdateAuthlist(rvk, passed), one)
      BY DEF UpdateSummary
<1>9. /\ one \in summary'.listed \cup {NoAuth} /\ one \in Auths \cup {NoAuth}
      /\ one = NoAuth <=> summary'.listed = {}
      BY <1>2, <1>3
<1> DEFINE mid == UpdateAuthlist(rvk, passed)
<1>10. /\ mid \in Buttons
       /\ Exact(rvk) => Exact(mid)
       /\ Fresh(rvk, permit["revoke"]) => Fresh(mid, permit["revoke"])
       BY <1>7, UpdateAuthlistOK
<1>11. revoke' = UpdateAuthlist(mid, one)
       BY <1>8
<1> HIDE DEF mid
<1>12. /\ revoke' \in Buttons
       /\ revoke'.master <=> one # NoAuth
       /\ one # NoAuth => (revoke'.asks <=> NeedsRevoke(one))
       /\ Exact(rvk) => Exact(revoke')
       /\ Fresh(rvk, permit["revoke"]) => Fresh(revoke', permit["revoke"])
       BY <1>7, <1>9, <1>10, <1>11, UpdateAuthlistOK
<1> QED BY <1>3, <1>6, <1>8, <1>9, <1>12

-----------------------------------------------------------------------------
(* The invariant.                                                          *)

LEMMA InitOK == Init => IInv
<1> SUFFICES ASSUME Init PROVE IInv
    OBVIOUS
<1>1. Closed({}) /\ known \in Policies
      BY DEF Closed, Init
<1>2. rows = Complete(known)
      BY <1>1, TreeOK DEF Init
<1>3. /\ revoke \in Buttons /\ revert \in Buttons /\ revert.asks
      /\ ~revoke.master /\ ~revert.master /\ Exact(revoke) /\ Exact(revert)
      /\ Fresh(revoke, permit["revoke"]) /\ Fresh(revert, permit["modify"])
  <2>1. permit["revoke"] \in Results /\ permit["modify"] \in Results
        BY DEF Init
  <2> QED BY <2>1, NewButtonOK DEF Init
<1>4. rows \subseteq Actions \cup Namespaces
      BY <1>2 DEF Complete, Installed
<1>5. TypeOK
      BY <1>3, <1>4 DEF Init, TypeOK
<1>6. TreeComplete
      BY <1>2 DEF TreeComplete, Complete
<1>7. Listing(NoRow, readable) = {}
      BY DEF Listing, Init, AuthRecords
<1>8. Shown /\ Signalled
      BY <1>3, <1>7 DEF Init, Shown, Signalled, Offers, DefaultsOf
<1> QED BY <1>5, <1>6, <1>8 DEF IInv

(* A step that leaves the tree, the list and the cursors alone, and either *)
(* changes nothing a signal would tell or is followed by one.              *)
LEMMA BehindOK ==
    ASSUME IInv, UNCHANGED <<treeVars, listVars>>,
           installed' \in Policies, db' \subseteq Auths,
           permit' \in [Tools -> Results], readable' \in BOOLEAN,
           noted' \in 0..Burst,
           calls' \in [Pending -> Calls \cup {NoCall}],
           did' \in Acts \cup {NoAct},
           revoke' \in Buttons, revert' \in Buttons,
           revoke'.asks = revoke.asks, revoke'.master = revoke.master,
           revert'.asks = revert.asks, revert'.master = revert.master,
           noted' = 0 => noted = 0 /\ UNCHANGED <<worldVars, revoke, revert>>
    PROVE  IInv'
<1> USE DEF IInv, treeVars, listVars
<1>1. TypeOK'
      BY DEF TypeOK
<1>2. TreeComplete'
      BY DEF TreeComplete, Installed
<1>3. Shown'
      BY DEF Shown, Offers, DefaultsOf, NeedsRevoke
<1>4. Signalled'
      BY DEF Signalled, worldVars, Listing
<1> QED BY <1>1, <1>2, <1>3, <1>4

LEMMA NotedOK ==
    ASSUME noted \in 0..Burst
    PROVE  /\ OthersChange => noted' \in 0..Burst /\ noted' # 0
           /\ Changes => noted' \in 0..Burst /\ noted' # 0
BY DEF OthersChange, Changes

LEMMA WorldOK == IInv /\ World => IInv'
<1> SUFFICES ASSUME IInv, World PROVE IInv'
    OBVIOUS
<1>0. TypeOK /\ noted \in 0..Burst
      BY DEF IInv, TypeOK
<1>1. ASSUME NEW a \in Actions, NEW d \in Defaults \cup {NotInstalled}, DefaultsChanged(a, d)
      PROVE  IInv'
      BY <1>0, <1>1, NotedOK, BehindOK DEF DefaultsChanged, TypeOK, Policies
<1>2. ASSUME NEW x \in Auths, AuthChanged(x) PROVE IInv'
  <2>1. db' \subseteq Auths
        BY <1>0, <1>2 DEF AuthChanged, TypeOK
  <2> QED BY <1>0, <1>2, <2>1, NotedOK, BehindOK DEF AuthChanged, TypeOK
<1>3. ASSUME NEW t \in Tools, NEW r \in Results, PermitChanged(t, r) PROVE IInv'
  <2>1. permit' \in [Tools -> Results]
        BY <1>0, <1>3 DEF PermitChanged, TypeOK
  <2> QED BY <1>0, <1>3, <2>1, NotedOK, BehindOK DEF PermitChanged, TypeOK
<1>4. CASE ReadableChanged
      BY <1>0, <1>4, NotedOK, BehindOK DEF ReadableChanged, TypeOK
<1>5. ASSUME NEW c \in Pending, NEW outcome \in {"gained", "refused"}, AgentAnswers(c, outcome)
      PROVE  IInv'
  <2>1. calls[c] \in Calls /\ calls[c].tool \in Tools
        BY <1>0, <1>5 DEF AgentAnswers, TypeOK, Calls
  <2>2. [calls[c] EXCEPT !.outcome = outcome] \in Calls
        BY <2>1 DEF Calls
  <2>3. calls' \in [Pending -> Calls \cup {NoCall}]
        BY <1>0, <1>5, <2>2 DEF AgentAnswers, TypeOK
  <2>4. permit' \in [Tools -> Results]
        BY <1>0, <1>5, <2>1 DEF AgentAnswers, TypeOK, Results
  <2>5. /\ noted' \in 0..Burst
        /\ noted' = 0 => noted = 0 /\ permit' = permit
    <3>1. CASE outcome = "gained" /\ permit[calls[c].tool] # "yes"
          BY <1>0, <1>5, <3>1, NotedOK DEF AgentAnswers
    <3>2. CASE outcome = "gained" /\ permit[calls[c].tool] = "yes"
          BY <1>0, <1>5, <2>1, <3>2 DEF AgentAnswers, TypeOK
    <3>3. CASE outcome # "gained"
          BY <1>0, <1>5, <3>3 DEF AgentAnswers
    <3> QED BY <3>1, <3>2, <3>3
  <2> QED BY <1>0, <1>5, <2>3, <2>4, <2>5, BehindOK DEF AgentAnswers, TypeOK, worldVars
<1> QED BY <1>1, <1>2, <1>3, <1>4, <1>5 DEF World

LEMMA ConfigChangedOK == IInv /\ ConfigChanged => IInv'
<1> SUFFICES ASSUME IInv, ConfigChanged PROVE IInv'
    OBVIOUS
<1> DEFINE rvk == Recomputed(revoke, "revoke")
           rvt == Recomputed(revert, "modify")
<1>0. TypeOK /\ installed \in Policies /\ readable \in BOOLEAN
      BY DEF IInv, TypeOK
<1>1. /\ rvk \in Buttons /\ Exact(rvk) /\ Fresh(rvk, permit["revoke"])
      /\ rvt \in Buttons /\ Exact(rvt) /\ Fresh(rvt, permit["modify"])
      /\ rvt.asks = revert.asks
  <2> DEFINE a == Computed(revoke, permit["revoke"])
             b == Computed(revert, permit["modify"])
  <2>1. /\ a \in Buttons /\ Fresh(a, permit["revoke"])
        /\ b \in Buttons /\ Fresh(b, permit["modify"]) /\ b.asks = revert.asks
        BY <1>0, ComputedOK DEF TypeOK
  <2>2. rvk = Updated(a) /\ rvt = Updated(b)
        BY DEF Recomputed
  <2> HIDE DEF a, b, rvk, rvt
  <2> QED BY <2>1, <2>2, UpdatedOK DEF Fresh
<1> HIDE DEF rvk, rvt
<1>2. Closed(rows)
      BY CompleteClosed DEF IInv, TreeComplete, Complete, TypeOK
<1>3. rows' = Complete(installed) /\ known' = installed
      BY <1>0, <1>2, TreeOK DEF ConfigChanged
<1>4. rows' \subseteq Actions \cup Namespaces
      BY <1>3 DEF Complete, Installed
<1>5. cursor' \in rows' \cup {NoRow} /\ cursor' \in Actions \cup Namespaces \cup {NoRow}
      BY <1>0, <1>4 DEF ConfigChanged, TypeOK
<1>6. UpdateSummary(cursor', installed, rvk, rvt)
      BY DEF ConfigChanged, rvk, rvt
<1>7. /\ summary' \in Summaries
      /\ summary'.row = cursor'
      /\ summary'.defaults = DefaultsOf(installed, cursor')
      /\ summary'.listed = Listing(cursor', readable)
      /\ authCursor' \in summary'.listed \cup {NoAuth}
      /\ authCursor' = NoAuth <=> summary'.listed = {}
      /\ revoke' \in Buttons
      /\ revoke'.master <=> authCursor' # NoAuth
      /\ authCursor' # NoAuth => (revoke'.asks <=> NeedsRevoke(authCursor'))
      /\ Exact(revoke')
      /\ Fresh(revoke', permit["revoke"])
      /\ revert' \in Buttons
      /\ revert'.asks = rvt.asks
      /\ revert'.master <=> Offers(cursor', installed)
      /\ Exact(revert')
      /\ Fresh(revert', permit["modify"])
      BY <1>0, <1>1, <1>5, <1>6, UpdateSummaryOK
<1>8. /\ UNCHANGED <<installed, db, permit, readable, calls>>
      /\ known' = installed /\ noted' = 0 /\ did' = NoAct
      BY DEF ConfigChanged, worldVars
<1>9. TypeOK'
      BY <1>0, <1>4, <1>5, <1>7, <1>8 DEF TypeOK, Summaries
<1>10. TreeComplete'
       BY <1>3 DEF TreeComplete, Complete, Installed
<1>11. Shown'
       BY <1>1, <1>7, <1>8 DEF IInv, Shown, Offers, DefaultsOf, NeedsRevoke
<1>12. Signalled'
       BY <1>7, <1>8 DEF Signalled, Listing, Exact, Fresh
<1> QED BY <1>9, <1>10, <1>11, <1>12 DEF IInv

LEMMA ActionTreeChangedOK ==
    ASSUME IInv, NEW row \in Actions \cup Namespaces, ActionTreeChanged(row)
    PROVE  IInv'
<1>0. /\ TypeOK /\ known \in Policies
      /\ revoke \in Buttons /\ revert \in Buttons
      BY DEF IInv, TypeOK
<1>1. UpdateSummary(row, known, revoke, revert)
      BY DEF ActionTreeChanged
<1>2. /\ summary' \in Summaries
      /\ summary'.row = row
      /\ summary'.defaults = DefaultsOf(known, row)
      /\ summary'.listed = Listing(row, readable)
      /\ authCursor' \in summary'.listed \cup {NoAuth}
      /\ authCursor' = NoAuth <=> summary'.listed = {}
      /\ revoke' \in Buttons
      /\ revoke'.master <=> authCursor' # NoAuth
      /\ authCursor' # NoAuth => (revoke'.asks <=> NeedsRevoke(authCursor'))
      /\ Exact(revoke) => Exact(revoke')
      /\ Fresh(revoke, permit["revoke"]) => Fresh(revoke', permit["revoke"])
      /\ revert' \in Buttons
      /\ revert'.asks = revert.asks
      /\ revert'.master <=> Offers(row, known)
      /\ Exact(revert) => Exact(revert')
      /\ Fresh(revert, permit["modify"]) => Fresh(revert', permit["modify"])
      BY <1>0, <1>1, UpdateSummaryOK
<1>3. /\ UNCHANGED <<installed, db, permit, readable, noted, known, rows, calls>>
      /\ row \in rows /\ cursor' = row /\ did' = NoAct
      BY DEF ActionTreeChanged, worldVars
<1>4. TypeOK'
      BY <1>0, <1>2, <1>3 DEF TypeOK, Summaries
<1>5. TreeComplete'
      BY <1>3 DEF IInv, TreeComplete, Installed
<1>6. Shown'
      BY <1>2, <1>3 DEF IInv, Shown, Offers, DefaultsOf, NeedsRevoke
<1>7. Signalled'
      BY <1>2, <1>3 DEF IInv, Signalled, Listing, Exact, Fresh
<1> QED BY <1>4, <1>5, <1>6, <1>7 DEF IInv

LEMMA AuthlistChangedOK ==
    ASSUME IInv, NEW x \in Auths, AuthlistChanged(x)
    PROVE  IInv'
<1>0. /\ TypeOK /\ revoke \in Buttons /\ permit["revoke"] \in Results /\ x # NoAuth
      BY DEF IInv, TypeOK
<1>1. /\ revoke' \in Buttons /\ revoke'.master
      /\ revoke'.asks <=> NeedsRevoke(x)
      /\ Exact(revoke) => Exact(revoke')
      /\ Fresh(revoke, permit["revoke"]) => Fresh(revoke', permit["revoke"])
      BY <1>0, UpdateAuthlistOK DEF AuthlistChanged
<1>2. /\ UNCHANGED <<installed, db, permit, readable, noted, known, rows, cursor, summary, revert, calls>>
      /\ x \in summary.listed /\ authCursor' = x /\ did' = NoAct
      BY DEF AuthlistChanged, worldVars, treeVars
<1>3. TypeOK'
      BY <1>0, <1>1, <1>2 DEF TypeOK
<1>4. TreeComplete'
      BY <1>2 DEF IInv, TreeComplete, Installed
<1>5. Shown'
      BY <1>0, <1>1, <1>2 DEF IInv, Shown, Offers, DefaultsOf, NeedsRevoke
<1>6. Signalled'
      BY <1>1, <1>2 DEF IInv, Signalled, Listing, Exact, Fresh
<1> QED BY <1>3, <1>4, <1>5, <1>6 DEF IInv

LEMMA TargetType == TypeOK => \A t \in Tools : Target(t) \subseteq Auths \cup Actions
BY DEF TypeOK, Target, Installed

LEMMA ActivateOK ==
    ASSUME TypeOK, NEW t \in Tools, Activate(t)
    PROVE  /\ installed' \in Policies /\ db' \subseteq Auths
           /\ did' \in Acts \cup {NoAct}
           /\ noted' \in 0..Burst
           /\ noted' = 0 => noted = 0 /\ UNCHANGED <<installed, db>>
<1>1. CASE Target(t) = {}
      BY <1>1 DEF Activate, TypeOK
<1>2. CASE Target(t) # {}
  <2>1. PICK x \in Target(t) :
          /\ did' = [tool |-> t, item |-> x, allowed |-> Allowed(t, x)]
          /\ db' = IF Allowed(t, x) /\ t = "revoke" THEN db \ {x} ELSE db
          /\ installed' = IF Allowed(t, x) /\ t = "modify" /\ installed[x] # NotInstalled
                          THEN [installed EXCEPT ![x] = Factory[x]] ELSE installed
          /\ IF db' # db \/ installed' # installed THEN Changes ELSE UNCHANGED noted
        BY <1>2 DEF Activate
  <2>2. x \in Auths \cup Actions /\ Allowed(t, x) \in BOOLEAN
        BY TargetType DEF Allowed, NeedsRevoke
  <2>3. did' \in Acts
        BY <2>1, <2>2 DEF Acts
  <2>4. db' \subseteq Auths
        BY <2>1 DEF TypeOK
  <2>5. installed' \in Policies
    <3>1. t = "modify" => x \in Actions
          BY DEF Target, Installed
    <3> QED BY <2>1, <3>1 DEF TypeOK, Policies
  <2>6. noted' \in 0..Burst /\ (noted' = 0 => noted = 0 /\ UNCHANGED <<installed, db>>)
        BY <2>1, NotedOK DEF TypeOK
  <2> QED BY <2>3, <2>4, <2>5, <2>6
<1> QED BY <1>1, <1>2

LEMMA AuthStartOK ==
    ASSUME NEW t \in Tools, NEW x \in Auths \cup Actions, NEW c \in Pending,
           NEW cs \in [Pending -> Calls \cup {NoCall}], AuthStart(t, x, cs, c)
    PROVE  calls' \in [Pending -> Calls \cup {NoCall}]
<1>1. [tool |-> t, item |-> x, outcome |-> "asked"] \in Calls
      BY DEF Calls
<1> QED BY <1>1 DEF AuthStart

LEMMA ClicksOK ==
    ASSUME IInv, NEW t \in Tools
    PROVE  /\ \A c \in Pending : ClickAsks(t, c) => IInv'
           /\ ClickActs(t) => IInv'
<1>0. TypeOK
      BY DEF IInv
<1>1. ASSUME NEW c \in Pending, ClickAsks(t, c) PROVE IInv'
  <2>1. calls' \in [Pending -> Calls \cup {NoCall}]
        BY <1>0, <1>1, TargetType, AuthStartOK DEF ClickAsks, TypeOK
  <2> QED BY <1>0, <1>1, <2>1, BehindOK DEF ClickAsks, TypeOK, worldVars
<1>2. CASE ClickActs(t)
      BY <1>0, <1>2, ActivateOK, BehindOK DEF ClickActs, TypeOK, worldVars
<1> QED BY <1>1, <1>2

LEMMA GainedOK ==
    ASSUME IInv, NEW c \in Pending, Gained(c)
    PROVE  IInv'
<1> DEFINE t == calls[c].tool
           b == Computed(Button(t), permit[t])
           without == [calls EXCEPT ![c] = NoCall]
<1>1. TypeOK /\ t \in Tools
      BY DEF IInv, TypeOK, Gained, Calls
<1>2. Button(t) \in Buttons /\ permit[t] \in Results
      BY <1>1 DEF TypeOK, Button
<1>3. /\ b \in Buttons /\ b.asks = Button(t).asks /\ b.master = Button(t).master
      BY <1>2, ComputedOK
<1>4. noted = 0 => b = Button(t)
  <2>1. noted = 0 => Fresh(Button(t), permit[t])
        BY <1>1 DEF IInv, Signalled, Button
  <2> QED BY <1>2, <2>1 DEF Computed, Fresh, Buttons
<1>5. /\ revoke' = IF t = "revoke" THEN b ELSE revoke
      /\ revert' = IF t = "modify" THEN b ELSE revert
      /\ \/ /\ ~b.sensitive
            /\ calls' = without /\ did' = NoAct
            /\ UNCHANGED <<installed, db, noted>>
         \/ /\ b.sensitive /\ b.result = "auth"
            /\ \E x \in Target(t) : AuthStart(t, x, without, c)
            /\ did' = NoAct
            /\ UNCHANGED <<installed, db, noted>>
         \/ /\ b.sensitive /\ b.result # "auth"
            /\ calls' = without
            /\ Activate(t)
      /\ UNCHANGED <<permit, readable, treeVars, listVars>>
      BY DEF Gained
<1>6. without \in [Pending -> Calls \cup {NoCall}]
      BY <1>1 DEF TypeOK
<1> HIDE DEF t, b, without
<1>7. /\ revoke' \in Buttons /\ revoke'.asks = revoke.asks /\ revoke'.master = revoke.master
      /\ revert' \in Buttons /\ revert'.asks = revert.asks /\ revert'.master = revert.master
      /\ noted = 0 => UNCHANGED <<revoke, revert>>
      BY <1>1, <1>3, <1>4, <1>5 DEF Button, TypeOK
<1>8. calls' \in [Pending -> Calls \cup {NoCall}]
      BY <1>1, <1>5, <1>6, TargetType, AuthStartOK
<1>9. /\ installed' \in Policies /\ db' \subseteq Auths
      /\ did' \in Acts \cup {NoAct}
      /\ noted' \in 0..Burst
      /\ noted' = 0 => noted = 0 /\ UNCHANGED <<installed, db>>
      BY <1>1, <1>5, ActivateOK DEF TypeOK
<1> QED BY <1>1, <1>5, <1>7, <1>8, <1>9, BehindOK DEF TypeOK, worldVars

LEMMA NextOK == IInv /\ [Next]_vars => IInv'
<1> SUFFICES ASSUME IInv, [Next]_vars PROVE IInv'
    OBVIOUS
<1>0. TypeOK
      BY DEF IInv
<1>1. CASE World
      BY <1>1, WorldOK
<1>2. CASE ConfigChanged
      BY <1>2, ConfigChangedOK
<1>3. ASSUME NEW row \in Actions \cup Namespaces, ActionTreeChanged(row) PROVE IInv'
      BY <1>3, ActionTreeChangedOK
<1>4. ASSUME NEW x \in Auths, AuthlistChanged(x) PROVE IInv'
      BY <1>4, AuthlistChangedOK
<1>5. ASSUME NEW t \in Tools, NEW c \in Pending, ClickAsks(t, c) PROVE IInv'
      BY <1>5, ClicksOK
<1>6. ASSUME NEW t \in Tools, ClickActs(t) PROVE IInv'
      BY <1>6, ClicksOK
<1>7. ASSUME NEW c \in Pending, Refused(c) PROVE IInv'
      BY <1>0, <1>7, BehindOK DEF Refused, TypeOK, worldVars
<1>8. ASSUME NEW c \in Pending, Gained(c) PROVE IInv'
      BY <1>8, GainedOK
<1>9. CASE UNCHANGED vars
      BY <1>0, <1>9, BehindOK DEF vars, worldVars, treeVars, listVars, TypeOK
<1> QED BY <1>1, <1>2, <1>3, <1>4, <1>5, <1>6, <1>7, <1>8, <1>9 DEF Next

(* The invariant holds in every reachable state. *)
THEOREM Invariance == Spec => []IInv
BY InitOK, NextOK, PTL DEF Spec

-----------------------------------------------------------------------------
(* What follows.                                                           *)

(* The variables have their types and the cursors are on what is there. *)
THEOREM TypeCorrect == Spec => []TypeOK
<1>1. IInv => TypeOK
      BY DEF IInv
<1> QED BY <1>1, Invariance, PTL

(* However the policy changes, the tree has the rows that a tree built     *)
(* from nothing would have.                                                *)
THEOREM TreeIsComplete == Spec => []TreeComplete
<1>1. IInv => TreeComplete
      BY DEF IInv
<1> QED BY <1>1, Invariance, PTL

(* Once every change was signalled the window shows what is. *)
THEOREM ShowsTruth == Spec => []ShowsWhatIs
<1>1. IInv => ShowsWhatIs
  <2> SUFFICES ASSUME IInv, noted = 0
               PROVE  /\ summary.row = cursor
                      /\ summary.defaults = DefaultsOf(installed, cursor)
                      /\ summary.listed = Listing(cursor, readable)
                      /\ authCursor = NoAuth <=> summary.listed = {}
                      /\ revert.sensitive <=>
                            /\ cursor \in Actions /\ installed[cursor] # Factory[cursor]
                            /\ permit["modify"] # "no"
                      /\ revoke.sensitive <=>
                            /\ authCursor # NoAuth
                            /\ NeedsRevoke(authCursor) => permit["revoke"] # "no"
      BY DEF ShowsWhatIs
  <2> USE DEF IInv
  <2>1. known = installed
        BY DEF Signalled
  <2>2. cursor \in Actions => installed[cursor] # NotInstalled
    <3>1. cursor \in Actions => cursor \in Installed(installed)
          BY <2>1 DEF TypeOK, TreeComplete, Installed
    <3> QED BY <3>1 DEF Installed
  <2>3. revert.sensitive <=> Offers(cursor, installed) /\ permit["modify"] # "no"
        BY <2>1 DEF Shown, Signalled, Exact, Fresh
  <2>4. revoke.sensitive <=> authCursor # NoAuth /\ (NeedsRevoke(authCursor) => permit["revoke"] # "no")
        BY DEF Shown, Signalled, Exact, Fresh
  <2> QED BY <2>1, <2>2, <2>3, <2>4 DEF Shown, Signalled, Offers
<1> QED BY <1>1, Invariance, PTL

(* Whatever is done, is done by a click or after an authentication, with   *)
(* a result that does not call for asking.                                 *)
LEMMA ActSteps ==
    ASSUME Next, did' # NoAct
    PROVE  \/ \E t \in Tools : ClickActs(t)
           \/ \E c \in Pending : Gained(c)
<1>1. ~World
      BY DEF World, DefaultsChanged, AuthChanged, PermitChanged, ReadableChanged, AgentAnswers
<1>2. ~ \/ ConfigChanged
        \/ \E row \in Actions \cup Namespaces : ActionTreeChanged(row)
        \/ \E x \in Auths : AuthlistChanged(x)
        \/ \E t \in Tools, c \in Pending : ClickAsks(t, c)
        \/ \E c \in Pending : Refused(c)
      BY DEF ConfigChanged, ActionTreeChanged, AuthlistChanged, ClickAsks, Refused
<1> QED BY <1>1, <1>2 DEF Next

(* A button that knows what PolicyKit answers, and has nothing to ask for, *)
(* is not refused for want of an authentication.                           *)
LEMMA FreshActs ==
    ASSUME IInv, NEW t \in Tools, NEW b \in Buttons, Fresh(b, permit[t]), b.result # "auth",
           b.asks = Button(t).asks, Activate(t), did' # NoAct, ~did'.allowed
    PROVE  permit[did'.tool] = "no"
<1>0. TypeOK
      BY DEF IInv
<1>1. PICK x \in Target(t) : did' = [tool |-> t, item |-> x, allowed |-> Allowed(t, x)]
      BY DEF Activate
<1>2. did'.tool = t /\ ~Allowed(t, x)
      BY <1>1
<1>3. permit[t] # "yes" /\ (t = "revoke" => NeedsRevoke(x))
      BY <1>2 DEF Allowed
<1>4. t = "revoke" => x = authCursor /\ authCursor # NoAuth
      BY DEF Target
<1>5. b.asks
      BY <1>3, <1>4 DEF IInv, Shown, Button
<1>6. permit[t] \in Results /\ permit[t] # "auth"
      BY <1>0, <1>5 DEF TypeOK, Fresh
<1> QED BY <1>2, <1>3, <1>6 DEF Results

(* What needs an authentication is not tried unasked, wherever the cursors *)
(* are, unless a change was not signalled yet.                             *)
THEOREM AlwaysAsksFirst == Spec => AsksFirst
<1>1. IInv /\ [Next]_vars
      => [did' # NoAct /\ ~did'.allowed => noted > 0 \/ permit[did'.tool] = "no"]_vars
  <2> SUFFICES ASSUME IInv, Next, did' # NoAct, ~did'.allowed, ~(noted > 0)
               PROVE  permit[did'.tool] = "no"
      OBVIOUS
  <2>1. TypeOK /\ noted = 0
        BY DEF IInv, TypeOK
  <2>2. ASSUME NEW t \in Tools, ClickActs(t) PROVE permit[did'.tool] = "no"
    <3>1. /\ Button(t) \in Buttons /\ Fresh(Button(t), permit[t])
          /\ Button(t).result # "auth" /\ Activate(t)
          BY <2>1, <2>2 DEF IInv, TypeOK, Signalled, Button, ClickActs
    <3> QED BY <3>1, FreshActs
  <2>3. ASSUME NEW c \in Pending, Gained(c) PROVE permit[did'.tool] = "no"
    <3> DEFINE t == calls[c].tool
               b == Computed(Button(t), permit[t])
    <3>1. t \in Tools
          BY <2>1, <2>3 DEF TypeOK, Gained, Calls
    <3>2. Button(t) \in Buttons /\ permit[t] \in Results
          BY <2>1, <3>1 DEF TypeOK, Button
    <3>3. b \in Buttons /\ Fresh(b, permit[t]) /\ b.asks = Button(t).asks
          BY <3>2, ComputedOK
    <3>4. b.result # "auth" /\ Activate(t)
          BY <2>3 DEF Gained
    <3> HIDE DEF t, b
    <3> QED BY <3>1, <3>3, <3>4, FreshActs
  <2> QED BY <2>2, <2>3, ActSteps
<1> QED BY <1>1, Invariance, PTL DEF Spec, AsksFirst
================================================================================
