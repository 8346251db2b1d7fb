-------------------------- MODULE QDBusConnections ---------------------------
(***************************************************************************)
(* The connections of the D-Bus bindings for Qt 3 (dbus-qt3-backport:      *)
(* qdbusconnection.cpp, qdbusintegrator.cpp).  A program holds             *)
(* QDBusConnection handles; each points to a QDBusConnectionPrivate, which *)
(* is counted, and which the manager also keeps under a name until the     *)
(* name is closed.  libdbus has one shared connection per bus, gives it to *)
(* whoever asks, never closes it, and calls back into the private that     *)
(* last installed its watch functions and into every private that added a  *)
(* filter.  The private listens to the socket with a QSocketNotifier, for  *)
(* which there must be a QApplication: a watcher made before it waits      *)
(* until the program calls qDBusBindToApplication, which it does once for  *)
(* the application it created.  closeConnection of a name nobody added,    *)
(* which dereferences a null pointer when it is the default name, is left  *)
(* out.                                                                    *)
(***************************************************************************)
EXTENDS Naturals, Sequences, FiniteSets

CONSTANTS
    Handle,    \* the QDBusConnection variables of the program
    Private,   \* the QDBusConnectionPrivate objects
    Name,      \* the connection names
    Bus,       \* the buses
    NoPriv,    \* a null pointer
    NoBus

ASSUME ConstantsOK == NoPriv \notin Private /\ NoBus \notin Bus

VARIABLES
    app,       \* no QApplication, one created, one the names were bound to; or crashed
    handles,   \* the handles constructed
    d,         \* the private each handle points to
    registry,  \* the private the manager has under each name
    ref,       \* the counter of each private
    life,      \* of each private
    connection,\* the libdbus connection of each private
    watcher,   \* what each private does about the socket of its connection
    owner,     \* whose watch functions libdbus has
    filters,   \* the privates that added qDBusSignalFilter, in order
    opened,    \* the bus each private was opened to, even if it failed since
    between,   \* those opened after the application was created, before it was bound
    closed     \* the privates whose name the program closed

handleVars == <<handles, d>>
libVars    == <<owner, filters>>
vars == <<app, handleVars, registry, ref, life, connection, watcher, libVars,
          opened, between, closed>>

Pointer == Private \cup {NoPriv}

(* Of the watchers of a private, one without notifiers waits, one with     *)
(* them listens, one that libdbus removed is still in the list, and one    *)
(* that was dropped is not, though its notifiers are there: what they      *)
(* report is read by nobody.                                               *)
Watchers == {"none", "waiting", "listening", "removed", "dropped"}

TypeOK ==
    /\ app \in {"none", "created", "bound", "crashed"}
    /\ handles \subseteq Handle
    /\ d \in [Handle -> Pointer]
    /\ registry \in [Name -> Pointer]
    /\ ref \in [Private -> Nat]
    /\ life \in [Private -> {"unborn", "live", "freed"}]
    /\ connection \in [Private -> Bus \cup {NoBus}]
    /\ watcher \in [Private -> Watchers]
    /\ owner \in [Bus -> Pointer]
    /\ filters \in [Bus -> Seq(Private)]
    /\ opened \in [Private -> Bus \cup {NoBus}]
    /\ between \subseteq Private
    /\ closed \subseteq Private

Init ==
    /\ app = "none"
    /\ handles = {}
    /\ d = [h \in Handle |-> NoPriv]
    /\ registry = [n \in Name |-> NoPriv]
    /\ ref = [p \in Private |-> 0]
    /\ life = [p \in Private |-> "unborn"]
    /\ connection = [p \in Private |-> NoBus]
    /\ watcher = [p \in Private |-> "none"]
    /\ owner = [b \in Bus |-> NoPriv]
    /\ filters = [b \in Bus |-> <<>>]
    /\ opened = [p \in Private |-> NoBus]
    /\ between = {}
    /\ closed = {}

-----------------------------------------------------------------------------
(* Counting: a private is deleted when its count comes to zero, and its    *)
(* notifiers with it; what libdbus knows of it stays.                      *)

One(condition) == IF condition THEN 1 ELSE 0

Counted(new, old) ==
    [p \in Private |-> ref[p] + One(p = new) - One(p = old)]

Unreferenced(count, old) == {p \in Private : p = old /\ count[p] = 0}

Free(P) ==
    /\ life' = [p \in Private |-> IF p \in P THEN "freed" ELSE life[p]]
    /\ connection' = [p \in Private |-> IF p \in P THEN NoBus ELSE connection[p]]
    /\ watcher' = [p \in Private |-> IF p \in P THEN "none" ELSE watcher[p]]

(* The handle h gets the value new; what it pointed to is let go.          *)
Point(h, new) ==
    /\ d' = [d EXCEPT ![h] = new]
    /\ ref' = Counted(new, d[h])
    /\ Free(Unreferenced(ref', d[h]))

-----------------------------------------------------------------------------
(* qDBusAddWatch and qDBusRemoveWatch as libdbus calls them when the watch *)
(* functions of its connection to b are replaced by those of p.  A watcher *)
(* that was dropped is not found.                                          *)

AddWatch == IF app = "none" THEN "waiting" ELSE "listening"

\* Mutant: the watches of the private that had the socket are left to it.
InstallBeside(p, b) ==
    /\ owner' = [owner EXCEPT ![b] = p]
    /\ opened' = [opened EXCEPT ![p] = b]
    /\ between' = IF app = "created" THEN between \cup {p} ELSE between
    /\ watcher' = [watcher EXCEPT ![p] = AddWatch]

InstallWatchFunctions(p, b) ==
    /\ owner' = [owner EXCEPT ![b] = p]
    /\ opened' = [opened EXCEPT ![p] = b]
    /\ between' = IF app = "created" THEN between \cup {p} ELSE between
    /\ watcher' = [q \in Private |->
                     IF q = p THEN AddWatch
                     ELSE IF q = owner[b] /\ watcher[q] \in {"waiting", "listening"} THEN "removed"
                     ELSE watcher[q]]

(* The bus refuses the match rule: the private is closed again, the watch  *)
(* functions stay.                                                         *)
SetConnectionRefused(p, b) ==
    /\ InstallWatchFunctions(p, b)
    /\ UNCHANGED <<connection, filters>>

\* Mutant: the filter goes to whoever had the watch functions.
FilterOfOwner(p, b) ==
    /\ InstallWatchFunctions(p, b)
    /\ connection' = [connection EXCEPT ![p] = b]
    /\ filters' = [filters EXCEPT ![b] =
                     IF owner[b] = NoPriv THEN @ ELSE Append(@, owner[b])]

SetConnection(p, b) ==
    /\ InstallWatchFunctions(p, b)
    /\ connection' = [connection EXCEPT ![p] = b]
    /\ filters' = [filters EXCEPT ![b] = Append(@, p)]

-----------------------------------------------------------------------------
(* The program.                                                            *)

(* A handle by a name the manager knows, QDBusConnection(name).            *)
ConstructByName(h, n) ==
    /\ h \notin handles
    /\ handles' = handles \cup {h}
    /\ Point(h, registry[n])
    /\ UNCHANGED <<app, registry, libVars, opened, between, closed>>

ConstructCopy(h, other) ==
    /\ h \notin handles
    /\ other \in handles
    /\ handles' = handles \cup {h}
    /\ Point(h, d[other])
    /\ UNCHANGED <<app, registry, libVars, opened, between, closed>>

\* Mutant: the value is copied and the shared object is not counted.
AssignPointer(h, other) ==
    /\ {h, other} \subseteq handles
    /\ d' = [d EXCEPT ![h] = d[other]]
    /\ ref' = Counted(NoPriv, d[h])
    /\ Free(Unreferenced(ref', d[h]))
    /\ UNCHANGED <<app, handles, registry, libVars, opened, between, closed>>

Assign(h, other) ==
    /\ {h, other} \subseteq handles
    /\ Point(h, d[other])
    /\ UNCHANGED <<app, handles, registry, libVars, opened, between, closed>>

\* Mutant: the manager does not count, a name goes with the last handle.
DestroyWithName(h) ==
    LET p    == d[h]
        last == {g \in handles : d[g] = p} = {h} IN
    /\ h \in handles
    /\ handles' = handles \ {h}
    /\ d' = [d EXCEPT ![h] = NoPriv]
    /\ registry' = [n \in Name |-> IF last /\ registry[n] = p THEN NoPriv ELSE registry[n]]
    /\ ref' = [q \in Private |-> IF q # p THEN ref[q] ELSE IF last THEN 0 ELSE ref[q] - 1]
    /\ Free(Unreferenced(ref', p))
    /\ UNCHANGED <<app, libVars, opened, between, closed>>

Destroy(h) ==
    /\ h \in handles
    /\ handles' = handles \ {h}
    /\ Point(h, NoPriv)
    /\ UNCHANGED <<app, registry, libVars, opened, between, closed>>

(* addConnection with a name nobody uses: a private is created, with the   *)
(* count 1, and registered whether the bus can be reached or not; the      *)
(* handle that is returned counts as well.                                 *)
AddNewConnection(h, b, n) ==
    /\ h \notin handles
    /\ registry[n] = NoPriv
    /\ \E p \in Private :
          /\ life[p] = "unborn"
          /\ life' = [life EXCEPT ![p] = "live"]
          /\ ref' = [ref EXCEPT ![p] = 2]
          /\ registry' = [registry EXCEPT ![n] = p]
          /\ d' = [d EXCEPT ![h] = p]
          /\ \/ SetConnection(p, b)
             \/ SetConnectionRefused(p, b)
             \/ UNCHANGED <<connection, watcher, libVars, opened, between>>
    /\ handles' = handles \cup {h}
    /\ UNCHANGED <<app, closed>>

(* addConnection with a name in use, for whatever bus.                     *)
AddConnection(h, b, n) ==
    \/ AddNewConnection(h, b, n)
    \/ registry[n] # NoPriv /\ ConstructByName(h, n)

\* Mutant: a name nobody added is looked up and not found.
RemoveUnknown(n) ==
    LET p == registry[n] IN
    /\ registry' = [registry EXCEPT ![n] = NoPriv]
    /\ closed' = closed \cup {p}
    /\ ref' = Counted(NoPriv, p)
    /\ Free(Unreferenced(ref', p))
    /\ UNCHANGED <<app, handleVars, libVars, opened, between>>

RemoveConnection(n) ==
    LET p == registry[n] IN
    /\ p # NoPriv
    /\ registry' = [registry EXCEPT ![n] = NoPriv]
    /\ closed' = closed \cup {p}
    /\ ref' = Counted(NoPriv, p)
    /\ Free(Unreferenced(ref', p))
    /\ UNCHANGED <<app, handleVars, libVars, opened, between>>

CreateApplication ==
    /\ app = "none"
    /\ app' = "created"
    /\ UNCHANGED <<handleVars, registry, ref, life, connection, watcher, libVars,
                   opened, between, closed>>

(* The watchers of p are taken out of its list, and those without          *)
(* notifiers added again, now with them.                                   *)
Bound(p) ==
    CASE watcher[p] = "waiting"   -> "listening"
      [] watcher[p] = "listening" -> "dropped"
      [] OTHER                    -> watcher[p]

(* qDBusBindToApplication, for the connections the manager has a name for. *)
(* A watcher that was removed has no notifiers either and its null watch   *)
(* is given to libdbus, which crashes unless it was built with checks.     *)
BindToApplication ==
    LET Named == {p \in Private : \E n \in Name : registry[n] = p} IN
    /\ app = "created"
    /\ \/ /\ app' = "bound"
          /\ watcher' = [p \in Private |-> IF p \in Named THEN Bound(p) ELSE watcher[p]]
       \/ /\ \E p \in Named : watcher[p] = "removed"
          /\ app' = "crashed"
          /\ UNCHANGED watcher
    /\ UNCHANGED <<handleVars, registry, ref, life, connection, libVars, opened, between, closed>>

(* The slot a zero timer calls after a watch was removed.                  *)
PurgeRemovedWatches(p) ==
    /\ app # "none"
    /\ life[p] = "live"
    /\ watcher[p] = "removed"
    /\ watcher' = [watcher EXCEPT ![p] = "none"]
    /\ UNCHANGED <<app, handleVars, registry, ref, life, connection, libVars, opened, between, closed>>

Next ==
    /\ app # "crashed"
    /\ \/ CreateApplication
       \/ BindToApplication
       \/ \E h \in Handle, n \in Name : ConstructByName(h, n)
       \/ \E h \in Handle, n \in Name, b \in Bus : AddConnection(h, b, n)
       \/ \E h, g \in Handle : ConstructCopy(h, g) \/ Assign(h, g)
       \/ \E h \in Handle : Destroy(h)
       \/ \E n \in Name : RemoveConnection(n)
       \/ \E p \in Private : PurgeRemovedWatches(p)

Spec == Init /\ [][Next]_vars

-----------------------------------------------------------------------------
(* The counter of a private is the number of handles and names that lead   *)
(* to it: nothing leads to a deleted one, and one nothing leads to is      *)
(* deleted.                                                                *)
RefsCount ==
    \A p \in Private :
        /\ ref[p] = Cardinality({h \in handles : d[h] = p})
                      + Cardinality({n \in Name : registry[n] = p})
        /\ (life[p] = "live") <=> ref[p] > 0

(* libdbus is left with pointers to a deleted private, in its watch        *)
(* functions or its filters, only if the program closed its name: handles  *)
(* alone that come and go are safe.                                        *)
CallbacksAlive ==
    \A b \in Bus, p \in Private \ closed :
        p = owner[b] \/ (\E i \in DOMAIN filters[b] : filters[b][i] = p)
            => life[p] = "live"

(* A connection that is the only one opened to its bus works: libdbus      *)
(* calls it, it is the one whose filter takes the signals, and, as long as *)
(* it has a name, it listens once the application is bound.  Only one      *)
(* opened after the application was created and before it was bound does   *)
(* the reverse: it listens at once, and binding makes it deaf for ever.    *)
SoleConnectionWorks ==
    \A b \in Bus, p \in Private :
        connection[p] = b /\ (\A q \in Private \ {p} : opened[q] # b) =>
            /\ owner[b] = p
            /\ filters[b] = <<p>>
            /\ p \notin closed /\ app # "crashed" =>
                  (watcher[p] = "listening" <=> app = IF p \in between THEN "created" ELSE "bound")

(* However many connections to a bus were opened, one listens to its       *)
(* socket, the last, even if it was refused: two would read each other's   *)
(* messages.                                                               *)
OneListener ==
    \A p \in Private :
        watcher[p] \in {"waiting", "listening"} => \E b \in Bus : owner[b] = p

=============================================================================
