------------------------------ MODULE QDBusCalls ------------------------------
(***************************************************************************)
(* The D-Bus bindings for Qt 3 at work: one connection, the proxies and    *)
(* the objects that use it, and the Qt event loop that feeds it            *)
(* (dbus-qt3-backport: qdbusconnection.cpp, qdbusintegrator.cpp,           *)
(* qdbusproxy.cpp).  libdbus queues what it reads from the socket; nothing *)
(* is told of a message before a call of dbus_connection_dispatch takes it *)
(* from the queue, one at a time.  The connection may be opened before the *)
(* QApplication exists: until the program calls qDBusBindToApplication     *)
(* then, its socket is not listened to and its timeouts wait.              *)
(* The bus stays connected, and no slot enters an event loop of its own.   *)
(***************************************************************************)
EXTENDS Naturals, Sequences

CONSTANTS
    Call,         \* the asynchronous calls, each made once
    Proxy,        \* the QDBusProxy objects, each constructed once
    Receiver,     \* the proxy that makes a call and is told of its result
    Aim,          \* the [service, path, interface] a proxy may be given
    UniqueName,   \* the service names that are unique bus names
    Signal,       \* the signals of services, each emitted once
    Invocation,   \* the calls other programs make of this one
    Path,         \* the object paths of this program
    Target        \* the path an invocation names

ASSUME ConstantsOK ==
    /\ Receiver \in [Call -> Proxy]
    /\ Target \in [Invocation -> Path]

VARIABLES
    app,             \* no QApplication, one created, one the connection is bound to
    wire,            \* messages sent to this program that it has not read
    inbox,           \* messages libdbus has read and not dispatched
    dispatcher,      \* the QTimer dispatcher is active
    owes,            \* the program read messages itself and has to schedule a dispatch
    pendingCalls,    \* the calls in the map pendingCalls
    attached,        \* the calls libdbus keeps a DBusPendingCall of
    timeouts,        \* calls whose timeout has a Qt timer
    pendingTimeouts, \* calls whose timeout waits for the QApplication
    sent,            \* the calls made
    answered,        \* the calls the service replied to
    told,            \* what the slot of each call was given
    life,            \* of each proxy
    aim,             \* service, path and interface of each proxy
    canSend,         \* the proxies whose canSend is set
    onBus,           \* proxies whose connection is this one, not a null one
    links,           \* connections of the proxy's slot to dbusSignal
    heard,           \* how often each proxy emitted each signal, 2 for more
    emitted,         \* signals the services emitted
    registered,      \* paths in registeredObjects
    served           \* what became of each invocation

loopVars  == <<app, dispatcher, owes>>
queueVars == <<wire, inbox>>
timeVars  == <<timeouts, pendingTimeouts>>
callVars  == <<pendingCalls, attached, sent, told>>
proxyVars == <<life, aim, canSend, onBus, links>>
worldVars == <<answered, emitted>>
objectVars == <<registered, served>>
vars == <<loopVars, queueVars, timeVars, callVars, proxyVars, worldVars,
          objectVars, heard>>

NoAim == [service |-> "", path |-> "", interface |-> ""]

Message(kind, of) == [kind |-> kind, of |-> of]

Arrival == {Message("reply", c) : c \in Call} \cup
           {Message("signal", s) : s \in Signal} \cup
           {Message("call", i) : i \in Invocation}
Queued  == Arrival \cup {Message("error", c) : c \in Call}

TypeOK ==
    /\ app \in {"none", "created", "bound"}
    /\ wire \in Seq(Arrival)
    /\ inbox \in Seq(Queued)
    /\ dispatcher \in BOOLEAN
    /\ owes \in BOOLEAN
    /\ pendingCalls \subseteq Call
    /\ attached \subseteq Call
    /\ timeouts \subseteq Call
    /\ pendingTimeouts \subseteq Call
    /\ sent \subseteq Call
    /\ answered \subseteq Call
    /\ told \in [Call -> {"no", "reply", "error", "twice"}]
    /\ life \in [Proxy -> {"unborn", "alive", "dead"}]
    /\ aim \in [Proxy -> Aim \cup {NoAim}]
    /\ canSend \subseteq Proxy
    /\ onBus \subseteq Proxy
    /\ links \in [Proxy -> Nat]
    /\ heard \in [Proxy -> [Signal -> 0 .. 2]]
    /\ emitted \subseteq Signal
    /\ registered \subseteq Path
    /\ served \in [Invocation -> {"no", "sent", "served", "refused"}]

Init ==
    /\ app \in {"none", "bound"}
    /\ wire = <<>>
    /\ inbox = <<>>
    /\ dispatcher = FALSE
    /\ owes = FALSE
    /\ pendingCalls = {}
    /\ attached = {}
    /\ timeouts = {}
    /\ pendingTimeouts = {}
    /\ sent = {}
    /\ answered = {}
    /\ told = [c \in Call |-> "no"]
    /\ life = [p \in Proxy |-> "unborn"]
    /\ aim = [p \in Proxy |-> NoAim]
    /\ canSend = {}
    /\ onBus = {}
    /\ links = [p \in Proxy |-> 0]
    /\ heard = [p \in Proxy |-> [s \in Signal |-> 0]]
    /\ emitted = {}
    /\ registered = {}
    /\ served = [i \in Invocation |-> "no"]

-----------------------------------------------------------------------------
(* libdbus keeps its timeouts with the functions of qdbusintegrator.cpp.   *)

AddTimeout(c) ==
    IF app = "none"
    THEN /\ pendingTimeouts' = pendingTimeouts \cup {c}
         /\ UNCHANGED timeouts
    ELSE /\ timeouts' = timeouts \cup {c}
         /\ UNCHANGED pendingTimeouts

RemoveTimeouts(C) ==
    /\ pendingTimeouts' = pendingTimeouts \ C
    /\ timeouts' = timeouts \ C

OfKind(kind, q) == {q[i].of : i \in {j \in DOMAIN q : q[j].kind = kind}}

RepliesIn(q) == OfKind("reply", q)

(* libdbus reads the first n messages of the socket: a reply ends the      *)
(* timeout of its call the moment it is read.                              *)
Read(n) ==
    /\ wire' = SubSeq(wire, n + 1, Len(wire))
    /\ inbox' = inbox \o SubSeq(wire, 1, n)
    /\ RemoveTimeouts(RepliesIn(SubSeq(wire, 1, n)))

-----------------------------------------------------------------------------
(* What dispatching the message m does; a message nothing takes is dropped *)

\* Mutant: libdbus's notification is taken for a call that is over.
QDBusResultReceivedLate(m) ==
    IF m.kind \in {"reply", "error"}
    THEN /\ attached' = attached \ {m.of}
         /\ pendingCalls' = pendingCalls \ {m.of}
         /\ told' = [told EXCEPT ![m.of] = m.kind]
         /\ UNCHANGED sent
    ELSE UNCHANGED callVars

QDBusResultReceived(m) ==
    LET c == m.of IN
    IF m.kind \in {"reply", "error"} /\ c \in attached
    THEN /\ attached' = attached \ {c}
         /\ pendingCalls' = pendingCalls \ {c}
         /\ told' = IF life[Receiver[c]] # "alive" THEN told
                    ELSE IF told[c] = "no" THEN [told EXCEPT ![c] = m.kind]
                    ELSE [told EXCEPT ![c] = "twice"]
         /\ UNCHANGED sent
    ELSE UNCHANGED callVars

(* The filter of QDBusProxy::handleDBusSignal: by path and interface when  *)
(* the proxy has them, by service only when it is a unique name.           *)
Hears(p, s) ==
    /\ aim[p].path \in {"", s.path}
    /\ aim[p].service \in UniqueName => aim[p].service = s.sender
    /\ aim[p].interface \in {"", s.interface}

Least(a, b) == IF a < b THEN a ELSE b

HandleSignal(m) ==
    IF m.kind = "signal"
    THEN heard' = [p \in Proxy |-> [heard[p] EXCEPT ![m.of] =
                      IF Hears(p, m.of) THEN Least(@ + links[p], 2) ELSE @]]
    ELSE UNCHANGED heard

\* Mutant: a call for a path nobody registered is taken for handled.
HandleEveryCall(m) ==
    /\ IF m.kind = "call" /\ Target[m.of] \in registered
       THEN served' = [served EXCEPT ![m.of] = "served"]
       ELSE UNCHANGED served
    /\ UNCHANGED registered

HandleObjectCall(m) ==
    /\ IF m.kind = "call"
       THEN served' = [served EXCEPT ![m.of] =
                         IF Target[m.of] \in registered THEN "served" ELSE "refused"]
       ELSE UNCHANGED served
    /\ UNCHANGED registered

SignalFilter(m) == HandleSignal(m) /\ HandleObjectCall(m)

Take(m) == QDBusResultReceived(m) /\ SignalFilter(m)

(* QDBusConnectionPrivate::dispatch takes one message, and the slot it     *)
(* reaches may make a blocking call, which reads n more; the timer stops   *)
(* when none remains.                                                      *)
DispatchOne(n) ==
    \/ /\ inbox = <<>>
       /\ dispatcher' = FALSE
       /\ UNCHANGED <<queueVars, timeVars, callVars, objectVars, heard>>
    \/ /\ inbox # <<>>
       /\ Take(Head(inbox))
       /\ wire' = SubSeq(wire, n + 1, Len(wire))
       /\ inbox' = Tail(inbox) \o SubSeq(wire, 1, n)
       /\ RemoveTimeouts(RepliesIn(SubSeq(wire, 1, n)))
       /\ dispatcher' = (dispatcher /\ inbox' # <<>>)

-----------------------------------------------------------------------------
(* The application and its event loop.                                     *)

CreateApplication ==
    /\ app = "none"
    /\ app' = "created"
    /\ UNCHANGED <<dispatcher, owes, queueVars, timeVars, callVars, proxyVars,
                   worldVars, objectVars, heard>>

\* Mutant: the timeouts that wait for the application are dropped.
BindWatchesOnly ==
    /\ app = "created"
    /\ app' = "bound"
    /\ pendingTimeouts' = {}
    /\ UNCHANGED <<dispatcher, owes, queueVars, timeouts, callVars, proxyVars,
                   worldVars, objectVars, heard>>

BindToApplication ==
    /\ app = "created"
    /\ app' = "bound"
    /\ timeouts' = timeouts \cup pendingTimeouts
    /\ pendingTimeouts' = {}
    /\ UNCHANGED <<dispatcher, owes, queueVars, callVars, proxyVars, worldVars,
                   objectVars, heard>>

\* Mutant: what was read is left to the next dispatch.
ReadOnly ==
    /\ app = "bound"
    /\ \E n \in 1 .. Len(wire) : Read(n)
    /\ UNCHANGED <<loopVars, callVars, proxyVars, worldVars, objectVars, heard>>

SocketRead ==
    /\ app = "bound"
    /\ \E n \in 1 .. Len(wire) : Read(n)
    /\ dispatcher' = TRUE
    /\ owes' = FALSE
    /\ UNCHANGED <<app, callVars, proxyVars, worldVars, objectVars, heard>>

DispatchTimer ==
    /\ app # "none"
    /\ dispatcher
    /\ \E n \in 0 .. Len(wire) : DispatchOne(n)
    /\ UNCHANGED <<app, owes, proxyVars, worldVars>>

(* The time of a call is up: libdbus queues an error in place of a reply.  *)
TimerEvent(c) ==
    /\ app # "none"
    /\ c \in timeouts
    /\ inbox' = Append(inbox, Message("error", c))
    /\ timeouts' = timeouts \ {c}
    /\ UNCHANGED <<loopVars, wire, pendingTimeouts, callVars, proxyVars,
                   worldVars, objectVars, heard>>

-----------------------------------------------------------------------------
(* The program.                                                            *)

FieldsSet(a) == a.service # "" /\ a.path # "" /\ a.interface # ""

CheckCanSend(p, a) ==
    canSend' = IF FieldsSet(a) THEN canSend \cup {p} ELSE canSend \ {p}

\* Mutant: the slot stays connected to the connection the proxy had.
ConnectAgain(p, bus) ==
    /\ links' = [links EXCEPT ![p] = IF bus THEN @ + 1 ELSE @]
    /\ onBus' = IF bus THEN onBus \cup {p} ELSE onBus \ {p}

(* QDBusConnection::disconnect and connect do nothing on a null connection *)
SetConnection(p, bus) ==
    /\ links' = [links EXCEPT ![p] =
                    LET kept == IF p \in onBus THEN 0 ELSE @ IN
                    IF bus THEN kept + 1 ELSE kept]
    /\ onBus' = IF bus THEN onBus \cup {p} ELSE onBus \ {p}

Construct(p) ==
    /\ life[p] = "unborn"
    /\ life' = [life EXCEPT ![p] = "alive"]
    /\ \E bus \in BOOLEAN : SetConnection(p, bus)
    /\ \E a \in Aim :
          /\ aim' = [aim EXCEPT ![p] = a]
          /\ CheckCanSend(p, a)
    /\ UNCHANGED <<loopVars, queueVars, timeVars, callVars, worldVars,
                   objectVars, heard>>

Reconnect(p) ==
    /\ life[p] = "alive"
    /\ \E bus \in BOOLEAN : SetConnection(p, bus)
    /\ UNCHANGED <<loopVars, queueVars, timeVars, callVars, life, aim, canSend,
                   worldVars, objectVars, heard>>

Changed(a, b) == {f \in {"service", "path", "interface"} : a[f] # b[f]}

(* setService, setPath or setInterface. *)
SetField(p) ==
    /\ life[p] = "alive"
    /\ \E a \in Aim, f \in {"service", "path", "interface"} :
          /\ Changed(a, aim[p]) = {f}
          /\ aim' = [aim EXCEPT ![p] = a]
          /\ CheckCanSend(p, a)
    /\ UNCHANGED <<loopVars, queueVars, timeVars, callVars, life, onBus, links,
                   worldVars, objectVars, heard>>

SendWithAsyncReply(c) ==
    LET p == Receiver[c] IN
    /\ life[p] = "alive"
    /\ p \in canSend
    /\ p \in onBus
    /\ c \notin sent
    /\ sent' = sent \cup {c}
    /\ attached' = attached \cup {c}
    /\ pendingCalls' = pendingCalls \cup {c}
    /\ AddTimeout(c)
    /\ UNCHANGED <<loopVars, queueVars, told, proxyVars, worldVars, objectVars,
                   heard>>

(* sendWithReply, requestName or flush: libdbus reads the socket itself.   *)
SendWithReply ==
    /\ \E n \in 1 .. Len(wire) : Read(n)
    /\ owes' = ~dispatcher
    /\ UNCHANGED <<app, dispatcher, callVars, proxyVars, worldVars, objectVars,
                   heard>>

ScheduleDispatch ==
    /\ dispatcher' = TRUE
    /\ owes' = FALSE
    /\ UNCHANGED <<app, queueVars, timeVars, callVars, proxyVars, worldVars,
                   objectVars, heard>>

Dispatch ==
    /\ inbox # <<>>
    /\ DispatchOne(0)
    /\ owes' = (owes /\ inbox' # <<>>)
    /\ UNCHANGED <<app, proxyVars, worldVars>>

\* Mutant: the calls of a destroyed proxy stay pending.
DestroyedOnly(p) ==
    /\ life[p] = "alive"
    /\ life' = [life EXCEPT ![p] = "dead"]
    /\ links' = [links EXCEPT ![p] = 0]
    /\ onBus' = onBus \ {p}
    /\ aim' = [aim EXCEPT ![p] = NoAim]
    /\ canSend' = canSend \ {p}
    /\ UNCHANGED <<loopVars, queueVars, timeVars, callVars, worldVars,
                   objectVars, heard>>

(* A proxy is destroyed: Qt drops the connections of its slots, and        *)
(* QDBusConnectionPrivate::objectDestroyed cancels the calls it waits for. *)
ObjectDestroyed(p) ==
    LET C == {c \in pendingCalls : Receiver[c] = p} IN
    /\ life[p] = "alive"
    /\ life' = [life EXCEPT ![p] = "dead"]
    /\ links' = [links EXCEPT ![p] = 0]
    /\ onBus' = onBus \ {p}
    /\ aim' = [aim EXCEPT ![p] = NoAim]
    /\ canSend' = canSend \ {p}
    /\ pendingCalls' = pendingCalls \ C
    /\ attached' = attached \ C
    /\ RemoveTimeouts(C)
    /\ UNCHANGED <<loopVars, queueVars, sent, told, worldVars, objectVars,
                   heard>>

RegisterObject(o) ==
    /\ o \notin registered
    /\ registered' = registered \cup {o}
    /\ UNCHANGED <<loopVars, queueVars, timeVars, callVars, proxyVars, worldVars,
                   served, heard>>

UnregisterObject(o) ==
    /\ o \in registered
    /\ registered' = registered \ {o}
    /\ UNCHANGED <<loopVars, queueVars, timeVars, callVars, proxyVars, worldVars,
                   served, heard>>

-----------------------------------------------------------------------------
(* The other programs on the bus.                                          *)

Arrive(m) == wire' = Append(wire, m)

Answer(c) ==
    /\ c \in sent \ answered
    /\ answered' = answered \cup {c}
    /\ Arrive(Message("reply", c))
    /\ UNCHANGED <<loopVars, inbox, timeVars, callVars, proxyVars, emitted,
                   objectVars, heard>>

Emit(s) ==
    /\ s \notin emitted
    /\ emitted' = emitted \cup {s}
    /\ Arrive(Message("signal", s))
    /\ UNCHANGED <<loopVars, inbox, timeVars, callVars, proxyVars, answered,
                   objectVars, heard>>

Invoke(i) ==
    /\ served[i] = "no"
    /\ served' = [served EXCEPT ![i] = "sent"]
    /\ Arrive(Message("call", i))
    /\ UNCHANGED <<loopVars, inbox, timeVars, callVars, proxyVars, worldVars,
                   registered, heard>>

-----------------------------------------------------------------------------
Loop ==
    \/ CreateApplication
    \/ BindToApplication
    \/ SocketRead
    \/ DispatchTimer
    \/ \E c \in Call : TimerEvent(c)

Program ==
    \/ \E c \in Call : SendWithAsyncReply(c)
    \/ \E p \in Proxy : Construct(p) \/ Reconnect(p) \/ SetField(p) \/ ObjectDestroyed(p)
    \/ \E o \in Path : RegisterObject(o) \/ UnregisterObject(o)
    \/ SendWithReply
    \/ ScheduleDispatch
    \/ Dispatch

World ==
    \/ \E c \in Call : Answer(c)
    \/ \E s \in Signal : Emit(s)
    \/ \E i \in Invocation : Invoke(i)

Next == Loop \/ Program \/ World

Spec == Init /\ [][Next]_vars

(* The event loop runs: Qt reports a readable socket and fires its timers. *)
(* The program creates the application it binds to, and does what the      *)
(* comments of qdbusconnection.h ask after a blocking call.                *)
FairSpec ==
    /\ Spec
    /\ WF_vars(CreateApplication)
    /\ WF_vars(BindToApplication)
    /\ WF_vars(SocketRead)
    /\ WF_vars(DispatchTimer)
    /\ WF_vars(owes /\ ScheduleDispatch)
    /\ \A c \in Call : WF_vars(TimerEvent(c))

-----------------------------------------------------------------------------
ErrorsIn(q) == OfKind("error", q)

(* A call that waits for its result is never forgotten: its time is being  *)
(* measured, or will be when the application exists, or its reply or the   *)
(* error in its place has been read.  A cancelled or finished call leaves  *)
(* neither a timeout behind nor a notification qDBusResultReceived would   *)
(* look up in vain.                                                        *)
NotForgotten ==
    /\ attached = pendingCalls
    /\ timeouts \cup pendingTimeouts \subseteq pendingCalls
    /\ \A c \in pendingCalls :
          c \in timeouts \cup pendingTimeouts \cup RepliesIn(inbox) \cup ErrorsIn(inbox)
    /\ app = "bound" => pendingTimeouts = {}

(* The receiver of a pending call exists: it is handed to QObject::connect *)
(* when the reply comes.                                                   *)
ReceiversAlive == \A c \in pendingCalls : life[Receiver[c]] = "alive"

(* Messages read and not dispatched will be: the dispatcher runs, or the   *)
(* program has read them itself and owes the scheduleDispatch that its     *)
(* documentation asks for.  Only the error of a call that timed out may    *)
(* lie in the queue.                                                       *)
NothingStranded ==
    dispatcher \/ owes \/ \A i \in DOMAIN inbox : inbox[i].kind = "error"

(* However often a proxy is given a connection, its slot is connected once *)
(* and it hears a signal once; a null connection leaves it deaf.           *)
HeardOnce ==
    \A p \in Proxy :
        /\ links[p] = IF p \in onBus THEN 1 ELSE 0
        /\ \A s \in Signal : heard[p][s] <= 1

(* canSend is kept beside the three fields it depends on: no call leaves   *)
(* with an empty service, path or interface.                               *)
SendsOnlyAddressed ==
    [][\A c \in sent' \ sent : FieldsSet(aim[Receiver[c]])]_vars

(* What a service sends is handled: a receiver that lives on is told of    *)
(* the reply, and an invocation is served or refused.                      *)
ArrivalsAreHandled ==
    /\ \A c \in Call :
          (c \in pendingCalls /\ c \in answered)
             ~> (told[c] \in {"reply", "error"} \/ life[Receiver[c]] = "dead")
    /\ \A i \in Invocation : (served[i] = "sent") ~> (served[i] \in {"served", "refused"})

-----------------------------------------------------------------------------
(* Asynchronous calls as the program sees them, whatever the event loop,   *)
(* the timers and libdbus do.                                              *)
Stage(c) ==
    IF c \notin sent THEN "idle"
    ELSE IF c \in pendingCalls THEN "waiting"
    ELSE IF told[c] = "no" THEN "cancelled" ELSE told[c]

Async == INSTANCE AsyncCalls WITH
            stage <- [c \in Call |-> Stage(c)], answered <- answered

(* Every step of the connection is a step of AsyncCalls, or none: a call   *)
(* ends once, and a late reply to one that timed out or whose receiver is  *)
(* gone is not told to anyone.                                             *)
ImplementsAsyncCalls == Async!Spec

=============================================================================
