-------------------------- MODULE QDBusCallsProofs ---------------------------
(***************************************************************************)
(* Theorems about QDBusCalls, for any number of calls, proxies, signals    *)
(* and invocations.                                                        *)
(***************************************************************************)
EXTENDS QDBusCalls, SequenceTheorems, TLAPS

-----------------------------------------------------------------------------
(* The messages of a kind in the queues libdbus makes.                     *)

LEMMA OfKindConcat ==
    ASSUME NEW S, NEW q \in Seq(S), NEW r \in Seq(S), NEW kind
    PROVE  OfKind(kind, q \o r) = OfKind(kind, q) \cup OfKind(kind, r)
<1> DEFINE s == q \o r
<1>1. /\ Len(s) = Len(q) + Len(r)
      /\ DOMAIN s = 1 .. Len(s) /\ DOMAIN q = 1 .. Len(q) /\ DOMAIN r = 1 .. Len(r)
      /\ Len(q) \in Nat /\ Len(r) \in Nat
      /\ \A i \in 1 .. Len(s) : s[i] = IF i <= Len(q) THEN q[i] ELSE r[i - Len(q)]
  BY ConcatProperties
<1> HIDE DEF s
<1>2. OfKind(kind, q) \subseteq OfKind(kind, s)
  BY <1>1 DEF OfKind
<1>3. ASSUME NEW j \in DOMAIN r, r[j].kind = kind
      PROVE  r[j].of \in OfKind(kind, s)
  <2>1. j + Len(q) \in DOMAIN s /\ s[j + Len(q)] = r[j]
    BY <1>1
  <2> QED BY <2>1, <1>3 DEF OfKind
<1>4. ASSUME NEW i \in DOMAIN s, s[i].kind = kind
      PROVE  s[i].of \in OfKind(kind, q) \cup OfKind(kind, r)
  <2>1. CASE i <= Len(q)
    BY <2>1, <1>1, <1>4 DEF OfKind
  <2>2. CASE i > Len(q)
    <3>1. i - Len(q) \in DOMAIN r /\ s[i] = r[i - Len(q)]
      BY <2>2, <1>1
    <3> QED BY <3>1, <1>4 DEF OfKind
  <2> QED BY <2>1, <2>2, <1>1
<1>5. OfKind(kind, r) \subseteq OfKind(kind, s)
  BY <1>3 DEF OfKind
<1>6. OfKind(kind, s) \subseteq OfKind(kind, q) \cup OfKind(kind, r)
  <2>1. SUFFICES ASSUME NEW x \in OfKind(kind, s)
                 PROVE  x \in OfKind(kind, q) \cup OfKind(kind, r)
    OBVIOUS
  <2>2. PICK i \in DOMAIN s : s[i].kind = kind /\ x = s[i].of
    BY DEF OfKind
  <2> QED BY <2>2, <1>4
<1>7. OfKind(kind, s) = OfKind(kind, q) \cup OfKind(kind, r)
  BY <1>2, <1>5, <1>6
<1> QED BY <1>7 DEF s

LEMMA OfKindOne ==
    ASSUME NEW m, NEW kind
    PROVE  OfKind(kind, <<m>>) = IF m.kind = kind THEN {m.of} ELSE {}
BY DEF OfKind

LEMMA OfKindAppend ==
    ASSUME NEW S, NEW q \in Seq(S), NEW m \in S, NEW kind
    PROVE  /\ Append(q, m) \in Seq(S)
           /\ OfKind(kind, Append(q, m)) =
                 OfKind(kind, q) \cup (IF m.kind = kind THEN {m.of} ELSE {})
<1> DEFINE r == <<m>>
<1>1. r \in Seq(S) /\ Append(q, m) = q \o r /\ Append(q, m) \in Seq(S)
  BY AppendIsConcat, AppendProperties
<1>2. OfKind(kind, r) = IF m.kind = kind THEN {m.of} ELSE {}
  BY OfKindOne
<1> HIDE DEF r
<1>3. OfKind(kind, q \o r) = OfKind(kind, q) \cup OfKind(kind, r)
  BY <1>1, OfKindConcat
<1> QED BY <1>1, <1>2, <1>3

(* What is dispatched first, and what is left.                             *)
LEMMA OfKindHead ==
    ASSUME NEW S, NEW q \in Seq(S), q # <<>>, NEW kind
    PROVE  /\ Head(q) \in S
           /\ Tail(q) \in Seq(S)
           /\ OfKind(kind, q) = OfKind(kind, Tail(q)) \cup
                 (IF Head(q).kind = kind THEN {Head(q).of} ELSE {})
<1> DEFINE h == <<Head(q)>>
           t == Tail(q)
<1>1. Head(q) \in S /\ t \in Seq(S) /\ h \in Seq(S) /\ Len(q) \in Nat \ {0}
  BY HeadTailProperties, EmptySeq, LenProperties
<1>2. q = h \o t
  <2>1. Len(h) = 1 /\ h[1] = Head(q) /\ Head(q) = q[1]
    OBVIOUS
  <2>2. h \o t \in Seq(S) /\ Len(h \o t) = Len(q)
    BY <1>1, <2>1, HeadTailProperties, ConcatProperties
  <2>3. ASSUME NEW i \in 1 .. Len(q)
        PROVE  q[i] = (h \o t)[i]
    BY <1>1, <2>1, HeadTailProperties, ConcatProperties
  <2> QED BY <2>2, <2>3, SeqEqual
<1>3. OfKind(kind, h) = IF Head(q).kind = kind THEN {Head(q).of} ELSE {}
  BY OfKindOne
<1> HIDE DEF h, t
<1>4. OfKind(kind, h \o t) = OfKind(kind, h) \cup OfKind(kind, t)
  BY <1>1, OfKindConcat
<1> QED BY <1>1, <1>2, <1>3, <1>4 DEF t

(* Reading takes a prefix of what has arrived and leaves the rest.         *)
LEMMA OfKindSplit ==
    ASSUME NEW S, NEW q \in Seq(S), NEW n \in 0 .. Len(q), NEW kind
    PROVE  /\ SubSeq(q, 1, n) \in Seq(S)
           /\ SubSeq(q, n + 1, Len(q)) \in Seq(S)
           /\ OfKind(kind, q) = OfKind(kind, SubSeq(q, 1, n)) \cup
                                OfKind(kind, SubSeq(q, n + 1, Len(q)))
<1> DEFINE a == SubSeq(q, 1, n)
           b == SubSeq(q, n + 1, Len(q))
<1>1. Len(q) \in Nat /\ q \in [1 .. Len(q) -> S] /\ DOMAIN q = 1 .. Len(q)
  BY LenProperties
<1>2. a \in Seq(S) /\ b \in Seq(S)
  BY <1>1, SubSeqProperties
<1>3. 1 \in 1 .. Len(q) + 1 /\ n \in 1 - 1 .. Len(q) /\ Len(q) \in n .. Len(q)
  BY <1>1
<1>4. a \o b = SubSeq(q, 1, Len(q))
  BY <1>3, ConcatAdjacentSubSeq
<1>5. q = a \o b
  BY <1>4, SubSeqFull
<1> HIDE DEF a, b
<1>6. OfKind(kind, a \o b) = OfKind(kind, a) \cup OfKind(kind, b)
  BY <1>2, OfKindConcat
<1>7. a \in Seq(S) /\ b \in Seq(S) /\ OfKind(kind, q) = OfKind(kind, a) \cup OfKind(kind, b)
  BY <1>2, <1>5, <1>6
<1> QED BY <1>7 DEF a, b

-----------------------------------------------------------------------------
(* The inductive invariant.                                                *)

(* A call that waits was made and has ended in no way; what the service    *)
(* replied to is what its replies are about.                               *)
Told ==
    /\ pendingCalls \subseteq sent
    /\ answered \subseteq sent
    /\ \A c \in Call : c \in pendingCalls \/ c \notin sent => told[c] = "no"
    /\ OfKind("reply", wire) \cup OfKind("reply", inbox) \subseteq answered
    /\ OfKind("error", inbox) \subseteq sent

(* Its timeout is over when its reply is read, or the error in its place   *)
(* was queued.                                                             *)
Timed ==
    /\ timeouts \cap pendingTimeouts = {}
    /\ (timeouts \cup pendingTimeouts)
          \cap (OfKind("reply", inbox) \cup OfKind("error", inbox)) = {}

(* A proxy has a connection and an address only while it lives.            *)
Proxies ==
    /\ \A p \in Proxy : links[p] = IF p \in onBus THEN 1 ELSE 0
    /\ \A p \in onBus : life[p] = "alive"
    /\ \A p \in canSend : FieldsSet(aim[p])

IInv == TypeOK /\ NotForgotten /\ ReceiversAlive /\ NothingStranded /\ Told
          /\ Timed /\ Proxies

USE ConstantsOK
USE DEF vars, loopVars, queueVars, timeVars, callVars, proxyVars, worldVars,
        objectVars

LEMMA Arrives ==
    /\ Arrival \subseteq Queued
    /\ Seq(Arrival) \subseteq Seq(Queued)
<1>1. Arrival \subseteq Queued
  BY DEF Queued
<1> QED BY <1>1, SeqMonotonic

(* What a kind of message is about.                                        *)
LEMMA AboutCalls ==
    ASSUME NEW m \in Queued
    PROVE  /\ m.kind \in {"reply", "error", "signal", "call"}
           /\ m.kind \in {"reply", "error"} => m.of \in Call
BY DEF Queued, Arrival, Message

LEMMA NoErrors ==
    ASSUME NEW q \in Seq(Arrival)
    PROVE  OfKind("error", q) = {}
<1>1. \A m \in Arrival : m.kind # "error"
  BY DEF Arrival, Message
<1>2. \A i \in DOMAIN q : q[i] \in Arrival
  BY LenProperties
<1> QED BY <1>1, <1>2 DEF OfKind

(* Reading moves replies from the socket to libdbus's queue.               *)
LEMMA Reading ==
    ASSUME TypeOK, NEW n \in 0 .. Len(wire), NEW q \in Seq(Queued)
    PROVE  /\ q \o SubSeq(wire, 1, n) \in Seq(Queued)
           /\ SubSeq(wire, n + 1, Len(wire)) \in Seq(Arrival)
           /\ \A k \in {"reply", "error"} :
                 OfKind(k, q \o SubSeq(wire, 1, n))
                    = OfKind(k, q) \cup OfKind(k, SubSeq(wire, 1, n))
           /\ OfKind("reply", wire) = OfKind("reply", SubSeq(wire, 1, n)) \cup
                                      OfKind("reply", SubSeq(wire, n + 1, Len(wire)))
<1> DEFINE a == SubSeq(wire, 1, n)
           b == SubSeq(wire, n + 1, Len(wire))
<1>1. wire \in Seq(Arrival)
  BY DEF TypeOK
<1>2. /\ a \in Seq(Arrival) /\ b \in Seq(Arrival)
      /\ OfKind("reply", wire) = OfKind("reply", a) \cup OfKind("reply", b)
  BY <1>1, OfKindSplit
<1> HIDE DEF a, b
<1>3. a \in Seq(Queued)
  BY <1>2, Arrives
<1>4. q \o a \in Seq(Queued)
  BY <1>3, ConcatProperties
<1>5. \A k \in {"reply", "error"} : OfKind(k, q \o a) = OfKind(k, q) \cup OfKind(k, a)
  BY <1>3, OfKindConcat
<1>6. /\ q \o a \in Seq(Queued)
      /\ b \in Seq(Arrival)
      /\ \A k \in {"reply", "error"} : OfKind(k, q \o a) = OfKind(k, q) \cup OfKind(k, a)
      /\ OfKind("reply", wire) = OfKind("reply", a) \cup OfKind("reply", b)
  BY <1>2, <1>4, <1>5
<1> QED BY <1>6 DEF a, b

(* The variables a message that is dispatched can change.                  *)
LEMMA Taking ==
    ASSUME TypeOK, Told, ReceiversAlive, NotForgotten,
           NEW m \in Queued, Take(m)
    PROVE  LET done == IF m.kind \in {"reply", "error"} THEN pendingCalls \cap {m.of}
                       ELSE {} IN
           /\ pendingCalls' = pendingCalls \ done
           /\ attached' = attached \ done
           /\ told' \in [Call -> {"no", "reply", "error", "twice"}]
           /\ \A c \in Call : told'[c] = IF c \in done THEN m.kind ELSE told[c]
           /\ sent' = sent
           /\ heard' \in [Proxy -> [Signal -> 0 .. 2]]
           /\ served' \in [Invocation -> {"no", "sent", "served", "refused"}]
           /\ registered' = registered
<1>1. heard' \in [Proxy -> [Signal -> 0 .. 2]]
  <2>1. CASE m.kind = "signal"
    <3>1. heard' = [p \in Proxy |-> [heard[p] EXCEPT ![m.of] =
                      IF Hears(p, m.of) THEN Least(@ + links[p], 2) ELSE @]]
      BY <2>1 DEF Take, SignalFilter, HandleSignal
    <3>2. ASSUME NEW p \in Proxy
          PROVE  [heard[p] EXCEPT ![m.of] =
                     IF Hears(p, m.of) THEN Least(@ + links[p], 2) ELSE @]
                    \in [Signal -> 0 .. 2]
      <4>1. heard[p] \in [Signal -> 0 .. 2] /\ links[p] \in Nat
        BY DEF TypeOK
      <4>2. \A x \in 0 .. 2 : Least(x + links[p], 2) \in 0 .. 2
        BY <4>1 DEF Least
      <4> QED BY <4>1, <4>2
    <3> QED BY <3>1, <3>2
  <2> QED BY <2>1 DEF Take, SignalFilter, HandleSignal, TypeOK
<1>2. served' \in [Invocation -> {"no", "sent", "served", "refused"}] /\ registered' = registered
  BY DEF Take, SignalFilter, HandleObjectCall, TypeOK
<1>3. CASE m.kind \in {"reply", "error"} /\ m.of \in pendingCalls
  <2>1. /\ m.of \in attached /\ m.of \in Call
        /\ life[Receiver[m.of]] = "alive" /\ told[m.of] = "no"
    BY <1>3 DEF NotForgotten, ReceiversAlive, Told, TypeOK
  <2>2. /\ told' = [told EXCEPT ![m.of] = m.kind]
        /\ pendingCalls' = pendingCalls \ {m.of}
        /\ attached' = attached \ {m.of}
        /\ sent' = sent
    BY <1>3, <2>1 DEF Take, QDBusResultReceived
  <2>3. pendingCalls \cap {m.of} = {m.of}
    BY <1>3
  <2> QED BY <1>1, <1>2, <1>3, <2>1, <2>2, <2>3 DEF TypeOK
<1>4. CASE ~(m.kind \in {"reply", "error"} /\ m.of \in pendingCalls)
  <2>1. UNCHANGED callVars
    BY <1>4 DEF NotForgotten, Take, QDBusResultReceived
  <2>2. m.kind \in {"reply", "error"} => pendingCalls \cap {m.of} = {}
    BY <1>4
  <2> QED BY <1>1, <1>2, <2>1, <2>2 DEF TypeOK
<1> QED BY <1>3, <1>4

-----------------------------------------------------------------------------
(* The steps that move messages.                                           *)

LEMMA ReadKeeps ==
    ASSUME IInv, NEW n \in 0 .. Len(wire), Read(n),
           UNCHANGED <<app, callVars, proxyVars, worldVars, objectVars, heard>>,
           dispatcher' \in BOOLEAN, owes' \in BOOLEAN, dispatcher' \/ owes'
    PROVE  IInv'
<1> DEFINE a == SubSeq(wire, 1, n)
           b == SubSeq(wire, n + 1, Len(wire))
<1>1. wire' = b /\ inbox' = inbox \o a
  BY DEF Read
<1>2. /\ inbox' \in Seq(Queued) /\ wire' \in Seq(Arrival)
      /\ \A k \in {"reply", "error"} : OfKind(k, inbox') = OfKind(k, inbox) \cup OfKind(k, a)
      /\ OfKind("reply", wire) = OfKind("reply", a) \cup OfKind("reply", wire')
  BY <1>1, Reading DEF IInv, TypeOK
<1>3. timeouts' = timeouts \ OfKind("reply", a) /\ pendingTimeouts' = pendingTimeouts \ OfKind("reply", a)
  BY DEF Read, RemoveTimeouts, RepliesIn
<1> HIDE DEF a, b
<1>4. TypeOK'
  BY <1>2, <1>3 DEF IInv, TypeOK
<1>5. NotForgotten'
  BY <1>2, <1>3 DEF IInv, NotForgotten, RepliesIn, ErrorsIn
<1>6. Told' /\ Timed'
  <2>1. OfKind("error", a) = {}
    <3>1. SubSeq(wire, 1, n) \in Seq(Arrival)
      BY OfKindSplit DEF IInv, TypeOK
    <3> QED BY <3>1, NoErrors DEF a
  <2> QED BY <1>2, <1>3, <2>1 DEF IInv, Told, Timed
<1>7. ReceiversAlive' /\ NothingStranded' /\ Proxies'
  BY DEF IInv, ReceiversAlive, NothingStranded, Proxies, FieldsSet
<1> QED BY <1>4, <1>5, <1>6, <1>7 DEF IInv

LEMMA DispatchKeeps ==
    ASSUME IInv, NEW n \in 0 .. Len(wire), DispatchOne(n),
           UNCHANGED <<app, proxyVars, worldVars>>,
           owes' \in BOOLEAN,
           dispatcher' \/ owes' \/ inbox' = <<>> \/ (~dispatcher /\ ~owes /\ n = 0)
    PROVE  IInv'
<1>1. CASE inbox = <<>> /\ dispatcher' = FALSE /\
           UNCHANGED <<queueVars, timeVars, callVars, objectVars, heard>>
  <2>1. TypeOK'
    BY <1>1 DEF IInv, TypeOK
  <2>2. NotForgotten' /\ Told' /\ Timed' /\ ReceiversAlive' /\ Proxies'
    BY <1>1 DEF IInv, NotForgotten, Told, Timed, ReceiversAlive, Proxies, FieldsSet, RepliesIn, ErrorsIn
  <2>3. NothingStranded'
    BY <1>1 DEF NothingStranded
  <2> QED BY <2>1, <2>2, <2>3 DEF IInv
<1>2. CASE inbox # <<>> /\ Take(Head(inbox))
  <2> DEFINE m == Head(inbox)
             t == Tail(inbox)
             a == SubSeq(wire, 1, n)
             b == SubSeq(wire, n + 1, Len(wire))
             done == IF m.kind \in {"reply", "error"} THEN pendingCalls \cap {m.of} ELSE {}
  <2>1. wire' = b /\ inbox' = t \o a /\ dispatcher' \in BOOLEAN
    BY <1>2 DEF DispatchOne
  <2>2. timeouts' = timeouts \ OfKind("reply", a) /\ pendingTimeouts' = pendingTimeouts \ OfKind("reply", a)
    BY <1>2 DEF DispatchOne, RemoveTimeouts, RepliesIn
  <2>3. /\ m \in Queued /\ t \in Seq(Queued)
        /\ \A k \in {"reply", "error"} :
              OfKind(k, inbox) = OfKind(k, t) \cup (IF m.kind = k THEN {m.of} ELSE {})
    BY <1>2, OfKindHead DEF IInv, TypeOK
  <2>4. /\ inbox' \in Seq(Queued) /\ wire' \in Seq(Arrival)
        /\ \A k \in {"reply", "error"} : OfKind(k, inbox') = OfKind(k, t) \cup OfKind(k, a)
        /\ OfKind("reply", wire) = OfKind("reply", a) \cup OfKind("reply", wire')
    BY <2>1, <2>3, Reading DEF IInv
  <2>5. /\ pendingCalls' = pendingCalls \ done
        /\ attached' = attached \ done
        /\ told' \in [Call -> {"no", "reply", "error", "twice"}]
        /\ \A c \in Call : told'[c] = IF c \in done THEN m.kind ELSE told[c]
        /\ sent' = sent
        /\ heard' \in [Proxy -> [Signal -> 0 .. 2]]
        /\ served' \in [Invocation -> {"no", "sent", "served", "refused"}]
        /\ registered' = registered
    BY <1>2, <2>3, Taking DEF IInv
  <2>6. m.kind \in {"reply", "error"} => m.of \in Call
    BY <2>3, AboutCalls
  <2>7. NothingStranded'
    <3>1. CASE dispatcher' \/ owes' \/ inbox' = <<>>
      BY <3>1 DEF NothingStranded
    <3>2. CASE ~dispatcher /\ ~owes /\ n = 0
      <4>1. \A i \in DOMAIN inbox : inbox[i].kind = "error"
        BY <3>2 DEF IInv, NothingStranded
      <4>2. a = <<>> /\ inbox' = t
        <5>1. a = <<>>
          BY <3>2, SubSeqEmpty
        <5> QED BY <2>1, <2>3, <5>1, ConcatEmptySeq
      <4>3. \A i \in DOMAIN t : i + 1 \in DOMAIN inbox /\ t[i] = inbox[i + 1]
        BY <1>2, HeadTailProperties, LenProperties DEF IInv, TypeOK
      <4> QED BY <4>1, <4>2, <4>3 DEF NothingStranded
    <3> QED BY <3>1, <3>2
  <2>12. OfKind("error", a) = {}
    <3>1. a \in Seq(Arrival)
      BY OfKindSplit DEF IInv, TypeOK
    <3> QED BY <3>1, NoErrors
  <2> HIDE DEF m, t, a, b
  <2>8. TypeOK'
    BY <2>1, <2>2, <2>4, <2>5 DEF IInv, TypeOK
  <2>9. NotForgotten'
    <3>1. attached' = pendingCalls' /\ (app' = "bound" => pendingTimeouts' = {})
      BY <2>2, <2>5 DEF IInv, NotForgotten
    <3>2. ASSUME NEW c \in pendingCalls'
          PROVE  c \in timeouts' \cup pendingTimeouts' \cup OfKind("reply", inbox')
                         \cup OfKind("error", inbox')
      <4>1. c \in pendingCalls /\ (m.kind \in {"reply", "error"} => c # m.of)
        BY <2>5
      <4>2. c \in timeouts \cup pendingTimeouts \cup OfKind("reply", inbox) \cup OfKind("error", inbox)
        BY <4>1 DEF IInv, NotForgotten, RepliesIn, ErrorsIn
      <4> QED BY <2>2, <2>3, <2>4, <4>1, <4>2
    <3>3. timeouts' \cup pendingTimeouts' \subseteq pendingCalls'
      <4>1. SUFFICES ASSUME NEW c \in timeouts \cup pendingTimeouts, c \in done
                     PROVE  FALSE
        BY <2>2, <2>5 DEF IInv, NotForgotten
      <4>2. c \in OfKind("reply", inbox) \cup OfKind("error", inbox)
        BY <2>3, <4>1
      <4> QED BY <4>1, <4>2 DEF IInv, Timed
    <3> QED BY <3>1, <3>2, <3>3 DEF NotForgotten, RepliesIn, ErrorsIn
  <2>10. Told' /\ Timed'
    <3>1. Told'
      BY <2>3, <2>4, <2>5, <2>12 DEF IInv, Told, TypeOK
    <3>2. Timed'
      BY <2>2, <2>3, <2>4, <2>12 DEF IInv, Timed
    <3> QED BY <3>1, <3>2
  <2>11. ReceiversAlive' /\ Proxies'
    BY <2>5 DEF IInv, ReceiversAlive, Proxies, FieldsSet
  <2> QED BY <2>7, <2>8, <2>9, <2>10, <2>11 DEF IInv
<1> QED BY <1>1, <1>2 DEF DispatchOne

-----------------------------------------------------------------------------
(* The steps that leave messages where they are, or add one.               *)

(* Nothing that concerns a waiting call has changed.                       *)
LEMMA CallsUntouched ==
    ASSUME IInv, TypeOK', Proxies',
           UNCHANGED <<inbox, timeVars, callVars>>,
           app' = app, owes' = owes, dispatcher' = dispatcher,
           answered \subseteq answered', answered' \subseteq sent,
           OfKind("reply", wire') \subseteq answered',
           \A p \in Proxy : life[p] = "alive" => life'[p] = "alive"
    PROVE  IInv'
<1>1. \A c \in pendingCalls : Receiver[c] \in Proxy
  BY DEF IInv, TypeOK
<1>2. ReceiversAlive'
  BY <1>1 DEF IInv, ReceiversAlive
<1>3. NotForgotten' /\ NothingStranded' /\ Timed'
  BY DEF IInv, NotForgotten, NothingStranded, Timed, RepliesIn, ErrorsIn
<1>4. Told'
  BY DEF IInv, Told
<1> QED BY <1>2, <1>3, <1>4 DEF IInv

LEMMA Arriving ==
    ASSUME TypeOK, NEW m \in Arrival, Arrive(m)
    PROVE  /\ wire' \in Seq(Arrival)
           /\ OfKind("reply", wire') = OfKind("reply", wire) \cup
                 (IF m.kind = "reply" THEN {m.of} ELSE {})
BY OfKindAppend DEF TypeOK, Arrive

LEMMA WorldKeeps ==
    ASSUME IInv, World
    PROVE  IInv'
<1>1. ASSUME NEW c \in Call, Answer(c)
      PROVE  IInv'
  <2>1. Message("reply", c) \in Arrival /\ Message("reply", c).kind = "reply"
        /\ Message("reply", c).of = c
    BY DEF Arrival, Message
  <2>2. wire' \in Seq(Arrival) /\ OfKind("reply", wire') = OfKind("reply", wire) \cup {c}
    BY <1>1, <2>1, Arriving DEF Answer, IInv
  <2>3. TypeOK' /\ Proxies'
    BY <1>1, <2>2 DEF Answer, IInv, TypeOK, Proxies, FieldsSet
  <2>4. answered' = answered \cup {c} /\ answered' \subseteq sent
        /\ OfKind("reply", wire') \subseteq answered'
    BY <1>1, <2>2 DEF Answer, IInv, Told
  <2> QED BY <1>1, <2>3, <2>4, CallsUntouched DEF Answer
<1>2. ASSUME NEW s \in Signal, Emit(s)
      PROVE  IInv'
  <2>1. Message("signal", s) \in Arrival /\ Message("signal", s).kind = "signal"
    BY DEF Arrival, Message
  <2>2. wire' \in Seq(Arrival) /\ OfKind("reply", wire') = OfKind("reply", wire)
    BY <1>2, <2>1, Arriving DEF Emit, IInv
  <2>3. TypeOK' /\ Proxies'
    BY <1>2, <2>2 DEF Emit, IInv, TypeOK, Proxies, FieldsSet
  <2>4. answered' = answered /\ answered' \subseteq sent
        /\ OfKind("reply", wire') \subseteq answered'
    BY <1>2, <2>2 DEF Emit, IInv, Told
  <2> QED BY <1>2, <2>3, <2>4, CallsUntouched DEF Emit
<1>3. ASSUME NEW i \in Invocation, Invoke(i)
      PROVE  IInv'
  <2>1. Message("call", i) \in Arrival /\ Message("call", i).kind = "call"
    BY DEF Arrival, Message
  <2>2. wire' \in Seq(Arrival) /\ OfKind("reply", wire') = OfKind("reply", wire)
    BY <1>3, <2>1, Arriving DEF Invoke, IInv
  <2>3. TypeOK' /\ Proxies'
    BY <1>3, <2>2 DEF Invoke, IInv, TypeOK, Proxies, FieldsSet
  <2>4. answered' = answered /\ answered' \subseteq sent
        /\ OfKind("reply", wire') \subseteq answered'
    BY <1>3, <2>2 DEF Invoke, IInv, Told
  <2> QED BY <1>3, <2>3, <2>4, CallsUntouched DEF Invoke
<1> QED BY <1>1, <1>2, <1>3 DEF World

(* Giving a proxy a connection keeps it connected once.                    *)
LEMMA Connecting ==
    ASSUME TypeOK, Proxies, NEW p \in Proxy, NEW bus \in BOOLEAN, SetConnection(p, bus)
    PROVE  /\ links' \in [Proxy -> Nat]
           /\ onBus' = IF bus THEN onBus \cup {p} ELSE onBus \ {p}
           /\ \A r \in Proxy : links'[r] = IF r \in onBus' THEN 1 ELSE 0
BY DEF TypeOK, Proxies, SetConnection

LEMMA ProxyKeeps ==
    ASSUME IInv, NEW p \in Proxy, Construct(p) \/ Reconnect(p) \/ SetField(p)
    PROVE  IInv'
<1>1. CASE Construct(p)
  <2>1. PICK bus \in BOOLEAN : SetConnection(p, bus)
    BY <1>1 DEF Construct
  <2>2. PICK a \in Aim : aim' = [aim EXCEPT ![p] = a] /\ CheckCanSend(p, a)
    BY <1>1 DEF Construct
  <2>3. /\ links' \in [Proxy -> Nat]
        /\ onBus' = IF bus THEN onBus \cup {p} ELSE onBus \ {p}
        /\ \A r \in Proxy : links'[r] = IF r \in onBus' THEN 1 ELSE 0
    BY <2>1, Connecting DEF IInv
  <2>4. TypeOK'
    BY <1>1, <2>2, <2>3 DEF Construct, CheckCanSend, IInv, TypeOK
  <2>5. Proxies'
    <3>1. /\ life' = [life EXCEPT ![p] = "alive"] /\ p \in DOMAIN life
          /\ life \in [Proxy -> {"unborn", "alive", "dead"}]
          /\ onBus \subseteq Proxy /\ canSend \subseteq Proxy /\ DOMAIN aim = Proxy
      BY <1>1 DEF Construct, IInv, TypeOK
    <3>2. \A r \in onBus' : life'[r] = "alive"
      BY <2>3, <3>1 DEF IInv, Proxies
    <3>3. \A r \in canSend' : FieldsSet(aim'[r])
      BY <2>2, <3>1 DEF CheckCanSend, IInv, Proxies
    <3> QED BY <2>3, <3>2, <3>3 DEF Proxies
  <2>6. \A r \in Proxy : life[r] = "alive" => life'[r] = "alive"
    BY <1>1 DEF Construct, IInv, TypeOK
  <2> QED BY <1>1, <2>4, <2>5, <2>6, CallsUntouched DEF Construct, IInv, Told
<1>2. CASE Reconnect(p)
  <2>1. PICK bus \in BOOLEAN : SetConnection(p, bus)
    BY <1>2 DEF Reconnect
  <2>2. /\ links' \in [Proxy -> Nat]
        /\ onBus' = IF bus THEN onBus \cup {p} ELSE onBus \ {p}
        /\ \A r \in Proxy : links'[r] = IF r \in onBus' THEN 1 ELSE 0
    BY <2>1, Connecting DEF IInv
  <2>3. TypeOK' /\ Proxies'
    BY <1>2, <2>2 DEF Reconnect, IInv, TypeOK, Proxies, FieldsSet
  <2> QED BY <1>2, <2>3, CallsUntouched DEF Reconnect, IInv, Told
<1>3. CASE SetField(p)
  <2>1. PICK a \in Aim : aim' = [aim EXCEPT ![p] = a] /\ CheckCanSend(p, a)
    BY <1>3 DEF SetField
  <2>2. TypeOK' /\ Proxies'
    <3>1. TypeOK'
      BY <1>3, <2>1 DEF SetField, CheckCanSend, IInv, TypeOK
    <3>2. /\ UNCHANGED <<links, onBus, life>>
          /\ canSend \subseteq Proxy /\ DOMAIN aim = Proxy
      BY <1>3 DEF SetField, IInv, TypeOK
    <3>3. \A r \in canSend' : FieldsSet(aim'[r])
      BY <2>1, <3>2 DEF CheckCanSend, IInv, Proxies
    <3> QED BY <3>1, <3>2, <3>3 DEF IInv, Proxies
  <2> QED BY <1>3, <2>2, CallsUntouched DEF SetField, IInv, Told
<1> QED BY <1>1, <1>2, <1>3

LEMMA ObjectKeeps ==
    ASSUME IInv, NEW o \in Path, RegisterObject(o) \/ UnregisterObject(o)
    PROVE  IInv'
<1>1. TypeOK' /\ Proxies'
  BY DEF RegisterObject, UnregisterObject, IInv, TypeOK, Proxies, FieldsSet
<1> QED BY <1>1, CallsUntouched DEF RegisterObject, UnregisterObject, IInv, Told

-----------------------------------------------------------------------------
(* The steps that begin a call or end its timeout.                         *)

LEMMA SendKeeps ==
    ASSUME IInv, NEW c \in Call, SendWithAsyncReply(c)
    PROVE  IInv'
<1>1. /\ sent' = sent \cup {c} /\ attached' = attached \cup {c}
      /\ pendingCalls' = pendingCalls \cup {c}
      /\ c \notin sent /\ life[Receiver[c]] = "alive"
      /\ c \notin pendingCalls
  BY DEF SendWithAsyncReply, IInv, Told
<1>2. \/ timeouts' = timeouts \cup {c} /\ pendingTimeouts' = pendingTimeouts
      \/ app = "none" /\ pendingTimeouts' = pendingTimeouts \cup {c} /\ timeouts' = timeouts
  BY DEF SendWithAsyncReply, AddTimeout
<1>3. c \notin OfKind("reply", inbox) \cup OfKind("error", inbox)
  BY <1>1 DEF IInv, Told
<1>4. TypeOK'
  BY <1>2 DEF SendWithAsyncReply, IInv, TypeOK
<1>5. NotForgotten'
  BY <1>1, <1>2 DEF SendWithAsyncReply, IInv, NotForgotten, RepliesIn, ErrorsIn
<1>6. Timed'
  BY <1>1, <1>2, <1>3 DEF SendWithAsyncReply, IInv, Timed, NotForgotten
<1>7. Told'
  <2>1. told[c] = "no"
    BY <1>1 DEF IInv, Told
  <2> QED BY <1>1, <2>1 DEF SendWithAsyncReply, IInv, Told
<1>8. ReceiversAlive' /\ NothingStranded' /\ Proxies'
  BY <1>1 DEF SendWithAsyncReply, IInv, ReceiversAlive, NothingStranded, Proxies, FieldsSet
<1> QED BY <1>4, <1>5, <1>6, <1>7, <1>8 DEF IInv

LEMMA TimerKeeps ==
    ASSUME IInv, NEW c \in Call, TimerEvent(c)
    PROVE  IInv'
<1> DEFINE m == Message("error", c)
<1>1. m \in Queued /\ m.kind = "error" /\ m.of = c
  BY DEF Queued, Message
<1>2. c \in timeouts /\ inbox' = Append(inbox, m) /\ timeouts' = timeouts \ {c}
  BY DEF TimerEvent
<1> HIDE DEF m
<1>3. /\ inbox' \in Seq(Queued)
      /\ OfKind("error", inbox') = OfKind("error", inbox) \cup {c}
      /\ OfKind("reply", inbox') = OfKind("reply", inbox)
  <2>1. inbox \in Seq(Queued)
    BY DEF IInv, TypeOK
  <2>2. \A k : /\ Append(inbox, m) \in Seq(Queued)
              /\ OfKind(k, Append(inbox, m)) =
                    OfKind(k, inbox) \cup (IF m.kind = k THEN {m.of} ELSE {})
    BY <1>1, <2>1, OfKindAppend
  <2> QED BY <1>1, <1>2, <2>2
<1>4. TypeOK'
  BY <1>2, <1>3 DEF TimerEvent, IInv, TypeOK
<1>5. NotForgotten'
  BY <1>2, <1>3 DEF TimerEvent, IInv, NotForgotten, RepliesIn, ErrorsIn
<1>6. Timed'
  BY <1>2, <1>3 DEF TimerEvent, IInv, Timed
<1>7. Told'
  BY <1>2, <1>3 DEF TimerEvent, IInv, Told, NotForgotten
<1>8. NothingStranded'
  <2>1. ASSUME ~dispatcher, ~owes, NEW i \in DOMAIN inbox'
        PROVE  inbox'[i].kind = "error"
    <3>1. \A j \in DOMAIN inbox : inbox[j].kind = "error"
      BY <2>1 DEF IInv, NothingStranded
    <3>2. inbox'[i] = m \/ (i \in DOMAIN inbox /\ inbox'[i] = inbox[i])
      BY <1>1, <1>2, AppendProperties, LenProperties DEF IInv, TypeOK
    <3> QED BY <1>1, <3>1, <3>2
  <2> QED BY <2>1 DEF TimerEvent, NothingStranded
<1>9. ReceiversAlive' /\ Proxies'
  BY DEF TimerEvent, IInv, ReceiversAlive, Proxies, FieldsSet
<1> QED BY <1>4, <1>5, <1>6, <1>7, <1>8, <1>9 DEF IInv

LEMMA DestroyKeeps ==
    ASSUME IInv, NEW p \in Proxy, ObjectDestroyed(p)
    PROVE  IInv'
<1> DEFINE C == {c \in pendingCalls : Receiver[c] = p}
<1>1. /\ pendingCalls' = pendingCalls \ C /\ attached' = attached \ C
      /\ timeouts' = timeouts \ C /\ pendingTimeouts' = pendingTimeouts \ C
      /\ life' = [life EXCEPT ![p] = "dead"]
  BY DEF ObjectDestroyed, RemoveTimeouts
<1>2. TypeOK'
  BY <1>1 DEF ObjectDestroyed, IInv, TypeOK
<1>3. ReceiversAlive'
  BY <1>1 DEF IInv, ReceiversAlive, TypeOK
<1> HIDE DEF C
<1>4. NotForgotten' /\ Timed' /\ Told' /\ NothingStranded'
  BY <1>1 DEF ObjectDestroyed, IInv, NotForgotten, Timed, Told, NothingStranded,
              RepliesIn, ErrorsIn
<1>5. Proxies'
  BY <1>1 DEF ObjectDestroyed, IInv, Proxies, TypeOK, FieldsSet
<1> QED BY <1>2, <1>3, <1>4, <1>5 DEF IInv

-----------------------------------------------------------------------------
(* The invariant holds.                                                    *)

LEMMA InitIInv == Init => IInv
<1> SUFFICES ASSUME Init PROVE IInv
  OBVIOUS
<1>1. OfKind("reply", inbox) = {} /\ OfKind("error", inbox) = {} /\ OfKind("reply", wire) = {}
  BY DEF Init, OfKind
<1>2. wire \in Seq(Arrival) /\ inbox \in Seq(Queued)
  BY DEF Init
<1>3. heard \in [Proxy -> [Signal -> 0 .. 2]]
  BY DEF Init
<1>4. TypeOK
  BY <1>2, <1>3 DEF Init, TypeOK
<1>5. NotForgotten /\ ReceiversAlive /\ Told /\ Timed /\ Proxies
  BY <1>1 DEF Init, NotForgotten, ReceiversAlive, Told, Timed, Proxies, RepliesIn, ErrorsIn
<1>6. NothingStranded
  BY DEF Init, NothingStranded
<1> QED BY <1>4, <1>5, <1>6 DEF IInv

LEMMA NextIInv ==
    ASSUME IInv, [Next]_vars
    PROVE  IInv'
<1> USE DEF IInv
<1>1. CASE CreateApplication
  <2>1. TypeOK' /\ Proxies'
    BY <1>1 DEF CreateApplication, TypeOK, Proxies, FieldsSet
  <2> QED BY <1>1, <2>1 DEF CreateApplication, NotForgotten, NothingStranded, Timed,
                            Told, ReceiversAlive, RepliesIn, ErrorsIn
<1>2. CASE BindToApplication
  <2>1. TypeOK' /\ Proxies'
    BY <1>2 DEF BindToApplication, TypeOK, Proxies, FieldsSet
  <2> QED BY <1>2, <2>1 DEF BindToApplication, NotForgotten, NothingStranded, Timed,
                            Told, ReceiversAlive, RepliesIn, ErrorsIn
<1>3. CASE SocketRead
  <2>1. PICK n \in 1 .. Len(wire) : Read(n)
    BY <1>3 DEF SocketRead
  <2>2. n \in 0 .. Len(wire)
    OBVIOUS
  <2> QED BY <1>3, <2>1, <2>2, ReadKeeps DEF SocketRead
<1>4. CASE SendWithReply
  <2>1. PICK n \in 1 .. Len(wire) : Read(n)
    BY <1>4 DEF SendWithReply
  <2>2. n \in 0 .. Len(wire) /\ dispatcher \in BOOLEAN
    BY DEF TypeOK
  <2> QED BY <1>4, <2>1, <2>2, ReadKeeps DEF SendWithReply
<1>5. CASE DispatchTimer
  <2>1. PICK n \in 0 .. Len(wire) : DispatchOne(n)
    BY <1>5 DEF DispatchTimer
  <2>2. dispatcher' \/ inbox' = <<>>
    BY <1>5, <2>1 DEF DispatchTimer, DispatchOne
  <2>3. owes' \in BOOLEAN
    BY <1>5 DEF DispatchTimer, TypeOK
  <2> QED BY <1>5, <2>1, <2>2, <2>3, DispatchKeeps DEF DispatchTimer
<1>6. CASE Dispatch
  <2>1. 0 \in 0 .. Len(wire) /\ DispatchOne(0) /\ inbox # <<>>
    BY <1>6, LenProperties DEF Dispatch, TypeOK
  <2>2. dispatcher' = (dispatcher /\ inbox' # <<>>) /\ owes' = (owes /\ inbox' # <<>>)
    BY <1>6, <2>1 DEF Dispatch, DispatchOne
  <2> QED BY <1>6, <2>1, <2>2, DispatchKeeps DEF Dispatch
<1>7. CASE ScheduleDispatch
  <2>1. TypeOK' /\ Proxies'
    BY <1>7 DEF ScheduleDispatch, TypeOK, Proxies, FieldsSet
  <2> QED BY <1>7, <2>1 DEF ScheduleDispatch, NotForgotten, NothingStranded, Timed,
                            Told, ReceiversAlive, RepliesIn, ErrorsIn
<1>8. CASE UNCHANGED vars
  <2>1. TypeOK' /\ Proxies'
    BY <1>8 DEF TypeOK, Proxies, FieldsSet
  <2> QED BY <1>8, <2>1 DEF NotForgotten, NothingStranded, Timed,
                            Told, ReceiversAlive, RepliesIn, ErrorsIn
<1>9. ASSUME NEW c \in Call, TimerEvent(c) \/ SendWithAsyncReply(c)
      PROVE  IInv'
  BY <1>9, TimerKeeps, SendKeeps
<1>10. ASSUME NEW p \in Proxy,
              Construct(p) \/ Reconnect(p) \/ SetField(p) \/ ObjectDestroyed(p)
       PROVE  IInv'
  BY <1>10, ProxyKeeps, DestroyKeeps
<1>11. ASSUME NEW o \in Path, RegisterObject(o) \/ UnregisterObject(o)
       PROVE  IInv'
  BY <1>11, ObjectKeeps
<1>12. CASE World
  BY <1>12, WorldKeeps
<1> HIDE DEF IInv
<1> QED BY <1>1, <1>2, <1>3, <1>4, <1>5, <1>6, <1>7, <1>8, <1>9, <1>10, <1>11, <1>12
        DEF Next, Loop, Program

(* The conjunction that every step preserves.                              *)
THEOREM Invariance == Spec => []IInv
BY InitIInv, NextIInv, PTL DEF Spec

(* The types of the variables, whatever is sent and dispatched when.       *)
THEOREM TypeCorrect == Spec => []TypeOK
<1>1. IInv => TypeOK
  BY DEF IInv
<1> QED BY <1>1, Invariance, PTL

(* No waiting call is forgotten, and none leaves a timeout behind.         *)
THEOREM NoCallForgotten == Spec => []NotForgotten
<1>1. IInv => NotForgotten
  BY DEF IInv
<1> QED BY <1>1, Invariance, PTL

(* qDBusResultReceived finds the receiver alive.                           *)
THEOREM NoReceiverDead == Spec => []ReceiversAlive
<1>1. IInv => ReceiversAlive
  BY DEF IInv
<1> QED BY <1>1, Invariance, PTL

(* A message is left in the queue only by a program that owes a dispatch,  *)
(* or by a timeout.                                                        *)
THEOREM NoMessageStranded == Spec => []NothingStranded
<1>1. IInv => NothingStranded
  BY DEF IInv
<1> QED BY <1>1, Invariance, PTL

(* The cached canSend admits no call without an address.                   *)
THEOREM OnlyAddressedSend == Spec => SendsOnlyAddressed
<1>1. IInv /\ [Next]_vars => [\A c \in sent' \ sent : FieldsSet(aim[Receiver[c]])]_vars
  <2> SUFFICES ASSUME IInv, Next, NEW c \in sent' \ sent
               PROVE  FieldsSet(aim[Receiver[c]])
    OBVIOUS
  <2>1. ASSUME NEW d \in Call, SendWithAsyncReply(d)
        PROVE  FieldsSet(aim[Receiver[c]])
    BY <2>1 DEF SendWithAsyncReply, IInv, Proxies
  <2>2. ASSUME sent' = sent
        PROVE  FALSE
    BY <2>2
  <2>3. ASSUME NEW n \in 0 .. Len(wire), DispatchOne(n)
        PROVE  FALSE
    <3>1. CASE inbox # <<>> /\ Take(Head(inbox))
      BY <3>1 DEF Take, QDBusResultReceived
    <3> QED BY <2>3, <3>1 DEF DispatchOne
  <2>4. CASE DispatchTimer
    BY <2>4, <2>3 DEF DispatchTimer
  <2>5. CASE Dispatch
    <3>1. 0 \in 0 .. Len(wire)
      BY LenProperties DEF IInv, TypeOK
    <3> QED BY <2>5, <3>1, <2>3 DEF Dispatch
  <2>6. CASE World
    BY <2>6 DEF World, Answer, Emit, Invoke
  <2>7. ASSUME NEW p \in Proxy,
               Construct(p) \/ Reconnect(p) \/ SetField(p) \/ ObjectDestroyed(p)
        PROVE  FALSE
    BY <2>7 DEF Construct, Reconnect, SetField, ObjectDestroyed
  <2>8. ASSUME NEW o \in Path, RegisterObject(o) \/ UnregisterObject(o)
        PROVE  FALSE
    BY <2>8 DEF RegisterObject, UnregisterObject
  <2>9. CASE SendWithReply \/ ScheduleDispatch
    BY <2>9 DEF SendWithReply, ScheduleDispatch
  <2>10. CASE CreateApplication \/ BindToApplication \/ SocketRead
    BY <2>10 DEF CreateApplication, BindToApplication, SocketRead
  <2>11. ASSUME NEW d \in Call, TimerEvent(d)
         PROVE  FALSE
    BY <2>11 DEF TimerEvent
  <2> QED BY <2>1, <2>4, <2>5, <2>6, <2>7, <2>8, <2>9, <2>10, <2>11
          DEF Next, Loop, Program
<1> QED BY <1>1, Invariance, PTL DEF Spec, SendsOnlyAddressed

-----------------------------------------------------------------------------
(* A proxy hears a signal once: a signal is in the two queues once at      *)
(* most, not at all before it is emitted, and unheard as long as it is.    *)

Single(q) ==
    \A i, j \in DOMAIN q :
        q[i].kind = "signal" /\ q[j].kind = "signal" /\ q[i].of = q[j].of => i = j

Signals ==
    /\ Single(inbox \o wire)
    /\ OfKind("signal", inbox \o wire) \subseteq emitted
    /\ \A p \in Proxy, s \in Signal :
          /\ heard[p][s] <= 1
          /\ s \notin emitted \/ s \in OfKind("signal", inbox \o wire) => heard[p][s] = 0

(* What dispatching the first message leaves. *)
LEMMA SingleFirst ==
    ASSUME NEW q \in Seq(Queued), q # <<>>, NEW r \in Seq(Queued), Single(q \o r)
    PROVE  /\ Single(Tail(q) \o r)
           /\ OfKind("signal", Tail(q) \o r) \subseteq OfKind("signal", q \o r)
           /\ Head(q).kind = "signal" =>
                 Head(q).of \in OfKind("signal", q \o r) \ OfKind("signal", Tail(q) \o r)
<1> DEFINE s == q \o r
           t == Tail(q) \o r
<1>1. /\ Len(q) \in Nat \ {0} /\ Len(r) \in Nat /\ Head(q) = q[1]
      /\ Tail(q) \in Seq(Queued) /\ Len(Tail(q)) = Len(q) - 1
      /\ \A i \in 1 .. Len(q) - 1 : Tail(q)[i] = q[i + 1]
  BY HeadTailProperties, EmptySeq, LenProperties
<1>2. /\ DOMAIN s = 1 .. Len(q) + Len(r)
      /\ \A i \in 1 .. Len(q) + Len(r) : s[i] = IF i <= Len(q) THEN q[i] ELSE r[i - Len(q)]
  BY <1>1, ConcatProperties, LenProperties
<1>3. /\ DOMAIN t = 1 .. Len(q) - 1 + Len(r)
      /\ \A i \in 1 .. Len(q) - 1 + Len(r) :
            t[i] = IF i <= Len(q) - 1 THEN Tail(q)[i] ELSE r[i - (Len(q) - 1)]
  BY <1>1, ConcatProperties, LenProperties
<1> HIDE DEF s, t
<1>4. \A i \in DOMAIN t : i \in Nat \ {0} /\ i + 1 \in DOMAIN s /\ t[i] = s[i + 1]
  BY <1>1, <1>2, <1>3
<1>5. 1 \in DOMAIN s /\ s[1] = Head(q)
  BY <1>1, <1>2
<1>6. Single(s)
  BY DEF s
<1>7. Single(t)
  BY <1>4, <1>6 DEF Single
<1>8. OfKind("signal", t) \subseteq OfKind("signal", s)
  BY <1>4 DEF OfKind
<1>9. ASSUME Head(q).kind = "signal"
      PROVE  Head(q).of \in OfKind("signal", s) \ OfKind("signal", t)
  <2>1. Head(q).of \in OfKind("signal", s)
    BY <1>5, <1>9 DEF OfKind
  <2>2. ASSUME NEW i \in DOMAIN t, t[i].kind = "signal", t[i].of = Head(q).of
        PROVE  FALSE
    BY <1>4, <1>5, <1>6, <1>9, <2>2 DEF Single
  <2> QED BY <2>1, <2>2 DEF OfKind
<1> QED BY <1>7, <1>8, <1>9 DEF s, t

(* A message that arrives is the last of all. *)
LEMMA SingleLast ==
    ASSUME NEW q \in Seq(Queued), NEW m \in Queued, Single(q),
           m.kind = "signal" => m.of \notin OfKind("signal", q)
    PROVE  Single(Append(q, m))
<1> DEFINE s == Append(q, m)
<1>1. /\ Len(q) \in Nat /\ DOMAIN q = 1 .. Len(q) /\ DOMAIN s = 1 .. Len(q) + 1
      /\ \A i \in 1 .. Len(q) : s[i] = q[i]
      /\ s[Len(q) + 1] = m
  BY AppendProperties, LenProperties
<1> HIDE DEF s
<1>2. \A i \in DOMAIN q : q[i].kind = "signal" => q[i].of \in OfKind("signal", q)
  BY DEF OfKind
<1>3. \A i \in DOMAIN s : i \in DOMAIN q \/ i = Len(q) + 1
  BY <1>1
<1>4. Single(s)
  BY <1>1, <1>2, <1>3 DEF Single
<1> QED BY <1>4 DEF s

(* The error of a call that timed out goes before what is still to be read *)
LEMMA SingleBetween ==
    ASSUME NEW q \in Seq(Queued), NEW r \in Seq(Queued), NEW m \in Queued,
           m.kind # "signal", Single(q \o r)
    PROVE  /\ Single(Append(q, m) \o r)
           /\ OfKind("signal", Append(q, m) \o r) = OfKind("signal", q \o r)
<1> DEFINE s == q \o r
           a == Append(q, m)
           t == a \o r
<1>1. /\ Len(q) \in Nat /\ Len(r) \in Nat
      /\ a \in Seq(Queued) /\ Len(a) = Len(q) + 1
      /\ \A i \in 1 .. Len(q) : a[i] = q[i]
      /\ a[Len(q) + 1] = m
  BY AppendProperties, LenProperties
<1>2. /\ DOMAIN s = 1 .. Len(q) + Len(r)
      /\ \A i \in 1 .. Len(q) + Len(r) : s[i] = IF i <= Len(q) THEN q[i] ELSE r[i - Len(q)]
  BY ConcatProperties, LenProperties
<1> HIDE DEF a
<1>3. /\ DOMAIN t = 1 .. Len(q) + 1 + Len(r)
      /\ \A i \in 1 .. Len(q) + 1 + Len(r) :
            t[i] = IF i <= Len(q) + 1 THEN a[i] ELSE r[i - (Len(q) + 1)]
  <2>1. /\ t \in Seq(Queued) /\ Len(t) = Len(a) + Len(r)
        /\ \A i \in 1 .. Len(a) + Len(r) : t[i] = IF i <= Len(a) THEN a[i] ELSE r[i - Len(a)]
    BY <1>1, ConcatProperties
  <2> HIDE DEF t
  <2>2. DOMAIN t = 1 .. Len(t)
    BY <2>1, LenProperties
  <2> QED BY <1>1, <2>1, <2>2
<1>4. OfKind("signal", t) = OfKind("signal", s)
  <2>1. OfKind("signal", a) = OfKind("signal", q)
    <3>1. OfKind("signal", Append(q, m)) =
             OfKind("signal", q) \cup (IF m.kind = "signal" THEN {m.of} ELSE {})
      BY ONLY q \in Seq(Queued), m \in Queued, OfKindAppend
    <3> QED BY <3>1 DEF a
  <2>2. /\ OfKind("signal", s) = OfKind("signal", q) \cup OfKind("signal", r)
        /\ OfKind("signal", t) = OfKind("signal", a) \cup OfKind("signal", r)
    BY <1>1, OfKindConcat
  <2> QED BY <2>1, <2>2
<1> HIDE DEF s, t
<1> DEFINE at(i) == IF i <= Len(q) THEN i ELSE i - 1
<1>5. ASSUME NEW i \in DOMAIN t, t[i].kind = "signal"
      PROVE  i \in Nat /\ i # Len(q) + 1 /\ at(i) \in DOMAIN s /\ t[i] = s[at(i)]
  <2>1. i \in 1 .. Len(q) + 1 + Len(r) /\ i # Len(q) + 1
    BY <1>1, <1>3, <1>5
  <2>2. CASE i <= Len(q)
    BY <1>1, <1>2, <1>3, <2>1, <2>2
  <2>3. CASE i > Len(q)
    <3>1. at(i) = i - 1 /\ i - 1 \in 1 .. Len(q) + Len(r) /\ i - 1 > Len(q)
      BY <1>1, <2>1, <2>3
    <3>2. i - (Len(q) + 1) = i - 1 - Len(q)
      BY <1>1, <2>1
    <3>3. t[i] = r[i - (Len(q) + 1)]
      <4>1. ~(i <= Len(q) + 1)
        BY <1>1, <2>1, <2>3
      <4> QED BY <1>3, <2>1, <4>1
    <3>4. s[i - 1] = r[i - 1 - Len(q)]
      <4>1. ~(i - 1 <= Len(q))
        BY <1>1, <3>1
      <4> QED BY <1>2, <3>1, <4>1
    <3>5. i - 1 \in DOMAIN s
      BY <1>2, <3>1
    <3>6. i \in Nat /\ t[i] = s[i - 1]
      BY <1>1, <2>1, <3>2, <3>3, <3>4
    <3> QED BY <2>1, <3>1, <3>5, <3>6
  <2> QED BY <1>1, <2>1, <2>2, <2>3
<1>6. Single(s)
  BY DEF s
<1>7. ASSUME NEW i \in DOMAIN t, NEW j \in DOMAIN t,
             t[i].kind = "signal", t[j].kind = "signal", t[i].of = t[j].of
      PROVE  i = j
  <2>1. at(i) = at(j)
    <3> HIDE DEF at
    <3> QED BY <1>5, <1>6, <1>7 DEF Single
  <2> QED BY <1>1, <1>5, <1>7, <2>1
<1>8. Single(t)
  BY <1>7 DEF Single
<1> QED BY <1>4, <1>8 DEF s, t, a

(* Nothing moves, or a prefix of what has arrived is read. *)
LEMMA SameSignals ==
    ASSUME Signals, inbox' \o wire' = inbox \o wire, heard' = heard, emitted' = emitted
    PROVE  Signals'
BY DEF Signals

LEMMA ReadingMoves ==
    ASSUME NEW q \in Seq(Queued), NEW w \in Seq(Queued), NEW n \in 0 .. Len(w)
    PROVE  (q \o SubSeq(w, 1, n)) \o SubSeq(w, n + 1, Len(w)) = q \o w
<1> DEFINE a == SubSeq(w, 1, n)
           b == SubSeq(w, n + 1, Len(w))
<1>1. a \in Seq(Queued) /\ b \in Seq(Queued)
  BY OfKindSplit
<1>2. a \o b = w
  <2>1. Len(w) \in Nat /\ 1 \in 1 .. Len(w) + 1 /\ n \in 1 - 1 .. Len(w) /\ Len(w) \in n .. Len(w)
    BY LenProperties
  <2> QED BY <2>1, ConcatAdjacentSubSeq, SubSeqFull
<1> HIDE DEF a, b
<1>3. (q \o a) \o b = q \o (a \o b)
  BY ONLY q \in Seq(Queued), <1>1, ConcatAssociative
<1>4. (q \o a) \o b = q \o w
  BY <1>2, <1>3
<1> QED BY <1>4 DEF a, b

LEMMA DispatchSignals ==
    ASSUME IInv, Signals, NEW n \in 0 .. Len(wire), DispatchOne(n), emitted' = emitted
    PROVE  Signals'
<1>w. inbox \in Seq(Queued) /\ wire \in Seq(Queued)
  BY Arrives DEF IInv, TypeOK
<1>1. CASE inbox = <<>>
  BY <1>1, SameSignals DEF DispatchOne
<1>2. CASE inbox # <<>>
  <2> DEFINE m == Head(inbox)
             left == OfKind("signal", Tail(inbox) \o wire)
  <2>1. inbox' \o wire' = Tail(inbox) \o wire
    <3>1. Tail(inbox) \in Seq(Queued)
      BY <1>w, <1>2, HeadTailProperties
    <3> QED BY <1>w, <1>2, <3>1, ReadingMoves DEF DispatchOne
  <2>2. /\ Single(Tail(inbox) \o wire)
        /\ left \subseteq OfKind("signal", inbox \o wire)
        /\ m.kind = "signal" => m.of \in OfKind("signal", inbox \o wire) \ left
    BY <1>w, <1>2, SingleFirst DEF Signals
  <2>3. HandleSignal(m)
    BY <1>2 DEF DispatchOne, Take, SignalFilter
  <2> HIDE DEF m, left
  <2>4. ASSUME NEW p \in Proxy, NEW s \in Signal
        PROVE  heard'[p][s] <= 1 /\ (s \notin emitted \/ s \in left => heard'[p][s] = 0)
    <3>1. heard[p][s] \in 0 .. 2 /\ heard[p] \in [Signal -> 0 .. 2] /\ links[p] \in {0, 1}
      BY DEF IInv, TypeOK, Proxies
    <3>2. CASE m.kind = "signal" /\ m.of = s
      <4>1. heard[p][s] = 0 /\ s \in emitted /\ s \notin left
        BY <2>2, <3>2 DEF Signals
      <4>2. heard'[p][s] \in {0, Least(0 + links[p], 2)}
        BY <2>3, <3>1, <3>2, <4>1 DEF HandleSignal
      <4> QED BY <3>1, <4>1, <4>2 DEF Least
    <3>3. CASE ~(m.kind = "signal" /\ m.of = s)
      <4>1. heard'[p][s] = heard[p][s]
        BY <2>3, <3>1, <3>3 DEF HandleSignal
      <4> QED BY <2>2, <4>1 DEF Signals
    <3> QED BY <3>2, <3>3
  <2>5. left \subseteq emitted
    BY <2>2 DEF Signals
  <2> QED BY <2>1, <2>2, <2>4, <2>5 DEF Signals, left
<1> QED BY <1>1, <1>2

LEMMA WorldSignals ==
    ASSUME IInv, Signals, World
    PROVE  Signals'
<1>w. inbox \in Seq(Queued) /\ wire \in Seq(Queued) /\ inbox \o wire \in Seq(Queued)
  <2>1. inbox \in Seq(Queued) /\ wire \in Seq(Queued)
    BY Arrives DEF IInv, TypeOK
  <2> QED BY <2>1, ConcatProperties
<1>1. ASSUME NEW m \in Arrival, Arrive(m), inbox' = inbox, heard' = heard,
             emitted' = emitted \cup (IF m.kind = "signal" THEN {m.of} ELSE {}),
             m.kind = "signal" => m.of \notin emitted
      PROVE  Signals'
  <2>1. m \in Queued
    BY Arrives
  <2>2. inbox' \o wire' = Append(inbox \o wire, m)
    <3>1. <<m>> \in Seq(Queued) /\ wire' = wire \o <<m>>
      BY <1>w, <1>1, <2>1, AppendIsConcat DEF Arrive
    <3>2. (inbox \o wire) \o <<m>> = inbox \o (wire \o <<m>>)
      BY <1>w, <3>1, ConcatAssociative
    <3>3. Append(inbox \o wire, m) = (inbox \o wire) \o <<m>>
      BY <1>w, <2>1, AppendIsConcat
    <3> QED BY <1>1, <3>1, <3>2, <3>3
  <2>3. Single(Append(inbox \o wire, m))
    BY <1>w, <1>1, <2>1, SingleLast DEF Signals
  <2>4. OfKind("signal", Append(inbox \o wire, m)) =
           OfKind("signal", inbox \o wire) \cup (IF m.kind = "signal" THEN {m.of} ELSE {})
    <3> DEFINE q == inbox \o wire
    <3>1. q \in Seq(Queued)
      BY <1>w
    <3> HIDE DEF q
    <3>2. OfKind("signal", Append(q, m)) =
             OfKind("signal", q) \cup (IF m.kind = "signal" THEN {m.of} ELSE {})
      BY ONLY <3>1, <2>1, OfKindAppend
    <3> QED BY <3>2 DEF q
  <2>5. OfKind("signal", inbox' \o wire') \subseteq emitted'
    BY <1>1, <2>2, <2>4 DEF Signals
  <2>6. ASSUME NEW p \in Proxy, NEW s \in Signal,
               s \notin emitted' \/ s \in OfKind("signal", inbox' \o wire')
        PROVE  s \notin emitted \/ s \in OfKind("signal", inbox \o wire)
    BY <1>1, <2>2, <2>4, <2>6
  <2> QED BY <1>1, <2>2, <2>3, <2>5, <2>6 DEF Signals
<1>2. ASSUME NEW c \in Call, Answer(c)
      PROVE  Signals'
  <2>1. Message("reply", c) \in Arrival /\ Message("reply", c).kind # "signal"
    BY DEF Arrival, Message
  <2> QED BY <1>1, <1>2, <2>1 DEF Answer
<1>3. ASSUME NEW i \in Invocation, Invoke(i)
      PROVE  Signals'
  <2>1. Message("call", i) \in Arrival /\ Message("call", i).kind # "signal"
    BY DEF Arrival, Message
  <2> QED BY <1>1, <1>3, <2>1 DEF Invoke
<1>4. ASSUME NEW s \in Signal, Emit(s)
      PROVE  Signals'
  <2>1. /\ Message("signal", s) \in Arrival /\ Message("signal", s).kind = "signal"
        /\ Message("signal", s).of = s
    BY DEF Arrival, Message
  <2> QED BY <1>1, <1>4, <2>1 DEF Emit
<1> QED BY <1>2, <1>3, <1>4 DEF World

LEMMA NextSignals ==
    ASSUME IInv, Signals, [Next]_vars
    PROVE  Signals'
<1>w. inbox \in Seq(Queued) /\ wire \in Seq(Queued)
  BY Arrives DEF IInv, TypeOK
<1>1. CASE SocketRead \/ SendWithReply
  <2>1. PICK n \in 1 .. Len(wire) : Read(n)
    BY <1>1 DEF SocketRead, SendWithReply
  <2>2. n \in 0 .. Len(wire) /\ heard' = heard /\ emitted' = emitted
    BY <1>1 DEF SocketRead, SendWithReply
  <2>3. inbox' \o wire' = inbox \o wire
    BY <1>w, <2>1, <2>2, ReadingMoves DEF Read
  <2> QED BY <2>2, <2>3, SameSignals
<1>2. CASE DispatchTimer
  BY <1>2, DispatchSignals DEF DispatchTimer
<1>3. CASE Dispatch
  <2>1. 0 \in 0 .. Len(wire)
    BY LenProperties DEF IInv, TypeOK
  <2> QED BY <1>3, <2>1, DispatchSignals DEF Dispatch
<1>4. ASSUME NEW c \in Call, TimerEvent(c)
      PROVE  Signals'
  <2>1. Message("error", c) \in Queued /\ Message("error", c).kind # "signal"
    BY DEF Queued, Message
  <2>2. /\ inbox' = Append(inbox, Message("error", c)) /\ wire' = wire
        /\ heard' = heard /\ emitted' = emitted
    BY <1>4 DEF TimerEvent
  <2>3. /\ Single(inbox' \o wire')
        /\ OfKind("signal", inbox' \o wire') = OfKind("signal", inbox \o wire)
    BY <1>w, <2>1, <2>2, SingleBetween DEF Signals
  <2> QED BY <2>2, <2>3 DEF Signals
<1>5. CASE World
  BY <1>5, WorldSignals
<1>6. ASSUME NEW c \in Call, SendWithAsyncReply(c)
      PROVE  Signals'
  BY <1>6, SameSignals DEF SendWithAsyncReply
<1>7. ASSUME NEW p \in Proxy,
             Construct(p) \/ Reconnect(p) \/ SetField(p) \/ ObjectDestroyed(p)
      PROVE  Signals'
  BY <1>7, SameSignals DEF Construct, Reconnect, SetField, ObjectDestroyed
<1>8. ASSUME NEW o \in Path, RegisterObject(o) \/ UnregisterObject(o)
      PROVE  Signals'
  BY <1>8, SameSignals DEF RegisterObject, UnregisterObject
<1>9. CASE CreateApplication \/ BindToApplication \/ ScheduleDispatch \/ UNCHANGED vars
  BY <1>9, SameSignals DEF CreateApplication, BindToApplication, ScheduleDispatch
<1> QED BY <1>1, <1>2, <1>3, <1>4, <1>5, <1>6, <1>7, <1>8, <1>9 DEF Next, Loop, Program

(* However often a proxy changes its connection and whatever it is told to *)
(* listen for, no signal reaches it twice.                                 *)
THEOREM SignalsHeardOnce == Spec => []HeardOnce
<1>1. Init => Signals
  <2> SUFFICES ASSUME Init PROVE Signals
    OBVIOUS
  <2>1. inbox \o wire = <<>>
    BY DEF Init
  <2> QED BY <2>1 DEF Init, Signals, Single, OfKind
<1>2. IInv /\ Signals /\ [Next]_vars => Signals'
  BY NextSignals
<1>3. IInv /\ Signals => HeardOnce
  BY DEF IInv, Proxies, Signals, HeardOnce
<1> QED BY <1>1, <1>2, <1>3, Invariance, PTL DEF Spec

-----------------------------------------------------------------------------
(* The connection implements AsyncCalls.                                   *)

Stages == [c \in Call |-> Stage(c)]

LEMMA CallsUnchanged ==
    ASSUME UNCHANGED <<callVars, answered>>
    PROVE  UNCHANGED <<Stages, answered>>
BY DEF Stages, Stage

LEMMA DispatchTells ==
    ASSUME IInv, NEW n \in 0 .. Len(wire), DispatchOne(n), answered' = answered
    PROVE  (\E c \in Call : Async!Tell(c)) \/ UNCHANGED <<Stages, answered>>
<1>1. CASE inbox = <<>>
  BY <1>1, CallsUnchanged DEF DispatchOne
<1>2. CASE inbox # <<>>
  <2> DEFINE m == Head(inbox)
             done == IF m.kind \in {"reply", "error"} THEN pendingCalls \cap {m.of} ELSE {}
  <2>1. m \in Queued /\ Take(m)
    BY <1>2, OfKindHead DEF DispatchOne, IInv, TypeOK
  <2>2. m.kind = "reply" => m.of \in answered
    <3>1. OfKind("reply", inbox) = OfKind("reply", Tail(inbox)) \cup
             (IF m.kind = "reply" THEN {m.of} ELSE {})
      BY <1>2, OfKindHead DEF IInv, TypeOK
    <3> QED BY <3>1 DEF IInv, Told
  <2>3. /\ pendingCalls' = pendingCalls \ done
        /\ \A c \in Call : told'[c] = IF c \in done THEN m.kind ELSE told[c]
        /\ sent' = sent
    BY <2>1, Taking DEF IInv
  <2> HIDE DEF m
  <2>4. CASE done = {}
    <3>1. \A c \in Call : Stage(c)' = Stage(c)
      BY <2>3, <2>4 DEF Stage
    <3> QED BY <3>1 DEF Stages
  <2>5. CASE done # {}
    <3>1. m.kind \in {"reply", "error"} /\ m.of \in Call /\ done = {m.of}
      BY <2>5 DEF IInv, TypeOK
    <3>2. PICK c \in Call, k \in {"reply", "error"} :
             /\ c \in pendingCalls /\ c \in sent /\ done = {c}
             /\ k = m.kind
             /\ k = "reply" => c \in answered
      BY <2>2, <2>5, <3>1 DEF IInv, Told
    <3> HIDE DEF done
    <3>3. Stage(c) = "waiting" /\ Stage(c)' = k
      BY <2>3, <3>2 DEF Stage
    <3>4. ASSUME NEW d \in Call, d # c
          PROVE  Stage(d)' = Stage(d)
      <4>1. told'[d] = told[d] /\ (d \in pendingCalls' <=> d \in pendingCalls)
        BY <2>3, <3>2, <3>4
      <4> QED BY <2>3, <4>1 DEF Stage
    <3>5. Stages' = [Stages EXCEPT ![c] = k] /\ Stages[c] = "waiting"
      BY <3>3, <3>4 DEF Stages
    <3> QED BY <3>2, <3>5 DEF Async!Tell, Stages
  <2> QED BY <2>4, <2>5
<1> QED BY <1>1, <1>2

LEMMA StepImplements ==
    ASSUME IInv, [Next]_vars
    PROVE  [Async!Next]_<<Stages, answered>>
<1>1. ASSUME NEW c \in Call, SendWithAsyncReply(c)
      PROVE  Async!Send(c)
  <2>1. c \notin sent /\ sent' = sent \cup {c} /\ pendingCalls' = pendingCalls \cup {c}
        /\ told' = told /\ answered' = answered
    BY <1>1 DEF SendWithAsyncReply
  <2>2. Stage(c) = "idle" /\ Stage(c)' = "waiting"
        /\ \A d \in Call : d # c => Stage(d)' = Stage(d)
    BY <2>1 DEF Stage
  <2>3. Stages[c] = "idle" /\ Stages' = [Stages EXCEPT ![c] = "waiting"]
    BY <2>2 DEF Stages
  <2> QED BY <2>1, <2>3 DEF Async!Send, Stages
<1>2. ASSUME NEW c \in Call, Answer(c)
      PROVE  Async!Answer(c)
  <2>1. c \in sent \ answered /\ answered' = answered \cup {c} /\ UNCHANGED callVars
    BY <1>2 DEF Answer
  <2>2. Stage(c) # "idle"
    BY <2>1 DEF Stage, IInv, TypeOK
  <2>3. Stages[c] # "idle" /\ Stages' = Stages
    BY <2>1, <2>2 DEF Stages, Stage
  <2> QED BY <2>1, <2>3 DEF Async!Answer, Stages
<1>3. ASSUME NEW p \in Proxy, ObjectDestroyed(p)
      PROVE  Async!Cancel
  <2> DEFINE C == {c \in pendingCalls : Receiver[c] = p}
  <2>1. /\ pendingCalls' = pendingCalls \ C /\ sent' = sent /\ told' = told
        /\ answered' = answered /\ C \subseteq pendingCalls
    BY <1>3 DEF ObjectDestroyed
  <2> HIDE DEF C
  <2>2. pendingCalls \subseteq Call /\ \A c \in pendingCalls : c \in sent /\ told[c] = "no"
    BY DEF IInv, TypeOK, Told
  <2>3. \A c \in C : c \in Call /\ Stage(c) = "waiting" /\ Stage(c)' = "cancelled"
    BY <2>1, <2>2 DEF Stage
  <2>4. \A c \in Call : c \notin C => Stage(c)' = Stage(c)
    BY <2>1 DEF Stage
  <2>5. C \in SUBSET {c \in Call : Stages[c] = "waiting"}
    BY <2>3 DEF Stages
  <2>6. Stages' = [c \in Call |-> IF c \in C THEN "cancelled" ELSE Stages[c]]
    BY <2>3, <2>4 DEF Stages
  <2> QED BY <2>1, <2>5, <2>6 DEF Async!Cancel, Stages
<1>4. CASE DispatchTimer
  BY <1>4, DispatchTells DEF DispatchTimer, Async!Next
<1>5. CASE Dispatch
  <2>1. 0 \in 0 .. Len(wire)
    BY LenProperties DEF IInv, TypeOK
  <2> QED BY <1>5, <2>1, DispatchTells DEF Dispatch, Async!Next
<1>6. CASE UNCHANGED <<callVars, answered>>
  BY <1>6, CallsUnchanged
<1>7. ASSUME CreateApplication \/ BindToApplication \/ SocketRead
                \/ SendWithReply \/ ScheduleDispatch \/ UNCHANGED vars
      PROVE  UNCHANGED <<callVars, answered>>
  BY <1>7 DEF CreateApplication, BindToApplication, SocketRead, SendWithReply, ScheduleDispatch
<1>8. ASSUME NEW p \in Proxy, Construct(p) \/ Reconnect(p) \/ SetField(p)
      PROVE  UNCHANGED <<callVars, answered>>
  BY <1>8 DEF Construct, Reconnect, SetField
<1>9. ASSUME NEW o \in Path, RegisterObject(o) \/ UnregisterObject(o)
      PROVE  UNCHANGED <<callVars, answered>>
  BY <1>9 DEF RegisterObject, UnregisterObject
<1>10. ASSUME NEW c \in Call, TimerEvent(c)
       PROVE  UNCHANGED <<callVars, answered>>
  BY <1>10 DEF TimerEvent
<1>11. ASSUME NEW s \in Signal, Emit(s)
       PROVE  UNCHANGED <<callVars, answered>>
  BY <1>11 DEF Emit
<1>12. ASSUME NEW i \in Invocation, Invoke(i)
       PROVE  UNCHANGED <<callVars, answered>>
  BY <1>12 DEF Invoke
<1> QED BY <1>1, <1>2, <1>3, <1>4, <1>5, <1>6, <1>7, <1>8, <1>9, <1>10, <1>11, <1>12
        DEF Next, Loop, Program, World, Async!Next

(* Each call ends at most once, with a reply the service sent or an error. *)
THEOREM Refinement == Spec => ImplementsAsyncCalls
<1>1. Init => Async!Init
  BY DEF Init, Async!Init, Stage
<1>2. IInv /\ [Next]_vars => [Async!Next]_<<Stages, answered>>
  BY StepImplements
<1> QED BY <1>1, <1>2, Invariance, PTL
        DEF Spec, ImplementsAsyncCalls, Async!Spec, Stages

(* What a step of AsyncCalls may do to one call. *)
LEMMA StageStep ==
    ASSUME Async!Next, NEW c \in Call
    PROVE  /\ Stages[c] \in {"reply", "error", "cancelled"} => Stages'[c] = Stages[c]
           /\ Stages'[c] = "reply" => Stages[c] = "reply" \/ c \in answered
           /\ answered \subseteq answered'
<1>1. DOMAIN Stages = Call
  BY DEF Stages
<1>2. CASE Async!Cancel
  BY <1>2 DEF Async!Cancel, Stages
<1>3. ASSUME NEW k \in Call, Async!Send(k) \/ Async!Answer(k) \/ Async!Tell(k)
      PROVE  /\ Stages[c] \in {"reply", "error", "cancelled"} => Stages'[c] = Stages[c]
             /\ Stages'[c] = "reply" => Stages[c] = "reply" \/ c \in answered
             /\ answered \subseteq answered'
  <2>1. CASE Async!Send(k)
    BY <1>1, <2>1 DEF Async!Send, Stages
  <2>2. CASE Async!Answer(k)
    BY <2>2 DEF Async!Answer, Stages
  <2>3. CASE Async!Tell(k)
    BY <1>1, <2>3 DEF Async!Tell, Stages
  <2> QED BY <1>3, <2>1, <2>2, <2>3
<1> QED BY <1>2, <1>3 DEF Async!Next

(* How a call ended does not change: a reply that comes after the timeout, *)
(* a timer that fires after the reply, or a receiver that is destroyed     *)
(* later tells nobody anything else.                                       *)
THEOREM EndsAreFinal ==
    Spec => [][\A c \in Call : Stages[c] \in {"reply", "error", "cancelled"}
                                => Stages'[c] = Stages[c]]_<<Stages, answered>>
<1> DEFINE Final == \A c \in Call : Stages[c] \in {"reply", "error", "cancelled"}
                                     => Stages'[c] = Stages[c]
<1>1. [Async!Next]_<<Stages, answered>> => [Final]_<<Stages, answered>>
  BY StageStep
<1> QED BY <1>1, Refinement, PTL DEF ImplementsAsyncCalls, Async!Spec, Stages

(* A receiver that was told of a reply was told of one the service sent.   *)
THEOREM RepliesWereSent ==
    Spec => [](\A c \in Call : Stages[c] = "reply" => c \in answered)
<1> DEFINE Sent == \A c \in Call : Stages[c] = "reply" => c \in answered
<1>1. Async!Init => Sent
  BY DEF Async!Init, Stages
<1>2. Sent /\ [Async!Next]_<<Stages, answered>> => Sent'
  <2>1. ASSUME Sent, Async!Next PROVE Sent'
    BY <2>1, StageStep
  <2> QED BY <2>1
<1> QED BY <1>1, <1>2, Refinement, PTL DEF ImplementsAsyncCalls, Async!Spec, Stages

=============================================================================
