----------------------------- MODULE QDBusProofs -----------------------------
(***************************************************************************)
(* Theorems about the objects a program uses of the D-Bus bindings: its    *)
(* connections (QDBusConnections), for any handles, names, buses and       *)
(* objects, and the values it makes (QDBusContainers), of any size and     *)
(* number, with any basic types.                                           *)
(***************************************************************************)
EXTENDS QDBusConnections, QDBusContainers, FiniteSetTheorems, SequenceTheorems, TLAPS

-----------------------------------------------------------------------------
(* Connections.                                                            *)

(* Those of S that lead to p.                                              *)
Leading(S, to, p) == {x \in S : to[x] = p}
Elements(s) == {s[i] : i \in DOMAIN s}
Distinct(s) == \A i, j \in DOMAIN s : s[i] = s[j] => i = j

(* What a counter counts is finite, and a handle that does not exist leads *)
(* nowhere.                                                                *)
Countable ==
    /\ \A h \in Handle \ handles : d[h] = NoPriv
    /\ \A p \in Private : IsFiniteSet(Leading(handles, d, p)) /\ IsFiniteSet(Leading(Name, registry, p))

(* A private that does not exist has no part in anything but what libdbus  *)
(* was left with; it exists until the program closed its name, for the     *)
(* manager counts as well.                                                 *)
Lives ==
    \A p \in Private :
        /\ life[p] # "live" => connection[p] = NoBus /\ watcher[p] = "none"
        /\ life[p] = "unborn" => opened[p] = NoBus /\ p \notin closed
        /\ life[p] = "freed" => p \in closed
        /\ life[p] = "live" /\ p \notin closed => Leading(Name, registry, p) # {}

(* libdbus knows of a bus only privates opened to it, each once, and there *)
(* is one that has the watch functions since there is one at all.          *)
Opened ==
    /\ \A b \in Bus :
          /\ owner[b] # NoPriv => opened[owner[b]] = b
          /\ \A p \in Elements(filters[b]) : opened[p] = b
          /\ Distinct(filters[b])
    /\ \A p \in Private, b \in Bus :
          /\ opened[p] = b => owner[b] # NoPriv
          /\ connection[p] = b => opened[p] = b /\ p \in Elements(filters[b])
    /\ \A p \in between : opened[p] # NoBus
    /\ app = "none" => between = {}

(* What the watcher is of who has the watch functions and a name: it       *)
(* listens from the start if it was opened with an application there, is   *)
(* made to by the binding if not, and deaf if it listened before.          *)
WatcherOf(p) ==
    CASE app = "none"  -> "waiting"
      [] app = "bound" -> IF p \in between THEN "dropped" ELSE "listening"
      [] OTHER         -> IF p \in between THEN "listening" ELSE "waiting"

Listens ==
    \A b \in Bus, p \in Private \ closed :
        owner[b] = p /\ life[p] = "live" /\ app # "crashed" => watcher[p] = WatcherOf(p)

IInv == TypeOK /\ Countable /\ RefsCount /\ Lives /\ Opened /\ Listens /\ OneListener

USE ConstantsOK DEF Pointer

-----------------------------------------------------------------------------
(* Counting.                                                               *)

LEMMA CardinalityStep ==
    ASSUME NEW S, IsFiniteSet(S), NEW x
    PROVE  /\ Cardinality(S) \in Nat
           /\ IsFiniteSet(S \cup {x}) /\ IsFiniteSet(S \ {x})
           /\ x \notin S => Cardinality(S \cup {x}) = Cardinality(S) + 1
           /\ x \in S => Cardinality(S \ {x}) = Cardinality(S) - 1
           /\ x \in S => Cardinality(S) > 0
           /\ S = {} <=> Cardinality(S) = 0
<1>1. Cardinality(S) \in Nat /\ (S = {} <=> Cardinality(S) = 0)
      BY FS_CardinalityType, FS_EmptySet
<1>2. /\ IsFiniteSet(S \cup {x})
      /\ x \notin S => Cardinality(S \cup {x}) = Cardinality(S) + 1
      BY FS_AddElement
<1>3. /\ IsFiniteSet(S \ {x})
      /\ x \in S => Cardinality(S \ {x}) = Cardinality(S) - 1
      BY FS_RemoveElement
<1>4. x \in S => Cardinality(S) > 0
      BY <1>1
<1> QED BY <1>1, <1>2, <1>3, <1>4

(* A private that a handle or a name leads to is counted, and lives.       *)
LEMMA Referenced ==
    ASSUME TypeOK, Countable, RefsCount, NEW p \in Private,
           Leading(handles, d, p) # {} \/ Leading(Name, registry, p) # {}
    PROVE  ref[p] > 0 /\ life[p] = "live"
<1>1. IsFiniteSet(Leading(handles, d, p)) /\ IsFiniteSet(Leading(Name, registry, p))
      BY DEF Countable
<1>2. /\ Cardinality(Leading(handles, d, p)) \in Nat /\ Cardinality(Leading(Name, registry, p)) \in Nat
      /\ Leading(handles, d, p) # {} => Cardinality(Leading(handles, d, p)) # 0
      /\ Leading(Name, registry, p) # {} => Cardinality(Leading(Name, registry, p)) # 0
      BY <1>1, CardinalityStep
<1>3. ref[p] = Cardinality(Leading(handles, d, p)) + Cardinality(Leading(Name, registry, p))
      BY DEF RefsCount, Leading
<1>4. ref[p] > 0
      BY <1>2, <1>3
<1> QED BY <1>4 DEF RefsCount

(* ... and nothing leads to one that does not live.                        *)
LEMMA Unreachable ==
    ASSUME TypeOK, Countable, RefsCount, NEW p \in Private, life[p] # "live"
    PROVE  Leading(handles, d, p) = {} /\ Leading(Name, registry, p) = {} /\ ref[p] = 0
<1>1. Leading(handles, d, p) = {} /\ Leading(Name, registry, p) = {}
      BY Referenced
<1>2. Cardinality(Leading(handles, d, p)) = 0 /\ Cardinality(Leading(Name, registry, p)) = 0
      BY <1>1, FS_EmptySet
<1> QED BY <1>1, <1>2 DEF RefsCount, Leading

(* Whatever is let go of, at most that private is deleted, when nothing    *)
(* leads to it any more.                                                   *)
Deleted(p) == life[p] = "live" /\ life'[p] = "freed" /\ connection'[p] = NoBus /\ watcher'[p] = "none"
Kept(p) == life'[p] = life[p] /\ connection'[p] = connection[p] /\ watcher'[p] = watcher[p]

LEMMA CountedOK ==
    ASSUME TypeOK, RefsCount, NEW new \in Pointer, NEW old \in Pointer,
           new # NoPriv => ref[new] > 0, old # NoPriv => ref[old] > 0,
           ref' = Counted(new, old), Free(Unreferenced(ref', old))
    PROVE  /\ ref' \in [Private -> Nat]
           /\ life' \in [Private -> {"unborn", "live", "freed"}]
           /\ connection' \in [Private -> Bus \cup {NoBus}]
           /\ watcher' \in [Private -> Watchers]
           /\ \A p \in Private :
                 /\ ref'[p] = ref[p] + One(p = new) - One(p = old)
                 /\ life'[p] = "live" <=> ref'[p] > 0
                 /\ Kept(p) \/ (p = old /\ ref'[p] = 0 /\ Deleted(p))
<1>1. \A p \in Private : ref'[p] = ref[p] + One(p = new) - One(p = old)
      BY DEF Counted
<1>2. \A p \in Private : ref[p] \in Nat /\ One(p = new) \in {0, 1} /\ One(p = old) \in {0, 1}
      BY DEF TypeOK, One
<1>3. \A p \in Private : ref'[p] \in Nat
      BY <1>1, <1>2 DEF One
<1>4. ref' \in [Private -> Nat]
      BY <1>3 DEF Counted
<1>5. /\ life' \in [Private -> {"unborn", "live", "freed"}]
      /\ connection' \in [Private -> Bus \cup {NoBus}]
      /\ watcher' \in [Private -> Watchers]
      BY DEF Free, TypeOK, Watchers
<1>6. ASSUME NEW p \in Private
      PROVE  /\ life'[p] = "live" <=> ref'[p] > 0
             /\ Kept(p) \/ (p = old /\ ref'[p] = 0 /\ Deleted(p))
  <2>1. CASE p = old /\ ref'[p] = 0
    <3>1. life[p] = "live"
          BY <2>1 DEF RefsCount
    <3>2. p \in Unreferenced(ref', old)
          BY <2>1 DEF Unreferenced
    <3>3. Deleted(p)
          BY <3>1, <3>2 DEF Free, Deleted
    <3> QED BY <2>1, <3>3 DEF Deleted
  <2>2. CASE ~(p = old /\ ref'[p] = 0)
    <3>1. p \notin Unreferenced(ref', old)
          BY <2>2 DEF Unreferenced
    <3>2. Kept(p)
          BY <3>1 DEF Free, Kept
    <3>3. ref'[p] > 0 <=> ref[p] > 0
      <4>1. ref'[p] \in Nat /\ ref[p] \in Nat
            BY <1>2, <1>3
      <4>2. CASE p = old
            BY <2>2, <4>1, <4>2
      <4>3. CASE p # old /\ p = new
            BY <1>1, <4>1, <4>3 DEF One
      <4>4. CASE p # old /\ p # new
            BY <1>1, <4>1, <4>4 DEF One
      <4> QED BY <4>2, <4>3, <4>4
    <3> QED BY <3>2, <3>3 DEF RefsCount, Kept
  <2> QED BY <2>1, <2>2
<1> QED BY <1>1, <1>4, <1>5, <1>6

(* What libdbus knows is none the worse for it.                            *)
LEMMA LibraryOK ==
    ASSUME IInv, \A p \in Private : Kept(p) \/ Deleted(p),
           UNCHANGED <<app, libVars, opened, between>>, closed \subseteq closed'
    PROVE  Opened' /\ Listens' /\ OneListener'
<1>1. Opened'
      BY DEF IInv, Opened, Kept, Deleted, libVars
<1>2. Listens'
      BY DEF IInv, Listens, WatcherOf, Kept, Deleted, libVars
<1>3. OneListener'
      BY DEF IInv, OneListener, Kept, Deleted, libVars
<1> QED BY <1>1, <1>2, <1>3

-----------------------------------------------------------------------------
(* Handles.                                                                *)

(* Who a handle leads to is counted once more, who it led to once less.    *)
LEMMA HoldersStep ==
    ASSUME IInv, NEW h \in Handle, NEW new \in Pointer, d' = [d EXCEPT ![h] = new],
           \/ handles' = handles \cup {h} /\ (h \notin handles => d[h] = NoPriv)
           \/ handles' = handles \ {h} /\ new = NoPriv
    PROVE  \A p \in Private :
              /\ Leading(handles', d', p) = IF p = new THEN Leading(handles, d, p) \cup {h} ELSE Leading(handles, d, p) \ {h}
              /\ h \in Leading(handles, d, p) <=> p = d[h]
<1>1. handles \subseteq Handle /\ d \in [Handle -> Pointer]
      BY DEF IInv, TypeOK
<1>2. \A g \in Handle \ handles : d[g] = NoPriv
      BY DEF IInv, Countable
<1> TAKE p \in Private
<1>3. h \in Leading(handles, d, p) <=> p = d[h]
      BY <1>1, <1>2 DEF Leading
<1>4. CASE p = new
  <2>1. handles' = handles \cup {h}
        BY <1>4
  <2> QED BY <1>1, <1>3, <1>4, <2>1 DEF Leading
<1>5. CASE p # new
      BY <1>1, <1>3, <1>5 DEF Leading
<1> QED BY <1>3, <1>4, <1>5

(* A handle is given a value that leads to somebody who lives, or to       *)
(* nobody, or goes.                                                        *)
LEMMA PointOK ==
    ASSUME IInv, NEW h \in Handle, NEW new \in Pointer, new # NoPriv => ref[new] > 0,
           Point(h, new),
           \/ handles' = handles \cup {h}
           \/ handles' = handles \ {h} /\ new = NoPriv,
           UNCHANGED <<app, registry, libVars, opened, between, closed>>
    PROVE  IInv'
<1>1. TypeOK /\ Countable /\ RefsCount /\ Lives
      BY DEF IInv
<1>2. d[h] \in Pointer /\ (h \notin handles => d[h] = NoPriv)
      BY <1>1 DEF TypeOK, Countable
<1>3. \A p \in Private :
         /\ Leading(handles', d', p) = IF p = new THEN Leading(handles, d, p) \cup {h} ELSE Leading(handles, d, p) \ {h}
         /\ h \in Leading(handles, d, p) <=> p = d[h]
      BY <1>2, HoldersStep DEF Point
<1>4. d[h] # NoPriv => ref[d[h]] > 0
      BY <1>1, <1>2, <1>3, Referenced
<1>5. /\ ref' \in [Private -> Nat]
      /\ life' \in [Private -> {"unborn", "live", "freed"}]
      /\ connection' \in [Private -> Bus \cup {NoBus}]
      /\ watcher' \in [Private -> Watchers]
      /\ \A p \in Private :
            /\ ref'[p] = ref[p] + One(p = new) - One(p = d[h])
            /\ life'[p] = "live" <=> ref'[p] > 0
            /\ Kept(p) \/ (p = d[h] /\ ref'[p] = 0 /\ Deleted(p))
      BY <1>1, <1>2, <1>4, CountedOK DEF Point
<1>6. TypeOK'
      BY <1>1, <1>5 DEF TypeOK, Point, libVars
<1>7. \A p \in Private : Leading(Name, registry', p) = Leading(Name, registry, p)
      OBVIOUS
<1>8. ASSUME NEW p \in Private
      PROVE  /\ IsFiniteSet(Leading(handles', d', p)) /\ IsFiniteSet(Leading(Name, registry', p))
             /\ ref'[p] = Cardinality(Leading(handles', d', p)) + Cardinality(Leading(Name, registry', p))
  <2> DEFINE before == Leading(handles, d, p)
             after  == Leading(handles', d', p)
  <2>1. /\ IsFiniteSet(before) /\ IsFiniteSet(Leading(Name, registry, p))
        /\ ref[p] = Cardinality(before) + Cardinality(Leading(Name, registry, p))
        BY <1>1 DEF Countable, RefsCount, Leading
  <2>2. /\ Cardinality(before) \in Nat /\ Cardinality(Leading(Name, registry, p)) \in Nat
        /\ IsFiniteSet(before \cup {h}) /\ IsFiniteSet(before \ {h})
        /\ h \notin before => Cardinality(before \cup {h}) = Cardinality(before) + 1
        /\ h \in before => Cardinality(before \ {h}) = Cardinality(before) - 1
        BY <2>1, CardinalityStep
  <2>3. /\ h \in before => before \cup {h} = before
        /\ h \notin before => before \ {h} = before
        OBVIOUS
  <2>4. Cardinality(after) = Cardinality(before) + One(p = new) - One(p = d[h])
    <3>1. /\ after = IF p = new THEN before \cup {h}
                                                   ELSE before \ {h}
          /\ h \in before <=> p = d[h]
          BY <1>3
    <3>2. One(p = new) = (IF p = new THEN 1 ELSE 0) /\ One(p = d[h]) = IF p = d[h] THEN 1 ELSE 0
          BY DEF One
    <3>3. Cardinality(after) =
            IF p = new THEN Cardinality(before \cup {h})
                       ELSE Cardinality(before \ {h})
          BY <3>1, Zenon
    <3>4. /\ h \in before =>
                Cardinality(before \cup {h}) = Cardinality(before)
          /\ h \notin before =>
                Cardinality(before \ {h}) = Cardinality(before)
          BY <2>3, Zenon
    <3>5. h \in before <=> p = d[h]
          BY <3>1
    <3> QED BY ONLY <2>2, <3>2, <3>3, <3>4, <3>5
  <2>5. /\ Cardinality(after) = Cardinality(before) + One(p = new) - One(p = d[h])
        /\ ref'[p] = ref[p] + One(p = new) - One(p = d[h])
        /\ One(p = new) \in {0, 1} /\ One(p = d[h]) \in {0, 1}
        BY <1>5, <2>4 DEF One
  <2>6. IsFiniteSet(after)
        BY <1>3, <2>2
  <2> QED BY <1>7, <2>1, <2>2, <2>5, <2>6
<1>9. Countable'
  <2>1. \A g \in Handle \ handles' : d'[g] = NoPriv
    <3>1. d' = [d EXCEPT ![h] = new] /\ d \in [Handle -> Pointer]
          BY <1>1 DEF Point, TypeOK
    <3>2. \A g \in Handle \ handles : d[g] = NoPriv
          BY <1>1 DEF Countable
    <3> QED BY <3>1, <3>2
  <2> QED BY <1>8, <2>1 DEF Countable
<1>10. RefsCount'
      BY <1>5, <1>8 DEF RefsCount, Leading
<1>11. Lives'
  <2>1. ASSUME NEW p \in Private, p = d[h], ref'[p] = 0, life[p] = "live"
        PROVE  p \in closed
    <3>1. /\ Cardinality(Leading(handles', d', p)) \in Nat /\ Cardinality(Leading(Name, registry', p)) \in Nat
          /\ Cardinality(Leading(handles', d', p)) + Cardinality(Leading(Name, registry', p)) = 0
          BY <1>8, <2>1, FS_CardinalityType
    <3>2. Leading(Name, registry', p) = {}
          BY <1>8, <3>1, FS_EmptySet
    <3> QED BY <1>1, <1>7, <2>1, <3>2 DEF Lives
  <2>2. closed' = closed /\ opened' = opened
        OBVIOUS
  <2> QED BY <1>1, <1>5, <1>7, <2>1, <2>2 DEF Lives, Kept, Deleted
<1>12. Opened' /\ Listens' /\ OneListener'
      BY <1>5, LibraryOK
<1> QED BY <1>6, <1>9, <1>10, <1>11, <1>12 DEF IInv

-----------------------------------------------------------------------------
(* Names.                                                                  *)

(* A name is closed: the private is counted once less.                     *)
LEMMA RemoveOK ==
    ASSUME IInv, NEW n \in Name, RemoveConnection(n)
    PROVE  IInv'
<1> DEFINE old == registry[n]
<1>1. TypeOK /\ Countable /\ RefsCount /\ Lives
      BY DEF IInv
<1>2. /\ old \in Private /\ NoPriv \in Pointer
      /\ registry' = [registry EXCEPT ![n] = NoPriv] /\ closed' = closed \cup {old}
      /\ ref' = Counted(NoPriv, old) /\ Free(Unreferenced(ref', old))
      /\ UNCHANGED <<app, handles, d, libVars, opened, between>>
      BY <1>1 DEF RemoveConnection, TypeOK, handleVars
<1>3. \A p \in Private :
         /\ Leading(Name, registry', p) = Leading(Name, registry, p) \ {n}
         /\ n \in Leading(Name, registry, p) <=> p = old
      BY <1>1, <1>2 DEF TypeOK, Leading
<1>4. Leading(Name, registry, old) # {}
      BY <1>2, <1>3
<1> HIDE DEF old
<1>5. ref[old] > 0
      BY <1>1, <1>2, <1>4, Referenced
<1>6. /\ ref' \in [Private -> Nat]
      /\ life' \in [Private -> {"unborn", "live", "freed"}]
      /\ connection' \in [Private -> Bus \cup {NoBus}]
      /\ watcher' \in [Private -> Watchers]
      /\ \A p \in Private :
            /\ ref'[p] = ref[p] + One(p = NoPriv) - One(p = old)
            /\ life'[p] = "live" <=> ref'[p] > 0
            /\ Kept(p) \/ (p = old /\ ref'[p] = 0 /\ Deleted(p))
      BY <1>1, <1>2, <1>5, CountedOK
<1>7. TypeOK'
      BY <1>1, <1>2, <1>6 DEF TypeOK, libVars
<1>8. \A p \in Private : Leading(handles', d', p) = Leading(handles, d, p)
      BY <1>2
<1>9. ASSUME NEW p \in Private
      PROVE  /\ IsFiniteSet(Leading(handles', d', p)) /\ IsFiniteSet(Leading(Name, registry', p))
             /\ ref'[p] = Cardinality(Leading(handles', d', p)) + Cardinality(Leading(Name, registry', p))
  <2> DEFINE before == Leading(Name, registry, p)
             after  == Leading(Name, registry', p)
  <2>1. /\ IsFiniteSet(Leading(handles, d, p)) /\ IsFiniteSet(before)
        /\ ref[p] = Cardinality(Leading(handles, d, p)) + Cardinality(before)
        BY <1>1 DEF Countable, RefsCount, Leading
  <2>2. /\ Cardinality(before) \in Nat /\ Cardinality(Leading(handles, d, p)) \in Nat
        /\ IsFiniteSet(before \ {n})
        /\ n \in before => Cardinality(before \ {n}) = Cardinality(before) - 1
        BY <2>1, CardinalityStep
  <2>3. after = before \ {n} /\ (n \in before <=> p = old) /\ (n \notin before => after = before)
        BY <1>3
  <2>4. /\ Cardinality(after) = Cardinality(before \ {n}) /\ IsFiniteSet(after)
        /\ n \notin before => Cardinality(after) = Cardinality(before)
        BY <2>2, <2>3, Zenon
  <2>5. p # NoPriv /\ One(p = NoPriv) = 0 /\ One(p = old) = IF p = old THEN 1 ELSE 0
        BY DEF One
  <2>6. ref'[p] = ref[p] - IF p = old THEN 1 ELSE 0
        BY <1>1, <1>6, <2>5 DEF TypeOK
  <2>7. n \in before <=> p = old
        BY <2>3
  <2>8. ref'[p] = Cardinality(Leading(handles, d, p)) + Cardinality(after)
        BY ONLY <2>1, <2>2, <2>4, <2>6, <2>7
  <2> QED BY <1>8, <2>1, <2>4, <2>8, Zenon
<1>10. Countable'
  <2>1. \A g \in Handle \ handles' : d'[g] = NoPriv
        BY <1>1, <1>2 DEF Countable
  <2> QED BY <1>9, <2>1 DEF Countable
<1>11. RefsCount'
      BY <1>6, <1>9 DEF RefsCount, Leading
<1>12. Lives'
  <2>1. \A p \in Private : p # old => Leading(Name, registry', p) = Leading(Name, registry, p)
        BY <1>3
  <2>2. life[old] = "live"
        BY <1>1, <1>2, <1>5 DEF RefsCount
  <2> QED BY <1>1, <1>2, <1>6, <2>1, <2>2 DEF Lives, Kept, Deleted
<1>13. Opened' /\ Listens' /\ OneListener'
      BY <1>2, <1>6, LibraryOK
<1> QED BY <1>7, <1>10, <1>11, <1>12, <1>13 DEF IInv

(* The application is created: nobody notices before the binding.          *)
LEMMA CreateOK == ASSUME IInv, CreateApplication PROVE IInv'
<1>1. TypeOK'
      BY DEF IInv, TypeOK, CreateApplication, handleVars, libVars
<1>2. Countable' /\ RefsCount'
      BY DEF IInv, CreateApplication, handleVars, Countable, RefsCount, Leading
<1>3. Lives'
      BY DEF IInv, CreateApplication, Lives, Leading
<1>4. Opened'
      BY DEF IInv, CreateApplication, Opened, libVars
<1>5. Listens'
      BY DEF IInv, CreateApplication, Opened, Listens, WatcherOf, libVars
<1>6. OneListener'
      BY DEF IInv, CreateApplication, OneListener, libVars
<1> QED BY <1>1, <1>2, <1>3, <1>4, <1>5, <1>6 DEF IInv

(* The names are bound to it, each watcher as it is.                       *)
LEMMA BindOK == ASSUME IInv, BindToApplication PROVE IInv'
<1> DEFINE named == {p \in Private : \E n \in Name : registry[n] = p}
<1>1. /\ app = "created"
      /\ \/ /\ app' = "bound"
            /\ watcher' = [p \in Private |-> IF p \in named THEN Bound(p) ELSE watcher[p]]
         \/ app' = "crashed" /\ UNCHANGED watcher
      /\ UNCHANGED <<handleVars, registry, ref, life, connection, libVars, opened, between, closed>>
      BY DEF BindToApplication
<1>2. TypeOK /\ Lives /\ Opened /\ Listens /\ OneListener
      BY DEF IInv
<1>3. \A p \in Private : p \in named <=> Leading(Name, registry, p) # {}
      BY DEF Leading
<1>4. watcher' \in [Private -> Watchers]
  <2>1. \A p \in Private : watcher[p] \in Watchers /\ Bound(p) \in Watchers
        BY <1>2 DEF TypeOK, Watchers, Bound
  <2> QED BY <1>1, <1>2, <2>1 DEF TypeOK
<1>5. \A p \in Private :
         /\ watcher[p] = "none" => watcher'[p] = "none"
         /\ watcher'[p] \in {"waiting", "listening"} => watcher[p] \in {"waiting", "listening"}
      BY <1>1, <1>2 DEF TypeOK, Watchers, Bound
<1> HIDE DEF named
<1>6. TypeOK'
      BY <1>1, <1>2, <1>4 DEF TypeOK, handleVars, libVars
<1>7. Countable' /\ RefsCount'
      BY <1>1 DEF IInv, handleVars, Countable, RefsCount, Leading
<1>8. Lives'
      BY <1>1, <1>2, <1>5 DEF Lives, Leading
<1>9. Opened'
      BY <1>1, <1>2 DEF Opened, libVars
<1>10. Listens'
  <2> SUFFICES ASSUME NEW b \in Bus, NEW p \in Private \ closed,
                      owner[b] = p, life[p] = "live", app' = "bound"
               PROVE  watcher'[p] = WatcherOf(p)'
      BY <1>1 DEF Listens, libVars
  <2>1. p \in named
        BY <1>2, <1>3 DEF Lives
  <2>2. watcher[p] = IF p \in between THEN "listening" ELSE "waiting"
        BY <1>1, <1>2 DEF Listens, WatcherOf
  <2>3. watcher'[p] = Bound(p)
        BY <1>1, <2>1
  <2>4. Bound(p) = IF p \in between THEN "dropped" ELSE "listening"
        BY <2>2 DEF Bound
  <2> QED BY <1>1, <2>3, <2>4 DEF WatcherOf
<1>11. OneListener'
       BY <1>1, <1>2, <1>5 DEF OneListener, libVars
<1> QED BY <1>6, <1>7, <1>8, <1>9, <1>10, <1>11 DEF IInv

(* A removed watch is forgotten.                                           *)
LEMMA PurgeOK == ASSUME IInv, NEW p \in Private, PurgeRemovedWatches(p) PROVE IInv'
<1>1. TypeOK'
      BY DEF IInv, TypeOK, Watchers, PurgeRemovedWatches, handleVars, libVars
<1>2. Countable' /\ RefsCount'
      BY DEF IInv, PurgeRemovedWatches, handleVars, Countable, RefsCount, Leading
<1>3. Lives'
      BY DEF IInv, PurgeRemovedWatches, Lives, Leading, TypeOK
<1>4. Opened'
      BY DEF IInv, PurgeRemovedWatches, Opened, libVars
<1>5. Listens'
      BY DEF IInv, PurgeRemovedWatches, Listens, WatcherOf, libVars, TypeOK
<1>6. OneListener'
      BY DEF IInv, PurgeRemovedWatches, OneListener, libVars, TypeOK
<1> QED BY <1>1, <1>2, <1>3, <1>4, <1>5, <1>6 DEF IInv

-----------------------------------------------------------------------------
(* A new connection.                                                       *)

(* A private is created: the name and the handle are all that lead to it.  *)
LEMMA CreatedCounts ==
    ASSUME IInv, NEW h \in Handle, NEW n \in Name, NEW p \in Private,
           h \notin handles, registry[n] = NoPriv, life[p] = "unborn",
           handles' = handles \cup {h}, d' = [d EXCEPT ![h] = p],
           registry' = [registry EXCEPT ![n] = p],
           life' = [life EXCEPT ![p] = "live"], ref' = [ref EXCEPT ![p] = 2]
    PROVE  Countable' /\ RefsCount'
<1>1. TypeOK /\ Countable /\ RefsCount
      BY DEF IInv
<1>2. d[h] = NoPriv /\ Leading(handles, d, p) = {} /\ Leading(Name, registry, p) = {}
      BY <1>1, Unreachable DEF Countable
<1>3. /\ Leading(handles', d', p) = {h} /\ Leading(Name, registry', p) = {n}
      /\ \A q \in Private \ {p} :
            /\ Leading(handles', d', q) = Leading(handles, d, q)
            /\ Leading(Name, registry', q) = Leading(Name, registry, q)
      BY <1>1, <1>2 DEF Leading, TypeOK
<1>4. /\ IsFiniteSet(Leading(handles', d', p)) /\ IsFiniteSet(Leading(Name, registry', p))
      /\ Cardinality(Leading(handles', d', p)) = 1
      /\ Cardinality(Leading(Name, registry', p)) = 1
      BY <1>3, FS_Singleton, Zenon
<1>5. ref'[p] = 2 /\ \A q \in Private \ {p} : ref'[q] = ref[q] /\ life'[q] = life[q]
      BY <1>1 DEF TypeOK
<1>6. Countable'
  <2>1. \A g \in Handle \ handles' : d'[g] = NoPriv
        BY <1>1 DEF Countable, TypeOK
  <2>2. ASSUME NEW q \in Private
        PROVE  IsFiniteSet(Leading(handles', d', q)) /\ IsFiniteSet(Leading(Name, registry', q))
    <3>1. CASE q = p
          BY <1>4, <3>1, Zenon
    <3>2. CASE q # p
      <4>1. IsFiniteSet(Leading(handles, d, q)) /\ IsFiniteSet(Leading(Name, registry, q))
            BY <1>1 DEF Countable
      <4> QED BY <1>3, <3>2, <4>1, Zenon
    <3> QED BY <3>1, <3>2
  <2> QED BY <2>1, <2>2 DEF Countable
<1>7. ASSUME NEW q \in Private
      PROVE  /\ ref'[q] = Cardinality(Leading(handles', d', q))
                              + Cardinality(Leading(Name, registry', q))
             /\ (life'[q] = "live") <=> ref'[q] > 0
  <2>1. CASE q = p
    <3>1. life'[p] = "live"
          BY <1>1 DEF TypeOK
    <3> QED BY <1>4, <1>5, <2>1, <3>1
  <2>2. CASE q # p
    <3>1. /\ ref[q] = Cardinality(Leading(handles, d, q)) + Cardinality(Leading(Name, registry, q))
          /\ (life[q] = "live") <=> ref[q] > 0
          BY <1>1 DEF RefsCount, Leading
    <3>2. /\ Cardinality(Leading(handles', d', q)) = Cardinality(Leading(handles, d, q))
          /\ Cardinality(Leading(Name, registry', q)) = Cardinality(Leading(Name, registry, q))
          BY <1>3, <2>2, Zenon
    <3>3. ref'[q] = ref[q] /\ life'[q] = life[q]
          BY <1>5, <2>2
    <3> QED BY <3>1, <3>2, <3>3
  <2> QED BY <2>1, <2>2
<1>8. RefsCount'
      BY <1>7 DEF RefsCount, Leading
<1> QED BY <1>6, <1>8

(* Whatever became of its bus, it is one of its own name, and what libdbus *)
(* knew before stays so.                                                   *)
LEMMA InstalledOK ==
    ASSUME IInv, NEW p \in Private, NEW b \in Bus, life[p] = "unborn",
           life' = [life EXCEPT ![p] = "live"], UNCHANGED <<app, closed>>,
           InstallWatchFunctions(p, b)
    PROVE  /\ owner' \in [Bus -> Pointer]
           /\ opened' \in [Private -> Bus \cup {NoBus}]
           /\ watcher' \in [Private -> Watchers]
           /\ between' \subseteq Private
           /\ \A q \in between' : opened'[q] # NoBus
           /\ app = "none" => between' = {}
           /\ \A q \in Private \ {p} : /\ opened'[q] = opened[q]
                                       /\ life[q] # "live" => watcher'[q] = watcher[q]
           /\ \A c \in Bus : /\ owner'[c] # NoPriv => opened'[owner'[c]] = c
                             /\ owner[c] # NoPriv => owner'[c] # NoPriv
           /\ opened'[p] = b /\ owner'[b] = p
           /\ Listens' /\ OneListener'
<1>1. TypeOK /\ Lives /\ Opened /\ Listens /\ OneListener
      BY DEF IInv
<1>2. /\ owner \in [Bus -> Pointer] /\ opened \in [Private -> Bus \cup {NoBus}]
      /\ watcher \in [Private -> Watchers]
      /\ life \in [Private -> {"unborn", "live", "freed"}]
      BY <1>1 DEF TypeOK
<1>3. /\ AddWatch = IF app = "none" THEN "waiting" ELSE "listening"
      /\ between' = IF app = "created" THEN between \cup {p} ELSE between
      /\ p \notin between /\ between \subseteq Private
      /\ \A q \in between : opened[q] # NoBus
      /\ app = "none" => between = {}
      BY <1>1 DEF AddWatch, InstallWatchFunctions, TypeOK, Lives, Opened
<1>4. /\ owner' = [owner EXCEPT ![b] = p] /\ opened' = [opened EXCEPT ![p] = b]
      /\ watcher' = [q \in Private |->
                       IF q = p THEN AddWatch
                       ELSE IF q = owner[b] /\ watcher[q] \in {"waiting", "listening"} THEN "removed"
                       ELSE watcher[q]]
      BY DEF InstallWatchFunctions
<1>5. \A c \in Bus : owner[c] # NoPriv => opened[owner[c]] = c /\ owner[c] # p
      BY <1>1, <1>2 DEF Opened, Lives
<1>6. /\ owner' \in [Bus -> Pointer]
      /\ opened' \in [Private -> Bus \cup {NoBus}]
      /\ watcher' \in [Private -> Watchers]
      /\ between' \subseteq Private
      /\ \A q \in between' : opened'[q] # NoBus
      /\ app = "none" => between' = {}
      /\ \A q \in Private \ {p} : /\ opened'[q] = opened[q]
                                  /\ life[q] # "live" => watcher'[q] = watcher[q]
      /\ opened'[p] = b /\ owner'[b] = p
      BY <1>1, <1>2, <1>3, <1>4 DEF Lives, Watchers
<1>7. \A c \in Bus : /\ owner'[c] # NoPriv => opened'[owner'[c]] = c
                     /\ owner[c] # NoPriv => owner'[c] # NoPriv
      BY <1>2, <1>4, <1>5
<1>8. Listens'
  <2> SUFFICES ASSUME NEW c \in Bus, NEW q \in Private \ closed,
                      owner'[c] = q, life'[q] = "live", app # "crashed"
               PROVE  watcher'[q] = WatcherOf(q)'
      BY DEF Listens
  <2>1. CASE q = p
    <3>1. /\ watcher'[p] = IF app = "none" THEN "waiting" ELSE "listening"
          /\ p \in between' <=> app = "created"
          BY <1>2, <1>3, <1>4
    <3>2. app \in {"none", "created", "bound"}
          BY <1>1 DEF TypeOK
    <3> QED BY <2>1, <3>1, <3>2 DEF WatcherOf
  <2>2. CASE q # p
    <3>1. c # b /\ owner[c] = q /\ life[q] = "live"
          BY <1>2, <1>4, <2>2
    <3>2. q # owner[b]
          BY <1>2, <1>5, <3>1
    <3>3. watcher'[q] = watcher[q] /\ (q \in between' <=> q \in between)
          BY <1>3, <1>4, <2>2, <3>2
    <3> QED BY <1>1, <3>1, <3>3 DEF Listens, WatcherOf
  <2> QED BY <2>1, <2>2
<1>9. OneListener'
  <2> SUFFICES ASSUME NEW q \in Private, watcher'[q] \in {"waiting", "listening"}
               PROVE  \E c \in Bus : owner'[c] = q
      BY DEF OneListener
  <2>1. CASE q = p
        BY <1>6, <2>1
  <2>2. CASE q # p
    <3>1. watcher'[q] = watcher[q] /\ q # owner[b]
          BY <1>4, <2>2
    <3>2. PICK c \in Bus : owner[c] = q
          BY <1>1, <3>1 DEF OneListener
    <3> QED BY <1>2, <1>4, <3>1, <3>2
  <2> QED BY <2>1, <2>2
<1> QED BY <1>6, <1>7, <1>8, <1>9

(* Its filter is added to those of its bus, or none is.                    *)
LEMMA FiltersOK ==
    ASSUME TypeOK, NEW p \in Private, NEW b \in Bus,
           filters' = [filters EXCEPT ![b] = Append(@, p)]
    PROVE  /\ filters' \in [Bus -> Seq(Private)]
           /\ \A c \in Bus : Elements(filters'[c]) = IF c = b THEN Elements(filters[b]) \cup {p} ELSE Elements(filters[c])
           /\ /\ p \notin Elements(filters[b])
              /\ Distinct(filters[b])
              => Distinct(filters'[b])
<1> DEFINE s == filters[b]
<1>1. s \in Seq(Private) /\ filters \in [Bus -> Seq(Private)]
      BY DEF TypeOK
<1>2. /\ filters' \in [Bus -> Seq(Private)]
      /\ filters'[b] = Append(s, p) /\ \A c \in Bus \ {b} : filters'[c] = filters[c]
      BY <1>1
<1> HIDE DEF s
<1>3. /\ DOMAIN Append(s, p) = 1..(Len(s) + 1) /\ DOMAIN s = 1..Len(s) /\ Len(s) \in Nat
      /\ \A i \in 1..Len(s) : Append(s, p)[i] = s[i]
      /\ Append(s, p)[Len(s) + 1] = p
      BY ONLY <1>1
<1>4. {Append(s, p)[i] : i \in DOMAIN Append(s, p)} = {s[i] : i \in DOMAIN s} \cup {p}
  <2>1. \A i \in 1..(Len(s) + 1) : i \in 1..Len(s) \/ i = Len(s) + 1
        BY <1>3
  <2>2. \A i \in 1..Len(s) : i \in 1..(Len(s) + 1)
        BY <1>3
  <2>3. Len(s) + 1 \in 1..(Len(s) + 1)
        BY <1>3
  <2> QED BY ONLY <1>3, <2>1, <2>2, <2>3, Zenon
<1>5. ASSUME p \notin {s[i] : i \in DOMAIN s},
             Distinct(s)
      PROVE  Distinct(Append(s, p))
      BY ONLY <1>3, <1>5 DEF Distinct
<1>6. Elements(filters'[b]) = Elements(filters[b]) \cup {p}
      BY <1>2, <1>4 DEF Elements, s
<1>7. \A c \in Bus \ {b} : Elements(filters'[c]) = Elements(filters[c])
      BY <1>2 DEF Elements
<1> QED BY <1>2, <1>5, <1>6, <1>7 DEF s, Elements

LEMMA AddNewOK ==
    ASSUME IInv, NEW h \in Handle, NEW b \in Bus, NEW n \in Name, AddNewConnection(h, b, n)
    PROVE  IInv'
<1>1. TypeOK /\ Countable /\ RefsCount /\ Lives /\ Opened /\ Listens /\ OneListener
      BY DEF IInv
<1>2. PICK p \in Private :
         /\ life[p] = "unborn"
         /\ life' = [life EXCEPT ![p] = "live"]
         /\ ref' = [ref EXCEPT ![p] = 2]
         /\ registry' = [registry EXCEPT ![n] = p]
         /\ d' = [d EXCEPT ![h] = p]
         /\ \/ SetConnection(p, b)
            \/ SetConnectionRefused(p, b)
            \/ UNCHANGED <<connection, watcher, libVars, opened, between>>
      BY DEF AddNewConnection
<1>3. h \notin handles /\ registry[n] = NoPriv /\ handles' = handles \cup {h}
      /\ UNCHANGED <<app, closed>>
      BY DEF AddNewConnection
<1>4. Countable' /\ RefsCount'
      BY <1>2, <1>3, CreatedCounts
<1>5. /\ handles' \subseteq Handle /\ d' \in [Handle -> Pointer]
      /\ registry' \in [Name -> Pointer] /\ ref' \in [Private -> Nat]
      /\ life' \in [Private -> {"unborn", "live", "freed"}]
      BY <1>1, <1>2, <1>3 DEF TypeOK
<1>6. /\ opened[p] = NoBus /\ connection[p] = NoBus /\ watcher[p] = "none" /\ p \notin closed
      /\ \A c \in Bus : p \notin Elements(filters[c])
      BY <1>1, <1>2 DEF Lives, Opened
<1>7. /\ life'[p] = "live" /\ n \in Leading(Name, registry', p)
      /\ \A q \in Private \ {p} : /\ life'[q] = life[q]
                                  /\ Leading(Name, registry', q) = Leading(Name, registry, q)
  <2>1. /\ registry \in [Name -> Pointer] /\ life \in [Private -> {"unborn", "live", "freed"}]
        BY <1>1 DEF TypeOK
  <2>2. life'[p] = "live" /\ \A q \in Private \ {p} : life'[q] = life[q]
        BY <1>2, <2>1
  <2>3. registry'[n] = p /\ \A m \in Name \ {n} : registry'[m] = registry[m]
        BY <1>2, <2>1
  <2>4. n \in Leading(Name, registry', p)
        BY <2>3 DEF Leading
  <2>5. \A q \in Private \ {p} : Leading(Name, registry', q) = Leading(Name, registry, q)
        BY <1>3, <2>3 DEF Leading
  <2> QED BY <2>2, <2>4, <2>5
<1>8. CASE UNCHANGED <<connection, watcher, libVars, opened, between>>
  <2>1. TypeOK'
        BY <1>1, <1>3, <1>5, <1>8 DEF TypeOK, libVars
  <2>2. Lives'
        BY <1>1, <1>3, <1>6, <1>7, <1>8 DEF Lives
  <2>3. Opened'
        BY <1>1, <1>3, <1>8 DEF Opened, libVars
  <2>4. Listens'
    <3>1. \A c \in Bus : owner[c] # p
          BY <1>1, <1>6 DEF Opened
    <3> QED BY <1>1, <1>3, <1>7, <1>8, <3>1 DEF Listens, WatcherOf, libVars
  <2>5. OneListener'
        BY <1>1, <1>8 DEF OneListener, libVars
  <2> QED BY <1>4, <2>1, <2>2, <2>3, <2>4, <2>5 DEF IInv
<1>9. ASSUME InstallWatchFunctions(p, b),
             \/ /\ connection' = [connection EXCEPT ![p] = b]
                /\ filters' = [filters EXCEPT ![b] = Append(@, p)]
             \/ UNCHANGED <<connection, filters>>
      PROVE  IInv'
  <2>1. /\ owner' \in [Bus -> Pointer]
        /\ opened' \in [Private -> Bus \cup {NoBus}]
        /\ watcher' \in [Private -> Watchers]
        /\ between' \subseteq Private
        /\ \A q \in between' : opened'[q] # NoBus
        /\ app' = "none" => between' = {}
        /\ \A q \in Private \ {p} : /\ opened'[q] = opened[q]
                                    /\ life[q] # "live" => watcher'[q] = watcher[q]
        /\ \A c \in Bus : /\ owner'[c] # NoPriv => opened'[owner'[c]] = c
                          /\ owner[c] # NoPriv => owner'[c] # NoPriv
        /\ opened'[p] = b /\ owner'[b] = p
        /\ Listens' /\ OneListener'
        BY <1>2, <1>3, <1>9, InstalledOK
  <2>2. /\ filters' \in [Bus -> Seq(Private)]
        /\ \A c \in Bus : /\ Elements(filters'[c]) \subseteq Elements(filters[c]) \cup (IF c = b THEN {p} ELSE {})
                          /\ Elements(filters[c]) \subseteq Elements(filters'[c])
                          /\ Distinct(filters'[c])
        /\ connection' \in [Private -> Bus \cup {NoBus}]
        /\ \A q \in Private \ {p} : connection'[q] = connection[q]
        /\ connection'[p] = NoBus \/ (connection'[p] = b /\ p \in Elements(filters'[b]))
    <3>0. /\ connection \in [Private -> Bus \cup {NoBus}] /\ filters \in [Bus -> Seq(Private)]
          /\ \A c \in Bus : Distinct(filters[c])
          BY <1>1 DEF TypeOK, Opened
    <3>1. CASE UNCHANGED <<connection, filters>>
          BY <1>6, <3>0, <3>1
    <3>2. CASE /\ connection' = [connection EXCEPT ![p] = b]
               /\ filters' = [filters EXCEPT ![b] = Append(@, p)]
      <4>1. /\ filters' \in [Bus -> Seq(Private)]
            /\ \A c \in Bus : Elements(filters'[c]) = IF c = b THEN Elements(filters[b]) \cup {p} ELSE Elements(filters[c])
            /\ Distinct(filters'[b])
            BY <1>1, <1>6, <3>0, <3>2, FiltersOK
      <4>2. \A c \in Bus \ {b} : filters'[c] = filters[c]
            BY <3>0, <3>2
      <4> QED BY <3>0, <3>2, <4>1, <4>2
    <3> QED BY <1>9, <3>1, <3>2
  <2>3. TypeOK'
        BY <1>1, <1>3, <1>5, <2>1, <2>2 DEF TypeOK
  <2>4. Lives'
    <3>1. closed' = closed /\ Leading(Name, registry', p) # {}
          BY <1>3, <1>7
    <3>2. ASSUME NEW q \in Private \ {p}
          PROVE  /\ life'[q] # "live" => connection'[q] = NoBus /\ watcher'[q] = "none"
                 /\ life'[q] = "unborn" => opened'[q] = NoBus /\ q \notin closed'
                 /\ life'[q] = "freed" => q \in closed'
                 /\ life'[q] = "live" /\ q \notin closed' => Leading(Name, registry', q) # {}
          BY <1>1, <1>7, <2>1, <2>2, <3>1 DEF Lives
    <3> QED BY <1>7, <3>1, <3>2 DEF Lives
  <2>5. Opened'
    <3>1. ASSUME NEW c \in Bus, NEW q \in Elements(filters'[c]) PROVE opened'[q] = c
      <4>1. CASE q = p
            BY <1>6, <2>1, <2>2, <3>1, <4>1
      <4>2. CASE q # p
        <5>1. q \in Elements(filters[c]) /\ opened[q] = c
              BY <1>1, <2>2, <3>1, <4>2 DEF Opened
        <5>2. q \in Private
              BY <1>1, <5>1 DEF TypeOK, Elements
        <5> QED BY <2>1, <4>2, <5>1, <5>2
      <4> QED BY <4>1, <4>2
    <3>2. ASSUME NEW q \in Private, NEW c \in Bus
          PROVE  /\ opened'[q] = c => owner'[c] # NoPriv
                 /\ connection'[q] = c => opened'[q] = c /\ q \in Elements(filters'[c])
      <4>1. CASE q = p
        <5>1. opened'[p] = c \/ connection'[p] = c => c = b
              BY <2>1, <2>2
        <5>2. b # NoBus /\ owner'[b] # NoPriv
              BY <2>1
        <5> QED BY <2>1, <2>2, <4>1, <5>1, <5>2
      <4>2. CASE q # p
        <5>1. opened'[q] = opened[q] /\ connection'[q] = connection[q]
              BY <2>1, <2>2, <4>2
        <5>2. /\ opened[q] = c => owner[c] # NoPriv
              /\ connection[q] = c => opened[q] = c /\ q \in Elements(filters[c])
              BY <1>1 DEF Opened
        <5>3. /\ owner[c] # NoPriv => owner'[c] # NoPriv
              /\ Elements(filters[c]) \subseteq Elements(filters'[c])
              BY <2>1, <2>2
        <5> QED BY <5>1, <5>2, <5>3
      <4> QED BY <4>1, <4>2
    <3> QED BY <2>1, <2>2, <3>1, <3>2 DEF Opened
  <2> QED BY <1>4, <2>1, <2>3, <2>4, <2>5 DEF IInv
<1> QED BY <1>2, <1>8, <1>9 DEF SetConnection, SetConnectionRefused

-----------------------------------------------------------------------------
(* The invariant.                                                          *)

LEMMA InitOK == Init => IInv
<1> SUFFICES ASSUME Init PROVE IInv
    OBVIOUS
<1>1. TypeOK
      BY DEF Init, TypeOK, Watchers
<1>2. \A p \in Private : Leading(handles, d, p) = {} /\ Leading(Name, registry, p) = {}
      BY DEF Init, Leading
<1>3. Countable
  <2>1. \A p \in Private : /\ IsFiniteSet(Leading(handles, d, p))
                           /\ IsFiniteSet(Leading(Name, registry, p))
        BY <1>2, FS_EmptySet, Zenon
  <2> QED BY <2>1 DEF Init, Countable
<1>4. RefsCount
  <2>1. \A p \in Private : /\ Cardinality(Leading(handles, d, p)) = 0
                           /\ Cardinality(Leading(Name, registry, p)) = 0
        BY <1>2, FS_EmptySet, Zenon
  <2> QED BY <2>1 DEF Init, RefsCount, Leading
<1>5. Lives /\ Opened /\ Listens /\ OneListener
      BY DEF Init, Lives, Opened, Listens, WatcherOf, OneListener, Elements, Distinct
<1> QED BY <1>1, <1>3, <1>4, <1>5 DEF IInv

LEMMA ConstructByNameOK ==
    ASSUME IInv, NEW h \in Handle, NEW n \in Name, ConstructByName(h, n)
    PROVE  IInv'
<1>1. TypeOK /\ Countable /\ RefsCount
      BY DEF IInv
<1>2. registry[n] \in Pointer
      BY <1>1 DEF TypeOK
<1>3. registry[n] # NoPriv => n \in Leading(Name, registry, registry[n])
      BY DEF Leading
<1>4. registry[n] # NoPriv => ref[registry[n]] > 0
      BY <1>1, <1>2, <1>3, Referenced
<1> QED BY <1>2, <1>4, PointOK DEF ConstructByName

(* A handle that exists leads to somebody who lives, or to nobody.         *)
LEMMA LeadsToLive ==
    ASSUME IInv, NEW g \in handles
    PROVE  d[g] \in Pointer /\ (d[g] # NoPriv => ref[d[g]] > 0)
<1>1. TypeOK /\ Countable /\ RefsCount
      BY DEF IInv
<1>2. d[g] \in Pointer
      BY <1>1 DEF TypeOK
<1>3. g \in Leading(handles, d, d[g])
      BY DEF Leading
<1> QED BY <1>1, <1>2, <1>3, Referenced

LEMMA NextOK == IInv /\ [Next]_vars => IInv'
<1> SUFFICES ASSUME IInv, [Next]_vars PROVE IInv'
    OBVIOUS
<1>1. ASSUME NEW h \in Handle, NEW n \in Name, ConstructByName(h, n) PROVE IInv'
      BY <1>1, ConstructByNameOK
<1>2. ASSUME NEW h \in Handle, NEW n \in Name, NEW b \in Bus, AddConnection(h, b, n)
      PROVE  IInv'
      BY <1>2, AddNewOK, ConstructByNameOK DEF AddConnection
<1>3. ASSUME NEW h \in Handle, NEW g \in Handle, ConstructCopy(h, g) PROVE IInv'
      BY <1>3, LeadsToLive, PointOK DEF ConstructCopy
<1>4. ASSUME NEW h \in Handle, NEW g \in Handle, Assign(h, g) PROVE IInv'
  <2>1. handles' = handles \cup {h} /\ g \in handles
        BY <1>4 DEF Assign
  <2> QED BY <1>4, <2>1, LeadsToLive, PointOK DEF Assign
<1>5. ASSUME NEW h \in Handle, Destroy(h) PROVE IInv'
  <2>1. NoPriv \in Pointer
        OBVIOUS
  <2> QED BY <1>5, <2>1, PointOK DEF Destroy
<1>6. CASE UNCHANGED vars
  <2>1. TypeOK' /\ Countable'
        BY <1>6 DEF IInv, vars, handleVars, libVars, TypeOK, Countable
  <2>3. RefsCount'
        BY <1>6 DEF IInv, vars, handleVars, RefsCount
  <2>2. Lives' /\ Opened' /\ Listens' /\ OneListener'
        BY <1>6 DEF IInv, vars, handleVars, libVars, Lives, Opened, Listens, WatcherOf, OneListener
  <2> QED BY <2>1, <2>2, <2>3 DEF IInv
<1> QED BY <1>1, <1>2, <1>3, <1>4, <1>5, <1>6, CreateOK, BindOK, RemoveOK, PurgeOK DEF Next

LEMMA Invariant == Spec => []IInv
BY InitOK, NextOK, PTL DEF Spec

-----------------------------------------------------------------------------
(* Theorems.                                                               *)

(* The state keeps its type.                                               *)
THEOREM TypeCorrect == Spec => []TypeOK
<1>1. IInv => TypeOK
      BY DEF IInv
<1> QED BY <1>1, Invariant, PTL

(* However handles are copied, assigned and dropped and names closed, the  *)
(* counter of each private counts what leads to it, and it is deleted      *)
(* exactly when nothing does.                                              *)
THEOREM RefsAreCounted == Spec => []RefsCount
<1>1. IInv => RefsCount
      BY DEF IInv
<1> QED BY <1>1, Invariant, PTL

(* Only a private whose name was closed can be deleted while libdbus still *)
(* calls it.                                                               *)
THEOREM OnlyClosedDangle == Spec => []CallbacksAlive
<1>1. ASSUME IInv PROVE CallbacksAlive
  <2> SUFFICES ASSUME NEW b \in Bus, NEW p \in Private \ closed,
                      p = owner[b] \/ (\E i \in DOMAIN filters[b] : filters[b][i] = p)
               PROVE  life[p] = "live"
      BY DEF CallbacksAlive
  <2>1. p = owner[b] \/ p \in Elements(filters[b])
        BY DEF Elements
  <2>2. opened[p] = b
        BY <1>1, <2>1 DEF IInv, Opened
  <2>3. life[p] # "unborn" /\ life[p] # "freed"
        BY <1>1, <2>2 DEF IInv, Lives
  <2> QED BY <1>1, <2>3 DEF IInv, TypeOK
<1> QED BY <1>1, Invariant, PTL

(* The connection that is the only one ever opened to its bus is called,   *)
(* takes the signals, and listens once the application is bound, unless it *)
(* was opened between the two: then it listens until that.                 *)
THEOREM SoleWorks == Spec => []SoleConnectionWorks
<1>1. ASSUME IInv PROVE SoleConnectionWorks
  <2> SUFFICES ASSUME NEW b \in Bus, NEW p \in Private, connection[p] = b,
                      \A q \in Private \ {p} : opened[q] # b
               PROVE  /\ owner[b] = p
                      /\ filters[b] = <<p>>
                      /\ p \notin closed /\ app # "crashed" =>
                            (watcher[p] = "listening" <=> app = IF p \in between THEN "created" ELSE "bound")
      BY DEF SoleConnectionWorks
  <2>1. opened[p] = b /\ p \in Elements(filters[b]) /\ owner[b] # NoPriv
        BY <1>1 DEF IInv, Opened
  <2>2. owner[b] = p
        BY <1>1, <2>1 DEF IInv, Opened, TypeOK
  <2>3. filters[b] \in Seq(Private) /\ \A q \in Elements(filters[b]) : opened[q] = b
        BY <1>1 DEF IInv, Opened, TypeOK
  <2>4. \A i \in 1..Len(filters[b]) : filters[b][i] = p
        BY <2>3 DEF Elements
  <2> DEFINE n == Len(filters[b])
  <2>5. n = 1
    <3>1. \A i, j \in 1..n : i = j
          BY <1>1, <2>3, <2>4 DEF IInv, Opened, Distinct
    <3>2. n \in Nat /\ n # 0
          BY <2>1, <2>3 DEF Elements
    <3> HIDE DEF n
    <3>3. ASSUME n >= 2 PROVE FALSE
      <4>1. 1 \in 1..n /\ 2 \in 1..n
            BY <3>2, <3>3
      <4>2. 1 = 2
            BY <3>1, <4>1, Zenon
      <4> QED BY <4>2
    <3> QED BY <3>2, <3>3
  <2>6. filters[b] = <<p>>
        BY <2>3, <2>4, <2>5
  <2>7. life[p] = "live"
        BY <1>1 DEF IInv, Lives
  <2>8. app \in {"none", "created", "bound", "crashed"} /\ (app = "none" => p \notin between)
        BY <1>1 DEF IInv, TypeOK, Opened
  <2>9. p \notin closed /\ app # "crashed" => watcher[p] = WatcherOf(p)
        BY <1>1, <2>2, <2>7 DEF IInv, Listens
  <2> QED BY <2>2, <2>6, <2>8, <2>9 DEF WatcherOf
<1> QED BY <1>1, Invariant, PTL

(* Whoever listens to a socket, or waits to, has the watch functions of a  *)
(* bus, and one connection has those.                                      *)
THEOREM ListensOnce == Spec => []OneListener
<1>1. IInv => OneListener
      BY DEF IInv
<1> QED BY <1>1, Invariant, PTL

(* The socket of a bus has at most one listener, however many privates     *)
(* were opened to it and whatever of them was closed: of all those that    *)
(* watch it, or wait for the application to, there is one.                 *)
THEOREM OneWatchesEachBus ==
    Spec => [](\A p, q \in Private :
                  /\ watcher[p] \in {"waiting", "listening"}
                  /\ watcher[q] \in {"waiting", "listening"}
                  /\ opened[p] = opened[q]
                  => p = q)
<1> DEFINE Sole == \A p, q \in Private :
                      /\ watcher[p] \in {"waiting", "listening"}
                      /\ watcher[q] \in {"waiting", "listening"}
                      /\ opened[p] = opened[q]
                      => p = q
<1>1. IInv => Sole
  <2> SUFFICES ASSUME IInv, NEW p \in Private, NEW q \in Private,
                      watcher[p] \in {"waiting", "listening"},
                      watcher[q] \in {"waiting", "listening"}, opened[p] = opened[q]
               PROVE  p = q
    OBVIOUS
  <2>1. PICK b \in Bus : owner[b] = p
    BY DEF IInv, OneListener
  <2>2. PICK c \in Bus : owner[c] = q
    BY DEF IInv, OneListener
  <2>3. opened[p] = b /\ opened[q] = c
    BY <2>1, <2>2 DEF IInv, Opened
  <2> QED BY <2>1, <2>2, <2>3
<1> QED BY <1>1, Invariant, PTL

-----------------------------------------------------------------------------
(* Values.  What recurs over a value is known by Recursion alone, and not  *)
(* by induction: the invariant follows the values as they are made.        *)

(* The basic types.                                                        *)
Plain == DOMAIN Letter \ {"Variant"}

(* What a container may hold of P.                                         *)
Fitting(c, P) == {u \in P : u = Invalid \/ Accepts(c, u)}

(* v is made of values in P the way its type asks.                         *)
BasicOf(v) == v.type \in Plain /\ v = [type |-> v.type, atom |-> v.atom]
ListOver(v, P) ==
    /\ v.type = "List"
    /\ v = [type |-> "List", item |-> v.item, proto |-> v.proto, elems |-> v.elems]
    /\ v.elems \in Seq(Fitting(v, P))
MapOver(v, P) ==
    /\ v.type = "Map"
    /\ v = [type |-> "Map", key |-> v.key, item |-> v.item, proto |-> v.proto,
            entries |-> v.entries]
    /\ v.entries \in [DOMAIN v.entries -> Fitting(v, P)]
StructOver(v, P) ==
    /\ v.type = "Struct"
    /\ v = [type |-> "Struct", members |-> v.members]
    /\ v.members \in Seq(P \ {Invalid})
VariantOver(v, P) ==
    /\ v.type = "Variant"
    /\ v = [type |-> "Variant", signature |-> v.signature, content |-> v.content]
    /\ v.content \in P

MadeOf(v, P) ==
    \/ v = Invalid \/ BasicOf(v)
    \/ ListOver(v, P) \/ MapOver(v, P) \/ StructOver(v, P) \/ VariantOver(v, P)

(* operator== takes u and w for equal when they hold the same.             *)
Exact(u, w) ==
    \A zeroed \in BOOLEAN :
        /\ Equal(u, w, zeroed) => Held(u) = Held(w)
        /\ zeroed /\ Held(u) = Held(w) /\ ~HasMap(u) => Equal(u, w, zeroed)

(* A stock of values, each made of others in it.                           *)
Closed(P) ==
    /\ \A v \in P : MadeOf(v, P)
    /\ \A v \in P : WellTyped(v)
    /\ \A u, w \in P : Exact(u, w)

(* Whatever a program has, was made step by step: the invariant that takes *)
(* the place of an induction over the values.                              *)
Built == \E P : Closed(P) /\ values \in Seq(P)

(* A basic type is none of the others.                                     *)
LEMMA PlainTypes == Plain \cap {"Invalid", "List", "Struct", "Map", "Variant"} = {}
BY DEF Plain, Letter

(* The type of what is not valid.                                          *)
LEMMA InvalidType == Invalid.type = "Invalid" /\ Invalid = [type |-> "Invalid"]
BY DEF Invalid

(* What can be made of few parts can be made of more.                      *)
LEMMA MadeOfMore ==
    ASSUME NEW P, NEW Q, P \subseteq Q, NEW v, MadeOf(v, P)
    PROVE  MadeOf(v, Q)
<1>1. Fitting(v, P) \subseteq Fitting(v, Q)
  BY DEF Fitting
<1>2. ListOver(v, P) => ListOver(v, Q)
  <2>1. Seq(Fitting(v, P)) \subseteq Seq(Fitting(v, Q))
    BY <1>1
  <2> QED BY <2>1 DEF ListOver
<1>3. MapOver(v, P) => MapOver(v, Q)
  BY <1>1 DEF MapOver
<1>4. StructOver(v, P) => StructOver(v, Q)
  BY DEF StructOver
<1>5. VariantOver(v, P) => VariantOver(v, Q)
  BY DEF VariantOver
<1> QED BY <1>2, <1>3, <1>4, <1>5 DEF MadeOf

(* The definitions of QDBusContainers with its parameters for what they    *)
(* say of the parts of a value.                                            *)
TypedNow(v) == TypedHere(WellTyped, v)
HeldNow(v) == HeldHere(Held, v)
MapNow(v) == MapHere(HasMap, v)
AllEqual(as, bs, zeroed) == EqualAll(Equal, as, bs, zeroed)
ListsEqual(a, b, zeroed) == EqualLists(Equal, a, b, zeroed)
EqualNow(a, b, zeroed) == EqualTo(Equal, a, b, zeroed)

(* What Recursion says, one parameter at a time.                           *)
LEMMA UnfoldTyped == ASSUME Recursion PROVE \A v : WellTyped(v) <=> TypedNow(v)
BY DEF Recursion, TypedNow

LEMMA UnfoldHeld == ASSUME Recursion PROVE \A v : Held(v) = HeldNow(v)
BY DEF Recursion, HeldNow

LEMMA UnfoldMap == ASSUME Recursion PROVE \A v : HasMap(v) <=> MapNow(v)
BY DEF Recursion, MapNow

LEMMA UnfoldEqual ==
    ASSUME Recursion
    PROVE  \A a, b, zeroed : Equal(a, b, zeroed) <=> EqualNow(a, b, zeroed)
BY DEF Recursion, EqualNow

(* What is made of well-typed values is well typed.                        *)
LEMMA MadeTyped ==
    ASSUME Recursion, NEW P, \A u \in P : WellTyped(u), NEW v, MadeOf(v, P)
    PROVE  WellTyped(v)
<1> SUFFICES TypedNow(v)
  BY UnfoldTyped
<1>1. CASE v = Invalid \/ BasicOf(v)
  BY <1>1, PlainTypes, InvalidType DEF TypedNow, TypedHere, BasicOf
<1>2. CASE ListOver(v, P)
  BY <1>2 DEF TypedNow, TypedHere, ListOver, Fitting
<1>3. CASE MapOver(v, P)
  BY <1>3 DEF TypedNow, TypedHere, MapOver, Fitting
<1>4. CASE StructOver(v, P)
  BY <1>4 DEF TypedNow, TypedHere, StructOver
<1>5. CASE VariantOver(v, P)
  BY <1>5 DEF TypedNow, TypedHere, VariantOver
<1> QED BY <1>1, <1>2, <1>3, <1>4, <1>5 DEF MadeOf

(* What a value of each type holds.                                        *)
LEMMA HeldForms ==
    ASSUME Recursion, NEW v
    PROVE  /\ v.type = "List" => Held(v) =
                [type |-> "List", item |-> v.item, signature |-> ItemSignature(v),
                 elems |-> [i \in DOMAIN v.elems |-> Held(v.elems[i])]]
           /\ v.type = "Map" => Held(v) =
                [type |-> "Map", key |-> v.key, item |-> v.item,
                 signature |-> ItemSignature(v),
                 entries |-> [k \in DOMAIN v.entries |-> Held(v.entries[k])]]
           /\ v.type = "Struct" => Held(v) =
                [type |-> "Struct",
                 members |-> [i \in DOMAIN v.members |-> Held(v.members[i])]]
           /\ v.type = "Variant" => Held(v) =
                [type |-> "Variant", signature |-> v.signature, content |-> Held(v.content)]
           /\ v.type \notin {"List", "Map", "Struct", "Variant"} => Held(v) = v
<1>1. Held(v) = HeldNow(v)
  BY UnfoldHeld
<1>2. CASE v.type = "List"
  BY <1>1, <1>2 DEF HeldNow, HeldHere
<1>3. CASE v.type = "Map"
  BY <1>1, <1>3 DEF HeldNow, HeldHere
<1>4. CASE v.type = "Struct"
  BY <1>1, <1>4 DEF HeldNow, HeldHere
<1>5. CASE v.type = "Variant"
  BY <1>1, <1>5 DEF HeldNow, HeldHere
<1>6. CASE v.type \notin {"List", "Map", "Struct", "Variant"}
  BY <1>1, <1>6 DEF HeldNow, HeldHere
<1> QED BY <1>2, <1>3, <1>4, <1>5, <1>6

(* Values that hold the same have the same type.                           *)
LEMMA HeldType ==
    ASSUME Recursion, NEW v
    PROVE  Held(v).type = v.type
<1>1. CASE v.type = "List"
  <2>1. Held(v) = [type |-> "List", item |-> v.item, signature |-> ItemSignature(v),
                   elems |-> [i \in DOMAIN v.elems |-> Held(v.elems[i])]]
    BY <1>1, HeldForms
  <2> QED BY <1>1, <2>1
<1>2. CASE v.type = "Map"
  <2>1. Held(v) = [type |-> "Map", key |-> v.key, item |-> v.item,
                   signature |-> ItemSignature(v),
                   entries |-> [k \in DOMAIN v.entries |-> Held(v.entries[k])]]
    BY <1>2, HeldForms
  <2> QED BY <1>2, <2>1
<1>3. CASE v.type \in {"Struct", "Variant"}
  BY <1>3, HeldForms
<1>4. CASE v.type \notin {"List", "Map", "Struct", "Variant"}
  BY <1>4, HeldForms
<1> QED BY <1>1, <1>2, <1>3, <1>4

(* Items that are compared one by one.                                     *)
LEMMA ExactItems ==
    ASSUME NEW P, \A x, y \in P : Exact(x, y), NEW zeroed \in BOOLEAN,
           NEW as, NEW bs,
           \A i \in DOMAIN as : as[i] \in P, \A i \in DOMAIN bs : bs[i] \in P
    PROVE  /\ AllEqual(as, bs, zeroed) =>
                [i \in DOMAIN as |-> Held(as[i])] = [i \in DOMAIN bs |-> Held(bs[i])]
           /\ /\ zeroed /\ \A i \in DOMAIN as : ~HasMap(as[i])
              /\ [i \in DOMAIN as |-> Held(as[i])] = [i \in DOMAIN bs |-> Held(bs[i])]
              => AllEqual(as, bs, zeroed)
<1>1. ASSUME AllEqual(as, bs, zeroed)
      PROVE  [i \in DOMAIN as |-> Held(as[i])] = [i \in DOMAIN bs |-> Held(bs[i])]
  BY <1>1 DEF AllEqual, EqualAll, Exact
<1>2. ASSUME zeroed, \A i \in DOMAIN as : ~HasMap(as[i]),
             [i \in DOMAIN as |-> Held(as[i])] = [i \in DOMAIN bs |-> Held(bs[i])]
      PROVE  AllEqual(as, bs, zeroed)
  <2> DEFINE f == [i \in DOMAIN as |-> Held(as[i])]
             g == [i \in DOMAIN bs |-> Held(bs[i])]
  <2>1. DOMAIN f = DOMAIN as /\ DOMAIN g = DOMAIN bs
    OBVIOUS
  <2>2. DOMAIN as = DOMAIN bs
    BY <1>2, <2>1
  <2>3. ASSUME NEW i \in DOMAIN as PROVE Held(as[i]) = Held(bs[i])
    <3>1. f[i] = Held(as[i]) /\ g[i] = Held(bs[i])
      BY <2>2
    <3> QED BY <1>2, <3>1
  <2> QED BY <1>2, <2>2, <2>3 DEF AllEqual, EqualAll, Exact
<1> QED BY <1>1, <1>2

(* The type of a value says how it was made.                               *)
LEMMA FormByType ==
    ASSUME NEW P, NEW v, MadeOf(v, P)
    PROVE  /\ v.type \in Plain \cup {"Invalid", "List", "Map", "Struct", "Variant"}
           /\ v.type = "Invalid" => v = Invalid
           /\ v.type \in Plain => BasicOf(v)
           /\ v.type = "List" => ListOver(v, P)
           /\ v.type = "Map" => MapOver(v, P)
           /\ v.type = "Struct" => StructOver(v, P)
           /\ v.type = "Variant" => VariantOver(v, P)
BY PlainTypes, InvalidType DEF MadeOf, BasicOf, ListOver, MapOver, StructOver, VariantOver

(* An item of a sequence is of the set it is over.                         *)
LEMMA SeqItems ==
    ASSUME NEW S, NEW s \in Seq(S)
    PROVE  \A i \in DOMAIN s : s[i] \in S
OBVIOUS

(* A sequence over a set is one over any larger set.                       *)
LEMMA SeqGrows ==
    ASSUME NEW S, NEW T, S \subseteq T, NEW s \in Seq(S)
    PROVE  s \in Seq(T)
OBVIOUS

(* A function on 1 .. n into a set is a sequence over it.                  *)
LEMMA SeqByItems ==
    ASSUME NEW S, NEW s, s = [i \in DOMAIN s |-> s[i]],
           \E n \in Nat : DOMAIN s = 1 .. n, \A i \in DOMAIN s : s[i] \in S
    PROVE  s \in Seq(S)
<1>1. PICK n \in Nat : DOMAIN s = 1 .. n
  OBVIOUS
<1>2. [i \in 1 .. n |-> s[i]] \in Seq(S)
  BY <1>1
<1> QED BY <1>1, <1>2, Zenon

(* Equality is exact for lists when it is for their items.                 *)
LEMMA ListsExact ==
    ASSUME Recursion, NEW P, \A x, y \in P : Exact(x, y),
           NEW u, NEW w, ListOver(u, P), ListOver(w, P)
    PROVE  Exact(u, w)
<1> SUFFICES ASSUME NEW zeroed \in BOOLEAN
             PROVE  /\ Equal(u, w, zeroed) => Held(u) = Held(w)
                    /\ zeroed /\ Held(u) = Held(w) /\ ~HasMap(u) => Equal(u, w, zeroed)
  BY DEF Exact
<1> DEFINE us == [i \in DOMAIN u.elems |-> Held(u.elems[i])]
           ws == [i \in DOMAIN w.elems |-> Held(w.elems[i])]
<1>1. u.type = "List" /\ w.type = "List"
  BY DEF ListOver
<1>2. Equal(u, w, zeroed) <=> ListsEqual(u, w, zeroed)
  BY <1>1, UnfoldEqual DEF EqualNow, EqualTo, ListsEqual, EqualLists, EqualAll
<1>3. HasMap(u) <=> \E i \in DOMAIN u.elems : HasMap(u.elems[i])
  BY <1>1, UnfoldMap DEF MapNow, MapHere
<1>4. /\ \A i \in DOMAIN u.elems : u.elems[i] \in P
      /\ \A i \in DOMAIN w.elems : w.elems[i] \in P
  BY SeqItems DEF ListOver, Fitting
<1>5. /\ AllEqual(u.elems, w.elems, zeroed) => us = ws
      /\ zeroed /\ ~HasMap(u) /\ us = ws => AllEqual(u.elems, w.elems, zeroed)
  <2>1. /\ AllEqual(u.elems, w.elems, zeroed) => us = ws
        /\ zeroed /\ (\A i \in DOMAIN u.elems : ~HasMap(u.elems[i])) /\ us = ws
           => AllEqual(u.elems, w.elems, zeroed)
    BY <1>4, ExactItems
  <2> QED BY <1>3, <2>1
<1> HIDE DEF us, ws
<1>6. Held(u) = [type |-> "List", item |-> u.item, signature |-> ItemSignature(u), elems |-> us]
  BY <1>1, HeldForms DEF us
<1>7. Held(w) = [type |-> "List", item |-> w.item, signature |-> ItemSignature(w), elems |-> ws]
  BY <1>1, HeldForms DEF ws
<1>8. ASSUME Equal(u, w, zeroed) PROVE Held(u) = Held(w)
  <2>1. u.item = w.item /\ us = ws
    BY <1>2, <1>5, <1>8 DEF ListsEqual, AllEqual, EqualLists, SameItems
  <2>2. ItemSignature(u) = ItemSignature(w)
    BY <1>2, <1>8 DEF ListsEqual, AllEqual, EqualLists, SameItems,
                             ItemSignature, HasContainerItemType
  <2> QED BY <1>6, <1>7, <2>1, <2>2
<1>9. ASSUME zeroed, Held(u) = Held(w), ~HasMap(u) PROVE Equal(u, w, zeroed)
  <2>1. /\ Held(u).item = u.item /\ Held(w).item = w.item
        /\ Held(u).signature = ItemSignature(u) /\ Held(w).signature = ItemSignature(w)
        /\ Held(u).elems = us /\ Held(w).elems = ws
    BY <1>6, <1>7
  <2>2. u.item = w.item /\ us = ws /\ ItemSignature(u) = ItemSignature(w)
    BY <1>9, <2>1, Zenon
  <2> QED BY <1>2, <1>5, <1>9, <2>2 DEF ListsEqual, AllEqual, EqualLists, SameItems,
                             ItemSignature, HasContainerItemType
<1> QED BY <1>8, <1>9

(* Equality is exact for structs when it is for their members.             *)
LEMMA StructsExact ==
    ASSUME Recursion, NEW P, \A x, y \in P : Exact(x, y),
           NEW u, NEW w, StructOver(u, P), StructOver(w, P)
    PROVE  Exact(u, w)
<1> SUFFICES ASSUME NEW zeroed \in BOOLEAN
             PROVE  /\ Equal(u, w, zeroed) => Held(u) = Held(w)
                    /\ zeroed /\ Held(u) = Held(w) /\ ~HasMap(u) => Equal(u, w, zeroed)
  BY DEF Exact
<1> DEFINE us == [i \in DOMAIN u.members |-> Held(u.members[i])]
           ws == [i \in DOMAIN w.members |-> Held(w.members[i])]
<1>1. u.type = "Struct" /\ w.type = "Struct"
  BY DEF StructOver
<1>2. Equal(u, w, zeroed) <=> AllEqual(u.members, w.members, zeroed)
  BY <1>1, UnfoldEqual DEF EqualNow, EqualTo, AllEqual, EqualAll
<1>3. HasMap(u) <=> \E i \in DOMAIN u.members : HasMap(u.members[i])
  BY <1>1, UnfoldMap DEF MapNow, MapHere
<1>4. /\ \A i \in DOMAIN u.members : u.members[i] \in P
      /\ \A i \in DOMAIN w.members : w.members[i] \in P
  BY SeqItems DEF StructOver
<1>5. /\ Equal(u, w, zeroed) => us = ws
      /\ zeroed /\ ~HasMap(u) /\ us = ws => Equal(u, w, zeroed)
  <2>1. /\ AllEqual(u.members, w.members, zeroed) => us = ws
        /\ zeroed /\ (\A i \in DOMAIN u.members : ~HasMap(u.members[i])) /\ us = ws
           => AllEqual(u.members, w.members, zeroed)
    BY <1>4, ExactItems
  <2> QED BY <1>2, <1>3, <2>1
<1> HIDE DEF us, ws
<1>6. Held(u) = [type |-> "Struct", members |-> us] /\ Held(w) = [type |-> "Struct", members |-> ws]
  BY <1>1, HeldForms DEF us, ws
<1>7. Held(u) = Held(w) <=> us = ws
  BY <1>6
<1> QED BY <1>5, <1>7

(* Equality is exact for variants when it is for what they hold.           *)
LEMMA VariantsExact ==
    ASSUME Recursion, NEW P, \A x, y \in P : Exact(x, y),
           NEW u, NEW w, VariantOver(u, P), VariantOver(w, P)
    PROVE  Exact(u, w)
<1>1. u.type = "Variant" /\ w.type = "Variant"
  BY DEF VariantOver
<1>2. \A zeroed \in BOOLEAN : Equal(u, w, zeroed) <=>
         u.signature = w.signature /\ Equal(u.content, w.content, zeroed)
  BY <1>1, UnfoldEqual DEF EqualNow, EqualTo
<1>3. HasMap(u) <=> HasMap(u.content)
  BY <1>1, UnfoldMap DEF MapNow, MapHere
<1>4. Exact(u.content, w.content)
  BY DEF VariantOver
<1>5. /\ Held(u) = [type |-> "Variant", signature |-> u.signature, content |-> Held(u.content)]
      /\ Held(w) = [type |-> "Variant", signature |-> w.signature, content |-> Held(w.content)]
  BY <1>1, HeldForms
<1>6. Held(u) = Held(w) <=> u.signature = w.signature /\ Held(u.content) = Held(w.content)
  BY <1>5
<1> QED BY <1>2, <1>3, <1>4, <1>6 DEF Exact

(* Equality is exact for two values of a basic type.                       *)
LEMMA BasicsExact ==
    ASSUME Recursion, NEW u, NEW w, BasicOf(u), BasicOf(w), u.type = w.type
    PROVE  Exact(u, w)
<1>1. u.type \notin {"Invalid", "List", "Map", "Struct", "Variant"}
  BY PlainTypes DEF BasicOf
<1>2. Held(u) = u /\ Held(w) = w
  BY <1>1, HeldForms
<1>3. \A zeroed \in BOOLEAN : /\ Equal(u, w, zeroed) => u.atom = w.atom
                              /\ zeroed /\ u.atom = w.atom => Equal(u, w, zeroed)
  BY <1>1, UnfoldEqual DEF EqualNow, EqualTo
<1>4. u = w <=> u.atom = w.atom
  BY DEF BasicOf
<1>5. u = w <=> Held(u) = Held(w)
  BY <1>2
<1> QED BY <1>3, <1>4, <1>5, Zenon DEF Exact

(* Equality is exact for any two values made of values for which it is: no *)
(* induction over the values is needed, for every value was made of        *)
(* earlier ones.                                                           *)
LEMMA MadeExact ==
    ASSUME Recursion, NEW P, \A x, y \in P : Exact(x, y),
           NEW u, NEW w, MadeOf(u, P), MadeOf(w, P)
    PROVE  Exact(u, w)
<1>1. CASE u.type # w.type
  <2>1. \A zeroed \in BOOLEAN : ~Equal(u, w, zeroed)
    BY <1>1, UnfoldEqual DEF EqualNow, EqualTo
  <2>2. Held(u) # Held(w)
    BY <1>1, HeldType, Zenon
  <2> QED BY <2>1, <2>2 DEF Exact
<1>2. CASE u.type = w.type
  <2>1. CASE u.type = "Invalid"
    <3>1. u = w /\ u.type = "Invalid"
      BY <1>2, <2>1, FormByType
    <3>2. \A zeroed \in BOOLEAN : Equal(u, w, zeroed)
      BY <1>2, <2>1, UnfoldEqual DEF EqualNow, EqualTo
    <3> QED BY <3>1, <3>2 DEF Exact
  <2>2. CASE u.type \in Plain
    BY <1>2, <2>2, FormByType, BasicsExact
  <2>3. CASE u.type = "List"
    BY <1>2, <2>3, FormByType, ListsExact
  <2>4. CASE u.type = "Struct"
    BY <1>2, <2>4, FormByType, StructsExact
  <2>5. CASE u.type = "Variant"
    BY <1>2, <2>5, FormByType, VariantsExact
  <2>6. CASE u.type = "Map"
    <3>1. \A zeroed \in BOOLEAN : ~Equal(u, w, zeroed)
      BY <2>6, UnfoldEqual DEF EqualNow, EqualTo
    <3>2. HasMap(u)
      BY <2>6, UnfoldMap DEF MapNow, MapHere
    <3> QED BY <3>1, <3>2 DEF Exact
  <2> QED BY <2>1, <2>2, <2>3, <2>4, <2>5, <2>6, FormByType
<1> QED BY <1>1, <1>2

(* A stock of values to which others are added that were made of it.       *)
LEMMA ClosedGrows ==
    ASSUME Recursion, NEW P, Closed(P), NEW N, \A v \in N : MadeOf(v, P)
    PROVE  Closed(P \cup N)
<1>1. \A v \in P \cup N : MadeOf(v, P)
  BY DEF Closed
<1>2. \A v \in P \cup N : MadeOf(v, P \cup N)
  BY <1>1, MadeOfMore
<1>3. \A v \in P \cup N : WellTyped(v)
  BY <1>1, MadeTyped DEF Closed
<1>4. \A u, w \in P \cup N : Exact(u, w)
  BY <1>1, MadeExact DEF Closed
<1> QED BY <1>2, <1>3, <1>4 DEF Closed

-----------------------------------------------------------------------------
(* What the constructors and operators make. *)

(* What a container may hold depends on what it announces alone.           *)
LEMMA SameFitting ==
    ASSUME NEW P, NEW c, NEW e, c.item = e.item, c.proto = e.proto
    PROVE  Fitting(c, P) = Fitting(e, P)
BY DEF Fitting, Accepts, HasContainerItemType

(* A value of a basic type, or an invalid path.                            *)
LEMMA FromMade ==
    ASSUME NEW t \in Plain, NEW a
    PROVE  From(t, a) = Invalid \/ (BasicOf(From(t, a)) /\ From(t, a).type = t)
BY DEF From, BasicOf

(* An atom that is kept fits a container of its type.                      *)
LEMMA AtomFits ==
    ASSUME NEW P, NEW t \in Plain, NEW a, From(t, a) \in P, NEW c, c.item = t
    PROVE  From(t, a) \in Fitting(c, P)
BY FromMade, PlainTypes DEF Fitting, Accepts, HasContainerItemType, Container

(* A list without items.                                                   *)
LEMMA EmptyLists ==
    ASSUME NEW P, NEW t
    PROVE  /\ ListOver(ListOfType(t), P) /\ ListOfType(t).item = t
           /\ ListOver(EmptyList, P)
<1>1. EmptyList.elems \in Seq(Fitting(EmptyList, P))
  BY DEF EmptyList
<1>2. ListOfType(t) = [type |-> "List", item |-> t, proto |-> Invalid, elems |-> <<>>]
  BY DEF ListOfType, EmptyList
<1>3. ListOfType(t).elems \in Seq(Fitting(ListOfType(t), P))
  BY <1>2
<1> QED BY <1>1, <1>2, <1>3 DEF ListOver, EmptyList

(* A map without entries.                                                  *)
LEMMA EmptyMaps ==
    ASSUME NEW P, NEW k, NEW t
    PROVE  MapOver(MapOfType(k, t), P) /\ MapOfType(k, t).item = t
BY DEF MapOver, MapOfType, NoEntries

(* Adopt() changes what a container announces, not what it holds.          *)
LEMMA AdoptFields ==
    ASSUME NEW P, NEW c, NEW v, ListOver(c, P) \/ MapOver(c, P)
    PROVE  /\ Adopt(c, v).type = c.type
           /\ Adopt(c, v).item = v.type
           /\ Adopt(c, v).proto = IF v.type \in Container THEN v ELSE Invalid
           /\ ListOver(c, P) =>
                 /\ Adopt(c, v).elems = c.elems
                 /\ Adopt(c, v) = [type |-> "List", item |-> Adopt(c, v).item,
                                   proto |-> Adopt(c, v).proto, elems |-> c.elems]
           /\ MapOver(c, P) =>
                 /\ Adopt(c, v).entries = c.entries
                 /\ Adopt(c, v) = [type |-> "Map", key |-> c.key, item |-> Adopt(c, v).item,
                                   proto |-> Adopt(c, v).proto, entries |-> c.entries]
<1> DEFINE x == v.type
           y == IF v.type \in Container THEN v ELSE Invalid
<1>1. Adopt(c, v) = [c EXCEPT !.item = x, !.proto = y]
  BY DEF Adopt
<1> HIDE DEF x, y
<1>2. CASE ListOver(c, P)
  <2>1. c \in [type : {"List"}, item : {c.item}, proto : {c.proto}, elems : {c.elems}]
    BY <1>2 DEF ListOver
  <2>2. Adopt(c, v) \in [type : {"List"}, item : {x}, proto : {y}, elems : {c.elems}]
    BY <1>1, <2>1
  <2>3. Adopt(c, v) = [type |-> "List", item |-> x, proto |-> y, elems |-> c.elems]
    BY <2>2
  <2>4. c.type = "List" /\ ~MapOver(c, P)
    BY <1>2 DEF ListOver, MapOver
  <2> QED BY <2>3, <2>4 DEF x, y
<1>3. CASE MapOver(c, P)
  <2>1. c \in [type : {"Map"}, key : {c.key}, item : {c.item}, proto : {c.proto},
               entries : {c.entries}]
    BY <1>3 DEF MapOver
  <2>2. Adopt(c, v) \in [type : {"Map"}, key : {c.key}, item : {x}, proto : {y},
                         entries : {c.entries}]
    BY <1>1, <2>1
  <2>3. Adopt(c, v) = [type |-> "Map", key |-> c.key, item |-> x, proto |-> y,
                       entries |-> c.entries]
    BY <2>2
  <2>4. c.type = "Map" /\ ~ListOver(c, P)
    BY <1>3 DEF ListOver, MapOver
  <2> QED BY <2>3, <2>4 DEF x, y
<1> QED BY <1>2, <1>3

(* What has no item type holds nothing but Invalid, and accepts anything.  *)
LEMMA AdoptMade ==
    ASSUME NEW P, \A u \in P : MadeOf(u, P), NEW v \in P,
           NEW c, ListOver(c, P) \/ MapOver(c, P), c.item = "Invalid"
    PROVE  /\ ListOver(c, P) => ListOver(Adopt(c, v), P)
           /\ MapOver(c, P) => MapOver(Adopt(c, v), P)
           /\ v \in Fitting(Adopt(c, v), P)
<1> DEFINE a == Adopt(c, v)
<1>1. \A u \in Fitting(c, P) : u = Invalid
  BY FormByType DEF Fitting, Accepts
<1>2. Fitting(c, P) \subseteq Fitting(a, P)
  BY <1>1 DEF Fitting
<1>3. /\ a.type = c.type /\ a.item = v.type
      /\ a.proto = IF v.type \in Container THEN v ELSE Invalid
  BY AdoptFields
<1>4. v \in Fitting(a, P)
  BY <1>3 DEF Fitting, Accepts, HasContainerItemType
<1>5. ASSUME ListOver(c, P) PROVE ListOver(a, P)
  <2>1. a = [type |-> "List", item |-> a.item, proto |-> a.proto, elems |-> c.elems]
    BY <1>5, AdoptFields
  <2>2. c.elems \in Seq(Fitting(a, P))
    BY <1>2, <1>5 DEF ListOver
  <2> HIDE DEF a
  <2> QED BY <2>1, <2>2 DEF ListOver
<1>6. ASSUME MapOver(c, P) PROVE MapOver(a, P)
  <2>1. a = [type |-> "Map", key |-> c.key, item |-> a.item, proto |-> a.proto,
             entries |-> c.entries]
    BY <1>6, AdoptFields
  <2>2. c.entries \in [DOMAIN c.entries -> Fitting(a, P)]
    BY <1>2, <1>6 DEF MapOver
  <2> HIDE DEF a
  <2> QED BY <2>1, <2>2 DEF MapOver
<1> QED BY <1>4, <1>5, <1>6

(* A list with other items that fit.                                       *)
LEMMA WithElems ==
    ASSUME NEW P, NEW l, ListOver(l, P), NEW es \in Seq(Fitting(l, P))
    PROVE  ListOver([l EXCEPT !.elems = es], P)
<1> DEFINE n == [l EXCEPT !.elems = es]
<1>1. n = [type |-> "List", item |-> l.item, proto |-> l.proto, elems |-> es]
  BY DEF ListOver
<1>2. Fitting(n, P) = Fitting(l, P)
  BY <1>1, SameFitting
<1> HIDE DEF n
<1>3. ListOver(n, P)
  BY <1>1, <1>2 DEF ListOver
<1> QED BY <1>3 DEF n

(* A map with other entries that fit.                                      *)
LEMMA WithEntries ==
    ASSUME NEW P, NEW m, MapOver(m, P), NEW D, NEW f \in [D -> Fitting(m, P)]
    PROVE  MapOver([m EXCEPT !.entries = f], P)
<1> DEFINE n == [m EXCEPT !.entries = f]
<1>1. n = [type |-> "Map", key |-> m.key, item |-> m.item, proto |-> m.proto, entries |-> f]
  BY DEF MapOver
<1>2. Fitting(n, P) = Fitting(m, P)
  BY <1>1, SameFitting
<1> HIDE DEF n
<1>3. MapOver(n, P)
  BY <1>1, <1>2 DEF MapOver
<1> QED BY <1>3 DEF n

(* operator<< leaves a list of items that fit.                             *)
LEMMA PutMade ==
    ASSUME NEW P, \A u \in P : MadeOf(u, P), NEW l, ListOver(l, P), NEW v \in P
    PROVE  ListOver(Put(l, v), P)
<1> DEFINE typed == IF l.item = "Invalid" THEN Adopt(l, v) ELSE l
<1>1. ListOver(typed, P)
  BY AdoptMade
<1>2. CASE v = Invalid \/ ~Accepts(typed, v)
  BY <1>2 DEF Put
<1>3. CASE ~(v = Invalid \/ ~Accepts(typed, v))
  <2>1. v \in Fitting(typed, P)
    BY <1>3 DEF Fitting
  <2>2. Put(l, v) = [typed EXCEPT !.elems = Append(typed.elems, v)]
    BY <1>3 DEF Put
  <2> HIDE DEF typed
  <2>3. Append(typed.elems, v) \in Seq(Fitting(typed, P))
    BY <1>1, <2>1 DEF ListOver
  <2> QED BY <1>1, <2>2, <2>3, WithElems
<1> QED BY <1>2, <1>3

(* insert() leaves a map of entries that fit.                              *)
LEMMA InsertMade ==
    ASSUME NEW P, \A u \in P : MadeOf(u, P), NEW m, MapOver(m, P), NEW k, NEW v \in P
    PROVE  MapOver(Insert(m, k, v), P)
<1> DEFINE typed == IF m.item = "Invalid" THEN Adopt(m, v) ELSE m
           more == [j \in DOMAIN typed.entries \cup {k} |->
                       IF j = k THEN v ELSE typed.entries[j]]
<1>1. MapOver(typed, P)
  BY AdoptMade
<1>2. CASE v = Invalid \/ ~Accepts(typed, v)
  BY <1>2 DEF Insert
<1>3. CASE ~(v = Invalid \/ ~Accepts(typed, v))
  <2>1. v \in Fitting(typed, P)
    BY <1>3 DEF Fitting
  <2>2. Insert(m, k, v) = [typed EXCEPT !.entries = more]
    BY <1>3 DEF Insert
  <2>3. more \in [DOMAIN typed.entries \cup {k} -> Fitting(typed, P)]
    <3> HIDE DEF typed
    <3> QED BY <1>1, <2>1 DEF MapOver
  <2> HIDE DEF typed, more
  <2> QED BY <1>1, <2>2, <2>3, WithEntries
<1> QED BY <1>2, <1>3

(* The first of the values that are put together says what all are.        *)
LEMMA OfMade ==
    ASSUME NEW P, NEW k, NEW v
    PROVE  /\ ListOver(ListOf(v), P) /\ MapOver(MapOf(k, v), P)
           /\ Fitting(ListOf(v), P) = Fitting(MapOf(k, v), P)
<1>1. ListOver(EmptyList, P) /\ MapOver(MapOfType(k, "Invalid"), P)
  BY EmptyLists, EmptyMaps
<1>2. /\ ListOf(v).item = v.type /\ MapOf(k, v).item = v.type
      /\ ListOf(v).proto = MapOf(k, v).proto
  BY <1>1, AdoptFields DEF ListOf, MapOf
<1>3. Fitting(ListOf(v), P) = Fitting(MapOf(k, v), P)
  BY <1>2, SameFitting
<1>4. ListOver(ListOf(v), P)
  <2> DEFINE l == ListOf(v)
  <2>1. l = [type |-> "List", item |-> l.item, proto |-> l.proto, elems |-> EmptyList.elems]
    BY <1>1, AdoptFields DEF ListOf
  <2>2. EmptyList.elems = <<>>
    BY DEF EmptyList
  <2> HIDE DEF l
  <2>3. l.type = "List" /\ l.elems = EmptyList.elems
    BY <2>1
  <2>4. ListOver(l, P)
    BY <2>1, <2>2, <2>3 DEF ListOver
  <2> QED BY <2>4 DEF l
<1>5. MapOver(MapOf(k, v), P)
  <2> DEFINE m == MapOf(k, v)
             e == MapOfType(k, "Invalid")
  <2>1. m = [type |-> "Map", key |-> e.key, item |-> m.item, proto |-> m.proto,
             entries |-> e.entries]
    BY <1>1, AdoptFields DEF MapOf
  <2>2. e.entries = NoEntries
    BY DEF MapOfType
  <2> HIDE DEF m, e
  <2>3. m.type = "Map" /\ m.key = e.key /\ m.entries = e.entries
    BY <2>1
  <2>4. MapOver(m, P)
    BY <2>1, <2>2, <2>3 DEF MapOver, NoEntries
  <2> QED BY <2>4 DEF m
<1> QED BY <1>3, <1>4, <1>5

(* A list or a map of several values holds what fits, or nothing.          *)
LEMMA TogetherMade ==
    ASSUME NEW P, NEW vs \in Seq(P), NEW k
    PROVE  ListOver(ListFrom(vs), P) /\ MapOver(MapFrom(k, vs), P)
<1>1. CASE vs = <<>> \/ ~Homogeneous(vs)
  BY <1>1, EmptyLists, EmptyMaps DEF ListFrom, MapFrom
<1>2. CASE vs # <<>> /\ Homogeneous(vs)
  <2> DEFINE v == vs[1]
  <2>1. \A i \in DOMAIN vs : vs[i] \in Fitting(ListOf(v), P)
    BY <1>2, SeqItems DEF Homogeneous, Fitting, ListOf
  <2>2. vs \in Seq(Fitting(ListOf(v), P)) /\ vs \in [DOMAIN vs -> Fitting(MapOf(k, v), P)]
    <3> HIDE DEF v
    <3> QED BY <2>1, OfMade
  <2>3. /\ ListFrom(vs) = [ListOf(v) EXCEPT !.elems = vs]
        /\ MapFrom(k, vs) = [MapOf(k, v) EXCEPT !.entries = vs]
    BY <1>2 DEF ListFrom, MapFrom
  <2> HIDE DEF v
  <2> QED BY <2>2, <2>3, OfMade, WithElems, WithEntries
<1> QED BY <1>1, <1>2

-----------------------------------------------------------------------------
(* The values made last, and those before them.                            *)
LEMMA LatestOnes ==
    ASSUME NEW P, values \in Seq(P), NEW n \in Nat, n <= Len(values)
    PROVE  /\ SubSeq(values, 1, Len(values) - n) \in Seq(P)
           /\ Latest(n) \in Seq(P) /\ Len(Latest(n)) = n
           /\ n > 0 => Latest(n)[1] \in P
           /\ n > 1 => Latest(n)[2] \in P
<1>1. Len(values) \in Nat
  OBVIOUS
<1>2. SubSeq(values, 1, Len(values) - n) \in Seq(P)
  BY <1>1
<1>3. Latest(n) \in Seq(P) /\ Len(Latest(n)) = n
  BY <1>1 DEF Latest
<1> QED BY <1>2, <1>3, SeqItems

(* New values made of those there are leave the stock closed.              *)
LEMMA MakeKeeps ==
    ASSUME Recursion, NEW P, Closed(P), values \in Seq(P),
           NEW N, \A v \in N : MadeOf(v, P),
           NEW made \in Seq(P \cup N), NEW n \in Nat, Make(n, made)
    PROVE  Built'
<1>1. Closed(P \cup N)
  BY ClosedGrows
<1>2. SubSeq(values, 1, Len(values) - n) \in Seq(P \cup N)
  <2>1. SubSeq(values, 1, Len(values) - n) \in Seq(P)
    BY LatestOnes DEF Make
  <2> QED BY <2>1
<1>3. values' \in Seq(P \cup N)
  BY <1>2 DEF Make
<1> QED BY <1>1, <1>3 DEF Built

(* The same for one new value.                                             *)
LEMMA MakeOne ==
    ASSUME Recursion, NEW P, Closed(P), values \in Seq(P),
           NEW v, MadeOf(v, P), NEW n \in Nat, Make(n, <<v>>)
    PROVE  Built'
<1>1. <<v>> \in Seq(P \cup {v})
  OBVIOUS
<1> QED BY <1>1, MakeKeeps

(* fromList() and fromXKeyMap().                                           *)
LEMMA FormsMade ==
    ASSUME NEW P, NEW v
    PROVE  /\ ListOver(v, P) => MadeOf(FromList(v), P)
           /\ MapOver(v, P) => MadeOf(FromMap(v), P)
BY DEF FromList, FromMap, MadeOf

(* toList() and toXKeyMap(), the cast of any map to any key type included. *)
LEMMA ToForms ==
    ASSUME NEW P, NEW v, MadeOf(v, P), NEW k
    PROVE  ListOver(ToList(v), P) /\ MapOver(ToMap(v, k), P)
<1>1. ListOver(ToList(v), P)
  <2>1. ListOver(EmptyList, P)
    BY EmptyLists
  <2> QED BY <2>1, FormByType DEF ToList
<1>2. CASE v.type # "Map"
  BY <1>1, <1>2, EmptyMaps DEF ToMap
<1>3. CASE v.type = "Map"
  <2> DEFINE m == [v EXCEPT !.key = k]
  <2>1. MapOver(v, P)
    BY <1>3, FormByType
  <2>2. m = [type |-> "Map", key |-> k, item |-> v.item, proto |-> v.proto,
             entries |-> v.entries]
    BY <2>1 DEF MapOver
  <2>3. Fitting(m, P) = Fitting(v, P)
    BY <2>2, SameFitting
  <2>4. m = ToMap(v, k)
    BY <1>3 DEF ToMap
  <2> HIDE DEF m
  <2>5. MapOver(m, P)
    BY <2>1, <2>2, <2>3 DEF MapOver
  <2> QED BY <1>1, <2>4, <2>5
<1> QED BY <1>1, <1>2, <1>3

(* A struct of valid members.                                              *)
LEMMA StructMade ==
    ASSUME NEW P, NEW ms \in Seq(P \ {Invalid})
    PROVE  MadeOf([type |-> "Struct", members |-> ms], P)
<1> DEFINE v == [type |-> "Struct", members |-> ms]
<1>1. v.type = "Struct" /\ v.members = ms /\ v = [type |-> "Struct", members |-> ms]
  OBVIOUS
<1> HIDE DEF v
<1>2. StructOver(v, P)
  BY <1>1 DEF StructOver
<1> QED BY <1>1, <1>2 DEF MadeOf

(* The plain list or map of a type, and back.                              *)
LEMMA RebuildKeeps ==
    ASSUME Recursion, NEW P, Closed(P), values \in Seq(P), NEW t \in Plain, Rebuild(t)
    PROVE  Built'
<1> DEFINE c == Latest(1)[1]
<1>1. Len(values) \in Nat /\ 1 <= Len(values)
  BY DEF Rebuild
<1>2. c \in P /\ MadeOf(c, P)
  BY <1>1, LatestOnes DEF Closed
<1>3. CASE c.type = "List"
  <2> DEFINE as == ToAtoms(c, t)
             es == [i \in DOMAIN as |-> From(t, as[i])]
             N  == {From(t, as[i]) : i \in DOMAIN as}
             Q  == P \cup N
  <2>1. Make(1, <<FromList(ListFromAtoms(t, as))>>)
    BY <1>3 DEF Rebuild
  <2>2. c.elems \in Seq(P)
    <3>1. c.elems \in Seq(Fitting(c, P)) /\ Fitting(c, P) \subseteq P
      BY <1>2, <1>3, FormByType DEF ListOver, Fitting
    <3> HIDE DEF c
    <3> QED BY <3>1, SeqGrows
  <2>3. as = <<>> \/ as = [i \in 1 .. Len(c.elems) |-> To(c.elems[i], t)]
    <3>1. DOMAIN c.elems = 1 .. Len(c.elems)
      BY <2>2
    <3> HIDE DEF c
    <3> QED BY <3>1, Zenon DEF ToAtoms
  <2>4. \E n \in Nat : DOMAIN as = 1 .. n
    <3>1. Len(c.elems) \in Nat
      BY <2>2
    <3>2. CASE as = <<>>
      BY <3>2
    <3>3. CASE as = [i \in 1 .. Len(c.elems) |-> To(c.elems[i], t)]
      BY <3>1, <3>3
    <3> QED BY <2>3, <3>2, <3>3
  <2> HIDE DEF as
  <2>5. Closed(Q)
    <3>1. \A v \in N : MadeOf(v, P)
      BY FromMade DEF MadeOf
    <3> QED BY <3>1, ClosedGrows
  <2>6. es \in Seq(Fitting(ListOfType(t), Q))
    <3>1. \A i \in DOMAIN as : es[i] \in Fitting(ListOfType(t), Q)
      BY AtomFits, EmptyLists
    <3>2. DOMAIN es = DOMAIN as /\ es = [i \in DOMAIN es |-> es[i]]
      OBVIOUS
    <3> HIDE DEF es, Q
    <3> QED BY <2>4, <3>1, <3>2, SeqByItems
  <2>7. ListOver(ListFromAtoms(t, as), Q)
    BY <2>6, EmptyLists, WithElems DEF ListFromAtoms
  <2>8. values \in Seq(Q)
    BY SeqGrows
  <2> HIDE DEF Q
  <2> QED BY <2>1, <2>5, <2>7, <2>8, FormsMade, MakeOne
<1>4. CASE c.type = "Map"
  <2> DEFINE f    == ToAtomMap(c, t)
             kept == {j \in DOMAIN f : From(t, f[j]) # Invalid}
             es   == [j \in kept |-> From(t, f[j])]
             N    == {From(t, f[j]) : j \in DOMAIN f}
             Q    == P \cup N
  <2>1. Make(1, <<FromMap(MapFromAtoms(c.key, t, f))>>)
    BY <1>4 DEF Rebuild
  <2> HIDE DEF f
  <2>2. Closed(Q)
    <3>1. \A v \in N : MadeOf(v, P)
      BY FromMade DEF MadeOf
    <3> QED BY <3>1, ClosedGrows
  <2>3. es \in [kept -> Fitting(MapOfType(c.key, t), Q)]
    BY AtomFits, EmptyMaps
  <2>4. MapFromAtoms(c.key, t, f) = [MapOfType(c.key, t) EXCEPT !.entries = es]
    BY DEF MapFromAtoms
  <2>5. MapOver(MapFromAtoms(c.key, t, f), Q)
    <3> HIDE DEF es, kept, Q, c
    <3>1. MapOver(MapOfType(c.key, t), Q)
      BY EmptyMaps
    <3> QED BY <2>3, <2>4, <3>1, WithEntries
  <2>6. values \in Seq(Q)
    BY SeqGrows
  <2> HIDE DEF Q
  <2> QED BY <2>1, <2>2, <2>5, <2>6, FormsMade, MakeOne
<1> QED BY <1>3, <1>4 DEF Rebuild

(* The struct of a QRect, QPoint or QSize.                                 *)
LEMMA ConvertKeeps ==
    ASSUME Recursion, NEW P, Closed(P), values \in Seq(P), NEW n \in {2, 4}, Convert(n)
    PROVE  Built'
<1> DEFINE as == ToGeometry(Latest(1)[1], n)
           ms == [i \in DOMAIN as |-> From("Int32", as[i])]
           N  == {From("Int32", as[i]) : i \in DOMAIN as}
           Q  == P \cup N
<1>1. Make(1, <<FromGeometry(as)>>)
  BY DEF Convert
<1>2. \E k \in Nat : DOMAIN as = 1 .. k
  <2>1. as = <<>> \/ as = [i \in 1 .. n |-> To(ToStruct(Latest(1)[1])[i], "Int32")]
    BY DEF ToGeometry
  <2>2. CASE as = <<>>
    BY <2>2
  <2>3. CASE as = [i \in 1 .. n |-> To(ToStruct(Latest(1)[1])[i], "Int32")]
    BY <2>3
  <2> QED BY <2>1, <2>2, <2>3
<1> HIDE DEF as
<1>3. "Int32" \in Plain
  BY DEF Plain, Letter
<1>4. Closed(Q)
  <2>1. \A v \in N : MadeOf(v, P)
    BY <1>3, FromMade DEF MadeOf
  <2> QED BY <2>1, ClosedGrows
<1>5. ms \in Seq(Q \ {Invalid})
  <2>1. \A i \in DOMAIN as : ms[i] \in Q /\ ms[i] # Invalid
    <3>1. \A a : From("Int32", a) = [type |-> "Int32", atom |-> a]
      BY DEF From
    <3>2. \A a : From("Int32", a).type # Invalid.type
      BY <3>1, InvalidType
    <3>3. \A i \in DOMAIN as : From("Int32", as[i]) # Invalid
      BY <3>2, Zenon
    <3> QED BY <3>3
  <2>2. DOMAIN ms = DOMAIN as /\ ms = [i \in DOMAIN ms |-> ms[i]]
    OBVIOUS
  <2> HIDE DEF ms, Q
  <2> QED BY <1>2, <2>1, <2>2, SeqByItems
<1>6. FromGeometry(as) = [type |-> "Struct", members |-> ms]
  <2>1. \A i \in DOMAIN ms : ms[i] # Invalid
    <3> HIDE DEF ms, Q
    <3> QED BY <1>5, SeqItems
  <2>2. FromGeometry(as) = FromStruct(ms)
    BY DEF FromGeometry
  <2> HIDE DEF ms
  <2> QED BY <2>1, <2>2 DEF FromStruct
<1>7. values \in Seq(Q)
  BY SeqGrows
<1> HIDE DEF Q, ms
<1>8. MadeOf(FromGeometry(as), Q)
  BY <1>5, <1>6, StructMade
<1> QED BY <1>1, <1>4, <1>7, <1>8, MakeOne

(* Every step makes its values of those there are. *)
LEMMA ProgramKeeps ==
    ASSUME Recursion, TypesOK, Built, Program
    PROVE  Built'
<1>1. PICK P : Closed(P) /\ values \in Seq(P)
  BY DEF Built
<1>2. \A v \in P : MadeOf(v, P)
  BY <1>1 DEF Closed
<1>3. Basic \subseteq Plain
  BY DEF TypesOK, Plain
<1> DEFINE last == Latest(1)[1]
<1>4. values # <<>> => 1 <= Len(values) /\ last \in P /\ MadeOf(last, P)
  <2>1. values # <<>> => Len(values) \in Nat /\ 1 <= Len(values)
    BY <1>1
  <2> QED BY <1>1, <1>2, <2>1, LatestOnes
<1>5. \A n \in 0 .. MaxValues : n <= Len(values) => n \in Nat /\ Latest(n) \in Seq(P)
  BY <1>1, LatestOnes
<1>6. ASSUME NEW t \in Basic, NEW a, MakeBasic(t, a) PROVE Built'
  <2>1. MadeOf(From(t, a), P)
    BY <1>3, FromMade DEF MadeOf
  <2> QED BY <1>1, <1>6, <2>1, MakeOne DEF MakeBasic
<1>7. ASSUME NEW t \in Basic, NewList(t) PROVE Built'
  BY <1>1, <1>7, EmptyLists, FormsMade, MakeOne DEF NewList
<1>8. ASSUME NEW k \in Key, NEW t \in Basic, NewMap(k, t) PROVE Built'
  BY <1>1, <1>8, EmptyMaps, FormsMade, MakeOne DEF NewMap
<1>9. ASSUME NewListOf PROVE Built'
  BY <1>1, <1>9, OfMade, FormsMade, MakeOne DEF NewListOf
<1>10. ASSUME NEW k \in Key, NewMapOf(k) PROVE Built'
  BY <1>1, <1>10, OfMade, FormsMade, MakeOne DEF NewMapOf
<1>11. ASSUME NEW n \in 0 .. MaxValues, NewListFrom(n) PROVE Built'
  <2>1. n \in Nat /\ ListOver(ListFrom(Latest(n)), P)
    BY <1>5, <1>11, TogetherMade DEF NewListFrom
  <2> QED BY <1>1, <1>11, <2>1, FormsMade, MakeOne DEF NewListFrom
<1>12. ASSUME NEW n \in 0 .. MaxValues, NEW k \in Key, NewMapFrom(k, n) PROVE Built'
  <2>1. n \in Nat /\ MapOver(MapFrom(k, Latest(n)), P)
    BY <1>5, <1>12, TogetherMade DEF NewMapFrom
  <2> QED BY <1>1, <1>12, <2>1, FormsMade, MakeOne DEF NewMapFrom
<1>13. ASSUME PutLast PROVE Built'
  <2>1. Latest(2)[1] \in P /\ Latest(2)[2] \in P
    BY <1>1, <1>13, LatestOnes DEF PutLast
  <2>2. ListOver(ToList(Latest(2)[1]), P)
    BY <1>2, <2>1, ToForms
  <2>3. ListOver(Put(ToList(Latest(2)[1]), Latest(2)[2]), P)
    BY <1>2, <2>1, <2>2, PutMade
  <2> QED BY <1>1, <1>13, <2>3, FormsMade, MakeOne DEF PutLast
<1>14. ASSUME NEW k \in Key, NEW a \in Atom, InsertLast(k, a) PROVE Built'
  <2>1. Latest(2)[1] \in P /\ Latest(2)[2] \in P
    BY <1>1, <1>14, LatestOnes DEF InsertLast
  <2>2. MapOver(ToMap(Latest(2)[1], k), P)
    BY <1>2, <2>1, ToForms
  <2>3. MapOver(Insert(ToMap(Latest(2)[1], k), a, Latest(2)[2]), P)
    BY <1>2, <2>1, <2>2, InsertMade
  <2> QED BY <1>1, <1>14, <2>3, FormsMade, MakeOne DEF InsertLast
<1>15. ASSUME Clear PROVE Built'
  <2>1. MadeOf(IF last.type = "List" THEN [last EXCEPT !.elems = <<>>]
               ELSE [last EXCEPT !.entries = NoEntries], P)
    <3>1. CASE last.type = "List"
      <4>1. ListOver(last, P)
        BY <1>4, <1>15, <3>1, FormByType DEF Clear
      <4>2. <<>> \in Seq(Fitting(last, P))
        OBVIOUS
      <4> HIDE DEF last
      <4>3. ListOver([last EXCEPT !.elems = <<>>], P)
        BY <4>1, <4>2, WithElems
      <4> QED BY <3>1, <4>3 DEF MadeOf
    <3>2. CASE last.type = "Map"
      <4>1. MapOver(last, P)
        BY <1>4, <1>15, <3>2, FormByType DEF Clear
      <4>2. NoEntries \in [{} -> Fitting(last, P)]
        BY DEF NoEntries
      <4> HIDE DEF last
      <4>3. MapOver([last EXCEPT !.entries = NoEntries], P)
        BY <4>1, <4>2, WithEntries
      <4> QED BY <3>2, <4>3 DEF MadeOf
    <3> QED BY <1>15, <3>1, <3>2 DEF Clear
  <2> QED BY <1>1, <1>15, <2>1, MakeOne DEF Clear
<1>16. ASSUME NEW t \in Basic, Rebuild(t) PROVE Built'
  BY <1>1, <1>3, <1>16, RebuildKeeps
<1>17. ASSUME NEW n \in 0 .. MaxValues, MakeStruct(n) PROVE Built'
  <2>1. n \in Nat /\ Latest(n) \in Seq(P)
    BY <1>5, <1>17 DEF MakeStruct
  <2>2. MadeOf(FromStruct(Latest(n)), P)
    <3> DEFINE ms == Latest(n)
    <3>1. CASE \E i \in DOMAIN ms : ms[i] = Invalid
      BY <3>1 DEF FromStruct, MadeOf
    <3>2. CASE \A i \in DOMAIN ms : ms[i] # Invalid
      <4>1. ms \in Seq(P \ {Invalid})
        BY <2>1, <3>2
      <4>2. FromStruct(ms) = [type |-> "Struct", members |-> ms]
        BY <3>2 DEF FromStruct
      <4> QED BY <4>1, <4>2, StructMade
    <3> QED BY <3>1, <3>2
  <2> QED BY <1>1, <1>17, <2>1, <2>2, MakeOne DEF MakeStruct
<1>18. ASSUME OpenStruct PROVE Built'
  <2>1. ToStruct(last) \in Seq(P)
    <3>1. CASE last.type = "Struct"
      <4>1. last.members \in Seq(P \ {Invalid})
        BY <1>4, <1>18, <3>1, FormByType DEF OpenStruct, StructOver
      <4> HIDE DEF last
      <4>2. last.members \in Seq(P)
        BY <4>1, SeqGrows
      <4> QED BY <3>1, <4>2 DEF ToStruct
    <3>2. CASE last.type # "Struct"
      BY <3>2 DEF ToStruct
    <3> QED BY <3>1, <3>2
  <2>2. ToStruct(last) \in Seq(P \cup {})
    BY <2>1
  <2> QED BY <1>1, <1>18, <2>2, MakeKeeps DEF OpenStruct
<1>19. ASSUME NEW signed \in BOOLEAN, MakeVariant(signed) PROVE Built'
  <2>1. \A sig : MadeOf(FromVariant(sig, last), P)
    BY <1>4, <1>19 DEF MakeVariant, FromVariant, MadeOf, VariantOver
  <2> QED BY <1>1, <1>19, <2>1, MakeOne DEF MakeVariant
<1>20. ASSUME OpenVariant PROVE Built'
  <2>1. last.content \in P
    BY <1>4, <1>20, FormByType DEF OpenVariant, VariantOver
  <2> QED BY <1>1, <1>2, <1>20, <2>1, MakeOne DEF OpenVariant
<1>21. ASSUME NEW n \in {2, 4}, Convert(n) PROVE Built'
  BY <1>1, <1>21, ConvertKeeps
<1> QED BY <1>6, <1>7, <1>8, <1>9, <1>10, <1>11, <1>12, <1>13, <1>14, <1>15, <1>16, <1>17,
        <1>18, <1>19, <1>20, <1>21 DEF Program

(* A program has only values that were made of values, whatever it calls   *)
(* and in whatever order.                                                  *)
THEOREM ValuesAreBuilt == ASSUME Recursion, TypesOK PROVE ProgramSpec => []Built
<1>1. ProgramInit => Built
  <2>1. Closed({}) /\ <<>> \in Seq({})
    BY DEF Closed
  <2> QED BY <2>1 DEF ProgramInit, Built
<1>2. Built /\ UNCHANGED values => Built'
  BY DEF Built
<1> QED BY <1>1, <1>2, ProgramKeeps, PTL DEF ProgramSpec

(* Whatever the order of the calls, the containers of a program hold what  *)
(* they announce: Put and Insert drop what does not fit, Adopt is called   *)
(* while nothing valid is held, and no other call adds an item unseen.     *)
THEOREM ValuesAreTyped == ASSUME Recursion, TypesOK PROVE ProgramSpec => []Typed
<1>1. Built => Typed
  BY SeqItems DEF Built, Closed, Typed
<1> QED BY <1>1, ValuesAreBuilt, PTL

(* operator== is exact for the values a program makes, of any depth.       *)
THEOREM EqualityExact == ASSUME Recursion, TypesOK PROVE ProgramSpec => []EqualityIsExact
<1>1. Built => EqualityIsExact
  <2> SUFFICES ASSUME NEW P, Closed(P), values \in Seq(P),
                      NEW i \in DOMAIN values, NEW j \in DOMAIN values
               PROVE  Exact(values[i], values[j])
    BY DEF Built, EqualityIsExact, Exact
  <2> QED BY SeqItems DEF Closed
<1> QED BY <1>1, ValuesAreBuilt, PTL

=============================================================================
