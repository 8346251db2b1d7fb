----------------------------- MODULE QDBusValues -----------------------------
(***************************************************************************)
(* The way of the values of the D-Bus bindings for Qt 3                    *)
(* (dbus-qt3-backport) through a message: the marshalling of               *)
(* qdbusmarshall.cpp and the message of qdbusmessage.cpp.  A program makes *)
(* values (QDBusContainers), appends them to a message and sends it; the   *)
(* program that receives it demarshals it, and may go on with what it got. *)
(* What is a parameter of QDBusContainers is defined here by recursion.    *)
(***************************************************************************)
EXTENDS QDBusContainers, SequencesExt, FiniteSets

CONSTANTS
    MaxNodes,  \* bound: the parts of all values
    Rare       \* bound: the basic and key types that count as two parts

ASSUME ConstantsOK ==
    /\ TypesOK
    /\ Atom \subseteq Nat /\ 0 \in Atom
    /\ MaxValues \in Nat /\ MaxNodes \in Nat

VARIABLES
    wire,      \* the message under way: what libdbus holds of it
    sent       \* the values it was made from

vars == <<values, wire, sent>>

(* The parameters of QDBusContainers: the signature of a value, operator== *)
(* of two, if a value is well typed, what it holds, if it holds a map.     *)
RECURSIVE SignatureOf(_), Same(_, _, _), Typing(_), Holds(_), Mapped(_)
ItemsOf(c) == IF HasContainerItemType(c) THEN SignatureOf(c.proto) ELSE Char(c.item)
EntrySignature(m) == <<"{">> \o Char(m.key) \o ItemsOf(m) \o <<"}">>
SignatureOf(v) ==
    CASE v.type = "List" -> <<"a">> \o ItemsOf(v)
      [] v.type = "Struct" ->
           <<"(">> \o FlattenSeq([i \in DOMAIN v.members |-> SignatureOf(v.members[i])])
             \o <<")">>
      [] v.type = "Map" -> <<"a">> \o EntrySignature(v)
      [] OTHER -> Char(v.type)

Same(a, b, zeroed) == EqualTo(Same, a, b, zeroed)
Typing(v) == TypedHere(Typing, v)
Holds(v) == HeldHere(Holds, v)
Mapped(v) == MapHere(Mapped, v)

InKeyOrder(f) == SetToSortSeq(DOMAIN f, <)

RECURSIVE Nodes(_)
Sum(ns) == FoldLeft(LAMBDA x, y : x + y, 0, ns)
NodesOf(vs) == Sum([i \in DOMAIN vs |-> Nodes(vs[i])])
Weight(t) == IF t \in Rare THEN 2 ELSE 1
Larger(x, y) == IF x > y THEN x ELSE y
Nodes(v) ==
    CASE v.type = "List" -> 1 + Larger(Nodes(v.proto), NodesOf(v.elems))
      [] v.type = "Map" ->
           Weight(v.key) + Larger(Nodes(v.proto), NodesOf([i \in 1..Cardinality(DOMAIN v.entries) |->
                                                v.entries[InKeyOrder(v.entries)[i]]]))
      [] v.type = "Struct" -> 1 + NodesOf(v.members)
      [] v.type = "Variant" -> 1 + Nodes(v.content)
      [] OTHER -> Weight(v.type)
NotTooLarge(vs) == NodesOf(vs) <= MaxNodes

NoMessage == <<[kind |-> "none"]>>

-----------------------------------------------------------------------------
(* Marshalling: the items libdbus is given for a value, none for one that  *)
(* is left out.  The entries of a map with numbers for keys have their key *)
(* appended to the message and not to the entry.                           *)

RECURSIVE Marshal(_)
(* Mutant: an Invalid value is sent as an empty string.                    *)
MarshalPadded(vs) ==
    FlattenSeq([i \in DOMAIN vs |->
      IF vs[i] = Invalid THEN <<[kind |-> "String", atom |-> 0]>> ELSE Marshal(vs[i])])

MarshalAll(vs) == FlattenSeq([i \in DOMAIN vs |-> Marshal(vs[i])])

MarshalList(l) ==
    [kind |-> "array", signature |-> ItemSignature(l), items |-> MarshalAll(l.elems)]

MarshalEntry(m, k) ==
    [kind |-> IF m.key \in {"String", "ObjectPath"} THEN "entry" ELSE "broken",
     key |-> m.key, atom |-> k, items |-> Marshal(m.entries[k])]

MarshalMap(m) ==
    LET ks == InKeyOrder(m.entries)
    IN [kind |-> "array", signature |-> EntrySignature(m),
        items |-> [i \in DOMAIN ks |-> MarshalEntry(m, ks[i])]]

Marshal(v) ==
    CASE v.type = "Invalid" -> <<>>
      [] v.type = "List" -> <<MarshalList(v)>>
      [] v.type = "Map" -> <<MarshalMap(v)>>
      [] v.type = "Variant" ->
           IF v.signature = <<>> \/ v.content = Invalid THEN <<>>
           ELSE <<[kind |-> "variant", signature |-> v.signature,
                   items |-> Marshal(v.content)]>>
      [] v.type = "Struct" ->
           IF v.members = <<>> THEN <<>>
           ELSE <<[kind |-> "struct", items |-> MarshalAll(v.members)]>>
      [] OTHER -> <<[kind |-> v.type, atom |-> v.atom]>>

(* What libdbus checks: a signature is one complete type.                  *)
Malformed == <<"!">>
RECURSIVE AfterType(_), AfterMembers(_)
Closed(s, c) == IF s # <<>> /\ s[1] = c THEN Tail(s) ELSE Malformed
AfterType(s) ==
    IF s = <<>> THEN Malformed
    ELSE CASE s[1] = "a" -> AfterType(Tail(s))
           [] s[1] = "(" -> IF AfterType(Tail(s)) = Malformed THEN Malformed
                            ELSE Closed(AfterMembers(Tail(s)), ")")
           [] s[1] = "{" -> Closed(AfterType(Tail(Tail(s))), "}")
           [] s[1] \in {Letter[t] : t \in DOMAIN Letter} -> Tail(s)
           [] OTHER -> Malformed
AfterMembers(s) ==
    LET r == AfterType(s) IN IF r = Malformed THEN s ELSE AfterMembers(r)

RECURSIVE Written(_)
Written(w) ==
    CASE w.kind = "array" -> <<"a">> \o w.signature
      [] w.kind = "struct" ->
           <<"(">> \o FlattenSeq([i \in DOMAIN w.items |-> Written(w.items[i])]) \o <<")">>
      [] w.kind = "variant" -> <<"v">>
      [] w.kind = "entry" ->
           <<"{">> \o Char(w.key) \o FlattenSeq([i \in DOMAIN w.items |-> Written(w.items[i])])
             \o <<"}">>
      [] OTHER -> Char(w.kind)

(* Every item has the type its container announced.                        *)
RECURSIVE WellFormed(_)
WellFormed(w) ==
    CASE w.kind = "broken" -> FALSE
      [] w.kind \in {"array", "variant"} ->
           /\ AfterType(w.signature) = <<>>
           /\ w.kind = "variant" => Len(w.items) = 1
           /\ \A i \in DOMAIN w.items :
                Written(w.items[i]) = w.signature /\ WellFormed(w.items[i])
      [] w.kind = "struct" ->
           w.items # <<>> /\ \A i \in DOMAIN w.items : WellFormed(w.items[i])
      [] w.kind = "entry" -> Len(w.items) = 1 /\ WellFormed(w.items[1])
      [] OTHER -> TRUE

-----------------------------------------------------------------------------
(* Demarshalling.  The signature of an array is parsed into prototypes for *)
(* the containers in it; parseSignature gives Invalid for a basic type     *)
(* that is not the item of a list or the value of a map, and reads on      *)
(* until the signature ends or a bracket closes.                           *)

SingleType(c) ==
    IF \E t \in DOMAIN Letter : Letter[t] = c
    THEN CHOOSE t \in DOMAIN Letter : Letter[t] = c ELSE "Invalid"

Drop(s, n) == SubSeq(s, n + 1, Len(s))

RECURSIVE Parse(_)

ParseStruct(s) ==
    LET members == Parse(Tail(s))
    IN <<<<FromStruct(members[1])>>, Tail(members[2])>>

ParseEntry(s) ==
    LET key   == SingleType(s[2])
        value == SingleType(s[3])
        held  == Parse(Drop(s, 2))
        found == IF value # "Invalid" THEN MapOfType(key, value)
                 ELSE MapOf(key, held[1][1])
    IN <<IF key \in KeyType THEN <<found>> ELSE <<>>,
         IF value # "Invalid" THEN Drop(s, 4) ELSE Tail(held[2])>>

(* Mutant: a map is taken for the item of a list.                          *)
ParseArrayOfMaps(s) ==
    LET item == SingleType(s[2])
        held == Parse(Tail(s))
    IN IF item # "Invalid" THEN <<<<ListOfType(item)>>, Drop(s, 2)>>
       ELSE <<<<FromList(ListOf(held[1][1]))>>, held[2]>>

ParseArray(s) ==
    LET item == SingleType(s[2])
        held == Parse(Tail(s))
    IN IF item # "Invalid" THEN <<<<ListOfType(item)>>, Drop(s, 2)>>
       ELSE <<<<IF s[2] = "{" THEN held[1][1] ELSE FromList(ListOf(held[1][1]))>>, held[2]>>

Parse(s) ==
    IF s = <<>> \/ s[1] \in {")", "}"} THEN <<<<>>, s>>
    ELSE LET first == CASE s[1] = "(" -> ParseStruct(s)
                        [] s[1] = "{" -> ParseEntry(s)
                        [] s[1] = "a" -> ParseArray(s)
                        [] OTHER -> <<<<Invalid>>, Tail(s)>>
             rest  == Parse(first[2])
         IN <<first[1] \o rest[1], rest[2]>>

RECURSIVE Fetch(_)

FetchList(items, proto) ==
    FromList(FoldLeft(LAMBDA l, w : Put(l, Fetch(w)), ToList(proto), items))

(* The paths of a map are read with toString(), which gives a null string. *)
FetchEntry(m, e) ==
    Insert(m, To(From(e.key, e.atom), m.key), Fetch(e.items[1]))

FetchMap(entries, proto) ==
    IF entries = <<>> THEN proto
    ELSE LET key == IF entries[1].key = "ObjectPath" THEN "String" ELSE entries[1].key
         IN FromMap(FoldLeft(FetchEntry, ToMap(proto, key), entries))

Fetch(w) ==
    CASE w.kind = "array" ->
           LET proto == Parse(Written(w))[1][1]
           IN IF w.signature[1] = "{" THEN FetchMap(w.items, proto)
              ELSE FetchList(w.items, proto)
      [] w.kind = "variant" -> FromVariant(w.signature, Fetch(w.items[1]))
      [] w.kind = "struct" -> FromStruct([i \in DOMAIN w.items |-> Fetch(w.items[i])])
      [] OTHER -> From(w.kind, w.atom)

-----------------------------------------------------------------------------
(* The steps of the programs.                                              *)

Init == ProgramInit /\ wire = NoMessage /\ sent = <<>>

(* toDBusMessage(): listToMessage() of the values.                         *)
Send ==
    /\ wire = NoMessage /\ values # <<>>
    /\ wire' = MarshalAll(values) /\ sent' = values
    /\ values' = <<>>

(* A message that is not well formed ends the connection of its sender.    *)
Refuse ==
    /\ wire # NoMessage /\ \E i \in DOMAIN wire : ~WellFormed(wire[i])
    /\ wire' = NoMessage /\ sent' = <<>>
    /\ UNCHANGED values

(* fromDBusMessage(): messageToList() of the message.                      *)
Receive ==
    /\ wire # NoMessage /\ \A i \in DOMAIN wire : WellFormed(wire[i])
    /\ values' = [i \in DOMAIN wire |-> Fetch(wire[i])]
    /\ wire' = NoMessage /\ sent' = <<>>

Next ==
    \/ wire = NoMessage /\ Program /\ UNCHANGED <<wire, sent>>
    \/ Send \/ Refuse \/ Receive

Spec == Init /\ [][Next]_vars

-----------------------------------------------------------------------------
(* Properties. *)

(* What demarshalling can make of the type of v, a container, from its     *)
(* signature alone: the type, nothing (it holds a basic type beside        *)
(* others), or another type (something stands behind a nested container).  *)
RECURSIVE Restored(_)
Restored(v) ==
    LET item == CASE v.item = "Invalid" -> "other"
                  [] HasContainerItemType(v) -> Restored(v.proto)
                  [] OTHER -> "same"
        swallows(m) == m.type = "Map" \/ (m.type = "List" /\ HasContainerItemType(m))
        read == LET ends == {i \in DOMAIN v.members : swallows(v.members[i])}
                IN {i \in DOMAIN v.members : \A e \in ends : i <= e}
    IN CASE v.type = "List" -> item
         [] v.type = "Map" -> IF item = "same" THEN "same" ELSE "other"
         [] OTHER ->
              LET found == {IF v.members[i].type \in Container
                            THEN Restored(v.members[i]) ELSE "nothing" : i \in read}
              IN IF "nothing" \in found THEN "nothing"
                 ELSE IF found = {"same"} /\ read = DOMAIN v.members THEN "same"
                 ELSE "other"

RestoredItems(c, items) ==
    /\ c.item # "Invalid"
    /\ HasContainerItemType(c) => c.proto # Invalid
    /\ \/ ~HasContainerItemType(c)
       \/ Restored(c.proto) = "same"
       \/ Restored(c.proto) = "nothing" /\ items # {}

(* The values the bindings can carry.                                      *)
RECURSIVE Carried(_)
Carried(v) ==
    CASE v.type = "Invalid" -> FALSE
      [] v.type = "List" -> /\ RestoredItems(v, DOMAIN v.elems)
                            /\ \A i \in DOMAIN v.elems : Carried(v.elems[i])
      [] v.type = "Map" -> /\ v.key = "String" \/ DOMAIN v.entries = {}
                           /\ RestoredItems(v, DOMAIN v.entries)
                           /\ \A k \in DOMAIN v.entries : Carried(v.entries[k])
      [] v.type = "Struct" -> /\ v.members # <<>>
                              /\ \A i \in DOMAIN v.members : Carried(v.members[i])
      [] v.type = "Variant" -> /\ v.signature = BuildSignature(v.content)
                               /\ Carried(v.content)
      [] OTHER -> TRUE

(* A message of values the bindings can carry is well formed, and its      *)
(* receiver reads what its sender put in, types of empty lists included.   *)
ArrivesAsSent ==
    wire # NoMessage /\ (\A i \in DOMAIN sent : Carried(sent[i])) =>
      /\ DOMAIN wire = DOMAIN sent
      /\ \A i \in DOMAIN wire : WellFormed(wire[i]) /\ Held(Fetch(wire[i])) = Held(sent[i])

(* got is what is left of v when parts of it were lost.                    *)
RECURSIVE LeftOf(_, _)
AllLeftOf(gs, vs) ==
    \E f \in [DOMAIN gs -> DOMAIN vs] :
      /\ \A i, j \in DOMAIN gs : i < j => f[i] < f[j]
      /\ \A i \in DOMAIN gs : LeftOf(gs[i], vs[f[i]])
LeftOf(got, v) ==
    \/ got = Invalid
    \/ /\ got.type = v.type
       /\ CASE v.type = "List" -> AllLeftOf(got.elems, v.elems)
            [] v.type = "Struct" -> AllLeftOf(got.members, v.members)
            [] v.type = "Variant" -> /\ got.signature = v.signature
                                     /\ LeftOf(got.content, v.content)
            [] v.type = "Map" ->
                 \A k \in DOMAIN got.entries : \E j \in DOMAIN v.entries :
                   /\ k = j \/ (k = 0 /\ v.key = "ObjectPath")
                   /\ LeftOf(got.entries[k], v.entries[j])
            [] OTHER -> got = v

(* Whatever is sent, a receiver gets nothing that was not sent, nor in     *)
(* another order or place: what cannot be carried is lost, not replaced,   *)
(* but for the keys of a map that are object paths, which come as null.    *)
NothingInvented == [][Receive => AllLeftOf(values', sent)]_vars

=============================================================================
