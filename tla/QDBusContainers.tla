---------------------------- MODULE QDBusContainers ----------------------------
(***************************************************************************)
(* The values of the D-Bus bindings for Qt 3 (dbus-qt3-backport) that a    *)
(* program makes: QDBusData (qdbusdata.cpp), QDBusDataList                 *)
(* (qdbusdatalist.cpp), QDBusDataMap (dbus/qdbusdatamap.h), QDBusVariant   *)
(* and the conversions of qdbusdataconverter.cpp.  A program builds values *)
(* with the constructors and operators of these classes, in any order.     *)
(*                                                                         *)
(* A value is a record with the fields of QDBusData::Private its type      *)
(* uses.  A list or a map also has the type of its items and, when they    *)
(* are containers, the prototype the code compares signatures with.  Atoms *)
(* are numbers: 0 is the null string and the path isValid() refuses.       *)
(*                                                                         *)
(* What is defined by recursion over a value is a parameter here.  This    *)
(* module says what it is at a value, given what it is at the values in    *)
(* it: EqualTo takes operator== of the parts as an argument, HeldHere what *)
(* the parts hold, and so on.  QDBusValues gives each itself.              *)
(***************************************************************************)
EXTENDS Naturals, Sequences

CONSTANTS
    Basic,     \* the basic types the programs use
    Key,       \* the key types of their maps
    Atom,      \* the values of a basic type
    MaxValues, \* bound: the values a program holds at once
    Fits(_),   \* bound: the values are small enough
    BuildSignature(_), \* buildDBusSignature() of a value
    Equal(_, _, _),    \* operator==
    WellTyped(_),      \* its containers hold what they announce
    Held(_),           \* what a value holds
    HasMap(_)          \* there is a map in it

VARIABLE values   \* the QDBusData of the program, the last one made at the end

Letter == [Bool |-> "b", Byte |-> "y", Int16 |-> "n", UInt16 |-> "q",
           Int32 |-> "i", UInt32 |-> "u", Int64 |-> "x", UInt64 |-> "t",
           Double |-> "d", String |-> "s", ObjectPath |-> "o", Variant |-> "v"]

KeyType == DOMAIN Letter \ {"Bool", "Double", "Variant"}
Container == {"List", "Struct", "Map"}

TypesOK == Basic \subseteq DOMAIN Letter \ {"Variant"} /\ Key \subseteq KeyType

-----------------------------------------------------------------------------
(* Values. *)

Invalid == [type |-> "Invalid"]

(* isValid(): only the root may end in a slash, so 0 stands for the paths  *)
(* that are empty, relative or end in one.                                 *)
IsValidPath(a) == a # 0

From(t, a) == IF t = "ObjectPath" /\ ~IsValidPath(a) THEN Invalid
              ELSE [type |-> t, atom |-> a]

To(v, t) == IF v.type = t THEN v.atom ELSE 0

EmptyList == [type |-> "List", item |-> "Invalid", proto |-> Invalid, elems |-> <<>>]
ListOfType(t) == [EmptyList EXCEPT !.item = t]
NoEntries == [k \in {} |-> Invalid]
MapOfType(k, t) ==
    [type |-> "Map", key |-> k, item |-> t, proto |-> Invalid, entries |-> NoEntries]

HasContainerItemType(c) == c.item \in Container

(* A list or map that has no item type takes that of its first item.       *)
Adopt(c, v) ==
    [c EXCEPT !.item = v.type, !.proto = IF v.type \in Container THEN v ELSE Invalid]

ListOf(v) == Adopt(EmptyList, v)
MapOf(k, v) == Adopt(MapOfType(k, "Invalid"), v)

Char(t) == IF t \in DOMAIN Letter THEN <<Letter[t]>> ELSE <<>>

ItemSignature(c) ==
    IF HasContainerItemType(c) THEN BuildSignature(c.proto) ELSE Char(c.item)

Accepts(c, v) ==
    /\ v.type = c.item
    /\ HasContainerItemType(c) => BuildSignature(v) = BuildSignature(c.proto)

(* Mutant: the signatures of containers are not compared.                  *)
PutSameType(l, v) ==
    IF v = Invalid \/ l.item \notin {"Invalid", v.type} THEN l
    ELSE [(IF l.item = "Invalid" THEN Adopt(l, v) ELSE l) EXCEPT !.elems = Append(@, v)]

(* operator<< of a list: an item of another type is dropped.               *)
Put(l, v) ==
    LET typed == IF l.item = "Invalid" THEN Adopt(l, v) ELSE l
    IN IF v = Invalid \/ ~Accepts(typed, v) THEN l
       ELSE [typed EXCEPT !.elems = Append(@, v)]

(* insert() of a map: an item of another type is dropped.                  *)
Insert(m, k, v) ==
    LET typed == IF m.item = "Invalid" THEN Adopt(m, v) ELSE m
    IN IF v = Invalid \/ ~Accepts(typed, v) THEN m
       ELSE [typed EXCEPT !.entries =
               [j \in DOMAIN @ \cup {k} |-> IF j = k THEN v ELSE @[j]]]

Homogeneous(vs) ==
    \A i \in DOMAIN vs : Accepts(Adopt(EmptyList, vs[1]), vs[i])

(* A list or a map made of values that differ in type is empty.            *)
ListFrom(vs) ==
    IF vs = <<>> \/ ~Homogeneous(vs) THEN EmptyList
    ELSE [ListOf(vs[1]) EXCEPT !.elems = vs]
MapFrom(k, vs) ==
    IF vs = <<>> \/ ~Homogeneous(vs) THEN MapOfType(k, "Invalid")
    ELSE [MapOf(k, vs[1]) EXCEPT !.entries = vs]

ListFromAtoms(t, as) ==
    [ListOfType(t) EXCEPT !.elems = [i \in DOMAIN as |-> From(t, as[i])]]
ToAtoms(l, t) ==
    IF l.item # t THEN <<>> ELSE [i \in DOMAIN l.elems |-> To(l.elems[i], t)]

(* The entries are inserted one by one, and insert() drops what is Invalid.  *)
MapFromAtoms(k, t, f) ==
    LET kept == {j \in DOMAIN f : From(t, f[j]) # Invalid}
    IN [MapOfType(k, t) EXCEPT !.entries = [j \in kept |-> From(t, f[j])]]
ToAtomMap(m, t) ==
    IF m.item # t THEN NoEntries ELSE [j \in DOMAIN m.entries |-> To(m.entries[j], t)]

FromList(l) == IF l.item = "Invalid" THEN Invalid ELSE l
ToList(v) == IF v.type = "List" THEN v ELSE EmptyList
FromMap(m) == m
(* The check of toXKeyMap() lets every map pass, and casts it.             *)
ToMap(v, k) == IF v.type = "Map" THEN [v EXCEPT !.key = k] ELSE MapOfType(k, "Invalid")

FromStruct(ms) ==
    IF \E i \in DOMAIN ms : ms[i] = Invalid THEN Invalid
    ELSE [type |-> "Struct", members |-> ms]
ToStruct(v) == IF v.type = "Struct" THEN v.members ELSE <<>>

FromVariant(s, v) == [type |-> "Variant", signature |-> s, content |-> v]

(* QRect, QPoint and QSize are structs of four and two Int32.              *)
ToGeometry(v, n) ==
    LET ms == ToStruct(v)
    IN IF Len(ms) = n /\ \A i \in 1..n : ms[i].type = "Int32"
       THEN [i \in 1..n |-> To(ms[i], "Int32")] ELSE <<>>
FromGeometry(as) == FromStruct([i \in DOMAIN as |-> From("Int32", as[i])])

-----------------------------------------------------------------------------
(* Equality.  Two UInt32 are compared with the eight bytes of the union of *)
(* the second, four of which nobody wrote: zeroed says what they hold.     *)
(* Maps that do not share a Private fall through to false.                 *)

EqualAll(Same(_, _, _), as, bs, zeroed) ==
    DOMAIN as = DOMAIN bs /\ \A i \in DOMAIN as : Same(as[i], bs[i], zeroed)

(* Mutant: the signatures of the containers in two lists are not compared. *)
SameItemType(a, b) == a.item = b.item

SameItems(a, b) ==
    /\ a.item = b.item
    /\ HasContainerItemType(a) => BuildSignature(a.proto) = BuildSignature(b.proto)

EqualLists(Same(_, _, _), a, b, zeroed) ==
    SameItems(a, b) /\ EqualAll(Same, a.elems, b.elems, zeroed)

EqualTo(Same(_, _, _), a, b, zeroed) ==
    /\ a.type = b.type
    /\ CASE a.type = "Invalid" -> TRUE
         [] a.type = "UInt32" -> a.atom = b.atom /\ zeroed
         [] a.type = "List" -> EqualLists(Same, a, b, zeroed)
         [] a.type = "Struct" -> EqualAll(Same, a.members, b.members, zeroed)
         [] a.type = "Variant" -> /\ a.signature = b.signature
                                  /\ Same(a.content, b.content, zeroed)
         [] a.type = "Map" -> FALSE
         [] OTHER -> a.atom = b.atom

-----------------------------------------------------------------------------
(* The steps of a program.                                                 *)

Latest(n) == SubSeq(values, Len(values) - n + 1, Len(values))

(* The last n values are used up and made into others.                     *)
Make(n, made) ==
    LET left == SubSeq(values, 1, Len(values) - n) \o made
    IN /\ n <= Len(values)
       /\ Len(left) <= MaxValues /\ Fits(left)
       /\ values' = left

MakeBasic(t, a) == Make(0, <<From(t, a)>>)
NewList(t) == Make(0, <<FromList(ListOfType(t))>>)
NewMap(k, t) == Make(0, <<FromMap(MapOfType(k, t))>>)

NewListOf == values # <<>> /\ Make(1, <<FromList(ListOf(Latest(1)[1]))>>)
NewMapOf(k) == values # <<>> /\ Make(1, <<FromMap(MapOf(k, Latest(1)[1]))>>)
NewListFrom(n) == n <= Len(values) /\ Make(n, <<FromList(ListFrom(Latest(n)))>>)
NewMapFrom(k, n) == n <= Len(values) /\ Make(n, <<FromMap(MapFrom(k, Latest(n)))>>)

PutLast ==
    /\ Len(values) > 1
    /\ Make(2, <<FromList(Put(ToList(Latest(2)[1]), Latest(2)[2]))>>)
InsertLast(k, a) ==
    /\ Len(values) > 1
    /\ Latest(2)[1].type = "Map" => Latest(2)[1].key = k
    /\ Make(2, <<FromMap(Insert(ToMap(Latest(2)[1], k), a, Latest(2)[2]))>>)

Clear ==
    /\ values # <<>> /\ Latest(1)[1].type \in {"List", "Map"}
    /\ LET c == Latest(1)[1] IN
       Make(1, <<IF c.type = "List" THEN [c EXCEPT !.elems = <<>>]
                 ELSE [c EXCEPT !.entries = NoEntries]>>)

(* The plain list or map of a type, and back.                              *)
Rebuild(t) ==
    /\ values # <<>> /\ Latest(1)[1].type \in {"List", "Map"}
    /\ LET c == Latest(1)[1] IN
       Make(1, <<IF c.type = "List" THEN FromList(ListFromAtoms(t, ToAtoms(c, t)))
                 ELSE FromMap(MapFromAtoms(c.key, t, ToAtomMap(c, t)))>>)

MakeStruct(n) == n <= Len(values) /\ Make(n, <<FromStruct(Latest(n))>>)
OpenStruct == values # <<>> /\ Make(1, ToStruct(Latest(1)[1]))
MakeVariant(signed) ==
    /\ values # <<>>
    /\ LET v == Latest(1)[1] IN
       Make(1, <<FromVariant(IF signed THEN BuildSignature(v) ELSE <<>>, v)>>)
OpenVariant ==
    /\ values # <<>> /\ Latest(1)[1].type = "Variant"
    /\ Make(1, <<Latest(1)[1].content>>)
Convert(n) ==
    /\ values # <<>> /\ ToGeometry(Latest(1)[1], n) # <<>>
    /\ Make(1, <<FromGeometry(ToGeometry(Latest(1)[1], n))>>)

Program ==
    \/ \E t \in Basic, a \in Atom : MakeBasic(t, a)
    \/ \E t \in Basic : NewList(t) \/ Rebuild(t)
    \/ \E k \in Key, t \in Basic : NewMap(k, t)
    \/ NewListOf \/ PutLast \/ Clear
    \/ \E k \in Key : NewMapOf(k) \/ \E a \in Atom : InsertLast(k, a)
    \/ \E n \in 0..MaxValues : \/ NewListFrom(n) \/ MakeStruct(n)
                              \/ \E k \in Key : NewMapFrom(k, n)
    \/ OpenStruct \/ OpenVariant
    \/ \E signed \in BOOLEAN : MakeVariant(signed)
    \/ \E n \in {2, 4} : Convert(n)

ProgramInit == values = <<>>
ProgramSpec == ProgramInit /\ [][Program]_values

-----------------------------------------------------------------------------
(* Properties. *)

TypedHere(Typing(_), v) ==
    LET fits(u) == u = Invalid \/ (Accepts(v, u) /\ Typing(u))
    IN CASE v.type = "List" -> \A i \in DOMAIN v.elems : fits(v.elems[i])
         [] v.type = "Map" -> \A k \in DOMAIN v.entries : fits(v.entries[k])
         [] v.type = "Struct" ->
              \A i \in DOMAIN v.members : v.members[i] # Invalid /\ Typing(v.members[i])
         [] v.type = "Variant" -> Typing(v.content)
         [] OTHER -> TRUE

(* Whatever the order of the calls, received values included, a list or a  *)
(* map holds only items of the type its signature announces (or Invalid,   *)
(* which only the constructors from other lists and maps let in), and a    *)
(* struct only valid members: libdbus aborts the program that appends      *)
(* anything else to a container.                                           *)
Typed == \A i \in DOMAIN values : WellTyped(values[i])

(* What a value holds: prototypes count for their signature only.          *)
HeldHere(Holds(_), v) ==
    CASE v.type = "List" -> [type |-> "List", item |-> v.item, signature |-> ItemSignature(v),
                             elems |-> [i \in DOMAIN v.elems |-> Holds(v.elems[i])]]
      [] v.type = "Map" -> [type |-> "Map", key |-> v.key, item |-> v.item,
                            signature |-> ItemSignature(v),
                            entries |-> [k \in DOMAIN v.entries |-> Holds(v.entries[k])]]
      [] v.type = "Struct" ->
           [type |-> "Struct", members |-> [i \in DOMAIN v.members |-> Holds(v.members[i])]]
      [] v.type = "Variant" -> [type |-> "Variant", signature |-> v.signature,
                                content |-> Holds(v.content)]
      [] OTHER -> v

MapHere(Mapped(_), v) ==
    CASE v.type = "Map" -> TRUE
      [] v.type = "List" -> \E i \in DOMAIN v.elems : Mapped(v.elems[i])
      [] v.type = "Struct" -> \E i \in DOMAIN v.members : Mapped(v.members[i])
      [] v.type = "Variant" -> Mapped(v.content)
      [] OTHER -> FALSE

(* operator== never takes two values that differ for equal, and takes two  *)
(* that hold the same for equal unless they hold a map, or a UInt32 and    *)
(* the bytes beside it are not zero.                                       *)
EqualityIsExact ==
    \A i, j \in DOMAIN values, zeroed \in BOOLEAN :
      /\ Equal(values[i], values[j], zeroed) => Held(values[i]) = Held(values[j])
      /\ zeroed /\ Held(values[i]) = Held(values[j]) /\ ~HasMap(values[i])
           => Equal(values[i], values[j], zeroed)

(* Each parameter is at a value what its definition makes of it at the     *)
(* parts, as the recursive operators of QDBusValues are.                   *)
Recursion ==
    /\ \A v : WellTyped(v) <=> TypedHere(WellTyped, v)
    /\ \A v : Held(v) = HeldHere(Held, v)
    /\ \A v : HasMap(v) <=> MapHere(HasMap, v)
    /\ \A a, b, zeroed : Equal(a, b, zeroed) <=> EqualTo(Equal, a, b, zeroed)

=============================================================================
