------------------------------ MODULE NbtTree ------------------------------
(***************************************************************************)
(* The tree of tags: the recursive parser of src/src/nbt/tag.cc and nbt.cc, *)
(* and what a path finds in a tree.                                         *)
(*                                                                          *)
(* The data are the pieces of PullParser: <<"tag", type, name>>,            *)
(* <<"header", type of the elements, length>>, <<"datum">> and <<"end">>.   *)
(* The memory goes on behind them, perhaps with a part of one piece more:   *)
(* some checks of the parser let it read there.  With n pieces a place is   *)
(* 1..n, n + 1 for the first byte behind them, or n + 2 when the iterator   *)
(* has passed the end.  What a parser may give is a set of pairs: what it   *)
(* read, as a sequence, and the place after it.                             *)
(***************************************************************************)
EXTENDS Integers, Sequences, SequencesExt

Null == [type |-> "null"]

Leaf(t, count) == [type |-> t, count |-> count]
ListOf(e, items) == [type |-> "list", elem |-> e, inner |-> items]
CompoundOf(tags) == [type |-> "compound", inner |-> tags]

\* The place after what could not be parsed is 0.
Fails == {<<<<>>, 0>>}
Failed(outcome) == outcome[2] = 0

Past(data) == Len(data) + 2
AtLast(data, p) == p = Len(data) + 1

-----------------------------------------------------------------------------
(* payload_factories *)

\* The checks of TAG_Byte and TAG_Long let them read behind the data.
Scalar(data, t, p) ==
  IF p <= Len(data) THEN {<<<<Leaf(t, 1)>>, p + 1>>}
  ELSE IF AtLast(data, p) /\ t # "string" THEN Fails \cup {<<<<Leaf(t, 1)>>, Past(data)>>}
  ELSE Fails

\* The check of TAG_Int_Array counts from its header: the last element may be
\* behind the data, and a header that ends them is refused.
ArrayOf(data, t, p) ==
  IF p > Len(data) \/ data[p][3] < 0 THEN Fails
  ELSE LET count == data[p][3]
           left == Len(data) - p
       IN IF count <= left
          THEN {<<<<Leaf(t, count)>>, p + 1 + count>>} \cup IF left = 0 THEN Fails ELSE {}
          ELSE IF count = left + 1 THEN Fails \cup {<<<<Leaf(t, count)>>, Past(data)>>}
          ELSE Fails

RECURSIVE Payload(_, _, _), Elements(_, _, _, _), Members(_, _)

\* The elements of a list, one after the other.
Elements(data, e, count, p) ==
  IF count = 0 THEN {<<<<>>, p>>}
  ELSE UNION {IF Failed(first) THEN Fails
              ELSE {IF Failed(rest) THEN rest ELSE <<first[1] \o rest[1], rest[2]>> :
                      rest \in Elements(data, e, count - 1, first[2])} :
                first \in Payload(data, e, p)}

\* A length below zero is a very large one, and the data end first.  Elements of
\* TAG_END need no data: there memory may end first, or one stands for all of them.
Items(data, e, count, p) ==
  IF count >= 0 THEN Elements(data, e, count, p)
  ELSE Fails \cup IF e = "end" THEN {<<<<Leaf("end", 0)>>, p>>} ELSE {}

\* Mutant: the element at 0 is left out.
ListFromOne(data, p) ==
  IF p > Len(data) + 1 THEN Fails
  ELSE IF AtLast(data, p) THEN Fails \cup {<<<<ListOf("end", <<>>)>>, Past(data)>>}
  ELSE LET e == data[p][2]
           count == data[p][3]
       IN IF e = "unknown" THEN Fails
          ELSE {IF Failed(items) THEN items
                ELSE <<<<ListOf(e, SubSeq(items[1], 2, Len(items[1])))>>, items[2]>> :
                  items \in Items(data, e, count, p + 1)}

\* make_tag_list_payload(): its check of the header lets it read a length behind
\* the data.  It refuses the last of the types, TAG_Long_Array.
List(data, p) ==
  IF p > Len(data) + 1 THEN Fails
  ELSE IF AtLast(data, p) THEN Fails \cup {<<<<ListOf("end", <<>>)>>, Past(data)>>}
  ELSE LET e == data[p][2]
           count == data[p][3]
       IN IF e = "unknown" THEN Fails
          ELSE {IF Failed(items) THEN items ELSE <<<<ListOf(e, items[1])>>, items[2]>> :
                  items \in Items(data, e, count, p + 1)}
               \cup IF e = "array" THEN Fails ELSE {}

\* The tags of a compound up to the byte that ends it, which may be behind the data.
Members(data, p) ==
  IF p > Len(data) + 1 THEN Fails
  ELSE IF AtLast(data, p) THEN Fails \cup {<<<<>>, Past(data)>>}
  ELSE IF data[p] = <<"end">> THEN {<<<<>>, p + 1>>}
  ELSE IF data[p][2] = "unknown" THEN Fails
  ELSE UNION {IF Failed(first) THEN Fails
              ELSE {IF Failed(rest) THEN rest
                    ELSE <<<<[name |-> data[p][3], data |-> first[1][1]]>> \o rest[1], rest[2]>> :
                      rest \in Members(data, first[2])} :
                first \in Payload(data, data[p][2], p + 1)}

Payload(data, t, p) ==
  CASE t = "end"                 -> {<<<<Leaf("end", 0)>>, p>>}
    [] t \in {"int", "string"}   -> Scalar(data, t, p)
    [] t = "array"               -> ArrayOf(data, t, p)
    [] t = "list"                -> List(data, p)
    [] t = "compound"            ->
         {IF Failed(tags) THEN tags ELSE <<<<CompoundOf(tags[1])>>, tags[2]>> : tags \in Members(data, p)}

-----------------------------------------------------------------------------
(* nbt::parse_buffer(): the root is a compound, and the iterator has not passed *)
(* the end.                                                                    *)

RootOf(data) ==
  IF data = <<>> \/ data[1][1] # "tag" \/ data[1][2] # "compound" THEN Fails
  ELSE {IF Failed(p) THEN p ELSE <<<<[name |-> data[1][3], data |-> p[1][1]]>>, p[2]>> :
          p \in Payload(data, "compound", 2)}

from_iterator(data) ==
  {IF Failed(p) \/ p[2] = Past(data) THEN Null ELSE p[1][1] : p \in RootOf(data)}

-----------------------------------------------------------------------------
(* repr(): a tree as the lines of XML, each with how far it is indented.       *)

Line(indent, kind, type, name) == [indent |-> indent, kind |-> kind, type |-> type, name |-> name]

RECURSIVE ReprTag(_, _, _), Repr(_, _)

ReprTag(name, payload, indent) ==
  <<Line(indent, "open", payload.type, name)>>
  \o Repr(payload, indent + 1)
  \o <<Line(indent, "close", payload.type, "")>>

ReprElement(payload, indent) ==
  <<Line(indent, "open", "element", "")>>
  \o Repr(payload, indent + 1)
  \o <<Line(indent, "close", "element", "")>>

Repr(payload, indent) ==
  CASE payload.type = "compound" ->
         FlattenSeq([i \in DOMAIN payload.inner |->
                       ReprTag(payload.inner[i].name, payload.inner[i].data, indent)])
    [] payload.type = "list" ->
         <<Line(indent, "payloadtype", payload.elem, "")>>
         \o FlattenSeq([i \in DOMAIN payload.inner |-> ReprElement(payload.inner[i], indent)])
    [] payload.type = "array" -> [i \in 1..payload.count |-> Line(indent, "data", "array", "")]
    [] payload.type \in {"int", "string"} -> <<Line(indent, "data", payload.type, "")>>
    [] payload.type = "end"   -> <<>>

-----------------------------------------------------------------------------
(* Paths.  A path is a sequence of keys <<"key", name>>, indices of arrays     *)
(* <<"array", n>> and indices of lists <<"list", n>>.                          *)

\* Mutant: the last tag of a name.
LastNamed(compound, key) ==
  LET found == {i \in DOMAIN compound.inner : compound.inner[i].name = key}
  IN IF found = {} THEN Null ELSE compound.inner[CHOOSE i \in found : \A k \in found : k <= i].data

\* operator[] of a compound: the first tag of that name.
Named(compound, key) ==
  LET found == {i \in DOMAIN compound.inner : compound.inner[i].name = key}
  IN IF found = {} THEN Null ELSE compound.inner[CHOOSE i \in found : \A k \in found : i <= k].data

QueryArray(path, payload) ==
  IF path[1][1] # "array" \/ path[1][2] >= payload.count THEN Null ELSE Leaf("int", 1)

RECURSIVE QueryList(_, _), QueryPayload(_, _)

\* A list of lists goes on with the path; the element of any other list is the
\* result, whatever is left of the path.
QueryList(path, payload) ==
  IF path = <<>> THEN payload
  ELSE IF path[1][1] # "list" \/ path[1][2] >= Len(payload.inner) THEN Null
  ELSE LET item == payload.inner[path[1][2] + 1]
       IN IF payload.elem = "list" THEN QueryList(Tail(path), item) ELSE item

QueryPayload(path, payload) ==
  IF path = <<>> THEN payload
  ELSE IF path[1][1] = "key"
       THEN IF payload.type # "compound" THEN Null
            ELSE LET inner == Named(payload, path[1][2])
                 IN IF inner = Null THEN Null ELSE QueryPayload(Tail(path), inner)
       ELSE CASE payload.type = "array"           -> QueryArray(path, payload)
              [] payload.type = "list"            -> QueryList(path, payload)
              [] payload.type \notin {"array", "list"} -> Null

\* tag_payload::query<Tp>(): the result has the type, and is not an empty list of
\* TAG_End if those are ignored.
payload_query(payload, path, type, ignore_empty_list) ==
  LET result == QueryPayload(path, payload)
      ignored == /\ ignore_empty_list /\ result.type = "list"
                 /\ result.elem = "end" /\ result.inner = <<>>
  IN IF result.type # type \/ ignored THEN Null ELSE result

\* tag::query<Tp>(): the name of the root comes first.
query(root, path, type, ignore_empty_list) ==
  IF path = <<>> \/ path[1] # <<"key", root.name>> THEN Null
  ELSE payload_query(root.data, Tail(path), type, ignore_empty_list)
=============================================================================
