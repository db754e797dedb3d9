-------------------------- MODULE PullParserProofs --------------------------
(***************************************************************************)
(* Proofs about PullParser, for every document of any length: that its     *)
(* five stacks and two flags stay together, that through them it gives the *)
(* events that TagStream promises, and that the XML which XmlOutput prints *)
(* of them is whole.                                                       *)
(***************************************************************************)
EXTENDS XmlOutput, SequenceTheorems, FiniteSetTheorems, TLAPS

-----------------------------------------------------------------------------
(* Stacks: what push() and pop() leave, and how many places of one hold a  *)
(* member of a set.                                                        *)

LEMMA Pushed ==
  ASSUME NEW S, NEW s \in Seq(S), NEW x \in S
  PROVE  /\ Append(s, x) \in Seq(S) /\ Len(s) \in Nat
         /\ Len(Append(s, x)) = Len(s) + 1 /\ Append(s, x) # <<>>
         /\ Last(Append(s, x)) = x /\ Append(s, x)[Len(s) + 1] = x
         /\ \A k \in 1..Len(s) : Append(s, x)[k] = s[k]
  BY DEF Last

LEMMA Popped ==
  ASSUME NEW S, NEW s \in Seq(S), s # <<>>
  PROVE  /\ Front(s) \in Seq(S) /\ Len(s) \in Nat \ {0}
         /\ Len(Front(s)) = Len(s) - 1 /\ Last(s) = s[Len(s)] /\ Last(s) \in S
         /\ \A k \in 1..(Len(s) - 1) : Front(s)[k] = s[k]
<1> DEFINE n == Len(s) - 1
<1>1. Len(s) \in Nat \ {0} /\ n \in Nat /\ \A i \in 1..n : s[i] \in S /\ 1 + i - 1 = i
  BY EmptySeq, LenProperties
<1> HIDE DEF n
<1>2. /\ SubSeq(s, 1, n) \in Seq(S)
      /\ Len(SubSeq(s, 1, n)) = IF 1 <= n THEN n - 1 + 1 ELSE 0
      /\ \A i \in 1..(n - 1 + 1) : SubSeq(s, 1, n)[i] = s[1 + i - 1]
  BY <1>1, SubSeqProperties
<1>3. n - 1 + 1 = n  BY <1>1
<1>4. Len(SubSeq(s, 1, n)) = n /\ \A i \in 1..n : SubSeq(s, 1, n)[i] = s[i]
  BY <1>1, <1>2, <1>3
<1> QED  BY <1>1, <1>2, <1>4 DEF Front, Last, n

HowManyOf(s, S, k) == Cardinality({j \in 1..k : s[j] \in S})

LEMMA OneMore ==
  ASSUME NEW s, NEW S, NEW k \in Nat, NEW m, m = k + 1
  PROVE  /\ HowManyOf(s, S, 0) = 0
         /\ HowManyOf(s, S, k) \in Nat
         /\ HowManyOf(s, S, m) = HowManyOf(s, S, k) + IF s[m] \in S THEN 1 ELSE 0
<1> DEFINE Of(i) == {j \in 1..i : s[j] \in S}
<1>1. \A i \in Nat : IsFiniteSet(Of(i)) /\ Cardinality(Of(i)) \in Nat
  <2> TAKE i \in Nat
  <2>1. IsFiniteSet(1..i)  BY FS_Interval
  <2>2. IsFiniteSet(Of(i))  BY <2>1, FS_Subset
  <2> QED  BY <2>2, FS_CardinalityType
<1>2. Of(0) = {}  OBVIOUS
<1>3. Cardinality(Of(k + 1)) = Cardinality(Of(k)) + IF s[k + 1] \in S THEN 1 ELSE 0
  <2>1. CASE s[k + 1] \in S
    <3>1. Of(k + 1) = Of(k) \cup {k + 1} /\ k + 1 \notin Of(k)  BY <2>1
    <3> QED  BY <1>1, <2>1, <3>1, FS_AddElement
  <2>2. CASE s[k + 1] \notin S
    <3>1. Of(k + 1) = Of(k)  BY <2>2
    <3> QED  BY <1>1, <2>2, <3>1
  <2> QED  BY <2>1, <2>2
<1> QED  BY <1>1, <1>2, <1>3, FS_EmptySet DEF HowManyOf

\* The number grows with the height, and at a member.
LEMMA MoreAbove ==
  ASSUME NEW s, NEW S, NEW k \in Nat, NEW m \in Nat, k <= m
  PROVE  /\ HowManyOf(s, S, k) <= HowManyOf(s, S, m)
         /\ k < m /\ s[m] \in S => HowManyOf(s, S, k) < HowManyOf(s, S, m)
<1>1. \A i, j \in Nat : i <= j => HowManyOf(s, S, i) <= HowManyOf(s, S, j)
  <2> SUFFICES ASSUME NEW i \in Nat, NEW j \in Nat, i <= j
               PROVE  HowManyOf(s, S, i) <= HowManyOf(s, S, j)
    OBVIOUS
  <2>1. {h \in 1..i : s[h] \in S} \in SUBSET {h \in 1..j : s[h] \in S}  OBVIOUS
  <2>2. IsFiniteSet(1..j)  BY FS_Interval
  <2>3. IsFiniteSet({h \in 1..j : s[h] \in S})  BY <2>2, FS_Subset
  <2> QED  BY <2>1, <2>3, FS_Subset DEF HowManyOf
<1>2. ASSUME k < m, s[m] \in S
      PROVE  HowManyOf(s, S, k) < HowManyOf(s, S, m)
  <2>1. m - 1 \in Nat /\ k <= m - 1  BY <1>2
  <2>2. HowManyOf(s, S, m) = HowManyOf(s, S, m - 1) + 1 /\ HowManyOf(s, S, m - 1) \in Nat
    <3>1. m - 1 \in Nat /\ m = (m - 1) + 1  BY <2>1
    <3> QED  BY <1>2, <3>1, OneMore
  <2>3. HowManyOf(s, S, k) \in Nat  BY OneMore
  <2> QED  BY <1>1, <2>1, <2>2, <2>3
<1> QED  BY <1>1, <1>2

\* It depends on what is below only.
LEMMA SameBelow ==
  ASSUME NEW s, NEW t, NEW S, NEW k \in Nat, \A j \in 1..k : s[j] = t[j]
  PROVE  HowManyOf(s, S, k) = HowManyOf(t, S, k)
<1>1. {j \in 1..k : s[j] \in S} = {j \in 1..k : t[j] \in S}  OBVIOUS
<1> QED  BY <1>1 DEF HowManyOf

-----------------------------------------------------------------------------
(* The invariant. *)

Parents == {"list", "compound"}

\* What the types of the stacks leave open: all have the heights of their partners, and
\* below the top are tags that hold others.
StackInv ==
  /\ Len(names) = Len(types) /\ Len(indices) = Len(lengths)
  /\ \A k \in 1..(Len(types) - 1) : types[k] \in Parents

\* Which tag is at the top is said by the flags: one whose datum has been read, one that
\* goes on after an inner tag, or one that has just begun.
FlagInv ==
  /\ tag_ended /\ ~end_emitted => types # <<>> /\ Last(types) \in Scalars
  /\ tag_ended /\ end_emitted /\ types # <<>> => Last(types) \in Parents
  /\ ~AtEnd /\ end_emitted => tag_ended

\* Each list has its type of elements, each array and list its index and length, until
\* the data end; and in a document that is not corrupt, none has more, and a list of
\* TAG_END has no elements.
CountInv ==
  ~AtEnd =>
    /\ Len(payload_types) = HowMany({"list"}, Len(types))
    /\ Len(indices) >= HowMany(Counted, Len(types))
    /\ ~corrupt =>
         /\ Len(indices) = HowMany(Counted, Len(types))
         /\ \A k \in 1..Len(types) :
              /\ types[k] # "unknown"
              /\ types[k] = "list" /\ payload_types[HowMany({"list"}, k)] = "end"
                   => lengths[HowMany(Counted, k)] <= 0

UnionInv ==
  /\ tag_data = "string" => In("string") /\ tag_ended
  /\ In("string") /\ ~thrown /\ (AtEnd \/ tag_ended) => tag_data = "string"

ParserInv == TypeOK /\ StackInv /\ FlagInv /\ CountInv /\ UnionInv

-----------------------------------------------------------------------------
(* What a tag that starts or ends does to the stacks. *)

StackTypes ==
  /\ types \in Seq(Types) /\ names \in Seq(Names \cup {Unnamed})
  /\ indices \in Seq(Nat) /\ lengths \in Seq(Lengths)
  /\ \A i \in 1..Len(indices) : indices[i] = 0 \/ indices[i] <= lengths[i]
  /\ payload_types \in Seq(Types \cup {"end"}) /\ corrupt \in BOOLEAN

\* The places of the stacks, of a tag and of what is below it.
LEMMA Places ==
  ASSUME TypeOK, NEW k \in 1..Len(types), NEW S
  PROVE  /\ HowMany(S, k) \in Nat /\ HowMany(S, Len(types)) \in Nat /\ Len(types) \in Nat
         /\ HowMany(S, k) <= HowMany(S, Len(types))
         /\ types[k] \in S => 1 <= HowMany(S, k)
<1>1. \A m : HowMany(S, m) = HowManyOf(types, S, m)  BY DEF HowMany, HowManyOf
<1>2. Len(types) \in Nat  BY LenProperties DEF TypeOK
<1>3. HowManyOf(types, S, k) \in Nat /\ HowManyOf(types, S, Len(types)) \in Nat
  BY <1>2, OneMore
<1>4. HowManyOf(types, S, k) <= HowManyOf(types, S, Len(types))  BY <1>2, MoreAbove
<1>5. types[k] \in S => 1 <= HowManyOf(types, S, k)
  <2>1. 0 \in Nat /\ 0 <= k /\ 0 < k /\ k \in Nat  OBVIOUS
  <2>2. types[k] \in S => HowManyOf(types, S, 0) < HowManyOf(types, S, k)  BY <2>1, MoreAbove
  <2>3. HowManyOf(types, S, 0) = 0  BY <1>2, OneMore
  <2> QED  BY <1>3, <2>2, <2>3
<1> QED  BY <1>1, <1>2, <1>3, <1>4, <1>5

\* A tag starts at the top, and its header with it; base is what the indices of the other
\* tags are then.
Pushes(t, h, name, base) ==
  /\ types = <<>> \/ Last(types) \in Parents
  /\ h \in Headers(t) /\ base \in Seq(Nat) /\ Len(base) = Len(indices)
  /\ \A i \in 1..Len(base) : base[i] = 0 \/ base[i] <= lengths[i]
  /\ types' = Append(types, t) /\ names' = Append(names, name)
  /\ lengths' = IF t \in Counted THEN Append(lengths, h[2]) ELSE lengths
  /\ indices' = IF t \in Counted THEN Append(base, 0) ELSE base
  /\ PushPayload(t, h)

\* What a step at the top or above it leaves of the stacks of the tags; base is what the
\* indices are then.
Keeps(n, base) ==
  /\ \A k \in 1..n : types'[k] = types[k] /\ names'[k] = names[k]
  /\ \A i \in 1..Len(payload_types) : payload_types'[i] = payload_types[i]
  /\ \A i \in 1..Len(lengths) : lengths'[i] = lengths[i]
  /\ \A i \in 1..Len(indices) : indices'[i] = base[i]

\* What there is above n places, when a tag with a header has started there.
Above(t, h, name, n) ==
  /\ Len(types') = n + 1 /\ types'[n + 1] = t /\ names'[n + 1] = name
  /\ t = "list" => payload_types'[HowManyOf(types', {"list"}, n + 1)] = h[1]
  /\ ~corrupt' /\ t \in Counted => /\ lengths'[HowManyOf(types', Counted, n + 1)] = h[2]
                                   /\ h[2] \in Lengths
                                   /\ indices'[HowManyOf(types', Counted, n + 1)] = 0

LEMMA TagPushed ==
  ASSUME ParserInv, ~AtEnd, NEW t \in Types, NEW h, NEW name \in Names \cup {Unnamed}, NEW base,
         Pushes(t, h, name, base), NEW n, n = Len(types)
  PROVE  /\ StackTypes' /\ StackInv' /\ CountInv'
         /\ Keeps(n, base) /\ Above(t, h, name, n)
<1>1. /\ types \in Seq(Types) /\ names \in Seq(Names \cup {Unnamed}) /\ n \in Nat
      /\ lengths \in Seq(Lengths) /\ payload_types \in Seq(Types \cup {"end"})
      /\ corrupt \in BOOLEAN /\ Lengths \subseteq Int
  BY LenProperties, ConstantsAssumption DEF ParserInv, TypeOK
<1>2. /\ h[1] \in Types \cup {"end"}
      /\ t \in Counted => h[2] \in Lengths
  <2>1. h \in Headers(t)  BY DEF Pushes
  <2>2. CASE t = "list"  BY <2>1, <2>2 DEF Headers
  <2>3. CASE t # "list"  BY <2>1, <2>3 DEF Headers, Counted, Arrays
  <2> QED  BY <2>2, <2>3
<1>3. /\ types' \in Seq(Types) /\ Len(types') = n + 1 /\ types'[n + 1] = t
      /\ \A k \in 1..n : types'[k] = types[k]
      /\ names' \in Seq(Names \cup {Unnamed}) /\ Len(names') = Len(names) + 1
      /\ names'[Len(names) + 1] = name /\ \A k \in 1..Len(names) : names'[k] = names[k]
  <2>1. types' = Append(types, t) /\ names' = Append(names, name)  BY DEF Pushes
  <2>2. /\ Append(types, t) \in Seq(Types) /\ Len(Append(types, t)) = n + 1
        /\ Append(types, t)[n + 1] = t /\ \A k \in 1..n : Append(types, t)[k] = types[k]
    BY <1>1, Pushed
  <2>3. /\ Append(names, name) \in Seq(Names \cup {Unnamed})
        /\ Len(Append(names, name)) = Len(names) + 1 /\ Append(names, name)[Len(names) + 1] = name
        /\ \A k \in 1..Len(names) : Append(names, name)[k] = names[k]
    BY <1>1, Pushed
  <2> QED  BY <2>1, <2>2, <2>3
<1>4. /\ lengths' \in Seq(Lengths) /\ indices' \in Seq(Nat) /\ Len(lengths) \in Nat
      /\ base \in Seq(Nat) /\ Len(base) = Len(indices)
      /\ \A i \in 1..Len(base) : base[i] = 0 \/ base[i] <= lengths[i]
      /\ Len(lengths') = Len(lengths) + (IF t \in Counted THEN 1 ELSE 0)
      /\ Len(indices') = Len(indices) + (IF t \in Counted THEN 1 ELSE 0)
      /\ \A i \in 1..Len(lengths) : lengths'[i] = lengths[i]
      /\ \A i \in 1..Len(indices) : indices'[i] = base[i]
      /\ t \in Counted => lengths'[Len(lengths) + 1] = h[2] /\ indices'[Len(indices) + 1] = 0
  <2>1. Len(lengths) \in Nat /\ Len(base) \in Nat  BY <1>1, LenProperties DEF Pushes
  <2>2. CASE t \in Counted
    <3>1. h[2] \in Lengths /\ 0 \in Nat  BY <1>2, <2>2
    <3>2. /\ Append(lengths, h[2]) \in Seq(Lengths)
          /\ Len(Append(lengths, h[2])) = Len(lengths) + 1
          /\ Append(lengths, h[2])[Len(lengths) + 1] = h[2]
          /\ \A i \in 1..Len(lengths) : Append(lengths, h[2])[i] = lengths[i]
      BY <1>1, <3>1, Pushed
    <3>3. /\ Append(base, 0) \in Seq(Nat) /\ Len(Append(base, 0)) = Len(base) + 1
          /\ Append(base, 0)[Len(base) + 1] = 0
          /\ \A i \in 1..Len(base) : Append(base, 0)[i] = base[i]
      BY <3>1, Pushed DEF Pushes
    <3> QED  BY <2>1, <2>2, <3>2, <3>3 DEF Pushes
  <2>3. CASE t \notin Counted  BY <1>1, <2>1, <2>3 DEF Pushes
  <2> QED  BY <2>2, <2>3
<1>5. /\ payload_types' \in Seq(Types \cup {"end"}) /\ Len(payload_types) \in Nat
      /\ Len(payload_types') = Len(payload_types) + (IF t = "list" THEN 1 ELSE 0)
      /\ \A i \in 1..Len(payload_types) : payload_types'[i] = payload_types[i]
      /\ t = "list" => payload_types'[Len(payload_types) + 1] = h[1]
  <2>1. payload_types' = IF t = "list" THEN Append(payload_types, h[1]) ELSE payload_types
    BY DEF Pushes, PushPayload
  <2>2. /\ Append(payload_types, h[1]) \in Seq(Types \cup {"end"}) /\ Len(payload_types) \in Nat
        /\ Len(Append(payload_types, h[1])) = Len(payload_types) + 1
        /\ Append(payload_types, h[1])[Len(payload_types) + 1] = h[1]
        /\ \A i \in 1..Len(payload_types) : Append(payload_types, h[1])[i] = payload_types[i]
    BY <1>1, <1>2, Pushed
  <2> QED  BY <1>1, <2>1, <2>2
<1>6. /\ corrupt' \in BOOLEAN
      /\ ~corrupt' => /\ ~corrupt /\ t # "unknown"
                      /\ t = "list" /\ h[1] = "end" => ~(h[2] > 0)
  BY <1>1 DEF Pushes, PushPayload
<1>7. StackTypes'
  <2>1. \A i \in 1..Len(indices') : indices'[i] = 0 \/ indices'[i] <= lengths'[i]
    <3>1. Len(indices) = Len(lengths) /\ Len(indices) \in Nat
      BY <1>4 DEF ParserInv, StackInv
    <3> QED  BY <1>4, <3>1
  <2> QED  BY <1>3, <1>4, <1>5, <1>6, <2>1 DEF StackTypes
<1>8. StackInv'
  <2>1. /\ Len(names) = n /\ Len(indices) = Len(lengths) /\ \A k \in 1..(n - 1) : types[k] \in Parents
    BY DEF ParserInv, StackInv
  <2>2. \A k \in 1..n : types[k] \in Parents
    <3>1. types = <<>> => n = 0  OBVIOUS
    <3>2. n = 0 \/ types[n] \in Parents  BY <3>1 DEF Pushes, Last
    <3> QED  BY <1>1, <2>1, <3>2
  <2>3. Len(names') = n + 1 /\ Len(indices') = Len(lengths')  BY <1>3, <1>4, <2>1
  <2>4. \A k \in 1..(Len(types') - 1) : types'[k] \in Parents
    <3>1. n \in Nat /\ Len(types') = n + 1 /\ \A k \in 1..n : types'[k] = types[k]
      BY <1>1, <1>3
    <3> QED  BY <2>2, <3>1
  <2> QED  BY <1>3, <2>3, <2>4 DEF StackInv, Parents
<1>9. ASSUME NEW S
      PROVE  /\ \A k \in 1..n : HowManyOf(types', S, k) = HowMany(S, k)
             /\ HowManyOf(types', S, n + 1) = HowMany(S, n) + (IF t \in S THEN 1 ELSE 0)
             /\ HowMany(S, n) \in Nat
  <2>1. \A k \in 0..n : HowManyOf(types', S, k) = HowManyOf(types, S, k)
    <3>1. n \in Nat /\ \A k \in 1..n : types'[k] = types[k]  BY <1>1, <1>3
    <3> QED  BY <3>1, SameBelow
  <2>2. HowManyOf(types', S, n + 1) = HowManyOf(types', S, n) + (IF t \in S THEN 1 ELSE 0)
    <3>1. n \in Nat /\ types'[n + 1] = t  BY <1>1, <1>3
    <3> QED  BY <3>1, OneMore
  <2>3. HowManyOf(types, S, n) \in Nat  BY <1>1, OneMore
  <2>4. \A k : HowMany(S, k) = HowManyOf(types, S, k)  BY DEF HowMany, HowManyOf
  <2>5. n \in 0..n /\ \A k \in 1..n : k \in 0..n  BY <1>1
  <2> QED  BY <2>1, <2>2, <2>3, <2>4, <2>5
<1>10. /\ Len(payload_types) = HowMany({"list"}, n) /\ Len(indices) >= HowMany(Counted, n)
       /\ Len(indices) = Len(lengths)
       /\ ~corrupt => /\ Len(indices) = HowMany(Counted, n)
                      /\ \A k \in 1..n :
                           /\ types[k] # "unknown"
                           /\ types[k] = "list" /\ payload_types[HowMany({"list"}, k)] = "end"
                                => lengths[HowMany(Counted, k)] <= 0
  BY DEF ParserInv, CountInv, StackInv
<1>11. /\ Len(payload_types') = HowManyOf(types', {"list"}, n + 1)
       /\ Len(indices') >= HowManyOf(types', Counted, n + 1)
       /\ ~corrupt' => Len(indices') = HowManyOf(types', Counted, n + 1)
  <2>1. HowManyOf(types', {"list"}, n + 1) = HowMany({"list"}, n) + (IF t = "list" THEN 1 ELSE 0)
    <3>1. HowManyOf(types', {"list"}, n + 1)
            = HowMany({"list"}, n) + (IF t \in {"list"} THEN 1 ELSE 0)
      BY <1>9
    <3> QED  BY <3>1
  <2>2. /\ HowManyOf(types', Counted, n + 1) = HowMany(Counted, n) + (IF t \in Counted THEN 1 ELSE 0)
        /\ HowMany(Counted, n) \in Nat
    BY <1>9
  <2>3. Len(payload_types') = Len(payload_types) + (IF t = "list" THEN 1 ELSE 0)  BY <1>5
  <2>4. Len(indices') = Len(indices) + (IF t \in Counted THEN 1 ELSE 0)  BY <1>4
  <2>5. ~corrupt' => ~corrupt  BY <1>6
  <2>6. Len(indices) \in Nat  BY <1>10, <2>2
  <2> QED  BY <1>10, <2>1, <2>2, <2>3, <2>4, <2>5, <2>6
<1>12. ASSUME ~corrupt', NEW k \in 1..(n + 1)
       PROVE  /\ types'[k] # "unknown"
              /\ types'[k] = "list" /\ payload_types'[HowManyOf(types', {"list"}, k)] = "end"
                   => lengths'[HowManyOf(types', Counted, k)] <= 0
  <2>0. /\ ~corrupt /\ t # "unknown"
        /\ t = "list" /\ h[1] = "end" => ~(h[2] > 0)
        /\ Len(indices) = HowMany(Counted, n)
    BY <1>6, <1>10, <1>12
  <2>1. CASE k = n + 1
    <3>1. t = "list" => t \in Counted /\ h[2] \in Int  BY <1>1, <1>2 DEF Counted
    <3>2. CASE t = "list"
      <4>1. HowManyOf(types', {"list"}, k) = Len(payload_types) + 1
        BY <1>5, <1>11, <2>1, <3>2
      <4>2. HowManyOf(types', Counted, k) = Len(lengths) + 1
        BY <1>4, <1>10, <1>11, <1>12, <2>1, <3>1, <3>2
      <4>3. /\ payload_types'[Len(payload_types) + 1] = h[1]
            /\ lengths'[Len(lengths) + 1] = h[2]
        BY <1>4, <1>5, <3>1, <3>2
      <4>4. h[1] = "end" => h[2] <= 0  BY <2>0, <3>1, <3>2
      <4> QED  BY <1>3, <2>0, <2>1, <4>1, <4>2, <4>3, <4>4
    <3>3. types'[k] = t  BY <1>3, <2>1
    <3> QED  BY <2>0, <3>2, <3>3
  <2>2. CASE k \in 1..n
    <3>1. types[k] = "list" => /\ HowMany({"list"}, k) \in 1..Len(payload_types)
                               /\ HowMany(Counted, k) \in 1..Len(lengths)
      <4>1. TypeOK /\ "list" \in Counted  BY DEF ParserInv, Counted
      <4>2. /\ HowMany({"list"}, k) \in Nat /\ HowMany({"list"}, k) <= HowMany({"list"}, n)
            /\ types[k] \in {"list"} => 1 <= HowMany({"list"}, k)
        BY <2>2, <4>1, Places
      <4>3. /\ HowMany(Counted, k) \in Nat /\ HowMany(Counted, k) <= HowMany(Counted, n)
            /\ types[k] \in Counted => 1 <= HowMany(Counted, k)
        BY <2>2, <4>1, Places
      <4> QED  BY <1>4, <1>5, <1>10, <2>0, <4>1, <4>2, <4>3
    <3>2. /\ HowManyOf(types', {"list"}, k) = HowMany({"list"}, k)
          /\ HowManyOf(types', Counted, k) = HowMany(Counted, k)
      BY <1>9, <2>2
    <3>3. types'[k] = types[k] /\ types[k] # "unknown"  BY <1>3, <1>10, <2>0, <2>2
    <3>4. CASE types[k] = "list"
      <4>1. /\ payload_types'[HowMany({"list"}, k)] = payload_types[HowMany({"list"}, k)]
            /\ lengths'[HowMany(Counted, k)] = lengths[HowMany(Counted, k)]
        BY <1>4, <1>5, <3>1, <3>4
      <4> QED  BY <1>10, <2>0, <2>2, <3>2, <3>3, <3>4, <4>1
    <3> QED  BY <3>3, <3>4
  <2> QED  BY <1>1, <2>1, <2>2
<1>13. CountInv'
  <2>1. \A S, k : HowMany(S, k)' = HowManyOf(types', S, k)  BY DEF HowMany, HowManyOf
  <2>2. Len(types') = n + 1  BY <1>3
  <2> QED  BY <1>11, <1>12, <2>1, <2>2 DEF CountInv, Counted, Arrays
<1>14. Len(names) = n  BY DEF ParserInv, StackInv
<1>15. t = "list" => payload_types'[HowManyOf(types', {"list"}, n + 1)] = h[1]
  BY <1>5, <1>11
<1>16. ~corrupt' /\ t \in Counted => /\ lengths'[HowManyOf(types', Counted, n + 1)] = h[2]
                                     /\ indices'[HowManyOf(types', Counted, n + 1)] = 0
  BY <1>4, <1>10, <1>11
<1>17. /\ Len(types') = n + 1 /\ types'[n + 1] = t /\ names'[n + 1] = name
       /\ \A k \in 1..n : types'[k] = types[k] /\ names'[k] = names[k]
  BY <1>3, <1>14
<1>18. /\ \A i \in 1..Len(payload_types) : payload_types'[i] = payload_types[i]
       /\ \A i \in 1..Len(lengths) : lengths'[i] = lengths[i]
       /\ \A i \in 1..Len(indices) : indices'[i] = base[i]
  BY <1>4, <1>5
<1>19. Keeps(n, base)  BY <1>17, <1>18 DEF Keeps
<1>20. Above(t, h, name, n)  BY <1>2, <1>15, <1>16, <1>17 DEF Above
<1> QED  BY <1>7, <1>8, <1>13, <1>19, <1>20

\* The tag at the top ends: what is below it stays.
LEMMA TagPopped ==
  ASSUME ParserInv, types # <<>>, types' = Front(types), names' = Front(names),
         NEW n, n = Len(types)
  PROVE  /\ types' \in Seq(Types) /\ names' \in Seq(Names \cup {Unnamed})
         /\ n \in Nat \ {0} /\ Len(types') = n - 1 /\ Len(names') = n - 1
         /\ Last(types) = types[n] /\ types[n] \in Types
         /\ \A k \in 1..(n - 1) : types'[k] = types[k] /\ types'[k] \in Parents
         /\ \A S : /\ \A k \in 0..(n - 1) : HowManyOf(types', S, k) = HowMany(S, k)
                   /\ HowMany(S, n) = HowMany(S, n - 1) + IF types[n] \in S THEN 1 ELSE 0
                   /\ HowMany(S, n - 1) \in Nat
<1>1. types \in Seq(Types) /\ names \in Seq(Names \cup {Unnamed})  BY DEF ParserInv, TypeOK
<1>2. Len(names) = n /\ \A k \in 1..(n - 1) : types[k] \in Parents  BY DEF ParserInv, StackInv
<1>3. /\ types' \in Seq(Types) /\ n \in Nat \ {0} /\ Len(types') = n - 1
      /\ Last(types) = types[n] /\ types[n] \in Types
      /\ \A k \in 1..(n - 1) : types'[k] = types[k]
  BY <1>1, Popped
<1>4. names' \in Seq(Names \cup {Unnamed}) /\ Len(names') = n - 1
  <2>1. names # <<>>  BY <1>2, <1>3
  <2>2. Front(names) \in Seq(Names \cup {Unnamed}) /\ Len(Front(names)) = Len(names) - 1
    BY <1>1, <2>1, Popped
  <2> QED  BY <1>2, <2>2
<1>5. ASSUME NEW S
      PROVE  /\ \A k \in 0..(n - 1) : HowManyOf(types', S, k) = HowMany(S, k)
             /\ HowMany(S, n) = HowMany(S, n - 1) + IF types[n] \in S THEN 1 ELSE 0
             /\ HowMany(S, n - 1) \in Nat
  <2>1. \A k : HowMany(S, k) = HowManyOf(types, S, k)  BY DEF HowMany, HowManyOf
  <2>2. \A k \in 0..(n - 1) : HowManyOf(types', S, k) = HowManyOf(types, S, k)
    BY <1>3, SameBelow
  <2>3. /\ HowManyOf(types, S, n) = HowManyOf(types, S, n - 1) + IF types[n] \in S THEN 1 ELSE 0
        /\ HowManyOf(types, S, n - 1) \in Nat
    <3>1. n - 1 \in Nat /\ n = (n - 1) + 1  BY <1>3
    <3> QED  BY <3>1, OneMore
  <2>4. n - 1 \in 0..(n - 1)  BY <1>3
  <2> QED  BY <2>1, <2>2, <2>3, <2>4
<1> QED  BY <1>2, <1>3, <1>4, <1>5

\* What handle_tag_end() leaves in the flags and in the union.
LEMMA TagEnded ==
  ASSUME ParserInv, types # <<>>, HandleTagEnd, ~AtEnd' => tag_ended'
  PROVE  FlagInv' /\ UnionInv' /\ tag_data' \in {"nothing", "value", "string", "deleted"}
<1>1. PICK n : n = Len(types)  OBVIOUS
<1>2. types' = Front(types) /\ names' = Front(names) /\ end_emitted' = TRUE
  BY DEF HandleTagEnd
<1>3. /\ types' \in Seq(Types) /\ n \in Nat \ {0} /\ Len(types') = n - 1
      /\ \A k \in 1..(n - 1) : types'[k] \in Parents
  BY <1>1, <1>2, TagPopped
<1>4. types' # <<>> => Last(types') \in Parents
  <2>1. types' # <<>> => n - 1 \in 1..(n - 1)  BY <1>3
  <2>2. Last(types') = types'[n - 1]  BY <1>3 DEF Last
  <2> QED  BY <1>3, <2>1, <2>2
<1>5. FlagInv'  BY <1>2, <1>4 DEF FlagInv, AtEnd, Parents, Scalars
<1>6. tag_data' # "string" /\ tag_data' \in {"nothing", "value", "string", "deleted"}
  BY DEF HandleTagEnd, ParserInv, UnionInv, In, TypeOK
<1>7. ~In("string")'  BY <1>4 DEF In, Parents
<1> QED  BY <1>5, <1>6, <1>7 DEF UnionInv

\* A tag that ends when nothing is left of it takes its counts, and a list its type of
\* elements, from the other stacks.
Pops ==
  /\ types # <<>> /\ types' = Front(types) /\ names' = Front(names)
  /\ Last(types) \in Counted => indices # <<>>
  /\ indices' = IF Last(types) \in Counted THEN Front(indices) ELSE indices
  /\ lengths' = IF Last(types) \in Counted THEN Front(lengths) ELSE lengths
  /\ payload_types' = IF Last(types) = "list" THEN Front(payload_types) ELSE payload_types
  /\ UNCHANGED corrupt

\* A stack of counts, with its top taken away or not.
LEMMA FrontIf ==
  ASSUME NEW S, NEW s \in Seq(S), NEW f, NEW d,
         \/ f = Front(s) /\ s # <<>> /\ d = 1
         \/ f = s /\ d = 0
  PROVE  /\ f \in Seq(S) /\ Len(s) \in Nat /\ Len(f) = Len(s) - d
         /\ \A k \in 1..Len(f) : f[k] = s[k] /\ k \in 1..Len(s)
<1>1. CASE f = Front(s) /\ s # <<>> /\ d = 1
  <2>1. /\ Front(s) \in Seq(S) /\ Len(s) \in Nat \ {0} /\ Len(Front(s)) = Len(s) - 1
        /\ \A k \in 1..(Len(s) - 1) : Front(s)[k] = s[k]
    BY <1>1, Popped
  <2> QED  BY <1>1, <2>1
<1>2. CASE f = s /\ d = 0
  BY <1>2
<1> QED  BY <1>1, <1>2

LEMMA CountsPopped ==
  ASSUME ParserInv, ~AtEnd, Pops
  PROVE  StackTypes' /\ StackInv' /\ CountInv'
<1>1. PICK n : n = Len(types)  OBVIOUS
<1>2. types # <<>> /\ types' = Front(types) /\ names' = Front(names)  BY DEF Pops
<1>3. /\ types' \in Seq(Types) /\ names' \in Seq(Names \cup {Unnamed})
      /\ n \in Nat \ {0} /\ Len(types') = n - 1 /\ Len(names') = n - 1
      /\ Last(types) = types[n]
      /\ \A k \in 1..(n - 1) : types'[k] = types[k] /\ types'[k] \in Parents
  BY <1>1, <1>2, TagPopped
<1>4. ASSUME NEW S
      PROVE  /\ \A k \in 0..(n - 1) : HowManyOf(types', S, k) = HowMany(S, k)
             /\ HowMany(S, n) = HowMany(S, n - 1) + IF types[n] \in S THEN 1 ELSE 0
             /\ HowMany(S, n - 1) \in Nat
  BY <1>1, <1>2, TagPopped
<1>5. /\ Len(payload_types) = HowMany({"list"}, n) /\ Len(indices) >= HowMany(Counted, n)
      /\ Len(indices) = Len(lengths)
      /\ ~corrupt => /\ Len(indices) = HowMany(Counted, n)
                     /\ \A k \in 1..n :
                          /\ types[k] # "unknown"
                          /\ types[k] = "list" /\ payload_types[HowMany({"list"}, k)] = "end"
                               => lengths[HowMany(Counted, k)] <= 0
  BY <1>1 DEF ParserInv, CountInv, StackInv
<1>6. /\ indices \in Seq(Nat) /\ lengths \in Seq(Lengths)
      /\ \A i \in 1..Len(indices) : indices[i] = 0 \/ indices[i] <= lengths[i]
      /\ payload_types \in Seq(Types \cup {"end"}) /\ corrupt' = corrupt /\ corrupt \in BOOLEAN
  BY DEF ParserInv, TypeOK, Pops
<1>7. PICK c : c = IF types[n] \in Counted THEN 1 ELSE 0  OBVIOUS
<1>8. PICK l : l = IF types[n] = "list" THEN 1 ELSE 0  OBVIOUS
<1>9. /\ indices' \in Seq(Nat) /\ Len(indices) \in Nat /\ Len(indices') = Len(indices) - c
      /\ \A i \in 1..Len(indices') : indices'[i] = indices[i] /\ i \in 1..Len(indices)
  <2>1. \/ indices' = Front(indices) /\ indices # <<>> /\ c = 1
        \/ indices' = indices /\ c = 0
    BY <1>3, <1>7 DEF Pops
  <2>2. indices \in Seq(Nat)  BY <1>6
  <2> QED  BY <2>1, <2>2, FrontIf
<1>10. /\ lengths' \in Seq(Lengths) /\ Len(lengths) \in Nat /\ Len(lengths') = Len(lengths) - c
       /\ \A i \in 1..Len(lengths') : lengths'[i] = lengths[i] /\ i \in 1..Len(lengths)
  <2>1. indices # <<>> => lengths # <<>>  BY <1>5, <1>6
  <2>2. \/ lengths' = Front(lengths) /\ lengths # <<>> /\ c = 1
        \/ lengths' = lengths /\ c = 0
    BY <1>3, <1>7, <2>1 DEF Pops
  <2>3. lengths \in Seq(Lengths)  BY <1>6
  <2> QED  BY <2>2, <2>3, FrontIf
<1>11. /\ HowMany({"list"}, n) = HowMany({"list"}, n - 1) + l /\ HowMany({"list"}, n - 1) \in Nat
       /\ HowMany(Counted, n) = HowMany(Counted, n - 1) + c /\ HowMany(Counted, n - 1) \in Nat
  BY <1>4, <1>7, <1>8
<1>12. /\ payload_types' \in Seq(Types \cup {"end"}) /\ Len(payload_types) \in Nat
       /\ Len(payload_types') = Len(payload_types) - l
       /\ \A k \in 1..Len(payload_types') :
            payload_types'[k] = payload_types[k] /\ k \in 1..Len(payload_types)
  <2>1. types[n] = "list" => payload_types # <<>>  BY <1>5, <1>6, <1>8, <1>11
  <2>2. \/ payload_types' = Front(payload_types) /\ payload_types # <<>> /\ l = 1
        \/ payload_types' = payload_types /\ l = 0
    BY <1>3, <1>8, <2>1 DEF Pops
  <2>3. PICK E : E = Types \cup {"end"}  OBVIOUS
  <2>4. payload_types \in Seq(E)  BY <1>6, <2>3
  <2>5. /\ payload_types' \in Seq(E) /\ Len(payload_types) \in Nat
        /\ Len(payload_types') = Len(payload_types) - l
        /\ \A k \in 1..Len(payload_types') :
             payload_types'[k] = payload_types[k] /\ k \in 1..Len(payload_types)
    BY <2>2, <2>4, FrontIf
  <2> QED  BY <2>3, <2>5
<1>13. StackTypes'
  <2>1. \A i \in 1..Len(indices') : indices'[i] = 0 \/ indices'[i] <= lengths'[i]
    BY <1>5, <1>6, <1>9, <1>10
  <2> QED  BY <1>3, <1>6, <1>9, <1>10, <1>12, <2>1 DEF StackTypes
<1>14. StackInv'
  <2>1. Len(names') = Len(types') /\ Len(indices') = Len(lengths')
    BY <1>3, <1>5, <1>9, <1>10
  <2>2. \A k \in 1..(Len(types') - 1) : types'[k] \in Parents  BY <1>3
  <2> QED  BY <2>1, <2>2 DEF StackInv, Parents
<1>15. /\ Len(payload_types') = HowManyOf(types', {"list"}, n - 1)
       /\ Len(indices') >= HowManyOf(types', Counted, n - 1)
       /\ ~corrupt' => Len(indices') = HowManyOf(types', Counted, n - 1)
  <2>1. /\ HowManyOf(types', {"list"}, n - 1) = HowMany({"list"}, n - 1)
        /\ HowManyOf(types', Counted, n - 1) = HowMany(Counted, n - 1)
    BY <1>3, <1>4
  <2>2. c \in Nat /\ l \in Nat  BY <1>7, <1>8
  <2> QED  BY <1>5, <1>6, <1>9, <1>11, <1>12, <2>1, <2>2
<1>16. ASSUME ~corrupt', NEW k \in 1..(n - 1)
       PROVE  /\ types'[k] # "unknown"
              /\ types'[k] = "list" /\ payload_types'[HowManyOf(types', {"list"}, k)] = "end"
                   => lengths'[HowManyOf(types', Counted, k)] <= 0
  <2>1. k \in 1..n /\ types'[k] = types[k] /\ ~corrupt  BY <1>3, <1>6, <1>16
  <2>2. types[k] # "unknown"  BY <1>5, <2>1
  <2>3. CASE types[k] = "list"
    <3>1. k \in 1..Len(types') /\ TypeOK /\ k \in 1..Len(types) /\ "list" \in Counted
      BY <1>1, <1>3, <2>1 DEF ParserInv, Counted
    <3>2. /\ HowManyOf(types', {"list"}, k) = HowMany({"list"}, k)
          /\ HowManyOf(types', Counted, k) = HowMany(Counted, k)
      <4>1. k \in 0..(n - 1)  BY <1>3
      <4> QED  BY <1>4, <4>1
    <3>3. /\ HowMany({"list"}, k) \in 1..Len(payload_types')
          /\ HowMany(Counted, k) \in 1..Len(lengths')
      <4>1. \A S : /\ HowMany(S, k) \in Nat
                   /\ types[k] \in S => 1 <= HowMany(S, k)
                   /\ HowManyOf(types', S, k) <= HowManyOf(types', S, n - 1)
        <5>1. \A S : /\ HowMany(S, k) \in Nat
                     /\ types[k] \in S => 1 <= HowMany(S, k)
          BY <3>1, Places
        <5>2. k \in Nat /\ n - 1 \in Nat /\ k <= n - 1  BY <1>3
        <5>3. \A S : HowManyOf(types', S, k) <= HowManyOf(types', S, n - 1)
          BY <5>2, MoreAbove
        <5> QED  BY <5>1, <5>3
      <4> QED  BY <1>5, <1>9, <1>10, <1>15, <1>16, <2>3, <3>1, <3>2, <4>1
    <3>4. /\ payload_types'[HowMany({"list"}, k)] = payload_types[HowMany({"list"}, k)]
          /\ lengths'[HowMany(Counted, k)] = lengths[HowMany(Counted, k)]
      BY <1>10, <1>12, <3>3
    <3> QED  BY <1>5, <2>1, <2>2, <2>3, <3>2, <3>4
  <2> QED  BY <2>1, <2>2, <2>3
<1>17. CountInv'
  <2>1. \A S, k : HowMany(S, k)' = HowManyOf(types', S, k)  BY DEF HowMany, HowManyOf
  <2>2. Len(types') = n - 1  BY <1>3
  <2> QED  BY <1>15, <1>16, <2>1, <2>2 DEF CountInv, Counted, Arrays
<1> QED  BY <1>13, <1>14, <1>17

\* An element or a datum is counted at the top.
LEMMA OneCounted ==
  ASSUME ParserInv, MoreLeft, NEW m, m = Len(indices)
  PROVE  /\ m \in Nat \ {0} /\ Len(lengths) = m /\ Count \in Seq(Nat) /\ Len(Count) = m
         /\ Last(indices) = indices[m] /\ Last(lengths) = lengths[m] /\ lengths[m] \in Int
         /\ indices[m] \in Nat /\ indices[m] < lengths[m] /\ Count[m] = indices[m] + 1
         /\ \A i \in 1..(m - 1) : Count[i] = indices[i]
         /\ \A i \in 1..m : Count[i] = 0 \/ Count[i] <= lengths[i]
<1>1. /\ indices \in Seq(Nat) /\ lengths \in Seq(Lengths) /\ Len(lengths) = m
      /\ \A i \in 1..m : indices[i] = 0 \/ indices[i] <= lengths[i]
  BY DEF ParserInv, TypeOK, StackInv
<1>2. indices # <<>> /\ Last(indices) < Last(lengths)  BY DEF MoreLeft
<1>3. m \in Nat \ {0} /\ Last(indices) = indices[m] /\ indices[m] \in Nat
  <2>1. Len(indices) \in Nat \ {0} /\ Last(indices) = indices[Len(indices)]  BY <1>1, <1>2, Popped
  <2> QED  BY <1>1, <2>1
<1>4. Last(lengths) = lengths[m] /\ lengths[m] \in Int
  <2>1. lengths # <<>>  BY <1>1, <1>3
  <2>2. Last(lengths) = lengths[m] /\ Last(lengths) \in Lengths  BY <1>1, <2>1, Popped
  <2> QED  BY <2>2, ConstantsAssumption
<1>5. /\ Count \in Seq(Nat) /\ Len(Count) = m /\ Count[m] = indices[m] + 1
      /\ \A i \in 1..(m - 1) : Count[i] = indices[i]
  BY <1>1, <1>3 DEF Count
<1>6. \A i \in 1..m : Count[i] = 0 \/ Count[i] <= lengths[i]
  <2> SUFFICES ASSUME NEW i \in 1..m  PROVE  Count[i] = 0 \/ Count[i] <= lengths[i]
    OBVIOUS
  <2>1. CASE i = m
    <3>1. lengths[m] \in Int /\ indices[m] \in Nat /\ indices[m] < lengths[m]  BY <1>2, <1>3, <1>4
    <3>2. indices[m] + 1 <= lengths[m]  BY <3>1
    <3> QED  BY <1>5, <2>1, <3>2
  <2>2. CASE i # m
    <3>1. i \in 1..(m - 1)  BY <1>3, <2>2
    <3>2. Count[i] = indices[i]  BY <1>5, <3>1
    <3> QED  BY <1>1, <3>2
  <2> QED  BY <2>1, <2>2
<1> QED  BY <1>1, <1>2, <1>3, <1>4, <1>5, <1>6

\* What is left of the types of the variables.
OtherTypes ==
  /\ length \in 0..MaxLength /\ offset \in 0..length /\ cut \in BOOLEAN
  /\ tag_ended \in BOOLEAN /\ end_emitted \in BOOLEAN
  /\ current_event \in {"DOCUMENT_START", "TAG_START", "DATA", "TAG_END", "DOCUMENT_END"}
  /\ tag_data \in {"nothing", "value", "string", "deleted"}
  /\ thrown \in BOOLEAN

LEMMA TypesSplit == TypeOK <=> StackTypes /\ OtherTypes
  BY DEF TypeOK, StackTypes, OtherTypes

\* What next() finds when it is about to read a header, or inside of a tag.
LEMMA AboutToRead ==
  ASSUME ParserInv
  PROVE  /\ AtHeader => /\ ~AtEnd /\ ~thrown /\ tag_data # "string"
                        /\ types = <<>> \/ Last(types) = "compound"
                        /\ ~tag_ended => ~end_emitted
         /\ Inside => /\ ~AtEnd /\ ~thrown
                      /\ ~tag_ended => ~end_emitted /\ tag_data # "string"
                      /\ tag_ended => InList /\ tag_data # "string"
  BY DEF ParserInv, FlagInv, UnionInv, AtHeader, Inside, Running, In, InList, Parents, TypeOK

LEMMA ClosesWell ==
  ASSUME ParserInv
  PROVE  /\ CloseScalar => Pops /\ ~AtEnd /\ ~AtEnd' /\ types # <<>>
         /\ CloseCompound => Pops /\ ~AtEnd /\ types # <<>>
         /\ CloseList => Pops /\ ~AtEnd /\ types # <<>>
         /\ CloseArray => Pops /\ ~AtEnd /\ types # <<>>
<1>1. ASSUME CloseScalar
      PROVE  Pops /\ ~AtEnd /\ ~AtEnd' /\ types # <<>>
  <2>1. types # <<>> /\ Last(types) \in Scalars
    BY <1>1 DEF CloseScalar, ParserInv, FlagInv
  <2>2. Last(types) \notin Counted /\ Last(types) # "list"
    BY <2>1 DEF Scalars, Counted, Arrays
  <2>3. ~AtEnd /\ ~AtEnd'
    BY <1>1 DEF CloseScalar, Running, AtEnd, HandleTagEnd, dataVars
  <2> QED  BY <1>1, <2>1, <2>2, <2>3 DEF CloseScalar, HandleTagEnd, Pops, counts
<1>2. ASSUME CloseCompound
      PROVE  Pops /\ ~AtEnd /\ types # <<>>
  <2>1. types # <<>> /\ AtHeader  BY <1>2 DEF CloseCompound
  <2>2. Last(types) = "compound" /\ ~AtEnd  BY <2>1, AboutToRead
  <2>3. Last(types) \notin Counted /\ Last(types) # "list"
    BY <2>2 DEF Counted, Arrays
  <2> QED  BY <1>2, <2>1, <2>2, <2>3 DEF CloseCompound, HandleTagEnd, Pops, counts
<1>3. ASSUME CloseList
      PROVE  Pops /\ ~AtEnd /\ types # <<>>
  <2>1. types # <<>> /\ Last(types) = "list" /\ Last(types) \in Counted /\ indices # <<>> /\ ~AtEnd
    BY <1>3 DEF CloseList, InList, NothingLeft, Inside, Running, Counted
  <2> QED  BY <1>3, <2>1 DEF CloseList, HandleTagEnd, Pops
<1>4. ASSUME CloseArray
      PROVE  Pops /\ ~AtEnd /\ types # <<>>
  <2>1. /\ types # <<>> /\ Last(types) # "list" /\ Last(types) \in Counted
        /\ indices # <<>> /\ ~AtEnd
    BY <1>4 DEF CloseArray, In, NothingLeft, Inside, Running, Counted, Arrays
  <2> QED  BY <1>4, <2>1 DEF CloseArray, HandleTagEnd, Pops
<1> QED  BY <1>1, <1>2, <1>3, <1>4

\* Only a corrupt document has a list of TAG_END with elements: it leaves its counts
\* behind.
LEMMA ListOfEndCloses ==
  ASSUME ParserInv, CloseListOfEnd
  PROVE  corrupt /\ types # <<>> /\ StackTypes' /\ StackInv' /\ CountInv'
<1>1. PICK n : n = Len(types)  OBVIOUS
<1>2. PICK m : m = Len(indices)  OBVIOUS
<1>3. /\ types # <<>> /\ Last(types) = "list" /\ MoreLeft /\ ~AtEnd
      /\ payload_types # <<>> /\ Last(payload_types) = "end"
      /\ types' = Front(types) /\ names' = Front(names) /\ indices' = Count
      /\ lengths' = lengths /\ payload_types' = Front(payload_types) /\ corrupt' = corrupt
  BY DEF CloseListOfEnd, Inside, Running, InList, HandleTagEnd
<1>4. /\ types' \in Seq(Types) /\ names' \in Seq(Names \cup {Unnamed})
      /\ n \in Nat \ {0} /\ Len(types') = n - 1 /\ Len(names') = n - 1
      /\ Last(types) = types[n]
      /\ \A k \in 1..(n - 1) : types'[k] = types[k] /\ types'[k] \in Parents
  BY <1>1, <1>3, TagPopped
<1>5. /\ HowManyOf(types', Counted, n - 1) = HowMany(Counted, n - 1)
      /\ HowManyOf(types', {"list"}, n - 1) = HowMany({"list"}, n - 1)
      /\ HowMany({"list"}, n) = HowMany({"list"}, n - 1) + 1
      /\ HowMany(Counted, n) = HowMany(Counted, n - 1) + 1
      /\ HowMany({"list"}, n - 1) \in Nat /\ HowMany(Counted, n - 1) \in Nat
  <2>1. n - 1 \in 0..(n - 1) /\ types[n] \in {"list"} /\ types[n] \in Counted
    BY <1>3, <1>4 DEF Counted
  <2>2. \A S : /\ \A k \in 0..(n - 1) : HowManyOf(types', S, k) = HowMany(S, k)
               /\ HowMany(S, n) = HowMany(S, n - 1) + IF types[n] \in S THEN 1 ELSE 0
               /\ HowMany(S, n - 1) \in Nat
    BY <1>1, <1>3, TagPopped
  <2>3. /\ \A k \in 0..(n - 1) : HowManyOf(types', Counted, k) = HowMany(Counted, k)
        /\ HowMany(Counted, n) = HowMany(Counted, n - 1) + IF types[n] \in Counted THEN 1 ELSE 0
        /\ HowMany(Counted, n - 1) \in Nat
    BY <2>2
  <2>4. /\ \A k \in 0..(n - 1) : HowManyOf(types', {"list"}, k) = HowMany({"list"}, k)
        /\ HowMany({"list"}, n)
             = HowMany({"list"}, n - 1) + IF types[n] \in {"list"} THEN 1 ELSE 0
        /\ HowMany({"list"}, n - 1) \in Nat
    BY <2>2
  <2> QED  BY <2>1, <2>3, <2>4
<1>6. /\ m \in Nat \ {0} /\ Len(lengths) = m /\ Count \in Seq(Nat) /\ Len(Count) = m
      /\ indices[m] \in Nat /\ lengths[m] \in Int /\ indices[m] < lengths[m]
      /\ \A i \in 1..m : Count[i] = 0 \/ Count[i] <= lengths[i]
  BY <1>2, <1>3, OneCounted
<1>7. /\ Len(payload_types) = HowMany({"list"}, n) /\ m >= HowMany(Counted, n)
      /\ ~corrupt => /\ m = HowMany(Counted, n)
                     /\ \A k \in 1..n :
                          types[k] = "list" /\ payload_types[HowMany({"list"}, k)] = "end"
                            => lengths[HowMany(Counted, k)] <= 0
  BY <1>1, <1>2, <1>3 DEF ParserInv, CountInv
<1>8. /\ Front(payload_types) \in Seq(Types \cup {"end"})
      /\ Len(payload_types) \in Nat \ {0} /\ Len(Front(payload_types)) = Len(payload_types) - 1
      /\ Last(payload_types) = payload_types[Len(payload_types)]
  <2>1. payload_types \in Seq(Types \cup {"end"})  BY DEF ParserInv, TypeOK
  <2> QED  BY <1>3, <2>1, Popped
<1>9. corrupt
  <2>1. n \in 1..n /\ types[n] = "list"  BY <1>3, <1>4
  <2>2. payload_types[HowMany({"list"}, n)] = "end"  BY <1>3, <1>7, <1>8
  <2>3. ~corrupt => lengths[m] <= 0  BY <1>7, <2>1, <2>2
  <2> QED  BY <1>6, <2>3
<1>10. StackTypes'
  <2>1. lengths \in Seq(Lengths) /\ corrupt \in BOOLEAN  BY DEF ParserInv, TypeOK
  <2> QED  BY <1>3, <1>4, <1>6, <1>8, <2>1 DEF StackTypes
<1>11. StackInv'
  <2>1. Len(names') = Len(types') /\ Len(indices') = Len(lengths')  BY <1>3, <1>4, <1>6
  <2>2. \A k \in 1..(Len(types') - 1) : types'[k] \in Parents  BY <1>4
  <2> QED  BY <2>1, <2>2 DEF StackInv, Parents
<1>12. CountInv'
  <2>1. \A S, k : HowMany(S, k)' = HowManyOf(types', S, k)  BY DEF HowMany, HowManyOf
  <2>2. /\ Len(payload_types') = HowManyOf(types', {"list"}, n - 1)
        /\ Len(indices') >= HowManyOf(types', Counted, n - 1)
    BY <1>3, <1>5, <1>6, <1>7, <1>8
  <2> QED  BY <1>3, <1>4, <1>9, <2>1, <2>2 DEF CountInv, Counted, Arrays
<1> QED  BY <1>3, <1>9, <1>10, <1>11, <1>12

LEMMA TagClosesAtEnd ==
  ASSUME ParserInv, CloseAtEnd
  PROVE  AtEnd' /\ types # <<>> /\ StackTypes' /\ StackInv' /\ CountInv'
<1>1. PICK n : n = Len(types)  OBVIOUS
<1>2. types # <<>>
  <2>1. names # <<>>  BY DEF CloseAtEnd
  <2>2. names \in Seq(Names \cup {Unnamed}) /\ Len(names) = Len(types)
    BY DEF ParserInv, TypeOK, StackInv
  <2>3. Len(names) # 0  BY <2>1, <2>2, Popped
  <2> QED  BY <2>2, <2>3
<1>3. /\ types' = Front(types) /\ names' = Front(names)
      /\ UNCHANGED <<indices, lengths, payload_types, corrupt, offset, length>>
  BY DEF CloseAtEnd, HandleTagEnd, counts, dataVars
<1>4. /\ types' \in Seq(Types) /\ names' \in Seq(Names \cup {Unnamed})
      /\ n \in Nat \ {0} /\ Len(types') = n - 1 /\ Len(names') = n - 1
      /\ \A k \in 1..(n - 1) : types'[k] = types[k] /\ types'[k] \in Parents
  BY <1>1, <1>2, <1>3, TagPopped
<1>5. AtEnd'  BY <1>3 DEF CloseAtEnd, AtEnd
<1>6. StackTypes'  BY <1>3, <1>4 DEF StackTypes, ParserInv, TypeOK
<1>7. StackInv'
  <2>1. Len(names') = Len(types') /\ Len(indices') = Len(lengths')
    BY <1>3, <1>4 DEF ParserInv, StackInv
  <2>2. \A k \in 1..(Len(types') - 1) : types'[k] \in Parents  BY <1>4
  <2> QED  BY <2>1, <2>2 DEF StackInv, Parents
<1> QED  BY <1>2, <1>5, <1>6, <1>7 DEF CountInv

\* A tag starts.
LEMMA TagStarts ==
  ASSUME ParserInv, NEW t \in Types, NEW h \in Headers(t), NEW name
  PROVE  /\ StartNamed(t, h, name) => Pushes(t, h, name, indices)
         /\ StartElement(t, h) => Pushes(t, h, Unnamed, Count)
<1>1. /\ indices \in Seq(Nat) /\ Len(indices) = Len(lengths)
      /\ \A i \in 1..Len(indices) : indices[i] = 0 \/ indices[i] <= lengths[i]
  BY DEF ParserInv, TypeOK, StackInv
<1>2. ASSUME StartNamed(t, h, name)
      PROVE  Pushes(t, h, name, indices)
  <2>1. types = <<>> \/ Last(types) \in Parents
    BY <1>2, AboutToRead DEF StartNamed, Parents
  <2> QED  BY <1>1, <1>2, <2>1 DEF StartNamed, PushCount, Pushes, counts
<1>3. ASSUME StartElement(t, h)
      PROVE  Pushes(t, h, Unnamed, Count)
  <2>1. types # <<>> /\ Last(types) \in Parents /\ MoreLeft
    BY <1>3 DEF StartElement, InList, Parents
  <2>2. PICK m : m = Len(indices)  OBVIOUS
  <2>3. /\ Count \in Seq(Nat) /\ Len(Count) = m
        /\ \A i \in 1..m : Count[i] = 0 \/ Count[i] <= lengths[i]
    BY <2>1, <2>2, OneCounted
  <2>4. \A i \in 1..Len(Count) : Count[i] = 0 \/ Count[i] <= lengths[i]  BY <2>3
  <2> QED  BY <1>3, <2>1, <2>2, <2>3, <2>4 DEF StartElement, Pushes
<1> QED  BY <1>2, <1>3

-----------------------------------------------------------------------------
(* Every step keeps the invariant. *)

LEMMA ParserInit == Init => ParserInv
<1> SUFFICES ASSUME Init  PROVE  ParserInv
  OBVIOUS
<1>1. TypeOK
  <2>1. /\ types = <<>> /\ names = <<>> /\ indices = <<>> /\ lengths = <<>> /\ payload_types = <<>>
        /\ corrupt \in BOOLEAN
    BY DEF Init
  <2>2. StackTypes  BY <2>1 DEF StackTypes
  <2>3. OtherTypes
    <3>1. length \in 0..MaxLength /\ offset = 0 /\ MaxLength \in Nat  BY ConstantsAssumption DEF Init
    <3>2. offset \in 0..length  BY <3>1
    <3> QED  BY <3>1, <3>2 DEF Init, OtherTypes
  <2> QED  BY <2>2, <2>3, TypesSplit
<1>2. StackInv /\ FlagInv /\ UnionInv
  BY DEF Init, StackInv, FlagInv, UnionInv, In
<1>3. CountInv
  <2>1. Len(types) = 0 /\ Len(payload_types) = 0 /\ Len(indices) = 0  BY DEF Init
  <2>2. \A S : HowMany(S, 0) = 0
    <3>1. 0 \in Nat /\ 1 = 0 + 1  OBVIOUS
    <3> QED  BY <3>1, OneMore DEF HowMany, HowManyOf
  <2> QED  BY <2>1, <2>2 DEF CountInv
<1> QED  BY <1>1, <1>2, <1>3 DEF ParserInv

\* A tag ends, in whichever of the ways of next().
LEMMA CloseStep ==
  ASSUME ParserInv, CloseAtEnd \/ CloseScalar \/ CloseCompound \/ CloseListOfEnd \/ CloseList \/ CloseArray
  PROVE  ParserInv'
<1>1. types # <<>> /\ StackTypes' /\ StackInv' /\ CountInv'
  <2>1. CASE CloseAtEnd  BY <2>1, TagClosesAtEnd
  <2>2. CASE CloseListOfEnd  BY <2>2, ListOfEndCloses
  <2>3. CASE CloseScalar \/ CloseCompound \/ CloseList \/ CloseArray
    <3>1. Pops /\ ~AtEnd /\ types # <<>>  BY <2>3, ClosesWell
    <3> QED  BY <3>1, CountsPopped
  <2> QED  BY <2>1, <2>2, <2>3
<1>2. HandleTagEnd
  BY DEF CloseAtEnd, CloseScalar, CloseCompound, CloseListOfEnd, CloseList, CloseArray
<1>3. (tag_ended' \/ AtEnd') /\ tag_ended' \in BOOLEAN
  <2>1. CASE CloseAtEnd
    BY <2>1, TagClosesAtEnd DEF CloseAtEnd, ParserInv, TypeOK
  <2>2. CASE ~CloseAtEnd
    <3>1. CASE CloseScalar  BY <3>1 DEF CloseScalar, ParserInv, TypeOK
    <3>2. CASE ~CloseScalar
      BY <2>2, <3>2 DEF CloseCompound, CloseListOfEnd, CloseList, CloseArray
    <3> QED  BY <3>1, <3>2
  <2> QED  BY <2>1, <2>2
<1>4. /\ FlagInv' /\ UnionInv'
      /\ tag_data' \in {"nothing", "value", "string", "deleted"}
  BY <1>1, <1>2, <1>3, TagEnded
<1>5. offset' \in 0..length' /\ length' = length /\ cut' = cut
  <2>1. offset \in 0..length /\ length \in Nat /\ cut \in BOOLEAN
    BY ConstantsAssumption DEF ParserInv, TypeOK
  <2>2. length' = length /\ cut' = cut  BY <1>2 DEF HandleTagEnd, dataVars
  <2>3. CASE CloseCompound  BY <2>1, <2>2, <2>3 DEF CloseCompound, Available
  <2>4. CASE ~CloseCompound
    BY <2>1, <2>2, <2>4 DEF CloseAtEnd, CloseScalar, CloseListOfEnd, CloseList, CloseArray
  <2> QED  BY <2>3, <2>4
<1>6. OtherTypes'
  BY <1>2, <1>3, <1>4, <1>5 DEF OtherTypes, HandleTagEnd, ParserInv, TypeOK
<1>7. TypeOK'  BY <1>1, <1>6 DEF TypeOK, StackTypes, OtherTypes
<1> QED  BY <1>1, <1>4, <1>7 DEF ParserInv

\* A tag starts, with a name or as an element.
LEMMA StartStep ==
  ASSUME ParserInv, NEW t \in Types, NEW h \in Headers(t), NEW name,
         (name \in Names /\ StartNamed(t, h, name)) \/ StartElement(t, h)
  PROVE  ParserInv'
<1>0. PICK n : n = Len(types)  OBVIOUS
<1>1. /\ ~AtEnd /\ ~thrown /\ tag_data # "string" /\ (~tag_ended => ~end_emitted)
  BY AboutToRead DEF StartNamed, StartElement
<1>2. /\ StackTypes' /\ StackInv' /\ CountInv'
      /\ types' # <<>> /\ Last(types') = t
  <2>1. types \in Seq(Types)  BY DEF ParserInv, TypeOK
  <2>2. Append(types, t) # <<>> /\ Last(Append(types, t)) = t  BY <2>1, Pushed
  <2>3. types' = Append(types, t)  BY DEF StartNamed, StartElement
  <2>4. CASE name \in Names /\ StartNamed(t, h, name)
    <3>1. Pushes(t, h, name, indices) /\ name \in Names \cup {Unnamed}  BY <2>4, TagStarts
    <3> QED  BY <1>0, <1>1, <2>2, <2>3, <3>1, TagPushed
  <2>5. CASE StartElement(t, h)
    <3>1. Pushes(t, h, Unnamed, Count) /\ Unnamed \in Names \cup {Unnamed}
      BY <2>5, TagStarts
    <3> QED  BY <1>0, <1>1, <2>2, <2>3, <3>1, TagPushed
  <2> QED  BY <2>4, <2>5
<1>3. /\ tag_ended' = FALSE /\ end_emitted' = FALSE
      /\ current_event' = "TAG_START" /\ UNCHANGED <<length, cut, tag_data, thrown>>
  BY <1>1 DEF StartNamed, StartElement, Reset, dataVars, ParserInv, TypeOK
<1>4. /\ offset' \in 0..length' /\ (t = "string" => ~AtEnd')
  <2>1. offset \in 0..length /\ length \in Nat /\ cut \in BOOLEAN /\ offset < length
    BY <1>1, ConstantsAssumption DEF ParserInv, TypeOK, AtEnd
  <2>2. HeaderSize(t) \in {0, 1} /\ (t = "string" => HeaderSize(t) = 0)
    BY DEF HeaderSize, Counted, Arrays
  <2>3. CASE StartNamed(t, h, name)
    BY <1>3, <2>1, <2>2, <2>3 DEF StartNamed, Available, NameFits, AtEnd
  <2>4. CASE StartElement(t, h)
    BY <1>3, <2>1, <2>2, <2>4 DEF StartElement, Available, AtEnd
  <2> QED  BY <2>3, <2>4
<1>5. FlagInv'  BY <1>3 DEF FlagInv
<1>6. UnionInv'  BY <1>1, <1>2, <1>3, <1>4 DEF UnionInv, In
<1>7. OtherTypes'  BY <1>3, <1>4 DEF OtherTypes, ParserInv, TypeOK
<1>8. TypeOK'  BY <1>2, <1>7 DEF TypeOK, StackTypes, OtherTypes
<1> QED  BY <1>2, <1>5, <1>6, <1>8 DEF ParserInv

\* A datum is read, or none because the type is unknown.
LEMMA ReadStep ==
  ASSUME ParserInv, ReadArray \/ ReadScalar \/ ReadUnknown
  PROVE  ParserInv'
<1>1. Inside /\ types # <<>> /\ Last(types) \notin {"list", "compound"}
  BY DEF ReadArray, ReadScalar, ReadUnknown, In, Scalars
<1>2. ~AtEnd /\ ~thrown /\ ~tag_ended /\ ~end_emitted /\ tag_data # "string"
  <2>1. ~InList  BY <1>1 DEF InList
  <2> QED  BY <1>1, <2>1, AboutToRead DEF ParserInv, TypeOK
<1>3. /\ UNCHANGED <<types, names, lengths, payload_types, corrupt, length, cut, thrown>>
      /\ end_emitted' = FALSE /\ current_event' = "DATA" /\ tag_ended' \in BOOLEAN
  BY <1>2 DEF ReadArray, ReadScalar, ReadUnknown, Reset, dataVars, counts, ParserInv, TypeOK
<1>4. /\ indices' \in Seq(Nat) /\ Len(indices') = Len(indices)
      /\ \A i \in 1..Len(indices') : indices'[i] = 0 \/ indices'[i] <= lengths[i]
  <2>1. CASE ReadArray
    <3>1. PICK m : m = Len(indices)  OBVIOUS
    <3>2. /\ Count \in Seq(Nat) /\ Len(Count) = m
          /\ \A i \in 1..m : Count[i] = 0 \/ Count[i] <= lengths[i]
      BY <2>1, <3>1, OneCounted DEF ReadArray
    <3>3. indices' = Count  BY <2>1 DEF ReadArray
    <3> QED  BY <3>1, <3>2, <3>3
  <2>2. CASE ~ReadArray
    BY <2>2 DEF ReadScalar, ReadUnknown, counts, ParserInv, TypeOK
  <2> QED  BY <2>1, <2>2
<1>5. offset' \in 0..length'
  <2>1. offset \in 0..length /\ length \in Nat /\ cut \in BOOLEAN
    BY ConstantsAssumption DEF ParserInv, TypeOK
  <2> QED  BY <1>3, <2>1 DEF ReadArray, ReadScalar, ReadUnknown, Available
<1>6. StackTypes'  BY <1>3, <1>4 DEF StackTypes, ParserInv, TypeOK
<1>7. StackInv'  BY <1>3, <1>4 DEF StackInv, ParserInv, Parents
<1>8. CountInv'
  <2>1. \A S, k : HowMany(S, k)' = HowMany(S, k)  BY <1>3 DEF HowMany
  <2> QED  BY <1>2, <1>3, <1>4, <2>1 DEF CountInv, ParserInv, Counted, Arrays
<1>9. FlagInv'
  <2>1. tag_ended' => Last(types) \in Scalars
    BY <1>2 DEF ReadArray, ReadScalar, ReadUnknown
  <2> QED  BY <1>1, <1>3, <2>1 DEF FlagInv, Scalars
<1>10. /\ UnionInv' /\ tag_data' \in {"nothing", "value", "string", "deleted"}
  <2>1. CASE ReadScalar
    BY <1>1, <1>3, <2>1 DEF ReadScalar, UnionInv, In
  <2>2. CASE ReadArray
    BY <1>1, <1>3, <2>2 DEF ReadArray, UnionInv, In
  <2>3. CASE ReadUnknown
    BY <1>1, <1>2, <1>3, <2>3 DEF ReadUnknown, UnionInv, In, ParserInv, TypeOK
  <2> QED  BY <2>1, <2>2, <2>3
<1>11. OtherTypes'  BY <1>3, <1>5, <1>10 DEF OtherTypes, ParserInv, TypeOK
<1>12. TypeOK'  BY <1>6, <1>11 DEF TypeOK, StackTypes, OtherTypes
<1> QED  BY <1>7, <1>8, <1>9, <1>10, <1>12 DEF ParserInv

\* The document ends, with an exception or without, or nothing happens.
LEMMA OtherStep ==
  ASSUME ParserInv, DocumentEnd \/ Throw \/ UNCHANGED vars
  PROVE  ParserInv'
<1>1. /\ UNCHANGED <<offset, length, cut, types, names, indices, lengths, payload_types,
                     tag_ended, end_emitted, tag_data, corrupt>>
      /\ current_event' \in {current_event, "DOCUMENT_END"}
      /\ thrown' \in BOOLEAN /\ (thrown => thrown')
  BY DEF DocumentEnd, Throw, vars, dataVars, counts, flags, ParserInv, TypeOK
<1>2. TypeOK'  BY <1>1 DEF TypeOK, ParserInv
<1>3. StackInv' /\ FlagInv'
  BY <1>1 DEF StackInv, FlagInv, ParserInv, AtEnd, Parents, Scalars
<1>4. CountInv'
  <2>1. \A S, k : HowMany(S, k)' = HowMany(S, k)  BY <1>1 DEF HowMany
  <2> QED  BY <1>1, <2>1 DEF CountInv, ParserInv, AtEnd, Counted, Arrays
<1>5. UnionInv'  BY <1>1 DEF UnionInv, ParserInv, In, AtEnd, TypeOK
<1> QED  BY <1>2, <1>3, <1>4, <1>5 DEF ParserInv

LEMMA ParserStep ==
  ASSUME ParserInv, [Next]_vars
  PROVE  ParserInv'
<1>1. CASE CloseAtEnd \/ CloseScalar \/ CloseCompound \/ CloseListOfEnd \/ CloseList \/ CloseArray
  BY <1>1, CloseStep
<1>2. ASSUME NEW t \in Types, NEW h \in Headers(t), StartElement(t, h)
      PROVE  ParserInv'
  BY <1>2, StartStep
<1>3. ASSUME NEW t \in Types, NEW h \in Headers(t), NEW name \in Names, StartNamed(t, h, name)
      PROVE  ParserInv'
  BY <1>3, StartStep
<1>4. CASE ReadArray \/ ReadScalar \/ ReadUnknown  BY <1>4, ReadStep
<1>5. CASE DocumentEnd \/ Throw \/ UNCHANGED vars  BY <1>5, OtherStep
<1> QED  BY <1>1, <1>2, <1>3, <1>4, <1>5 DEF Next

LEMMA ParserSafe == Spec => []ParserInv
  BY ParserInit, ParserStep, PTL DEF Spec

\* The five stacks of the parser stay together: names and types are of the same tags, each
\* list has its type of elements, each array and list its index and length, and the union
\* holds a string from its datum to the end of its tag, which deletes it.
THEOREM ParserStacksAgree == Spec => []StacksAgree
<1>1. ParserInv => StacksAgree
  BY DEF ParserInv, StackInv, CountInv, UnionInv, StacksAgree
<1> QED  BY <1>1, ParserSafe, PTL

-----------------------------------------------------------------------------
(* The parser implements TagStream: the five stacks are the tags that are open. *)

TagAt(k) == [type |-> types[k], name |-> names[k], left |-> LeftOf(k), elem |-> ElementsOf(k)]

LEMMA SameSequence ==
  ASSUME NEW m \in Nat, NEW f, f = [k \in 1..m |-> f[k]],
         NEW S, NEW g \in Seq(S), Len(g) = m, \A k \in 1..m : f[k] = g[k]
  PROVE  f = g
<1>1. \A k \in 1..m : f[k] \in S  OBVIOUS
<1>2. f \in Seq(S) /\ Len(f) = m  BY <1>1
<1> QED  BY <1>2, SeqEqual

\* Open as a sequence, and its top.
LEMMA OpenTags ==
  ASSUME ParserInv, NEW n, n = Len(types)
  PROVE  /\ n \in Nat /\ Open = [k \in 1..n |-> Open[k]] /\ Len(Open) = n
         /\ \A k \in 1..n : Open[k] = TagAt(k)
         /\ Open = <<>> <=> types = <<>>
         /\ Open \in Seq({TagAt(k) : k \in 1..n})
         /\ types # <<>> => /\ n \in 1..n /\ Last(types) = types[n] /\ Last(names) = names[n]
                            /\ Last(Open) = TagAt(n) /\ n > 0
<1>1. /\ types \in Seq(Types) /\ names \in Seq(Names \cup {Unnamed}) /\ n \in Nat
      /\ Len(names) = n
  BY DEF ParserInv, TypeOK, StackInv
<1>2. Open = [k \in 1..n |-> TagAt(k)]  BY DEF Open, TagAt
<1>3. /\ \A k \in 1..n : Open[k] = TagAt(k)
      /\ Open \in Seq({TagAt(k) : k \in 1..n}) /\ Len(Open) = n
  BY <1>1, <1>2
<1>4. Open = [k \in 1..n |-> Open[k]]  BY <1>2, <1>3
<1>5. Open = <<>> <=> types = <<>>
  <2>1. types = <<>> <=> n = 0  BY <1>1
  <2>2. Open = <<>> <=> n = 0  BY <1>1, <1>3
  <2> QED  BY <2>1, <2>2
<1>6. ASSUME types # <<>>
      PROVE  /\ n \in 1..n /\ Last(types) = types[n] /\ Last(names) = names[n]
             /\ Last(Open) = TagAt(n) /\ n > 0
  <2>1. n > 0 /\ n \in 1..n  BY <1>1, <1>6
  <2> QED  BY <1>1, <1>3, <2>1 DEF Last
<1> QED  BY <1>1, <1>3, <1>4, <1>5, <1>6

\* What is left of a tag, by its type, before a step and after.
Rest(l, i) == IF l < i THEN 0 ELSE l - i

LEMMA LeftOfType ==
  ASSUME NEW k
  PROVE  /\ types[k] \in Counted =>
              LeftOf(k) = IF types[k] = "list" /\ ElementsOf(k) = "end" THEN 0
                          ELSE Rest(lengths[HowMany(Counted, k)], indices[HowMany(Counted, k)])
         /\ types[k] \in Scalars => LeftOf(k) = IF k = Len(types) /\ tag_ended THEN 0 ELSE 1
         /\ types[k] \notin Counted \cup Scalars => LeftOf(k) = 0
<1>1. Counted \cap Scalars = {}  BY DEF Counted, Arrays, Scalars
<1> QED  BY <1>1 DEF LeftOf, Rest

LEMMA LeftOfTypeAfter ==
  ASSUME NEW k
  PROVE  /\ types'[k] \in Counted =>
              LeftOf(k)' = IF types'[k] = "list" /\ ElementsOf(k)' = "end" THEN 0
                           ELSE Rest(lengths'[HowMany(Counted, k)'], indices'[HowMany(Counted, k)'])
         /\ types'[k] \in Scalars => LeftOf(k)' = IF k = Len(types') /\ tag_ended' THEN 0 ELSE 1
         /\ types'[k] \notin Counted \cup Scalars => LeftOf(k)' = 0
<1>1. Counted \cap Scalars = {}  BY DEF Counted, Arrays, Scalars
<1>2. Counted' = Counted /\ Scalars' = Scalars  BY DEF Counted, Arrays, Scalars
<1>3. PICK c : c = HowMany(Counted, k)'  OBVIOUS
<1> QED  BY <1>1, <1>2, <1>3 DEF LeftOf, Rest

\* A list or a compound stays what it is when its places of the stacks do.
LEMMA SamePlace ==
  ASSUME NEW k, types[k] \in Parents, types'[k] = types[k], names'[k] = names[k],
         HowMany({"list"}, k)' = HowMany({"list"}, k), HowMany(Counted, k)' = HowMany(Counted, k),
         types[k] = "list" =>
           /\ payload_types'[HowMany({"list"}, k)] = payload_types[HowMany({"list"}, k)]
           /\ indices'[HowMany(Counted, k)] = indices[HowMany(Counted, k)]
           /\ lengths'[HowMany(Counted, k)] = lengths[HowMany(Counted, k)]
  PROVE  TagAt(k)' = TagAt(k)
<1>1. ElementsOf(k)' = ElementsOf(k)  BY DEF ElementsOf
<1>2. LeftOf(k)' = LeftOf(k)
  <2>1. CASE types[k] = "list"
    <3>1. types[k] \in Counted  BY <2>1 DEF Counted
    <3> QED  BY <1>1, <2>1, <3>1, LeftOfType, LeftOfTypeAfter
  <2>2. CASE types[k] = "compound"
    <3>1. types[k] \notin Counted \cup Scalars  BY <2>2 DEF Counted, Arrays, Scalars
    <3> QED  BY <3>1, LeftOfType, LeftOfTypeAfter
  <2> QED  BY <2>1, <2>2 DEF Parents
<1> QED  BY <1>1, <1>2 DEF TagAt

\* Where the counts of a tag are, in a document that is not corrupt.
LEMMA CountsOf ==
  ASSUME ParserInv, ~AtEnd, ~corrupt, NEW n, n = Len(types), NEW k \in 1..n
  PROVE  /\ types[k] = "list" => HowMany({"list"}, k) \in 1..Len(payload_types)
         /\ types[k] \in Counted => HowMany(Counted, k) \in 1..Len(indices)
         /\ k < n /\ types[n] = "list" => HowMany({"list"}, k) < Len(payload_types)
         /\ k < n /\ types[n] \in Counted => HowMany(Counted, k) < Len(indices)
         /\ HowMany({"list"}, n) = Len(payload_types)
         /\ HowMany(Counted, n) = Len(indices) /\ Len(indices) = Len(lengths)
         /\ types[k] # "unknown"
<1>1. /\ HowMany({"list"}, n) = Len(payload_types) /\ HowMany(Counted, n) = Len(indices)
      /\ Len(indices) = Len(lengths) /\ types[k] # "unknown"
  BY DEF ParserInv, CountInv, StackInv
<1>2. /\ HowMany({"list"}, k) \in Nat /\ HowMany({"list"}, k) <= HowMany({"list"}, n)
      /\ types[k] \in {"list"} => 1 <= HowMany({"list"}, k)
      /\ HowMany({"list"}, n) \in Nat
  BY Places DEF ParserInv
<1>3. /\ HowMany(Counted, k) \in Nat /\ HowMany(Counted, k) <= HowMany(Counted, n)
      /\ types[k] \in Counted => 1 <= HowMany(Counted, k)
      /\ HowMany(Counted, n) \in Nat
  BY Places DEF ParserInv
<1>4. \A S : k < n /\ types[n] \in S => HowMany(S, k) < HowMany(S, n)
  <2>1. n \in Nat  BY DEF ParserInv, TypeOK
  <2>2. k \in Nat /\ k <= n  BY <2>1
  <2>3. \A S : k < n /\ types[n] \in S => HowManyOf(types, S, k) < HowManyOf(types, S, n)
    BY <2>1, <2>2, MoreAbove
  <2> QED  BY <2>3 DEF HowMany, HowManyOf
<1>5. /\ k < n /\ types[n] \in {"list"} => HowMany({"list"}, k) < HowMany({"list"}, n)
      /\ k < n /\ types[n] \in Counted => HowMany(Counted, k) < HowMany(Counted, n)
  BY <1>4
<1> QED  BY <1>1, <1>2, <1>3, <1>5

LEMMA OpenAfter ==
  ASSUME NEW S, NEW o \in Seq(S), Len(types') = Len(o), \A k \in 1..Len(o) : TagAt(k)' = o[k]
  PROVE  Open' = o
<1>1. PICK m : m = Len(o)  OBVIOUS
<1>2. Open' = [k \in 1..m |-> TagAt(k)']  BY <1>1 DEF Open, TagAt
<1>3. m \in Nat  BY <1>1
<1>4. PICK f : f = [k \in 1..m |-> TagAt(k)']  OBVIOUS
<1>5. \A k \in 1..m : f[k] = o[k]  BY <1>1, <1>4
<1>6. f = [k \in 1..m |-> f[k]]  BY <1>4
<1>7. f = o  BY <1>1, <1>3, <1>5, <1>6, SameSequence
<1> QED  BY <1>2, <1>4, <1>7

LEMMA FrontOfOpen ==
  ASSUME ParserInv, types # <<>>, NEW n, n = Len(types), Len(types') = n - 1,
         \A k \in 1..(n - 1) : TagAt(k)' = TagAt(k)
  PROVE  Open' = Front(Open)
<1>1. PICK S : S = {TagAt(k) : k \in 1..n}  OBVIOUS
<1>2. /\ Open \in Seq(S) /\ Len(Open) = n /\ \A k \in 1..n : Open[k] = TagAt(k)
      /\ Open # <<>> /\ n \in Nat
  BY <1>1, OpenTags
<1>3. /\ Front(Open) \in Seq(S) /\ Len(Front(Open)) = n - 1
      /\ \A k \in 1..(n - 1) : Front(Open)[k] = Open[k]
  BY <1>2, Popped
<1>4. \A k \in 1..(n - 1) : k \in 1..n  BY <1>2
<1>5. Len(types') = Len(Front(Open)) /\ \A k \in 1..Len(Front(Open)) : TagAt(k)' = Front(Open)[k]
  BY <1>2, <1>3, <1>4
<1> QED  BY <1>3, <1>5, OpenAfter

\* The tags below the top stay when it ends.
LEMMA OpenPopped ==
  ASSUME ParserInv, ~corrupt, (~AtEnd /\ Pops) \/ CloseAtEnd
  PROVE  Open' = Front(Open) /\ Open # <<>>
<1>1. PICK n : n = Len(types)  OBVIOUS
<1>2. types # <<>> /\ types' = Front(types) /\ names' = Front(names)
  BY TagClosesAtEnd DEF Pops, CloseAtEnd, HandleTagEnd
<1>3. /\ n \in Nat \ {0} /\ Len(types') = n - 1 /\ Last(types) = types[n]
      /\ \A k \in 1..(n - 1) : types'[k] = types[k] /\ types'[k] \in Parents
  BY <1>1, <1>2, TagPopped
<1>4. \A k \in 1..(n - 1) : names'[k] = names[k]
  <2>1. names \in Seq(Names \cup {Unnamed}) /\ Len(names) = n
    BY <1>1 DEF ParserInv, TypeOK, StackInv
  <2>2. names # <<>>  BY <1>3, <2>1
  <2>3. \A k \in 1..(Len(names) - 1) : Front(names)[k] = names[k]  BY <2>1, <2>2, Popped
  <2> QED  BY <1>2, <2>1, <2>3
<1>5. ASSUME NEW k \in 1..(n - 1)
      PROVE  TagAt(k)' = TagAt(k)
  <2>1. \A S : HowMany(S, k)' = HowMany(S, k)
    <3>1. k \in 0..(n - 1)  BY <1>3
    <3>2. \A S : HowManyOf(types', S, k) = HowMany(S, k)  BY <1>1, <1>2, <3>1, TagPopped
    <3> QED  BY <3>2 DEF HowMany, HowManyOf
  <2>2. HowMany({"list"}, k)' = HowMany({"list"}, k) /\ HowMany(Counted, k)' = HowMany(Counted, k)
    BY <2>1 DEF Counted, Arrays
  <2>3. types[k] \in Parents /\ types'[k] = types[k] /\ names'[k] = names[k]
    BY <1>3, <1>4
  <2>4. ASSUME types[k] = "list"
        PROVE  /\ payload_types'[HowMany({"list"}, k)] = payload_types[HowMany({"list"}, k)]
               /\ indices'[HowMany(Counted, k)] = indices[HowMany(Counted, k)]
               /\ lengths'[HowMany(Counted, k)] = lengths[HowMany(Counted, k)]
    <3>1. CASE CloseAtEnd
      BY <3>1 DEF CloseAtEnd, counts
    <3>2. CASE ~AtEnd /\ Pops
      <4>1. k \in 1..n /\ k < n /\ types[k] \in Counted  BY <1>3, <2>4 DEF Counted
      <4>2. /\ HowMany({"list"}, k) \in 1..Len(payload_types)
            /\ HowMany(Counted, k) \in 1..Len(indices) /\ Len(indices) = Len(lengths)
            /\ types[n] = "list" => HowMany({"list"}, k) < Len(payload_types)
            /\ types[n] \in Counted => HowMany(Counted, k) < Len(indices)
        BY <1>1, <2>4, <3>2, <4>1, CountsOf
      <4>3. /\ payload_types \in Seq(Types \cup {"end"})
            /\ indices \in Seq(Nat) /\ lengths \in Seq(Lengths)
        BY DEF ParserInv, TypeOK
      <4>4. payload_types'[HowMany({"list"}, k)] = payload_types[HowMany({"list"}, k)]
        <5>1. CASE types[n] = "list"
          <6>1. payload_types # <<>>  BY <4>2, <4>3
          <6>2. /\ Len(payload_types) \in Nat
                /\ \A i \in 1..(Len(payload_types) - 1) : Front(payload_types)[i] = payload_types[i]
            BY <4>3, <6>1, Popped
          <6>3. payload_types' = Front(payload_types)  BY <1>3, <3>2, <5>1 DEF Pops
          <6> QED  BY <4>2, <5>1, <6>2, <6>3
        <5>2. CASE types[n] # "list"
          <6>1. payload_types' = payload_types  BY <1>3, <3>2, <5>2 DEF Pops
          <6> QED  BY <6>1
        <5> QED  BY <5>1, <5>2
      <4>5. /\ indices'[HowMany(Counted, k)] = indices[HowMany(Counted, k)]
            /\ lengths'[HowMany(Counted, k)] = lengths[HowMany(Counted, k)]
        <5>1. CASE types[n] \in Counted
          <6>1. indices # <<>> /\ lengths # <<>>  BY <4>2, <4>3
          <6>2. /\ Len(indices) \in Nat
                /\ \A i \in 1..(Len(indices) - 1) : Front(indices)[i] = indices[i]
            BY <4>3, <6>1, Popped
          <6>3. \A i \in 1..(Len(lengths) - 1) : Front(lengths)[i] = lengths[i]
            BY <4>3, <6>1, Popped
          <6>4. indices' = Front(indices) /\ lengths' = Front(lengths)
            BY <1>3, <3>2, <5>1 DEF Pops
          <6> QED  BY <4>2, <5>1, <6>2, <6>3, <6>4
        <5>2. CASE types[n] \notin Counted
          <6>1. indices' = indices /\ lengths' = lengths  BY <1>3, <3>2, <5>2 DEF Pops
          <6> QED  BY <6>1
        <5> QED  BY <5>1, <5>2
      <4> QED  BY <4>4, <4>5
    <3> QED  BY <3>1, <3>2
  <2> QED  BY <2>2, <2>3, <2>4, SamePlace
<1>6. Open' = Front(Open)  BY <1>1, <1>2, <1>3, <1>5, FrontOfOpen
<1> QED  BY <1>1, <1>2, <1>6, OpenTags

\* Nothing is left of a tag that ends, unless the data are used up.
LEMMA NothingLeftAtEnd ==
  ASSUME ParserInv, ~corrupt, CloseScalar \/ CloseCompound \/ CloseList \/ CloseArray,
         NEW n, n = Len(types)
  PROVE  LeftOf(n) = 0
<1>1. ~AtEnd /\ types # <<>>  BY ClosesWell
<1>2. n \in 1..n /\ Last(types) = types[n]  BY <1>1, OpenTags
<1>3. CASE CloseScalar
  <2>1. types[n] \in Scalars /\ tag_ended
    BY <1>2, <1>3 DEF CloseScalar, ParserInv, FlagInv
  <2> QED  BY <2>1, LeftOfType
<1>4. CASE CloseCompound
  <2>1. types[n] = "compound"  BY <1>1, <1>2, <1>4, AboutToRead DEF CloseCompound
  <2>2. types[n] \notin Counted \cup Scalars  BY <2>1 DEF Counted, Arrays, Scalars
  <2> QED  BY <2>2, LeftOfType
<1>5. CASE CloseList \/ CloseArray
  <2>1. /\ types[n] \in Counted /\ indices # <<>> /\ Last(indices) >= Last(lengths)
    BY <1>2, <1>5 DEF CloseList, CloseArray, InList, In, NothingLeft, Counted, Arrays
  <2>2. HowMany(Counted, n) = Len(indices) /\ Len(indices) = Len(lengths)
    BY <1>1, <1>2, CountsOf
  <2>3. indices \in Seq(Nat) /\ lengths \in Seq(Lengths)  BY DEF ParserInv, TypeOK
  <2>4. /\ Last(indices) = indices[HowMany(Counted, n)] /\ Last(indices) \in Int
        /\ Last(lengths) = lengths[HowMany(Counted, n)] /\ Last(lengths) \in Int
    <3>1. lengths # <<>>  BY <2>1, <2>2, <2>3
    <3>2. Last(indices) = indices[Len(indices)] /\ Last(indices) \in Nat  BY <2>1, <2>3, Popped
    <3>3. Last(lengths) = lengths[Len(lengths)] /\ Last(lengths) \in Lengths
      BY <2>3, <3>1, Popped
    <3>4. Last(lengths) \in Int  BY <3>3, ConstantsAssumption
    <3> QED  BY <2>2, <3>2, <3>3, <3>4
  <2>5. Rest(Last(lengths), Last(indices)) = 0  BY <2>1, <2>4 DEF Rest
  <2> QED  BY <2>1, <2>4, <2>5, LeftOfType
<1> QED  BY <1>3, <1>4, <1>5

LEMMA EndEvent ==
  ASSUME NEW x, NEW y
  PROVE  <<"TAG_END">> \o <<x, y>> = <<"TAG_END", x, y>>
<1>1. PICK S : S = {"TAG_END", x, y}  OBVIOUS
<1>2. /\ <<"TAG_END">> \in Seq(S) /\ <<x, y>> \in Seq(S) /\ <<"TAG_END", x, y>> \in Seq(S)
      /\ Len(<<"TAG_END">>) = 1 /\ Len(<<x, y>>) = 2 /\ Len(<<"TAG_END", x, y>>) = 3
  BY <1>1
<1>3. /\ <<"TAG_END">> \o <<x, y>> \in Seq(S) /\ Len(<<"TAG_END">> \o <<x, y>>) = 3
      /\ \A i \in 1..3 : (<<"TAG_END">> \o <<x, y>>)[i]
                        = IF i <= 1 THEN <<"TAG_END">>[i] ELSE <<x, y>>[i - 1]
  BY <1>2, ConcatProperties
<1>4. \A i \in 1..3 : (<<"TAG_END">> \o <<x, y>>)[i] = <<"TAG_END", x, y>>[i]
  BY <1>3
<1> QED  BY <1>2, <1>3, <1>4, SeqEqual

LEMMA StreamNames ==
  /\ Stream!Last(Open) = Last(Open) /\ Stream!Front(Open) = Front(Open)
  /\ Stream!Unnamed = Unnamed
<1>1. Stream!Last(Open) = Last(Open) /\ Stream!Front(Open) = Front(Open)
  BY DEF Last, Front, Stream!Last, Stream!Front
<1>2. Stream!Unnamed = Unnamed  BY Zenon DEF Unnamed, Stream!Unnamed
<1> QED  BY <1>1, <1>2

LEMMA ClosesAsPromised ==
  ASSUME ParserInv, ~corrupt,
         CloseAtEnd \/ CloseScalar \/ CloseCompound \/ CloseList \/ CloseArray
  PROVE  Stream!End
<1>1. PICK n : n = Len(types)  OBVIOUS
<1>2. HandleTagEnd
  BY DEF CloseAtEnd, CloseScalar, CloseCompound, CloseList, CloseArray
<1>3. Open' = Front(Open) /\ Open # <<>> /\ types # <<>>
  <2>1. CASE CloseAtEnd  BY <2>1, OpenPopped, TagClosesAtEnd
  <2>2. CASE ~CloseAtEnd
    <3>1. ~AtEnd /\ Pops /\ types # <<>>  BY <2>2, ClosesWell
    <3> QED  BY <3>1, OpenPopped
  <2> QED  BY <2>1, <2>2
<1>4. Last(Open) = TagAt(n) /\ Last(types) = types[n] /\ Last(names) = names[n]
  BY <1>1, <1>3, OpenTags
<1>5. Last(Open).left = 0 \/ AtEnd
  <2>1. CASE CloseAtEnd  BY <2>1 DEF CloseAtEnd
  <2>2. CASE ~CloseAtEnd
    <3>1. LeftOf(n) = 0  BY <1>1, <2>2, NothingLeftAtEnd
    <3> QED  BY <1>4, <3>1 DEF TagAt
  <2> QED  BY <2>1, <2>2
<1>6. Shown' = <<"TAG_END", Last(Open).type, Last(Open).name>>
  <2>1. current_event' = "TAG_END" /\ last_tag' = <<types[n], names[n]>>
    BY <1>2, <1>4 DEF HandleTagEnd
  <2>2. Shown' = <<"TAG_END">> \o <<types[n], names[n]>>  BY <2>1 DEF Shown
  <2>3. types[n] = Last(Open).type /\ names[n] = Last(Open).name  BY <1>4 DEF TagAt
  <2> QED  BY <2>2, <2>3, EndEvent
<1> QED  BY <1>3, <1>5, <1>6, StreamNames DEF Stream!End

LEMMA DocumentEndsAsPromised ==
  ASSUME ParserInv, DocumentEnd
  PROVE  Stream!DocumentEnd
<1>1. types = <<>>
  <2>1. names = <<>> /\ Len(names) = Len(types) /\ types \in Seq(Types)
    BY DEF DocumentEnd, ParserInv, StackInv, TypeOK
  <2>2. Len(types) = 0  BY <2>1
  <2> QED  BY <2>1, <2>2
<1>2. types' = <<>> /\ AtEnd /\ current_event' = "DOCUMENT_END"
  BY <1>1 DEF DocumentEnd
<1>3. Open = <<>> /\ Open' = <<>>
  <2>1. Open = <<>>  BY <1>1, OpenTags
  <2>2. PICK S : S = {1}  OBVIOUS
  <2>3. <<>> \in Seq(S) /\ Len(types') = Len(<<>>) /\ \A k \in 1..Len(<<>>) : TagAt(k)' = <<>>[k]
    BY <1>2
  <2>4. Open' = <<>>  BY <2>3, OpenAfter
  <2> QED  BY <2>1, <2>4
<1>4. Shown' = <<"DOCUMENT_END">>  BY <1>2 DEF Shown
<1> QED  BY <1>2, <1>3, <1>4 DEF Stream!DocumentEnd

\* An exception, and a step of nothing, say nothing.
LEMMA NothingSaid ==
  ASSUME Throw \/ UNCHANGED vars
  PROVE  UNCHANGED Stream!vars
<1>1. UNCHANGED <<offset, length, types, names, indices, lengths, payload_types, tag_ended,
                  current_event, last_tag, corrupt>>
  BY DEF Throw, vars, dataVars, counts, flags
<1>2. AtEnd' = AtEnd  BY <1>1 DEF AtEnd
<1>3. Shown' = Shown  BY <1>1 DEF Shown
<1>4. Open' = Open
  <2>1. \A k : HowMany(Counted, k)' = HowMany(Counted, k) /\ HowMany({"list"}, k)' = HowMany({"list"}, k)
    BY <1>1 DEF HowMany, Counted, Arrays
  <2>2. \A k : ElementsOf(k)' = ElementsOf(k)  BY <1>1, <2>1 DEF ElementsOf
  <2>3. ASSUME NEW k
        PROVE  LeftOf(k)' = LeftOf(k)
    <3>1. CASE types[k] \in Counted
      BY <1>1, <2>1, <2>2, <3>1, LeftOfType, LeftOfTypeAfter
    <3>2. CASE types[k] \in Scalars
      BY <1>1, <3>2, LeftOfType, LeftOfTypeAfter
    <3>3. CASE types[k] \notin Counted \cup Scalars
      BY <1>1, <3>3, LeftOfType, LeftOfTypeAfter
    <3> QED  BY <3>1, <3>2, <3>3
  <2> QED  BY <1>1, <2>2, <2>3 DEF Open
<1> QED  BY <1>1, <1>2, <1>3, <1>4 DEF Stream!vars

LEMMA SameHowMany ==
  ASSUME NEW n \in Nat, NEW base, Keeps(n, base)
  PROVE  \A S, k : k \in 1..n => HowMany(S, k)' = HowMany(S, k)
<1> SUFFICES ASSUME NEW S, NEW k \in 1..n  PROVE HowMany(S, k)' = HowMany(S, k)
  OBVIOUS
<1>1. k \in Nat /\ \A j \in 1..k : types'[j] = types[j]  BY DEF Keeps
<1>2. HowManyOf(types', S, k) = HowManyOf(types, S, k)  BY <1>1, SameBelow
<1> QED  BY <1>2 DEF HowMany, HowManyOf

\* A list or compound that such a step does not count in stays what it is.
LEMMA TagKept ==
  ASSUME ParserInv, ~AtEnd, ~corrupt, NEW n, n = Len(types), NEW base, Keeps(n, base),
         NEW k \in 1..n, types[k] \in Parents,
         types[k] = "list" => base[HowMany(Counted, k)] = indices[HowMany(Counted, k)]
  PROVE  TagAt(k)' = TagAt(k)
<1>1. n \in Nat  BY DEF ParserInv, TypeOK
<1>2. HowMany({"list"}, k)' = HowMany({"list"}, k) /\ HowMany(Counted, k)' = HowMany(Counted, k)
  <2>1. \A S : HowMany(S, k)' = HowMany(S, k)  BY <1>1, SameHowMany
  <2> QED  BY <2>1 DEF Counted, Arrays
<1>3. types'[k] = types[k] /\ names'[k] = names[k]  BY DEF Keeps
<1>4. ASSUME types[k] = "list"
      PROVE  /\ payload_types'[HowMany({"list"}, k)] = payload_types[HowMany({"list"}, k)]
             /\ indices'[HowMany(Counted, k)] = indices[HowMany(Counted, k)]
             /\ lengths'[HowMany(Counted, k)] = lengths[HowMany(Counted, k)]
  <2>1. types[k] \in Counted  BY <1>4 DEF Counted
  <2>2. /\ HowMany({"list"}, k) \in 1..Len(payload_types)
        /\ HowMany(Counted, k) \in 1..Len(indices) /\ Len(indices) = Len(lengths)
    BY <1>4, <2>1, CountsOf
  <2> QED  BY <1>4, <2>2 DEF Keeps
<1> QED  BY <1>2, <1>3, <1>4, SamePlace

\* Below a tag that counts, nothing is counted.
LEMMA BelowKept ==
  ASSUME ParserInv, ~AtEnd, ~corrupt, NEW n, n = Len(types), types # <<>>,
         Last(types) \in Counted, MoreLeft, Keeps(n, Count), NEW k \in 1..(n - 1)
  PROVE  TagAt(k)' = TagAt(k)
<1>1. PICK m : m = Len(indices)  OBVIOUS
<1>2. n \in 1..n /\ n \in Nat /\ k \in 1..n /\ k < n /\ Last(types) = types[n]
  <2>1. n \in 1..n /\ n \in Nat /\ Last(types) = types[n]  BY OpenTags
  <2> QED  BY <2>1
<1>3. types[k] \in Parents  BY DEF ParserInv, StackInv
<1>4. ASSUME types[k] = "list"
      PROVE  Count[HowMany(Counted, k)] = indices[HowMany(Counted, k)]
  <2>1. types[k] \in Counted  BY <1>4 DEF Counted
  <2>2. HowMany(Counted, k) \in 1..m /\ HowMany(Counted, k) < m
    BY <1>1, <1>2, <2>1, CountsOf
  <2>3. m \in Nat /\ \A i \in 1..(m - 1) : Count[i] = indices[i]  BY <1>1, OneCounted
  <2> QED  BY <2>2, <2>3
<1> QED  BY <1>2, <1>3, <1>4, TagKept

\* One less is left of a tag that counts.
LEMMA TopCounts ==
  ASSUME ParserInv, ~AtEnd, ~corrupt, NEW n, n = Len(types), types # <<>>,
         Last(types) \in Counted, MoreLeft, Keeps(n, Count),
         Last(types) = "list" => Last(payload_types) # "end"
  PROVE  /\ LeftOf(n) > 0 /\ TagAt(n)' = [TagAt(n) EXCEPT !.left = @ - 1]
         /\ Last(types) = "list" => ElementsOf(n) = Last(payload_types)
<1>1. PICK m : m = Len(indices)  OBVIOUS
<1>2. n \in 1..n /\ n \in Nat /\ Last(types) = types[n]  BY OpenTags
<1>3. /\ HowMany({"list"}, n) = Len(payload_types) /\ HowMany(Counted, n) = m
      /\ types[n] = "list" => HowMany({"list"}, n) \in 1..Len(payload_types)
  BY <1>1, <1>2, CountsOf
<1>4. HowMany({"list"}, n)' = HowMany({"list"}, n) /\ HowMany(Counted, n)' = HowMany(Counted, n)
  <2>1. \A S : HowMany(S, n)' = HowMany(S, n)  BY <1>2, SameHowMany
  <2> QED  BY <2>1 DEF Counted, Arrays
<1>5. /\ m \in Nat \ {0} /\ Len(lengths) = m /\ indices[m] \in Nat /\ lengths[m] \in Int
      /\ indices[m] < lengths[m] /\ Count[m] = indices[m] + 1
  BY <1>1, OneCounted
<1>6. /\ types'[n] = types[n] /\ names'[n] = names[n]
      /\ lengths'[m] = lengths[m] /\ indices'[m] = indices[m] + 1
      /\ types[n] = "list" =>
           payload_types'[HowMany({"list"}, n)] = payload_types[HowMany({"list"}, n)]
  <2>1. m \in 1..m  BY <1>5
  <2> QED  BY <1>1, <1>2, <1>3, <1>5, <2>1 DEF Keeps
<1>7. ElementsOf(n)' = ElementsOf(n) /\ (types[n] = "list" => ElementsOf(n) = Last(payload_types))
  <2>1. Last(payload_types) = payload_types[Len(payload_types)]  BY DEF Last
  <2> QED  BY <1>3, <1>4, <1>6, <2>1 DEF ElementsOf
<1>8. /\ Rest(lengths[m], indices[m]) > 0
      /\ Rest(lengths[m], indices[m] + 1) = Rest(lengths[m], indices[m]) - 1
  BY <1>5 DEF Rest
<1>9. ~(types[n] = "list" /\ ElementsOf(n) = "end")  BY <1>2, <1>7
<1>10. LeftOf(n) = Rest(lengths[m], indices[m])
  BY <1>2, <1>3, <1>9, LeftOfType
<1>11. LeftOf(n)' = Rest(lengths[m], indices[m] + 1)
  BY <1>2, <1>3, <1>4, <1>6, <1>7, <1>9, LeftOfTypeAfter
<1>12. TagAt(n)' = [TagAt(n) EXCEPT !.left = @ - 1]
  BY <1>6, <1>7, <1>8, <1>10, <1>11 DEF TagAt
<1> QED  BY <1>2, <1>7, <1>8, <1>10, <1>12

LEMMA DecrementedOpen ==
  ASSUME ParserInv, types # <<>>, NEW n, n = Len(types)
  PROVE  /\ Stream!Decrement \in Seq({TagAt(k) : k \in 1..n} \cup {[TagAt(n) EXCEPT !.left = @ - 1]})
         /\ Len(Stream!Decrement) = n
         /\ \A k \in 1..(n - 1) : Stream!Decrement[k] = TagAt(k)
         /\ Stream!Decrement[n] = [TagAt(n) EXCEPT !.left = @ - 1]
<1>1. PICK S : S = {TagAt(k) : k \in 1..n} \cup {[TagAt(n) EXCEPT !.left = @ - 1]}  OBVIOUS
<1>2. PICK top : top = [TagAt(n) EXCEPT !.left = @ - 1]  OBVIOUS
<1>3. /\ n \in Nat /\ n \in 1..n /\ Open = [k \in 1..n |-> Open[k]] /\ Len(Open) = n
      /\ \A k \in 1..n : Open[k] = TagAt(k)
  BY OpenTags
<1>4. Stream!Decrement = [Open EXCEPT ![n] = top]
  <2>1. top = [Open[n] EXCEPT !.left = @ - 1]  BY <1>2, <1>3
  <2> QED  BY <1>3, <2>1 DEF Stream!Decrement
<1>5. PICK d : d = [Open EXCEPT ![n] = top]  OBVIOUS
<1>6. /\ d = [k \in 1..n |-> d[k]] /\ d[n] = top /\ \A k \in 1..(n - 1) : d[k] = TagAt(k)
  <2>1. d = [k \in 1..n |-> IF k = n THEN top ELSE Open[k]]
    <3>1. n \in Nat /\ n \in 1..n /\ DOMAIN Open = 1..n  BY <1>3
    <3> QED  BY <1>5, <3>1
  <2>2. d = [k \in 1..n |-> d[k]]  BY <2>1
  <2>3. d[n] = top  BY <1>3, <2>1
  <2>4. \A k \in 1..(n - 1) : d[k] = TagAt(k)
    <3>1. \A k \in 1..(n - 1) : k \in 1..n /\ k # n  BY <1>3
    <3> QED  BY <1>3, <2>1, <3>1
  <2> QED  BY <2>2, <2>3, <2>4
<1>7. \A k \in 1..n : d[k] \in S
  <2>1. \A k \in 1..n : k = n \/ k \in 1..(n - 1)  BY <1>3
  <2>2. top \in S /\ \A k \in 1..n : TagAt(k) \in S  BY <1>1, <1>2
  <2> QED  BY <1>6, <2>1, <2>2
<1>8. d \in Seq(S) /\ Len(d) = n  BY <1>3, <1>6, <1>7
<1> QED  BY <1>1, <1>2, <1>4, <1>5, <1>6, <1>8

LEMMA ReadsAsPromised ==
  ASSUME ParserInv, ~corrupt, ReadArray \/ ReadScalar \/ ReadUnknown
  PROVE  Stream!Datum
<1>1. PICK n : n = Len(types)  OBVIOUS
<1>2. Inside /\ types # <<>> /\ Last(types) \notin {"list", "compound"}
  BY DEF ReadArray, ReadScalar, ReadUnknown, In, Scalars
<1>3. ~AtEnd /\ ~tag_ended
  <2>1. ~InList  BY <1>2 DEF InList
  <2> QED  BY <1>2, <2>1, AboutToRead
<1>4. /\ n \in Nat /\ n \in 1..n /\ Last(types) = types[n] /\ Last(names) = names[n]
      /\ Last(Open) = TagAt(n) /\ Open # <<>>
  BY <1>1, <1>2, OpenTags
<1>5. /\ UNCHANGED <<types, names, lengths, payload_types>> /\ current_event' = "DATA"
  BY DEF ReadArray, ReadScalar, ReadUnknown, counts
<1>6. ReadArray \/ ReadScalar
  <2>1. types[n] # "unknown"  BY <1>1, <1>3, <1>4, CountsOf
  <2> QED  BY <1>4, <2>1 DEF ReadUnknown, In
<1>7. /\ Last(types) \in Scalars \cup Arrays /\ LeftOf(n) > 0
      /\ TagAt(n)' = [TagAt(n) EXCEPT !.left = @ - 1]
      /\ \A k \in 1..(n - 1) : TagAt(k)' = TagAt(k)
  <2>1. CASE ReadArray
    <3>1. Last(types) = "array" /\ MoreLeft /\ indices' = Count
      BY <2>1 DEF ReadArray, In
    <3>2. Last(types) \in Arrays /\ Last(types) \in Counted /\ Last(types) # "list"
      BY <3>1 DEF Arrays, Counted
    <3>3. Keeps(n, Count)  BY <1>5, <3>1 DEF Keeps
    <3>4. LeftOf(n) > 0 /\ TagAt(n)' = [TagAt(n) EXCEPT !.left = @ - 1]
      BY <1>1, <1>2, <1>3, <3>1, <3>2, <3>3, TopCounts
    <3>5. \A k \in 1..(n - 1) : TagAt(k)' = TagAt(k)
      BY <1>1, <1>2, <1>3, <3>1, <3>2, <3>3, BelowKept
    <3> QED  BY <3>2, <3>4, <3>5
  <2>2. CASE ReadScalar
    <3>1. Last(types) \in Scalars /\ tag_ended' = TRUE /\ indices' = indices
      BY <2>2 DEF ReadScalar, counts
    <3>2. Keeps(n, indices)  BY <1>5, <3>1 DEF Keeps
    <3>3. LeftOf(n) = 1 /\ LeftOf(n)' = 0
      BY <1>1, <1>3, <1>4, <1>5, <3>1, LeftOfType, LeftOfTypeAfter
    <3>4. ElementsOf(n)' = "end" /\ ElementsOf(n) = "end"
      BY <1>4, <1>5, <3>1 DEF ElementsOf, Scalars
    <3>5. TagAt(n)' = [TagAt(n) EXCEPT !.left = @ - 1]
      BY <1>5, <3>3, <3>4 DEF TagAt
    <3>6. ASSUME NEW k \in 1..(n - 1)
          PROVE  TagAt(k)' = TagAt(k)
      <4>1. k \in 1..n /\ types[k] \in Parents  BY <1>1, <1>4 DEF ParserInv, StackInv
      <4> QED  BY <1>1, <1>3, <3>2, <4>1, TagKept
    <3> QED  BY <3>1, <3>3, <3>5, <3>6
  <2> QED  BY <1>6, <2>1, <2>2
<1>8. Open' = Stream!Decrement
  <2>1. PICK S : S = {TagAt(k) : k \in 1..n} \cup {[TagAt(n) EXCEPT !.left = @ - 1]}  OBVIOUS
  <2>2. /\ Stream!Decrement \in Seq(S) /\ Len(Stream!Decrement) = n
        /\ \A k \in 1..(n - 1) : Stream!Decrement[k] = TagAt(k)
        /\ Stream!Decrement[n] = [TagAt(n) EXCEPT !.left = @ - 1]
    BY <1>1, <1>2, <2>1, DecrementedOpen
  <2>3. \A k \in 1..n : TagAt(k)' = Stream!Decrement[k]
    <3>1. \A k \in 1..n : k = n \/ k \in 1..(n - 1)  BY <1>4
    <3> QED  BY <1>7, <2>2, <3>1
  <2>4. Len(types') = n  BY <1>1, <1>5
  <2> QED  BY <2>2, <2>3, <2>4, OpenAfter
<1>9. Shown' = <<"DATA", Last(Open).type, Last(Open).name>>
  <2>1. Shown' = <<"DATA", Last(types), Last(names)>>
    <3>1. Last(types)' = Last(types) /\ Last(names)' = Last(names)  BY <1>5
    <3> QED  BY <1>5, <3>1 DEF Shown
  <2> QED  BY <1>4, <2>1 DEF TagAt
<1>10. /\ Last(Open).type \in Scalars \cup Arrays /\ Last(Open).left > 0
  BY <1>4, <1>7 DEF TagAt
<1> QED  BY <1>4, <1>8, <1>9, <1>10, StreamNames DEF Stream!Datum

\* A tag that starts is one of those that its header can state.
LEMMA NewTag ==
  ASSUME ParserInv, ~AtEnd, ~corrupt', NEW t \in Types, NEW h, NEW name \in Names \cup {Unnamed},
         NEW base, Pushes(t, h, name, base), tag_ended' = FALSE, NEW n, n = Len(types)
  PROVE  /\ t \in Stream!Types /\ TagAt(n + 1)' \in Stream!Tags(t, name)
         /\ TagAt(n + 1)'.type = t
<1>1. /\ Len(types') = n + 1 /\ types'[n + 1] = t /\ names'[n + 1] = name
      /\ t = "list" => payload_types'[HowManyOf(types', {"list"}, n + 1)] = h[1]
      /\ t \in Counted => /\ lengths'[HowManyOf(types', Counted, n + 1)] = h[2]
                          /\ h[2] \in Lengths
                          /\ indices'[HowManyOf(types', Counted, n + 1)] = 0
  <2>1. Above(t, h, name, n)  BY TagPushed
  <2> QED  BY <2>1 DEF Above
<1>2. PICK p : p = n + 1  OBVIOUS
<1>3. /\ HowMany({"list"}, p)' = HowManyOf(types', {"list"}, n + 1)
      /\ HowMany(Counted, p)' = HowManyOf(types', Counted, n + 1)
  BY <1>2 DEF HowMany, HowManyOf, Counted, Arrays
<1>4. ElementsOf(p)' = IF t = "list" THEN h[1] ELSE "end"
  BY <1>1, <1>2, <1>3 DEF ElementsOf
<1>5. t # "unknown" /\ h[1] # "unknown"  BY DEF Pushes, PushPayload
<1>6. t \in Stream!Types
  BY <1>5 DEF Types, Known, Counted, Stream!Types
<1>7. TagAt(p)' = [type |-> t, name |-> name, left |-> LeftOf(p)', elem |-> ElementsOf(p)']
  BY <1>1, <1>2 DEF TagAt
<1>8. ASSUME t \in Counted
      PROVE  Rest(h[2], 0) \in Stream!Stated
  <2>1. h[2] \in Lengths /\ h[2] \in Int  BY <1>1, <1>8, ConstantsAssumption
  <2>2. Rest(h[2], 0) = Stream!AtLeastZero(h[2])  BY <2>1 DEF Rest, Stream!AtLeastZero
  <2> QED  BY <2>1, <2>2 DEF Stream!Stated
<1>9. CASE t = "list"
  <2>1. t \in Counted /\ t \notin Scalars /\ t # "compound"
    BY <1>9 DEF Counted, Scalars
  <2>2. LeftOf(p)' = IF h[1] = "end" THEN 0 ELSE Rest(h[2], 0)
    BY <1>1, <1>2, <1>3, <1>4, <1>9, <2>1, LeftOfTypeAfter
  <2>3. CASE h[1] = "end"
    <3>1. TagAt(p)' = [type |-> t, name |-> name, elem |-> "end", left |-> 0]
      BY <1>4, <1>7, <1>9, <2>2, <2>3
    <3> QED  BY <1>2, <1>6, <1>9, <3>1 DEF Stream!Tags
  <2>4. CASE h[1] # "end"
    <3>1. h[1] \in Stream!Types
      <4>1. h \in Headers(t)  BY DEF Pushes
      <4>2. h[1] \in Types  BY <1>9, <2>4, <4>1 DEF Headers
      <4> QED  BY <1>5, <4>2 DEF Types, Known, Counted, Stream!Types
    <3>2. Rest(h[2], 0) \in Stream!LeftOf(t)  BY <1>8, <2>1 DEF Stream!LeftOf
    <3>3. TagAt(p)' = [type |-> t, name |-> name, elem |-> h[1], left |-> Rest(h[2], 0)]
      BY <1>4, <1>7, <1>9, <2>2, <2>4
    <3>4. PICK e, l : e = h[1] /\ l = Rest(h[2], 0)  OBVIOUS
    <3>5. /\ e \in (IF t = "list" THEN Stream!Types ELSE {"end"}) /\ l \in Stream!LeftOf(t)
          /\ TagAt(p)' = [type |-> t, name |-> name, elem |-> e, left |-> l]
      BY <1>9, <3>1, <3>2, <3>3, <3>4
    <3>6. TagAt(p)' \in Stream!Tags(t, name)  BY <3>5 DEF Stream!Tags
    <3> QED  BY <1>2, <1>6, <3>3, <3>6
  <2> QED  BY <2>3, <2>4
<1>10. CASE t # "list"
  <2>1. LeftOf(p)' \in Stream!LeftOf(t)
    <3>1. CASE t \in Scalars
      BY <1>1, <1>2, <3>1, LeftOfTypeAfter DEF Stream!LeftOf
    <3>2. CASE t \in Counted
      <4>1. t \notin Scalars /\ t # "compound"  BY <3>2 DEF Counted, Arrays, Scalars
      <4>2. LeftOf(p)' = Rest(h[2], 0)
        BY <1>1, <1>2, <1>3, <1>10, <3>2, LeftOfTypeAfter
      <4> QED  BY <1>8, <3>2, <4>1, <4>2 DEF Stream!LeftOf
    <3>3. CASE t \notin Scalars \cup Counted
      <4>1. t = "compound"  BY <1>5, <3>3 DEF Types, Known
      <4>2. LeftOf(p)' = 0  BY <1>1, <1>2, <3>3, LeftOfTypeAfter
      <4> QED  BY <3>3, <4>1, <4>2 DEF Stream!LeftOf
    <3> QED  BY <3>1, <3>2, <3>3
  <2>2. TagAt(p)' = [type |-> t, name |-> name, elem |-> "end", left |-> LeftOf(p)']
    BY <1>4, <1>7, <1>10
  <2> QED  BY <1>2, <1>6, <1>10, <2>1, <2>2 DEF Stream!Tags
<1> QED  BY <1>9, <1>10

LEMMA NamedAsPromised ==
  ASSUME ParserInv, ~corrupt', NEW t \in Types, NEW h \in Headers(t), NEW name \in Names,
         StartNamed(t, h, name)
  PROVE  ~AtEnd /\ Stream!StartNamed
<1>1. PICK n : n = Len(types)  OBVIOUS
<1>2. /\ ~AtEnd /\ Pushes(t, h, name, indices) /\ name \in Names \cup {Unnamed}
      /\ types = <<>> \/ Last(types) = "compound"
  BY TagStarts, AboutToRead DEF StartNamed
<1>3. /\ tag_ended' = FALSE /\ current_event' = "TAG_START"
      /\ types' = Append(types, t) /\ names' = Append(names, name) /\ ~corrupt
  BY DEF StartNamed, PushPayload
<1>4. /\ Len(types') = n + 1 /\ Keeps(n, indices)
  <2>1. Above(t, h, name, n) /\ Keeps(n, indices)  BY <1>1, <1>2, TagPushed
  <2> QED  BY <2>1 DEF Above
<1>5. PICK tag : tag = TagAt(n + 1)'  OBVIOUS
<1>6. t \in Stream!Types /\ tag \in Stream!Tags(t, name)
  BY <1>1, <1>2, <1>3, <1>5, NewTag
<1>7. /\ n \in Nat /\ Len(Open) = n /\ \A k \in 1..n : Open[k] = TagAt(k)
      /\ Open \in Seq({TagAt(k) : k \in 1..n})
      /\ Open # <<>> => types # <<>> /\ Last(Open) = TagAt(n) /\ Last(types) = types[n]
  BY <1>1, OpenTags
<1>8. \A k \in 1..n : TagAt(k)' = TagAt(k)
  <2> SUFFICES ASSUME NEW k \in 1..n  PROVE TagAt(k)' = TagAt(k)
    OBVIOUS
  <2>1. types[k] \in Parents
    <3>1. k = n \/ k \in 1..(n - 1)  BY <1>7
    <3>2. types # <<>>  BY <1>1, <1>7
    <3>3. types[n] \in Parents  BY <1>1, <1>2, <3>2 DEF Last, Parents
    <3> QED  BY <1>1, <3>1, <3>3 DEF ParserInv, StackInv
  <2> QED  BY <1>1, <1>2, <1>3, <1>4, <2>1, TagKept
<1>9. Open' = Append(Open, tag)
  <2>1. PICK S : S = {TagAt(k) : k \in 1..n} \cup {tag}  OBVIOUS
  <2>2. Open \in Seq(S) /\ tag \in S
    <3>1. \A k \in 1..n : Open[k] \in S  BY <1>7, <2>1
    <3> QED  BY <1>7, <2>1, <3>1
  <2>3. /\ Append(Open, tag) \in Seq(S) /\ Len(Append(Open, tag)) = n + 1
        /\ Append(Open, tag)[n + 1] = tag
        /\ \A k \in 1..n : Append(Open, tag)[k] = Open[k]
    BY <1>7, <2>2, Pushed
  <2>4. \A k \in 1..(n + 1) : TagAt(k)' = Append(Open, tag)[k]
    <3>1. \A k \in 1..(n + 1) : k = n + 1 \/ k \in 1..n  BY <1>7
    <3> QED  BY <1>5, <1>7, <1>8, <2>3, <3>1
  <2> QED  BY <1>4, <2>3, <2>4, OpenAfter
<1>10. Shown' = <<"TAG_START", t, name>>
  <2>1. types \in Seq(Types) /\ names \in Seq(Names \cup {Unnamed})
    BY DEF ParserInv, TypeOK
  <2>2. Last(Append(types, t)) = t  BY <2>1, Pushed
  <2>3. Last(Append(names, name)) = name  BY <1>2, <2>1, Pushed
  <2>4. Last(types)' = t /\ Last(names)' = name  BY <1>3, <2>2, <2>3
  <2> QED  BY <1>3, <2>4 DEF Shown
<1>11. Open # <<>> => Stream!Last(Open).type = "compound"
  BY <1>2, <1>7, StreamNames DEF TagAt
<1> QED  BY <1>2, <1>6, <1>9, <1>10, <1>11 DEF Stream!StartNamed

LEMMA ElementAsPromised ==
  ASSUME ParserInv, ~corrupt', NEW t \in Types, NEW h \in Headers(t), StartElement(t, h)
  PROVE  ~AtEnd /\ Stream!StartElement
<1>1. PICK n : n = Len(types)  OBVIOUS
<1>2. /\ ~AtEnd /\ Pushes(t, h, Unnamed, Count) /\ Unnamed \in Names \cup {Unnamed}
  BY TagStarts, AboutToRead DEF StartElement
<1>3. /\ tag_ended' = FALSE /\ current_event' = "TAG_START" /\ ~corrupt
      /\ types' = Append(types, t) /\ names' = Append(names, Unnamed)
      /\ types # <<>> /\ Last(types) = "list" /\ Last(types) \in Counted
      /\ MoreLeft /\ Last(payload_types) = t /\ t # "end"
  BY DEF StartElement, PushPayload, InList, Counted
<1>4. /\ Len(types') = n + 1 /\ Keeps(n, Count)
  <2>1. Above(t, h, Unnamed, n) /\ Keeps(n, Count)  BY <1>1, <1>2, TagPushed
  <2> QED  BY <2>1 DEF Above
<1>5. PICK tag : tag = TagAt(n + 1)'  OBVIOUS
<1>6. tag \in Stream!Tags(t, Unnamed) /\ tag.type = t
  BY <1>1, <1>2, <1>3, <1>5, NewTag
<1>7. /\ n \in Nat /\ n \in 1..n /\ Open # <<>> /\ Last(Open) = TagAt(n)
      /\ Last(types) = types[n]
  BY <1>1, <1>3, OpenTags
<1>8. /\ LeftOf(n) > 0 /\ TagAt(n)' = [TagAt(n) EXCEPT !.left = @ - 1]
      /\ ElementsOf(n) = t
  BY <1>1, <1>2, <1>3, <1>4, TopCounts
<1>9. \A k \in 1..(n - 1) : TagAt(k)' = TagAt(k)
  BY <1>1, <1>2, <1>3, <1>4, BelowKept
<1>10. Open' = Append(Stream!Decrement, tag)
  <2>1. PICK T : T = {TagAt(k) : k \in 1..n} \cup {[TagAt(n) EXCEPT !.left = @ - 1]}  OBVIOUS
  <2>2. /\ Stream!Decrement \in Seq(T) /\ Len(Stream!Decrement) = n
        /\ \A k \in 1..(n - 1) : Stream!Decrement[k] = TagAt(k)
        /\ Stream!Decrement[n] = [TagAt(n) EXCEPT !.left = @ - 1]
    BY <1>1, <1>3, <2>1, DecrementedOpen
  <2>3. PICK S : S = T \cup {tag}  OBVIOUS
  <2>4. Stream!Decrement \in Seq(S) /\ tag \in S
    <3>1. \A k \in 1..n : Stream!Decrement[k] \in S  BY <2>2, <2>3
    <3> QED  BY <2>2, <2>3, <3>1
  <2>5. /\ Append(Stream!Decrement, tag) \in Seq(S)
        /\ Len(Append(Stream!Decrement, tag)) = n + 1
        /\ Append(Stream!Decrement, tag)[n + 1] = tag
        /\ \A k \in 1..n : Append(Stream!Decrement, tag)[k] = Stream!Decrement[k]
    BY <2>2, <2>4, Pushed
  <2>6. \A k \in 1..(n + 1) : TagAt(k)' = Append(Stream!Decrement, tag)[k]
    <3>1. \A k \in 1..(n + 1) : k = n + 1 \/ k = n \/ k \in 1..(n - 1)  BY <1>7
    <3>2. \A k \in 1..(n - 1) : k \in 1..n  BY <1>7
    <3> QED  BY <1>5, <1>7, <1>8, <1>9, <2>2, <2>5, <3>1, <3>2
  <2> QED  BY <1>4, <2>5, <2>6, OpenAfter
<1>11. Shown' = <<"TAG_START", tag.type, Unnamed>>
  <2>1. types \in Seq(Types) /\ names \in Seq(Names \cup {Unnamed})
    BY DEF ParserInv, TypeOK
  <2>2. Last(Append(types, t)) = t  BY <2>1, Pushed
  <2>3. Last(Append(names, Unnamed)) = Unnamed  BY <1>2, <2>1, Pushed
  <2>4. Last(types)' = t /\ Last(names)' = Unnamed  BY <1>3, <2>2, <2>3
  <2> QED  BY <1>3, <1>6, <2>4 DEF Shown
<1>12. Last(Open).type = "list" /\ Last(Open).left > 0 /\ Last(Open).elem = t
  BY <1>3, <1>7, <1>8 DEF TagAt
<1> QED  BY <1>2, <1>6, <1>7, <1>10, <1>11, <1>12, StreamNames DEF Stream!StartElement

LEMMA StreamGoes ==
  ASSUME ParserInv, Next
  PROVE  Stream!Goes
<1>1. offset' >= offset /\ length' = length /\ (corrupt => corrupt')
  <2>1. CASE CloseAtEnd \/ CloseScalar \/ CloseCompound \/ CloseListOfEnd \/ CloseList \/ CloseArray
    BY <2>1 DEF CloseAtEnd, CloseScalar, CloseCompound, CloseListOfEnd, CloseList, CloseArray,
                HandleTagEnd, dataVars, ParserInv, TypeOK
  <2>2. CASE DocumentEnd \/ ReadArray \/ ReadScalar \/ ReadUnknown \/ Throw
    BY <2>2 DEF DocumentEnd, ReadArray, ReadScalar, ReadUnknown, Throw, dataVars, ParserInv, TypeOK
  <2>3. ASSUME NEW t \in Types, NEW h \in Headers(t), NEW name,
               StartElement(t, h) \/ StartNamed(t, h, name)
        PROVE  offset' >= offset /\ length' = length /\ (corrupt => corrupt')
    <3>1. HeaderSize(t) \in {0, 1}  BY DEF HeaderSize
    <3>2. offset' = offset + HeaderSize(t) \/ offset' = offset + 1 + HeaderSize(t)
      BY <2>3 DEF StartElement, StartNamed
    <3>3. PushPayload(t, h) /\ UNCHANGED dataVars  BY <2>3 DEF StartElement, StartNamed
    <3>4. offset \in Int  BY ConstantsAssumption DEF ParserInv, TypeOK
    <3>5. offset' >= offset  BY <3>1, <3>2, <3>4
    <3>6. length' = length /\ (corrupt => corrupt')
      <4>1. corrupt' = (corrupt \/ "unknown" \in {t, h[1]} \/ (t = "list" /\ h[1] = "end" /\ h[2] > 0))
        BY <3>3 DEF PushPayload
      <4> QED  BY <3>3, <4>1 DEF dataVars
    <3> QED  BY <3>5, <3>6
  <2> QED  BY <2>1, <2>2, <2>3 DEF Next
<1>2. offset \in Int /\ length \in Int /\ offset' \in Int
  BY ParserStep, ConstantsAssumption DEF ParserInv, TypeOK
<1>3. AtEnd => AtEnd'  BY <1>1, <1>2 DEF AtEnd
<1> QED  BY <1>1, <1>3 DEF Stream!Goes

LEMMA StreamStep ==
  ASSUME ParserInv, [Next]_vars
  PROVE  [Stream!Next]_(Stream!vars)
<1>1. CASE Throw \/ UNCHANGED vars  BY <1>1, NothingSaid
<1>2. CASE Next /\ corrupt'  BY <1>2, StreamGoes DEF Stream!Next
<1>3. CASE Next /\ ~corrupt' /\ ~Throw
  <2>1. Stream!Goes /\ ~corrupt  BY <1>3, StreamGoes DEF Stream!Goes
  <2>2. CASE CloseAtEnd \/ CloseScalar \/ CloseCompound \/ CloseList \/ CloseArray
    BY <2>1, <2>2, ClosesAsPromised DEF Stream!Next
  <2>3. CASE CloseListOfEnd  BY <2>1, <2>3, ListOfEndCloses
  <2>4. CASE DocumentEnd  BY <2>1, <2>4, DocumentEndsAsPromised DEF Stream!Next
  <2>5. CASE ReadArray \/ ReadScalar \/ ReadUnknown
    <3>1. Stream!Datum  BY <2>1, <2>5, ReadsAsPromised
    <3>2. ~AtEnd  BY <2>5 DEF ReadArray, ReadScalar, ReadUnknown, Inside, Running
    <3> QED  BY <2>1, <3>1, <3>2 DEF Stream!Next
  <2>6. ASSUME NEW t \in Types, NEW h \in Headers(t), StartElement(t, h)
        PROVE  Stream!Next
    BY <1>3, <2>1, <2>6, ElementAsPromised DEF Stream!Next
  <2>7. ASSUME NEW t \in Types, NEW h \in Headers(t), NEW name \in Names, StartNamed(t, h, name)
        PROVE  Stream!Next
    BY <1>3, <2>1, <2>7, NamedAsPromised DEF Stream!Next
  <2> QED  BY <1>3, <2>2, <2>3, <2>4, <2>5, <2>6, <2>7 DEF Next
<1> QED  BY <1>1, <1>2, <1>3

LEMMA StreamInit == Init => Stream!Init
<1> SUFFICES ASSUME Init  PROVE  Stream!Init
  OBVIOUS
<1>1. ParserInv  BY ParserInit
<1>2. Open = <<>>  BY <1>1, OpenTags DEF Init
<1>3. Shown = <<"DOCUMENT_START">> /\ corrupt = FALSE  BY DEF Init, Shown
<1>4. AtEnd \in BOOLEAN  BY <1>1, ConstantsAssumption DEF AtEnd, ParserInv, TypeOK
<1> QED  BY <1>2, <1>3, <1>4 DEF Stream!Init

\* The parser gives the events of the document in the order of its tree: through its five
\* stacks it implements TagStream, for documents of any length and depth, whole or cut.
THEOREM ParserImplementsTagStream == Spec => ImplementsTagStream
<1>1. Spec => Init /\ [][Next]_vars /\ []ParserInv  BY ParserSafe, PTL DEF Spec
<1> QED  BY <1>1, StreamInit, StreamStep, PTL DEF ImplementsTagStream, Stream!Spec

-----------------------------------------------------------------------------
(* The XML of a document: each line that is open stands for an open tag.    *)

Lines == [indent : Int, kind : {"open", "data", "close"}, type : Types, name : Names \cup {Unnamed}]

Unclosed(ls, o) == \A k \in (o + 1)..Len(ls) : ls[k].indent > ls[o].indent

\* Each tag of the stack ts has its element, open and at its depth, ...
Opened(ls, ts) ==
  \A d \in 1..Len(ts) : \E o \in DOMAIN ls :
    /\ ls[o].kind = "open" /\ ls[o].type = ts[d] /\ ls[o].indent = d - 1 /\ Unclosed(ls, o)

\* ... and each element that is not closed yet its tag.
Accounted(ls, ts) ==
  \A o \in DOMAIN ls : ls[o].kind = "open" =>
    \/ \E c \in DOMAIN ls : Closes(ls, o, c)
    \/ /\ ls[o].indent + 1 \in 1..Len(ts) /\ ls[o].type = ts[ls[o].indent + 1] /\ Unclosed(ls, o)

Printed(ls, ts) ==
  /\ ls \in Seq(Lines) /\ ts \in Seq(Types)
  /\ DepthAfter(ls, Len(ls)) = Len(ts)
  /\ Nests(ls) /\ DataInPlace(ls) /\ Opened(ls, ts) /\ Accounted(ls, ts)

\* A line more leaves what was said of those before.
LEMMA LinesKept ==
  ASSUME NEW ls \in Seq(Lines), NEW l \in Lines
  PROVE  LET new == Append(ls, l)
             n == Len(ls)
         IN /\ new \in Seq(Lines) /\ n \in Nat /\ Len(new) = n + 1 /\ new[n + 1] = l
            /\ \A i \in 1..n : new[i] = ls[i]
            /\ \A o, i \in 1..n : IsIn(new, o, i) <=> IsIn(ls, o, i)
            /\ \A o, i \in 1..n : Closes(new, o, i) <=> Closes(ls, o, i)
            /\ \A i \in 0..n : DepthAfter(new, i) = DepthAfter(ls, i)
            /\ \A o \in 1..n : Unclosed(new, o) <=> Unclosed(ls, o) /\ l.indent > ls[o].indent
<1> DEFINE new == Append(ls, l)
           n == Len(ls)
<1>1. /\ new \in Seq(Lines) /\ n \in Nat /\ Len(new) = n + 1 /\ new[n + 1] = l
      /\ \A i \in 1..n : new[i] = ls[i]
  BY Pushed
<1>0. Len(ls) = n  OBVIOUS
<1> HIDE DEF new, n
<1>2. \A o, i \in 1..n : IsIn(new, o, i) <=> IsIn(ls, o, i)
  <2> SUFFICES ASSUME NEW o \in 1..n, NEW i \in 1..n  PROVE  IsIn(new, o, i) <=> IsIn(ls, o, i)
    OBVIOUS
  <2>1. \A k \in (o + 1)..(i - 1) : new[k] = ls[k]  BY <1>1
  <2> QED  BY <1>1, <2>1 DEF IsIn
<1>3. \A o, i \in 1..n : Closes(new, o, i) <=> Closes(ls, o, i)  BY <1>1, <1>2 DEF Closes
<1>4. \A i \in 0..n : DepthAfter(new, i) = DepthAfter(ls, i)  BY <1>1 DEF DepthAfter
<1>5. ASSUME NEW o \in 1..n
      PROVE  Unclosed(new, o) <=> Unclosed(ls, o) /\ l.indent > ls[o].indent
  <2>1. Unclosed(new, o) => Unclosed(ls, o) /\ l.indent > ls[o].indent
    <3>1. n + 1 \in (o + 1)..(n + 1) /\ \A k \in (o + 1)..n : k \in (o + 1)..(n + 1) /\ k \in 1..n
      BY <1>1
    <3> QED  BY <1>0, <1>1, <3>1 DEF Unclosed
  <2>2. Unclosed(ls, o) /\ l.indent > ls[o].indent => Unclosed(new, o)
    <3>1. \A k \in (o + 1)..(n + 1) : k = n + 1 \/ (k \in (o + 1)..n /\ k \in 1..n)  BY <1>1
    <3> QED  BY <1>0, <1>1, <3>1 DEF Unclosed
  <2> QED  BY <2>1, <2>2
<1> QED  BY <1>1, <1>2, <1>3, <1>4, <1>5 DEF new, n

\* What one line more has to bring along.
LEMMA LinePrinted ==
  ASSUME NEW ls \in Seq(Lines), NEW l \in Lines, NEW n, NEW new, n = Len(ls), new = Append(ls, l),
         Nests(ls), DataInPlace(ls),
         l.indent = DepthAfter(ls, n) - (IF l.kind = "close" THEN 1 ELSE 0),
         l.kind = "close" => \E o \in 1..n : Closes(new, o, n + 1),
         l.kind = "data" => \E o \in 1..n : IsIn(new, o, n + 1) /\ ls[o].indent = l.indent - 1
  PROVE  Nests(new) /\ DataInPlace(new)
<1>1. /\ new \in Seq(Lines) /\ n \in Nat /\ Len(new) = n + 1 /\ new[n + 1] = l
      /\ \A i \in 1..n : new[i] = ls[i]
      /\ \A o, i \in 1..n : IsIn(new, o, i) <=> IsIn(ls, o, i)
      /\ \A o, i \in 1..n : Closes(new, o, i) <=> Closes(ls, o, i)
      /\ \A i \in 0..n : DepthAfter(new, i) = DepthAfter(ls, i)
  BY LinesKept
<1>2. DOMAIN new = 1..(n + 1) /\ DOMAIN ls = 1..n /\ 1..n \subseteq 1..(n + 1)  BY <1>1
<1>3. ASSUME NEW i \in 1..(n + 1)
      PROVE  new[i].indent = DepthAfter(new, i - 1) - (IF new[i].kind = "close" THEN 1 ELSE 0)
  <2>1. CASE i = n + 1
    <3>1. i - 1 = n /\ n \in 0..n  BY <1>1, <2>1
    <3> QED  BY <1>1, <2>1, <3>1
  <2>2. CASE i \in 1..n
    <3>1. i - 1 \in 0..n  BY <1>1, <2>2
    <3> QED  BY <1>1, <1>2, <2>2, <3>1 DEF Nests
  <2> QED  BY <1>1, <2>1, <2>2
<1>4. ASSUME NEW c \in 1..(n + 1), new[c].kind = "close"
      PROVE  \E o \in 1..(n + 1) : Closes(new, o, c)
  <2>1. CASE c = n + 1  BY <1>1, <1>2, <1>4, <2>1
  <2>2. CASE c \in 1..n
    <3>1. ls[c].kind = "close"  BY <1>1, <1>4, <2>2
    <3>2. PICK o \in 1..n : Closes(ls, o, c)  BY <1>2, <2>2, <3>1 DEF Nests
    <3> QED  BY <1>1, <1>2, <2>2, <3>2
  <2> QED  BY <1>1, <2>1, <2>2
<1>5. ASSUME NEW i \in 1..(n + 1), new[i].kind = "data"
      PROVE  \E o \in 1..(n + 1) : IsIn(new, o, i) /\ new[o].indent = new[i].indent - 1
  <2>1. CASE i = n + 1
    <3>1. PICK o \in 1..n : IsIn(new, o, n + 1) /\ ls[o].indent = l.indent - 1
      BY <1>1, <1>5, <2>1
    <3> QED  BY <1>1, <1>2, <2>1, <3>1
  <2>2. CASE i \in 1..n
    <3>1. ls[i].kind = "data"  BY <1>1, <1>5, <2>2
    <3>2. PICK o \in 1..n : IsIn(ls, o, i) /\ ls[o].indent = ls[i].indent - 1
      BY <1>2, <2>2, <3>1 DEF DataInPlace
    <3> QED  BY <1>1, <1>2, <2>2, <3>2
  <2> QED  BY <1>1, <2>1, <2>2
<1>6. Nests(new)  BY <1>2, <1>3, <1>4 DEF Nests
<1>7. DataInPlace(new)  BY <1>2, <1>5 DEF DataInPlace
<1> QED  BY <1>6, <1>7

\* A tag starts, one line deeper than those that are open.
LEMMA OpenPrinted ==
  ASSUME NEW ls, NEW ts, Printed(ls, ts), NEW l \in Lines, l.kind = "open", l.indent = Len(ts)
  PROVE  Printed(Append(ls, l), Append(ts, l.type))
<1> DEFINE n == Len(ls)
           m == Len(ts)
           new == Append(ls, l)
           more == Append(ts, l.type)
<1>1. ls \in Seq(Lines) /\ ts \in Seq(Types) /\ l.type \in Types /\ DepthAfter(ls, n) = m
  BY DEF Printed, Lines
<1>2. /\ new \in Seq(Lines) /\ n \in Nat /\ Len(new) = n + 1 /\ new[n + 1] = l
      /\ \A i \in 1..n : new[i] = ls[i]
      /\ \A o, i \in 1..n : Closes(new, o, i) <=> Closes(ls, o, i)
      /\ \A o \in 1..n : Unclosed(new, o) <=> Unclosed(ls, o) /\ l.indent > ls[o].indent
  BY <1>1, LinesKept
<1>3. /\ more \in Seq(Types) /\ m \in Nat /\ Len(more) = m + 1 /\ more[m + 1] = l.type
      /\ \A d \in 1..m : more[d] = ts[d]
  BY <1>1, Pushed
<1>4. DOMAIN new = 1..(n + 1) /\ DOMAIN ls = 1..n /\ 1..n \subseteq 1..(n + 1) /\ n + 1 \in 1..(n + 1)
  BY <1>1, <1>2
<1> HIDE DEF new, more, n, m
<1>5. Nests(new) /\ DataInPlace(new)
  <2>1. l.indent = DepthAfter(ls, n) - (IF l.kind = "close" THEN 1 ELSE 0)  BY <1>1, <1>3 DEF m
  <2> QED  BY <1>1, <2>1, LinePrinted DEF Printed, n, new
<1>6. DepthAfter(new, Len(new)) = Len(more)  BY <1>2, <1>3 DEF DepthAfter, m
<1>7. Unclosed(new, n + 1)  BY <1>2 DEF Unclosed
<1>8. Opened(new, more)
  <2> SUFFICES ASSUME NEW d \in 1..(m + 1)
               PROVE  \E o \in 1..(n + 1) :
                        /\ new[o].kind = "open" /\ new[o].type = more[d]
                        /\ new[o].indent = d - 1 /\ Unclosed(new, o)
    BY <1>3, <1>4 DEF Opened
  <2>1. CASE d = m + 1
    <3>1. l.indent = d - 1  BY <1>3, <2>1 DEF m
    <3> QED  BY <1>2, <1>3, <1>4, <1>7, <2>1, <3>1
  <2>2. CASE d \in 1..m
    <3>1. PICK o \in 1..n : ls[o].kind = "open" /\ ls[o].type = ts[d] /\ ls[o].indent = d - 1 /\ Unclosed(ls, o)
      BY <1>4, <2>2 DEF Printed, Opened, m
    <3>2. l.indent > ls[o].indent  BY <1>3, <2>2, <3>1 DEF m
    <3> QED  BY <1>2, <1>3, <1>4, <2>2, <3>1, <3>2
  <2> QED  BY <1>3, <2>1, <2>2
<1>9. Accounted(new, more)
  <2> SUFFICES ASSUME NEW o \in 1..(n + 1), new[o].kind = "open"
               PROVE  \/ \E c \in 1..(n + 1) : Closes(new, o, c)
                      \/ /\ new[o].indent + 1 \in 1..(m + 1) /\ new[o].type = more[new[o].indent + 1]
                         /\ Unclosed(new, o)
    BY <1>3, <1>4 DEF Accounted
  <2>1. CASE o = n + 1
    <3>1. l.indent + 1 = m + 1  BY <1>3 DEF m
    <3> QED  BY <1>2, <1>3, <1>7, <2>1, <3>1
  <2>2. CASE o \in 1..n
    <3>1. ls[o].kind = "open" /\ new[o] = ls[o]  BY <1>2, <2>2
    <3>2. CASE \E c \in 1..n : Closes(ls, o, c)  BY <1>2, <1>4, <2>2, <3>2
    <3>3. CASE /\ ls[o].indent + 1 \in 1..m /\ ls[o].type = ts[ls[o].indent + 1] /\ Unclosed(ls, o)
      <4>0. ls[o].indent \in Int
        <5>1. ls[o] \in Lines  BY <1>1, <2>2 DEF n
        <5> QED  BY <5>1 DEF Lines
      <4>1. l.indent > ls[o].indent  BY <1>3, <3>3, <4>0 DEF m
      <4>2. ls[o].indent + 1 \in 1..(m + 1)  BY <1>3, <3>3
      <4> QED  BY <1>2, <1>3, <2>2, <3>1, <3>3, <4>1, <4>2
    <3> QED  BY <1>4, <2>2, <3>1, <3>2, <3>3 DEF Printed, Accounted, m
  <2> QED  BY <1>2, <2>1, <2>2
<1> QED  BY <1>2, <1>3, <1>5, <1>6, <1>8, <1>9 DEF Printed, new, more
\* A datum, in the element at the top.
LEMMA DatumPrinted ==
  ASSUME NEW ls, NEW ts, Printed(ls, ts), ts # <<>>,
         NEW l \in Lines, l.kind = "data", l.indent = Len(ts), l.type = Last(ts)
  PROVE  Printed(Append(ls, l), ts)
<1> DEFINE n == Len(ls)
           m == Len(ts)
           new == Append(ls, l)
<1>1. ls \in Seq(Lines) /\ ts \in Seq(Types) /\ DepthAfter(ls, n) = m  BY DEF Printed
<1>2. /\ new \in Seq(Lines) /\ n \in Nat /\ Len(new) = n + 1 /\ new[n + 1] = l
      /\ \A i \in 1..n : new[i] = ls[i]
      /\ \A o, i \in 1..n : Closes(new, o, i) <=> Closes(ls, o, i)
      /\ \A o \in 1..n : Unclosed(new, o) <=> Unclosed(ls, o) /\ l.indent > ls[o].indent
  BY <1>1, LinesKept
<1>3. m \in Nat \ {0} /\ Last(ts) = ts[m]  BY <1>1, Popped
<1>4. DOMAIN new = 1..(n + 1) /\ DOMAIN ls = 1..n /\ 1..n \subseteq 1..(n + 1)  BY <1>1, <1>2
<1>5. \A o \in 1..n : ls[o].indent \in Int
  <2> SUFFICES ASSUME NEW o \in 1..n  PROVE  ls[o].indent \in Int
    OBVIOUS
  <2>1. ls[o] \in Lines  BY <1>1
  <2> QED  BY <2>1 DEF Lines
<1> HIDE DEF new, n, m
<1>6. Nests(new) /\ DataInPlace(new)
  <2>1. l.indent = DepthAfter(ls, n) - (IF l.kind = "close" THEN 1 ELSE 0)  BY <1>1, <1>3 DEF m
  <2>2. PICK o \in 1..n : ls[o].kind = "open" /\ ls[o].type = ts[m] /\ ls[o].indent = m - 1 /\ Unclosed(ls, o)
    <3>1. m \in 1..Len(ts)  BY <1>3 DEF m
    <3> QED  BY <1>4, <3>1 DEF Printed, Opened
  <2>3. IsIn(new, o, n + 1)
    <3>1. \A k \in (o + 1)..n : k \in 1..n /\ ls[k].indent > ls[o].indent  BY <1>2, <2>2 DEF Unclosed, n
    <3>2. o < n + 1 /\ (n + 1) - 1 = n  BY <1>2
    <3> QED  BY <1>2, <1>3, <2>2, <3>1, <3>2 DEF IsIn
  <2>4. ls[o].indent = l.indent - 1  BY <2>2 DEF m
  <2> QED  BY <1>1, <2>1, <2>3, <2>4, LinePrinted DEF Printed, n, new
<1>7. DepthAfter(new, Len(new)) = Len(ts)  BY <1>2, <1>3 DEF DepthAfter, m
<1>8. Opened(new, ts)
  <2> SUFFICES ASSUME NEW d \in 1..m
               PROVE  \E o \in 1..(n + 1) :
                        /\ new[o].kind = "open" /\ new[o].type = ts[d]
                        /\ new[o].indent = d - 1 /\ Unclosed(new, o)
    BY <1>4 DEF Opened, m
  <2>1. PICK o \in 1..n : ls[o].kind = "open" /\ ls[o].type = ts[d] /\ ls[o].indent = d - 1 /\ Unclosed(ls, o)
    BY <1>4 DEF Printed, Opened, m
  <2>2. l.indent > ls[o].indent  BY <1>3, <2>1 DEF m
  <2> QED  BY <1>2, <1>4, <2>1, <2>2
<1>9. Accounted(new, ts)
  <2> SUFFICES ASSUME NEW o \in 1..(n + 1), new[o].kind = "open"
               PROVE  \/ \E c \in 1..(n + 1) : Closes(new, o, c)
                      \/ /\ new[o].indent + 1 \in 1..m /\ new[o].type = ts[new[o].indent + 1]
                         /\ Unclosed(new, o)
    BY <1>4 DEF Accounted, m
  <2>1. o \in 1..n  BY <1>2
  <2>2. ls[o].kind = "open" /\ new[o] = ls[o]  BY <1>2, <2>1
  <2>3. CASE \E c \in 1..n : Closes(ls, o, c)  BY <1>2, <1>4, <2>1, <2>3
  <2>4. CASE /\ ls[o].indent + 1 \in 1..m /\ ls[o].type = ts[ls[o].indent + 1] /\ Unclosed(ls, o)
    <3>1. l.indent > ls[o].indent  BY <1>3, <1>5, <2>1, <2>4 DEF m
    <3> QED  BY <1>2, <2>1, <2>2, <2>4, <3>1
  <2> QED  BY <1>4, <2>1, <2>2, <2>3, <2>4 DEF Printed, Accounted, m
<1> QED  BY <1>1, <1>2, <1>6, <1>7, <1>8, <1>9 DEF Printed, new

\* A tag ends: the line closes its element.
LEMMA ClosePrinted ==
  ASSUME NEW ls, NEW ts, Printed(ls, ts), ts # <<>>,
         NEW l \in Lines, l.kind = "close", l.indent = Len(ts) - 1, l.type = Last(ts)
  PROVE  Printed(Append(ls, l), Front(ts))
<1> DEFINE n == Len(ls)
           m == Len(ts)
           new == Append(ls, l)
           less == Front(ts)
<1>1. ls \in Seq(Lines) /\ ts \in Seq(Types) /\ DepthAfter(ls, n) = m  BY DEF Printed
<1>2. /\ new \in Seq(Lines) /\ n \in Nat /\ Len(new) = n + 1 /\ new[n + 1] = l
      /\ \A i \in 1..n : new[i] = ls[i]
      /\ \A o, i \in 1..n : Closes(new, o, i) <=> Closes(ls, o, i)
      /\ \A o \in 1..n : Unclosed(new, o) <=> Unclosed(ls, o) /\ l.indent > ls[o].indent
  BY <1>1, LinesKept
<1>3. /\ m \in Nat \ {0} /\ Last(ts) = ts[m] /\ less \in Seq(Types) /\ Len(less) = m - 1
      /\ \A d \in 1..(m - 1) : less[d] = ts[d]
  BY <1>1, Popped
<1>4. DOMAIN new = 1..(n + 1) /\ DOMAIN ls = 1..n /\ 1..n \subseteq 1..(n + 1) /\ n + 1 \in 1..(n + 1)
  BY <1>1, <1>2
<1>5. \A o \in 1..n : ls[o].indent \in Int
  <2> SUFFICES ASSUME NEW o \in 1..n  PROVE  ls[o].indent \in Int
    OBVIOUS
  <2>1. ls[o] \in Lines  BY <1>1
  <2> QED  BY <2>1 DEF Lines
<1> HIDE DEF new, n, m, less
\* Whatever is open at the top is closed by the line.
<1>6. ASSUME NEW o \in 1..n, ls[o].kind = "open", ls[o].type = ts[m], ls[o].indent = m - 1, Unclosed(ls, o)
      PROVE  Closes(new, o, n + 1)
  <2>1. \A k \in (o + 1)..n : k \in 1..n /\ ls[k].indent > ls[o].indent  BY <1>2, <1>6 DEF Unclosed, n
  <2>2. o < n + 1 /\ (n + 1) - 1 = n  BY <1>2
  <2>3. IsIn(new, o, n + 1)  BY <1>2, <1>3, <1>6, <2>1, <2>2 DEF IsIn
  <2> QED  BY <1>2, <1>6, <2>3 DEF Closes, m
<1>7. Nests(new) /\ DataInPlace(new)
  <2>1. l.indent = DepthAfter(ls, n) - (IF l.kind = "close" THEN 1 ELSE 0)  BY <1>1 DEF m
  <2>2. PICK o \in 1..n : ls[o].kind = "open" /\ ls[o].type = ts[m] /\ ls[o].indent = m - 1 /\ Unclosed(ls, o)
    <3>1. m \in 1..Len(ts)  BY <1>3 DEF m
    <3> QED  BY <1>4, <3>1 DEF Printed, Opened
  <2>3. Closes(new, o, n + 1)  BY <1>6, <2>2
  <2> QED  BY <1>1, <2>1, <2>3, LinePrinted DEF Printed, n, new
<1>8. DepthAfter(new, Len(new)) = Len(less)  BY <1>2, <1>3 DEF DepthAfter, m
<1>9. Opened(new, less)
  <2> SUFFICES ASSUME NEW d \in 1..(m - 1)
               PROVE  \E o \in 1..(n + 1) :
                        /\ new[o].kind = "open" /\ new[o].type = less[d]
                        /\ new[o].indent = d - 1 /\ Unclosed(new, o)
    BY <1>3, <1>4 DEF Opened
  <2>1. d \in 1..m  BY <1>3
  <2>2. PICK o \in 1..n : ls[o].kind = "open" /\ ls[o].type = ts[d] /\ ls[o].indent = d - 1 /\ Unclosed(ls, o)
    BY <1>4, <2>1 DEF Printed, Opened, m
  <2>3. l.indent > ls[o].indent  BY <1>3, <2>2 DEF m
  <2> QED  BY <1>2, <1>3, <1>4, <2>2, <2>3
<1>10. Accounted(new, less)
  <2> SUFFICES ASSUME NEW o \in 1..(n + 1), new[o].kind = "open"
               PROVE  \/ \E c \in 1..(n + 1) : Closes(new, o, c)
                      \/ /\ new[o].indent + 1 \in 1..(m - 1) /\ new[o].type = less[new[o].indent + 1]
                         /\ Unclosed(new, o)
    BY <1>3, <1>4 DEF Accounted
  <2>1. o \in 1..n  BY <1>2
  <2>2. ls[o].kind = "open" /\ new[o] = ls[o]  BY <1>2, <2>1
  <2>3. CASE \E c \in 1..n : Closes(ls, o, c)  BY <1>2, <1>4, <2>1, <2>3
  <2>4. CASE /\ ls[o].indent + 1 \in 1..m /\ ls[o].type = ts[ls[o].indent + 1] /\ Unclosed(ls, o)
    <3>1. CASE ls[o].indent + 1 = m
      <4>1. ls[o].indent \in Int /\ m \in Int  BY <1>3, <1>5, <2>1
      <4>2. ls[o].indent = m - 1  BY <3>1, <4>1
      <4>3. ls[o].type = ts[m]  BY <2>4, <3>1
      <4> QED  BY <1>4, <1>6, <2>1, <2>2, <2>4, <4>2, <4>3
    <3>2. CASE ls[o].indent + 1 # m
      <4>1. ls[o].indent + 1 \in 1..(m - 1)  BY <1>3, <1>5, <2>1, <2>4, <3>2
      <4>2. l.indent > ls[o].indent  BY <1>3, <1>5, <2>1, <4>1 DEF m
      <4> QED  BY <1>2, <1>3, <2>1, <2>2, <2>4, <4>1, <4>2
    <3> QED  BY <3>1, <3>2
  <2> QED  BY <1>4, <2>1, <2>2, <2>3, <2>4 DEF Printed, Accounted, m
<1> QED  BY <1>2, <1>3, <1>7, <1>8, <1>9, <1>10 DEF Printed, new, less
\* What an event does to the open tags.
Started == current_event' = "TAG_START" /\ \E t \in Types : types' = Append(types, t)
Told == current_event' = "DATA" /\ types # <<>> /\ types' = types
Ended ==
  /\ current_event' = "TAG_END" /\ types # <<>> /\ types' = Front(types)
  /\ last_tag' = <<Last(types), Last(names)>>
DocumentEnded == current_event' = "DOCUMENT_END" /\ types = <<>> /\ types' = types

LEMMA EventOfStep ==
  ASSUME ParserInv, Next, ~Throw
  PROVE  ~thrown' /\ (Started \/ Told \/ Ended \/ DocumentEnded)
<1>1. CASE CloseAtEnd
  <2>1. types # <<>>  BY <1>1, TagClosesAtEnd
  <2> QED  BY <1>1, <2>1 DEF CloseAtEnd, HandleTagEnd, Ended
<1>2. CASE DocumentEnd
  <2>1. types = <<>>
    <3>1. types \in Seq(Types) /\ Len(types) = Len(names) /\ names = <<>>
      BY <1>2 DEF DocumentEnd, ParserInv, TypeOK, StackInv
    <3>2. Len(types) = 0  BY <3>1
    <3> QED  BY <3>1, <3>2, EmptySeq
  <2> QED  BY <1>2, <2>1 DEF DocumentEnd, DocumentEnded
<1>3. CASE CloseScalar \/ CloseCompound \/ CloseList \/ CloseArray
  <2>1. types # <<>>  BY <1>3, ClosesWell
  <2>2. HandleTagEnd /\ ~thrown
    BY <1>3 DEF CloseScalar, CloseCompound, CloseList, CloseArray, AtHeader, Inside, Running
  <2> QED  BY <2>1, <2>2 DEF HandleTagEnd, Ended
<1>4. CASE CloseListOfEnd
  <2>1. types # <<>> /\ HandleTagEnd /\ ~thrown  BY <1>4 DEF CloseListOfEnd, InList, Inside, Running
  <2> QED  BY <2>1 DEF HandleTagEnd, Ended
<1>5. ASSUME NEW t \in Types, NEW h \in Headers(t), NEW name, StartElement(t, h) \/ StartNamed(t, h, name)
      PROVE  ~thrown' /\ Started
  <2>1. ~thrown /\ UNCHANGED thrown
    BY <1>5 DEF StartElement, StartNamed, AtHeader, Inside, Running
  <2>2. current_event' = "TAG_START" /\ types' = Append(types, t)
    BY <1>5 DEF StartElement, StartNamed
  <2> QED  BY <2>1, <2>2 DEF Started
<1>6. CASE ReadArray \/ ReadScalar \/ ReadUnknown
  <2>1. ~thrown /\ types # <<>>
    BY <1>6 DEF ReadArray, ReadScalar, ReadUnknown, Inside, Running, In
  <2>2. UNCHANGED <<thrown, types>> /\ current_event' = "DATA"
    BY <1>6 DEF ReadArray, ReadScalar, ReadUnknown
  <2> QED  BY <2>1, <2>2 DEF Told
<1> QED  BY <1>1, <1>2, <1>3, <1>4, <1>5, <1>6 DEF Next

\* What was printed is about the tags that are open, and at the end there are none.
OutputInv ==
  /\ ParserInv /\ Printed(lines, types) /\ indent = Len(types)
  /\ current_event = "DOCUMENT_END" => types = <<>> /\ AtEnd

LEMMA OutputStep ==
  ASSUME OutputInv, [Next /\ Output]_<<vars, xmlVars>>
  PROVE  OutputInv'
<1>1. ParserInv /\ ParserInv' /\ [Next]_vars  BY ParserStep DEF OutputInv
<1>2. /\ Printed(lines, types) /\ indent = Len(types)
      /\ types \in Seq(Types) /\ names \in Seq(Names \cup {Unnamed}) /\ Len(names) = Len(types)
      /\ types' \in Seq(Types) /\ names' \in Seq(Names \cup {Unnamed}) /\ Len(names') = Len(types')
  BY <1>1 DEF OutputInv, ParserInv, TypeOK, StackInv
<1>3. CASE UNCHANGED <<vars, xmlVars>>
  BY <1>1, <1>2, <1>3 DEF OutputInv, vars, dataVars, xmlVars, AtEnd
<1>4. CASE Throw /\ Output
  <2>1. thrown' /\ UNCHANGED <<types, current_event, offset, length>>
    BY <1>4 DEF Throw, dataVars
  <2>2. UNCHANGED xmlVars  BY <1>4, <2>1 DEF Output, NoLine
  <2> QED  BY <1>1, <1>2, <2>1, <2>2 DEF OutputInv, xmlVars, AtEnd
<1>5. CASE Next /\ ~Throw /\ Output
  <2>1. ~thrown' /\ (Started \/ Told \/ Ended \/ DocumentEnded)  BY <1>1, <1>5, EventOfStep
  <2>2. CASE Started
    <3>1. PICK t \in Types : types' = Append(types, t)  BY <2>2 DEF Started
    <3>2. types' # <<>> /\ Last(types') = t /\ Len(types') = Len(types) + 1 /\ Len(types) \in Nat
      BY <1>2, <3>1, Pushed
    <3>3. Last(names') \in Names \cup {Unnamed}
      <4>1. names' # <<>>  BY <1>2, <3>2
      <4> QED  BY <1>2, <4>1, Popped
    <3>4. current_event' = "TAG_START" /\ OpenElement  BY <1>5, <2>1, <2>2
      DEF Started, Output, NoLine, OpenElement, Contents, CloseElement
    <3>5. Shown' = <<"TAG_START", t, Last(names')>>  BY <3>2, <3>4 DEF Shown
    <3>6. PICK l : l = LineOf(indent, "open")  OBVIOUS
    <3>7. l = [indent |-> Len(types), kind |-> "open", type |-> t, name |-> Last(names')]
      BY <1>2, <3>5, <3>6 DEF LineOf
    <3>8. l \in Lines /\ l.kind = "open" /\ l.indent = Len(types) /\ l.type = t
      BY <3>2, <3>3, <3>7 DEF Lines
    <3>9. lines' = Append(lines, l) /\ indent' = Len(types')
      BY <1>2, <3>2, <3>4, <3>6 DEF OpenElement
    <3>10. Printed(Append(lines, l), Append(types, t))  BY <1>2, <3>8, OpenPrinted
    <3> QED  BY <1>1, <3>1, <3>4, <3>9, <3>10 DEF OutputInv
  <2>3. CASE Told
    <3>1. current_event' = "DATA" /\ types # <<>> /\ types' = types /\ Contents
      BY <1>5, <2>1, <2>3 DEF Told, Output, NoLine, OpenElement, Contents, CloseElement
    <3>2. Shown' = <<"DATA", Last(types), Last(names')>>  BY <3>1 DEF Shown
    <3>3. PICK l : l = LineOf(indent, "data")  OBVIOUS
    <3>4. l = [indent |-> Len(types), kind |-> "data", type |-> Last(types), name |-> ""]
      BY <1>2, <3>2, <3>3 DEF LineOf
    <3>5. Last(types) \in Types /\ Len(types) \in Nat  BY <1>2, <3>1, Popped
    <3>6. l \in Lines /\ l.kind = "data" /\ l.indent = Len(types) /\ l.type = Last(types)
      <4>1. "" \in Names \cup {Unnamed}  BY DEF Unnamed
      <4>2. Len(types) \in Int  BY <3>5
      <4> QED  BY <3>4, <3>5, <4>1, <4>2 DEF Lines
    <3>7. lines' = Append(lines, l) /\ indent' = Len(types')  BY <1>2, <3>1, <3>3 DEF Contents
    <3>8. Printed(Append(lines, l), types)  BY <1>2, <3>1, <3>6, DatumPrinted
    <3> QED  BY <1>1, <3>1, <3>7, <3>8 DEF OutputInv
  <2>4. CASE Ended
    <3>1. current_event' = "TAG_END" /\ types # <<>> /\ types' = Front(types) /\ CloseElement
      BY <1>5, <2>1, <2>4 DEF Ended, Output, NoLine, OpenElement, Contents, CloseElement
    <3>2. Shown' = <<"TAG_END", Last(types), Last(names)>>
      <4>1. Shown' = <<"TAG_END">> \o <<Last(types), Last(names)>>  BY <2>4, <3>1 DEF Ended, Shown
      <4> QED  BY <4>1, EndEvent
    <3>3. PICK l : l = LineOf(indent - 1, "close")  OBVIOUS
    <3>4. l = [indent |-> Len(types) - 1, kind |-> "close", type |-> Last(types), name |-> ""]
      BY <1>2, <3>2, <3>3 DEF LineOf
    <3>5. Last(types) \in Types /\ Len(types) \in Nat \ {0} /\ Len(types') = Len(types) - 1
      BY <1>2, <3>1, Popped
    <3>6. l \in Lines /\ l.kind = "close" /\ l.indent = Len(types) - 1 /\ l.type = Last(types)
      <4>1. "" \in Names \cup {Unnamed}  BY DEF Unnamed
      <4>2. Len(types) - 1 \in Int  BY <3>5
      <4> QED  BY <3>4, <3>5, <4>1, <4>2 DEF Lines
    <3>7. lines' = Append(lines, l) /\ indent' = Len(types')  BY <1>2, <3>1, <3>3, <3>5 DEF CloseElement
    <3>8. Printed(Append(lines, l), Front(types))  BY <1>2, <3>1, <3>6, ClosePrinted
    <3> QED  BY <1>1, <3>1, <3>7, <3>8 DEF OutputInv
  <2>5. CASE DocumentEnded
    <3>1. /\ current_event' = "DOCUMENT_END" /\ types = <<>> /\ types' = types /\ UNCHANGED xmlVars
      BY <1>5, <2>1, <2>5 DEF DocumentEnded, Output, NoLine, OpenElement, Contents, CloseElement
    <3>2. AtEnd'
      <4>1. DocumentEnd
        BY <1>5, <3>1 DEF Next, CloseAtEnd, CloseScalar, CloseCompound, StartElement, StartNamed,
                          CloseListOfEnd, CloseList, CloseArray, ReadArray, ReadScalar, ReadUnknown,
                          HandleTagEnd
      <4> QED  BY <4>1 DEF DocumentEnd, dataVars, AtEnd
    <3> QED  BY <1>1, <1>2, <3>1, <3>2 DEF OutputInv, xmlVars
  <2> QED  BY <2>1, <2>2, <2>3, <2>4, <2>5
<1> QED  BY <1>3, <1>4, <1>5

LEMMA OutputStarts == Init /\ OutputInit => OutputInv
<1> SUFFICES ASSUME Init, OutputInit  PROVE  OutputInv
  OBVIOUS
<1>1. ParserInv  BY ParserInit
<1>2. types = <<>> /\ lines = <<>> /\ indent = 0 /\ current_event = "DOCUMENT_START"
  BY DEF Init, OutputInit
<1>3. /\ <<>> \in Seq(Lines) /\ <<>> \in Seq(Types) /\ Len(<<>>) = 0 /\ DOMAIN <<>> = {}
  OBVIOUS
<1>4. Printed(<<>>, <<>>)
  BY <1>3 DEF Printed, DepthAfter, Nests, DataInPlace, Opened, Accounted
<1> QED  BY <1>1, <1>2, <1>3, <1>4 DEF OutputInv

LEMMA OutputNests == OutputInv => XmlIsTheDocument
<1> SUFFICES ASSUME OutputInv  PROVE  XmlIsTheDocument
  OBVIOUS
<1>1. Nests(lines) /\ DataInPlace(lines) /\ Accounted(lines, types)  BY DEF OutputInv, Printed
<1>2. ASSUME current_event = "DOCUMENT_END"
      PROVE  AllClosed(lines)
  <2>1. types = <<>>  BY <1>2 DEF OutputInv
  <2>2. 1..Len(types) = {}  BY <2>1
  <2> QED  BY <1>1, <2>2 DEF Accounted, AllClosed
<1> QED  BY <1>1, <1>2 DEF XmlIsTheDocument

\* Whatever the document, whole, cut off or corrupt, the XML that is printed of it nests,
\* with each datum in the element of its tag, and is complete when the document ends.
THEOREM XmlIsWhole == OutputSpec => []XmlIsTheDocument
<1>1. OutputInv /\ [Next /\ Output]_<<vars, xmlVars>> => OutputInv'  BY OutputStep
<1> QED  BY <1>1, OutputStarts, OutputNests, PTL DEF OutputSpec
=============================================================================
