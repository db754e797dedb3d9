------------------------- MODULE ChunkFieldsProofs -------------------------
(***************************************************************************)
(* Proofs about ChunkFields, for every document, vocabulary and order of    *)
(* requests: that the loops follow the tags, and that what is found is what *)
(* the document has.                                                        *)
(***************************************************************************)
EXTENDS ChunkFields, SequenceTheorems, TLAPS

-----------------------------------------------------------------------------
(* The invariant. *)

Holders == {"list", "compound"}

\* What Tags() says of a tag, as long as it is open.
TagSet ==
  {tag \in [type : Stream!Types, name : Names \cup {Stream!Unnamed},
            elem : Stream!Types \cup {"end"}, left : Nat] :
     /\ tag.type \in Scalars => tag.left \in {0, 1}
     /\ tag.type = "list" /\ tag.left > 0 => tag.elem \in Stream!Types}

\* The tags that are open, and the names that each of them has used.
TagTypes == open \in Seq(TagSet) /\ taken \in Seq(SUBSET Names) /\ Len(taken) = Len(open)

\* A history of a document has these parts, whatever their values.
IsDocument(d) ==
  /\ d = [seen |-> d.seen, last_update |-> d.last_update, data_version |-> d.data_version,
          biomes |-> d.biomes, sections |-> d.sections, y |-> d.y,
          section |-> d.section, cut |-> d.cut]
  /\ d.cut \in BOOLEAN

\* The types, and a document that was cut has no more than the ends of its tags to come.
TypeInv ==
  /\ TagTypes
  /\ finished \in BOOLEAN /\ corrupt = FALSE
  /\ level \in Nat /\ (place \in {"discard", "skip", "skipInEntry"} => level > 0)
  /\ tag_structure \in Seq(Names \cup {Stream!Unnamed})
  /\ IsDocument(doc)
  /\ doc.cut => finished
  /\ ~doc.cut /\ finished => open = <<>>

InSections3 == place \notin InFields \cup InValue \cup {"failed"}

\* The way of the structure, also in a document that was cut.
HeightInv ==
  /\ place \in {"idle", "fields"} =>
       Len(tag_structure) >= Len(open) + (IF event[1] = "TAG_END" THEN 1
                                          ELSE IF event[1] = "TAG_START" THEN 0 - 1 ELSE 0)
  /\ place \in InValue => Len(tag_structure) >= Len(open)
  /\ InSections3 => Len(tag_structure) = 3 /\ Len(open) <= DepthOf

\* The tags that hold another are lists and compounds, and what the last event says of
\* the one at the top.
TreeInv ==
  /\ \A i \in 1..(Len(open) - 1) : open[i].type \in Holders
  /\ event[1] \in {"TAG_START", "DATA"} =>
       /\ open # <<>>
       /\ event = <<event[1], Last(open).type, Last(open).name>>
       /\ Last(open).type \in Scalars => Last(open).left = IF event[1] = "DATA" THEN 0 ELSE 1
  /\ event[1] = "DATA" => Last(open).type \notin Holders
  /\ event[1] = "TAG_END" => event[3] \in Names \cup {Stream!Unnamed}

AtPath(o, field) == NamesOf(o) = PathOf(field)
InSection(o) == Len(o) >= 3 /\ o[1].name = Stream!Unnamed /\ o[2].name = "Level" /\ o[3].name = "Sections"
TopIs(k, type, name) == open[k].type = type /\ open[k].name = name

FieldsPlaceInv ==
  place \in InFields =>
    /\ tag_structure = Known
    /\ current_field(IF event[1] = "TAG_START" THEN Front(TagNames) ELSE TagNames) = {}
    /\ place = "idle" => event[1] \in {"DOCUMENT_START", "TAG_END"}
    /\ place = "missing" => event[1] = "DOCUMENT_END"
    /\ place # "idle" => asked \notin loaded_fields

ValueInv ==
  /\ place \in InValue => tag_structure = TagNames /\ event[1] \in {"TAG_START", "DATA"}
  /\ place \in {"LastUpdate", "DataVersion"} => AtPath(open, place) /\ event[1] = "TAG_START"
  /\ place = "value" =>
       /\ AtPath(open, "LastUpdate") \/ AtPath(open, "DataVersion")
       /\ event[1] = "DATA" /\ Last(open).type \in Scalars
  /\ place = "biomes" => AtPath(open, "Biomes") /\ Last(open).type = "ints"

SectionInv ==
  InSections3 =>
    /\ tag_structure = SectionsPath /\ InSection(open) /\ Len(open) = DepthOf
    /\ place \in {"firstY", "firstYEnd", "y", "yEnd"} => TopIs(5, "byte", "Y")
    /\ place \in {"firstY", "y", "name"} => event[1] = "TAG_START"
    /\ place \in {"firstYEnd", "yEnd", "nameEnd"} => event[1] = "DATA"
    /\ place = "states" => TopIs(5, "longs", "BlockStates")
    /\ place = "palette" => TopIs(5, "list", "Palette")
    /\ place \in {"entry", "name", "nameEnd", "skipInEntry"} => TopIs(5, "list", "Palette")
    /\ place \in {"name", "nameEnd"} => TopIs(7, "string", "Name")
    /\ place = "skipInEntry" => level > 0 /\ ~TopIs(7, "string", "Name")
    /\ place = "skip" => level > 0 /\ open[5].name \notin {"BlockStates", "Palette", "Y"}
    /\ place = "discard" =>
         /\ level > 0
         /\ Len(open) >= 5 /\ open[5].name = "Y" => Len(open) = 5 /\ event[1] = "DATA" /\ open[5].type = "byte"
    /\ place \in {"discard", "firstY", "firstYEnd"} => open[4].type = "compound" /\ "Y" \in taken[4]

\* What is kept is what the document has.
KeptInv ==
  place # "failed" =>
    /\ doc.seen = loaded_fields \cup
         IF event[1] = "TAG_START" /\ place = "fields" THEN {f \in Fields : AtPath(open, f)} ELSE {}
    /\ last_update = doc.last_update /\ data_version = doc.data_version
    /\ biomes = doc.biomes /\ sections = doc.sections

ElementInv ==
  /\ place \in {"first", "firstY"} => doc.y = NoY /\ doc.section = Empty
  /\ place = "first" => y = NoY
  /\ place \in {"firstYEnd", "after", "states", "palette", "entry", "name", "nameEnd",
                "skipInEntry", "y", "yEnd", "skip"} => y = doc.y
  /\ InSections3 /\ place \notin {"elements", "first", "discard"} => section = doc.section
  /\ place = "discard" => ~(doc.y < SectionCount)

WholeInv == FieldsPlaceInv /\ ValueInv /\ SectionInv /\ KeptInv /\ ElementInv

\* A document is whole up to its last event, but for the ends that follow where it was cut.
Whole == ~doc.cut \/ event[1] \in {"TAG_START", "DATA"}

ChunkInv == TypeInv /\ TreeInv /\ HeightInv /\ (Whole => WholeInv)

-----------------------------------------------------------------------------
(* Sequences, paths and what is below Sections. *)

LEMMA Pushed ==
  ASSUME NEW S, NEW s \in Seq(S), NEW x \in S
  PROVE  /\ Append(s, x) \in Seq(S) /\ Len(s) \in Nat
         /\ Len(Append(s, x)) = Len(s) + 1 /\ Append(s, x) # <<>>
         /\ Last(Append(s, x)) = x /\ Append(s, x)[Len(s) + 1] = x
         /\ \A k \in 1..Len(s) : Append(s, x)[k] = s[k]
  BY DEF Last

LEMMA Popped ==
  ASSUME NEW S, NEW s \in Seq(S), s # <<>>
  PROVE  /\ Front(s) \in Seq(S) /\ Len(s) \in Nat \ {0}
         /\ Len(Front(s)) = Len(s) - 1 /\ Last(s) = s[Len(s)] /\ Last(s) \in S
         /\ \A k \in 1..(Len(s) - 1) : Front(s)[k] = s[k]
<1> DEFINE n == Len(s) - 1
<1>1. Len(s) \in Nat \ {0} /\ n \in Nat /\ \A i \in 1..n : s[i] \in S /\ 1 + i - 1 = i
  BY EmptySeq, LenProperties
<1> HIDE DEF n
<1>2. /\ SubSeq(s, 1, n) \in Seq(S)
      /\ Len(SubSeq(s, 1, n)) = IF 1 <= n THEN n - 1 + 1 ELSE 0
      /\ \A i \in 1..(n - 1 + 1) : SubSeq(s, 1, n)[i] = s[1 + i - 1]
  BY <1>1, SubSeqProperties
<1>3. n - 1 + 1 = n  BY <1>1
<1>4. Len(SubSeq(s, 1, n)) = n /\ \A i \in 1..n : SubSeq(s, 1, n)[i] = s[i]
  BY <1>1, <1>2, <1>3
<1> QED  BY <1>1, <1>2, <1>4 DEF Front, Last, n

\* The name of an element of a list is that of no tag which is looked for.
LEMMA UnnamedIsOther == Stream!Unnamed # "Y"
  BY Zenon DEF Stream!Unnamed

NameSet == Names \cup {Stream!Unnamed}

LEMMA NamesTyped ==
  ASSUME NEW o \in Seq(TagSet)
  PROVE  /\ NamesOf(o) \in Seq(NameSet) /\ Len(NamesOf(o)) = Len(o) /\ Len(o) \in Nat
         /\ \A i \in 1..Len(o) : NamesOf(o)[i] = o[i].name
<1>1. Len(o) \in Nat /\ \A i \in 1..Len(o) : o[i] \in TagSet  OBVIOUS
<1>2. \A i \in 1..Len(o) : o[i].name \in NameSet  BY <1>1 DEF TagSet, NameSet
<1> QED  BY <1>1, <1>2 DEF NamesOf

LEMMA TwoParts ==
  ASSUME NEW s \in Seq(NameSet), NEW a, NEW b
  PROVE  s = <<a, b>> <=> Len(s) = 2 /\ s[1] = a /\ s[2] = b
  OBVIOUS

LEMMA ThreeParts ==
  ASSUME NEW s \in Seq(NameSet), NEW a, NEW b, NEW c
  PROVE  s = <<a, b, c>> <=> Len(s) = 3 /\ s[1] = a /\ s[2] = b /\ s[3] = c
  OBVIOUS

\* Which tags are at the path of a field.
IsAt(o, field) ==
  IF field = "DataVersion" THEN Len(o) = 2 /\ o[1].name = Stream!Unnamed /\ o[2].name = field
  ELSE Len(o) = 3 /\ o[1].name = Stream!Unnamed /\ o[2].name = "Level" /\ o[3].name = field

LEMMA PathIs ==
  ASSUME NEW o \in Seq(TagSet), NEW field
  PROVE  AtPath(o, field) <=> IsAt(o, field)
<1> DEFINE n == NamesOf(o)
<1>1. n \in Seq(NameSet) /\ Len(n) = Len(o) /\ \A i \in 1..Len(o) : n[i] = o[i].name
  BY NamesTyped
<1> HIDE DEF n
<1>2. CASE field = "DataVersion"
  <2>1. \A a, b : n = <<a, b>> <=> Len(n) = 2 /\ n[1] = a /\ n[2] = b  BY <1>1, TwoParts
  <2>2. Len(o) = 2 => n[1] = o[1].name /\ n[2] = o[2].name  BY <1>1
  <2>3. AtPath(o, field) <=> n = <<Stream!Unnamed, field>>  BY <1>2 DEF AtPath, PathOf, n
  <2>4. IsAt(o, field) <=> Len(n) = 2 /\ n[1] = Stream!Unnamed /\ n[2] = field
    BY <1>1, <1>2, <2>2 DEF IsAt
  <2> QED  BY <2>1, <2>3, <2>4
<1>3. CASE field # "DataVersion"
  <2>1. \A a, b, c : n = <<a, b, c>> <=> Len(n) = 3 /\ n[1] = a /\ n[2] = b /\ n[3] = c
    BY <1>1, ThreeParts
  <2>2. Len(o) = 3 => n[1] = o[1].name /\ n[2] = o[2].name /\ n[3] = o[3].name  BY <1>1
  <2>3. AtPath(o, field) <=> n = <<Stream!Unnamed, "Level", field>>
    BY <1>3 DEF AtPath, PathOf, n
  <2>4. IsAt(o, field) <=>
          Len(n) = 3 /\ n[1] = Stream!Unnamed /\ n[2] = "Level" /\ n[3] = field
    BY <1>1, <1>3, <2>2 DEF IsAt
  <2> QED  BY <2>1, <2>3, <2>4
<1> QED  BY <1>2, <1>3

LEMMA BelowIs ==
  ASSUME NEW o \in Seq(TagSet)
  PROVE  /\ InSection(o) => /\ Len(Below(NamesOf(o))) = Len(o) - 3
                            /\ \A i \in 1..(Len(o) - 3) : Below(NamesOf(o))[i] = o[i + 3].name
         /\ ~InSection(o) => Below(NamesOf(o)) = <<>>
<1> DEFINE p == NamesOf(o)
<1>1. p \in Seq(NameSet) /\ Len(p) = Len(o) /\ Len(o) \in Nat /\ \A i \in 1..Len(o) : p[i] = o[i].name
  BY NamesTyped
<1> HIDE DEF p
<1>2. ASSUME Len(p) > 3
      PROVE  SubSeq(p, 1, 3) = SectionsPath <=> InSection(o)
  <2> DEFINE q == SubSeq(p, 1, 3)
  <2>1. q \in Seq(NameSet) /\ Len(q) = 3 /\ \A i \in 1..3 : q[i] = p[i]
    BY <1>1, <1>2
  <2> HIDE DEF q
  <2>2. q = <<q[1], q[2], q[3]>>  BY <2>1
  <2>3. q[1] = p[1] /\ q[2] = p[2] /\ q[3] = p[3]  BY <2>1
  <2>4. q = SectionsPath <=> InSection(o)
    BY <1>1, <1>2, <2>2, <2>3 DEF SectionsPath, PathOf, InSection
  <2> QED  BY <2>4 DEF q
<1>3. ASSUME Len(p) > 3
      PROVE  /\ Len(SubSeq(p, 4, Len(p))) = Len(p) - 3
             /\ \A i \in 1..(Len(p) - 3) : SubSeq(p, 4, Len(p))[i] = p[i + 3]
  BY <1>1, <1>3
<1>4. CASE Len(p) > 3 /\ InSection(o)
  <2>1. Below(p) = SubSeq(p, 4, Len(p))  BY <1>2, <1>4 DEF Below
  <2> QED  BY <1>1, <1>3, <1>4, <2>1 DEF p
<1>5. CASE Len(p) = 3 /\ InSection(o)
  BY <1>1, <1>5 DEF Below, p
<1>6. CASE ~InSection(o)
  BY <1>1, <1>2, <1>6 DEF Below, p
<1>7. InSection(o) => Len(p) >= 3  BY <1>1 DEF InSection
<1> QED  BY <1>1, <1>4, <1>5, <1>6, <1>7

\* current_field() of a path below which there is no field.
LEMMA CurrentIs ==
  ASSUME NEW o \in Seq(TagSet)
  PROVE  current_field(NamesOf(o)) =
           IF Len(o) < 2 \/ o[1].name # Stream!Unnamed THEN {}
           ELSE IF o[2].name = "DataVersion" THEN {"DataVersion"}
           ELSE IF Len(o) >= 3 /\ o[2].name = "Level"
                THEN {"Sections", "LastUpdate", "Biomes"} \cap {o[3].name} ELSE {}
  BY NamesTyped DEF current_field

-----------------------------------------------------------------------------
(* One event of the parser: what it does to the tags that are open. *)

SameTags(k) == \A i \in 1..k : open'[i].type = open[i].type /\ open'[i].name = open[i].name

\* A tag starts.  Those that are open know its name now.
Starting ==
  /\ Len(open') = Len(open) + 1 /\ SameTags(Len(open))
  /\ event' = <<"TAG_START", open'[Len(open')].type, open'[Len(open')].name>>
  /\ open'[Len(open')].type \in Scalars => open'[Len(open')].left = 1
  /\ open # <<>> =>
       /\ open[Len(open)].type \in Holders
       /\ open[Len(open)].type = "list" => event'[3] = Stream!Unnamed
       /\ open[Len(open)].type = "compound" =>
            event'[3] \notin taken[Len(open)] /\ event'[3] \in taken'[Len(open)]
  /\ \A i \in 1..Len(open) : taken[i] \subseteq taken'[i]

Telling ==
  /\ open # <<>> /\ Len(open') = Len(open) /\ SameTags(Len(open))
  /\ event' = <<"DATA", open[Len(open)].type, open[Len(open)].name>>
  /\ open[Len(open)].type \notin Holders
  /\ open[Len(open)].type \in Scalars => open[Len(open)].left = 1 /\ open'[Len(open)].left = 0
  /\ taken' = taken
  /\ datum' \in Values[event'[2]]

\* A tag ends: everything of it was told, unless the document was cut.
Ending ==
  /\ open # <<>> /\ Len(open') = Len(open) - 1 /\ SameTags(Len(open'))
  /\ event' = <<"TAG_END", open[Len(open)].type, open[Len(open)].name>>
  /\ open[Len(open)].left = 0 \/ finished
  /\ \A i \in 1..Len(open') : taken'[i] = taken[i]

Closing == open = <<>> /\ open' = <<>> /\ finished /\ event' = <<"DOCUMENT_END">>

LEMMA StreamNames == \A s : Stream!Last(s) = Last(s) /\ Stream!Front(s) = Front(s)
  BY DEF Last, Stream!Last, Front, Stream!Front

LEMMA TagsTyped ==
  ASSUME NEW t \in Stream!Types, NEW name \in NameSet, NEW tag \in Stream!Tags(t, name)
  PROVE  tag \in TagSet /\ tag.type = t /\ tag.name = name /\ (t \in Scalars => tag.left = 1)
<1>1. \A n \in Lengths : Stream!AtLeastZero(n) \in Nat  BY TypesAssumption DEF Stream!AtLeastZero
<1>2. Stream!LeftOf(t) \subseteq Nat /\ (t \in Scalars => Stream!LeftOf(t) = {1})
  BY <1>1 DEF Stream!LeftOf, Stream!Stated
<1>3. "list" \in Stream!Types /\ "list" \notin Scalars  BY TypesAssumption DEF Stream!Types
<1>4. CASE tag \in {[type |-> t, name |-> name, elem |-> e, left |-> n] :
                      e \in IF t = "list" THEN Stream!Types ELSE {"end"}, n \in Stream!LeftOf(t)}
  <2>1. PICK e \in IF t = "list" THEN Stream!Types ELSE {"end"}, n \in Stream!LeftOf(t) :
          tag = [type |-> t, name |-> name, elem |-> e, left |-> n]
    BY <1>4
  <2>2. e \in Stream!Types \cup {"end"} /\ (t = "list" => e \in Stream!Types) /\ n \in Nat
    BY <1>2, <2>1
  <2>3. t \in Scalars => n = 1  BY <1>2
  <2> QED  BY <2>1, <2>2, <2>3 DEF TagSet, NameSet
<1>5. CASE tag \in {[type |-> t, name |-> name, elem |-> "end", left |-> 0] : u \in {t} \cap {"list"}}
  <2>1. t = "list" /\ tag = [type |-> t, name |-> name, elem |-> "end", left |-> 0]  BY <1>5
  <2> QED  BY <1>3, <2>1 DEF TagSet, NameSet
<1> QED  BY <1>4, <1>5 DEF Stream!Tags

LEMMA Decremented ==
  ASSUME open \in Seq(TagSet), open # <<>>, Last(open).left > 0
  PROVE  /\ Stream!Decrement \in Seq(TagSet) /\ Len(Stream!Decrement) = Len(open)
         /\ Len(open) \in Nat \ {0} /\ Last(open) = open[Len(open)]
         /\ \A i \in 1..Len(open) : /\ Stream!Decrement[i].type = open[i].type
                                    /\ Stream!Decrement[i].name = open[i].name
         /\ Stream!Decrement[Len(open)].left = open[Len(open)].left - 1
<1> DEFINE n == Len(open)
           top == open[n]
           less == [top EXCEPT !.left = @ - 1]
<1>1. n \in Nat \ {0} /\ Last(open) = top /\ top \in TagSet /\ \A i \in 1..n : open[i] \in TagSet
  BY Popped DEF Last
<1>2. less \in TagSet /\ less.type = top.type /\ less.name = top.name /\ less.left = top.left - 1
  <2>1. /\ top \in [type : Stream!Types, name : Names \cup {Stream!Unnamed},
                    elem : Stream!Types \cup {"end"}, left : Nat]
        /\ top.type \in Scalars => top.left \in {0, 1}
        /\ top.type = "list" /\ top.left > 0 => top.elem \in Stream!Types
    BY <1>1 DEF TagSet
  <2>2. top.left \in Nat /\ top.left > 0  BY <1>1, <2>1
  <2> HIDE DEF top
  <2>3. /\ less \in [type : Stream!Types, name : Names \cup {Stream!Unnamed},
                     elem : Stream!Types \cup {"end"}, left : Nat]
        /\ less.type = top.type /\ less.name = top.name /\ less.elem = top.elem
        /\ less.left = top.left - 1
    BY <2>1, <2>2
  <2> HIDE DEF less
  <2>4. less.type \in Scalars => less.left \in {0, 1}  BY <2>1, <2>2, <2>3
  <2>5. less.type = "list" /\ less.left > 0 => less.elem \in Stream!Types  BY <2>1, <2>2, <2>3
  <2> QED  BY <2>3, <2>4, <2>5 DEF TagSet
<1>3. Stream!Decrement = [open EXCEPT ![n] = less]  BY DEF Stream!Decrement
<1> HIDE DEF less, top
<1>4. /\ Stream!Decrement \in Seq(TagSet) /\ Len(Stream!Decrement) = n
      /\ Stream!Decrement[n] = less /\ \A i \in 1..n : i # n => Stream!Decrement[i] = open[i]
  BY <1>1, <1>2, <1>3
<1>5. ASSUME NEW i \in 1..n
      PROVE  Stream!Decrement[i].type = open[i].type /\ Stream!Decrement[i].name = open[i].name
  <2>1. CASE i = n  BY <1>2, <1>4, <2>1 DEF top
  <2>2. CASE i # n  BY <1>4, <2>2
  <2> QED  BY <2>1, <2>2
<1> QED  BY <1>1, <1>2, <1>4, <1>5 DEF top

LEMMA StartsNamed ==
  ASSUME TagTypes, Stream!StartNamed, Bounded
  PROVE  Starting /\ TagTypes'
<1>1. PICK t \in Stream!Types, name \in Names : \E tag \in Stream!Tags(t, name) :
        open' = Append(open, tag) /\ event' = <<"TAG_START", t, name>>
  BY DEF Stream!StartNamed
<1>2. PICK tag \in Stream!Tags(t, name) : open' = Append(open, tag) /\ event' = <<"TAG_START", t, name>>
  BY <1>1
<1>3. tag \in TagSet /\ tag.type = t /\ tag.name = name /\ (t \in Scalars => tag.left = 1)
  BY TagsTyped DEF NameSet
<1>4. /\ open' \in Seq(TagSet) /\ Len(open) \in Nat /\ Len(open') = Len(open) + 1
      /\ open'[Len(open) + 1] = tag /\ \A k \in 1..Len(open) : open'[k] = open[k]
  BY <1>2, <1>3, Pushed DEF TagTypes
<1>5. open # <<>> => /\ Last(open) = open[Len(open)] /\ Last(open).type = "compound"
                     /\ Len(open) \in Nat \ {0}
  <2>1. open \in Seq(TagSet)  BY DEF TagTypes
  <2>2. open # <<>> => Last(open).type = "compound"  BY StreamNames, Zenon DEF Stream!StartNamed
  <2> QED  BY <2>1, <2>2, Popped
<1>6. event'[1] = "TAG_START" /\ event'[3] = name /\ event'[2] = t  BY <1>2
<1>7. ~Element  BY <1>5 DEF Element
<1>8. IF taken = <<>> THEN taken' = <<{}>>
      ELSE /\ event'[3] \notin Last(taken)
           /\ taken' = Append([taken EXCEPT ![Len(taken)] = @ \cup {event'[3]}], {})
  BY <1>6, <1>7 DEF Bounded
<1>9. /\ taken' \in Seq(SUBSET Names) /\ Len(taken') = Len(open) + 1
      /\ \A i \in 1..Len(open) : taken[i] \subseteq taken'[i]
      /\ open # <<>> => name \notin taken[Len(open)] /\ name \in taken'[Len(open)]
  <2>1. CASE open = <<>>
    <3>1. Len(open) = 0 /\ taken = <<>>  BY <2>1, <1>4 DEF TagTypes
    <3>2. taken' = <<{}>>  BY <1>8, <3>1
    <3>3. <<{}>> \in Seq(SUBSET Names) /\ Len(<<{}>>) = 1  OBVIOUS
    <3> QED  BY <2>1, <3>1, <3>2, <3>3
  <2>2. CASE open # <<>>
    <3> DEFINE n == Len(open)
               more == [taken EXCEPT ![n] = @ \cup {name}]
    <3>1. n \in Nat \ {0} /\ Len(taken) = n /\ taken # <<>>  BY <1>5, <2>2 DEF TagTypes
    <3>2. Last(taken) = taken[n] /\ taken[n] \in SUBSET Names
      <4>1. taken \in Seq(SUBSET Names)  BY DEF TagTypes
      <4> QED  BY <3>1, <4>1 DEF Last
    <3> HIDE DEF n
    <3>3. /\ more \in Seq(SUBSET Names) /\ Len(more) = n /\ more[n] = taken[n] \cup {name}
          /\ \A i \in 1..n : i # n => more[i] = taken[i]
      BY <3>1, <3>2 DEF TagTypes
    <3>4. taken' = Append(more, {}) /\ name \notin taken[n]  BY <1>6, <1>8, <3>1, <3>2
    <3> HIDE DEF more
    <3>5. /\ taken' \in Seq(SUBSET Names) /\ Len(taken') = n + 1
          /\ \A i \in 1..n : taken'[i] = more[i]
      BY <3>3, <3>4, Pushed
    <3>6. \A i \in 1..n : taken[i] \subseteq taken'[i]  BY <3>3, <3>5
    <3>7. name \in taken'[n]  BY <3>1, <3>3, <3>5
    <3> QED  BY <3>4, <3>5, <3>6, <3>7 DEF n
  <2> QED  BY <2>1, <2>2
<1>10. SameTags(Len(open))  BY <1>4 DEF SameTags
<1>11. open # <<>> => open[Len(open)].type = "compound" /\ "compound" # "list"  BY <1>5
<1>12. event' = <<"TAG_START", open'[Len(open')].type, open'[Len(open')].name>>
  BY <1>2, <1>3, <1>4
<1>13. Starting  BY <1>3, <1>4, <1>6, <1>9, <1>10, <1>11, <1>12 DEF Starting, Holders
<1> QED  BY <1>4, <1>9, <1>13 DEF TagTypes

LEMMA StartsElement ==
  ASSUME TagTypes, Stream!StartElement, Bounded
  PROVE  Starting /\ TagTypes'
<1> DEFINE n == Len(open)
           less == Stream!Decrement
<1>1. /\ open # <<>> /\ Last(open).type = "list" /\ Last(open).left > 0
      /\ Last(open) = open[n] /\ n \in Nat \ {0} /\ open[n] \in TagSet
      /\ less \in Seq(TagSet) /\ Len(less) = n
      /\ \A i \in 1..n : less[i].type = open[i].type /\ less[i].name = open[i].name
  <2>1. open \in Seq(TagSet) /\ open # <<>> /\ Last(open).type = "list" /\ Last(open).left > 0
    BY StreamNames, Zenon DEF TagTypes, Stream!StartElement
  <2>2. Last(open) = open[n] /\ n \in Nat \ {0} /\ Last(open) \in TagSet  BY <2>1, Popped
  <2> QED  BY <2>1, <2>2, Decremented
<1> HIDE DEF n, less
<1>2. PICK tag \in Stream!Tags(Last(open).elem, Stream!Unnamed) :
        open' = Append(less, tag) /\ event' = <<"TAG_START", tag.type, Stream!Unnamed>>
  BY StreamNames, Zenon DEF Stream!StartElement, less
<1>3. Last(open).elem \in Stream!Types  BY <1>1 DEF TagSet
<1>4. /\ tag \in TagSet /\ tag.name = Stream!Unnamed /\ (tag.type \in Scalars => tag.left = 1)
  BY <1>3, TagsTyped DEF NameSet
<1>5. /\ open' \in Seq(TagSet) /\ Len(open') = n + 1
      /\ open'[n + 1] = tag /\ \A k \in 1..n : open'[k] = less[k]
  BY <1>1, <1>2, <1>4, Pushed
<1>6. event'[1] = "TAG_START" /\ event'[3] = Stream!Unnamed /\ event'[2] = tag.type  BY <1>2
<1>7. taken' = Append(taken, {})  BY <1>1, <1>6 DEF Bounded, Element
<1>8. /\ taken' \in Seq(SUBSET Names) /\ Len(taken') = n + 1
      /\ \A i \in 1..n : taken'[i] = taken[i]
  BY <1>1, <1>7, Pushed DEF TagTypes, n
<1>9. SameTags(n)  BY <1>1, <1>5 DEF SameTags
<1>10. open[n].type = "list" /\ "list" # "compound"  BY <1>1
<1>11. event' = <<"TAG_START", open'[Len(open')].type, open'[Len(open')].name>>
  BY <1>2, <1>4, <1>5
<1>12. Starting
  BY <1>1, <1>4, <1>5, <1>6, <1>8, <1>9, <1>10, <1>11 DEF Starting, Holders, n
<1> QED  BY <1>5, <1>8, <1>12 DEF TagTypes, n

LEMMA TellsDatum ==
  ASSUME TagTypes, Stream!Datum, Bounded,
         datum' \in IF event'[1] = "DATA" THEN Values[event'[2]]
                    ELSE IF finished' THEN UNION {Values[t] : t \in Scalars} ELSE {Null}
  PROVE  Telling /\ TagTypes'
<1> DEFINE n == Len(open)
           less == Stream!Decrement
<1>1. /\ open # <<>> /\ Last(open).type \in Scalars \cup Arrays /\ Last(open).left > 0
      /\ Last(open) = open[n] /\ n \in Nat \ {0} /\ open[n] \in TagSet
      /\ less \in Seq(TagSet) /\ Len(less) = n
      /\ \A i \in 1..n : less[i].type = open[i].type /\ less[i].name = open[i].name
      /\ less[n].left = open[n].left - 1
  <2>1. /\ open \in Seq(TagSet) /\ open # <<>> /\ Last(open).left > 0
        /\ Last(open).type \in Scalars \cup Arrays
    BY StreamNames, Zenon DEF TagTypes, Stream!Datum
  <2>2. Last(open) = open[n] /\ n \in Nat \ {0} /\ Last(open) \in TagSet  BY <2>1, Popped
  <2> QED  BY <2>1, <2>2, Decremented
<1>2. open' = less /\ event' = <<"DATA", Last(open).type, Last(open).name>>
  BY StreamNames, Zenon DEF Stream!Datum, less
<1> HIDE DEF n, less
<1>3. event'[1] = "DATA" /\ event'[2] = open[n].type /\ event'[3] = open[n].name  BY <1>1, <1>2
<1>4. taken' = taken  BY <1>3 DEF Bounded
<1>5. open[n].type \notin Holders  BY <1>1, TypesAssumption DEF Holders
<1>6. open[n].type \in Scalars => open[n].left = 1 /\ open'[n].left = 0
  BY <1>1, <1>2 DEF TagSet
<1>7. SameTags(n)  BY <1>1, <1>2 DEF SameTags
<1>8. datum' \in Values[event'[2]]  BY <1>3
<1>9. Telling  BY <1>1, <1>2, <1>4, <1>5, <1>6, <1>7, <1>8 DEF Telling, n
<1> QED  BY <1>1, <1>2, <1>4, <1>9 DEF TagTypes, n

LEMMA EndsTag ==
  ASSUME TagTypes, Stream!End, Bounded
  PROVE  Ending /\ TagTypes'
<1> DEFINE n == Len(open)
<1>1. /\ open # <<>> /\ Last(open) = open[n] /\ n \in Nat \ {0}
      /\ open' = Front(open) /\ open' \in Seq(TagSet) /\ Len(open') = n - 1
      /\ \A i \in 1..(n - 1) : open'[i] = open[i]
      /\ event' = <<"TAG_END", open[n].type, open[n].name>>
      /\ open[n].left = 0 \/ finished
  <2>1. open \in Seq(TagSet)  BY DEF TagTypes
  <2>2. /\ open # <<>> /\ open' = Front(open) /\ (Last(open).left = 0 \/ finished)
        /\ event' = <<"TAG_END", Last(open).type, Last(open).name>>
    BY StreamNames, Zenon DEF Stream!End
  <2>3. /\ Last(open) = open[n] /\ n \in Nat \ {0} /\ Front(open) \in Seq(TagSet)
        /\ Len(Front(open)) = n - 1 /\ \A i \in 1..(n - 1) : Front(open)[i] = open[i]
    <3>1. open # <<>>  BY <2>2
    <3> QED  BY <2>1, <3>1, Popped
  <2>4. event' = <<"TAG_END", open[n].type, open[n].name>> /\ (open[n].left = 0 \/ finished)
    <3>1. Last(open) = open[n]  BY <2>3
    <3> QED  BY <2>2, <3>1, Zenon
  <2>5. open' = Front(open) /\ open # <<>>  BY <2>2
  <2> QED  BY <2>3, <2>4, <2>5
<1>2. taken' = Front(taken)
  <2>1. event'[1] = "TAG_END"  BY <1>1
  <2> QED  BY <2>1 DEF Bounded
<1>3. taken # <<>> /\ Len(taken) = n /\ taken \in Seq(SUBSET Names)  BY <1>1 DEF TagTypes
<1>4. /\ taken' \in Seq(SUBSET Names) /\ Len(taken') = n - 1
      /\ \A i \in 1..(n - 1) : taken'[i] = taken[i]
  BY <1>2, <1>3, Popped
<1> HIDE DEF n
<1>5. SameTags(Len(open'))  BY <1>1 DEF SameTags
<1> QED  BY <1>1, <1>4, <1>5 DEF Ending, TagTypes, n

LEMMA DocumentCloses ==
  ASSUME TagTypes, Stream!DocumentEnd, Bounded
  PROVE  Closing /\ TagTypes'
<1>1. event' = <<"DOCUMENT_END">> /\ open' = open /\ open = <<>> /\ finished  BY DEF Stream!DocumentEnd
<1>2. taken' = taken
  <2>1. event'[1] = "DOCUMENT_END"  BY <1>1
  <2> QED  BY <2>1 DEF Bounded
<1> QED  BY <1>1, <1>2 DEF Closing, TagTypes

\* One call of next().  When a document was cut, only ends come.
LEMMA ReadIs ==
  ASSUME TagTypes, Read
  PROVE  /\ TagTypes'
         /\ (~finished /\ (Starting \/ Telling)) \/ Ending \/ Closing
         /\ finished' \in BOOLEAN /\ corrupt' = FALSE /\ (finished => finished')
         /\ open' = <<>> => finished'
         /\ doc' = [Told(doc, event', open', datum') EXCEPT !.cut = @ \/ (finished' /\ open' # <<>>)]
<1>1. /\ corrupt' = FALSE /\ finished' \in BOOLEAN /\ Stream!Next /\ Bounded
      /\ open' = <<>> => finished'
      /\ datum' \in IF event'[1] = "DATA" THEN Values[event'[2]]
                    ELSE IF finished' THEN UNION {Values[t] : t \in Scalars} ELSE {Null}
      /\ doc' = [Told(doc, event', open', datum') EXCEPT !.cut = @ \/ (finished' /\ open' # <<>>)]
  BY DEF Read
<1>2. Stream!Goes /\ ( (~finished /\ (Stream!StartNamed \/ Stream!StartElement \/ Stream!Datum))
                       \/ Stream!End \/ Stream!DocumentEnd )
  BY <1>1, Zenon DEF Stream!Next
<1>3. TagTypes' /\ ((~finished /\ (Starting \/ Telling)) \/ Ending \/ Closing)
  BY <1>1, <1>2, StartsNamed, StartsElement, TellsDatum, EndsTag, DocumentCloses, Zenon
<1>4. finished => finished'  BY <1>2 DEF Stream!Goes
<1> QED  BY <1>1, <1>3, <1>4

-----------------------------------------------------------------------------
(* What the document says of itself with an event. *)

\* The parts of doc that are not those of the element of Sections at hand.
FieldsSame ==
  /\ doc'.last_update = doc.last_update /\ doc'.data_version = doc.data_version
  /\ doc'.biomes = doc.biomes

\* Doc after the step, but for cut.
Tells == doc' = [Told(doc, event', open', datum') EXCEPT !.cut = @ \/ (finished' /\ open' # <<>>)]

LEMMA ToldKeeps ==
  ASSUME NEW d, IsDocument(d), NEW ev, NEW o, NEW v
  PROVE  IsDocument(Told(d, ev, o, v)) /\ Told(d, ev, o, v).cut = d.cut
<1>1. IsDocument(WithDatum(d, NamesOf(o), ev[2], v)) /\ WithDatum(d, NamesOf(o), ev[2], v).cut = d.cut
  BY DEF IsDocument, WithDatum
<1>2. CASE ev[1] = "DATA"  BY <1>1, <1>2 DEF Told
<1>3. CASE ev[1] # "DATA"  BY <1>3 DEF Told, IsDocument
<1> QED  BY <1>2, <1>3

LEMMA DocKept ==
  ASSUME IsDocument(doc), Tells, finished' \in BOOLEAN
  PROVE  /\ IsDocument(doc')
         /\ doc'.cut <=> doc.cut \/ (finished' /\ open' # <<>>)
<1> DEFINE told == Told(doc, event', open', datum')
<1>1. IsDocument(told) /\ told.cut = doc.cut  BY ToldKeeps
<1>2. doc' = [told EXCEPT !.cut = @ \/ (finished' /\ open' # <<>>)]  BY DEF Tells
<1> HIDE DEF told
<1>3. (told.cut \/ (finished' /\ open' # <<>>)) \in BOOLEAN  BY <1>1 DEF IsDocument
<1>4. doc'.cut = (told.cut \/ (finished' /\ open' # <<>>))  BY <1>1, <1>2 DEF IsDocument
<1>5. IsDocument(doc')  BY <1>1, <1>2, <1>3 DEF IsDocument
<1> QED  BY <1>1, <1>4, <1>5, Zenon

LEMMA DocStarts ==
  ASSUME IsDocument(doc), Tells, open' \in Seq(TagSet), event'[1] = "TAG_START"
  PROVE  /\ FieldsSame /\ doc'.sections = doc.sections
         /\ doc'.seen = doc.seen \cup {f \in Fields : AtPath(open', f)}
         /\ doc'.y = IF InSection(open') /\ Len(open') = 4 THEN NoY ELSE doc.y
         /\ doc'.section = IF InSection(open') /\ Len(open') = 4 THEN Empty ELSE doc.section
<1> DEFINE told == Told(doc, event', open', datum')
           element == Len(Below(NamesOf(open'))) = 1
<1>1. element <=> InSection(open') /\ Len(open') = 4
  <2>1. CASE InSection(open')
    <3>1. Len(Below(NamesOf(open'))) = Len(open') - 3  BY <2>1, BelowIs
    <3>2. Len(open') \in Nat  OBVIOUS
    <3> QED  BY <2>1, <3>1, <3>2
  <2>2. CASE ~InSection(open')
    <3>1. Len(Below(NamesOf(open'))) = 0  BY <2>2, BelowIs
    <3> QED  BY <2>2, <3>1
  <2> QED  BY <2>1, <2>2
<1>2. told = [doc EXCEPT !.seen = @ \cup {f \in Fields : AtPath(open', f)},
                         !.y = IF element THEN NoY ELSE @,
                         !.section = IF element THEN Empty ELSE @]
  BY DEF Told, AtPath
<1>3. doc' = [told EXCEPT !.cut = @ \/ (finished' /\ open' # <<>>)]  BY DEF Tells
<1> HIDE DEF element, told
<1>4. /\ told.last_update = doc.last_update /\ told.data_version = doc.data_version
      /\ told.biomes = doc.biomes /\ told.sections = doc.sections
      /\ told.seen = doc.seen \cup {f \in Fields : AtPath(open', f)}
      /\ told.y = IF element THEN NoY ELSE doc.y
      /\ told.section = IF element THEN Empty ELSE doc.section
      /\ IsDocument(told)
  BY <1>2 DEF IsDocument
<1>5. /\ doc'.last_update = told.last_update /\ doc'.data_version = told.data_version
      /\ doc'.biomes = told.biomes /\ doc'.sections = told.sections /\ doc'.seen = told.seen
      /\ doc'.y = told.y /\ doc'.section = told.section
  BY <1>3, <1>4 DEF IsDocument
<1> QED  BY <1>1, <1>4, <1>5 DEF FieldsSame

LEMMA DocEnds ==
  ASSUME IsDocument(doc), Tells, open' \in Seq(TagSet), event'[1] = "TAG_END"
  PROVE  /\ FieldsSame /\ doc'.seen = doc.seen
         /\ doc'.sections = IF AtPath(open', "Sections") THEN Stored(doc.sections, doc.y, doc.section)
                            ELSE doc.sections
         /\ ~AtPath(open', "Sections") => doc'.y = doc.y /\ doc'.section = doc.section
<1> DEFINE told == Told(doc, event', open', datum')
           what == Stored(doc.sections, doc.y, doc.section)
<1>1. told = IF AtPath(open', "Sections")
             THEN [doc EXCEPT !.sections = what, !.y = NoY, !.section = Empty] ELSE doc
  BY DEF Told, AtPath, SectionsPath
<1>2. doc' = [told EXCEPT !.cut = @ \/ (finished' /\ open' # <<>>)]  BY DEF Tells
<1> HIDE DEF told, what
<1>3. /\ told.last_update = doc.last_update /\ told.data_version = doc.data_version
      /\ told.biomes = doc.biomes /\ told.seen = doc.seen
      /\ told.sections = IF AtPath(open', "Sections") THEN what ELSE doc.sections
      /\ ~AtPath(open', "Sections") => told.y = doc.y /\ told.section = doc.section
      /\ IsDocument(told)
  BY <1>1 DEF IsDocument
<1>4. /\ doc'.last_update = told.last_update /\ doc'.data_version = told.data_version
      /\ doc'.biomes = told.biomes /\ doc'.sections = told.sections /\ doc'.seen = told.seen
      /\ doc'.y = told.y /\ doc'.section = told.section
  BY <1>2, <1>3 DEF IsDocument
<1> QED  BY <1>3, <1>4 DEF FieldsSame, what

LEMMA DocCloses ==
  ASSUME IsDocument(doc), Tells, event'[1] = "DOCUMENT_END"
  PROVE  /\ FieldsSame /\ doc'.seen = doc.seen /\ doc'.sections = doc.sections
         /\ doc'.y = doc.y /\ doc'.section = doc.section
<1>1. Told(doc, event', open', datum') = doc  BY DEF Told
<1>2. doc' = [doc EXCEPT !.cut = @ \/ (finished' /\ open' # <<>>)]  BY <1>1 DEF Tells
<1> QED  BY <1>2 DEF IsDocument, FieldsSame

\* A datum is a field's, or its tag lies below an element of Sections.
DataAt(k, name) == InSection(open') /\ Len(open') = k /\ open'[5].name = name

LEMMA DocTells ==
  ASSUME IsDocument(doc), Tells, open' \in Seq(TagSet), event'[1] = "DATA"
  PROVE  /\ doc'.seen = doc.seen /\ doc'.sections = doc.sections
         /\ doc'.last_update = IF AtPath(open', "LastUpdate") THEN datum' ELSE doc.last_update
         /\ doc'.data_version = IF AtPath(open', "DataVersion") THEN datum' ELSE doc.data_version
         /\ doc'.biomes = IF AtPath(open', "Biomes") THEN Append(doc.biomes, datum') ELSE doc.biomes
         /\ doc'.y = IF DataAt(5, "Y") THEN datum' ELSE doc.y
         /\ doc'.section =
              IF DataAt(5, "BlockStates") THEN [doc.section EXCEPT !.states = Append(@, datum')]
              ELSE IF DataAt(7, "Palette") /\ open'[7].name = "Name" /\ event'[2] = "string"
              THEN [doc.section EXCEPT !.palette = Append(@, datum')]
              ELSE doc.section
<1> DEFINE told == Told(doc, event', open', datum')
           path == NamesOf(open')
           below == Below(path)
           named == DataAt(7, "Palette") /\ open'[7].name = "Name" /\ event'[2] = "string"
<1>1. doc' = [told EXCEPT !.cut = @ \/ (finished' /\ open' # <<>>)]  BY DEF Tells
<1>2. told = WithDatum(doc, path, event'[2], datum')  BY DEF Told
<1>3. /\ AtPath(open', "LastUpdate") <=> path = PathOf("LastUpdate")
      /\ AtPath(open', "DataVersion") <=> path = PathOf("DataVersion")
      /\ AtPath(open', "Biomes") <=> path = PathOf("Biomes")
  BY DEF AtPath
<1>4. /\ ~(AtPath(open', "LastUpdate") /\ AtPath(open', "DataVersion"))
      /\ ~(AtPath(open', "LastUpdate") /\ AtPath(open', "Biomes"))
      /\ ~(AtPath(open', "DataVersion") /\ AtPath(open', "Biomes"))
      /\ AtPath(open', "LastUpdate") \/ AtPath(open', "DataVersion") \/ AtPath(open', "Biomes") =>
           ~InSection(open')
  BY PathIs DEF IsAt, InSection
<1>5. /\ DataAt(5, "Y") <=> Len(below) = 2 /\ below[2] = "Y"
      /\ DataAt(5, "BlockStates") <=> Len(below) = 2 /\ below[2] = "BlockStates"
      /\ named <=> /\ Len(below) = 4 /\ below[2] = "Palette" /\ below[4] = "Name"
                   /\ event'[2] = "string"
  <2>1. CASE InSection(open')
    <3>1. Len(below) = Len(open') - 3 /\ \A i \in 1..(Len(open') - 3) : below[i] = open'[i + 3].name
      BY <2>1, BelowIs
    <3>2. Len(open') \in Nat  OBVIOUS
    <3> HIDE DEF below
    <3>3. Len(below) = 2 <=> Len(open') = 5  BY <3>1, <3>2
    <3>4. Len(below) = 4 <=> Len(open') = 7  BY <3>1, <3>2
    <3>5. Len(open') \in {5, 7} => below[2] = open'[5].name  BY <3>1
    <3>6. Len(open') = 7 => below[4] = open'[7].name  BY <3>1
    <3> QED  BY <2>1, <3>3, <3>4, <3>5, <3>6 DEF DataAt
  <2>2. CASE ~InSection(open')
    <3>1. Len(below) = 0  BY <2>2, BelowIs
    <3> QED  BY <2>2, <3>1 DEF DataAt
  <2> QED  BY <2>1, <2>2
<1>6. told =
        IF AtPath(open', "LastUpdate") THEN [doc EXCEPT !.last_update = datum']
        ELSE IF AtPath(open', "DataVersion") THEN [doc EXCEPT !.data_version = datum']
        ELSE IF AtPath(open', "Biomes") THEN [doc EXCEPT !.biomes = Append(@, datum')]
        ELSE IF DataAt(5, "Y") THEN [doc EXCEPT !.y = datum']
        ELSE IF DataAt(5, "BlockStates") THEN [doc EXCEPT !.section.states = Append(@, datum')]
        ELSE IF named THEN [doc EXCEPT !.section.palette = Append(@, datum')]
        ELSE doc
  <2> HIDE DEF told, path, below, named
  <2>1. WithDatum(doc, path, event'[2], datum') =
        IF path = PathOf("LastUpdate") THEN [doc EXCEPT !.last_update = datum']
        ELSE IF path = PathOf("DataVersion") THEN [doc EXCEPT !.data_version = datum']
        ELSE IF path = PathOf("Biomes") THEN [doc EXCEPT !.biomes = Append(@, datum')]
        ELSE IF Len(below) = 2 /\ below[2] = "Y" THEN [doc EXCEPT !.y = datum']
        ELSE IF Len(below) = 2 /\ below[2] = "BlockStates" THEN [doc EXCEPT !.section.states = Append(@, datum')]
        ELSE IF Len(below) = 4 /\ below[2] = "Palette" /\ below[4] = "Name" /\ event'[2] = "string"
             THEN [doc EXCEPT !.section.palette = Append(@, datum')]
             ELSE doc
    BY Zenon DEF WithDatum, below
  <2> QED  BY <1>2, <1>3, <1>5, <2>1
<1>7. /\ DataAt(5, "Y") => ~DataAt(5, "BlockStates") /\ ~named
      /\ DataAt(5, "BlockStates") => ~named
      /\ DataAt(5, "Y") \/ DataAt(5, "BlockStates") \/ named => InSection(open')
  BY DEF DataAt
<1> HIDE DEF told, named
<1>8. /\ told.seen = doc.seen /\ told.sections = doc.sections
      /\ told.last_update = IF AtPath(open', "LastUpdate") THEN datum' ELSE doc.last_update
      /\ told.data_version = IF AtPath(open', "DataVersion") THEN datum' ELSE doc.data_version
      /\ told.biomes = IF AtPath(open', "Biomes") THEN Append(doc.biomes, datum') ELSE doc.biomes
      /\ told.y = IF DataAt(5, "Y") THEN datum' ELSE doc.y
      /\ told.section =
           IF DataAt(5, "BlockStates") THEN [doc.section EXCEPT !.states = Append(@, datum')]
           ELSE IF named THEN [doc.section EXCEPT !.palette = Append(@, datum')]
           ELSE doc.section
  BY <1>4, <1>6, <1>7 DEF IsDocument
<1>9. IsDocument(told)  BY <1>2, ToldKeeps DEF told
<1>10. /\ doc'.last_update = told.last_update /\ doc'.data_version = told.data_version
       /\ doc'.biomes = told.biomes /\ doc'.sections = told.sections /\ doc'.seen = told.seen
       /\ doc'.y = told.y /\ doc'.section = told.section
  BY <1>1, <1>9 DEF IsDocument
<1> QED  BY <1>8, <1>10 DEF named

-----------------------------------------------------------------------------
(* What one event leaves of the invariant, and where it can be. *)

\* The types that a call of next() keeps.
ReadTypes ==
  /\ TagTypes /\ finished \in BOOLEAN /\ corrupt = FALSE /\ IsDocument(doc)
  /\ doc.cut => finished
  /\ ~doc.cut /\ finished => open = <<>>

Happens == (~finished /\ (Starting \/ Telling)) \/ Ending \/ Closing

LEMMA ReadKeepsTypes ==
  ASSUME ReadTypes, Read
  PROVE  ReadTypes' /\ Happens /\ Tells
<1>1. /\ TagTypes' /\ Happens /\ Tells
      /\ finished' \in BOOLEAN /\ corrupt' = FALSE /\ (finished => finished')
  BY ReadIs DEF ReadTypes, Happens, Tells
<1>2. IsDocument(doc') /\ (doc'.cut <=> doc.cut \/ (finished' /\ open' # <<>>))
  BY <1>1, DocKept DEF ReadTypes
<1>3. IsDocument(doc)'  BY <1>2 DEF IsDocument
<1>4. (doc'.cut => finished') /\ (~doc'.cut /\ finished' => open' = <<>>)
  BY <1>1, <1>2 DEF ReadTypes
<1> QED  BY <1>1, <1>3, <1>4 DEF ReadTypes

LEMMA ReadKeepsTree ==
  ASSUME ReadTypes, ReadTypes', TreeInv, Happens
  PROVE  TreeInv'
<1>1. open \in Seq(TagSet) /\ open' \in Seq(TagSet) /\ Len(open) \in Nat /\ Len(open') \in Nat
  BY DEF ReadTypes, TagTypes
<1>2. /\ open # <<>> => Len(open) > 0 /\ Last(open) = open[Len(open)] /\ open[Len(open)] \in TagSet
      /\ open' # <<>> => Len(open') > 0 /\ Last(open') = open'[Len(open')]
  BY <1>1 DEF Last
<1>3. CASE Starting
  <2>1. /\ Len(open') = Len(open) + 1 /\ SameTags(Len(open)) /\ event'[1] = "TAG_START"
        /\ event' = <<event'[1], open'[Len(open')].type, open'[Len(open')].name>>
        /\ open'[Len(open')].type \in Scalars => open'[Len(open')].left = 1
        /\ open # <<>> => open[Len(open)].type \in Holders
    BY <1>3 DEF Starting
  <2>2. \A i \in 1..(Len(open') - 1) : open'[i].type \in Holders
    <3> SUFFICES ASSUME NEW i \in 1..(Len(open') - 1)  PROVE open'[i].type \in Holders
      OBVIOUS
    <3>1. i \in 1..Len(open) /\ open'[i].type = open[i].type  BY <1>1, <2>1 DEF SameTags
    <3>2. CASE i = Len(open)  BY <1>1, <1>2, <2>1, <3>1, <3>2
    <3>3. CASE i # Len(open)  BY <1>1, <3>1, <3>3 DEF TreeInv
    <3> QED  BY <3>2, <3>3
  <2>3. open' # <<>>  BY <1>1, <2>1
  <2> QED  BY <1>2, <2>1, <2>2, <2>3 DEF TreeInv
<1>4. CASE Telling
  <2>1. /\ Len(open') = Len(open) /\ SameTags(Len(open)) /\ event'[1] = "DATA" /\ open # <<>>
        /\ event' = <<event'[1], open[Len(open)].type, open[Len(open)].name>>
        /\ open[Len(open)].type \in Scalars => open'[Len(open)].left = 0
        /\ open[Len(open)].type \notin Holders
    BY <1>4 DEF Telling
  <2>2. \A i \in 1..(Len(open') - 1) : open'[i].type \in Holders
    BY <1>1, <2>1 DEF SameTags, TreeInv
  <2>3. open' # <<>> /\ Len(open) \in 1..Len(open)  BY <1>1, <1>2, <2>1
  <2>4. open'[Len(open)].type = open[Len(open)].type /\ open'[Len(open)].name = open[Len(open)].name
    BY <2>1, <2>3 DEF SameTags
  <2> QED  BY <1>2, <2>1, <2>2, <2>3, <2>4 DEF TreeInv
<1>5. CASE Ending
  <2>1. /\ Len(open') = Len(open) - 1 /\ SameTags(Len(open')) /\ event'[1] = "TAG_END"
        /\ event'[3] = open[Len(open)].name /\ open # <<>>
    BY <1>5 DEF Ending
  <2>2. \A i \in 1..(Len(open') - 1) : open'[i].type \in Holders
    BY <1>1, <2>1 DEF SameTags, TreeInv
  <2>3. event'[3] \in Names \cup {Stream!Unnamed}  BY <1>2, <2>1 DEF TagSet
  <2> QED  BY <2>1, <2>2, <2>3 DEF TreeInv
<1>6. CASE Closing
  <2>1. event'[1] = "DOCUMENT_END" /\ open' = <<>>  BY <1>6 DEF Closing
  <2> QED  BY <2>1 DEF TreeInv
<1> QED  BY <1>3, <1>4, <1>5, <1>6 DEF Happens

\* A document that is not cut tells all of a tag before it ends.
LEMMA WholeReads ==
  ASSUME ReadTypes, TreeInv, ~doc.cut, Happens, open # <<>>
  PROVE  /\ Starting \/ Telling \/ Ending
         /\ Last(open) = open[Len(open)] /\ Len(open) \in Nat \ {0}
         /\ event[1] = "TAG_START" /\ Last(open).type \in Scalars => ~Ending
         /\ event[1] = "DATA" /\ Last(open).type \in Scalars => Ending
         /\ Last(open).type \notin Holders => ~Starting
<1>1. ~finished  BY DEF ReadTypes
<1>2. Last(open) = open[Len(open)] /\ Len(open) \in Nat \ {0}  BY Popped DEF ReadTypes, TagTypes
<1>3. Starting \/ Telling \/ Ending  BY <1>1 DEF Happens, Closing
<1>4. Ending => open[Len(open)].left = 0  BY <1>1 DEF Ending
<1>5. Telling => (open[Len(open)].type \in Scalars => open[Len(open)].left = 1)  BY DEF Telling
<1>6. Starting => open[Len(open)].type \in Holders  BY DEF Starting
<1>7. event[1] \in {"TAG_START", "DATA"} /\ open[Len(open)].type \in Scalars =>
        open[Len(open)].left = IF event[1] = "DATA" THEN 0 ELSE 1
  BY <1>2 DEF TreeInv
<1>8. \A t \in Scalars : t \notin Holders  BY TypesAssumption DEF Holders
<1> QED  BY <1>2, <1>3, <1>4, <1>5, <1>6, <1>7, <1>8

\* What parse_fields() knows after an event is what was open before it.
LEMMA KnownAfter ==
  ASSUME ReadTypes, ReadTypes', Happens
  PROVE  Known' = TagNames
<1>1. /\ open \in Seq(TagSet) /\ open' \in Seq(TagSet) /\ Len(open) \in Nat
      /\ TagNames \in Seq(NameSet) /\ Len(TagNames) = Len(open)
      /\ TagNames' \in Seq(NameSet) /\ Len(TagNames') = Len(open')
      /\ \A i \in 1..Len(open) : TagNames[i] = open[i].name
      /\ \A i \in 1..Len(open') : TagNames'[i] = open'[i].name
  BY NamesTyped DEF ReadTypes, TagTypes, TagNames
<1>2. CASE Starting
  <2>1. Len(open') = Len(open) + 1 /\ SameTags(Len(open)) /\ event'[1] = "TAG_START"
    BY <1>2 DEF Starting
  <2>2. Known' = Front(TagNames')  BY <2>1 DEF Known
  <2>3. TagNames' # <<>>  BY <1>1, <2>1
  <2>4. /\ Front(TagNames') \in Seq(NameSet) /\ Len(Front(TagNames')) = Len(open)
        /\ \A i \in 1..Len(open) : Front(TagNames')[i] = TagNames'[i]
    <3>1. TagNames' \in Seq(NameSet)  BY <1>1
    <3>2. /\ Front(TagNames') \in Seq(NameSet) /\ Len(Front(TagNames')) = Len(TagNames') - 1
          /\ \A i \in 1..(Len(TagNames') - 1) : Front(TagNames')[i] = TagNames'[i]
      BY <2>3, <3>1, Popped
    <3>3. Len(TagNames') - 1 = Len(open)  BY <1>1, <2>1
    <3> QED  BY <3>2, <3>3
  <2>5. \A i \in 1..Len(open) : TagNames'[i] = TagNames[i]  BY <1>1, <2>1 DEF SameTags
  <2> QED  BY <1>1, <2>2, <2>4, <2>5, SeqEqual
<1>3. CASE Telling
  <2>1. Len(open') = Len(open) /\ SameTags(Len(open)) /\ event'[1] = "DATA"  BY <1>3 DEF Telling
  <2>2. Known' = TagNames'  BY <2>1 DEF Known
  <2>3. \A i \in 1..Len(open) : TagNames'[i] = TagNames[i]  BY <1>1, <2>1 DEF SameTags
  <2> QED  BY <1>1, <2>1, <2>2, <2>3, SeqEqual
<1>4. CASE Ending
  <2>1. /\ Len(open') = Len(open) - 1 /\ SameTags(Len(open')) /\ open # <<>>
        /\ event'[1] = "TAG_END" /\ event'[3] = open[Len(open)].name
    BY <1>4 DEF Ending
  <2>2. Known' = Append(TagNames', event'[3])  BY <2>1 DEF Known
  <2>3. Len(open) > 0 /\ event'[3] = TagNames[Len(open)] /\ event'[3] \in NameSet  BY <1>1, <2>1
  <2>4. /\ Append(TagNames', event'[3]) \in Seq(NameSet)
        /\ Len(Append(TagNames', event'[3])) = Len(open)
        /\ Append(TagNames', event'[3])[Len(open)] = event'[3]
        /\ \A i \in 1..(Len(open) - 1) : Append(TagNames', event'[3])[i] = TagNames'[i]
    BY <1>1, <2>1, <2>3, Pushed
  <2>5. \A i \in 1..(Len(open) - 1) : TagNames'[i] = TagNames[i]  BY <1>1, <2>1 DEF SameTags
  <2>6. \A i \in 1..Len(open) : Append(TagNames', event'[3])[i] = TagNames[i]
    BY <1>1, <2>3, <2>4, <2>5
  <2> QED  BY <1>1, <2>2, <2>4, <2>6, SeqEqual
<1>5. CASE Closing
  <2>1. open' = open /\ event'[1] = "DOCUMENT_END"  BY <1>5 DEF Closing
  <2> QED  BY <2>1 DEF Known, TagNames
<1> QED  BY <1>2, <1>3, <1>4, <1>5 DEF Happens

-----------------------------------------------------------------------------
(* The loop of parse_fields(). *)

\* The path below which parse_fields() looks.
Base == IF event[1] = "TAG_START" THEN Front(TagNames) ELSE TagNames

LEMMA CurrentOpen ==
  ASSUME NEW o \in Seq(TagSet)
  PROVE  /\ current_field(NamesOf(o)) = {} <=>
              /\ \A f \in Fields : ~AtPath(o, f)
              /\ ~InSection(o)
              /\ Len(o) >= 2 /\ o[1].name = Stream!Unnamed =>
                   /\ o[2].name # "DataVersion"
                   /\ Len(o) >= 3 /\ o[2].name = "Level" => o[3].name \notin Fields \ {"DataVersion"}
<1> DEFINE none == Len(o) >= 2 /\ o[1].name = Stream!Unnamed =>
                     /\ o[2].name # "DataVersion"
                     /\ Len(o) >= 3 /\ o[2].name = "Level" => o[3].name \notin Fields \ {"DataVersion"}
<1>1. Len(o) \in Nat  OBVIOUS
<1>2. \A x : {"Sections", "LastUpdate", "Biomes"} \cap {x} = {} <=> x \notin Fields \ {"DataVersion"}
  BY DEF Fields
<1>3. {"DataVersion"} # {}  OBVIOUS
<1>4. current_field(NamesOf(o)) = {} <=> none
  <2>1. CASE Len(o) < 2 \/ o[1].name # Stream!Unnamed
    <3>1. current_field(NamesOf(o)) = {}  BY <2>1, CurrentIs
    <3>2. none  BY <1>1, <2>1
    <3> QED  BY <3>1, <3>2
  <2>2. CASE ~(Len(o) < 2 \/ o[1].name # Stream!Unnamed) /\ o[2].name = "DataVersion"
    <3>1. current_field(NamesOf(o)) = {"DataVersion"}  BY <2>2, CurrentIs
    <3>2. ~none  BY <1>1, <2>2
    <3> QED  BY <1>3, <3>1, <3>2
  <2>3. CASE /\ ~(Len(o) < 2 \/ o[1].name # Stream!Unnamed) /\ o[2].name # "DataVersion"
             /\ Len(o) >= 3 /\ o[2].name = "Level"
    <3>1. current_field(NamesOf(o)) = {"Sections", "LastUpdate", "Biomes"} \cap {o[3].name}
      BY <2>3, CurrentIs
    <3>2. none <=> o[3].name \notin Fields \ {"DataVersion"}  BY <1>1, <2>3
    <3> QED  BY <1>2, <3>1, <3>2
  <2>4. CASE /\ ~(Len(o) < 2 \/ o[1].name # Stream!Unnamed) /\ o[2].name # "DataVersion"
             /\ ~(Len(o) >= 3 /\ o[2].name = "Level")
    <3>1. current_field(NamesOf(o)) = {}  BY <2>4, CurrentIs
    <3>2. none  BY <2>4
    <3> QED  BY <3>1, <3>2
  <2> QED  BY <2>1, <2>2, <2>3, <2>4
<1>5. ASSUME none
      PROVE  ~InSection(o) /\ \A f \in Fields : ~AtPath(o, f)
  <2>1. "Sections" \in Fields \ {"DataVersion"}  BY DEF Fields
  <2>2. ~InSection(o)  BY <1>1, <1>5, <2>1 DEF InSection
  <2>3. \A f \in Fields : ~IsAt(o, f)  BY <1>1, <1>5 DEF IsAt
  <2> QED  BY <2>2, <2>3, PathIs
<1> QED  BY <1>4, <1>5

LEMMA CurrentAt ==
  ASSUME TagTypes, TreeInv, event[1] = "TAG_START", current_field(Base) = {}
  PROVE  /\ current_field(TagNames) = {f \in Fields : AtPath(open, f)}
         /\ Append(Base, event[3]) = TagNames
<1>1. open \in Seq(TagSet) /\ open # <<>> /\ event[3] = Last(open).name
  BY DEF TagTypes, TreeInv
<1>2. /\ Front(open) \in Seq(TagSet) /\ Len(Front(open)) = Len(open) - 1 /\ Last(open) = open[Len(open)]
      /\ Len(open) \in Nat \ {0} /\ \A i \in 1..(Len(open) - 1) : Front(open)[i] = open[i]
  BY <1>1, Popped
<1>3. /\ TagNames \in Seq(NameSet) /\ Len(TagNames) = Len(open)
      /\ \A i \in 1..Len(open) : TagNames[i] = open[i].name
      /\ NamesOf(Front(open)) \in Seq(NameSet) /\ Len(NamesOf(Front(open))) = Len(open) - 1
      /\ \A i \in 1..(Len(open) - 1) : NamesOf(Front(open))[i] = open[i].name
  <2>1. /\ TagNames \in Seq(NameSet) /\ Len(TagNames) = Len(open)
        /\ \A i \in 1..Len(open) : TagNames[i] = open[i].name
    BY <1>1, NamesTyped DEF TagNames
  <2>2. /\ NamesOf(Front(open)) \in Seq(NameSet) /\ Len(NamesOf(Front(open))) = Len(Front(open))
        /\ \A i \in 1..Len(Front(open)) : NamesOf(Front(open))[i] = Front(open)[i].name
    BY <1>2, NamesTyped
  <2>3. Len(NamesOf(Front(open))) = Len(open) - 1  BY <1>2, <2>2
  <2>4. \A i \in 1..(Len(open) - 1) : NamesOf(Front(open))[i] = open[i].name  BY <1>2, <2>2
  <2> QED  BY <2>1, <2>2, <2>3, <2>4
<1>4. TagNames # <<>>  BY <1>2, <1>3
<1>5. /\ Front(TagNames) \in Seq(NameSet) /\ Len(Front(TagNames)) = Len(open) - 1
      /\ \A i \in 1..(Len(open) - 1) : Front(TagNames)[i] = TagNames[i]
  <2>1. TagNames \in Seq(NameSet)  BY <1>3
  <2>2. /\ Front(TagNames) \in Seq(NameSet) /\ Len(Front(TagNames)) = Len(TagNames) - 1
        /\ \A i \in 1..(Len(TagNames) - 1) : Front(TagNames)[i] = TagNames[i]
    BY <1>4, <2>1, Popped
  <2> QED  BY <1>3, <2>2
<1>6. Base = NamesOf(Front(open))  BY <1>3, <1>5, SeqEqual DEF Base
<1>7. Base = Front(TagNames)  BY DEF Base
<1>8. Append(Base, event[3]) = TagNames
  <2>1. event[3] \in NameSet /\ event[3] = TagNames[Len(open)]  BY <1>1, <1>2, <1>3
  <2>2. /\ Append(Base, event[3]) \in Seq(NameSet) /\ Len(Append(Base, event[3])) = Len(open)
        /\ Append(Base, event[3])[Len(open)] = event[3]
        /\ \A i \in 1..(Len(open) - 1) : Append(Base, event[3])[i] = Base[i]
    BY <1>2, <1>5, <1>7, <2>1
  <2>3. \A i \in 1..Len(open) : Append(Base, event[3])[i] = TagNames[i]
    BY <1>2, <1>5, <1>7, <2>1, <2>2
  <2> QED  BY <1>3, <2>2, <2>3, SeqEqual
<1>9. current_field(TagNames) = {f \in Fields : AtPath(open, f)}
  <2>1. /\ ~InSection(Front(open))
        /\ Len(open) >= 3 /\ open[1].name = Stream!Unnamed =>
             /\ open[2].name # "DataVersion"
             /\ Len(open) >= 4 /\ open[2].name = "Level" => open[3].name \notin Fields \ {"DataVersion"}
    BY <1>2, <1>6, CurrentOpen
  <2>2. \A f \in Fields : AtPath(open, f) <=> IsAt(open, f)  BY <1>1, PathIs
  <2>3. current_field(TagNames) =
           IF Len(open) < 2 \/ open[1].name # Stream!Unnamed THEN {}
           ELSE IF open[2].name = "DataVersion" THEN {"DataVersion"}
           ELSE IF Len(open) >= 3 /\ open[2].name = "Level"
                THEN {"Sections", "LastUpdate", "Biomes"} \cap {open[3].name} ELSE {}
    BY <1>1, CurrentIs DEF TagNames
  <2>4. \A f : f \in current_field(TagNames) <=> f \in Fields /\ IsAt(open, f)
    <3> TAKE f
    <3>1. CASE Len(open) < 2 \/ open[1].name # Stream!Unnamed  BY <1>2, <2>3, <3>1 DEF IsAt
    <3>2. CASE ~(Len(open) < 2 \/ open[1].name # Stream!Unnamed) /\ open[2].name = "DataVersion"
      <4>1. Len(open) = 2  BY <1>2, <2>1, <3>2
      <4>2. current_field(TagNames) = {"DataVersion"}  BY <2>3, <3>2
      <4> QED  BY <3>2, <4>1, <4>2 DEF IsAt, Fields
    <3>3. CASE /\ ~(Len(open) < 2 \/ open[1].name # Stream!Unnamed) /\ open[2].name # "DataVersion"
               /\ Len(open) >= 3 /\ open[2].name = "Level"
      <4>1. current_field(TagNames) = {"Sections", "LastUpdate", "Biomes"} \cap {open[3].name}
        BY <2>3, <3>3
      <4>2. Len(open) # 3 => f \notin current_field(TagNames)
        BY <1>2, <2>1, <3>3, <4>1 DEF Fields
      <4> QED  BY <1>2, <3>3, <4>1, <4>2 DEF IsAt, Fields
    <3>4. CASE /\ ~(Len(open) < 2 \/ open[1].name # Stream!Unnamed) /\ open[2].name # "DataVersion"
               /\ ~(Len(open) >= 3 /\ open[2].name = "Level")
      <4>1. current_field(TagNames) = {}  BY <2>3, <3>4
      <4> QED  BY <1>2, <3>4, <4>1 DEF IsAt, Fields
    <3> QED  BY <3>1, <3>2, <3>3, <3>4
  <2> QED  BY <2>2, <2>4
<1> QED  BY <1>8, <1>9

LEMMA BaseAfter ==
  ASSUME ReadTypes, ReadTypes', Happens, current_field(TagNames) = {}
  PROVE  current_field(Base') = {}
<1>1. open \in Seq(TagSet) /\ open' \in Seq(TagSet) /\ Len(open) \in Nat  BY DEF ReadTypes, TagTypes
<1>2. Known' = TagNames  BY KnownAfter
<1>3. CASE event'[1] # "TAG_END"
  <2>1. Base' = Known'  BY <1>3 DEF Base, Known
  <2> QED  BY <1>2, <2>1
<1>4. CASE event'[1] = "TAG_END"
  <2>1. Ending  BY <1>4 DEF Happens, Starting, Telling, Closing
  <2>2. Len(open') = Len(open) - 1 /\ \A i \in 1..Len(open') : open'[i].name = open[i].name
    BY <2>1 DEF Ending, SameTags
  <2>3. Base' = NamesOf(open')  BY <1>4 DEF Base, TagNames
  <2>4. /\ ~InSection(open)
        /\ Len(open) >= 2 /\ open[1].name = Stream!Unnamed =>
             /\ open[2].name # "DataVersion"
             /\ Len(open) >= 3 /\ open[2].name = "Level" => open[3].name \notin Fields \ {"DataVersion"}
    BY <1>1, CurrentOpen DEF TagNames
  <2>5. /\ ~InSection(open')
        /\ Len(open') >= 2 /\ open'[1].name = Stream!Unnamed =>
             /\ open'[2].name # "DataVersion"
             /\ Len(open') >= 3 /\ open'[2].name = "Level" => open'[3].name \notin Fields \ {"DataVersion"}
    BY <1>1, <2>2, <2>4 DEF InSection
  <2>6. \A f \in Fields : ~AtPath(open', f)
    BY <1>1, <2>5, PathIs DEF IsAt, Fields
  <2>7. current_field(NamesOf(open')) = {}
    BY <1>1, <2>5, <2>6, CurrentOpen
  <2> QED  BY <2>3, <2>7
<1> QED  BY <1>3, <1>4

\* parse_fields() has turned to the last event, and that was none of a field.
LEMMA GoesOn ==
  ASSUME ReadTypes, Read, current_field(TagNames) = {},
         place' = "fields", tag_structure' = TagNames,
         UNCHANGED <<asked, loaded_fields, fields, locals>>,
         asked \notin loaded_fields, loaded_fields = doc.seen,
         last_update = doc.last_update, data_version = doc.data_version,
         biomes = doc.biomes, sections = doc.sections
  PROVE  WholeInv'
<1>1. ReadTypes' /\ Happens /\ Tells  BY ReadKeepsTypes
<1>2. /\ open \in Seq(TagSet) /\ open' \in Seq(TagSet) /\ Len(open) \in Nat /\ IsDocument(doc)
  BY <1>1 DEF ReadTypes, TagTypes
<1>3. Known' = TagNames /\ current_field(Base') = {}  BY <1>1, KnownAfter, BaseAfter
<1>4. FieldsPlaceInv'  BY <1>3 DEF FieldsPlaceInv, Base, InFields
<1>5. ~InSection(open) /\ \A f \in Fields : ~AtPath(open, f)  BY <1>2, CurrentOpen DEF TagNames
<1>6. /\ doc'.seen = doc.seen \cup IF event'[1] = "TAG_START" THEN {f \in Fields : AtPath(open', f)} ELSE {}
      /\ doc'.last_update = doc.last_update /\ doc'.data_version = doc.data_version
      /\ doc'.biomes = doc.biomes /\ doc'.sections = doc.sections
  <2>1. CASE Starting
    <3>1. event'[1] = "TAG_START"  BY <2>1 DEF Starting
    <3> QED  BY <1>1, <1>2, <3>1, DocStarts DEF FieldsSame
  <2>2. CASE Telling
    <3>1. event'[1] = "DATA" /\ Len(open') = Len(open) /\ \A i \in 1..Len(open) : open'[i].name = open[i].name
      BY <2>2 DEF Telling, SameTags
    <3>2. NamesOf(open') = NamesOf(open)
      <4>1. /\ NamesOf(open') \in Seq(NameSet) /\ NamesOf(open) \in Seq(NameSet)
            /\ Len(NamesOf(open')) = Len(open) /\ Len(NamesOf(open)) = Len(open)
            /\ \A i \in 1..Len(open) : NamesOf(open')[i] = NamesOf(open)[i]
        BY <1>2, <3>1, NamesTyped
      <4> QED  BY <4>1, SeqEqual
    <3>3. \A f \in Fields : ~AtPath(open', f)  BY <1>5, <3>2 DEF AtPath
    <3>4. ~AtPath(open', "LastUpdate") /\ ~AtPath(open', "DataVersion") /\ ~AtPath(open', "Biomes")
      BY <3>3 DEF Fields
    <3> QED  BY <1>1, <1>2, <3>1, <3>4, DocTells
  <2>3. CASE Ending
    <3>1. /\ event'[1] = "TAG_END" /\ Len(open') = Len(open) - 1
          /\ \A i \in 1..Len(open') : open'[i].name = open[i].name
      BY <2>3 DEF Ending, SameTags
    <3>2. ~AtPath(open', "Sections")
      BY <1>2, <1>5, <3>1, PathIs DEF IsAt, InSection
    <3> QED  BY <1>1, <1>2, <3>1, <3>2, DocEnds DEF FieldsSame
  <2>4. CASE Closing
    <3>1. event'[1] = "DOCUMENT_END"  BY <2>4 DEF Closing
    <3> QED  BY <1>1, <1>2, <3>1, DocCloses DEF FieldsSame
  <2> QED  BY <1>1, <2>1, <2>2, <2>3, <2>4 DEF Happens
<1>7. KeptInv'  BY <1>6 DEF KeptInv, fields
<1>8. ValueInv' /\ SectionInv' /\ ElementInv'
  BY DEF ValueInv, SectionInv, ElementInv, InSections3, InFields, InValue
<1> QED  BY <1>4, <1>7, <1>8 DEF WholeInv

LEMMA FieldsStep ==
  ASSUME ReadTypes, TreeInv, WholeInv, ~doc.cut, Leave \/ Pass \/ Enter
  PROVE  WholeInv'
<1>1. place = "fields" /\ Read  BY DEF Leave, Pass, Enter
<1>2. /\ tag_structure = Known /\ current_field(Base) = {} /\ asked \notin loaded_fields
      /\ doc.seen = loaded_fields \cup
           IF event[1] = "TAG_START" THEN {f \in Fields : AtPath(open, f)} ELSE {}
      /\ last_update = doc.last_update /\ data_version = doc.data_version
      /\ biomes = doc.biomes /\ sections = doc.sections
  BY <1>1 DEF WholeInv, FieldsPlaceInv, KeptInv, Base, InFields
<1>3. /\ UNCHANGED <<asked, loaded_fields, fields, locals>> /\ place' = "fields"
  BY <1>1 DEF Leave, Pass, Enter
<1>4. tag_structure' = TagNames /\ current_field(TagNames) = {} /\ loaded_fields = doc.seen
  <2>1. CASE Leave
    <3>1. event[1] = "TAG_END" /\ tag_structure' = Front(tag_structure)  BY <2>1 DEF Leave
    <3>2. tag_structure = Append(TagNames, event[3]) /\ event[3] \in NameSet
      BY <1>2, <3>1 DEF Known, TreeInv, NameSet
    <3>3. TagNames \in Seq(NameSet)  BY NamesTyped DEF TagNames, ReadTypes, TagTypes
    <3>4. Front(Append(TagNames, event[3])) = TagNames  BY <3>2, <3>3 DEF Front
    <3>5. Base = TagNames  BY <3>1 DEF Base
    <3> QED  BY <1>2, <3>1, <3>2, <3>4, <3>5
  <2>2. CASE Pass
    <3>1. event[1] \notin {"TAG_START", "TAG_END"} /\ tag_structure' = tag_structure  BY <2>2 DEF Pass
    <3> QED  BY <1>2, <3>1 DEF Known, Base
  <2>3. CASE Enter
    <3>1. /\ event[1] = "TAG_START" /\ tag_structure' = Append(tag_structure, event[3])
          /\ current_field(tag_structure') = {}
      BY <2>3 DEF Enter
    <3>2. tag_structure = Base  BY <1>2, <3>1 DEF Known, Base
    <3>3. /\ current_field(TagNames) = {f \in Fields : AtPath(open, f)}
          /\ Append(Base, event[3]) = TagNames
      BY <1>2, <3>1, CurrentAt DEF ReadTypes
    <3> QED  BY <1>2, <3>1, <3>2, <3>3
  <2> QED  BY <2>1, <2>2, <2>3
<1> QED  BY <1>1, <1>2, <1>3, <1>4, GoesOn

LEMMA EnterFieldStep ==
  ASSUME ReadTypes, TreeInv, WholeInv, NEW field \in Fields, EnterField(field)
  PROVE  WholeInv'
<1>1. /\ place = "fields" /\ event[1] = "TAG_START"
      /\ tag_structure' = Append(tag_structure, event[3])
      /\ field \in current_field(tag_structure')
      /\ loaded_fields' = loaded_fields \cup {field}
      /\ place' = IF field = "Sections" THEN "elements"
                  ELSE IF field # "Biomes" THEN field
                  ELSE IF event[2] = "ints" THEN "biomes" ELSE "failed"
      /\ UNCHANGED <<reading, asked, fields, locals>>
  BY DEF EnterField
<1>2. tag_structure = Base /\ current_field(Base) = {}
  BY <1>1 DEF WholeInv, FieldsPlaceInv, Base, Known, InFields
<1>3. /\ tag_structure' = TagNames /\ current_field(TagNames) = {f \in Fields : AtPath(open, f)}
  BY <1>1, <1>2, CurrentAt DEF ReadTypes
<1>4. AtPath(open, field)  BY <1>1, <1>3
<1>5. open \in Seq(TagSet) /\ IsAt(open, field) /\ Len(open) \in Nat
  BY <1>4, PathIs DEF ReadTypes, TagTypes
<1>6. \A f \in Fields : AtPath(open, f) <=> f = field
  BY <1>4, <1>5, PathIs DEF IsAt, Fields
<1>7. /\ open' = open /\ event' = event /\ doc' = doc /\ TagNames' = TagNames
  BY <1>1 DEF reading, stream, TagNames
<1>8. KeptInv'
  <2>1. place' # "fields"  BY <1>1 DEF Fields
  <2>2. /\ doc.seen = loaded_fields \cup {f \in Fields : AtPath(open, f)}
        /\ last_update = doc.last_update /\ data_version = doc.data_version
        /\ biomes = doc.biomes /\ sections = doc.sections
    BY <1>1 DEF WholeInv, KeptInv
  <2>3. {f \in Fields : AtPath(open, f)} = {field}  BY <1>6
  <2> QED  BY <1>1, <1>7, <2>1, <2>2, <2>3 DEF KeptInv, fields
<1>9. CASE field = "Sections"
  <2>1. place' = "elements" /\ DepthOf' = 3  BY <1>1, <1>9 DEF DepthOf
  <2>2. InSection(open') /\ Len(open') = 3
    <3>1. /\ Len(open) = 3 /\ open[1].name = Stream!Unnamed /\ open[2].name = "Level"
          /\ open[3].name = "Sections"
      BY <1>5, <1>9 DEF IsAt
    <3>2. 3 >= 3  OBVIOUS
    <3> QED  BY <1>7, <3>1, <3>2, Zenon DEF InSection
  <2>3. tag_structure' = SectionsPath  BY <1>3, <1>4, <1>9 DEF AtPath, TagNames, SectionsPath
  <2> QED
    BY <1>8, <2>1, <2>2, <2>3
    DEF WholeInv, FieldsPlaceInv, ValueInv, SectionInv, ElementInv, InFields, InValue, InSections3
<1>10. CASE field = "Biomes"
  <2>1. event[2] = "ints" => Last(open).type = "ints"  BY <1>1 DEF TreeInv
  <2>2. CASE event[2] = "ints"
    <3>1. place' = "biomes"  BY <1>1, <1>10, <2>2
    <3> QED
      BY <1>1, <1>3, <1>4, <1>7, <1>8, <1>10, <2>1, <2>2, <3>1
      DEF WholeInv, FieldsPlaceInv, ValueInv, SectionInv, ElementInv, InFields, InValue, InSections3
  <2>3. CASE event[2] # "ints"
    <3>1. place' = "failed"  BY <1>1, <1>10, <2>3
    <3> QED
      BY <1>8, <3>1
      DEF WholeInv, FieldsPlaceInv, ValueInv, SectionInv, ElementInv, InFields, InValue, InSections3
  <2> QED  BY <2>2, <2>3
<1>11. CASE field \in {"LastUpdate", "DataVersion"}
  <2>1. place' = field  BY <1>1, <1>11
  <2> QED
    BY <1>1, <1>3, <1>4, <1>7, <1>8, <1>11, <2>1
    DEF WholeInv, FieldsPlaceInv, ValueInv, SectionInv, ElementInv, InFields, InValue, InSections3
<1> QED  BY <1>9, <1>10, <1>11 DEF Fields

\* A request that begins, one that ends without its field, and one that throws.
LEMMA RequestStep ==
  ASSUME ReadTypes, WholeInv,
         NotFound \/ Throw \/ \E field \in Fields : Ask(field)
  PROVE  WholeInv'
<1>1. UNCHANGED <<reading, tag_structure, loaded_fields, fields, locals>>
  BY DEF NotFound, Throw, Ask
<1>2. /\ open' = open /\ event' = event /\ doc' = doc /\ tag_structure' = tag_structure
      /\ loaded_fields' = loaded_fields /\ last_update' = last_update
      /\ data_version' = data_version /\ biomes' = biomes /\ sections' = sections
      /\ TagNames' = TagNames /\ Known' = Known
  BY <1>1 DEF reading, stream, fields, TagNames, Known
<1>3. CASE Throw
  <2>1. place' = "failed"  BY <1>3 DEF Throw
  <2> QED
    BY <2>1
    DEF WholeInv, FieldsPlaceInv, ValueInv, SectionInv, KeptInv, ElementInv, InFields, InValue, InSections3
<1>4. CASE NotFound
  <2>1. place = "fields" /\ place' = "missing" /\ event[1] = "DOCUMENT_END" /\ asked' = asked
    BY <1>4 DEF NotFound
  <2> QED
    BY <1>2, <2>1
    DEF WholeInv, FieldsPlaceInv, ValueInv, SectionInv, KeptInv, ElementInv, InFields, InValue, InSections3
<1>5. CASE \E field \in Fields : Ask(field)
  <2>1. PICK field \in Fields : Ask(field)  BY <1>5
  <2>2. place = "idle" /\ place' = "fields" /\ asked' = field /\ field \notin loaded_fields
    BY <2>1 DEF Ask
  <2>3. event[1] # "TAG_START"  BY <2>2 DEF WholeInv, FieldsPlaceInv, InFields
  <2> QED
    BY <1>2, <2>2, <2>3
    DEF WholeInv, FieldsPlaceInv, ValueInv, SectionInv, KeptInv, ElementInv, InFields, InValue, InSections3
<1> QED  BY <1>3, <1>4, <1>5

-----------------------------------------------------------------------------
(* The fields that are a value or an array of values. *)

LEMMA SameNames ==
  ASSUME ReadTypes, ReadTypes', Telling
  PROVE  TagNames' = TagNames /\ \A f : AtPath(open', f) <=> AtPath(open, f)
<1>1. open \in Seq(TagSet) /\ open' \in Seq(TagSet)  BY DEF ReadTypes, TagTypes
<1>2. Len(open') = Len(open) /\ \A i \in 1..Len(open) : open'[i].name = open[i].name
  BY DEF Telling, SameTags
<1>3. NamesOf(open') = NamesOf(open)
  <2>1. /\ NamesOf(open') \in Seq(NameSet) /\ NamesOf(open) \in Seq(NameSet)
        /\ Len(NamesOf(open')) = Len(open) /\ Len(NamesOf(open)) = Len(open)
        /\ \A i \in 1..Len(open) : NamesOf(open')[i] = NamesOf(open)[i]
    BY <1>1, <1>2, NamesTyped
  <2> QED  BY <2>1, SeqEqual
<1> QED  BY <1>3 DEF TagNames, AtPath

\* A field has ended, and its request goes on at the tag that holds it.
LEMMA FieldEnds ==
  ASSUME ReadTypes, ReadTypes', Ending, NEW field \in Fields, AtPath(open, field),
         tag_structure' = TagNames, Return, UNCHANGED <<asked, loaded_fields>>
  PROVE  /\ FieldsPlaceInv' /\ ValueInv' /\ SectionInv' /\ ElementInv'
         /\ ~AtPath(open', "Sections") /\ event'[1] = "TAG_END" /\ place' \in {"idle", "fields"}
<1>1. open \in Seq(TagSet) /\ open' \in Seq(TagSet) /\ IsAt(open, field)
  BY PathIs DEF ReadTypes, TagTypes
<1>2. /\ Len(open') = Len(open) - 1 /\ \A i \in 1..Len(open') : open'[i].name = open[i].name
      /\ event' = <<"TAG_END", open[Len(open)].type, open[Len(open)].name>>
  BY DEF Ending, SameTags
<1>3. Len(open') \in Nat /\ Len(open) \in Nat /\ event'[1] = "TAG_END"  BY <1>1, <1>2
<1>4. Len(open') <= 2 /\ (Len(open') = 2 => open'[2].name = "Level")
  BY <1>1, <1>2, <1>3 DEF IsAt
<1>5. \A f \in Fields : ~AtPath(open', f)
  <2>1. \A f \in Fields : ~IsAt(open', f)  BY <1>3, <1>4 DEF IsAt
  <2> QED  BY <1>1, <2>1, PathIs
<1>6. current_field(TagNames') = {}
  <2>1. ~InSection(open')  BY <1>3, <1>4 DEF InSection
  <2>2. Len(open') >= 2 /\ open'[1].name = Stream!Unnamed =>
          /\ open'[2].name # "DataVersion"
          /\ Len(open') >= 3 /\ open'[2].name = "Level" => open'[3].name \notin Fields \ {"DataVersion"}
    <3>1. ~(Len(open') >= 3)  BY <1>3, <1>4
    <3>2. ASSUME Len(open') >= 2
          PROVE  open'[2].name = "Level"
      <4>1. Len(open') = 2  BY <1>3, <1>4, <3>2
      <4> QED  BY <1>4, <4>1
    <3> QED  BY <3>1, <3>2
  <2>3. current_field(NamesOf(open')) = {}  BY <1>1, <1>5, <2>1, <2>2, CurrentOpen
  <2> QED  BY <2>3 DEF TagNames
<1>7. Known' = TagNames  BY KnownAfter DEF Happens
<1>8. place' \in {"idle", "fields"} /\ (place' = "fields" => asked' \notin loaded_fields')
  BY DEF Return
<1>9. FieldsPlaceInv'  BY <1>3, <1>6, <1>7, <1>8 DEF FieldsPlaceInv
<1>10. ValueInv' /\ SectionInv' /\ ElementInv'
  BY <1>8 DEF ValueInv, SectionInv, ElementInv, InSections3, InFields, InValue
<1>11. ~AtPath(open', "Sections")  BY <1>5 DEF Fields
<1> QED  BY <1>3, <1>8, <1>9, <1>10, <1>11

LEMMA FailedIs ==
  ASSUME place' = "failed"
  PROVE  WholeInv'
  BY DEF WholeInv, FieldsPlaceInv, ValueInv, SectionInv, KeptInv, ElementInv, InFields, InValue, InSections3

LEMMA ValueStep ==
  ASSUME ReadTypes, TreeInv, WholeInv, ~doc.cut, ReadLastUpdate \/ ReadDataVersion
  PROVE  WholeInv'
<1>1. /\ place \in {"LastUpdate", "DataVersion"} /\ Read
      /\ UNCHANGED <<asked, tag_structure, loaded_fields, biomes, sections, locals>>
  BY DEF ReadLastUpdate, ReadDataVersion
<1>2. ReadTypes' /\ Happens /\ Tells  BY <1>1, ReadKeepsTypes
<1>3. tag_structure = TagNames /\ AtPath(open, place)
  BY <1>1 DEF WholeInv, ValueInv, InValue
<1>4. open \in Seq(TagSet) /\ open' \in Seq(TagSet) /\ IsAt(open, place) /\ IsDocument(doc)
  BY <1>2, <1>3, PathIs DEF ReadTypes, TagTypes
<1>5. CASE place' = "failed"  BY <1>5, FailedIs
<1>6. CASE place' # "failed"
  <2>1. /\ event'[1] = "DATA" /\ event'[2] \in {"long", "int"} /\ place' = "value"
        /\ last_update' = IF place = "LastUpdate" THEN datum' ELSE last_update
        /\ data_version' = IF place = "DataVersion" THEN datum' ELSE data_version
    BY <1>1, <1>6 DEF ReadLastUpdate, ReadDataVersion, IsDatum
  <2>2. Telling  BY <1>2, <2>1 DEF Happens, Starting, Ending, Closing
  <2>3. TagNames' = TagNames /\ \A f : AtPath(open', f) <=> AtPath(open, f)
    BY <1>2, <2>2, SameNames
  <2>4. /\ AtPath(open', "LastUpdate") <=> place = "LastUpdate"
        /\ AtPath(open', "DataVersion") <=> place = "DataVersion"
        /\ ~AtPath(open', "Biomes")
    BY <1>1, <1>4, <2>3, PathIs DEF IsAt
  <2>5. /\ doc'.seen = doc.seen /\ doc'.sections = doc.sections /\ doc'.biomes = doc.biomes
        /\ doc'.last_update = IF place = "LastUpdate" THEN datum' ELSE doc.last_update
        /\ doc'.data_version = IF place = "DataVersion" THEN datum' ELSE doc.data_version
    BY <1>2, <1>4, <2>1, <2>4, DocTells
  <2>6. KeptInv'
    BY <1>1, <2>1, <2>5 DEF WholeInv, KeptInv
  <2>7. Last(open').type \in Scalars
    <3>1. /\ Len(open') = Len(open) /\ open'[Len(open)].type = open[Len(open)].type
          /\ event'[2] = open[Len(open)].type
      <4>1. Len(open) \in 1..Len(open)  BY <1>4, <2>2 DEF Telling
      <4> QED  BY <2>2, <4>1 DEF Telling, SameTags
    <3> QED  BY <2>1, <3>1, TypesAssumption DEF Last
  <2>8. AtPath(open', "LastUpdate") \/ AtPath(open', "DataVersion")  BY <1>1, <2>4
  <2> QED
    BY <1>1, <1>3, <2>1, <2>3, <2>6, <2>7, <2>8
    DEF WholeInv, FieldsPlaceInv, ValueInv, SectionInv, ElementInv, InFields, InValue, InSections3
<1> QED  BY <1>5, <1>6

LEMMA ValueEnds ==
  ASSUME ReadTypes, TreeInv, WholeInv, ~doc.cut, EndValue
  PROVE  WholeInv'
<1>1. /\ place = "value" /\ Read /\ Return
      /\ UNCHANGED <<asked, tag_structure, loaded_fields, fields, locals>>
  BY DEF EndValue
<1>2. ReadTypes' /\ Happens /\ Tells  BY <1>1, ReadKeepsTypes
<1>3. /\ tag_structure = TagNames /\ (AtPath(open, "LastUpdate") \/ AtPath(open, "DataVersion"))
      /\ event[1] = "DATA" /\ Last(open).type \in Scalars
  BY <1>1 DEF WholeInv, ValueInv, InValue
<1>4. PICK field \in Fields : AtPath(open, field)  BY <1>3 DEF Fields
<1>5. open \in Seq(TagSet) /\ open' \in Seq(TagSet) /\ open # <<>> /\ IsDocument(doc)
  BY <1>2, <1>4, PathIs DEF ReadTypes, TagTypes, IsAt
<1>6. Ending  BY <1>2, <1>3, <1>5, WholeReads
<1>7. /\ FieldsPlaceInv' /\ ValueInv' /\ SectionInv' /\ ElementInv'
      /\ ~AtPath(open', "Sections") /\ event'[1] = "TAG_END" /\ place' \in {"idle", "fields"}
  BY <1>1, <1>2, <1>3, <1>4, <1>6, FieldEnds
<1>8. FieldsSame /\ doc'.seen = doc.seen /\ doc'.sections = doc.sections
  BY <1>2, <1>5, <1>7, DocEnds
<1>9. KeptInv'  BY <1>1, <1>7, <1>8 DEF WholeInv, KeptInv, FieldsSame, fields
<1> QED  BY <1>7, <1>9 DEF WholeInv

LEMMA BiomesStep ==
  ASSUME ReadTypes, TreeInv, WholeInv, ~doc.cut, ReadBiomes
  PROVE  WholeInv'
<1>1. /\ place = "biomes" /\ Read
      /\ IF event'[1] = "DATA" THEN biomes' = Append(biomes, datum') /\ place' = place
         ELSE Return /\ biomes' = biomes
      /\ UNCHANGED <<asked, tag_structure, loaded_fields, last_update, data_version, sections, locals>>
  BY DEF ReadBiomes, IsDatum
<1>2. ReadTypes' /\ Happens /\ Tells  BY <1>1, ReadKeepsTypes
<1>3. tag_structure = TagNames /\ AtPath(open, "Biomes") /\ Last(open).type = "ints"
  BY <1>1 DEF WholeInv, ValueInv, InValue
<1>4. open \in Seq(TagSet) /\ open' \in Seq(TagSet) /\ IsAt(open, "Biomes") /\ open # <<>> /\ IsDocument(doc)
  <2>1. open \in Seq(TagSet) /\ open' \in Seq(TagSet) /\ IsDocument(doc)  BY <1>2 DEF ReadTypes, TagTypes
  <2>2. IsAt(open, "Biomes")  BY <1>3, <2>1, PathIs
  <2>3. open # <<>>
    <3>1. Len(open) = 3  BY <2>2 DEF IsAt
    <3>2. Len(<<>>) = 0  OBVIOUS
    <3> QED  BY <3>1, <3>2
  <2> QED  BY <2>1, <2>2, <2>3
<1>5. ~Starting /\ Last(open) = open[Len(open)] /\ (Starting \/ Telling \/ Ending)
  BY <1>2, <1>3, <1>4, WholeReads DEF Holders
<1>6. CASE Telling
  <2>1. event'[1] = "DATA" /\ Len(open') = Len(open) /\ open'[Len(open)].type = open[Len(open)].type
    <3>1. Len(open) \in 1..Len(open)  BY <1>4, <1>6 DEF Telling
    <3> QED  BY <1>6, <3>1 DEF Telling, SameTags
  <2>2. TagNames' = TagNames /\ \A f : AtPath(open', f) <=> AtPath(open, f)
    BY <1>2, <1>6, SameNames
  <2>3. AtPath(open', "Biomes") /\ ~AtPath(open', "LastUpdate") /\ ~AtPath(open', "DataVersion")
    BY <1>4, <2>2, PathIs DEF IsAt
  <2>4. /\ doc'.seen = doc.seen /\ doc'.sections = doc.sections
        /\ doc'.last_update = doc.last_update /\ doc'.data_version = doc.data_version
        /\ doc'.biomes = Append(doc.biomes, datum')
    BY <1>2, <1>4, <2>1, <2>3, DocTells
  <2>5. KeptInv'  BY <1>1, <2>1, <2>4 DEF WholeInv, KeptInv
  <2>6. Last(open').type = "ints"  BY <1>3, <1>5, <2>1 DEF Last
  <2> QED
    BY <1>1, <1>3, <2>1, <2>2, <2>3, <2>5, <2>6
    DEF WholeInv, FieldsPlaceInv, ValueInv, SectionInv, ElementInv, InFields, InValue, InSections3
<1>7. CASE Ending
  <2>1. event'[1] = "TAG_END"  BY <1>7 DEF Ending
  <2>2. Return /\ biomes' = biomes  BY <1>1, <2>1
  <2>3. /\ FieldsPlaceInv' /\ ValueInv' /\ SectionInv' /\ ElementInv'
        /\ ~AtPath(open', "Sections") /\ place' \in {"idle", "fields"}
    <3>1. "Biomes" \in Fields  BY DEF Fields
    <3> QED  BY <1>1, <1>2, <1>3, <1>7, <2>2, <3>1, FieldEnds
  <2>4. FieldsSame /\ doc'.seen = doc.seen /\ doc'.sections = doc.sections
    BY <1>2, <1>4, <2>1, <2>3, DocEnds
  <2>5. KeptInv'  BY <1>1, <2>1, <2>2, <2>3, <2>4 DEF WholeInv, KeptInv, FieldsSame
  <2> QED  BY <2>3, <2>5 DEF WholeInv
<1> QED  BY <1>5, <1>6, <1>7

-----------------------------------------------------------------------------
(* parse_sections(). *)

SectionPlaces ==
  {"elements", "first", "firstY", "firstYEnd", "discard", "states", "palette", "entry",
   "name", "nameEnd", "skipInEntry", "y", "yEnd", "skip", "after"}

\* One event below Sections, of the tags and of the document.
TagStarts ==
  /\ Len(open') = Len(open) + 1 /\ event'[1] = "TAG_START"
  /\ event'[2] = open'[Len(open')].type /\ event'[3] = open'[Len(open')].name
  /\ open[Len(open)].type \in Holders
  /\ open[Len(open)].type = "list" => event'[3] = Stream!Unnamed
  /\ open[Len(open)].type = "compound" =>
       event'[3] \notin taken[Len(open)] /\ event'[3] \in taken'[Len(open)]
  /\ \A i \in 1..Len(open) : taken[i] \subseteq taken'[i]
  /\ doc'.sections = doc.sections
  /\ doc'.y = IF Len(open') = 4 THEN NoY ELSE doc.y
  /\ doc'.section = IF Len(open') = 4 THEN Empty ELSE doc.section

DatumCame ==
  /\ Len(open') = Len(open) /\ event'[1] = "DATA"
  /\ event'[2] = open[Len(open)].type /\ event'[3] = open[Len(open)].name
  /\ open[Len(open)].type \notin Holders
  /\ taken' = taken /\ datum' \in Values[event'[2]]
  /\ doc'.sections = doc.sections
  /\ doc'.y = IF Len(open) = 5 /\ open[5].name = "Y" THEN datum' ELSE doc.y
  /\ doc'.section =
       IF Len(open) = 5 /\ open[5].name = "BlockStates" THEN [doc.section EXCEPT !.states = Append(@, datum')]
       ELSE IF Len(open) = 7 /\ open[5].name = "Palette" /\ TopIs(7, "string", "Name")
       THEN [doc.section EXCEPT !.palette = Append(@, datum')]
       ELSE doc.section

TagEnds ==
  /\ Len(open') = Len(open) - 1 /\ event'[1] = "TAG_END"
  /\ event'[2] = open[Len(open)].type /\ event'[3] = open[Len(open)].name
  /\ \A i \in 1..Len(open') : taken'[i] = taken[i]
  /\ doc'.sections = IF Len(open') = 3 THEN Stored(doc.sections, doc.y, doc.section) ELSE doc.sections
  /\ Len(open') > 3 => doc'.y = doc.y /\ doc'.section = doc.section

LEMMA NotAField ==
  ASSUME NEW o \in Seq(TagSet), InSection(o)
  PROVE  /\ AtPath(o, "Sections") <=> Len(o) = 3
         /\ \A f : f # "Sections" => ~AtPath(o, f)
         /\ Len(o) > 3 => \A f : ~AtPath(o, f)
<1>1. Len(o) \in Nat /\ Len(o) >= 3  BY DEF InSection
<1>2. IsAt(o, "Sections") <=> Len(o) = 3  BY <1>1 DEF IsAt, InSection
<1>3. \A f : f # "Sections" => ~IsAt(o, f)  BY <1>1 DEF IsAt, InSection
<1>4. ASSUME Len(o) > 3, NEW f
      PROVE  ~IsAt(o, f)
  <2>1. \A n \in Nat : n > 3 => n # 2 /\ n # 3  OBVIOUS
  <2>2. Len(o) # 2 /\ Len(o) # 3  BY <1>1, <1>4, <2>1, Zenon
  <2> QED  BY <2>2, Zenon DEF IsAt
<1> QED  BY <1>2, <1>3, <1>4, PathIs

LEMMA SectionReads ==
  ASSUME ReadTypes, TreeInv, Read, ~doc.cut, InSection(open), Len(open) > 3 \/ ~Ending
  PROVE  /\ ReadTypes' /\ InSection(open') /\ Len(open) \in Nat /\ Len(open') \in Nat
         /\ \A i \in 1..Len(open) : i <= Len(open') =>
              open'[i].type = open[i].type /\ open'[i].name = open[i].name
         /\ doc'.seen = doc.seen /\ FieldsSame
         /\ TagStarts \/ DatumCame \/ TagEnds
<1>1. ReadTypes' /\ Happens /\ Tells  BY ReadKeepsTypes
<1>2. /\ open \in Seq(TagSet) /\ open' \in Seq(TagSet) /\ IsDocument(doc)
      /\ Len(open) \in Nat /\ Len(open) >= 3 /\ Len(open') \in Nat /\ open # <<>>
  <2>1. Len(open) >= 3  BY DEF InSection
  <2>2. Len(<<>>) = 0  OBVIOUS
  <2> QED  BY <1>1, <2>1, <2>2 DEF ReadTypes, TagTypes
<1>3. /\ Starting \/ Telling \/ Ending  BY <1>1, <1>2, WholeReads
<1>4. CASE Starting
  <2>1. /\ Len(open') = Len(open) + 1 /\ event'[1] = "TAG_START"
        /\ event'[2] = open'[Len(open')].type /\ event'[3] = open'[Len(open')].name
        /\ open[Len(open)].type \in Holders
        /\ open[Len(open)].type = "list" => event'[3] = Stream!Unnamed
        /\ open[Len(open)].type = "compound" =>
             event'[3] \notin taken[Len(open)] /\ event'[3] \in taken'[Len(open)]
        /\ \A i \in 1..Len(open) : taken[i] \subseteq taken'[i]
        /\ \A i \in 1..Len(open) : open'[i].type = open[i].type /\ open'[i].name = open[i].name
    BY <1>2, <1>4 DEF Starting, SameTags
  <2>2. InSection(open') /\ Len(open') > 3  BY <1>2, <2>1 DEF InSection
  <2>3. \A f : ~AtPath(open', f)  BY <1>2, <2>2, NotAField
  <2>4. /\ FieldsSame /\ doc'.sections = doc.sections
        /\ doc'.seen = doc.seen \cup {f \in Fields : AtPath(open', f)}
        /\ doc'.y = IF Len(open') = 4 THEN NoY ELSE doc.y
        /\ doc'.section = IF Len(open') = 4 THEN Empty ELSE doc.section
    BY <1>1, <1>2, <2>1, <2>2, DocStarts
  <2>5. doc'.seen = doc.seen  BY <2>3, <2>4
  <2>6. TagStarts  BY <2>1, <2>4 DEF TagStarts
  <2> QED  BY <1>1, <1>2, <2>1, <2>2, <2>4, <2>5, <2>6
<1>5. CASE Telling
  <2>1. /\ Len(open') = Len(open) /\ event'[1] = "DATA"
        /\ event'[2] = open[Len(open)].type /\ event'[3] = open[Len(open)].name
        /\ open[Len(open)].type \notin Holders
        /\ taken' = taken /\ datum' \in Values[event'[2]]
        /\ \A i \in 1..Len(open) : open'[i].type = open[i].type /\ open'[i].name = open[i].name
    BY <1>5 DEF Telling, SameTags
  <2>2. InSection(open')  BY <1>2, <2>1 DEF InSection
  <2>3. ~AtPath(open', "LastUpdate") /\ ~AtPath(open', "DataVersion") /\ ~AtPath(open', "Biomes")
    BY <1>2, <2>2, NotAField
  <2>4. /\ DataAt(5, "Y") <=> Len(open) = 5 /\ open[5].name = "Y"
        /\ DataAt(5, "BlockStates") <=> Len(open) = 5 /\ open[5].name = "BlockStates"
        /\ DataAt(7, "Palette") /\ open'[7].name = "Name" /\ event'[2] = "string" <=>
             Len(open) = 7 /\ open[5].name = "Palette" /\ TopIs(7, "string", "Name")
    <3>1. \A k \in {5, 7} : Len(open) >= k => open'[5].name = open[5].name
      BY <1>2, <2>1
    <3>2. Len(open) = 7 =>
            /\ open'[7].name = "Name" /\ event'[2] = "string" <=> TopIs(7, "string", "Name")
      BY <2>1 DEF TopIs
    <3>3. /\ DataAt(5, "Y") <=> Len(open) = 5 /\ open[5].name = "Y"
          /\ DataAt(5, "BlockStates") <=> Len(open) = 5 /\ open[5].name = "BlockStates"
      BY <2>1, <2>2, <3>1 DEF DataAt
    <3>4. DataAt(7, "Palette") <=> Len(open) = 7 /\ open[5].name = "Palette"
      BY <2>1, <2>2, <3>1 DEF DataAt
    <3> QED  BY <3>2, <3>3, <3>4
  <2>5. /\ doc'.seen = doc.seen /\ doc'.sections = doc.sections /\ FieldsSame
        /\ doc'.y = IF Len(open) = 5 /\ open[5].name = "Y" THEN datum' ELSE doc.y
        /\ doc'.section =
             IF Len(open) = 5 /\ open[5].name = "BlockStates" THEN [doc.section EXCEPT !.states = Append(@, datum')]
             ELSE IF Len(open) = 7 /\ open[5].name = "Palette" /\ TopIs(7, "string", "Name")
             THEN [doc.section EXCEPT !.palette = Append(@, datum')]
             ELSE doc.section
    BY <1>1, <1>2, <2>1, <2>3, <2>4, DocTells DEF FieldsSame
  <2>6. DatumCame  BY <2>1, <2>5 DEF DatumCame
  <2> QED  BY <1>1, <1>2, <2>1, <2>2, <2>5, <2>6
<1>6. CASE Ending
  <2>1. /\ Len(open') = Len(open) - 1 /\ event'[1] = "TAG_END"
        /\ event'[2] = open[Len(open)].type /\ event'[3] = open[Len(open)].name
        /\ \A i \in 1..Len(open') : taken'[i] = taken[i]
        /\ \A i \in 1..Len(open') : open'[i].type = open[i].type /\ open'[i].name = open[i].name
    BY <1>6 DEF Ending, SameTags
  <2>2. Len(open') >= 3  BY <1>2, <1>6, <2>1
  <2>3. InSection(open')  BY <1>2, <2>1, <2>2 DEF InSection
  <2>4. AtPath(open', "Sections") <=> Len(open') = 3  BY <1>2, <2>3, NotAField
  <2>5. /\ FieldsSame /\ doc'.seen = doc.seen
        /\ doc'.sections = IF Len(open') = 3 THEN Stored(doc.sections, doc.y, doc.section) ELSE doc.sections
        /\ Len(open') > 3 => doc'.y = doc.y /\ doc'.section = doc.section
    BY <1>1, <1>2, <2>1, <2>4, DocEnds
  <2>6. TagEnds  BY <2>1, <2>5 DEF TagEnds
  <2> QED  BY <1>1, <1>2, <2>1, <2>3, <2>5, <2>6
<1> QED  BY <1>3, <1>4, <1>5, <1>6

\* What is known in parse_sections(), and what it comes to after an event that leads to
\* a place of parse_sections() again.
LEMMA SectionKnown ==
  ASSUME WholeInv, place \in SectionPlaces
  PROVE  /\ tag_structure = SectionsPath /\ InSection(open) /\ Len(open) = DepthOf
         /\ loaded_fields = doc.seen /\ last_update = doc.last_update
         /\ data_version = doc.data_version /\ biomes = doc.biomes /\ sections = doc.sections
<1>1. InSections3 /\ place \notin {"failed", "fields"}
  BY DEF InSections3, SectionPlaces, InFields, InValue
<1> QED  BY <1>1 DEF WholeInv, SectionInv, KeptInv

LEMMA SectionStays ==
  ASSUME WholeInv, place \in SectionPlaces, InSections, place' \in SectionPlaces,
         doc'.seen = doc.seen, FieldsSame, sections' = doc'.sections,
         SectionInv', ElementInv'
  PROVE  WholeInv'
<1>1. place' \notin InFields \cup InValue \cup {"failed"}
  BY DEF SectionPlaces, InFields, InValue
<1>2. FieldsPlaceInv' /\ ValueInv'  BY <1>1 DEF FieldsPlaceInv, ValueInv, InFields, InValue
<1>3. KeptInv'
  <2>1. place' # "fields"  BY <1>1 DEF InFields
  <2> QED  BY <2>1, SectionKnown DEF KeptInv, FieldsSame, InSections
<1> QED  BY <1>2, <1>3 DEF WholeInv

LEMMA ElementsStep ==
  ASSUME ReadTypes, TreeInv, WholeInv, ~doc.cut, ReadElement
  PROVE  WholeInv'
<1>1. /\ place = "elements" /\ Read /\ InSections /\ y' = NoY
      /\ IF event'[1] = "TAG_END" THEN Return
         ELSE place' = IF event'[1] = "TAG_START" THEN "first" ELSE "failed"
      /\ sections' = sections
  BY DEF ReadElement, Ends, Starts
<1>2. /\ tag_structure = SectionsPath /\ InSection(open) /\ Len(open) = 3
      /\ loaded_fields = doc.seen /\ last_update = doc.last_update
      /\ data_version = doc.data_version /\ biomes = doc.biomes /\ sections = doc.sections
  BY <1>1, SectionKnown DEF SectionPlaces, DepthOf
<1>3. ReadTypes' /\ Happens /\ Tells  BY <1>1, ReadKeepsTypes
<1>4. CASE event'[1] = "TAG_END"
  <2>1. Ending  BY <1>3, <1>4 DEF Happens, Starting, Telling, Closing
  <2>2. open \in Seq(TagSet) /\ open' \in Seq(TagSet) /\ IsDocument(doc)
    BY <1>3 DEF ReadTypes, TagTypes
  <2>3. AtPath(open, "Sections") /\ "Sections" \in Fields  BY <1>2, <2>2, NotAField DEF Fields
  <2>4. tag_structure' = TagNames /\ Return /\ UNCHANGED <<asked, loaded_fields>>
    BY <1>1, <1>2, <1>4, <2>3 DEF AtPath, TagNames, SectionsPath, InSections
  <2>5. /\ FieldsPlaceInv' /\ ValueInv' /\ SectionInv' /\ ElementInv'
        /\ ~AtPath(open', "Sections") /\ place' \in {"idle", "fields"}
    BY <1>3, <2>1, <2>3, <2>4, FieldEnds
  <2>6. FieldsSame /\ doc'.seen = doc.seen /\ doc'.sections = doc.sections
    BY <1>3, <1>4, <2>2, <2>5, DocEnds
  <2>7. KeptInv'  BY <1>1, <1>2, <1>4, <2>6 DEF KeptInv, FieldsSame, InSections
  <2> QED  BY <2>5, <2>7 DEF WholeInv
<1>5. CASE event'[1] = "TAG_START"
  <2>1. ~Ending  BY <1>5 DEF Ending
  <2>2. /\ InSection(open') /\ doc'.seen = doc.seen /\ FieldsSame
        /\ TagStarts \/ DatumCame \/ TagEnds
    BY <1>1, <1>2, <2>1, SectionReads
  <2>3. TagStarts  BY <1>5, <2>2 DEF DatumCame, TagEnds
  <2>4. /\ Len(open') = 4 /\ doc'.sections = doc.sections /\ doc'.y = NoY /\ doc'.section = Empty
    BY <1>2, <2>3 DEF TagStarts
  <2>5. place' = "first" /\ tag_structure' = SectionsPath  BY <1>1, <1>2, <1>5 DEF InSections
  <2>6. SectionInv'
    BY <2>2, <2>4, <2>5 DEF SectionInv, InSections3, DepthOf, InFields, InValue
  <2>7. ElementInv'
    BY <1>1, <2>4, <2>5 DEF ElementInv, InSections3, InFields, InValue
  <2> QED
    BY <1>1, <1>2, <2>2, <2>4, <2>5, <2>6, <2>7, SectionStays DEF SectionPlaces
<1>6. CASE event'[1] \notin {"TAG_START", "TAG_END"}
  <2>1. place' = "failed"  BY <1>1, <1>6
  <2> QED  BY <2>1, FailedIs
<1> QED  BY <1>4, <1>5, <1>6

\* The loop over the tags of an element has turned to one that has started.
LEMMA Turns ==
  ASSUME WholeInv, place \in SectionPlaces, InSections, Turn,
         InSection(open'), Len(open') = 5, event'[1] = "TAG_START",
         event'[2] = open'[5].type, event'[3] = open'[5].name,
         doc'.seen = doc.seen, FieldsSame, sections' = doc'.sections,
         y' = doc'.y, section' = doc'.section
  PROVE  WholeInv'
<1>1. place' = Dispatch(event') /\ level' = IF place' = "skip" THEN 1 ELSE 0
  BY DEF Turn
<1>2. tag_structure' = SectionsPath  BY SectionKnown DEF InSections
<1>3. CASE place' = "failed"  BY <1>3, FailedIs
<1>4. CASE place' # "failed"
  <2>1. place' \in {"states", "palette", "skip", "y"}
    BY <1>1, <1>4 DEF Dispatch
  <2>2. /\ place' = "states" => open'[5].type = "longs" /\ open'[5].name = "BlockStates"
        /\ place' = "palette" => open'[5].type = "list" /\ open'[5].name = "Palette"
        /\ place' = "y" => open'[5].type = "byte" /\ open'[5].name = "Y"
        /\ place' = "skip" => level' = 1 /\ open'[5].name \notin {"BlockStates", "Palette", "Y"}
    BY <1>1, <1>4 DEF Dispatch
  <2>3. SectionInv'
    BY <1>2, <2>1, <2>2 DEF SectionInv, InSections3, DepthOf, InFields, InValue, TopIs
  <2>4. ElementInv'
    BY <2>1 DEF ElementInv, InSections3, InFields, InValue
  <2>5. place' \in SectionPlaces  BY <2>1 DEF SectionPlaces
  <2> QED  BY <2>3, <2>4, <2>5, SectionStays
<1> QED  BY <1>3, <1>4

LEMMA FirstStep ==
  ASSUME ReadTypes, TreeInv, WholeInv, ~doc.cut, ReadFirst
  PROVE  WholeInv'
<1>1. /\ place = "first" /\ Read /\ InSections
      /\ IF event'[1] = "TAG_END" THEN place' = "elements"
         ELSE IF event'[1] # "TAG_START" THEN place' = "failed"
         ELSE IF event'[2] = "byte" /\ event'[3] = "Y" THEN place' = "firstY"
         ELSE Turn
      /\ section' = Empty /\ sections' = sections /\ y' = y
  BY DEF ReadFirst, Ends, Starts
<1>2. /\ tag_structure = SectionsPath /\ InSection(open) /\ Len(open) = 4
      /\ sections = doc.sections /\ place \in SectionPlaces
  BY <1>1, SectionKnown DEF SectionPlaces, DepthOf
<1>3. y = NoY /\ doc.y = NoY /\ doc.section = Empty  BY <1>1 DEF WholeInv, ElementInv
<1>4. /\ ReadTypes' /\ InSection(open') /\ doc'.seen = doc.seen /\ FieldsSame
      /\ \A i \in 1..Len(open) : i <= Len(open') =>
           open'[i].type = open[i].type /\ open'[i].name = open[i].name
      /\ TagStarts \/ DatumCame \/ TagEnds
  BY <1>1, <1>2, SectionReads
<1>5. CASE TagStarts
  <2>1. /\ Len(open') = 5 /\ event'[1] = "TAG_START" /\ event'[2] = open'[5].type
        /\ event'[3] = open'[5].name
        /\ doc'.sections = doc.sections /\ doc'.y = NoY /\ doc'.section = Empty
        /\ open[4].type \in Holders
        /\ open[4].type = "list" => event'[3] = Stream!Unnamed
        /\ open[4].type = "compound" => event'[3] \in taken'[4]
        /\ open'[4].type = open[4].type
    BY <1>2, <1>3, <1>4, <1>5 DEF TagStarts
  <2>2. CASE event'[2] = "byte" /\ event'[3] = "Y"
    <3>1. place' = "firstY" /\ tag_structure' = SectionsPath
      BY <1>1, <1>2, <2>1, <2>2 DEF InSections
    <3>2. open'[4].type = "compound" /\ "Y" \in taken'[4]
      BY <2>1, <2>2, UnnamedIsOther DEF Holders
    <3>3. SectionInv'
      BY <1>4, <2>1, <2>2, <3>1, <3>2 DEF SectionInv, InSections3, DepthOf, InFields, InValue, TopIs
    <3>4. ElementInv'
      BY <1>1, <2>1, <3>1 DEF ElementInv, InSections3, InFields, InValue
    <3> QED
      BY <1>1, <1>2, <1>4, <2>1, <3>1, <3>3, <3>4, SectionStays DEF SectionPlaces
  <2>3. CASE ~(event'[2] = "byte" /\ event'[3] = "Y")
    <3>1. Turn  BY <1>1, <2>1, <2>3
    <3> QED  BY <1>1, <1>2, <1>3, <1>4, <2>1, <3>1, Turns
  <2> QED  BY <2>2, <2>3
<1>6. CASE DatumCame
  <2>1. place' = "failed"  BY <1>1, <1>6 DEF DatumCame
  <2> QED  BY <2>1, FailedIs
<1>7. CASE TagEnds
  <2>1. Len(open') = 3 /\ event'[1] = "TAG_END" /\ doc'.sections = Stored(doc.sections, NoY, Empty)
    BY <1>2, <1>3, <1>7 DEF TagEnds
  <2>2. doc'.sections = doc.sections  BY <2>1, ValuesAssumption DEF Stored
  <2>3. place' = "elements" /\ tag_structure' = SectionsPath  BY <1>1, <1>2, <2>1 DEF InSections
  <2>4. SectionInv'
    BY <1>4, <2>1, <2>3 DEF SectionInv, InSections3, DepthOf, InFields, InValue
  <2>5. ElementInv'
    BY <2>3 DEF ElementInv, InSections3, InFields, InValue
  <2> QED
    BY <1>1, <1>2, <1>4, <2>2, <2>3, <2>4, <2>5, SectionStays DEF SectionPlaces
<1> QED  BY <1>4, <1>5, <1>6, <1>7

\* What an event comes to, at any place but between the elements.
LEMMA AtSection ==
  ASSUME ReadTypes, TreeInv, WholeInv, ~doc.cut, place \in SectionPlaces \ {"elements"},
         level \in Nat, Read, InSections
  PROVE  /\ tag_structure' = SectionsPath /\ InSection(open) /\ Len(open) = DepthOf
         /\ sections = doc.sections
         /\ InSection(open') /\ Len(open) \in Nat /\ Len(open') \in Nat
         /\ \A i \in 1..Len(open) : i <= Len(open') =>
              open'[i].type = open[i].type /\ open'[i].name = open[i].name
         /\ doc'.seen = doc.seen /\ FieldsSame
         /\ TagStarts \/ DatumCame \/ TagEnds
         /\ event[1] = "TAG_START" /\ open[Len(open)].type \in Scalars => DatumCame
         /\ event[1] = "DATA" /\ open[Len(open)].type \in Scalars => TagEnds
<1>1. /\ tag_structure = SectionsPath /\ InSection(open) /\ Len(open) = DepthOf
      /\ sections = doc.sections
  BY SectionKnown
<1>2. Len(open) > 3
  <2>1. place \in {"discard", "skip", "skipInEntry"} => level > 0
    BY DEF WholeInv, SectionInv, InSections3, InFields, InValue
  <2> QED  BY <1>1, <2>1 DEF DepthOf, SectionPlaces
<1>3. /\ InSection(open') /\ Len(open) \in Nat /\ Len(open') \in Nat
      /\ \A i \in 1..Len(open) : i <= Len(open') =>
           open'[i].type = open[i].type /\ open'[i].name = open[i].name
      /\ doc'.seen = doc.seen /\ FieldsSame
      /\ TagStarts \/ DatumCame \/ TagEnds
  BY <1>1, <1>2, SectionReads
<1>4. Happens  BY ReadKeepsTypes
<1>5. open # <<>>
  <2>1. Len(<<>>) = 0  OBVIOUS
  <2> QED  BY <1>2, <2>1
<1>6. /\ event[1] = "TAG_START" /\ open[Len(open)].type \in Scalars => ~Ending
      /\ event[1] = "DATA" /\ open[Len(open)].type \in Scalars => Ending
  BY <1>4, <1>5, WholeReads
<1>7. /\ TagStarts => event'[1] = "TAG_START" /\ open[Len(open)].type \in Holders
      /\ DatumCame => event'[1] = "DATA"
      /\ TagEnds => event'[1] = "TAG_END"
  BY DEF TagStarts, DatumCame, TagEnds
<1>8. Ending <=> event'[1] = "TAG_END"
  BY <1>4 DEF Happens, Starting, Telling, Ending, Closing
<1>9. \A t \in Scalars : t \notin Holders  BY TypesAssumption DEF Holders
<1>10. tag_structure' = SectionsPath  BY <1>1 DEF InSections
<1> QED  BY <1>1, <1>3, <1>6, <1>7, <1>8, <1>9, <1>10

LEMMA FirstYStep ==
  ASSUME ReadTypes, TreeInv, WholeInv, ~doc.cut, level \in Nat, ReadFirstY
  PROVE  WholeInv'
<1>1. /\ place = "firstY" /\ Read /\ InSections /\ y' = datum'
      /\ IF datum' >= SectionCount THEN place' = "discard" /\ level' = 2
         ELSE place' = "firstYEnd" /\ level' = level
      /\ section' = section /\ sections' = sections
  BY DEF ReadFirstY
<1>2. /\ place \in SectionPlaces \ {"elements"} /\ DepthOf = 5  BY <1>1 DEF SectionPlaces, DepthOf
<1>3. /\ tag_structure' = SectionsPath /\ InSection(open) /\ Len(open) = 5
      /\ sections = doc.sections /\ InSection(open') /\ Len(open') \in Nat
      /\ \A i \in 1..Len(open) : i <= Len(open') =>
           open'[i].type = open[i].type /\ open'[i].name = open[i].name
      /\ doc'.seen = doc.seen /\ FieldsSame
      /\ event[1] = "TAG_START" /\ open[5].type \in Scalars => DatumCame
  BY <1>1, <1>2, AtSection
<1>4. /\ open[5].type = "byte" /\ open[5].name = "Y" /\ event[1] = "TAG_START"
      /\ open[4].type = "compound" /\ "Y" \in taken[4]
      /\ section = doc.section
  BY <1>1 DEF WholeInv, SectionInv, ElementInv, TopIs, InSections3, InFields, InValue
<1>5. DatumCame  BY <1>3, <1>4, TypesAssumption
<1>6. /\ Len(open') = 5 /\ event'[1] = "DATA" /\ taken' = taken /\ datum' \in Values["byte"]
      /\ doc'.sections = doc.sections /\ doc'.y = datum' /\ doc'.section = doc.section
      /\ open'[5].type = "byte" /\ open'[5].name = "Y" /\ open'[4].type = "compound"
  BY <1>3, <1>4, <1>5 DEF DatumCame
<1>7. SectionInv' /\ ElementInv' /\ place' \in SectionPlaces
  <2>1. CASE datum' >= SectionCount
    <3>1. place' = "discard" /\ level' = 2  BY <1>1, <2>1
    <3>2. ~(doc'.y < SectionCount)  BY <1>6, <2>1, ValuesAssumption
    <3>3. SectionInv'
      BY <1>3, <1>4, <1>6, <3>1 DEF SectionInv, InSections3, DepthOf, InFields, InValue, TopIs
    <3>4. ElementInv'  BY <3>1, <3>2 DEF ElementInv, InSections3, InFields, InValue
    <3> QED  BY <3>1, <3>3, <3>4 DEF SectionPlaces
  <2>2. CASE ~(datum' >= SectionCount)
    <3>1. place' = "firstYEnd"  BY <1>1, <2>2
    <3>2. SectionInv'
      BY <1>3, <1>4, <1>6, <3>1 DEF SectionInv, InSections3, DepthOf, InFields, InValue, TopIs
    <3>3. ElementInv'
      BY <1>1, <1>4, <1>6, <3>1 DEF ElementInv, InSections3, InFields, InValue
    <3> QED  BY <3>1, <3>2, <3>3 DEF SectionPlaces
  <2> QED  BY <2>1, <2>2
<1> QED  BY <1>1, <1>2, <1>3, <1>6, <1>7, SectionStays

LEMMA DiscardStep ==
  ASSUME ReadTypes, TreeInv, WholeInv, ~doc.cut, level \in Nat, Discard
  PROVE  WholeInv'
<1>1. /\ place = "discard" /\ Read /\ InSections /\ level' = Level
      /\ place' = IF level' = 0 THEN "elements" ELSE place
      /\ section' = section /\ sections' = sections /\ y' = y
  BY DEF Discard
<1>2. /\ place \in SectionPlaces \ {"elements"} /\ DepthOf = level + 3  BY <1>1 DEF SectionPlaces, DepthOf
<1>3. /\ tag_structure' = SectionsPath /\ InSection(open) /\ Len(open) = level + 3
      /\ sections = doc.sections /\ InSection(open') /\ Len(open') \in Nat
      /\ \A i \in 1..Len(open) : i <= Len(open') =>
           open'[i].type = open[i].type /\ open'[i].name = open[i].name
      /\ doc'.seen = doc.seen /\ FieldsSame
      /\ TagStarts \/ DatumCame \/ TagEnds
      /\ event[1] = "DATA" /\ open[Len(open)].type \in Scalars => TagEnds
  BY <1>1, <1>2, AtSection
<1>4. /\ level > 0 /\ open[4].type = "compound" /\ "Y" \in taken[4]
      /\ Len(open) >= 5 /\ open[5].name = "Y" =>
           Len(open) = 5 /\ event[1] = "DATA" /\ open[5].type = "byte"
      /\ ~(doc.y < SectionCount)
  BY <1>1 DEF WholeInv, SectionInv, ElementInv, InSections3, InFields, InValue
<1>5. "byte" \in Scalars  BY TypesAssumption
<1>6. CASE TagStarts
  <2>1. /\ Len(open') = level + 4 /\ level' = level + 1 /\ event'[3] = open'[Len(open')].name
        /\ open[Len(open)].type = "compound" => event'[3] \notin taken[Len(open)]
        /\ \A i \in 1..Len(open) : taken[i] \subseteq taken'[i]
        /\ doc'.sections = doc.sections /\ doc'.y = doc.y
    BY <1>1, <1>3, <1>4, <1>6 DEF TagStarts, Level, Starts
  <2>2. place' = "discard" /\ level' > 0  BY <1>1, <1>4, <2>1
  <2>3. "Y" \in taken'[4] /\ open'[4].type = "compound"
    BY <1>3, <1>4, <2>1
  <2>4. Len(open') >= 5 => open'[5].name # "Y"
    <3>1. CASE Len(open) = 4
      <4>1. event'[3] \notin taken[4]  BY <1>4, <2>1, <3>1
      <4>2. event'[3] # "Y"  BY <1>4, <4>1
      <4>3. Len(open') = 5
        <5>1. \A n \in Nat : n + 3 = 4 => n + 4 = 5  OBVIOUS
        <5>2. level + 3 = 4 /\ Len(open') = level + 4  BY <1>3, <2>1, <3>1, Zenon
        <5> QED  BY <5>1, <5>2, Zenon
      <4> QED  BY <2>1, <4>2, <4>3
    <3>2. CASE Len(open) # 4
      <4>1. Len(open) >= 5  BY <1>3, <1>4, <3>2
      <4>2. open'[5].name = open[5].name  BY <1>3, <2>1, <4>1
      <4>3. open[5].name # "Y"
        <5> SUFFICES ASSUME open[5].name = "Y"  PROVE FALSE
          OBVIOUS
        <5>1. Len(open) = 5 /\ event[1] = "DATA" /\ open[5].type = "byte"  BY <1>4, <4>1
        <5>2. TagEnds  BY <1>3, <1>5, <5>1
        <5> QED  BY <1>6, <5>2 DEF TagStarts, TagEnds
      <4> QED  BY <4>2, <4>3
    <3> QED  BY <3>1, <3>2
  <2>5. SectionInv'
    BY <1>3, <2>1, <2>2, <2>3, <2>4 DEF SectionInv, InSections3, DepthOf, InFields, InValue
  <2>6. ElementInv'
    BY <1>4, <2>1, <2>2 DEF ElementInv, InSections3, InFields, InValue
  <2> QED
    BY <1>1, <1>2, <1>3, <2>1, <2>2, <2>5, <2>6, SectionStays DEF SectionPlaces
<1>7. CASE DatumCame
  <2>1. /\ Len(open') = level + 3 /\ level' = level /\ event'[1] = "DATA"
        /\ taken' = taken /\ doc'.sections = doc.sections
        /\ doc'.y = IF Len(open) = 5 /\ open[5].name = "Y" THEN datum' ELSE doc.y
    BY <1>1, <1>3, <1>7 DEF DatumCame, Level, Starts, Ends
  <2>2. place' = "discard"  BY <1>1, <1>4, <2>1
  <2>3. Len(open) >= 5 => open[5].name # "Y"
    <3> SUFFICES ASSUME Len(open) >= 5, open[5].name = "Y"  PROVE FALSE
      OBVIOUS
    <3>1. Len(open) = 5 /\ event[1] = "DATA" /\ open[5].type = "byte"  BY <1>4
    <3>2. TagEnds  BY <1>3, <1>5, <3>1
    <3> QED  BY <1>7, <3>2 DEF DatumCame, TagEnds
  <2>4. doc'.y = doc.y  BY <2>1, <2>3
  <2>5. Len(open') >= 5 => open'[5].name # "Y"  BY <1>3, <2>1, <2>3
  <2>6. "Y" \in taken'[4] /\ open'[4].type = "compound"  BY <1>3, <1>4, <2>1
  <2>7. SectionInv'
    BY <1>3, <1>4, <2>1, <2>2, <2>5, <2>6 DEF SectionInv, InSections3, DepthOf, InFields, InValue
  <2>8. ElementInv'
    BY <1>4, <2>2, <2>4 DEF ElementInv, InSections3, InFields, InValue
  <2> QED
    BY <1>1, <1>2, <1>3, <2>1, <2>2, <2>7, <2>8, SectionStays DEF SectionPlaces
<1>8. CASE TagEnds
  <2>1. /\ Len(open') = level + 2 /\ level' = level - 1
        /\ \A i \in 1..Len(open') : taken'[i] = taken[i]
        /\ doc'.sections = IF Len(open') = 3 THEN Stored(doc.sections, doc.y, doc.section) ELSE doc.sections
        /\ Len(open') > 3 => doc'.y = doc.y
    BY <1>1, <1>3, <1>4, <1>8 DEF TagEnds, Level, Starts, Ends
  <2>2. doc'.sections = doc.sections  BY <1>4, <2>1 DEF Stored
  <2>3. CASE level' = 0
    <3>1. place' = "elements" /\ Len(open') = 3  BY <1>1, <1>4, <2>1, <2>3
    <3>2. SectionInv'
      BY <1>3, <3>1 DEF SectionInv, InSections3, DepthOf, InFields, InValue
    <3>3. ElementInv'  BY <3>1 DEF ElementInv, InSections3, InFields, InValue
    <3> QED
      BY <1>1, <1>2, <1>3, <2>2, <3>1, <3>2, <3>3, SectionStays DEF SectionPlaces
  <2>4. CASE level' # 0
    <3>1. place' = "discard" /\ level' > 0 /\ Len(open') > 3  BY <1>1, <1>4, <2>1, <2>4
    <3>2. "Y" \in taken'[4] /\ open'[4].type = "compound"  BY <1>3, <1>4, <2>1, <3>1
    <3>3. Len(open') >= 5 => open'[5].name # "Y"
      <4> SUFFICES ASSUME Len(open') >= 5, open'[5].name = "Y"  PROVE FALSE
        OBVIOUS
      <4>1. Len(open) > 5 /\ open[5].name = "Y"  BY <1>3, <2>1
      <4>2. Len(open) >= 5 /\ Len(open) # 5  BY <1>3, <4>1
      <4> QED  BY <1>4, <4>1, <4>2
    <3>4. SectionInv'
      BY <1>3, <2>1, <3>1, <3>2, <3>3 DEF SectionInv, InSections3, DepthOf, InFields, InValue
    <3>5. ElementInv'
      BY <1>4, <2>1, <3>1 DEF ElementInv, InSections3, InFields, InValue
    <3> QED
      BY <1>1, <1>2, <1>3, <2>2, <3>1, <3>4, <3>5, SectionStays DEF SectionPlaces
  <2> QED  BY <2>3, <2>4
<1> QED  BY <1>3, <1>6, <1>7, <1>8

LEMMA FirstYEndStep ==
  ASSUME ReadTypes, TreeInv, WholeInv, ~doc.cut, level \in Nat, ReadFirstYEnd
  PROVE  WholeInv'
<1>1. /\ place = "firstYEnd" /\ Read /\ InSections /\ Turn
      /\ section' = section /\ sections' = sections /\ y' = y
  BY DEF ReadFirstYEnd
<1>2. /\ place \in SectionPlaces \ {"elements"} /\ DepthOf = 5  BY <1>1 DEF SectionPlaces, DepthOf
<1>3. /\ tag_structure' = SectionsPath /\ Len(open) = 5
      /\ sections = doc.sections /\ InSection(open')
      /\ doc'.seen = doc.seen /\ FieldsSame
      /\ event[1] = "DATA" /\ open[5].type \in Scalars => TagEnds
  BY <1>1, <1>2, AtSection
<1>4. /\ open[5].type = "byte" /\ open[5].name = "Y" /\ event[1] = "DATA"
      /\ section = doc.section /\ y = doc.y
  BY <1>1 DEF WholeInv, SectionInv, ElementInv, TopIs, InSections3, InFields, InValue
<1>5. TagEnds  BY <1>3, <1>4, TypesAssumption
<1>6. /\ Len(open') = 4 /\ event'[1] = "TAG_END" /\ event'[2] = "byte" /\ event'[3] = "Y"
      /\ doc'.sections = doc.sections /\ doc'.y = doc.y /\ doc'.section = doc.section
  BY <1>3, <1>4, <1>5 DEF TagEnds
<1>7. place' = "after"  BY <1>1, <1>6 DEF Turn, Dispatch
<1>8. SectionInv'
  BY <1>3, <1>6, <1>7 DEF SectionInv, InSections3, DepthOf, InFields, InValue
<1>9. ElementInv'
  BY <1>1, <1>4, <1>6, <1>7 DEF ElementInv, InSections3, InFields, InValue
<1> QED  BY <1>1, <1>2, <1>3, <1>6, <1>7, <1>8, <1>9, SectionStays DEF SectionPlaces

LEMMA StateStep ==
  ASSUME ReadTypes, TreeInv, WholeInv, ~doc.cut, level \in Nat, ReadState
  PROVE  WholeInv'
<1>1. /\ place = "states" /\ Read /\ InSections
      /\ IF event'[1] = "DATA" THEN section' = [section EXCEPT !.states = Append(@, datum')] /\ place' = place
         ELSE place' = "after" /\ section' = section
      /\ sections' = sections /\ y' = y
  BY DEF ReadState, IsDatum
<1>2. /\ place \in SectionPlaces \ {"elements"} /\ DepthOf = 5  BY <1>1 DEF SectionPlaces, DepthOf
<1>3. /\ tag_structure' = SectionsPath /\ Len(open) = 5
      /\ sections = doc.sections /\ InSection(open')
      /\ \A i \in 1..Len(open) : i <= Len(open') =>
           open'[i].type = open[i].type /\ open'[i].name = open[i].name
      /\ doc'.seen = doc.seen /\ FieldsSame
      /\ TagStarts \/ DatumCame \/ TagEnds
  BY <1>1, <1>2, AtSection
<1>4. /\ open[5].type = "longs" /\ open[5].name = "BlockStates"
      /\ section = doc.section /\ y = doc.y
  BY <1>1 DEF WholeInv, SectionInv, ElementInv, TopIs, InSections3, InFields, InValue
<1>5. CASE TagStarts
  <2>1. open[5].type \in Holders  BY <1>3, <1>5 DEF TagStarts
  <2> QED  BY <1>4, <2>1 DEF Holders
<1>6. CASE DatumCame
  <2>1. /\ Len(open') = 5 /\ event'[1] = "DATA" /\ doc'.sections = doc.sections /\ doc'.y = doc.y
        /\ doc'.section = [doc.section EXCEPT !.states = Append(@, datum')]
        /\ open'[5].type = "longs" /\ open'[5].name = "BlockStates"
    BY <1>3, <1>4, <1>6 DEF DatumCame
  <2>2. place' = "states" /\ section' = doc'.section  BY <1>1, <1>4, <2>1
  <2>3. SectionInv'
    BY <1>3, <2>1, <2>2 DEF SectionInv, InSections3, DepthOf, InFields, InValue, TopIs
  <2>4. ElementInv'
    BY <1>1, <1>4, <2>1, <2>2 DEF ElementInv, InSections3, InFields, InValue
  <2> QED  BY <1>1, <1>2, <1>3, <2>1, <2>2, <2>3, <2>4, SectionStays DEF SectionPlaces
<1>7. CASE TagEnds
  <2>1. /\ Len(open') = 4 /\ event'[1] = "TAG_END" /\ doc'.sections = doc.sections
        /\ doc'.y = doc.y /\ doc'.section = doc.section
    BY <1>3, <1>7 DEF TagEnds
  <2>2. place' = "after" /\ section' = section  BY <1>1, <2>1
  <2>3. SectionInv'
    BY <1>3, <2>1, <2>2 DEF SectionInv, InSections3, DepthOf, InFields, InValue
  <2>4. ElementInv'
    BY <1>1, <1>4, <2>1, <2>2 DEF ElementInv, InSections3, InFields, InValue
  <2> QED  BY <1>1, <1>2, <1>3, <2>1, <2>2, <2>3, <2>4, SectionStays DEF SectionPlaces
<1> QED  BY <1>3, <1>5, <1>6, <1>7

LEMMA PaletteStep ==
  ASSUME ReadTypes, TreeInv, WholeInv, ~doc.cut, level \in Nat, ReadPalette
  PROVE  WholeInv'
<1>1. /\ place = "palette" /\ Read /\ InSections
      /\ place' = IF event'[1] = "TAG_END" THEN "after" ELSE "entry"
      /\ section' = section /\ sections' = sections /\ y' = y
  BY DEF ReadPalette, Ends, locals
<1>2. /\ place \in SectionPlaces \ {"elements"} /\ DepthOf = 5  BY <1>1 DEF SectionPlaces, DepthOf
<1>3. /\ tag_structure' = SectionsPath /\ Len(open) = 5
      /\ sections = doc.sections /\ InSection(open')
      /\ \A i \in 1..Len(open) : i <= Len(open') =>
           open'[i].type = open[i].type /\ open'[i].name = open[i].name
      /\ doc'.seen = doc.seen /\ FieldsSame
      /\ TagStarts \/ DatumCame \/ TagEnds
  BY <1>1, <1>2, AtSection
<1>4. /\ open[5].type = "list" /\ open[5].name = "Palette"
      /\ section = doc.section /\ y = doc.y
  BY <1>1 DEF WholeInv, SectionInv, ElementInv, TopIs, InSections3, InFields, InValue
<1>5. CASE TagStarts
  <2>1. /\ Len(open') = 6 /\ event'[1] = "TAG_START" /\ doc'.sections = doc.sections
        /\ doc'.y = doc.y /\ doc'.section = doc.section
        /\ open'[5].type = "list" /\ open'[5].name = "Palette"
    BY <1>3, <1>4, <1>5 DEF TagStarts
  <2>2. place' = "entry"  BY <1>1, <2>1
  <2>3. SectionInv'
    BY <1>3, <2>1, <2>2 DEF SectionInv, InSections3, DepthOf, InFields, InValue, TopIs
  <2>4. ElementInv'
    BY <1>1, <1>4, <2>1, <2>2 DEF ElementInv, InSections3, InFields, InValue
  <2> QED  BY <1>1, <1>2, <1>3, <2>1, <2>2, <2>3, <2>4, SectionStays DEF SectionPlaces
<1>6. CASE DatumCame
  <2>1. open[5].type \notin Holders  BY <1>3, <1>6 DEF DatumCame
  <2> QED  BY <1>4, <2>1 DEF Holders
<1>7. CASE TagEnds
  <2>1. /\ Len(open') = 4 /\ event'[1] = "TAG_END" /\ doc'.sections = doc.sections
        /\ doc'.y = doc.y /\ doc'.section = doc.section
    BY <1>3, <1>7 DEF TagEnds
  <2>2. place' = "after"  BY <1>1, <2>1
  <2>3. SectionInv'
    BY <1>3, <2>1, <2>2 DEF SectionInv, InSections3, DepthOf, InFields, InValue
  <2>4. ElementInv'
    BY <1>1, <1>4, <2>1, <2>2 DEF ElementInv, InSections3, InFields, InValue
  <2> QED  BY <1>1, <1>2, <1>3, <2>1, <2>2, <2>3, <2>4, SectionStays DEF SectionPlaces
<1> QED  BY <1>3, <1>5, <1>6, <1>7

LEMMA EntryStep ==
  ASSUME ReadTypes, TreeInv, WholeInv, ~doc.cut, level \in Nat, ReadEntry
  PROVE  WholeInv'
<1>1. /\ place = "entry" /\ Read /\ InSections
      /\ place' = IF event'[1] = "TAG_END" THEN "palette"
                  ELSE IF event'[1] # "TAG_START" THEN place
                  ELSE IF event'[2] = "string" /\ event'[3] = "Name" THEN "name" ELSE "skipInEntry"
      /\ level' = IF place' = "skipInEntry" THEN 1 ELSE 0
      /\ section' = section /\ sections' = sections /\ y' = y
  BY DEF ReadEntry, Ends, Starts
<1>2. /\ place \in SectionPlaces \ {"elements"} /\ DepthOf = 6  BY <1>1 DEF SectionPlaces, DepthOf
<1>3. /\ tag_structure' = SectionsPath /\ Len(open) = 6
      /\ sections = doc.sections /\ InSection(open')
      /\ \A i \in 1..Len(open) : i <= Len(open') =>
           open'[i].type = open[i].type /\ open'[i].name = open[i].name
      /\ doc'.seen = doc.seen /\ FieldsSame
      /\ TagStarts \/ DatumCame \/ TagEnds
  BY <1>1, <1>2, AtSection
<1>4. /\ open[5].type = "list" /\ open[5].name = "Palette"
      /\ section = doc.section /\ y = doc.y
  BY <1>1 DEF WholeInv, SectionInv, ElementInv, TopIs, InSections3, InFields, InValue
<1>5. CASE TagStarts
  <2>1. /\ Len(open') = 7 /\ event'[1] = "TAG_START" /\ doc'.sections = doc.sections
        /\ event'[2] = open'[7].type /\ event'[3] = open'[7].name
        /\ doc'.y = doc.y /\ doc'.section = doc.section
        /\ open'[5].type = "list" /\ open'[5].name = "Palette"
    BY <1>3, <1>4, <1>5 DEF TagStarts
  <2>2. \/ place' = "name" /\ open'[7].type = "string" /\ open'[7].name = "Name"
        \/ place' = "skipInEntry" /\ level' = 1 /\ ~(open'[7].type = "string" /\ open'[7].name = "Name")
    BY <1>1, <2>1
  <2>3. SectionInv'
    BY <1>3, <2>1, <2>2 DEF SectionInv, InSections3, DepthOf, InFields, InValue, TopIs
  <2>4. ElementInv'
    BY <1>1, <1>4, <2>1, <2>2 DEF ElementInv, InSections3, InFields, InValue
  <2> QED  BY <1>1, <1>2, <1>3, <2>1, <2>2, <2>3, <2>4, SectionStays DEF SectionPlaces
<1>6. CASE DatumCame
  <2>1. /\ Len(open') = 6 /\ event'[1] = "DATA" /\ doc'.sections = doc.sections
        /\ doc'.y = doc.y /\ doc'.section = doc.section
        /\ open'[5].type = "list" /\ open'[5].name = "Palette"
    BY <1>3, <1>4, <1>6 DEF DatumCame
  <2>2. place' = "entry"  BY <1>1, <2>1
  <2>3. SectionInv'
    BY <1>3, <2>1, <2>2 DEF SectionInv, InSections3, DepthOf, InFields, InValue, TopIs
  <2>4. ElementInv'
    BY <1>1, <1>4, <2>1, <2>2 DEF ElementInv, InSections3, InFields, InValue
  <2> QED  BY <1>1, <1>2, <1>3, <2>1, <2>2, <2>3, <2>4, SectionStays DEF SectionPlaces
<1>7. CASE TagEnds
  <2>1. /\ Len(open') = 5 /\ event'[1] = "TAG_END" /\ doc'.sections = doc.sections
        /\ doc'.y = doc.y /\ doc'.section = doc.section
        /\ open'[5].type = "list" /\ open'[5].name = "Palette"
    BY <1>3, <1>4, <1>7 DEF TagEnds
  <2>2. place' = "palette"  BY <1>1, <2>1
  <2>3. SectionInv'
    BY <1>3, <2>1, <2>2 DEF SectionInv, InSections3, DepthOf, InFields, InValue, TopIs
  <2>4. ElementInv'
    BY <1>1, <1>4, <2>1, <2>2 DEF ElementInv, InSections3, InFields, InValue
  <2> QED  BY <1>1, <1>2, <1>3, <2>1, <2>2, <2>3, <2>4, SectionStays DEF SectionPlaces
<1> QED  BY <1>3, <1>5, <1>6, <1>7

LEMMA NameStep ==
  ASSUME ReadTypes, TreeInv, WholeInv, ~doc.cut, level \in Nat, ReadName
  PROVE  WholeInv'
<1>1. /\ place = "name" /\ Read /\ InSections
      /\ section' = [section EXCEPT !.palette = Append(@, datum')]
      /\ place' = "nameEnd" \/ (event'[1] # "DATA" /\ place' = "failed")
      /\ sections' = sections /\ y' = y
  BY DEF ReadName, IsDatum
<1>2. /\ place \in SectionPlaces \ {"elements"} /\ DepthOf = 7  BY <1>1 DEF SectionPlaces, DepthOf
<1>3. /\ tag_structure' = SectionsPath /\ Len(open) = 7
      /\ sections = doc.sections /\ InSection(open')
      /\ \A i \in 1..Len(open) : i <= Len(open') =>
           open'[i].type = open[i].type /\ open'[i].name = open[i].name
      /\ doc'.seen = doc.seen /\ FieldsSame
      /\ event[1] = "TAG_START" /\ open[7].type \in Scalars => DatumCame
  BY <1>1, <1>2, AtSection
<1>4. /\ open[5].type = "list" /\ open[5].name = "Palette"
      /\ open[7].type = "string" /\ open[7].name = "Name" /\ event[1] = "TAG_START"
      /\ section = doc.section /\ y = doc.y
  BY <1>1 DEF WholeInv, SectionInv, ElementInv, TopIs, InSections3, InFields, InValue
<1>5. DatumCame  BY <1>3, <1>4, TypesAssumption
<1>6. /\ Len(open') = 7 /\ event'[1] = "DATA" /\ doc'.sections = doc.sections /\ doc'.y = doc.y
      /\ doc'.section = [doc.section EXCEPT !.palette = Append(@, datum')]
      /\ open'[5].type = "list" /\ open'[5].name = "Palette"
      /\ open'[7].type = "string" /\ open'[7].name = "Name"
  BY <1>3, <1>4, <1>5 DEF DatumCame, TopIs
<1>7. place' = "nameEnd" /\ section' = doc'.section  BY <1>1, <1>4, <1>6
<1>8. SectionInv'
  BY <1>3, <1>6, <1>7 DEF SectionInv, InSections3, DepthOf, InFields, InValue, TopIs
<1>9. ElementInv'
  BY <1>1, <1>4, <1>6, <1>7 DEF ElementInv, InSections3, InFields, InValue
<1> QED  BY <1>1, <1>2, <1>3, <1>6, <1>7, <1>8, <1>9, SectionStays DEF SectionPlaces

LEMMA NameEndStep ==
  ASSUME ReadTypes, TreeInv, WholeInv, ~doc.cut, level \in Nat, ReadNameEnd
  PROVE  WholeInv'
<1>1. /\ place = "nameEnd" /\ Read /\ InSections /\ place' = "entry"
      /\ section' = section /\ sections' = sections /\ y' = y
  BY DEF ReadNameEnd, locals
<1>2. /\ place \in SectionPlaces \ {"elements"} /\ DepthOf = 7  BY <1>1 DEF SectionPlaces, DepthOf
<1>3. /\ tag_structure' = SectionsPath /\ Len(open) = 7
      /\ sections = doc.sections /\ InSection(open')
      /\ \A i \in 1..Len(open) : i <= Len(open') =>
           open'[i].type = open[i].type /\ open'[i].name = open[i].name
      /\ doc'.seen = doc.seen /\ FieldsSame
      /\ event[1] = "DATA" /\ open[7].type \in Scalars => TagEnds
  BY <1>1, <1>2, AtSection
<1>4. /\ open[5].type = "list" /\ open[5].name = "Palette"
      /\ open[7].type = "string" /\ event[1] = "DATA"
      /\ section = doc.section /\ y = doc.y
  BY <1>1 DEF WholeInv, SectionInv, ElementInv, TopIs, InSections3, InFields, InValue
<1>5. TagEnds  BY <1>3, <1>4, TypesAssumption
<1>6. /\ Len(open') = 6 /\ event'[1] = "TAG_END" /\ doc'.sections = doc.sections
      /\ doc'.y = doc.y /\ doc'.section = doc.section
      /\ open'[5].type = "list" /\ open'[5].name = "Palette"
  BY <1>3, <1>4, <1>5 DEF TagEnds
<1>7. SectionInv'
  BY <1>1, <1>3, <1>6 DEF SectionInv, InSections3, DepthOf, InFields, InValue, TopIs
<1>8. ElementInv'
  BY <1>1, <1>4, <1>6 DEF ElementInv, InSections3, InFields, InValue
<1> QED  BY <1>1, <1>2, <1>3, <1>6, <1>7, <1>8, SectionStays DEF SectionPlaces

LEMMA YStep ==
  ASSUME ReadTypes, TreeInv, WholeInv, ~doc.cut, level \in Nat, ReadY
  PROVE  WholeInv'
<1>1. /\ place = "y" /\ Read /\ InSections /\ y' = datum' /\ place' = "yEnd"
      /\ section' = section /\ sections' = sections
  BY DEF ReadY
<1>2. /\ place \in SectionPlaces \ {"elements"} /\ DepthOf = 5  BY <1>1 DEF SectionPlaces, DepthOf
<1>3. /\ tag_structure' = SectionsPath /\ Len(open) = 5
      /\ sections = doc.sections /\ InSection(open')
      /\ \A i \in 1..Len(open) : i <= Len(open') =>
           open'[i].type = open[i].type /\ open'[i].name = open[i].name
      /\ doc'.seen = doc.seen /\ FieldsSame
      /\ event[1] = "TAG_START" /\ open[5].type \in Scalars => DatumCame
  BY <1>1, <1>2, AtSection
<1>4. /\ open[5].type = "byte" /\ open[5].name = "Y" /\ event[1] = "TAG_START"
      /\ section = doc.section
  BY <1>1 DEF WholeInv, SectionInv, ElementInv, TopIs, InSections3, InFields, InValue
<1>5. DatumCame  BY <1>3, <1>4, TypesAssumption
<1>6. /\ Len(open') = 5 /\ event'[1] = "DATA" /\ doc'.sections = doc.sections
      /\ doc'.y = datum' /\ doc'.section = doc.section
      /\ open'[5].type = "byte" /\ open'[5].name = "Y"
  BY <1>3, <1>4, <1>5 DEF DatumCame
<1>7. SectionInv'
  BY <1>1, <1>3, <1>6 DEF SectionInv, InSections3, DepthOf, InFields, InValue, TopIs
<1>8. ElementInv'
  BY <1>1, <1>4, <1>6 DEF ElementInv, InSections3, InFields, InValue
<1> QED  BY <1>1, <1>2, <1>3, <1>6, <1>7, <1>8, SectionStays DEF SectionPlaces

LEMMA YEndStep ==
  ASSUME ReadTypes, TreeInv, WholeInv, ~doc.cut, level \in Nat, ReadYEnd
  PROVE  WholeInv'
<1>1. /\ place = "yEnd" /\ Read /\ InSections /\ place' = "after"
      /\ section' = section /\ sections' = sections /\ y' = y
  BY DEF ReadYEnd, locals
<1>2. /\ place \in SectionPlaces \ {"elements"} /\ DepthOf = 5  BY <1>1 DEF SectionPlaces, DepthOf
<1>3. /\ tag_structure' = SectionsPath /\ Len(open) = 5
      /\ sections = doc.sections /\ InSection(open')
      /\ doc'.seen = doc.seen /\ FieldsSame
      /\ event[1] = "DATA" /\ open[5].type \in Scalars => TagEnds
  BY <1>1, <1>2, AtSection
<1>4. /\ open[5].type = "byte" /\ event[1] = "DATA" /\ section = doc.section /\ y = doc.y
  BY <1>1 DEF WholeInv, SectionInv, ElementInv, TopIs, InSections3, InFields, InValue
<1>5. TagEnds  BY <1>3, <1>4, TypesAssumption
<1>6. /\ Len(open') = 4 /\ event'[1] = "TAG_END" /\ doc'.sections = doc.sections
      /\ doc'.y = doc.y /\ doc'.section = doc.section
  BY <1>3, <1>4, <1>5 DEF TagEnds
<1>7. SectionInv'
  BY <1>1, <1>3, <1>6 DEF SectionInv, InSections3, DepthOf, InFields, InValue
<1>8. ElementInv'
  BY <1>1, <1>4, <1>6 DEF ElementInv, InSections3, InFields, InValue
<1> QED  BY <1>1, <1>2, <1>3, <1>6, <1>7, <1>8, SectionStays DEF SectionPlaces

LEMMA AfterStep ==
  ASSUME ReadTypes, TreeInv, WholeInv, ~doc.cut, level \in Nat, ReadAfter
  PROVE  WholeInv'
<1>1. /\ place = "after" /\ Read /\ InSections
      /\ IF event'[1] = "TAG_START" THEN Turn
         ELSE place' = IF event'[1] = "TAG_END" THEN "elements" ELSE "failed"
      /\ sections' = IF event'[1] = "TAG_END" THEN Stored(sections, y, section) ELSE sections
      /\ section' = section /\ y' = y
  BY DEF ReadAfter, Starts, Ends
<1>2. /\ place \in SectionPlaces \ {"elements"} /\ DepthOf = 4  BY <1>1 DEF SectionPlaces, DepthOf
<1>3. /\ tag_structure' = SectionsPath /\ Len(open) = 4
      /\ sections = doc.sections /\ InSection(open')
      /\ doc'.seen = doc.seen /\ FieldsSame
      /\ TagStarts \/ DatumCame \/ TagEnds
  BY <1>1, <1>2, AtSection
<1>4. section = doc.section /\ y = doc.y
  BY <1>1 DEF WholeInv, ElementInv, InSections3, InFields, InValue
<1>5. CASE TagStarts
  <2>1. /\ Len(open') = 5 /\ event'[1] = "TAG_START" /\ doc'.sections = doc.sections
        /\ event'[2] = open'[5].type /\ event'[3] = open'[5].name
        /\ doc'.y = doc.y /\ doc'.section = doc.section
    BY <1>3, <1>5 DEF TagStarts
  <2>2. Turn /\ sections' = sections  BY <1>1, <2>1
  <2> QED  BY <1>1, <1>2, <1>3, <1>4, <2>1, <2>2, Turns
<1>6. CASE DatumCame
  <2>1. event'[1] = "DATA"  BY <1>6 DEF DatumCame
  <2>2. place' = "failed"  BY <1>1, <2>1
  <2> QED  BY <2>2, FailedIs
<1>7. CASE TagEnds
  <2>1. /\ Len(open') = 3 /\ event'[1] = "TAG_END"
        /\ doc'.sections = Stored(doc.sections, doc.y, doc.section)
    BY <1>3, <1>7 DEF TagEnds
  <2>2. place' = "elements" /\ sections' = doc'.sections  BY <1>1, <1>3, <1>4, <2>1
  <2>3. SectionInv'
    BY <1>3, <2>1, <2>2 DEF SectionInv, InSections3, DepthOf, InFields, InValue
  <2>4. ElementInv'
    BY <2>2 DEF ElementInv, InSections3, InFields, InValue
  <2> QED  BY <1>1, <1>2, <1>3, <2>2, <2>3, <2>4, SectionStays DEF SectionPlaces
<1> QED  BY <1>3, <1>5, <1>6, <1>7

LEMMA SkipStep ==
  ASSUME ReadTypes, TreeInv, WholeInv, ~doc.cut, level \in Nat, Skip
  PROVE  WholeInv'
<1>1. /\ place = "skip" /\ Read /\ InSections /\ level' = Level
      /\ place' = IF level' = 0 THEN "after" ELSE place
      /\ section' = section /\ sections' = sections /\ y' = y
  BY DEF Skip
<1>2. /\ place \in SectionPlaces \ {"elements"} /\ DepthOf = level + 4  BY <1>1 DEF SectionPlaces, DepthOf
<1>3. /\ tag_structure' = SectionsPath /\ Len(open) = level + 4
      /\ sections = doc.sections /\ InSection(open')
      /\ \A i \in 1..Len(open) : i <= Len(open') =>
           open'[i].type = open[i].type /\ open'[i].name = open[i].name
      /\ doc'.seen = doc.seen /\ FieldsSame
      /\ TagStarts \/ DatumCame \/ TagEnds
  BY <1>1, <1>2, AtSection
<1>4. /\ level > 0 /\ open[5].name \notin {"BlockStates", "Palette", "Y"}
      /\ section = doc.section /\ y = doc.y
  BY <1>1 DEF WholeInv, SectionInv, ElementInv, InSections3, InFields, InValue
<1>5. Len(open) >= 5  BY <1>3, <1>4
<1>6. /\ level' = IF TagStarts THEN level + 1 ELSE IF TagEnds THEN level - 1 ELSE level
      /\ Len(open') = level' + 4 /\ doc'.sections = doc.sections
      /\ doc'.y = doc.y /\ doc'.section = doc.section
  <2>1. CASE TagStarts
    <3>1. Len(open') = level + 5 /\ event'[1] = "TAG_START" /\ doc'.sections = doc.sections
      BY <1>3, <2>1 DEF TagStarts
    <3>2. Len(open') # 4  BY <3>1
    <3>3. doc'.y = doc.y /\ doc'.section = doc.section  BY <2>1, <3>2 DEF TagStarts
    <3>4. level' = level + 1  BY <1>1, <3>1 DEF Level, Starts
    <3> QED  BY <2>1, <3>1, <3>3, <3>4
  <2>2. CASE DatumCame
    <3>1. Len(open') = level + 4 /\ event'[1] = "DATA" /\ doc'.sections = doc.sections
      BY <1>3, <2>2 DEF DatumCame
    <3>2. doc'.y = doc.y /\ doc'.section = doc.section  BY <1>4, <2>2 DEF DatumCame
    <3>3. level' = level  BY <1>1, <3>1 DEF Level, Starts, Ends
    <3>4. ~TagStarts /\ ~TagEnds  BY <3>1 DEF TagStarts, TagEnds
    <3> QED  BY <3>1, <3>2, <3>3, <3>4
  <2>3. CASE TagEnds
    <3>1. Len(open') = level + 3 /\ event'[1] = "TAG_END"  BY <1>3, <2>3 DEF TagEnds
    <3>2. Len(open') # 3 /\ Len(open') > 3  BY <1>4, <3>1
    <3>3. doc'.sections = doc.sections /\ doc'.y = doc.y /\ doc'.section = doc.section
      BY <2>3, <3>2 DEF TagEnds
    <3>4. level' = level - 1  BY <1>1, <3>1 DEF Level, Starts, Ends
    <3>5. ~TagStarts  BY <3>1 DEF TagStarts
    <3> QED  BY <2>3, <3>1, <3>3, <3>4, <3>5
  <2> QED  BY <1>3, <2>1, <2>2, <2>3
<1>7. CASE level' = 0
  <2>1. place' = "after" /\ Len(open') = 4  BY <1>1, <1>6, <1>7
  <2>2. SectionInv'
    BY <1>3, <2>1 DEF SectionInv, InSections3, DepthOf, InFields, InValue
  <2>3. ElementInv'
    BY <1>1, <1>4, <1>6, <2>1 DEF ElementInv, InSections3, InFields, InValue
  <2> QED  BY <1>1, <1>2, <1>3, <1>6, <2>1, <2>2, <2>3, SectionStays DEF SectionPlaces
<1>8. CASE level' # 0
  <2>1. place' = "skip" /\ level' > 0  BY <1>1, <1>4, <1>6, <1>8
  <2>2. open'[5].name \notin {"BlockStates", "Palette", "Y"}
    <3>1. 5 <= Len(open')  BY <1>6, <2>1
    <3> QED  BY <1>3, <1>4, <1>5, <3>1
  <2>3. SectionInv'
    BY <1>3, <1>6, <2>1, <2>2 DEF SectionInv, InSections3, DepthOf, InFields, InValue
  <2>4. ElementInv'
    BY <1>1, <1>4, <1>6, <2>1 DEF ElementInv, InSections3, InFields, InValue
  <2> QED  BY <1>1, <1>2, <1>3, <1>6, <2>1, <2>3, <2>4, SectionStays DEF SectionPlaces
<1> QED  BY <1>7, <1>8

LEMMA SkipInEntryStep ==
  ASSUME ReadTypes, TreeInv, WholeInv, ~doc.cut, level \in Nat, SkipInEntry
  PROVE  WholeInv'
<1>1. /\ place = "skipInEntry" /\ Read /\ InSections /\ level' = Level
      /\ place' = IF level' = 0 THEN "entry" ELSE place
      /\ section' = section /\ sections' = sections /\ y' = y
  BY DEF SkipInEntry
<1>2. /\ place \in SectionPlaces \ {"elements"} /\ DepthOf = level + 6  BY <1>1 DEF SectionPlaces, DepthOf
<1>3. /\ tag_structure' = SectionsPath /\ Len(open) = level + 6
      /\ sections = doc.sections /\ InSection(open')
      /\ \A i \in 1..Len(open) : i <= Len(open') =>
           open'[i].type = open[i].type /\ open'[i].name = open[i].name
      /\ doc'.seen = doc.seen /\ FieldsSame
      /\ TagStarts \/ DatumCame \/ TagEnds
  BY <1>1, <1>2, AtSection
<1>4. /\ level > 0 /\ open[5].type = "list" /\ open[5].name = "Palette" /\ ~TopIs(7, "string", "Name")
      /\ section = doc.section /\ y = doc.y
  BY <1>1 DEF WholeInv, SectionInv, ElementInv, InSections3, InFields, InValue, TopIs
<1>5. Len(open) >= 7  BY <1>3, <1>4
<1>6. /\ level' = IF TagStarts THEN level + 1 ELSE IF TagEnds THEN level - 1 ELSE level
      /\ Len(open') = level' + 6 /\ doc'.sections = doc.sections
      /\ doc'.y = doc.y /\ doc'.section = doc.section
  <2>1. CASE TagStarts
    <3>1. Len(open') = level + 7 /\ event'[1] = "TAG_START" /\ doc'.sections = doc.sections
      BY <1>3, <2>1 DEF TagStarts
    <3>2. Len(open') # 4  BY <3>1
    <3>3. doc'.y = doc.y /\ doc'.section = doc.section  BY <2>1, <3>2 DEF TagStarts
    <3>4. level' = level + 1  BY <1>1, <3>1 DEF Level, Starts
    <3> QED  BY <2>1, <3>1, <3>3, <3>4
  <2>2. CASE DatumCame
    <3>1. Len(open') = level + 6 /\ event'[1] = "DATA" /\ doc'.sections = doc.sections
      BY <1>3, <2>2 DEF DatumCame
    <3>2. Len(open) # 5
      <4>1. \A n \in Nat : n > 0 => n + 6 # 5  OBVIOUS
      <4> QED  BY <1>3, <1>4, <4>1, Zenon
    <3>3. doc'.y = doc.y /\ doc'.section = doc.section  BY <1>4, <2>2, <3>2 DEF DatumCame
    <3>4. level' = level  BY <1>1, <3>1 DEF Level, Starts, Ends
    <3>5. ~TagStarts /\ ~TagEnds  BY <3>1 DEF TagStarts, TagEnds
    <3> QED  BY <3>1, <3>3, <3>4, <3>5
  <2>3. CASE TagEnds
    <3>1. Len(open') = level + 5 /\ event'[1] = "TAG_END"  BY <1>3, <2>3 DEF TagEnds
    <3>2. Len(open') # 3 /\ Len(open') > 3  BY <1>4, <3>1
    <3>3. doc'.sections = doc.sections /\ doc'.y = doc.y /\ doc'.section = doc.section
      BY <2>3, <3>2 DEF TagEnds
    <3>4. level' = level - 1  BY <1>1, <3>1 DEF Level, Starts, Ends
    <3>5. ~TagStarts  BY <3>1 DEF TagStarts
    <3> QED  BY <2>3, <3>1, <3>3, <3>4, <3>5
  <2> QED  BY <1>3, <2>1, <2>2, <2>3
<1>7. open'[5].type = "list" /\ open'[5].name = "Palette"
  <2>1. 5 <= Len(open')  BY <1>4, <1>6
  <2> QED  BY <1>3, <1>4, <1>5, <2>1
<1>8. CASE level' = 0
  <2>1. place' = "entry" /\ Len(open') = 6  BY <1>1, <1>6, <1>8
  <2>2. SectionInv'
    BY <1>3, <1>7, <2>1 DEF SectionInv, InSections3, DepthOf, InFields, InValue, TopIs
  <2>3. ElementInv'
    BY <1>1, <1>4, <1>6, <2>1 DEF ElementInv, InSections3, InFields, InValue
  <2> QED  BY <1>1, <1>2, <1>3, <1>6, <2>1, <2>2, <2>3, SectionStays DEF SectionPlaces
<1>9. CASE level' # 0
  <2>1. place' = "skipInEntry" /\ level' > 0  BY <1>1, <1>4, <1>6, <1>9
  <2>2. ~(open'[7].type = "string" /\ open'[7].name = "Name")
    <3>1. 7 <= Len(open')  BY <1>6, <2>1
    <3> QED  BY <1>3, <1>4, <1>5, <3>1 DEF TopIs
  <2>3. SectionInv'
    BY <1>3, <1>6, <1>7, <2>1, <2>2 DEF SectionInv, InSections3, DepthOf, InFields, InValue, TopIs
  <2>4. ElementInv'
    BY <1>1, <1>4, <1>6, <2>1 DEF ElementInv, InSections3, InFields, InValue
  <2> QED  BY <1>1, <1>2, <1>3, <1>6, <2>1, <2>3, <2>4, SectionStays DEF SectionPlaces
<1> QED  BY <1>8, <1>9

-----------------------------------------------------------------------------
(* All steps together. *)

FieldReads == Leave \/ Pass \/ Enter \/ ReadLastUpdate \/ ReadDataVersion \/ EndValue \/ ReadBiomes

SectionSteps ==
  \/ ReadElement \/ ReadFirst \/ ReadFirstY \/ Discard \/ ReadFirstYEnd \/ ReadState
  \/ ReadPalette \/ ReadEntry \/ ReadName \/ ReadNameEnd \/ SkipInEntry
  \/ ReadY \/ ReadYEnd \/ Skip \/ ReadAfter

Requests == NotFound \/ Throw \/ \E field \in Fields : Ask(field)

LEMMA StepsAre ==
  ASSUME Next
  PROVE  FieldReads \/ SectionSteps \/ Requests \/ \E field \in Fields : EnterField(field)
  BY DEF Next, Step, FieldReads, SectionSteps, Requests

LEMMA StepsRead ==
  ASSUME FieldReads \/ SectionSteps
  PROVE  Read
<1>1. FieldReads => Read
  BY DEF FieldReads, Leave, Pass, Enter, ReadLastUpdate, ReadDataVersion, EndValue, ReadBiomes
<1>2. SectionSteps => Read
  BY DEF SectionSteps, ReadElement, ReadFirst, ReadFirstY, Discard, ReadFirstYEnd, ReadState,
         ReadPalette, ReadEntry, ReadName, ReadNameEnd, SkipInEntry, ReadY, ReadYEnd, Skip, ReadAfter
<1> QED  BY <1>1, <1>2

\* The other steps leave the parser alone.
LEMMA OthersKeep ==
  ASSUME Requests \/ \E field \in Fields : EnterField(field)
  PROVE  /\ open' = open /\ event' = event /\ finished' = finished /\ corrupt' = corrupt
         /\ taken' = taken /\ doc' = doc /\ level' = level
<1>1. UNCHANGED <<reading, locals>>  BY DEF Requests, NotFound, Throw, Ask, EnterField
<1> QED  BY <1>1 DEF reading, stream, locals

LEMMA SectionsStep ==
  ASSUME ReadTypes, TreeInv, WholeInv, ~doc.cut, level \in Nat, SectionSteps
  PROVE  WholeInv'
  BY ElementsStep, FirstStep, FirstYStep, DiscardStep, FirstYEndStep, StateStep, PaletteStep,
     EntryStep, NameStep, NameEndStep, SkipInEntryStep, YStep, YEndStep, SkipStep, AfterStep, Zenon
  DEF SectionSteps

\* A document that was cut is whole as long as no other event is asked for.
LEMMA WholeStep ==
  ASSUME TypeInv, TreeInv, Whole => WholeInv, Next, ~doc.cut \/ Whole'
  PROVE  WholeInv'
<1>1. ReadTypes /\ level \in Nat  BY DEF TypeInv, ReadTypes
<1>2. CASE FieldReads \/ SectionSteps
  <2>1. Read  BY <1>2, StepsRead
  <2>2. ReadTypes' /\ Happens /\ Tells  BY <1>1, <2>1, ReadKeepsTypes
  <2>3. ~doc.cut
    <3> SUFFICES ASSUME doc.cut  PROVE FALSE
      OBVIOUS
    <3>1. finished  BY <1>1 DEF ReadTypes
    <3>2. event'[1] \in {"TAG_END", "DOCUMENT_END"}  BY <2>2, <3>1 DEF Happens, Ending, Closing
    <3>3. doc'.cut  BY <1>1, <2>2, DocKept DEF ReadTypes
    <3> QED  BY <3>2, <3>3 DEF Whole
  <2>4. WholeInv  BY <2>3 DEF Whole
  <2>5. CASE FieldReads
    BY <1>1, <2>3, <2>4, <2>5, FieldsStep, ValueStep, ValueEnds, BiomesStep, Zenon DEF FieldReads
  <2>6. CASE SectionSteps  BY <1>1, <2>3, <2>4, <2>6, SectionsStep
  <2> QED  BY <1>2, <2>5, <2>6
<1>3. CASE Requests \/ \E field \in Fields : EnterField(field)
  <2>1. Whole  BY <1>3, OthersKeep DEF Whole
  <2>2. CASE Requests  BY <1>1, <2>1, <2>2, RequestStep, Zenon DEF Requests
  <2>3. CASE \E field \in Fields : EnterField(field)
    BY <1>1, <2>1, <2>3, EnterFieldStep, Zenon
  <2> QED  BY <1>3, <2>2, <2>3
<1> QED  BY <1>2, <1>3, StepsAre

\* The loops that skip have at least the tag to close at which they began.
LEMMA LevelStep ==
  ASSUME level \in Nat, place \in {"discard", "skip", "skipInEntry"} => level > 0, Next
  PROVE  level' \in Nat /\ (place' \in {"discard", "skip", "skipInEntry"} => level' > 0)
<1> DEFINE Skips == {"discard", "skip", "skipInEntry"}
<1>1. CASE Turn
  BY <1>1 DEF Turn, Dispatch
<1>2. CASE Discard \/ Skip \/ SkipInEntry
  <2>1. /\ place \in Skips /\ level' = Level
        /\ place' # place => place' \in {"elements", "after", "entry"}
        /\ level' = 0 => place' # place
    BY <1>2 DEF Discard, Skip, SkipInEntry
  <2>2. level' \in Nat  BY <2>1 DEF Level
  <2> QED  BY <2>1, <2>2
<1>3. CASE ~Turn /\ ~(Discard \/ Skip \/ SkipInEntry)
  <2>1. CASE FieldReads
    BY <2>1 DEF FieldReads, Leave, Pass, Enter, ReadLastUpdate, ReadDataVersion, EndValue, ReadBiomes,
                locals, Return
  <2>2. CASE SectionSteps
    BY <1>3, <2>2 DEF SectionSteps, ReadElement, ReadFirst, ReadFirstY, ReadFirstYEnd, ReadState,
         ReadPalette, ReadEntry, ReadName, ReadNameEnd, ReadY, ReadYEnd, ReadAfter, locals, Return
  <2>3. CASE Requests  BY <2>3 DEF Requests, NotFound, Throw, Ask, locals
  <2>4. CASE \E field \in Fields : EnterField(field)  BY <2>4 DEF EnterField, locals, Fields
  <2> QED  BY <2>1, <2>2, <2>3, <2>4, StepsAre
<1> QED  BY <1>1, <1>2, <1>3

LEMMA StructureTyped ==
  ASSUME TypeInv, TreeInv, Next
  PROVE  tag_structure' \in Seq(Names \cup {Stream!Unnamed})
<1>1. tag_structure \in Seq(NameSet)  BY DEF TypeInv, NameSet
<1>2. CASE tag_structure' = tag_structure  BY <1>1, <1>2 DEF NameSet
<1>3. CASE tag_structure' = Append(tag_structure, event[3]) /\ event[1] = "TAG_START"
  <2>1. event[3] = Last(open).name /\ open # <<>> /\ open \in Seq(TagSet)
    BY <1>3 DEF TreeInv, TypeInv, TagTypes
  <2>2. Last(open) \in TagSet  BY <2>1, Popped
  <2>3. event[3] \in NameSet  BY <2>1, <2>2 DEF TagSet, NameSet
  <2> QED  BY <1>1, <1>3, <2>3 DEF NameSet
<1>4. CASE tag_structure' = Front(tag_structure) /\ tag_structure # <<>>
  BY <1>1, <1>4, Popped DEF NameSet
<1>5. \/ tag_structure' = tag_structure
      \/ tag_structure' = Append(tag_structure, event[3]) /\ event[1] = "TAG_START"
      \/ tag_structure' = Front(tag_structure) /\ tag_structure # <<>>
  <2>1. CASE FieldReads
    BY <2>1 DEF FieldReads, Leave, Pass, Enter, ReadLastUpdate, ReadDataVersion, EndValue, ReadBiomes
  <2>2. CASE SectionSteps
    <3>1. InSections
      BY <2>2 DEF SectionSteps, ReadElement, ReadFirst, ReadFirstY, Discard, ReadFirstYEnd, ReadState,
         ReadPalette, ReadEntry, ReadName, ReadNameEnd, SkipInEntry, ReadY, ReadYEnd, Skip, ReadAfter
    <3> QED  BY <3>1 DEF InSections
  <2>3. CASE Requests  BY <2>3 DEF Requests, NotFound, Throw, Ask
  <2>4. CASE \E field \in Fields : EnterField(field)  BY <2>4 DEF EnterField
  <2> QED  BY <2>1, <2>2, <2>3, <2>4, StepsAre
<1> QED  BY <1>2, <1>3, <1>4, <1>5

LEMMA TypesStep ==
  ASSUME TypeInv, TreeInv, Next
  PROVE  TypeInv' /\ TreeInv'
<1>1. ReadTypes  BY DEF TypeInv, ReadTypes
<1>2. ReadTypes' /\ TreeInv'
  <2>1. CASE FieldReads \/ SectionSteps
    BY <1>1, <2>1, StepsRead, ReadKeepsTypes, ReadKeepsTree
  <2>2. CASE Requests \/ \E field \in Fields : EnterField(field)
    <3>1. /\ open' = open /\ event' = event /\ finished' = finished /\ corrupt' = corrupt
          /\ taken' = taken /\ doc' = doc
      BY <2>2, OthersKeep
    <3>2. ReadTypes'  BY <1>1, <3>1 DEF ReadTypes, TagTypes, IsDocument
    <3>3. TreeInv'  BY <3>1 DEF TreeInv
    <3> QED  BY <3>2, <3>3
  <2> QED  BY <2>1, <2>2, StepsAre
<1>3. level' \in Nat /\ (place' \in {"discard", "skip", "skipInEntry"} => level' > 0)
  BY LevelStep DEF TypeInv
<1>4. tag_structure' \in Seq(Names \cup {Stream!Unnamed})  BY StructureTyped
<1> QED  BY <1>2, <1>3, <1>4 DEF TypeInv, ReadTypes

-----------------------------------------------------------------------------
(* The way of the structure. *)

LEMMA WholeHeight ==
  ASSUME TypeInv', WholeInv'
  PROVE  HeightInv'
<1>1. /\ TagNames' \in Seq(NameSet) /\ Len(TagNames') = Len(open') /\ Len(open') \in Nat
  BY NamesTyped DEF TypeInv, TagTypes, TagNames
<1>2. ASSUME place' \in InFields
      PROVE  Len(tag_structure') >= Len(open') + (IF event'[1] = "TAG_END" THEN 1
                                                   ELSE IF event'[1] = "TAG_START" THEN 0 - 1 ELSE 0)
  <2>1. tag_structure' = Known'  BY <1>2 DEF WholeInv, FieldsPlaceInv
  <2>2. CASE event'[1] = "TAG_START"
    <3>1. Known' = Front(TagNames')  BY <2>2 DEF Known
    <3>2. Len(Front(TagNames')) = IF Len(open') = 0 THEN 0 ELSE Len(open') - 1
      BY <1>1 DEF Front
    <3> QED  BY <1>1, <2>1, <2>2, <3>1, <3>2
  <2>3. CASE event'[1] = "TAG_END"
    <3>1. Known' = Append(TagNames', event'[3])  BY <2>3 DEF Known
    <3>2. Len(Append(TagNames', event'[3])) = Len(open') + 1  BY <1>1
    <3> QED  BY <1>1, <2>1, <2>3, <3>1, <3>2
  <2>4. CASE event'[1] \notin {"TAG_START", "TAG_END"}
    <3>1. Known' = TagNames'  BY <2>4 DEF Known
    <3> QED  BY <1>1, <2>1, <2>4, <3>1
  <2> QED  BY <2>2, <2>3, <2>4
<1>3. place' \in InValue => Len(tag_structure') >= Len(open')
  BY <1>1 DEF WholeInv, ValueInv
<1>4. InSections3' => Len(tag_structure') = 3 /\ Len(open') <= DepthOf'
  <2>1. Len(SectionsPath) = 3  BY DEF SectionsPath, PathOf
  <2>2. InSections3' => tag_structure' = SectionsPath /\ Len(open') = DepthOf'
    BY DEF WholeInv, SectionInv
  <2> QED  BY <1>1, <2>1, <2>2
<1> QED  BY <1>2, <1>3, <1>4 DEF HeightInv, InFields

\* In a document that was cut nothing comes but the ends of its tags, and its end.
CutEvent ==
  /\ Len(open) \in Nat /\ Len(open') \in Nat
  /\ \/ event'[1] = "TAG_END" /\ Len(open') + 1 = Len(open)
     \/ event'[1] = "DOCUMENT_END" /\ Len(open) = 0 /\ Len(open') = 0

LEMMA CutReads ==
  ASSUME ReadTypes, doc.cut, Read
  PROVE  CutEvent
<1>1. ReadTypes' /\ Happens  BY ReadKeepsTypes
<1>2. Ending \/ Closing  BY <1>1 DEF Happens, ReadTypes
<1>3. Len(open) \in Nat /\ Len(open') \in Nat  BY <1>1 DEF ReadTypes, TagTypes
<1>4. CASE Ending  BY <1>3, <1>4 DEF Ending, CutEvent
<1>5. CASE Closing
  <2>1. open = <<>> /\ open' = <<>> /\ event'[1] = "DOCUMENT_END"  BY <1>5 DEF Closing
  <2> QED  BY <2>1 DEF CutEvent
<1> QED  BY <1>2, <1>4, <1>5

LEMMA CutFields ==
  ASSUME TypeInv, HeightInv, CutEvent, FieldReads
  PROVE  HeightInv'
<1>1. tag_structure \in Seq(NameSet) /\ Len(tag_structure) \in Nat  BY DEF TypeInv, NameSet
<1>2. CASE Leave
  <2>1. /\ place = "fields" /\ place' = "fields" /\ event[1] = "TAG_END"
        /\ tag_structure' = Front(tag_structure) /\ tag_structure # <<>>
    BY <1>2 DEF Leave
  <2>2. Len(tag_structure') = Len(tag_structure) - 1  BY <1>1, <2>1, Popped
  <2>3. Len(tag_structure) >= Len(open) + 1  BY <2>1 DEF HeightInv
  <2>4. Len(tag_structure') >= Len(open') + (IF event'[1] = "TAG_END" THEN 1 ELSE 0)
    BY <1>1, <2>2, <2>3 DEF CutEvent
  <2> QED  BY <2>1, <2>4 DEF HeightInv, InValue, InFields, InSections3, CutEvent
<1>3. CASE Pass
  <2>1. /\ place = "fields" /\ place' = "fields" /\ event[1] \in {"DOCUMENT_START", "DATA"}
        /\ tag_structure' = tag_structure
    BY <1>3 DEF Pass
  <2>2. Len(tag_structure) >= Len(open)  BY <2>1 DEF HeightInv, CutEvent
  <2>3. Len(tag_structure') >= Len(open') + (IF event'[1] = "TAG_END" THEN 1 ELSE 0)
    BY <1>1, <2>1, <2>2 DEF CutEvent
  <2> QED  BY <2>1, <2>3 DEF HeightInv, InValue, InFields, InSections3, CutEvent
<1>4. CASE Enter
  <2>1. /\ place = "fields" /\ place' = "fields" /\ event[1] = "TAG_START"
        /\ tag_structure' = Append(tag_structure, event[3])
    BY <1>4 DEF Enter
  <2>2. Len(tag_structure) >= Len(open) + (0 - 1)  BY <2>1 DEF HeightInv
  <2>3. Len(tag_structure') = Len(tag_structure) + 1  BY <1>1, <2>1
  <2>4. Len(tag_structure') >= Len(open') + (IF event'[1] = "TAG_END" THEN 1 ELSE 0)
    BY <1>1, <2>2, <2>3 DEF CutEvent
  <2> QED  BY <2>1, <2>4 DEF HeightInv, InValue, InFields, InSections3, CutEvent
<1>5. CASE ReadLastUpdate \/ ReadDataVersion
  <2>1. place' = "failed"
    BY <1>5 DEF ReadLastUpdate, ReadDataVersion, IsDatum, CutEvent
  <2> QED  BY <2>1 DEF HeightInv, InValue, InFields, InSections3
<1>6. CASE EndValue \/ ReadBiomes
  <2>1. place \in InValue /\ place' \in {"idle", "fields"} /\ tag_structure' = tag_structure
    BY <1>6 DEF EndValue, ReadBiomes, IsDatum, CutEvent, Return, InValue
  <2>2. Len(tag_structure) >= Len(open)  BY <2>1 DEF HeightInv
  <2>3. Len(tag_structure') >= Len(open') + (IF event'[1] = "TAG_END" THEN 1 ELSE 0)
    BY <1>1, <2>1, <2>2 DEF CutEvent
  <2> QED  BY <2>1, <2>3 DEF HeightInv, InValue, InFields, InSections3, CutEvent
<1> QED  BY <1>2, <1>3, <1>4, <1>5, <1>6 DEF FieldReads

LEMMA CutSections ==
  ASSUME TypeInv, HeightInv, CutEvent, SectionSteps
  PROVE  HeightInv'
<1>1. /\ level \in Nat /\ level' \in Nat
      /\ InSections3 /\ Len(tag_structure) = 3 /\ Len(open) <= DepthOf
      /\ tag_structure' = tag_structure
  <2>1. Next  BY DEF SectionSteps, Next, Step
  <2>2. level \in Nat /\ level' \in Nat  BY <2>1, LevelStep DEF TypeInv
  <2>3. InSections /\ place \in SectionPlaces
    BY DEF SectionSteps, ReadElement, ReadFirst, ReadFirstY, Discard, ReadFirstYEnd, ReadState,
       ReadPalette, ReadEntry, ReadName, ReadNameEnd, SkipInEntry, ReadY, ReadYEnd, Skip, ReadAfter,
       SectionPlaces
  <2>4. InSections3  BY <2>3 DEF InSections3, SectionPlaces, InFields, InValue
  <2> QED  BY <2>2, <2>3, <2>4 DEF HeightInv, InSections
<1>2. CASE place' = "failed"  BY <1>2 DEF HeightInv, InSections3, InFields, InValue
<1>3. CASE place' \in {"idle", "fields"} /\ event'[1] = "TAG_END" /\ Len(open) <= 3
  <2>1. Len(tag_structure') >= Len(open') + 1  BY <1>1, <1>3 DEF CutEvent
  <2> QED  BY <1>3, <2>1 DEF HeightInv, InSections3, InFields, InValue
<1>4. CASE place' \in SectionPlaces /\ Len(open') <= DepthOf'
  BY <1>1, <1>4 DEF HeightInv, InSections3, SectionPlaces, InFields, InValue
<1>5. \/ place' = "failed"
      \/ place' \in {"idle", "fields"} /\ event'[1] = "TAG_END" /\ Len(open) <= 3
      \/ place' \in SectionPlaces /\ Len(open') <= DepthOf'
  <2>1. CASE ReadElement
    <3>1. place = "elements" /\ IF event'[1] = "TAG_END" THEN Return ELSE place' = "failed"
      BY <2>1 DEF ReadElement, Ends, Starts, CutEvent
    <3>2. Len(open) <= 3  BY <1>1, <3>1 DEF DepthOf
    <3> QED  BY <3>1, <3>2 DEF Return
  <2>2. CASE ReadFirst
    <3>1. place = "first" /\ place' = IF event'[1] = "TAG_END" THEN "elements" ELSE "failed"
      BY <2>2 DEF ReadFirst, Ends, Starts, CutEvent
    <3>2. Len(open) <= 4  BY <1>1, <3>1 DEF DepthOf
    <3> QED  BY <3>1, <3>2 DEF CutEvent, SectionPlaces, DepthOf
  <2>3. CASE ReadFirstY
    <3>1. place = "firstY" /\ ((place' = "discard" /\ level' = 2) \/ place' = "firstYEnd")
      BY <2>3 DEF ReadFirstY
    <3>2. Len(open) <= 5  BY <1>1, <3>1 DEF DepthOf
    <3>3. Len(open') <= 5  BY <3>2 DEF CutEvent
    <3> QED  BY <3>1, <3>3 DEF SectionPlaces, DepthOf
  <2>4. CASE Discard
    <3>1. place = "discard" /\ level' = Level /\ place' = IF level' = 0 THEN "elements" ELSE "discard"
      BY <2>4 DEF Discard
    <3>2. Len(open) <= level + 3  BY <1>1, <3>1 DEF DepthOf
    <3>3. Len(open') <= level' + 3  BY <1>1, <3>1, <3>2 DEF CutEvent, Level, Starts, Ends
    <3> QED  BY <1>1, <3>1, <3>3 DEF SectionPlaces, DepthOf
  <2>5. CASE ReadFirstYEnd
    <3>1. /\ place = "firstYEnd" /\ level' = IF place' = "skip" THEN 1 ELSE 0
          /\ place' \in {"states", "failed", "palette", "skip", "after", "y"}
      BY <2>5 DEF ReadFirstYEnd, Turn, Dispatch
    <3>2. Len(open) <= 5  BY <1>1, <3>1 DEF DepthOf
    <3>3. Len(open') <= 4  BY <3>2 DEF CutEvent
    <3> QED  BY <3>1, <3>3 DEF SectionPlaces, DepthOf, CutEvent
  <2>6. CASE ReadState \/ ReadPalette
    <3>1. place \in {"states", "palette"} /\ place' \in {"after", "entry"}
      BY <2>6 DEF ReadState, ReadPalette, IsDatum, CutEvent
    <3>2. Len(open) <= 5  BY <1>1, <3>1 DEF DepthOf
    <3>3. Len(open') <= 4  BY <3>2 DEF CutEvent
    <3> QED  BY <3>1, <3>3 DEF SectionPlaces, DepthOf, CutEvent
  <2>7. CASE ReadEntry
    <3>1. place = "entry" /\ place' = IF event'[1] = "TAG_END" THEN "palette" ELSE "entry"
      BY <2>7 DEF ReadEntry, Starts, Ends, CutEvent
    <3>2. Len(open) <= 6  BY <1>1, <3>1 DEF DepthOf
    <3>3. Len(open') <= 5  BY <3>2 DEF CutEvent
    <3> QED  BY <3>1, <3>3 DEF SectionPlaces, DepthOf, CutEvent
  <2>8. CASE ReadName
    <3>1. place = "name" /\ place' \in {"nameEnd", "failed"}  BY <2>8 DEF ReadName
    <3>2. Len(open) <= 7  BY <1>1, <3>1 DEF DepthOf
    <3>3. Len(open') <= 7  BY <3>2 DEF CutEvent
    <3> QED  BY <3>1, <3>3 DEF SectionPlaces, DepthOf
  <2>9. CASE ReadNameEnd
    <3>1. place = "nameEnd" /\ place' = "entry"  BY <2>9 DEF ReadNameEnd
    <3>2. Len(open) <= 7  BY <1>1, <3>1 DEF DepthOf
    <3>3. Len(open') <= 6  BY <3>2 DEF CutEvent
    <3> QED  BY <3>1, <3>3 DEF SectionPlaces, DepthOf
  <2>10. CASE SkipInEntry
    <3>1. /\ place = "skipInEntry" /\ level' = Level
          /\ place' = IF level' = 0 THEN "entry" ELSE "skipInEntry"
      BY <2>10 DEF SkipInEntry
    <3>2. Len(open) <= level + 6  BY <1>1, <3>1 DEF DepthOf
    <3>3. Len(open') <= level' + 6  BY <1>1, <3>1, <3>2 DEF CutEvent, Level, Starts, Ends
    <3> QED  BY <1>1, <3>1, <3>3 DEF SectionPlaces, DepthOf
  <2>11. CASE ReadY \/ ReadYEnd
    <3>1. place \in {"y", "yEnd"} /\ place' \in {"yEnd", "after"}  BY <2>11 DEF ReadY, ReadYEnd
    <3>2. Len(open) <= 5  BY <1>1, <3>1 DEF DepthOf
    <3>3. Len(open') <= 4  BY <3>2 DEF CutEvent
    <3> QED  BY <3>1, <3>3 DEF SectionPlaces, DepthOf, CutEvent
  <2>12. CASE Skip
    <3>1. place = "skip" /\ level' = Level /\ place' = IF level' = 0 THEN "after" ELSE "skip"
      BY <2>12 DEF Skip
    <3>2. Len(open) <= level + 4  BY <1>1, <3>1 DEF DepthOf
    <3>3. Len(open') <= level' + 4  BY <1>1, <3>1, <3>2 DEF CutEvent, Level, Starts, Ends
    <3> QED  BY <1>1, <3>1, <3>3 DEF SectionPlaces, DepthOf
  <2>13. CASE ReadAfter
    <3>1. place = "after" /\ place' = IF event'[1] = "TAG_END" THEN "elements" ELSE "failed"
      BY <2>13 DEF ReadAfter, Starts, Ends, CutEvent
    <3>2. Len(open) <= 4  BY <1>1, <3>1 DEF DepthOf
    <3> QED  BY <3>1, <3>2 DEF CutEvent, SectionPlaces, DepthOf
  <2> QED
    BY <2>1, <2>2, <2>3, <2>4, <2>5, <2>6, <2>7, <2>8, <2>9, <2>10, <2>11, <2>12, <2>13
    DEF SectionSteps
<1> QED  BY <1>2, <1>3, <1>4, <1>5

LEMMA HeightStep ==
  ASSUME TypeInv, TreeInv, HeightInv, Whole => WholeInv, Next
  PROVE  HeightInv'
<1>1. TypeInv'  BY TypesStep
<1>2. CASE ~doc.cut \/ Whole'
  <2>1. WholeInv'  BY <1>2, WholeStep
  <2> QED  BY <1>1, <2>1, WholeHeight
<1>3. CASE doc.cut /\ ~Whole'
  <2>1. ReadTypes  BY DEF TypeInv, ReadTypes
  <2>2. CASE FieldReads \/ SectionSteps
    <3>1. CutEvent  BY <1>3, <2>1, <2>2, StepsRead, CutReads
    <3> QED  BY <2>2, <3>1, CutFields, CutSections
  <2>3. CASE Requests \/ \E field \in Fields : EnterField(field)
    <3>1. /\ open' = open /\ event' = event /\ level' = level /\ event[1] # "TAG_START"
      BY <1>3, <2>3, OthersKeep DEF Whole
    <3>2. Requests  BY <2>3, <3>1 DEF EnterField
    <3>3. /\ tag_structure' = tag_structure
          /\ place' \in {"missing", "failed"} \/ (place = "idle" /\ place' = "fields")
      BY <3>2 DEF Requests, NotFound, Throw, Ask
    <3> QED  BY <3>1, <3>3 DEF HeightInv, InSections3, InFields, InValue
  <2> QED  BY <2>2, <2>3, StepsAre
<1> QED  BY <1>2, <1>3

-----------------------------------------------------------------------------
(* The invariant. *)

LEMMA ChunkInit == Init => ChunkInv
<1> SUFFICES ASSUME Init  PROVE ChunkInv
  OBVIOUS
<1>1. /\ open = <<>> /\ event = <<"DOCUMENT_START">> /\ corrupt = FALSE /\ finished = FALSE
      /\ place = "idle" /\ tag_structure = <<>> /\ loaded_fields = {} /\ taken = <<>> /\ level = 0
      /\ last_update = Null /\ data_version = Null /\ biomes = <<>>
      /\ doc = [seen |-> {}, last_update |-> Null, data_version |-> Null, biomes |-> <<>>,
                sections |-> sections, y |-> NoY, section |-> Empty, cut |-> FALSE]
  BY DEF Init, Stream!Init
<1>2. /\ doc.seen = {} /\ doc.last_update = Null /\ doc.data_version = Null /\ doc.biomes = <<>>
      /\ doc.sections = sections /\ doc.cut = FALSE /\ IsDocument(doc)
  BY <1>1 DEF IsDocument
<1>3. open \in Seq(TagSet) /\ Len(open) = 0 /\ taken \in Seq(SUBSET Names) /\ Len(taken) = 0
      /\ tag_structure \in Seq(Names \cup {Stream!Unnamed}) /\ Len(tag_structure) = 0
  BY <1>1
<1>4. TypeInv  BY <1>1, <1>2, <1>3 DEF TypeInv, TagTypes
<1>5. TreeInv  BY <1>1, <1>3 DEF TreeInv
<1>6. HeightInv  BY <1>1, <1>3 DEF HeightInv, InFields, InValue, InSections3
<1>7. TagNames = <<>> /\ Known = tag_structure
  <2>1. TagNames \in Seq(NameSet) /\ Len(TagNames) = 0  BY <1>3, NamesTyped DEF TagNames
  <2>2. TagNames = <<>>  BY <2>1
  <2> QED  BY <1>1, <2>2 DEF Known
<1>8. FieldsPlaceInv
  <2>1. TagNames = NamesOf(open) /\ Len(open) < 2  BY <1>3 DEF TagNames
  <2>2. current_field(TagNames) = {}  BY <1>3, <2>1, CurrentIs
  <2> QED  BY <1>1, <1>7, <2>2 DEF FieldsPlaceInv
<1>9. ValueInv /\ SectionInv /\ ElementInv
  BY <1>1 DEF ValueInv, SectionInv, ElementInv, InFields, InValue, InSections3
<1>10. KeptInv  BY <1>1, <1>2 DEF KeptInv
<1> QED  BY <1>4, <1>5, <1>6, <1>8, <1>9, <1>10 DEF ChunkInv, WholeInv

LEMMA ChunkStep == ChunkInv /\ [Next]_vars => ChunkInv'
<1> SUFFICES ASSUME ChunkInv, [Next]_vars  PROVE ChunkInv'
  OBVIOUS
<1>1. TypeInv /\ TreeInv /\ HeightInv /\ (Whole => WholeInv)  BY DEF ChunkInv
<1>2. CASE Next
  <2>1. TypeInv' /\ TreeInv'  BY <1>1, <1>2, TypesStep
  <2>2. HeightInv'  BY <1>1, <1>2, HeightStep
  <2>3. Whole' => WholeInv'  BY <1>1, <1>2, WholeStep
  <2> QED  BY <2>1, <2>2, <2>3 DEF ChunkInv
<1>3. CASE UNCHANGED vars
  <2>1. /\ open' = open /\ event' = event /\ finished' = finished /\ corrupt' = corrupt
        /\ taken' = taken /\ doc' = doc /\ place' = place /\ asked' = asked
        /\ tag_structure' = tag_structure /\ loaded_fields' = loaded_fields
        /\ last_update' = last_update /\ data_version' = data_version /\ biomes' = biomes
        /\ sections' = sections /\ y' = y /\ section' = section /\ level' = level
    BY <1>3 DEF vars, reading, stream, fields, locals
  <2>2. TypeInv'  BY <1>1, <2>1 DEF TypeInv, TagTypes, IsDocument
  <2>3. TreeInv' /\ HeightInv'
    BY <1>1, <2>1 DEF TreeInv, HeightInv, InFields, InValue, InSections3, DepthOf
  <2>4. FieldsPlaceInv => FieldsPlaceInv'
    BY <2>1 DEF FieldsPlaceInv, InFields, Known, TagNames
  <2>5. (ValueInv => ValueInv') /\ (KeptInv => KeptInv') /\ (ElementInv => ElementInv')
    BY <2>1 DEF ValueInv, KeptInv, ElementInv, InFields, InValue, InSections3, TagNames
  <2>6. SectionInv => SectionInv'
    BY <2>1 DEF SectionInv, InFields, InValue, InSections3, DepthOf, TopIs
  <2>7. Whole' => Whole  BY <2>1 DEF Whole
  <2> QED  BY <1>1, <2>2, <2>3, <2>4, <2>5, <2>6, <2>7 DEF ChunkInv, WholeInv
<1> QED  BY <1>2, <1>3

LEMMA ChunkSafe == Spec => []ChunkInv
  BY ChunkInit, ChunkStep, PTL DEF Spec

-----------------------------------------------------------------------------
(* What the runs check. *)

LEMMA StructureHolds == ChunkInv => StructureFollowsTags
<1> SUFFICES ASSUME ChunkInv  PROVE StructureFollowsTags
  OBVIOUS
<1>1. event[1] = "TAG_END" /\ place = "fields" => tag_structure # <<>>
  <2> SUFFICES ASSUME event[1] = "TAG_END", place = "fields", tag_structure = <<>>  PROVE FALSE
    OBVIOUS
  <2>1. Len(tag_structure) >= Len(open) + 1  BY DEF ChunkInv, HeightInv
  <2>2. Len(tag_structure) = 0 /\ Len(open) \in Nat  BY DEF ChunkInv, TypeInv, TagTypes
  <2> QED  BY <2>1, <2>2
<1>2. ASSUME ~doc.cut
      PROVE  IF place \in InFields THEN tag_structure = Known
             ELSE IF place \in InValue THEN tag_structure = TagNames
             ELSE place # "failed" => /\ tag_structure = SectionsPath
                                      /\ SubSeq(TagNames, 1, 3) = SectionsPath
                                      /\ Len(open) = DepthOf
  <2>1. WholeInv  BY <1>2 DEF ChunkInv, Whole
  <2>2. place \in InFields => tag_structure = Known  BY <2>1 DEF WholeInv, FieldsPlaceInv
  <2>3. place \in InValue => tag_structure = TagNames  BY <2>1 DEF WholeInv, ValueInv
  <2>4. InSections3 => tag_structure = SectionsPath /\ InSection(open) /\ Len(open) = DepthOf
    BY <2>1 DEF WholeInv, SectionInv
  <2>5. InSection(open) => SubSeq(TagNames, 1, 3) = SectionsPath
    <3> SUFFICES ASSUME InSection(open)  PROVE SubSeq(TagNames, 1, 3) = SectionsPath
      OBVIOUS
    <3>1. /\ TagNames \in Seq(NameSet) /\ Len(TagNames) = Len(open) /\ Len(open) \in Nat
          /\ \A i \in 1..Len(open) : TagNames[i] = open[i].name
      BY NamesTyped DEF TagNames, ChunkInv, TypeInv, TagTypes
    <3>2. /\ Len(open) >= 3 /\ open[1].name = Stream!Unnamed /\ open[2].name = "Level"
          /\ open[3].name = "Sections"
      BY DEF InSection
    <3>3. TagNames[1] = Stream!Unnamed /\ TagNames[2] = "Level" /\ TagNames[3] = "Sections"
      BY <3>1, <3>2
    <3>4. /\ SubSeq(TagNames, 1, 3) \in Seq(NameSet) /\ Len(SubSeq(TagNames, 1, 3)) = 3
          /\ \A i \in 1..3 : SubSeq(TagNames, 1, 3)[i] = TagNames[i]
      BY <3>1, <3>2
    <3>5. SectionsPath = <<Stream!Unnamed, "Level", "Sections">>  BY DEF SectionsPath, PathOf
    <3>6. /\ SectionsPath \in Seq(NameSet) /\ Len(SectionsPath) = 3
          /\ \A i \in 1..3 : SectionsPath[i] = TagNames[i]
      <4>1. TagNames[1] \in NameSet /\ TagNames[2] \in NameSet /\ TagNames[3] \in NameSet
        BY <3>1, <3>2
      <4> QED  BY <3>3, <3>5, <4>1
    <3> QED  BY <3>4, <3>6, SeqEqual
  <2> QED  BY <2>2, <2>3, <2>4, <2>5 DEF InSections3
<1> QED  BY <1>1, <1>2 DEF StructureFollowsTags

LEMMA FieldsHold == ChunkInv => FieldsAreTheDocuments
<1> SUFFICES ASSUME ChunkInv, ~doc.cut, place \in {"idle", "missing"}
    PROVE  /\ loaded_fields = doc.seen
           /\ last_update = doc.last_update /\ data_version = doc.data_version
           /\ biomes = doc.biomes /\ sections = doc.sections
           /\ place = "missing" => asked \notin doc.seen
  BY DEF FieldsAreTheDocuments
<1>1. WholeInv  BY DEF ChunkInv, Whole
<1>2. /\ doc.seen = loaded_fields /\ last_update = doc.last_update
      /\ data_version = doc.data_version /\ biomes = doc.biomes /\ sections = doc.sections
  BY <1>1 DEF WholeInv, KeptInv
<1>3. place = "missing" => asked \notin loaded_fields
  BY <1>1 DEF WholeInv, FieldsPlaceInv, InFields
<1> QED  BY <1>2, <1>3

\* For every document that the parser tells of, cut off or not, and for every order of
\* requests, the loops of parse_fields() and parse_sections() go on in step with the tags
\* that are open, and never pop more of tag_structure than they pushed.
THEOREM LoopsFollowTags == Spec => []StructureFollowsTags
  BY ChunkSafe, StructureHolds, PTL

\* What a request of a whole document found is what the document has at the field's path,
\* and what it did not find the document does not have.
THEOREM FieldsAreFound == Spec => []FieldsAreTheDocuments
  BY ChunkSafe, FieldsHold, PTL
=============================================================================
