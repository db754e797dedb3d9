----------------------------- MODULE PullParser -----------------------------
(***************************************************************************)
(* nbt_pull_parser of src/src/nbt/pull_parser/nbt_pull_parser.cc, with the  *)
(* five stacks and two flags it is made of.                                 *)
(*                                                                          *)
(* The data are counted in pieces: a type and a name, the header of an      *)
(* array or of a list, one datum, a closing byte.  What a piece says is     *)
(* chosen when it is read, so every document is looked at; where the data   *)
(* end, between two pieces or inside one (cut), is chosen at the beginning. *)
(* A parser that has thrown is destroyed by its caller.                     *)
(***************************************************************************)
EXTENDS Integers, Sequences, FiniteSets, SequencesExt

CONSTANTS
  Names,     \* names of tags
  Lengths,   \* what the header of an array or of a list can say
  MaxLength  \* bound: pieces of a document

ASSUME ConstantsAssumption == Lengths \subseteq Int /\ MaxLength \in Nat

Scalars == {"int", "string"}     \* the other numbers are as TAG_INT
Arrays == {"array"}              \* TAG_BYTE_ARRAY, TAG_INT_ARRAY, TAG_LONG_ARRAY
Counted == Arrays \cup {"list"}
Known == Scalars \cup Counted \cup {"compound"}
Types == Known \cup {"unknown"}  \* a type no tag has

Unnamed == ""  \* the name of an element of a list

VARIABLES
  offset, length, cut,      \* the data
  types, names,             \* of the open tags
  indices, lengths,         \* of the open arrays and lists
  payload_types,            \* of the open lists
  tag_ended, end_emitted,
  current_event, last_tag,  \* last_tag: last_tag_type and last_tag_name
  tag_data,                 \* what the union holds: "nothing", "value", "string" or "deleted"
  thrown,
  corrupt                   \* history: an unknown type, or a list of TAG_END with elements

dataVars == <<length, cut>>
counts == <<indices, lengths>>
flags == <<tag_ended, end_emitted>>
vars == <<offset, dataVars, types, names, counts, payload_types, flags, current_event,
          last_tag, tag_data, thrown, corrupt>>

Init ==
  /\ offset = 0 /\ length \in 0..MaxLength /\ cut \in BOOLEAN
  /\ types = <<>> /\ names = <<>> /\ indices = <<>> /\ lengths = <<>> /\ payload_types = <<>>
  /\ tag_ended = TRUE /\ end_emitted = TRUE
  /\ current_event = "DOCUMENT_START" /\ last_tag = <<>>
  /\ tag_data = "nothing"
  /\ thrown = FALSE /\ corrupt = FALSE

-----------------------------------------------------------------------------
AtEnd == offset >= length
Running == ~thrown /\ ~AtEnd

\* n more pieces are there, the last of them whole.
Available(n) == offset + n <= length - (IF cut THEN 1 ELSE 0)

InList == types # <<>> /\ Last(types) = "list"
In(type) == types # <<>> /\ Last(types) = type

\* next() goes on with a tag's header...
AtHeader == Running /\ IF tag_ended THEN end_emitted /\ ~InList ELSE In("compound")

\* ... or inside of the tag at the top.
Inside == Running /\ IF tag_ended THEN end_emitted /\ InList ELSE ~In("compound")

\* next() has begun with the end of the tag before.
Reset == end_emitted' = IF tag_ended THEN FALSE ELSE end_emitted

\* handle_tag_end()
HandleTagEnd ==
  /\ last_tag' = <<Last(types), Last(names)>>
  /\ names' = Front(names) /\ types' = Front(types)
  /\ tag_data' = IF Last(types) = "string" THEN "deleted" ELSE tag_data
  /\ end_emitted' = TRUE
  /\ current_event' = "TAG_END"
  /\ UNCHANGED <<dataVars, thrown>>

-----------------------------------------------------------------------------
(* next(): the data are used up. *)

\* Mutant: the tag at the top is closed again and again.
CloseWithoutPopping ==
  /\ ~thrown /\ AtEnd /\ names # <<>>
  /\ last_tag' = <<Last(types), Last(names)>>
  /\ end_emitted' = TRUE
  /\ current_event' = "TAG_END"
  /\ UNCHANGED <<offset, dataVars, types, names, counts, payload_types, tag_ended, tag_data,
                 thrown, corrupt>>

\* The tags that are open are closed one by one.
CloseAtEnd ==
  /\ ~thrown /\ AtEnd /\ names # <<>>
  /\ HandleTagEnd
  /\ UNCHANGED <<offset, counts, payload_types, tag_ended, corrupt>>

DocumentEnd ==
  /\ ~thrown /\ AtEnd /\ names = <<>>
  /\ current_event' = "DOCUMENT_END"
  /\ UNCHANGED <<offset, dataVars, types, names, counts, payload_types, flags, last_tag,
                 tag_data, thrown, corrupt>>

-----------------------------------------------------------------------------
(* next(): a tag ends, or starts. *)

CloseScalar ==
  /\ Running /\ tag_ended /\ ~end_emitted
  /\ HandleTagEnd
  /\ UNCHANGED <<offset, counts, payload_types, tag_ended, corrupt>>

\* parse_tag_header() reads the byte that ends a compound.
CloseCompound ==
  /\ AtHeader /\ Available(1) /\ types # <<>>
  /\ offset' = offset + 1
  /\ HandleTagEnd
  /\ tag_ended' = TRUE
  /\ UNCHANGED <<counts, payload_types, corrupt>>

\* What the header of a tag says: the type of its elements, and its length.
Headers(t) ==
  CASE t = "list"          -> (Types \cup {"end"}) \X Lengths
    [] t \in Arrays       -> {"end"} \X Lengths
    [] OTHER            -> {<<"end", 0>>}

HeaderSize(t) == IF t \in Counted THEN 1 ELSE 0

\* parse_array_header(), parse_list_header()
PushCount(t, h) ==
  IF t \in Counted THEN lengths' = Append(lengths, h[2]) /\ indices' = Append(indices, 0)
  ELSE UNCHANGED counts

PushPayload(t, h) ==
  /\ payload_types' = IF t = "list" THEN Append(payload_types, h[1]) ELSE payload_types
  /\ corrupt' = (corrupt \/ "unknown" \in {t, h[1]} \/ (t = "list" /\ h[1] = "end" /\ h[2] > 0))

\* A name has to be followed by something, be it the next tag's.
NameFits == offset + 1 < length

\* parse_tag_header() reads type, name and the header of an array or a list.
StartNamed(t, h, name) ==
  /\ AtHeader /\ NameFits /\ Available(1 + HeaderSize(t))
  /\ offset' = offset + 1 + HeaderSize(t)
  /\ types' = Append(types, t) /\ names' = Append(names, name)
  /\ PushCount(t, h) /\ PushPayload(t, h)
  /\ tag_ended' = FALSE /\ Reset
  /\ current_event' = "TAG_START"
  /\ UNCHANGED <<dataVars, last_tag, tag_data, thrown>>

-----------------------------------------------------------------------------
(* next(): inside a tag. *)

MoreLeft == indices # <<>> /\ Last(indices) < Last(lengths)
NothingLeft == indices # <<>> /\ Last(indices) >= Last(lengths)
Count == [indices EXCEPT ![Len(indices)] = @ + 1]

\* Mutant: the element is not counted.
StartElementUncounted(t, h) ==
  /\ Inside /\ InList /\ MoreLeft
  /\ payload_types # <<>> /\ t = Last(payload_types) /\ t # "end"
  /\ Available(HeaderSize(t))
  /\ offset' = offset + HeaderSize(t)
  /\ types' = Append(types, t) /\ names' = Append(names, Unnamed)
  /\ IF t \in Counted THEN lengths' = Append(lengths, h[2]) /\ indices' = Append(indices, 0)
     ELSE UNCHANGED counts
  /\ PushPayload(t, h)
  /\ tag_ended' = FALSE /\ Reset
  /\ current_event' = "TAG_START"
  /\ UNCHANGED <<dataVars, last_tag, tag_data, thrown>>

\* parse_list_data() starts an element: a tag without a name.
StartElement(t, h) ==
  /\ Inside /\ InList /\ MoreLeft
  /\ payload_types # <<>> /\ t = Last(payload_types) /\ t # "end"
  /\ Available(HeaderSize(t))
  /\ offset' = offset + HeaderSize(t)
  /\ types' = Append(types, t) /\ names' = Append(names, Unnamed)
  /\ IF t \in Counted THEN lengths' = Append(lengths, h[2]) /\ indices' = Append(Count, 0)
     ELSE indices' = Count /\ UNCHANGED lengths
  /\ PushPayload(t, h)
  /\ tag_ended' = FALSE /\ Reset
  /\ current_event' = "TAG_START"
  /\ UNCHANGED <<dataVars, last_tag, tag_data, thrown>>

\* parse_list_data() ends a list of TAG_END at its first element.
CloseListOfEnd ==
  /\ Inside /\ InList /\ MoreLeft
  /\ payload_types # <<>> /\ Last(payload_types) = "end"
  /\ indices' = Count
  /\ payload_types' = Front(payload_types)
  /\ HandleTagEnd
  /\ tag_ended' = TRUE
  /\ UNCHANGED <<offset, lengths, corrupt>>

\* Mutant: the type of the elements is kept.
CloseListOnly ==
  /\ Inside /\ InList /\ NothingLeft
  /\ indices' = Front(indices) /\ lengths' = Front(lengths)
  /\ HandleTagEnd
  /\ tag_ended' = TRUE
  /\ UNCHANGED <<offset, payload_types, corrupt>>

CloseList ==
  /\ Inside /\ InList /\ NothingLeft
  /\ indices' = Front(indices) /\ lengths' = Front(lengths)
  /\ payload_types' = Front(payload_types)
  /\ HandleTagEnd
  /\ tag_ended' = TRUE
  /\ UNCHANGED <<offset, corrupt>>

CloseArray ==
  /\ Inside /\ In("array") /\ NothingLeft
  /\ indices' = Front(indices) /\ lengths' = Front(lengths)
  /\ HandleTagEnd
  /\ tag_ended' = TRUE
  /\ UNCHANGED <<offset, payload_types, corrupt>>

ReadArray ==
  /\ Inside /\ In("array") /\ MoreLeft
  /\ Available(1)
  /\ offset' = offset + 1
  /\ tag_data' = "value"
  /\ indices' = Count
  /\ tag_ended' = FALSE /\ Reset
  /\ current_event' = "DATA"
  /\ UNCHANGED <<dataVars, types, names, lengths, payload_types, last_tag, thrown, corrupt>>

\* Mutant: the tag goes on.
ReadScalarAgain ==
  /\ Inside /\ types # <<>> /\ Last(types) \in Scalars
  /\ Available(1)
  /\ offset' = offset + 1
  /\ tag_data' = IF Last(types) = "string" THEN "string" ELSE "value"
  /\ tag_ended' = FALSE /\ Reset
  /\ current_event' = "DATA"
  /\ UNCHANGED <<dataVars, types, names, counts, payload_types, last_tag, thrown, corrupt>>

ReadScalar ==
  /\ Inside /\ types # <<>> /\ Last(types) \in Scalars
  /\ Available(1)
  /\ offset' = offset + 1
  /\ tag_data' = IF Last(types) = "string" THEN "string" ELSE "value"
  /\ tag_ended' = TRUE /\ Reset
  /\ current_event' = "DATA"
  /\ UNCHANGED <<dataVars, types, names, counts, payload_types, last_tag, thrown, corrupt>>

\* The switch has no case for an unknown type, and nothing is read.
ReadUnknown ==
  /\ Inside /\ In("unknown")
  /\ tag_ended' = FALSE /\ Reset
  /\ current_event' = "DATA"
  /\ UNCHANGED <<offset, dataVars, types, names, counts, payload_types, last_tag, tag_data,
                 thrown, corrupt>>

-----------------------------------------------------------------------------
\* An exception: the data end inside what is read, a name or a string has a
\* negative length, or a closing byte comes where no tag is open.
Throw ==
  /\ \/ AtHeader
     \/ Inside /\ types # <<>> /\ Last(types) \in Scalars \cup Arrays /\ ~Available(1)
     \/ Inside /\ In("string")
     \/ Inside /\ In("array") /\ indices = <<>>
     \/ Inside /\ InList /\ (indices = <<>> \/ payload_types = <<>>)
     \/ /\ Inside /\ InList /\ MoreLeft /\ payload_types # <<>>
        /\ Last(payload_types) \in Counted /\ ~Available(1)
     \/ Inside /\ types = <<>>
  /\ thrown' = TRUE
  /\ UNCHANGED <<offset, dataVars, types, names, counts, payload_types, flags,
                 current_event, last_tag, tag_data, corrupt>>

Next ==
  \/ CloseAtEnd \/ DocumentEnd \/ CloseScalar \/ CloseCompound
  \/ \E t \in Types : \E h \in Headers(t) :
       \/ StartElement(t, h)
       \/ \E name \in Names : StartNamed(t, h, name)
  \/ CloseListOfEnd \/ CloseList \/ CloseArray
  \/ ReadArray \/ ReadScalar \/ ReadUnknown
  \/ Throw

\* The callers ask for the next event until the document ends.
Spec == Init /\ [][Next]_vars /\ WF_vars(Next)

-----------------------------------------------------------------------------
(* Properties. *)

\* Type invariant.
TypeOK ==
  /\ length \in 0..MaxLength /\ offset \in 0..length /\ cut \in BOOLEAN
  /\ types \in Seq(Types) /\ names \in Seq(Names \cup {Unnamed})
  /\ indices \in Seq(Nat) /\ lengths \in Seq(Lengths)
  /\ \A i \in 1..Len(indices) : indices[i] = 0 \/ indices[i] <= lengths[i]
  /\ payload_types \in Seq(Types \cup {"end"})
  /\ tag_ended \in BOOLEAN /\ end_emitted \in BOOLEAN
  /\ current_event \in {"DOCUMENT_START", "TAG_START", "DATA", "TAG_END", "DOCUMENT_END"}
  /\ tag_data \in {"nothing", "value", "string", "deleted"}
  /\ thrown \in BOOLEAN /\ corrupt \in BOOLEAN

HowMany(S, k) == Cardinality({j \in 1..k : types[j] \in S})

\* The stacks stay together until the data end: names and types are of the same
\* tags, every list has its type of elements, and every array and list its index
\* and length.  A list of TAG_END that claims elements leaves its index behind, and
\* even then no stack is popped or looked into when it is empty.  A string is in the
\* union from its datum to the end of its tag, which deletes it: nothing is read into
\* the union in between, and nothing else is ever deleted.
StacksAgree ==
  /\ TypeOK
  /\ Len(names) = Len(types)
  /\ Len(indices) = Len(lengths)
  /\ ~AtEnd =>
       /\ Len(payload_types) = HowMany({"list"}, Len(types))
       /\ Len(indices) >= HowMany(Counted, Len(types))
       /\ ~corrupt => Len(indices) = HowMany(Counted, Len(types))
  /\ tag_data = "string" => In("string") /\ tag_ended
  /\ In("string") /\ ~thrown /\ (AtEnd \/ tag_ended) => tag_data = "string"

\* What get_tag_type() and get_tag_name() give with the event.
Shown ==
  CASE current_event = "TAG_END" -> <<"TAG_END">> \o last_tag
    [] current_event \in {"TAG_START", "DATA"} ->
         <<current_event, Last(types), Last(names)>>
    [] OTHER -> <<current_event>>

ElementsOf(k) == IF types[k] = "list" THEN payload_types[HowMany({"list"}, k)] ELSE "end"

\* What is left of the tag at place k.
LeftOf(k) ==
  LET c == HowMany(Counted, k) IN
  CASE types[k] \in Counted  -> IF (types[k] = "list" /\ ElementsOf(k) = "end") \/ lengths[c] < indices[c]
                                THEN 0 ELSE lengths[c] - indices[c]
    [] types[k] \in Scalars  -> IF k = Len(types) /\ tag_ended THEN 0 ELSE 1
    [] OTHER -> 0

Open ==
  [k \in 1..Len(types) |->
     [type |-> types[k], name |-> names[k], left |-> LeftOf(k),
      elem |-> ElementsOf(k)]]

\* The parser gives the events of the document, in the order of its tree, with the
\* types and names of its tags: it implements TagStream.
Stream == INSTANCE TagStream WITH open <- Open, event <- Shown, finished <- AtEnd
ImplementsTagStream == Stream!Spec

\* A caller that asks for one event after the other comes to the end of the document
\* or to an exception, except inside a tag of an unknown type.
EndsUnlessUnknownTag ==
  <>(current_event = "DOCUMENT_END" \/ thrown \/ In("unknown"))
=============================================================================
