---------------------------- MODULE ChunkFields ----------------------------
(***************************************************************************)
(* chunk.cc as a build without USE_V3_NBT_PARSER compiles it: a field is    *)
(* looked for when it is first asked for, by going on with the events of    *)
(* the pull parser, and what lies on the way is kept.  The parser is what   *)
(* TagStream says of it, and it may throw.  Each step of a loop in          *)
(* parse_fields() and parse_sections() asks it for one event.               *)
(***************************************************************************)
EXTENDS Integers, Sequences, SequencesExt

CONSTANTS
  Names, Scalars, Arrays, Lengths,  \* as in TagStream
  Values,        \* of each type, what a datum of it may be
  SectionCount,  \* PALETTE_Y_MAX
  NoY,           \* CHUNK_MAX_Y
  Null,          \* a null pointer, or a field not yet assigned
  Vocabulary,    \* bound: the types and names of tags at each depth
  MaxTags        \* bound: tags of a document, elements of lists not counted

ASSUME ValuesAssumption == Values["byte"] \subseteq Nat /\ SectionCount \in Nat /\ NoY \in Nat /\ NoY >= SectionCount
ASSUME TypesAssumption ==
  /\ {"byte", "int", "long", "string"} \subseteq Scalars /\ {"ints", "longs"} \subseteq Arrays
  /\ Scalars \cap Arrays = {} /\ {"list", "compound"} \cap (Scalars \cup Arrays) = {}
  /\ Lengths \subseteq Int

Fields == {"Sections", "LastUpdate", "Biomes", "DataVersion"}

VARIABLES
  open, event, finished, corrupt,  \* the parser, as in TagStream
  datum,          \* what get_byte(), get_long() and the like give
  place,          \* where the chunk is in its loops
  asked,          \* the argument of make_sure_field_parsed()
  tag_structure, loaded_fields,
  last_update, data_version, biomes,
  sections,       \* palettes and block_states: of each Y both, or Null
  y, section,     \* locals of parse_sections(): y, and palette with block_state
  level,          \* how many tags a loop that skips has to close
  tags, taken,    \* bound; and the names that each open compound has already
  doc             \* history: the fields where the document has them

stream == <<open, event, finished, corrupt>>
reading == <<stream, datum, tags, taken, doc>>
fields == <<last_update, data_version, biomes, sections>>
locals == <<y, section, level>>
vars == <<reading, place, asked, tag_structure, loaded_fields, fields, locals>>

Stream == INSTANCE TagStream

Empty == [palette |-> <<>>, states |-> <<>>]

Init ==
  /\ Stream!Init /\ ~finished
  /\ datum = Null
  /\ place = "idle" /\ asked = Null
  /\ tag_structure = <<>> /\ loaded_fields = {}
  /\ last_update = Null /\ data_version = Null /\ biomes = <<>>
  /\ sections = [i \in 0..(SectionCount - 1) |-> Null]
  /\ y = NoY /\ section = Empty /\ level = 0
  /\ tags = 0 /\ taken = <<>>
  /\ doc = [seen |-> {}, last_update |-> Null, data_version |-> Null, biomes |-> <<>>,
            sections |-> sections, y |-> NoY, section |-> Empty, cut |-> FALSE]

-----------------------------------------------------------------------------
(* What the document says, by the names of the tags that are open. *)

NamesOf(o) == [i \in 1..Len(o) |-> o[i].name]

PathOf(field) ==
  IF field = "DataVersion" THEN <<Stream!Unnamed, field>> ELSE <<Stream!Unnamed, "Level", field>>
SectionsPath == PathOf("Sections")

\* The names below //Level/Sections, if path is there.
Below(path) == IF Len(path) > 3 /\ SubSeq(path, 1, 3) = SectionsPath THEN SubSeq(path, 4, Len(path)) ELSE <<>>

WithDatum(d, path, type, v) ==
  LET below == Below(path) IN
  IF path = PathOf("LastUpdate") THEN [d EXCEPT !.last_update = v]
  ELSE IF path = PathOf("DataVersion") THEN [d EXCEPT !.data_version = v]
  ELSE IF path = PathOf("Biomes") THEN [d EXCEPT !.biomes = Append(@, v)]
  ELSE IF Len(below) = 2 /\ below[2] = "Y" THEN [d EXCEPT !.y = v]
  ELSE IF Len(below) = 2 /\ below[2] = "BlockStates" THEN [d EXCEPT !.section.states = Append(@, v)]
  ELSE IF Len(below) = 4 /\ below[2] = "Palette" /\ below[4] = "Name" /\ type = "string"
       THEN [d EXCEPT !.section.palette = Append(@, v)]
       ELSE d

Stored(s, at, what) == IF at < SectionCount THEN [s EXCEPT ![at] = what] ELSE s

\* The document after the event ev, which leaves the tags o open.
Told(d, ev, o, v) ==
  LET path == NamesOf(o)
      element == Len(Below(path)) = 1
  IN IF ev[1] = "DATA" THEN WithDatum(d, path, ev[2], v)
     ELSE IF ev[1] = "TAG_START"
          THEN [d EXCEPT !.seen = @ \cup {f \in Fields : path = PathOf(f)},
                         !.y = IF element THEN NoY ELSE @,
                         !.section = IF element THEN Empty ELSE @]
     ELSE IF ev[1] = "TAG_END" /\ path = SectionsPath
          THEN [d EXCEPT !.sections = Stored(@, d.y, d.section), !.y = NoY, !.section = Empty]
          ELSE d

-----------------------------------------------------------------------------
(* parser.next() *)

\* Bounds: a named tag is one of the vocabulary, and there are MaxTags of them.  The
\* tags of a compound have different names, as the game writes them (the proofs take
\* that from here, too), and behind the root is nothing.
Fits(tag, depth) ==
  /\ depth <= Len(Vocabulary) /\ <<tag.type, tag.name>> \in Vocabulary[depth]
  /\ tag.type = "list" /\ tag.left > 0 =>
       depth < Len(Vocabulary) /\ <<tag.elem, Stream!Unnamed>> \in Vocabulary[depth + 1]

Element == open # <<>> /\ Last(open).type = "list"

Bounded ==
  IF event'[1] = "TAG_START"
  THEN /\ Fits(Last(open'), Len(open'))
       /\ IF Element THEN tags' = tags /\ taken' = Append(taken, {})
          ELSE /\ tags < MaxTags /\ tags' = tags + 1
               /\ IF taken = <<>> THEN taken' = <<{}>>
                  ELSE /\ event'[3] \notin Last(taken)
                       /\ taken' = Append([taken EXCEPT ![Len(taken)] = @ \cup {event'[3]}], {})
  ELSE tags' = tags /\ taken' = IF event'[1] = "TAG_END" THEN Front(taken) ELSE taken

Read ==
  /\ corrupt' = FALSE /\ finished' \in BOOLEAN
  /\ Stream!Next
  /\ Bounded
  /\ open' = <<>> => finished'
  /\ datum' \in IF event'[1] = "DATA" THEN Values[event'[2]]
               ELSE IF finished' THEN UNION {Values[t] : t \in Scalars} ELSE {Null}
  /\ doc' = [Told(doc, event', open', datum') EXCEPT !.cut = @ \/ (finished' /\ open' # <<>>)]

Starts == event'[1] = "TAG_START"
Ends == event'[1] = "TAG_END"
IsDatum == event'[1] = "DATA"

-----------------------------------------------------------------------------
(* make_sure_field_parsed() and parse_fields() *)

Ask(field) ==
  /\ place = "idle"
  /\ field \notin loaded_fields
  /\ asked' = field
  /\ place' = "fields"
  /\ UNCHANGED <<reading, tag_structure, loaded_fields, fields, locals>>

\* parse_fields() returns: it is called again until the field was found.
Return == place' = IF asked \in loaded_fields THEN "idle" ELSE "fields"

\* Mutant: the innermost name decides.
FieldByName(structure) == Fields \cap {structure[Len(structure)]}

\* current_field() of the tags that have been entered.
current_field(structure) ==
  IF Len(structure) < 2 \/ structure[1] # Stream!Unnamed THEN {}
  ELSE IF structure[2] = "DataVersion" THEN {"DataVersion"}
  ELSE IF Len(structure) >= 3 /\ structure[2] = "Level"
       THEN {"Sections", "LastUpdate", "Biomes"} \cap {structure[3]}
       ELSE {}

\* Mutant: the tag that has ended is not removed.
LeaveWithoutPop ==
  /\ place = "fields" /\ event[1] = "TAG_END"
  /\ tag_structure # <<>>
  /\ Read
  /\ UNCHANGED <<place, asked, tag_structure, loaded_fields, fields, locals>>

\* The loop of parse_fields(): a tag has ended...
Leave ==
  /\ place = "fields" /\ event[1] = "TAG_END"
  /\ tag_structure # <<>>
  /\ tag_structure' = Front(tag_structure)
  /\ Read
  /\ UNCHANGED <<place, asked, loaded_fields, fields, locals>>

Pass ==
  /\ place = "fields" /\ event[1] \in {"DOCUMENT_START", "DATA"}
  /\ Read
  /\ UNCHANGED <<place, asked, tag_structure, loaded_fields, fields, locals>>

\* ... or started, and is none of the fields...
Enter ==
  /\ place = "fields" /\ event[1] = "TAG_START"
  /\ tag_structure' = Append(tag_structure, event[3])
  /\ current_field(tag_structure') = {}
  /\ Read
  /\ UNCHANGED <<place, asked, loaded_fields, fields, locals>>

\* ... or is one of them.  The type of Sections is not looked at.
EnterField(field) ==
  /\ place = "fields" /\ event[1] = "TAG_START"
  /\ tag_structure' = Append(tag_structure, event[3])
  /\ field \in current_field(tag_structure')
  /\ loaded_fields' = loaded_fields \cup {field}
  /\ place' = IF field = "Sections" THEN "elements"
              ELSE IF field # "Biomes" THEN field
              ELSE IF event[2] = "ints" THEN "biomes" ELSE "failed"
  /\ UNCHANGED <<reading, asked, fields, locals>>

ReadLastUpdate ==
  /\ place = "LastUpdate"
  /\ Read
  /\ IF IsDatum /\ event'[2] = "long" THEN last_update' = datum' /\ place' = "value"
     ELSE place' = "failed" /\ UNCHANGED last_update
  /\ UNCHANGED <<asked, tag_structure, loaded_fields, data_version, biomes, sections, locals>>

ReadDataVersion ==
  /\ place = "DataVersion"
  /\ Read
  /\ IF IsDatum /\ event'[2] = "int" THEN data_version' = datum' /\ place' = "value"
     ELSE place' = "failed" /\ UNCHANGED data_version
  /\ UNCHANGED <<asked, tag_structure, loaded_fields, last_update, biomes, sections, locals>>

EndValue ==
  /\ place = "value"
  /\ Read
  /\ Return
  /\ UNCHANGED <<asked, tag_structure, loaded_fields, fields, locals>>

ReadBiomes ==
  /\ place = "biomes"
  /\ Read
  /\ IF IsDatum THEN biomes' = Append(biomes, datum') /\ UNCHANGED place
     ELSE Return /\ UNCHANGED biomes
  /\ UNCHANGED <<asked, tag_structure, loaded_fields, last_update, data_version, sections, locals>>

\* Mutant: the loop of make_sure_field_parsed() does not look for the end.
AskAgain ==
  /\ place = "fields" /\ event[1] = "DOCUMENT_END"
  /\ UNCHANGED vars

\* The document ends without the field.
NotFound ==
  /\ place = "fields" /\ event[1] = "DOCUMENT_END"
  /\ place' = "missing"
  /\ UNCHANGED <<reading, asked, tag_structure, loaded_fields, fields, locals>>

-----------------------------------------------------------------------------
(* parse_sections() *)

\* The loops that skip: how many tags are left to close.
Level == IF Starts THEN level + 1 ELSE IF Ends THEN level - 1 ELSE level

\* The loop over the tags of an element turns to the tag of event ev.  A "Y" that has
\* ended is the first tag, which was read already.
Dispatch(ev) ==
  IF ev[3] = "BlockStates" THEN IF ev[2] = "longs" THEN "states" ELSE "failed"
  ELSE IF ev[3] = "Palette" THEN IF ev[2] = "list" THEN "palette" ELSE "failed"
  ELSE IF ev[3] # "Y" THEN "skip"
  ELSE IF ev[2] # "byte" THEN "failed"
  ELSE IF ev[1] = "TAG_END" THEN "after" ELSE "y"

Turn ==
  /\ place' = Dispatch(event')
  /\ level' = IF place' = "skip" THEN 1 ELSE 0

InSections == UNCHANGED <<asked, tag_structure, loaded_fields, last_update, data_version, biomes>>

\* An element of Sections starts, or there are no more.
ReadElement ==
  /\ place = "elements"
  /\ Read
  /\ y' = NoY
  /\ IF Ends THEN Return ELSE place' = IF Starts THEN "first" ELSE "failed"
  /\ InSections /\ UNCHANGED <<sections, section, level>>

\* Its first tag.
ReadFirst ==
  /\ place = "first"
  /\ Read
  /\ IF Ends THEN place' = "elements" /\ UNCHANGED level
     ELSE IF ~Starts THEN place' = "failed" /\ UNCHANGED level
     ELSE IF event'[2] = "byte" /\ event'[3] = "Y" THEN place' = "firstY" /\ UNCHANGED level
     ELSE Turn
  /\ section' = Empty
  /\ InSections /\ UNCHANGED <<sections, y>>

\* A first tag "Y" may say that the element is none of a chunk.
ReadFirstY ==
  /\ place = "firstY"
  /\ Read
  /\ y' = datum'
  /\ IF datum' >= SectionCount THEN place' = "discard" /\ level' = 2
     ELSE place' = "firstYEnd" /\ UNCHANGED level
  /\ InSections /\ UNCHANGED <<sections, section>>

Discard ==
  /\ place = "discard"
  /\ Read
  /\ level' = Level
  /\ place' = IF level' = 0 THEN "elements" ELSE place
  /\ InSections /\ UNCHANGED <<sections, y, section>>

ReadFirstYEnd ==
  /\ place = "firstYEnd"
  /\ Read
  /\ Turn
  /\ InSections /\ UNCHANGED <<sections, y, section>>

ReadState ==
  /\ place = "states"
  /\ Read
  /\ IF IsDatum THEN section' = [section EXCEPT !.states = Append(@, datum')] /\ UNCHANGED place
     ELSE place' = "after" /\ UNCHANGED section
  /\ InSections /\ UNCHANGED <<sections, y, level>>

ReadPalette ==
  /\ place = "palette"
  /\ Read
  /\ place' = IF Ends THEN "after" ELSE "entry"
  /\ InSections /\ UNCHANGED <<sections, locals>>

\* An entry of the palette: its name is kept, its other tags are skipped.
ReadEntry ==
  /\ place = "entry"
  /\ Read
  /\ place' = IF Ends THEN "palette"
              ELSE IF ~Starts THEN place
              ELSE IF event'[2] = "string" /\ event'[3] = "Name" THEN "name" ELSE "skipInEntry"
  /\ level' = IF place' = "skipInEntry" THEN 1 ELSE 0
  /\ InSections /\ UNCHANGED <<sections, y, section>>

\* Nothing looks whether there is a datum: what get_string() gives without one may be
\* anything, a pointer to what was deleted, too.
ReadName ==
  /\ place = "name"
  /\ Read
  /\ section' = [section EXCEPT !.palette = Append(@, datum')]
  /\ place' = "nameEnd" \/ (~IsDatum /\ place' = "failed")
  /\ InSections /\ UNCHANGED <<sections, y, level>>

ReadNameEnd ==
  /\ place = "nameEnd"
  /\ Read
  /\ place' = "entry"
  /\ InSections /\ UNCHANGED <<sections, locals>>

SkipInEntry ==
  /\ place = "skipInEntry"
  /\ Read
  /\ level' = Level
  /\ place' = IF level' = 0 THEN "entry" ELSE place
  /\ InSections /\ UNCHANGED <<sections, y, section>>

\* A "Y" that is not the first tag.
ReadY ==
  /\ place = "y"
  /\ Read
  /\ y' = datum'
  /\ place' = "yEnd"
  /\ InSections /\ UNCHANGED <<sections, section, level>>

ReadYEnd ==
  /\ place = "yEnd"
  /\ Read
  /\ place' = "after"
  /\ InSections /\ UNCHANGED <<sections, locals>>

Skip ==
  /\ place = "skip"
  /\ Read
  /\ level' = Level
  /\ place' = IF level' = 0 THEN "after" ELSE place
  /\ InSections /\ UNCHANGED <<sections, y, section>>

\* The next tag of the element, or its end: what was read is kept if Y is in range.
ReadAfter ==
  /\ place = "after"
  /\ Read
  /\ IF Starts THEN Turn ELSE place' = (IF Ends THEN "elements" ELSE "failed") /\ UNCHANGED level
  /\ sections' = IF Ends THEN Stored(sections, y, section) ELSE sections
  /\ InSections /\ UNCHANGED <<y, section>>

\* The parser throws.
Throw ==
  /\ place \notin {"idle", "missing", "failed"}
  /\ place' = "failed"
  /\ UNCHANGED <<reading, asked, tag_structure, loaded_fields, fields, locals>>

Step ==
  \/ Leave \/ Pass \/ Enter \/ \E field \in Fields : EnterField(field)
  \/ ReadLastUpdate \/ ReadDataVersion \/ EndValue \/ ReadBiomes \/ NotFound
  \/ ReadElement \/ ReadFirst \/ ReadFirstY \/ Discard \/ ReadFirstYEnd \/ ReadState
  \/ ReadPalette \/ ReadEntry \/ ReadName \/ ReadNameEnd \/ SkipInEntry
  \/ ReadY \/ ReadYEnd \/ Skip \/ ReadAfter

Next == Step \/ Throw \/ \E field \in Fields : Ask(field)

\* A request goes on until it returns or throws; nothing makes the parser throw.
Spec == Init /\ [][Next]_vars /\ WF_vars(Step)

-----------------------------------------------------------------------------
(* Properties. *)

TagNames == NamesOf(open)

\* What parse_fields() knows of the tags that are open: all of them, but for the event
\* it has not turned to yet.
Known ==
  IF event[1] = "TAG_START" THEN Front(TagNames)
  ELSE IF event[1] = "TAG_END" THEN Append(TagNames, event[3]) ELSE TagNames

\* The places of parse_fields(), and how deep in Sections each loop of parse_sections() is.
InFields == {"idle", "fields", "missing"}
InValue == {"LastUpdate", "DataVersion", "value", "biomes"}
DepthOf ==
  IF place = "elements" THEN 3
  ELSE IF place \in {"first", "after"} THEN 4
  ELSE IF place \in {"firstY", "firstYEnd", "states", "palette", "y", "yEnd"} THEN 5
  ELSE IF place = "entry" THEN 6
  ELSE IF place \in {"name", "nameEnd"} THEN 7
  ELSE level + IF place = "discard" THEN 3 ELSE IF place = "skip" THEN 4 ELSE 6

\* Where the loops that read events of their own go on in step with the tags: the path
\* that says which field a tag is has the tags that are open, whatever a nested loop has
\* read on its own, each loop of parse_sections() is at its depth, and no more is ever
\* popped than was pushed, not even from a document that was cut off.
StructureFollowsTags ==
  /\ event[1] = "TAG_END" /\ place = "fields" => tag_structure # <<>>
  /\ ~doc.cut =>
       IF place \in InFields THEN tag_structure = Known
       ELSE IF place \in InValue THEN tag_structure = TagNames
       ELSE place # "failed" => /\ tag_structure = SectionsPath
                                /\ SubSeq(TagNames, 1, 3) = SectionsPath
                                /\ Len(open) = DepthOf

\* In whatever order fields are asked for, what was found is what the document has at
\* the field's path, and a field is missing only if the document has none: tags of the
\* same name elsewhere, between or inside of fields, are not taken for one.
FieldsAreTheDocuments ==
  ~doc.cut /\ place \in {"idle", "missing"} =>
    /\ loaded_fields = doc.seen
    /\ last_update = doc.last_update /\ data_version = doc.data_version
    /\ biomes = doc.biomes /\ sections = doc.sections
    /\ place = "missing" => asked \notin doc.seen

\* A request returns or throws, also for a document that was cut off anywhere: none of
\* the loops goes on at its end.
RequestsEnd ==
  (place \notin {"idle", "missing", "failed"}) ~> (place \in {"idle", "missing", "failed"})
=============================================================================
