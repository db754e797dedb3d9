----------------------------- MODULE NbtParsers -----------------------------
(***************************************************************************)
(* The two parsers of NBT beside each other, on the same data: chunk.cc can *)
(* be built with either.  The pieces that PullParser reads are recorded, and *)
(* the tree parser is asked what it makes of them.                          *)
(***************************************************************************)
EXTENDS PullParser

Tree == INSTANCE NbtTree

VARIABLES
  read,    \* the pieces that were read, for the tree parser
  events,  \* the events of the pull parser, in order
  closed   \* how many of them the first tag of the document gave, a compound,
           \* once its closing byte was read; 0 before

bothVars == <<vars, read, events, closed>>

BothInit == Init /\ read = <<>> /\ events = <<>> /\ closed = 0

\* The header that a step has read, if it was one of an array or a list.
HeaderRead ==
  LET t == Last(types') IN
  IF t \in Counted
  THEN <<<<"header", IF t = "list" THEN Last(payload_types') ELSE "end", Last(lengths')>>>>
  ELSE <<>>

\* The pieces that a step has read.
PiecesRead ==
  CASE offset' = offset                               -> <<>>
    [] offset' # offset /\ current_event' = "DATA"    -> <<<<"datum">>>>
    [] offset' # offset /\ current_event' = "TAG_END" -> <<<<"end">>>>
    [] offset' # offset /\ current_event' = "TAG_START" ->
         (IF InList THEN <<>> ELSE <<<<"tag", Last(types'), Last(names')>>>>) \o HeaderRead

Record ==
  /\ read' = read \o PiecesRead
  /\ events' = IF thrown' THEN events ELSE Append(events, Shown')
  /\ closed' = IF /\ closed = 0 /\ Len(types) = 1 /\ PiecesRead = <<<<"end">>>>
                   /\ read[1][2] = "compound"
               THEN Len(events) + 1 ELSE closed

Both == Next /\ Record

-----------------------------------------------------------------------------
(* Properties. *)

\* The events of a tag.
RECURSIVE EventsOf(_, _)
EventsOf(name, payload) ==
  <<<<"TAG_START", payload.type, name>>>>
  \o (CASE payload.type = "compound" ->
             FlattenSeq([i \in DOMAIN payload.inner |->
                           EventsOf(payload.inner[i].name, payload.inner[i].data)])
        [] payload.type = "list" /\ payload.elem # "end" ->
             FlattenSeq([i \in DOMAIN payload.inner |-> EventsOf("", payload.inner[i])])
        [] payload.type = "list" /\ payload.elem = "end" -> <<>>
        [] payload.type \notin {"compound", "list"} ->
             [i \in 1..payload.count |-> <<"DATA", payload.type, name>>])
  \o <<<<"TAG_END", payload.type, name>>>>

\* Where the two parsers differ: a list of TAG_Long_Array, which is one of the lists
\* of arrays here, is refused, and a negative length is not one of nothing.
Plain == \A i \in DOMAIN read : read[i][1] = "header" => read[i][3] >= 0
NoListOfArrays == \A i \in DOMAIN read : read[i][1] = "header" => read[i][2] # "array"

Whole == closed > 0 /\ Len(read) = offset /\ Plain /\ ~corrupt

\* Both parsers read the same tree from a document: the events of the one are those
\* of the other's tree, tag by tag.  Before the byte that closes its root was read
\* the tree parser refuses a document, whatever its checks let it read behind the end
\* of the data, and whatever is there.
ParsersAgree ==
  LET trees == Tree!from_iterator(read) IN
  /\ closed = 0 /\ ~corrupt => trees = {Tree!Null}
  /\ Whole =>
       /\ trees \ {Tree!Null} # {} /\ (NoListOfArrays => Tree!Null \notin trees)
       /\ \A root \in trees \ {Tree!Null} :
            EventsOf(root.name, root.data) = SubSeq(events, 1, closed)

\* Keys that may name a tag, or an element of a list by mistake.
Keys == {<<"key", name>> : name \in Names \cup {""}}
Paths == UNION {[1..n -> Keys] : n \in 1..3}

\* How many tags are open before event i.
Depth(i) ==
  Cardinality({k \in 1..(i - 1) : events[k][1] = "TAG_START"})
    - Cardinality({k \in 1..(i - 1) : events[k][1] = "TAG_END"})

\* The end of the tag that starts at i, and the tags inside of it.
EndOf(i) ==
  CHOOSE e \in i..closed :
    /\ events[e][1] = "TAG_END" /\ Depth(e) = Depth(i) + 1
    /\ \A k \in i..(e - 1) : events[k][1] = "TAG_END" => Depth(k) > Depth(i) + 1
Inner(i) == {k \in i..EndOf(i) : events[k][1] = "TAG_START" /\ Depth(k) = Depth(i) + 1}
TagsIn(i, key) ==
  IF events[i][2] = "compound" THEN {k \in Inner(i) : events[k][3] = key[2]} ELSE {}

\* Where the tag that a path names starts: at each level the first of that name.
RECURSIVE StartOf(_)
StartOf(path) ==
  IF Len(path) = 1 THEN IF path[1][2] = events[1][3] THEN {1} ELSE {}
  ELSE UNION {LET tags == TagsIn(i, path[Len(path)])
              IN IF tags = {} THEN {} ELSE {CHOOSE k \in tags : \A l \in tags : k <= l} :
                i \in StartOf(Front(path))}

\* The element of a list that an index names, and how many data an array has.
ElementAt(i, n) ==
  IF events[i][2] # "list" THEN {}
  ELSE {k \in Inner(i) : Cardinality({l \in Inner(i) : l < k}) = n}
DataIn(i) == IF events[i][2] = "array" THEN EndOf(i) - i - 1 ELSE 0

\* A query finds what is there in the document and has the type that is asked for,
\* and nothing else: for a path of keys the first tag of that name at each level, with
\* an index at the end an element of the list or of the array found there.  A path that
\* ignores empty lists, and compile() leaves it open whether one does, misses those of
\* TAG_End only.
QueryFindsTheTag ==
  Whole =>
    \A root \in Tree!from_iterator(read) \ {Tree!Null}, path \in Paths, type \in Known :
      LET Found(p) == Tree!query(root, p, type, FALSE)
          AsFound(p, name, starts) ==
            /\ (Found(p) = Tree!Null) = (starts = {})
            /\ \A i \in starts : EventsOf(name, Found(p)) = SubSeq(events, i, EndOf(i))
            /\ Tree!query(root, p, type, TRUE) =
                 IF Found(p) = Tree!ListOf("end", <<>>) THEN Tree!Null ELSE Found(p)
          tags == StartOf(path)
      IN /\ AsFound(path, path[Len(path)][2], {i \in tags : events[i][2] = type})
         /\ AsFound(Append(path, <<"list", 1>>), "",
                    {k \in UNION {ElementAt(i, 1) : i \in tags} : events[k][2] = type})
         /\ (Tree!query(root, Append(path, <<"array", 1>>), "int", FALSE) # Tree!Null)
              = (\E i \in tags : DataIn(i) > 1)
=============================================================================
