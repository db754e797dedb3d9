----------------------------- MODULE XmlOutput -----------------------------
(***************************************************************************)
(* handle_file() of src/src/nbt-to-xml.cc, in the build with the pull       *)
(* parser (PullParser): each event of the document is printed as a line of  *)
(* XML, indented by a counter.  An exception of the parser ends it.         *)
(***************************************************************************)
EXTENDS PullParser

VARIABLES
  indent,  \* how many tags the loop thinks are open
  lines    \* what was printed: where a tag starts or ends, or a datum

xmlVars == <<indent, lines>>

OutputInit == indent = 0 /\ lines = <<>>

\* get_tag_type() and get_tag_name(), of the event that next() has come to.
LineOf(depth, kind) ==
  [indent |-> depth, kind |-> kind, type |-> Shown'[2], name |-> IF kind = "open" THEN Shown'[3] ELSE ""]

OpenElement ==
  /\ current_event' = "TAG_START"
  /\ lines' = Append(lines, LineOf(indent, "open"))
  /\ indent' = indent + 1

Contents ==
  /\ current_event' = "DATA"
  /\ lines' = Append(lines, LineOf(indent, "data"))
  /\ UNCHANGED indent

\* Mutant: the end of a tag is indented like what is in it.
CloseElementInside ==
  /\ current_event' = "TAG_END"
  /\ lines' = Append(lines, LineOf(indent, "close"))
  /\ indent' = indent - 1

CloseElement ==
  /\ current_event' = "TAG_END"
  /\ lines' = Append(lines, LineOf(indent - 1, "close"))
  /\ indent' = indent - 1

\* The end of the document ends the loop, and so does an exception.
NoLine == (thrown' \/ current_event' = "DOCUMENT_END") /\ UNCHANGED xmlVars

\* The loop: next(), and then the line for the event it has come to.
Output ==
  \/ NoLine
  \/ ~thrown' /\ OpenElement
  \/ ~thrown' /\ Contents
  \/ ~thrown' /\ CloseElement

OutputSpec == Init /\ OutputInit /\ [][Next /\ Output]_<<vars, xmlVars>>

-----------------------------------------------------------------------------
(* Properties. *)

\* How many elements are open after line i, by its indentation.
DepthAfter(ls, i) ==
  IF i = 0 THEN 0 ELSE ls[i].indent + (IF ls[i].kind = "open" THEN 1 ELSE 0)

\* Line i is printed inside the element of its type that line o opens.
IsIn(ls, o, i) ==
  /\ o < i /\ ls[o].kind = "open" /\ ls[o].type = ls[i].type
  /\ \A k \in (o + 1)..(i - 1) : ls[k].indent > ls[o].indent

Closes(ls, o, c) == IsIn(ls, o, c) /\ ls[c].kind = "close" /\ ls[c].indent = ls[o].indent

\* Lines are indented by the elements that are open, and an element is closed when all
\* that were opened in it are.
Nests(ls) ==
  /\ \A i \in DOMAIN ls :
       ls[i].indent = DepthAfter(ls, i - 1) - (IF ls[i].kind = "close" THEN 1 ELSE 0)
  /\ \A c \in DOMAIN ls : ls[c].kind = "close" => \E o \in DOMAIN ls : Closes(ls, o, c)

\* A datum is in the element of its tag.
DataInPlace(ls) ==
  \A i \in DOMAIN ls : ls[i].kind = "data" =>
    \E o \in DOMAIN ls : IsIn(ls, o, i) /\ ls[o].indent = ls[i].indent - 1

AllClosed(ls) ==
  \A o \in DOMAIN ls : ls[o].kind = "open" => \E c \in DOMAIN ls : Closes(ls, o, c)

\* The XML of a document is one: at every event the lines that were printed nest, each
\* datum is in the element of its tag, and when the document ends every element was
\* closed, be it cut off or corrupt.
XmlIsTheDocument ==
  /\ Nests(lines) /\ DataInPlace(lines)
  /\ current_event = "DOCUMENT_END" => AllClosed(lines)
=============================================================================
