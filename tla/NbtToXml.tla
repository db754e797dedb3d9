------------------------------ MODULE NbtToXml ------------------------------
(***************************************************************************)
(* handle_file() of src/src/nbt-to-xml.cc in its two builds: one prints the *)
(* events of the pull parser (XmlOutput), the other the tree that was read  *)
(* (NbtTree); which lines are what the same data give is looked at here.    *)
(***************************************************************************)
EXTENDS NbtParsers, XmlOutput

bothXmlVars == <<bothVars, xmlVars>>

XmlInit == BothInit /\ OutputInit

\* Bound: the parser gives DATA in a tag of an unknown type again and again, and one line
\* of them is enough.
BothOutput == Both /\ Output /\ vars' # vars

XmlSpec == XmlInit /\ [][BothOutput]_bothXmlVars /\ WF_bothXmlVars(BothOutput)

-----------------------------------------------------------------------------
(* Properties. *)

\* The two lines say the same: the tree's elements of a list have no type of their own.
SameLine(line, ofTree) ==
  /\ line.kind = ofTree.kind
  /\ IF ofTree.type = "element" THEN line.name = ""
     ELSE line.type = ofTree.type /\ line.name = ofTree.name

\* The two builds read the same tree from the same data (ParsersAgree), and print the
\* same elements: but for the types of lists, which only the tree's says, the lines of the
\* one are those of the other, and both nest.
BuildsAgree ==
  /\ ParsersAgree
  /\ Whole =>
       \A p \in Tree!RootOf(read) :
         LET printed == Tree!ReprTag(p[1][1].name, p[1][1].data, 0)
             others == SelectSeq(printed, LAMBDA line : line.kind # "payloadtype")
         IN ~Tree!Failed(p) =>
              /\ Nests(printed)
              /\ closed <= Len(lines) /\ Len(others) = closed
              /\ \A i \in 1..closed : SameLine(lines[i], others[i])
=============================================================================
