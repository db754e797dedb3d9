----------------------------- MODULE TagStream -----------------------------
(***************************************************************************)
(* What nbt_pull_parser (src/src/nbt/pull_parser) promises its callers:     *)
(* the events of a document come in the order of its tree.  One stack of    *)
(* the tags that are open, each with what is left of it, says what may come *)
(* next.  A document that ends too early has all its open tags closed.  For *)
(* a corrupt one, nothing is promised.                                      *)
(***************************************************************************)
EXTENDS Integers, Sequences, SequencesExt

CONSTANTS
  Names,    \* names of tags
  Scalars,  \* types whose value is one datum
  Arrays,   \* types whose value is counted data
  Lengths   \* the lengths that headers state

Types == Scalars \cup Arrays \cup {"list", "compound"}

VARIABLES
  open,      \* the tags that have started and not ended, the outermost first
  event,     \* the last event: what it is, and the tag's type and name
  finished,  \* there is no more data
  corrupt    \* the document is not one

vars == <<open, event, finished, corrupt>>

Unnamed == ""  \* the name of an element of a list

AtLeastZero(n) == IF n < 0 THEN 0 ELSE n

\* What can be left of a tag of type t when it starts, by what its header states.
Stated == {AtLeastZero(n) : n \in Lengths}
LeftOf(t) == IF t \in Scalars THEN {1} ELSE IF t = "compound" THEN {0} ELSE Stated

\* The tags of type t: a list has elements of a type, and a list of "end" none.
Tags(t, name) ==
  {[type |-> t, name |-> name, elem |-> e, left |-> n] :
     e \in IF t = "list" THEN Types ELSE {"end"}, n \in LeftOf(t)}
  \cup {[type |-> t, name |-> name, elem |-> "end", left |-> 0] : u \in {t} \cap {"list"}}

Init == open = <<>> /\ event = <<"DOCUMENT_START">> /\ finished \in BOOLEAN /\ corrupt = FALSE

\* Data and documents are used up, and spoilt, once and for all.
Goes == (finished => finished') /\ (corrupt => corrupt')

Decrement == [open EXCEPT ![Len(open)].left = @ - 1]

\* A tag with a name starts at the top or in a compound.
StartNamed ==
  /\ open # <<>> => Last(open).type = "compound"
  /\ \E t \in Types, name \in Names : \E tag \in Tags(t, name) :
       open' = Append(open, tag) /\ event' = <<"TAG_START", t, name>>

\* One without a name is an element of a list.
StartElement ==
  /\ open # <<>> /\ Last(open).type = "list" /\ Last(open).left > 0
  /\ \E tag \in Tags(Last(open).elem, Unnamed) :
       open' = Append(Decrement, tag) /\ event' = <<"TAG_START", tag.type, Unnamed>>

Datum ==
  /\ open # <<>> /\ Last(open).type \in Scalars \cup Arrays /\ Last(open).left > 0
  /\ open' = Decrement
  /\ event' = <<"DATA", Last(open).type, Last(open).name>>

\* A tag ends when nothing of it is left, and a compound at any time.
End ==
  /\ open # <<>>
  /\ Last(open).left = 0 \/ finished
  /\ open' = Front(open)
  /\ event' = <<"TAG_END", Last(open).type, Last(open).name>>

DocumentEnd ==
  /\ open = <<>> /\ finished
  /\ event' = <<"DOCUMENT_END">>
  /\ UNCHANGED open

Next ==
  /\ Goes
  /\ \/ corrupt'
     \/ ~finished /\ (StartNamed \/ StartElement \/ Datum)
     \/ End
     \/ DocumentEnd

Spec == Init /\ [][Next]_vars
=============================================================================
