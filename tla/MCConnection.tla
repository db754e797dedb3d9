-------------------------- MODULE MCConnection --------------------------
(* The streams of Connection, for TLC: all that up to three tokens make. *)
EXTENDS Connection

CONSTANTS G, A

\* Lines with and without what parse_all looks for, and pieces that are no line:
\* a request line, fields with and without a value, without a colon, without a
\* key, a line that just fits, one too long, no CR, no LF, nothing at all.
Tokens == {
  <<G, CR, LF>>, <<A, Colon, Space, A, CR, LF>>, <<G, Colon, CR, LF>>, <<A, CR, LF>>,
  <<Colon, A, CR, LF>>, <<CR, LF>>, <<A, A, A, A, A, CR, LF>>, <<A, LF>>,
  <<A, CR>>, <<A>> }

SomeStreams ==
  LET Piece == Tokens \cup {<<>>}
  IN {a \o b \o c : a, b, c \in Piece}

RequestLines == {<<G>>}

\* A field named A stands for the ones that are needed.
HasA(found) == <<A>> \in DOMAIN found

\* Shorter than the buffer, as long, a byte longer, and twice as long.
SomeSizes == [c \in {200, 400, 404} |-> IF c = 200 THEN {2, 3, 5} ELSE {1, 4}]
=============================================================================
