---------------------------- MODULE LineSplitter ----------------------------
(***************************************************************************)
(* What request::read_request_line promises: the lines of a stream that    *)
(* end in CR LF, have neither inside, and fit into the buffer, one after   *)
(* the other; and a failure at the first place where there is none.  There *)
(* is no buffer here, and no pieces in which the stream arrives: what is   *)
(* read depends on the stream alone.                                       *)
(***************************************************************************)
EXTENDS Naturals, Sequences

CONSTANTS Streams,  \* what a client may send before it closes its end
          BufSize,  \* IO_BUF_SIZE
          CR, LF

VARIABLES stream,  \* what the client sends
          at,      \* how much of it has been read as lines
          mode     \* "reading" or "over"

splitVars == <<stream, at, mode>>

Plain(c) == c \notin {CR, LF}

\* The next line ends before position e + 1, where its CR is.
LineEnds(e) ==
  /\ \A i \in (at + 1)..e : Plain(stream[i])
  /\ stream[e + 1] = CR
  /\ stream[e + 2] = LF
  /\ e - at + 2 <= BufSize

Ends == {e \in at..(Len(stream) - 2) : LineEnds(e)}

Init ==
  /\ stream \in Streams
  /\ at = 0
  /\ mode = "reading"

\* A line is read; the reader may want no more after it.
ReadLine ==
  /\ mode = "reading"
  /\ \E e \in Ends : at' = e + 2
  /\ mode' \in {"reading", "over"}
  /\ UNCHANGED stream

\* There is no next line, and nothing is read any more.
Fail ==
  /\ mode = "reading"
  /\ Ends = {}
  /\ mode' = "over"
  /\ UNCHANGED <<stream, at>>

Next == ReadLine \/ Fail

Spec == Init /\ [][Next]_splitVars
=============================================================================
