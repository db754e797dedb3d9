--------------------------- MODULE RequestReader ----------------------------
(***************************************************************************)
(* The request parser of src/server/request.cc: parse_all reads the lines  *)
(* of a request from a buffer of BufSize bytes, which read_request_line    *)
(* refills from a socket.  Every read() returns some of what is there,     *)
(* wherever that cuts a line.  The buffer is the got bytes of the stream   *)
(* that follow the base bytes already read as lines.                       *)
(***************************************************************************)
EXTENDS Naturals, Sequences, FiniteSets

CONSTANTS Streams,     \* what a client may send before it closes its end
          BufSize,     \* IO_BUF_SIZE (2048)
          MaxFields,   \* max_fields (5)
          Signatures,  \* the request lines parse_sig() accepts
          CR, LF, Colon, Space

ASSUME BufferAssumption == BufSize \in Nat \ {0} /\ MaxFields \in Nat
ASSUME StreamAssumption == \A s \in Streams : Len(s) \in Nat /\ DOMAIN s = 1..Len(s)
ASSUME ByteAssumption == CR # LF

VARIABLES
  stream,  \* what the client sends
  base,    \* how much of it was taken out of the buffer
  got,     \* n_in_buf
  end,     \* end: the bytes of the buffer known to be neither CR nor LF
  cr,      \* has_cr
  pc,      \* "scan", "test", "lf" or "done"
  sig,     \* "none" before the request line, then "ok" or "bad"
  fields,  \* the fields read so far
  result   \* what parse_all() returns, "none" before that

readVars == <<base, got, end, cr>>
parseVars == <<sig, fields, result>>
vars == <<stream, base, got, end, cr, pc, sig, fields, result>>

Plain(c) == c \notin {CR, LF}

Init ==
  /\ stream \in Streams
  /\ base = 0 /\ got = 0 /\ end = 0 /\ cr = FALSE
  /\ pc = "scan"
  /\ sig = "none" /\ fields = [k \in {} |-> <<>>] /\ result = "none"

-----------------------------------------------------------------------------
(* parse_all() *)

\* read_request_line() fails: before the request line that ends the parsing
\* with false; after it with true.
Fail ==
  /\ pc' = "done"
  /\ result' = IF sig = "none" THEN "false" ELSE "true"
  /\ UNCHANGED <<stream, readVars, sig, fields>>

Colons(line) == {i \in DOMAIN line : line[i] = Colon}
FirstColon(line) == CHOOSE i \in Colons(line) : \A j \in Colons(line) : i <= j

\* Without a colon, the key is the whole line and the value starts at its first byte.
Key(line) == IF Colons(line) = {} THEN line ELSE SubSeq(line, 1, FirstColon(line) - 1)
Value(line) ==
  LET rest == IF Colons(line) = {} THEN line
              ELSE SubSeq(line, FirstColon(line) + 1, Len(line))
  IN IF rest # <<>> /\ Head(rest) = Space THEN Tail(rest) ELSE rest

RequestLine(line) ==
  /\ sig = "none"
  /\ UNCHANGED fields
  /\ \/ line \in Signatures /\ sig' = "ok" /\ pc' = "scan" /\ UNCHANGED result
     \/ line \notin Signatures /\ sig' = "bad" /\ pc' = "done" /\ result' = "false"

\* A blank line ends the request; a line without a key, or one field too many,
\* ends the parsing.
HeaderLine(line) ==
  /\ sig = "ok"
  /\ UNCHANGED sig
  /\ \/ line = <<>> /\ pc' = "done" /\ result' = "true" /\ UNCHANGED fields
     \/ line # <<>> /\ Key(line) = <<>> /\ pc' = "done" /\ result' = "false" /\ UNCHANGED fields
     \/ /\ line # <<>> /\ Key(line) # <<>>
        /\ fields' = [k \in DOMAIN fields \cup {Key(line)} |->
                        IF k = Key(line) THEN Value(line) ELSE fields[k]]
        /\ IF Cardinality(DOMAIN fields') > MaxFields
           THEN pc' = "done" /\ result' = "false"
           ELSE pc' = "scan" /\ UNCHANGED result

-----------------------------------------------------------------------------
(* read_request_line() *)

\* The scan comes to a LF first.
ScanToLF ==
  /\ pc = "scan"
  /\ \E i \in (end + 1)..got : /\ stream[base + i] = LF
                               /\ \A j \in (end + 1)..(i - 1) : Plain(stream[base + j])
  /\ Fail

\* The scan comes to a CR first.
ScanToCR ==
  /\ pc = "scan"
  /\ \E i \in (end + 1)..got : /\ stream[base + i] = CR
                               /\ \A j \in (end + 1)..(i - 1) : Plain(stream[base + j])
                               /\ end' = i - 1
  /\ cr' = TRUE
  /\ pc' = "test"
  /\ UNCHANGED <<stream, base, got, parseVars>>

\* The scan comes to the end of what has been read.
ScanToEnd ==
  /\ pc = "scan"
  /\ \A j \in (end + 1)..got : Plain(stream[base + j])
  /\ end' = got
  /\ pc' = "test"
  /\ UNCHANGED <<stream, base, got, cr, parseVars>>

\* There is no CR in the buffer, or nothing after it.
NeedsMore == ~cr \/ end + 1 = got

BufferFull ==
  /\ pc = "test"
  /\ NeedsMore
  /\ got = BufSize
  /\ Fail

\* Mutant: only a negative result of read() is an error, and the scan goes on.
SpinOnEndOfStream ==
  /\ pc = "test"
  /\ NeedsMore
  /\ got # BufSize
  /\ base + got = Len(stream)
  /\ pc' = "scan"
  /\ UNCHANGED <<stream, readVars, parseVars>>

\* read() returns 0: the client has closed its end.
EndOfStream ==
  /\ pc = "test"
  /\ NeedsMore
  /\ got # BufSize
  /\ base + got = Len(stream)
  /\ Fail

\* read() returns n bytes.
Fill(n) ==
  /\ pc = "test"
  /\ NeedsMore
  /\ got # BufSize
  /\ n <= BufSize - got
  /\ got' = got + n
  /\ pc' = IF cr THEN "lf" ELSE "scan"
  /\ UNCHANGED <<stream, base, end, cr, parseVars>>

\* Mutant: a CR is enough, whether there is a byte after it or not.
CRIsEnough ==
  /\ pc = "test"
  /\ cr
  /\ pc' = "lf"
  /\ UNCHANGED <<stream, readVars, parseVars>>

EnoughRead ==
  /\ pc = "test"
  /\ ~NeedsMore
  /\ pc' = "lf"
  /\ UNCHANGED <<stream, readVars, parseVars>>

\* Mutant: the LF stays in the buffer.
TakeLineOnly ==
  /\ pc = "lf"
  /\ stream[base + end + 2] = LF
  /\ LET line == SubSeq(stream, base + 1, base + end) IN
       RequestLine(line) \/ HeaderLine(line)
  /\ base' = base + end + 1
  /\ got' = got - (end + 1)
  /\ end' = 0
  /\ cr' = FALSE
  /\ UNCHANGED stream

\* The byte after the CR is a LF: the line is taken out of the buffer.
TakeLine ==
  /\ pc = "lf"
  /\ stream[base + end + 2] = LF
  /\ LET line == SubSeq(stream, base + 1, base + end) IN
       RequestLine(line) \/ HeaderLine(line)
  /\ base' = base + end + 2
  /\ got' = got - (end + 2)
  /\ end' = 0
  /\ cr' = FALSE
  /\ UNCHANGED stream

\* The byte after the CR is not a LF.
BareCR ==
  /\ pc = "lf"
  /\ stream[base + end + 2] # LF
  /\ Fail

Step ==
  \/ ScanToLF \/ ScanToCR \/ ScanToEnd \/ BufferFull \/ EndOfStream
  \/ EnoughRead \/ TakeLine \/ BareCR
  \/ \E n \in 1..(Len(stream) - (base + got)) : Fill(n)

Spec == Init /\ [][Step]_vars

-----------------------------------------------------------------------------
(* Properties. *)

\* Type invariant: the buffer never holds more than its size, or more than was
\* sent.
TypeOK ==
  /\ base \in Nat /\ got \in 0..BufSize /\ end \in 0..got /\ cr \in BOOLEAN
  /\ base + got <= Len(stream)
  /\ pc \in {"scan", "test", "lf", "done"}
  /\ sig \in {"none", "ok", "bad"}
  /\ result \in {"none", "true", "false"}
  /\ Cardinality(DOMAIN fields) <= MaxFields + 1

\* The byte after a CR is looked at only when it has been read.
NoReadPastBuffer == pc = "lf" => end + 2 <= got

\* However the request is cut into pieces, the same lines are read from it, and
\* reading fails at the same place.
Splitter == INSTANCE LineSplitter
  WITH at <- base,
       mode <- IF pc = "done" THEN "over" ELSE "reading"

ReadsLinesOfStream == Splitter!Spec
=============================================================================
