---------------------------- MODULE RequestProofs ----------------------------
(***************************************************************************)
(* What becomes of one request.  Of a connection, for every stream, all     *)
(* sizes of the two buffers and of the answer, and every way of cutting the *)
(* stream into pieces: the parser never looks behind what has been read and *)
(* reads the lines LineSplitter describes, and what the client gets is the  *)
(* answer.  Of the handler, for any coordinate and any column: the split of *)
(* a coordinate loses nothing, for every size of regions and chunks, and    *)
(* the search answers once, with the surface, for every height.             *)
(***************************************************************************)
EXTENDS Connection, RequestHandler, SequenceTheorems, FiniteSetTheorems, TLAPS

-----------------------------------------------------------------------------
(* The buffer. *)

\* What is known of the bytes in the buffer: the first end ones belong to the
\* line, and has_cr says that a CR follows them.
BufferInv ==
  /\ stream \in Streams
  /\ base \in Nat /\ got \in 0..BufSize /\ end \in 0..got /\ cr \in BOOLEAN
  /\ base + got <= Len(stream)
  /\ pc \in {"scan", "test", "lf", "done"}
  /\ \A j \in 1..end : Plain(stream[base + j])
  /\ cr => end + 1 <= got /\ stream[base + (end + 1)] = CR
  /\ pc = "scan" => ~cr
  /\ pc = "test" /\ ~cr => end = got
  /\ pc = "lf" => cr /\ end + 2 <= got

\* The parser begins with an empty buffer.
LEMMA BufferInit == Init => BufferInv
<1> SUFFICES ASSUME Init PROVE BufferInv  OBVIOUS
<1>1. Len(stream) \in Nat /\ BufSize \in Nat
  BY StreamAssumption, BufferAssumption DEF Init
<1>2. 1..end = {} /\ end \in 0..got /\ got \in 0..BufSize  BY <1>1 DEF Init
<1>3. \A j \in 1..end : Plain(stream[base + j])  BY <1>2
<1>4. base + got <= Len(stream)  BY <1>1 DEF Init
<1> QED  BY <1>2, <1>3, <1>4 DEF Init, BufferInv

\* Taking a line leaves a buffer nothing is known of.
LEMMA BufferTakeLine == BufferInv /\ TakeLine => BufferInv'
<1> SUFFICES ASSUME BufferInv, TakeLine PROVE BufferInv'  OBVIOUS
<1>1. Len(stream) \in Nat /\ BufSize \in Nat
  BY StreamAssumption, BufferAssumption DEF BufferInv
<1>2. pc' \in {"scan", "done"}  BY DEF TakeLine, RequestLine, HeaderLine
<1>3. end + 2 <= got  BY DEF TakeLine, BufferInv
<1>4. base' \in Nat /\ got' \in 0..BufSize /\ base' + got' <= Len(stream)
  BY <1>1, <1>3 DEF TakeLine, BufferInv
<1>5. end' = 0 /\ cr' = FALSE /\ UNCHANGED stream  BY DEF TakeLine
<1>6. 1..end' = {} /\ end' \in 0..got'  BY <1>4, <1>5
<1> QED  BY <1>2, <1>4, <1>5, <1>6 DEF BufferInv

\* Every action keeps what is known of the buffer true.
LEMMA BufferStep == BufferInv /\ [Step]_vars => BufferInv'
<1> SUFFICES ASSUME BufferInv, [Step]_vars PROVE BufferInv'  OBVIOUS
<1>1. Len(stream) \in Nat /\ BufSize \in Nat
  BY StreamAssumption, BufferAssumption DEF BufferInv
<1>2. CASE ScanToLF \/ BufferFull \/ EndOfStream \/ BareCR
  <2>1. UNCHANGED <<stream, base, got, end, cr>> /\ pc' = "done"
    BY <1>2 DEF ScanToLF, BufferFull, EndOfStream, BareCR, Fail, readVars
  <2> QED  BY <2>1 DEF BufferInv, Plain
<1>3. CASE ScanToCR
  <2>1. PICK i \in (end + 1)..got :
          /\ stream[base + i] = CR
          /\ \A j \in (end + 1)..(i - 1) : Plain(stream[base + j])
          /\ end' = i - 1
    BY <1>3 DEF ScanToCR
  <2>2. i \in Nat /\ end' \in 0..got /\ end' + 1 = i /\ i <= got
    BY <1>1, <2>1 DEF BufferInv
  <2>3. \A j \in 1..end' : Plain(stream[base + j])
    <3> SUFFICES ASSUME NEW j \in 1..(i - 1) PROVE Plain(stream[base + j])
      BY <2>1
    <3>1. j \in 1..end \/ j \in (end + 1)..(i - 1)  BY <1>1, <2>2 DEF BufferInv
    <3> QED  BY <3>1, <2>1 DEF BufferInv
  <2>4. stream[base + (end' + 1)] = CR  BY <2>1, <2>2
  <2>5. UNCHANGED <<stream, base, got>> /\ cr' = TRUE /\ pc' = "test"
    BY <1>3 DEF ScanToCR
  <2> QED  BY <2>2, <2>3, <2>4, <2>5 DEF BufferInv, Plain
<1>4. CASE ScanToEnd
  <2>1. \A j \in 1..got : Plain(stream[base + j])
    <3> SUFFICES ASSUME NEW j \in 1..got PROVE Plain(stream[base + j])  OBVIOUS
    <3>1. j \in 1..end \/ j \in (end + 1)..got  BY <1>1 DEF BufferInv
    <3> QED  BY <1>4, <3>1 DEF ScanToEnd, BufferInv
  <2> QED  BY <1>4, <1>1, <2>1 DEF ScanToEnd, BufferInv, Plain
<1>5. CASE EnoughRead
  BY <1>5, <1>1 DEF EnoughRead, NeedsMore, readVars, BufferInv, Plain
<1>6. CASE TakeLine
  BY <1>6, BufferTakeLine
<1>7. CASE \E n \in 1..(Len(stream) - (base + got)) : Fill(n)
  <2>1. PICK n \in 1..(Len(stream) - (base + got)) : Fill(n)  BY <1>7
  <2>2. got' = got + n /\ got' \in 0..BufSize /\ got + 1 <= got' /\ base + got' <= Len(stream)
    BY <1>1, <2>1 DEF Fill, BufferInv
  <2> QED  BY <1>1, <2>1, <2>2 DEF Fill, NeedsMore, BufferInv, Plain
<1>8. CASE UNCHANGED vars
  BY <1>8 DEF vars, BufferInv, Plain
<1> QED  BY <1>2, <1>3, <1>4, <1>5, <1>6, <1>7, <1>8 DEF Step

\* The invariant holds of every behaviour.
LEMMA BufferInvariant == Spec => []BufferInv
  BY BufferInit, BufferStep, PTL DEF Spec

\* The byte after a CR is looked at only when it has been read, wherever the
\* pieces of the stream end.
THEOREM BufferRespected == Spec => []NoReadPastBuffer
<1>1. BufferInv => NoReadPastBuffer  BY DEF BufferInv, NoReadPastBuffer
<1> QED  BY <1>1, BufferInvariant, PTL

-----------------------------------------------------------------------------
(* The fields. *)

FieldsInv ==
  /\ sig \in {"none", "ok", "bad"}
  /\ result \in {"none", "true", "false"}
  /\ IsFiniteSet(DOMAIN fields)
  /\ Cardinality(DOMAIN fields) <= MaxFields + 1
  /\ pc # "done" => Cardinality(DOMAIN fields) <= MaxFields

\* There are no fields in the beginning.
LEMMA FieldsInit == Init => FieldsInv
<1> SUFFICES ASSUME Init PROVE FieldsInv  OBVIOUS
<1>1. DOMAIN fields = {}  BY DEF Init
<1>2. MaxFields \in Nat  BY BufferAssumption
<1>3. IsFiniteSet(DOMAIN fields) /\ Cardinality(DOMAIN fields) = 0
  BY <1>1, FS_EmptySet
<1> QED  BY <1>2, <1>3 DEF Init, FieldsInv

\* A field line adds one key at most.
LEMMA FieldsHeaderLine ==
  ASSUME FieldsInv, pc = "lf", NEW line, HeaderLine(line)
  PROVE  FieldsInv'
<1>1. MaxFields \in Nat  BY BufferAssumption
<1>2. CASE UNCHANGED fields
  BY <1>2 DEF HeaderLine, FieldsInv
<1>3. CASE ~UNCHANGED fields
  <2>1. DOMAIN fields' = DOMAIN fields \cup {Key(line)}
    BY <1>3 DEF HeaderLine
  <2>2. /\ IsFiniteSet(DOMAIN fields')
        /\ \/ Cardinality(DOMAIN fields') = Cardinality(DOMAIN fields)
           \/ Cardinality(DOMAIN fields') = Cardinality(DOMAIN fields) + 1
    BY <2>1, FS_AddElement DEF FieldsInv
  <2>3. Cardinality(DOMAIN fields) \in Nat  BY FS_CardinalityType DEF FieldsInv
  <2>4. Cardinality(DOMAIN fields') <= MaxFields + 1
    BY <1>1, <2>2, <2>3 DEF FieldsInv
  <2>5. \/ Cardinality(DOMAIN fields') > MaxFields /\ pc' = "done" /\ result' = "false"
        \/ ~(Cardinality(DOMAIN fields') > MaxFields) /\ result' = result
    BY <1>3 DEF HeaderLine
  <2>6. Cardinality(DOMAIN fields') \in Nat  BY <2>2, FS_CardinalityType
  <2> QED  BY <1>1, <2>2, <2>4, <2>5, <2>6 DEF HeaderLine, FieldsInv
<1> QED  BY <1>2, <1>3

\* Every action keeps the number of fields within the limit.
LEMMA FieldsStep == FieldsInv /\ [Step]_vars => FieldsInv'
<1> SUFFICES ASSUME FieldsInv, [Step]_vars PROVE FieldsInv'  OBVIOUS
<1>1. CASE ScanToLF \/ BufferFull \/ EndOfStream \/ BareCR
  BY <1>1 DEF ScanToLF, BufferFull, EndOfStream, BareCR, Fail, FieldsInv
<1>2. CASE ScanToCR \/ ScanToEnd \/ EnoughRead
  BY <1>2 DEF ScanToCR, ScanToEnd, EnoughRead, parseVars, FieldsInv
<1>3. CASE \E n \in 1..(Len(stream) - (base + got)) : Fill(n)
  BY <1>3 DEF Fill, parseVars, FieldsInv
<1>4. CASE TakeLine
  <2> DEFINE line == SubSeq(stream, base + 1, base + end)
  <2>1. pc = "lf" /\ (RequestLine(line) \/ HeaderLine(line))  BY <1>4 DEF TakeLine
  <2>2. CASE RequestLine(line)
    BY <2>1, <2>2 DEF RequestLine, FieldsInv
  <2> HIDE DEF line
  <2>3. CASE HeaderLine(line)
    BY <2>1, <2>3, FieldsHeaderLine
  <2> QED  BY <2>1, <2>2, <2>3
<1>5. CASE UNCHANGED vars  BY <1>5 DEF vars, FieldsInv
<1> QED  BY <1>1, <1>2, <1>3, <1>4, <1>5 DEF Step

\* The buffer never holds more than its size or more than was sent, and there is
\* never more than one field too many, for every stream and every size.
THEOREM TypeCorrect == Spec => []TypeOK
<1>1. Spec => []FieldsInv  BY FieldsInit, FieldsStep, PTL DEF Spec
<1>2. BufferInv /\ FieldsInv => TypeOK  BY DEF BufferInv, FieldsInv, TypeOK
<1> QED  BY <1>1, <1>2, BufferInvariant, PTL

-----------------------------------------------------------------------------
(* The lines of the stream. *)

\* A line can only end at the first byte that is not plain.
LEMMA EndIsFirst ==
  ASSUME stream \in Streams, base \in Nat, NEW k \in Nat,
         \A j \in 1..k : Plain(stream[base + j]),
         NEW e \in Splitter!Ends
  PROVE  /\ e - base \in Nat /\ e - base >= k
         /\ stream[base + (e - base) + 1] = CR
         /\ stream[base + (e - base) + 2] = LF
         /\ \A j \in 1..(e - base) : Plain(stream[base + j])
         /\ e - base + 2 <= BufSize
         /\ e + 2 <= Len(stream)
<1>1. Len(stream) \in Nat  BY StreamAssumption
<1>2. e \in base..(Len(stream) - 2) /\ Splitter!LineEnds(e)  BY DEF Splitter!Ends
<1>3. e \in Int /\ e - base \in Nat  BY <1>1, <1>2
<1>4. base + (e - base) + 1 = e + 1 /\ base + (e - base) + 2 = e + 2  BY <1>3
<1>5. \A j \in 1..(e - base) : Plain(stream[base + j])
  <2> SUFFICES ASSUME NEW j \in 1..(e - base) PROVE Plain(stream[base + j])  OBVIOUS
  <2>1. base + j \in (base + 1)..e  BY <1>3
  <2> QED  BY <2>1, <1>2 DEF Splitter!LineEnds, Splitter!Plain, Plain
<1>6. stream[e + 1] = CR /\ stream[e + 2] = LF /\ e - base + 2 <= BufSize
  BY <1>2 DEF Splitter!LineEnds
<1>7. e - base >= k
  <2> SUFFICES ASSUME ~(e - base >= k) PROVE FALSE  OBVIOUS
  <2>1. (e - base) + 1 \in 1..k  BY <1>3
  <2>2. base + ((e - base) + 1) = e + 1  BY <1>3
  <2>3. Plain(stream[e + 1])  BY <2>1, <2>2
  <2> QED  BY <2>3, <1>6 DEF Plain
<1> QED  BY <1>1, <1>2, <1>3, <1>4, <1>5, <1>6, <1>7

\* Where the parser fails to read a line, there is none.
LEMMA FailIsRight ==
  ASSUME BufferInv, ScanToLF \/ BufferFull \/ EndOfStream \/ BareCR
  PROVE  Splitter!Ends = {}
<1> SUFFICES ASSUME NEW e \in Splitter!Ends PROVE FALSE
  BY DEF Splitter!Ends
<1> DEFINE n == e - base
<1>1. Len(stream) \in Nat /\ BufSize \in Nat
  BY StreamAssumption, BufferAssumption DEF BufferInv
<1>2. stream \in Streams /\ base \in Nat /\ got \in Nat /\ end \in Nat /\ end <= got
  BY <1>1 DEF BufferInv
<1>3. /\ n \in Nat /\ n >= end
      /\ stream[base + n + 1] = CR /\ stream[base + n + 2] = LF
      /\ \A j \in 1..n : Plain(stream[base + j])
      /\ n + 2 <= BufSize /\ base + n + 2 <= Len(stream)
  <2>1. \A j \in 1..end : Plain(stream[base + j])  BY DEF BufferInv
  <2>2. e + 2 = base + n + 2
    BY <1>1, <1>2 DEF Splitter!Ends
  <2> QED  BY <1>2, <2>1, <2>2, EndIsFirst
<1> HIDE DEF n
<1>4. cr => n = end
  <2> SUFFICES ASSUME cr, n # end PROVE FALSE  OBVIOUS
  <2>1. end + 1 \in 1..n  BY <1>2, <1>3
  <2>2. Plain(stream[base + (end + 1)])  BY <2>1, <1>3
  <2> QED  BY <2>2 DEF BufferInv, Plain
<1>5. CASE ScanToLF
  <2>1. PICK i \in (end + 1)..got :
          /\ stream[base + i] = LF
          /\ \A j \in (end + 1)..(i - 1) : Plain(stream[base + j])
    BY <1>5 DEF ScanToLF
  <2>2. i \in Nat /\ i >= end + 1  BY <1>2, <2>1
  <2>3. CASE i <= n
    <3>0. i \in 1..n  BY <1>2, <1>3, <2>2, <2>3
    <3>1. Plain(stream[base + i])  BY <1>3, <3>0
    <3> QED  BY <2>1, <3>1 DEF Plain
  <2>4. CASE i = n + 1
    <3>1. base + i = base + n + 1  BY <1>2, <1>3, <2>4
    <3> QED  BY <1>3, <2>1, <3>1, ByteAssumption
  <2>5. CASE i > n + 1
    <3>1. n + 1 \in (end + 1)..(i - 1)  BY <1>2, <1>3, <2>2, <2>5
    <3>2. base + (n + 1) = base + n + 1  BY <1>2, <1>3
    <3> QED  BY <1>3, <2>1, <3>1, <3>2 DEF Plain
  <2> QED  BY <1>3, <2>2, <2>3, <2>4, <2>5
<1>6. CASE BufferFull \/ EndOfStream
  <2>1. pc = "test" /\ (~cr \/ end + 1 = got) /\ (got = BufSize \/ base + got = Len(stream))
    BY <1>6 DEF BufferFull, EndOfStream, NeedsMore
  <2>2. ~cr => end = got  BY <2>1 DEF BufferInv
  <2>3. n + 2 > got  BY <1>2, <1>3, <1>4, <2>1, <2>2
  <2> QED  BY <1>1, <1>2, <1>3, <2>1, <2>3
<1>7. CASE BareCR
  <2>1. cr /\ stream[base + end + 2] # LF  BY <1>7 DEF BareCR, BufferInv
  <2> QED  BY <1>3, <1>4, <2>1
<1> QED  BY <1>5, <1>6, <1>7

\* A line that is taken is the next one.
LEMMA TakeIsRight ==
  ASSUME BufferInv, TakeLine
  PROVE  base + end \in Splitter!Ends
<1>1. Len(stream) \in Nat /\ BufSize \in Nat
  BY StreamAssumption, BufferAssumption DEF BufferInv
<1>2. base \in Nat /\ got \in Nat /\ end \in Nat /\ got <= BufSize /\ base + got <= Len(stream)
  BY <1>1 DEF BufferInv
<1>3. cr /\ end + 2 <= got /\ stream[base + end + 2] = LF
  BY DEF TakeLine, BufferInv
<1>4. base + end \in base..(Len(stream) - 2)  BY <1>1, <1>2, <1>3
<1>5. stream[base + end + 1] = CR
  <2>1. base + (end + 1) = base + end + 1  BY <1>2
  <2> QED  BY <1>3, <2>1 DEF BufferInv
<1>6. \A i \in (base + 1)..(base + end) : Plain(stream[i])
  <2> SUFFICES ASSUME NEW i \in (base + 1)..(base + end) PROVE Plain(stream[i])  OBVIOUS
  <2>1. i - base \in 1..end /\ base + (i - base) = i  BY <1>2
  <2>2. Plain(stream[base + (i - base)])  BY <2>1 DEF BufferInv
  <2> QED  BY <2>1, <2>2
<1>7. (base + end) - base + 2 <= BufSize  BY <1>1, <1>2, <1>3
<1>8. Splitter!LineEnds(base + end)
  BY <1>3, <1>5, <1>6, <1>7 DEF Splitter!LineEnds, Splitter!Plain, Plain
<1> QED  BY <1>4, <1>8 DEF Splitter!Ends

\* Every step of the parser reads a line, fails where there is none, or is not
\* seen by who only sees the lines.
LEMMA StepReadsLines == BufferInv /\ [Step]_vars => [Splitter!Next]_(Splitter!splitVars)
<1> SUFFICES ASSUME BufferInv, [Step]_vars PROVE [Splitter!Next]_(Splitter!splitVars)
  OBVIOUS
<1> USE DEF Splitter!splitVars
<1>1. CASE ScanToLF \/ BufferFull \/ EndOfStream \/ BareCR
  <2>1. pc # "done" /\ pc' = "done" /\ UNCHANGED <<stream, base>>
    BY <1>1 DEF ScanToLF, BufferFull, EndOfStream, BareCR, Fail, readVars
  <2>2. Splitter!Ends = {}  BY <1>1, FailIsRight
  <2> QED  BY <2>1, <2>2 DEF Splitter!Next, Splitter!Fail
<1>2. CASE TakeLine
  <2>1. pc = "lf" /\ base' = base + end + 2 /\ UNCHANGED stream  BY <1>2 DEF TakeLine
  <2>2. base + end \in Splitter!Ends  BY <1>2, TakeIsRight
  <2> QED  BY <2>1, <2>2 DEF Splitter!Next, Splitter!ReadLine
<1>3. CASE ScanToCR \/ ScanToEnd \/ EnoughRead
  BY <1>3 DEF ScanToCR, ScanToEnd, EnoughRead, readVars
<1>4. CASE \E n \in 1..(Len(stream) - (base + got)) : Fill(n)
  BY <1>4 DEF Fill
<1>5. CASE UNCHANGED vars  BY <1>5 DEF vars
<1> QED  BY <1>1, <1>2, <1>3, <1>4, <1>5 DEF Step

\* However the request is cut into pieces, the lines of the stream are read, and
\* reading fails where they end.
THEOREM LinesReadAreTheStreams == Spec => ReadsLinesOfStream
<1>1. Init => Splitter!Init  BY DEF Init, Splitter!Init
<1> QED
  BY <1>1, StepReadsLines, BufferInvariant, PTL
  DEF Spec, ReadsLinesOfStream, Splitter!Spec

-----------------------------------------------------------------------------
(* The connection reads as the parser does: its other steps leave that      *)
(* part of the state alone.                                                 *)

LEMMA ConnectionIsReader == ConnSpec => Spec
<1>1. ConnInit => Init
  BY DEF ConnInit
<1>2. [Serve \/ HangUp]_connVars => [Step]_vars
  BY DEF Serve, HangUp, Respond, Put, Flush, DeleteWriter, Close, connVars
<1>3. QED
  BY <1>1, <1>2, PTL DEF ConnSpec, Spec

\* In a connection, too, the byte after a CR is looked at only when it has been
\* read, and the lines are those of the stream.
THEOREM ConnectionReadsLines ==
  ConnSpec => []NoReadPastBuffer /\ ReadsLinesOfStream
  BY ConnectionIsReader, BufferRespected, LinesReadAreTheStreams, PTL

-----------------------------------------------------------------------------
(* The answer. *)

Bytes == {200, 400, 404} \X Nat

\* buf holds what was written last.  A client that is there has received what was
\* written before; one that is gone, the beginning of it.
AnswerInv ==
  /\ conn \in {"reading", "writing", "flushed", "closed"} /\ client \in {"there", "gone"}
  /\ answer \in Seq(Bytes) /\ buf \in Seq(Bytes) /\ received \in Seq(Bytes)
  /\ written \in 0..Len(answer)
  /\ Len(buf) <= WriteSize
  /\ conn = "reading" => answer = <<>> /\ buf = <<>> /\ received = <<>>
  /\ conn # "reading" => Len(answer) > 0
  /\ Len(received) <= written
  /\ \A i \in 1..Len(received) : received[i] = answer[i]
  /\ Len(buf) <= written
  /\ \A i \in 1..Len(buf) : buf[i] = answer[written - Len(buf) + i]
  /\ client = "there" /\ conn \in {"reading", "writing"} => Len(received) = written - Len(buf)
  /\ client = "there" /\ conn \in {"flushed", "closed"} => Len(received) = Len(answer)

LEMMA AnswerInit == ConnInit => AnswerInv
<1> SUFFICES ASSUME ConnInit PROVE AnswerInv
  OBVIOUS
<1>1. /\ answer = <<>> /\ buf = <<>> /\ received = <<>> /\ written = 0
      /\ conn = "reading" /\ client = "there"
  BY DEF ConnInit
<1>2. Len(answer) = 0 /\ Len(buf) = 0 /\ Len(received) = 0
      /\ answer \in Seq(Bytes) /\ buf \in Seq(Bytes) /\ received \in Seq(Bytes)
  BY <1>1, EmptySeq
<1>3. Len(received) = written - Len(buf)
  <2>1. Len(received) = 0 /\ Len(buf) = 0 /\ written = 0
    BY <1>1, <1>2
  <2>2. QED
    BY <2>1
<1>4. WriteSize \in Nat
  BY WriterAssumption
<1>5. QED
  BY <1>1, <1>2, <1>3, <1>4 DEF AnswerInv

\* write() with the whole buffer, to a client that may be going away.
LEMMA BufferSent ==
  ASSUME AnswerInv, conn = "writing", Send(buf)
  PROVE  /\ client' \in {"there", "gone"} /\ received' \in Seq(Bytes)
         /\ Len(received') <= written
         /\ \A i \in 1..Len(received') : received'[i] = answer[i]
         /\ client' = "there" => Len(received') = written
<1>0. /\ buf \in Seq(Bytes) /\ received \in Seq(Bytes) /\ Len(buf) \in Nat
      /\ Len(received) \in Nat /\ written \in Nat /\ client \in {"there", "gone"}
      /\ Len(buf) <= written
      /\ client = "there" => Len(received) = written - Len(buf)
      /\ \A i \in 1..Len(buf) :
           buf[i] \in Bytes /\ buf[i] = answer[written - Len(buf) + i]
      /\ \A i \in 1..Len(received) : received[i] = answer[i]
  BY LenProperties, ElementOfSeq DEF AnswerInv
<1>1. CASE received' = received \o buf /\ client' = client /\ client = "there"
  <2>1. /\ received' \in Seq(Bytes) /\ Len(received') = Len(received) + Len(buf)
        /\ \A i \in 1..Len(received) + Len(buf) :
             received'[i] = IF i <= Len(received) THEN received[i] ELSE buf[i - Len(received)]
    BY <1>0, <1>1, ConcatProperties
  <2>2. ASSUME NEW i \in 1..Len(received') PROVE received'[i] = answer[i]
    <3>1. CASE i <= Len(received)
      BY <1>0, <2>1, <3>1
    <3>2. CASE i > Len(received)
      <4> DEFINE k == i - Len(received)
      <4>1. Len(received) = written - Len(buf) /\ Len(received) \in Nat /\ Len(buf) \in Nat
            /\ written \in Nat /\ i \in 1..(Len(received) + Len(buf))
        BY <1>0, <1>1, <2>1
      <4>2. k \in 1..Len(buf) /\ written - Len(buf) + k = i
        BY <3>2, <4>1
      <4>3. received'[i] = buf[k]
        BY <2>1, <3>2, <4>1
      <4>4. QED
        BY <1>0, <4>2, <4>3
    <3>3. QED
      BY <1>0, <2>1, <3>1, <3>2
  <2>3. QED
    BY <1>0, <1>1, <2>1, <2>2
<1>2. ASSUME client' = "gone", NEW n \in 0..(Len(buf) - 1), client = "gone" => n = 0,
             received' = received \o SubSeq(buf, 1, n)
      PROVE  /\ received' \in Seq(Bytes) /\ Len(received') <= written
             /\ \A i \in 1..Len(received') : received'[i] = answer[i]
  <2> DEFINE part == SubSeq(buf, 1, n)
  <2>1. part \in Seq(Bytes) /\ Len(part) = n /\ \A i \in 1..n : part[i] = buf[i]
    <3>1. \A i \in 1..n : buf[i] \in Bytes
      BY <1>0, <1>2
    <3>2. /\ part \in Seq(Bytes) /\ Len(part) = IF 1 <= n THEN n - 1 + 1 ELSE 0
          /\ \A i \in 1..(n - 1 + 1) : part[i] = buf[1 + i - 1]
      BY <1>2, <3>1, SubSeqProperties
    <3>3. QED
      BY <1>0, <1>2, <3>2
  <2> HIDE DEF part
  <2>2. /\ received' \in Seq(Bytes) /\ Len(received') = Len(received) + n
        /\ \A i \in 1..Len(received) + n :
             received'[i] = IF i <= Len(received) THEN received[i] ELSE part[i - Len(received)]
    BY <1>0, <1>2, <2>1, ConcatProperties DEF part
  <2>3. CASE client = "there"
    <3>1. ASSUME NEW i \in 1..Len(received') PROVE received'[i] = answer[i]
      <4>1. CASE i <= Len(received)
        BY <1>0, <1>2, <2>2, <4>1
      <4>2. CASE i > Len(received)
        <5> DEFINE k == i - Len(received)
        <5>0. /\ Len(received) = written - Len(buf) /\ Len(received) \in Nat
              /\ Len(buf) \in Nat /\ written \in Nat /\ i \in 1..(Len(received) + n)
          BY <1>0, <2>2, <2>3
        <5>1. k \in 1..n /\ k \in 1..Len(buf) /\ written - Len(buf) + k = i
          BY <1>2, <4>2, <5>0
        <5>2. received'[i] = part[k]
          BY <1>0, <1>2, <2>2, <4>2
        <5>3. QED
          BY <1>0, <2>1, <5>1, <5>2
      <4>3. QED
        BY <1>0, <1>2, <2>2, <4>1, <4>2
    <3>2. QED
      BY <1>0, <1>2, <2>2, <2>3, <3>1
  <2>4. CASE client = "gone"
    <3>1. n = 0 /\ Len(received) <= written
      BY <1>2, <2>4 DEF AnswerInv
    <3>2. QED
      BY <1>0, <2>2, <3>1 DEF AnswerInv
  <2>5. QED
    BY <1>0, <2>3, <2>4
<1>3. QED
  BY <1>1, <1>2 DEF Send

\* Writing, flushing and closing keep it, and the client may go away at any time.
LEMMA AnswerStep == AnswerInv /\ [Serve \/ HangUp]_connVars => AnswerInv'
<1> SUFFICES ASSUME AnswerInv, [Serve \/ HangUp]_connVars PROVE AnswerInv'
  OBVIOUS
<1>0. /\ Len(answer) \in Nat /\ Len(buf) \in Nat /\ Len(received) \in Nat
      /\ written \in Nat /\ WriteSize \in Nat \ {0}
  BY LenProperties, WriterAssumption DEF AnswerInv
<1>1. CASE (Step /\ UNCHANGED writeVars) \/ UNCHANGED connVars
  BY <1>1 DEF writeVars, connVars, AnswerInv
<1>2. CASE Respond
  <2>1. PICK code \in {200, 400, 404}, n \in Nat \ {0} : answer' = Response(code, n)
    <3>1. Codes \subseteq {200, 400, 404}
      BY DEF Codes
    <3>2. PICK code \in Codes : \E n \in Sizes[code] : answer' = Response(code, n)
      BY <1>2 DEF Respond
    <3>3. QED
      BY <3>1, <3>2, WriterAssumption
  <2>2. answer' \in Seq(Bytes) /\ Len(answer') = n
    <3>1. \A i \in 1..n : <<code, i>> \in Bytes
      BY <2>1 DEF Bytes
    <3>2. QED
      BY <2>1, <3>1 DEF Response
  <2>3. UNCHANGED <<written, buf, client, received>> /\ conn = "reading" /\ conn' = "writing"
    BY <1>2 DEF Respond
  <2>4. Len(received) = 0 /\ Len(buf) = 0 /\ written = 0
    BY <1>0, <2>3, EmptySeq DEF AnswerInv
  <2>5. QED
    BY <1>0, <2>1, <2>2, <2>3, <2>4 DEF AnswerInv
<1>3. CASE Put
  <2>1. /\ UNCHANGED <<conn, answer, client, received>> /\ conn = "writing"
        /\ buf' = Append(buf, answer[written + 1]) /\ written' = written + 1
        /\ written < Len(answer) /\ Len(buf) < WriteSize
    BY <1>0, <1>3 DEF Put, Unwritten, Full
  <2>2. answer[written + 1] \in Bytes
    BY <1>0, <2>1, ElementOfSeq DEF AnswerInv
  <2>3. /\ buf' \in Seq(Bytes) /\ Len(buf') = Len(buf) + 1
        /\ buf'[Len(buf) + 1] = answer[written + 1]
        /\ \A i \in 1..Len(buf) : buf'[i] = buf[i]
    BY <2>1, <2>2, AppendProperties DEF AnswerInv
  <2>4. ASSUME NEW i \in 1..Len(buf')
        PROVE  buf'[i] = answer'[written' - Len(buf') + i]
    <3>1. written' - Len(buf') = written - Len(buf)
      BY <1>0, <2>1, <2>3
    <3>2. CASE i = Len(buf) + 1
      <4>1. written - Len(buf) + i = written + 1
        BY <1>0, <3>2
      <4>2. QED
        BY <2>1, <2>3, <3>1, <3>2, <4>1
    <3>3. CASE i # Len(buf) + 1
      <4>1. i \in 1..Len(buf)
        BY <1>0, <2>3, <3>3
      <4>2. QED
        BY <2>1, <2>3, <3>1, <4>1 DEF AnswerInv
    <3>4. QED
      BY <3>2, <3>3
  <2>5. /\ written' \in 0..Len(answer') /\ Len(buf') <= WriteSize
        /\ Len(received') <= written' /\ Len(buf') <= written'
        /\ written' - Len(buf') = written - Len(buf)
    <3>1. written \in 0..Len(answer) /\ Len(received) <= written /\ Len(buf) <= written
      BY DEF AnswerInv
    <3>2. /\ Len(answer') = Len(answer) /\ Len(received') = Len(received)
          /\ written' = written + 1 /\ Len(buf') = Len(buf) + 1
      BY <2>1, <2>3
    <3>3. \A a, b, r, w, s \in Nat :
             /\ w < a /\ b < s /\ r <= w /\ b <= w
             => /\ w + 1 \in 0..a /\ b + 1 <= s /\ r <= w + 1 /\ b + 1 <= w + 1
                /\ (w + 1) - (b + 1) = w - b
      OBVIOUS
    <3>4. Len(buf) < WriteSize /\ written < Len(answer)
      BY <2>1
    <3>5. QED
      BY <1>0, <3>1, <3>2, <3>3, <3>4
  <2>6. QED
    BY <2>1, <2>3, <2>4, <2>5 DEF AnswerInv
<1>4. CASE Flush
  <2>1. /\ UNCHANGED <<conn, answer, written>> /\ conn = "writing" /\ buf' = <<>>
        /\ Send(SubSeq(buf, 1, WriteSize)) /\ Len(buf) = WriteSize
    BY <1>0, <1>4 DEF Flush, Unwritten, Full, AnswerInv
  <2>2. SubSeq(buf, 1, WriteSize) = buf
    BY <2>1, SubSeqFull DEF AnswerInv
  <2>3. Send(buf)
    BY <2>1, <2>2
  <2>4. buf' \in Seq(Bytes) /\ Len(buf') = 0
    BY <2>1, EmptySeq
  <2>5. QED
    BY <1>0, <2>1, <2>3, <2>4, BufferSent DEF AnswerInv
<1>5. CASE DeleteWriter
  <2>1. /\ UNCHANGED <<answer, written>> /\ conn = "writing" /\ conn' = "flushed"
        /\ buf' = <<>> /\ Send(buf) /\ written = Len(answer)
    BY <1>0, <1>5 DEF DeleteWriter, Unwritten, AnswerInv
  <2>2. buf' \in Seq(Bytes) /\ Len(buf') = 0
    BY <2>1, EmptySeq
  <2>3. QED
    BY <1>0, <2>1, <2>2, BufferSent DEF AnswerInv
<1>6. CASE Close \/ HangUp
  BY <1>6 DEF Close, HangUp, AnswerInv
<1>7. QED
  BY <1>1, <1>2, <1>3, <1>4, <1>5, <1>6 DEF Serve

\* Whatever the sizes, a client reads the beginning of one answer, and all of it
\* when it stays until the connection is closed.
THEOREM AnswerReachesClient == ConnSpec => []ClientReadsTheAnswer
<1>1. AnswerInv => ClientReadsTheAnswer
  <2> SUFFICES ASSUME AnswerInv PROVE ClientReadsTheAnswer
    OBVIOUS
  <2>0. Len(answer) \in Nat /\ Len(received) \in Nat
    BY LenProperties DEF AnswerInv
  <2>1. IsPrefix(received, answer)
    <3>1. Len(received) <= Len(answer)
      BY <2>0 DEF AnswerInv
    <3>2. SubSeq(received, 1, Len(received)) = SubSeq(answer, 1, Len(received))
      <4> DEFINE n == Len(received)
                 head == SubSeq(answer, 1, n)
      <4>1. n \in Nat /\ \A i \in 1..n : received[i] \in Bytes /\ answer[i] \in Bytes
        BY <2>0, <3>1, ElementOfSeq DEF AnswerInv
      <4>2. /\ head \in Seq(Bytes) /\ Len(head) = IF 1 <= n THEN n - 1 + 1 ELSE 0
            /\ \A i \in 1..(n - 1 + 1) : head[i] = answer[1 + i - 1]
        BY <4>1, SubSeqProperties
      <4>3. received = head
        BY <4>1, <4>2, SeqEqual DEF AnswerInv
      <4>4. SubSeq(received, 1, n) = received
        BY SubSeqFull DEF AnswerInv
      <4>5. QED
        BY <4>3, <4>4
    <3>3. QED
      BY <3>1, <3>2 DEF IsPrefix
  <2>2. conn = "closed" => answer # <<>>
    BY EmptySeq DEF AnswerInv
  <2>3. conn = "closed" /\ client = "there" => received = answer
    BY <2>0, SeqEqual DEF AnswerInv
  <2>4. QED
    BY <2>1, <2>2, <2>3 DEF ClientReadsTheAnswer
<1>2. ConnSpec => []AnswerInv
  BY AnswerInit, AnswerStep, PTL DEF ConnSpec
<1>3. QED
  BY <1>1, <1>2, PTL

-----------------------------------------------------------------------------
(* Quotient and remainder. *)

LEMMA NaturalDivision ==
  ASSUME NEW a \in Nat, NEW S \in Nat \ {0}
  PROVE  a \div S \in Nat /\ a % S \in 0..(S - 1) /\ a = S * (a \div S) + (a % S)
  BY SMT

LEMMA DivisionIsUnique ==
  ASSUME NEW q \in Nat, NEW S \in Nat \ {0}, NEW s \in 0..(S - 1)
  PROVE  (S * q + s) % S = s /\ (S * q + s) \div S = q
  BY SMT

-----------------------------------------------------------------------------
(* Places. *)

\* positive_mod() is the remainder of the floor division, and RegionOf() its
\* quotient.
LEMMA RegionSplit ==
  ASSUME NEW v \in Int
  PROVE  /\ positive_mod(v, RegionSize) \in 0..(RegionSize - 1)
         /\ RegionOf(v) \in Int
         /\ RegionOf(v) * RegionSize + positive_mod(v, RegionSize) = v
<1> DEFINE R == RegionSize
<1>1. R \in Nat \ {0}  BY SizeAssumption
<1> HIDE DEF R
<1>2. CASE v >= 0
  <2>1. v \in Nat  BY <1>2
  <2>2. v \div R \in Nat /\ v % R \in 0..(R - 1) /\ v = R * (v \div R) + (v % R)
    BY <2>1, <1>1, NaturalDivision
  <2>3. RegionOf(v) = v \div R /\ positive_mod(v, R) = v % R
    BY <1>2, <2>2 DEF RegionOf, Quotient, positive_mod, Remainder, R
  <2> QED  BY <2>2, <2>3, <1>1 DEF R
<1>3. CASE v < 0
  <2>1. PICK q \in Nat, s \in 0..(R - 1) : -v - 1 = R * q + s
    <3>1. -v - 1 \in Nat  BY <1>3
    <3> QED  BY <3>1, <1>1, NaturalDivision
  <2>2. R * q \in Nat /\ (-q - 1) * R = -(R * q) - R  BY <2>1, <1>1
  <2>3. RegionOf(v) = -q - 1
    <3>1. CASE v = -1
      <4>1. R * 0 = 0 /\ 0 \in 0..(R - 1)  BY <1>1
      <4>2. (R * 0 + 0) \div R = 0  BY <1>1, <4>1, DivisionIsUnique
      <4>3. 0 \div R = 0  BY <4>1, <4>2
      <4>4. R * q + s = 0  BY <2>1, <3>1
      <4>5. (R * q + s) \div R = q  BY <2>1, <1>1, DivisionIsUnique
      <4>6. q = 0  BY <4>3, <4>4, <4>5
      <4>7. v + 1 = 0 /\ ~(v >= 0)  BY <3>1
      <4> QED  BY <4>3, <4>6, <4>7 DEF RegionOf, Quotient, R
    <3>2. CASE v # -1
      <4>1. ~(v + 1 >= 0) /\ ~(v >= 0) /\ -(v + 1) = R * q + s
        BY <1>3, <3>2, <2>1, <2>2
      <4>2. (R * q + s) \div R = q  BY <2>1, <1>1, DivisionIsUnique
      <4> QED  BY <4>1, <4>2 DEF RegionOf, Quotient, R
    <3> QED  BY <3>1, <3>2
  <2>4. CASE s + 1 < R
    <3>1. s + 1 \in 0..(R - 1)  BY <2>1, <2>4, <1>1
    <3>2. -v = R * q + (s + 1)  BY <2>1, <2>2
    <3>3. (R * q + (s + 1)) % R = s + 1  BY <3>1, <2>1, <1>1, DivisionIsUnique
    <3>4. ~(v >= 0)  BY <1>3
    <3>5. Remainder(v, R) = -(s + 1)  BY <3>2, <3>3, <3>4 DEF Remainder
    <3>6. positive_mod(v, R) = -(s + 1) + R  BY <3>1, <3>5, <2>1 DEF positive_mod
    <3> QED  BY <3>2, <3>6, <2>1, <2>2, <2>3, <2>4, <1>1 DEF R
  <2>5. CASE s + 1 = R
    <3>1. R * (q + 1) = R * q + R  BY <2>1, <1>1
    <3>2. -v = R * (q + 1) + 0 /\ 0 \in 0..(R - 1) /\ q + 1 \in Nat
      BY <2>1, <2>2, <2>5, <3>1, <1>1
    <3>3. (R * (q + 1) + 0) % R = 0  BY <3>2, <1>1, DivisionIsUnique
    <3>4. ~(v >= 0)  BY <1>3
    <3>5. Remainder(v, R) = 0  BY <3>2, <3>3, <3>4 DEF Remainder
    <3>6. positive_mod(v, R) = 0  BY <3>5 DEF positive_mod
    <3> QED  BY <3>1, <3>2, <3>6, <2>1, <2>2, <2>3, <2>5, <1>1 DEF R
  <2> QED  BY <2>1, <2>4, <2>5, <1>1
<1> QED  BY <1>2, <1>3

\* A place in a region is a place in one of its chunks.
LEMMA ChunkSplit ==
  ASSUME NEW v \in Int
  PROVE  /\ ChunkOf(v) \in 0..((RegionSize \div ChunkSize) - 1)
         /\ InChunk(v) \in 0..(ChunkSize - 1)
         /\ ChunkOf(v) * ChunkSize + InChunk(v) = positive_mod(v, RegionSize)
<1> DEFINE R == RegionSize
           C == ChunkSize
           m == positive_mod(v, R)
           k == R \div C
           c == m \div C
           i == m % C
<1>1. R \in Nat \ {0} /\ C \in Nat \ {0} /\ R % C = 0  BY SizeAssumption
<1>2. m \in 0..(R - 1)  BY RegionSplit
<1>3. ChunkOf(v) = c /\ InChunk(v) = i
  <2>1. m >= 0  BY <1>1, <1>2
  <2> QED  BY <2>1 DEF ChunkOf, InChunk, Quotient, Remainder
<1> HIDE DEF m
<1>4. c \in Nat /\ i \in 0..(C - 1) /\ m = C * c + i
  <2>1. m \in Nat  BY <1>1, <1>2
  <2> HIDE DEF R, C
  <2> QED  BY <1>1, <2>1, NaturalDivision
<1>5. k \in Nat /\ R = C * k
  BY <1>1, NaturalDivision
<1> HIDE DEF c, i, k, R, C
<1>6. c < k
  <2> SUFFICES ASSUME c >= k PROVE FALSE  BY <1>4, <1>5
  <2>1. C * c >= C * k  BY <1>1, <1>4, <1>5
  <2> QED  BY <2>1, <1>2, <1>4, <1>5, <1>1
<1>7. c * C = C * c  BY <1>1, <1>4
<1> QED  BY <1>1, <1>3, <1>4, <1>5, <1>6, <1>7 DEF R, C, m, k

\* Region, chunk and place in the chunk make up the coordinate.
LEMMA CoordinateSplit ==
  ASSUME NEW v \in Int
  PROVE  /\ Locates(RegionOf(v), ChunkOf(v), InChunk(v), v)
         /\ RegionOf(v) \in Int /\ ChunkOf(v) \in Int /\ InChunk(v) \in Int
<1>1. RegionSize \in Nat \ {0} /\ ChunkSize \in Nat \ {0}  BY SizeAssumption
<1>2. RegionSize \div ChunkSize \in Nat  BY <1>1, NaturalDivision
<1>3. RegionOf(v) * RegionSize \in Int /\ ChunkOf(v) * ChunkSize \in Int
  BY <1>1, <1>2, RegionSplit, ChunkSplit
<1> QED
  BY <1>1, <1>2, <1>3, RegionSplit, ChunkSplit DEF Locates

-----------------------------------------------------------------------------
(* The type invariant, with the range of y while the search goes on. *)

SearchRange == stage = "search" => y <= Top

TypeInv == HandlerTypes /\ SearchRange

\* The search begins inside the column.
LEMMA TopInRange == Top \in 0..MaxY
  BY HeightAssumption DEF Top, Nether

\* The coordinates of an accepted request have a place.
LEMMA PlaceTyped ==
  ASSUME NEW r \in Requests, r.x # NotANumber, r.z # NotANumber
  PROVE  PlaceOf(r) \in [DOMAIN NoPlace -> Int]
<1>1. r.x \in Int /\ r.z \in Int  BY CoordAssumption DEF Requests
<1> QED  BY <1>1, CoordinateSplit DEF PlaceOf, NoPlace

\* What may be answered.
LEMMA FailureTyped ==
  ASSUME NEW code \in {400, 404}
  PROVE  Failure(code) \in Answered
  BY HeightAssumption DEF Failure, Answered

\* The answer about a block of the column.
LEMMA SuccessTyped ==
  ASSUME HandlerTypes, NEW h \in 0..MaxY, column[h] # Air
  PROVE  Success(h) \in Answered
  BY DEF HandlerTypes, ColumnsOfBlocks, Success, Answered

\* The answers stay typed when one is given.
LEMMA AnswerTyped ==
  ASSUME HandlerTypes, NEW a \in Answered, Answer(a)
  PROVE  answers' \in Seq(Answered)
  BY DEF HandlerTypes, Answer

\* The handler begins with typed variables.
LEMMA TypeInit == HandlerInit => TypeInv
<1> SUFFICES ASSUME HandlerInit PROVE TypeInv  OBVIOUS
<1>1. NoPlace \in [DOMAIN NoPlace -> Int]  BY DEF NoPlace
<1>2. column \in ColumnsOfBlocks  BY DEF HandlerInit, ColumnsOfBlocks
<1>3. answers \in Seq(Answered)  BY DEF HandlerInit
<1>4. y \in -1..MaxY  BY HeightAssumption DEF HandlerInit
<1> QED  BY <1>1, <1>2, <1>3, <1>4 DEF HandlerInit, TypeInv, HandlerTypes, SearchRange

\* A step of the search downwards.
LEMMA TypeContinue ==
  ASSUME TypeInv, Searching, NEW found \in BOOLEAN, Continue(found)
  PROVE  TypeInv'
<1>1. Top' = Top  BY DEF Continue, Top, Nether
<1>2. y \in Int /\ y <= Top /\ y >= 0 /\ y <= MaxY /\ MaxY \in Int /\ Top \in Int
  BY TopInRange, HeightAssumption DEF TypeInv, HandlerTypes, SearchRange, Searching
<1>3. y' = y - 1  BY DEF Continue
<1>4. y' \in -1..MaxY /\ y' <= Top'  BY <1>1, <1>2, <1>3
<1> QED  BY <1>4 DEF Continue, TypeInv, HandlerTypes, SearchRange

\* The end of the search.
LEMMA TypeBreak ==
  ASSUME TypeInv, NEW a \in Answered, Break(a)
  PROVE  TypeInv'
<1>1. answers' \in Seq(Answered)  BY AnswerTyped DEF TypeInv, Break
<1> QED  BY <1>1 DEF Break, searchVars, TypeInv, HandlerTypes, SearchRange

\* Every action keeps them typed.
LEMMA TypeStep == TypeInv /\ [HandlerNext]_handlerVars => TypeInv'
<1> SUFFICES ASSUME TypeInv, [HandlerNext]_handlerVars PROVE TypeInv'  OBVIOUS
<1> USE DEF TypeInv, HandlerTypes, SearchRange
<1>1. CASE Reject
  <2>1. answers' \in Seq(Answered)  BY <1>1, FailureTyped, AnswerTyped DEF Reject
  <2> QED  BY <1>1, <2>1 DEF Reject, searchVars
<1>2. CASE Resolve
  <2>1. answers' \in Seq(Answered)  BY <1>2, FailureTyped, AnswerTyped DEF Resolve
  <2>2. place' \in [DOMAIN NoPlace -> Int]  BY <1>2, PlaceTyped DEF Resolve, Accepted
  <2> QED  BY <1>2, <2>1, <2>2 DEF Resolve, searchVars
<1>3. CASE NoRegion
  <2>1. answers' \in Seq(Answered)  BY <1>3, FailureTyped, AnswerTyped DEF NoRegion
  <2> QED  BY <1>3, <2>1 DEF NoRegion, searchVars
<1>4. CASE OpenRegion
  BY <1>4 DEF OpenRegion, searchVars
<1>5. CASE NoChunk
  <2>1. answers' \in Seq(Answered)  BY <1>5, FailureTyped, AnswerTyped DEF NoChunk
  <2> QED  BY <1>5, <2>1 DEF NoChunk, searchVars
<1>6. CASE Throw
  BY <1>6 DEF Throw, searchVars
<1>7. CASE GetChunk
  <2>1. Top' = Top  BY <1>7 DEF GetChunk, Top, Nether
  <2>2. y' \in -1..MaxY /\ y' <= Top'
    BY <1>7, <2>1, TopInRange, HeightAssumption DEF GetChunk
  <2> QED  BY <1>7, <2>2 DEF GetChunk
<1>8. CASE AirBlock
  <2>1. Nether \in BOOLEAN  BY DEF Nether
  <2>2. Searching /\ (Break(Failure(404)) \/ Continue(Nether))  BY <1>8 DEF AirBlock
  <2> QED  BY <2>1, <2>2, FailureTyped, TypeBreak, TypeContinue
<1>9. CASE Ceiling
  <2>1. Searching /\ (Break(Failure(404)) \/ Continue(FALSE))  BY <1>9 DEF Ceiling
  <2> QED  BY <2>1, FailureTyped, TypeBreak, TypeContinue
<1>10. CASE Surface
  <2>1. y \in 0..MaxY  BY <1>10, HeightAssumption DEF Surface, Searching
  <2> QED  BY <1>10, <2>1, FailureTyped, SuccessTyped, TypeBreak DEF Surface
<1>11. CASE Release
  BY <1>11 DEF Release, searchVars
<1>12. CASE UNCHANGED handlerVars
  BY <1>12 DEF handlerVars, Top, Nether
<1> QED
  BY <1>1, <1>2, <1>3, <1>4, <1>5, <1>6, <1>7, <1>8, <1>9, <1>10, <1>11, <1>12
  DEF HandlerNext

\* The handler's variables keep their types, whatever the sizes, the
\* coordinates and the height of the world.
THEOREM HandlerTypesCorrect == HandlerSpec => []HandlerTypes
<1>1. HandlerSpec => []TypeInv  BY TypeInit, TypeStep, PTL DEF HandlerSpec
<1>2. TypeInv => HandlerTypes  BY DEF TypeInv
<1> QED  BY <1>1, <1>2, PTL

-----------------------------------------------------------------------------
(* The place that is looked at. *)

PlaceInv ==
  stage \in {"file", "chunk", "search", "release"} =>
    Accepted /\ place = PlaceOf(req)

\* Nothing is looked at in the beginning.
LEMMA PlaceInit == HandlerInit => PlaceInv
  BY DEF HandlerInit, PlaceInv

\* The place is computed once, from the request, and kept.
LEMMA PlaceStep == PlaceInv /\ [HandlerNext]_handlerVars => PlaceInv'
<1> SUFFICES ASSUME PlaceInv, [HandlerNext]_handlerVars PROVE PlaceInv'  OBVIOUS
<1> USE DEF PlaceInv, Accepted
<1>1. CASE Resolve  BY <1>1 DEF Resolve
<1>2. CASE Reject \/ NoRegion \/ NoChunk \/ Throw \/ Release
  BY <1>2 DEF Reject, NoRegion, NoChunk, Throw, Release
<1>3. CASE OpenRegion \/ GetChunk  BY <1>3 DEF OpenRegion, GetChunk
<1>4. CASE AirBlock \/ Ceiling \/ Surface
  BY <1>4 DEF AirBlock, Ceiling, Surface, Searching, Break, Continue
<1>5. CASE UNCHANGED handlerVars  BY <1>5 DEF handlerVars
<1> QED  BY <1>1, <1>2, <1>3, <1>4, <1>5 DEF HandlerNext

\* What the invariant says about the place.
LEMMA PlaceInvMeans == HandlerTypes /\ PlaceInv => PlaceIsRight
<1> SUFFICES ASSUME HandlerTypes, PlaceInv, stage \in {"file", "chunk", "search", "release"}
             PROVE  /\ Locates(place.region_x, place.chunk_x, place.x_in_chunk, req.x)
                    /\ \E inside \in 0..(ChunkSize - 1) :
                         Locates(place.region_z, place.chunk_z, inside, req.z)
  BY DEF PlaceIsRight
<1>1. req.x \in Int /\ req.z \in Int
  BY CoordAssumption DEF HandlerTypes, PlaceInv, Accepted, Requests
<1>2. place = PlaceOf(req)  BY DEF PlaceInv
<1>3. Locates(RegionOf(req.x), ChunkOf(req.x), InChunk(req.x), req.x)
  BY <1>1, CoordinateSplit
<1>4. /\ Locates(RegionOf(req.z), ChunkOf(req.z), InChunk(req.z), req.z)
      /\ InChunk(req.z) \in 0..(ChunkSize - 1)
  BY <1>1, CoordinateSplit, ChunkSplit
<1> QED  BY <1>2, <1>3, <1>4 DEF PlaceOf

\* For all coordinates, negative ones too, the region, chunk and place of
\* Coord-X and the region and chunk of Coord-Z are the right ones.
THEOREM CoordinatesLocated == HandlerSpec => []PlaceIsRight
<1>1. HandlerSpec => []PlaceInv  BY PlaceInit, PlaceStep, PTL DEF HandlerSpec
<1> QED  BY <1>1, HandlerTypesCorrect, PlaceInvMeans, PTL

-----------------------------------------------------------------------------
(* The search. *)

\* What the search knows of the blocks above y, and what has been answered.
SearchInv ==
  /\ stage \in {"request", "file", "chunk", "thrown"} => answers = <<>>
  /\ stage = "search" =>
       /\ answers = <<>>
       /\ y >= 0
       /\ \A h \in (y + 1)..Top : h \notin Candidates
       /\ Nether => (airFound <=> \E a \in (y + 1)..Top : column[a] = Air)
  /\ AnswersSurface
  /\ stage \in {"release", "done"} => Len(answers) = 1

\* The candidates are those of the column and the dimension.
LEMMA CandidatesKept ==
  ASSUME UNCHANGED <<req, column>>
  PROVE  Candidates' = Candidates /\ Top' = Top /\ Nether' = Nether
  BY DEF Candidates, Top, Nether

\* The first answer.
LEMMA FirstAnswer ==
  ASSUME answers = <<>>, NEW a, Answer(a)
  PROVE  answers' = <<a>> /\ Len(answers') = 1
  BY DEF Answer

\* Going on below a block that is no candidate.
LEMMA SearchContinue ==
  ASSUME TypeInv, SearchInv, Searching, y # 0, y \notin Candidates,
         NEW found \in BOOLEAN, Continue(found),
         Nether => (found <=> (airFound \/ column[y] = Air))
  PROVE  SearchInv'
<1>1. y \in Nat /\ y - 1 \in Nat /\ y' = y - 1 /\ y <= Top /\ Top \in Nat
  BY TopInRange, HeightAssumption
  DEF Continue, Searching, TypeInv, HandlerTypes, SearchRange
<1>2. Candidates' = Candidates /\ Top' = Top /\ (Nether' <=> Nether)
  BY CandidatesKept DEF Continue
<1>3. stage = "search" /\ stage' = stage /\ answers' = answers /\ column' = column /\ airFound' = found
  BY DEF Continue, Searching
<1>4. (y' + 1)..Top' = {y} \cup ((y + 1)..Top)  BY <1>1, <1>2
<1>5. \A h \in (y' + 1)..Top' : h \notin Candidates'
  BY <1>2, <1>3, <1>4 DEF SearchInv
<1>6. Nether' => (airFound' <=> \E a \in (y' + 1)..Top' : column'[a] = Air)
  BY <1>2, <1>3, <1>4 DEF SearchInv
<1> QED  BY <1>1, <1>3, <1>5, <1>6 DEF SearchInv, AnswersSurface

\* The search ends with 404 at the bottom, which is no candidate either.
LEMMA SearchFails ==
  ASSUME TypeInv, SearchInv, Searching, y = 0, y \notin Candidates,
         Break(Failure(404))
  PROVE  SearchInv'
<1>1. Top \in Nat  BY TopInRange
<1>2. Candidates' = Candidates  BY CandidatesKept DEF Break, searchVars
<1>3. Candidates = {}
  <2>1. 0..Top = {y} \cup ((y + 1)..Top)  BY <1>1
  <2>2. \A h \in 0..Top : h \notin Candidates
    BY <2>1 DEF SearchInv, Searching
  <2> QED  BY <2>2 DEF Candidates
<1>4. answers' = <<Failure(404)>> /\ Len(answers') = 1
  BY FirstAnswer DEF SearchInv, Searching, Break
<1>5. Failure(404)' = Failure(404) /\ stage' = "release"  BY DEF Failure, Break
<1> QED  BY <1>2, <1>3, <1>4, <1>5 DEF SearchInv, AnswersSurface

\* The search ends with the candidate it has found.
LEMMA SearchFinds ==
  ASSUME TypeInv, SearchInv, Searching, column[y] # Air, Nether => airFound,
         Break(IF column[y] = NoName THEN Failure(404) ELSE Success(y))
  PROVE  SearchInv'
<1> DEFINE a == IF column[y] = NoName THEN Failure(404) ELSE Success(y)
<1>1. y \in 0..Top /\ Top \in Nat
  BY TopInRange, HeightAssumption DEF Searching, TypeInv, HandlerTypes, SearchRange
<1>2. Candidates' = Candidates /\ UNCHANGED <<y, column>>
  BY CandidatesKept DEF Break, searchVars
<1>3. y \in Candidates  BY <1>1 DEF SearchInv, Searching, Candidates
<1>4. \A g \in Candidates : g <= y
  <2> SUFFICES ASSUME NEW g \in Candidates, ~(g <= y) PROVE FALSE  OBVIOUS
  <2>1. g \in 0..Top  BY DEF Candidates
  <2>2. g \in (y + 1)..Top  BY <1>1, <2>1
  <2> QED  BY <2>2 DEF SearchInv, Searching
<1>5. answers' = <<a>> /\ Len(answers') = 1
  BY FirstAnswer DEF SearchInv, Searching, Break
<1>6. stage' = "release"  BY DEF Break
<1>7. a = IF column'[y] = NoName THEN Failure(404)' ELSE Success(y)'
  BY <1>2 DEF Failure, Success
<1> HIDE DEF a
<1>8. AnswersSurface'
  <2>1. answers' = <<IF column'[y] = NoName THEN Failure(404)' ELSE Success(y)'>>
    BY <1>5, <1>7
  <2>2. \E h \in Candidates' :
          /\ \A g \in Candidates' : g <= h
          /\ answers' = <<IF column'[h] = NoName THEN Failure(404)' ELSE Success(h)'>>
    BY <1>2, <1>3, <1>4, <2>1
  <2> QED  BY <2>2 DEF AnswersSurface, Success, Failure
<1> QED  BY <1>5, <1>6, <1>8 DEF SearchInv

\* Nothing is searched or answered in the beginning.
LEMMA SearchInit == HandlerInit => SearchInv
  BY DEF HandlerInit, SearchInv, AnswersSurface

\* Every action keeps what the search knows true.
LEMMA SearchStep == TypeInv /\ SearchInv /\ [HandlerNext]_handlerVars => SearchInv'
<1> SUFFICES ASSUME TypeInv, SearchInv, [HandlerNext]_handlerVars PROVE SearchInv'  OBVIOUS
<1>1. CASE Reject
  BY <1>1, FirstAnswer DEF Reject, SearchInv, AnswersSurface
<1>2. CASE Resolve
  BY <1>2, FirstAnswer DEF Resolve, SearchInv, AnswersSurface
<1>3. CASE NoRegion
  BY <1>3, FirstAnswer DEF NoRegion, SearchInv, AnswersSurface
<1>4. CASE NoChunk
  BY <1>4, FirstAnswer DEF NoChunk, SearchInv, AnswersSurface
<1>5. CASE OpenRegion \/ Throw
  BY <1>5 DEF OpenRegion, Throw, SearchInv, AnswersSurface
<1>6. CASE GetChunk
  <2>1. Top' \in Nat /\ y' = Top'
    BY <1>6, HeightAssumption DEF GetChunk, Top, Nether
  <2>2. (y' + 1)..Top' = {}
    <3>1. \A t \in Nat : (t + 1)..t = {}  OBVIOUS
    <3> QED  BY <2>1, <3>1
  <2>3. y' >= 0  BY <2>1
  <2>4. airFound' = FALSE /\ answers' = <<>> /\ stage' = "search"
    BY <1>6 DEF GetChunk, SearchInv
  <2>5. Nether' => (airFound' <=> \E a \in (y' + 1)..Top' : column'[a] = Air)
    BY <2>2, <2>4
  <2> QED  BY <2>2, <2>3, <2>4, <2>5 DEF SearchInv, AnswersSurface
<1>7. CASE AirBlock
  <2>1. Searching /\ column[y] = Air /\ y \notin Candidates /\ Nether \in BOOLEAN
    BY <1>7 DEF AirBlock, Candidates, Nether
  <2>2. CASE y = 0
    BY <1>7, <2>1, <2>2, SearchFails DEF AirBlock
  <2>3. CASE y # 0
    BY <1>7, <2>1, <2>3, SearchContinue DEF AirBlock
  <2> QED  BY <2>2, <2>3
<1>8. CASE Ceiling
  <2>1. Searching /\ column[y] # Air /\ Nether /\ ~airFound  BY <1>8 DEF Ceiling
  <2>2. y \notin Candidates  BY <2>1 DEF Candidates, SearchInv, Searching
  <2>3. CASE y = 0
    BY <1>8, <2>1, <2>2, <2>3, SearchFails DEF Ceiling
  <2>4. CASE y # 0
    BY <1>8, <2>1, <2>2, <2>4, SearchContinue DEF Ceiling
  <2> QED  BY <2>3, <2>4
<1>9. CASE Surface
  BY <1>9, SearchFinds DEF Surface
<1>10. CASE Release
  <2>1. stage = "release"
    BY <1>10 DEF Release, SearchInv, TypeInv, HandlerTypes
  <2> QED  BY <1>10, <2>1 DEF Release, SearchInv, AnswersSurface
<1>11. CASE UNCHANGED handlerVars
  BY <1>11, CandidatesKept
  DEF handlerVars, SearchInv, AnswersSurface, Failure, Success
<1> QED
  BY <1>1, <1>2, <1>3, <1>4, <1>5, <1>6, <1>7, <1>8, <1>9, <1>10, <1>11 DEF HandlerNext

\* The invariant holds of every behaviour.
LEMMA SearchInvariant == HandlerSpec => [](TypeInv /\ SearchInv)
<1>1. HandlerInit => TypeInv /\ SearchInv  BY TypeInit, SearchInit
<1>2. TypeInv /\ SearchInv /\ [HandlerNext]_handlerVars => (TypeInv /\ SearchInv)'
  BY TypeStep, SearchStep
<1> QED  BY <1>1, <1>2, PTL DEF HandlerSpec

\* No column, whatever its height, makes the handler answer twice or not at all.
THEOREM OneAnswer == HandlerSpec => []AnsweredOnce
<1>1. TypeInv /\ SearchInv => AnsweredOnce
  <2> SUFFICES ASSUME TypeInv, SearchInv PROVE AnsweredOnce  OBVIOUS
  <2>1. CASE stage \in {"release", "done"}
    <3>1. Len(answers) = 1  BY <2>1 DEF SearchInv
    <3> QED  BY <3>1 DEF AnsweredOnce
  <2>2. CASE stage \notin {"release", "done"}
    <3>1. answers = <<>>  BY <2>2 DEF TypeInv, HandlerTypes, SearchInv
    <3>2. Len(answers) = 0  BY <3>1
    <3> QED  BY <2>2, <3>2 DEF AnsweredOnce
  <2> QED  BY <2>1, <2>2
<1> QED  BY <1>1, SearchInvariant, PTL

\* The answer about a column is its surface, in the nether the first block below
\* air; 404 where there is none.
THEOREM SurfaceFound == HandlerSpec => []AnswersSurface
<1>1. SearchInv => AnswersSurface  BY DEF SearchInv
<1> QED  BY <1>1, SearchInvariant, PTL
-----------------------------------------------------------------------------
(* What is held. *)

\* Before the search only the region is held, and in the end what NothingLeftBehind says.
HeldInv ==
  /\ stage \in {"request", "file"} => held = {}
  /\ stage = "chunk" => held = {"region"}
  /\ NothingLeftBehind

\* Every action keeps that, because nothing was answered before.
LEMMA HeldStep == SearchInv /\ HeldInv /\ [HandlerNext]_handlerVars => HeldInv'
<1> SUFFICES ASSUME SearchInv, HeldInv, [HandlerNext]_handlerVars PROVE HeldInv'  OBVIOUS
<1> USE DEF HeldInv, NothingLeftBehind
<1>1. CASE Reject \/ NoRegion
  BY <1>1 DEF Reject, NoRegion
<1>2. CASE Resolve
  BY <1>2 DEF Resolve
<1>3. CASE OpenRegion
  BY <1>3 DEF OpenRegion
<1>4. CASE NoChunk
  <2>1. answers = <<>> /\ answers' = Append(answers, Failure(404))
    BY <1>4 DEF NoChunk, SearchInv, Answer
  <2>2. \A i \in DOMAIN answers' : answers'[i] = Failure(404)'
    BY <2>1 DEF Failure
  <2> QED  BY <1>4, <2>2 DEF NoChunk
<1>5. CASE Throw
  <2>1. answers' = <<>>  BY <1>5 DEF Throw, SearchInv
  <2> QED  BY <1>5, <2>1 DEF Throw
<1>6. CASE GetChunk \/ Release
  BY <1>6 DEF GetChunk, Release
<1>7. CASE AirBlock \/ Ceiling \/ Surface
  BY <1>7 DEF AirBlock, Ceiling, Surface, Searching, Break, Continue
<1>8. CASE UNCHANGED handlerVars
  BY <1>8 DEF handlerVars, Failure
<1> QED  BY <1>1, <1>2, <1>3, <1>4, <1>5, <1>6, <1>7, <1>8 DEF HandlerNext

\* Whatever the column and however the handler ends, a chunk is always deleted, and a
\* region unless no chunk was got.
THEOREM NothingIsKept == HandlerSpec => []NothingLeftBehind
<1>1. HandlerInit => HeldInv  BY DEF HandlerInit, HeldInv, NothingLeftBehind
<1>2. HeldInv => NothingLeftBehind  BY DEF HeldInv
<1> QED  BY <1>1, <1>2, HeldStep, SearchInvariant, PTL DEF HandlerSpec
=============================================================================
