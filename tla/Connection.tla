----------------------------- MODULE Connection -----------------------------
(***************************************************************************)
(* One connection of the block server, from its first byte to its close:    *)
(* handle_request_unix() has the request read (RequestReader), the answer   *)
(* goes through the buffer of writer_unix, and deleting the writer sends    *)
(* the rest of it before the socket is closed.  The client may be gone long *)
(* before: what write() returns is looked at nowhere.                       *)
(*                                                                          *)
(* A response of n bytes is the bytes <<code, 1>> to <<code, n>>.           *)
(***************************************************************************)
EXTENDS RequestReader, SequencesExt

CONSTANTS WriteSize,   \* writer_unix::buf_size (2048)
          Sizes,       \* of each response code, how long a response may be
          Required(_)  \* whether handle_request() finds what it needs in the fields

ASSUME WriterAssumption ==
  WriteSize \in Nat \ {0} /\ \A c \in {200, 400, 404} : Sizes[c] \subseteq Nat \ {0}

VARIABLES
  conn,      \* "reading", "writing", "flushed" (the writer is deleted), "closed"
  answer,    \* what response::write_to() gives to the writer
  written,   \* how much of it it has given
  buf,       \* buf, up to off
  client,    \* "there" or "gone"
  received   \* what the client has read

writeVars == <<conn, answer, written, buf, client, received>>
connVars == <<vars, writeVars>>

ConnInit ==
  /\ Init
  /\ conn = "reading" /\ answer = <<>> /\ written = 0 /\ buf = <<>>
  /\ client = "there" /\ received = <<>>

-----------------------------------------------------------------------------
Response(code, n) == [i \in 1..n |-> <<code, i>>]

\* What parse_all() returns is not looked at: the fields read until then decide.
Codes == IF sig = "ok" /\ Required(fields) THEN {200, 404} ELSE {400}

Respond ==
  /\ conn = "reading" /\ pc = "done"
  /\ conn' = "writing"
  /\ \E code \in Codes : \E n \in Sizes[code] : answer' = Response(code, n)
  /\ UNCHANGED <<vars, written, buf, client, received>>

\* write() to the client: all of it, unless the client goes away meanwhile.
Send(bytes) ==
  \/ received' = received \o bytes /\ client' = client /\ client = "there"
  \/ client' = "gone" /\ \E n \in 0..(Len(bytes) - 1) :
       /\ client = "gone" => n = 0
       /\ received' = received \o SubSeq(bytes, 1, n)

\* Mutant: there is room for one byte more.
FullBeyond == Len(buf) > WriteSize

Full == Len(buf) >= WriteSize

Unwritten == conn = "writing" /\ written < Len(answer)

\* write_data() puts a byte into the buffer.
Put ==
  /\ Unwritten /\ ~Full
  /\ buf' = Append(buf, answer[written + 1])
  /\ written' = written + 1
  /\ UNCHANGED <<vars, conn, answer, client, received>>

\* It sends a buffer of buf_size bytes, and begins with an empty one.
Flush ==
  /\ Unwritten /\ Full
  /\ Send(SubSeq(buf, 1, WriteSize))
  /\ buf' = <<>>
  /\ UNCHANGED <<vars, conn, answer, written>>

\* The writer is deleted.
DeleteWriter ==
  /\ conn = "writing" /\ ~Unwritten
  /\ Send(buf)
  /\ buf' = <<>>
  /\ conn' = "flushed"
  /\ UNCHANGED <<vars, answer, written>>

Close ==
  /\ conn = "flushed"
  /\ conn' = "closed"
  /\ UNCHANGED <<vars, answer, written, buf, client, received>>

\* The client goes away, with whatever it has sent still there to be read.
HangUp ==
  /\ client = "there" /\ conn # "closed"
  /\ client' = "gone"
  /\ UNCHANGED <<vars, conn, answer, written, buf, received>>

Serve == (Step /\ UNCHANGED writeVars) \/ Respond \/ Put \/ Flush \/ DeleteWriter \/ Close

ConnSpec == ConnInit /\ [][Serve \/ HangUp]_connVars /\ WF_connVars(Serve)

-----------------------------------------------------------------------------
(* Properties. *)

\* Whatever the sizes of the answer and of the buffer, the bytes a client reads are
\* those of one answer, from its first on and in their order, also when it goes away
\* in the middle; one that stays has read all of it when the connection is closed.
ClientReadsTheAnswer ==
  /\ IsPrefix(received, answer)
  /\ conn = "closed" => answer # <<>> /\ (client = "there" => received = answer)

\* Every connection is closed: the parser never spins on a client that has closed its
\* end, on a full buffer or on a line cut between CR and LF, and what is left of the
\* request or who still listens to the answer does not hold it open.
ConnectionEnds == <>(conn = "closed")
=============================================================================
