---------------------------- MODULE BlockServer ----------------------------
(***************************************************************************)
(* The block server of src/server/server_unix_socket.cc: the main thread   *)
(* that starts the pool, binds the socket and accepts connections, the     *)
(* thread that waits for SIGUSR1 and shuts the server down, and the pool's *)
(* threads, each reading a request and answering it.  The pool is the      *)
(* abstract one of JobPool, which ThreadedWorker is proved to implement;   *)
(* the global pointer to it, worker_mutex and the socket file are what the *)
(* two threads share.                                                      *)
(***************************************************************************)
EXTENDS Naturals, Sequences, FiniteSets

CONSTANTS Clients,     \* the peers, each of which connects once
          NumWorkers   \* the pool's threads

ASSUME NumWorkersAssumption == NumWorkers \in Nat \ {0}

VARIABLES
  process,   \* "up", or how it ended: "ended", "failed", "aborted", "crashed"
  main,      \* where start_server() is
  signal,    \* where handle_signals() is
  pool,      \* the global worker: "absent", then the status of the pool
  line,      \* the connections queued in the pool, oldest first
  conn,      \* where each client's connection is
  sent,      \* has the client sent its request, or hung up?
  sockFile,  \* does /tmp/mcmap.sock exist?
  misuse,    \* has a thread used the pool as no thread may?
  freed,     \* has the pool been deleted?
  missed     \* has the pool missed a notification, so that no thread is awake?

ends == <<process, sockFile, misuse, freed>>
vars == <<process, main, signal, pool, line, conn, sent, sockFile, misuse,
          freed, missed>>

In(states) == {c \in Clients : conn[c] \in states}

\* handle_signals() locks worker_mutex once SIGUSR1 was taken, and never unlocks.
MutexFree == signal \in {"waiting", "caught"}

\* handle_signals() is using the pool, or has deleted it.
PoolTaken == signal = "finishing" \/ freed

\* Nothing is queued in the pool and none of its threads has a connection.
Drained == line = <<>> /\ In({"handling", "buffered"}) = {}

Init ==
  /\ process = "up"
  /\ main = "boot"
  /\ signal = "waiting"
  /\ pool = "absent"
  /\ line = <<>>
  /\ conn = [c \in Clients |-> "idle"]
  /\ sent = [c \in Clients |-> FALSE]
  /\ sockFile \in BOOLEAN  \* left behind by an earlier process, or not
  /\ misuse = FALSE
  /\ freed = FALSE
  /\ missed = FALSE

\* queue_job() and finish() notify the threads that wait at that moment.  Those
\* that are about to wait miss it: ThreadedWorker has the interleaving.
MayMiss(possible) == missed' \in IF possible THEN BOOLEAN ELSE {FALSE}

\* A data race on the pool, or a use of it after delete: anything may follow,
\* a crash included.
Misuse ==
  /\ misuse' = TRUE
  /\ process' \in {"up", "crashed"}

-----------------------------------------------------------------------------
(* The main thread: start_server(). *)

\* worker = new threaded_worker<int>(...), with the signal thread running.
CreatePool ==
  /\ main = "boot"
  /\ main' = "starting"
  /\ pool' = "open"
  /\ UNCHANGED <<ends, signal, line, conn, sent, missed>>

\* worker->start() returns; what it returns is not looked at.  Without
\* worker_mutex, the signal thread may be in finish(), or past delete.
StartPool ==
  /\ main = "starting"
  /\ main' = "socket"
  /\ pool' \in IF pool = "open" THEN {"open", "broken"} ELSE {pool}
  /\ IF PoolTaken THEN Misuse ELSE UNCHANGED <<misuse, process>>
  /\ UNCHANGED <<signal, line, conn, sent, sockFile, freed, missed>>

\* socket() fails: exit(1).
SocketFails ==
  /\ main = "socket"
  /\ process' = "failed"
  /\ UNCHANGED <<main, signal, pool, line, conn, sent, sockFile, misuse, freed,
                 missed>>

\* bind() creates the socket file.
Bind ==
  /\ main = "socket"
  /\ ~sockFile
  /\ sockFile' = TRUE
  /\ main' = "bound"
  /\ UNCHANGED <<process, signal, pool, line, conn, sent, misuse, freed, missed>>

\* bind() fails because the file is there (EADDRINUSE), or listen() or chmod()
\* fails.
GoToFail ==
  /\ (main = "socket" /\ sockFile) \/ main = "bound"
  /\ main' = "failing"
  /\ UNCHANGED <<ends, signal, pool, line, conn, sent, missed>>

\* listen() and chmod() succeed.
Listen ==
  /\ main = "bound"
  /\ main' = "accept"
  /\ UNCHANGED <<ends, signal, pool, line, conn, sent, missed>>

\* At fail, worker->finish() is called without worker_mutex.
FailFinish ==
  /\ main = "failing"
  /\ main' = "joining"
  /\ pool' = IF pool = "open" THEN "closed" ELSE pool
  /\ IF PoolTaken THEN Misuse ELSE UNCHANGED <<misuse, process>>
  /\ MayMiss(pool # "broken")
  /\ UNCHANGED <<signal, line, conn, sent, sockFile, freed>>

\* finish() and start_server() return, and so does main().
FailReturn ==
  /\ main = "joining"
  /\ Drained
  /\ ~missed
  /\ pool' = IF pool = "closed" THEN "returned" ELSE pool
  /\ process' = "failed"
  /\ UNCHANGED <<main, signal, line, conn, sent, sockFile, misuse, freed,
                 missed>>

\* accept() returns the connection of c.
Accept(c) ==
  /\ main = "accept"
  /\ conn[c] = "connected"
  /\ conn' = [conn EXCEPT ![c] = "accepted"]
  /\ main' = "holding"
  /\ UNCHANGED <<ends, signal, pool, line, sent, missed>>

\* Mutant: the connection is queued without worker_mutex.
QueueWithoutMutex(c) ==
  /\ main = "holding"
  /\ conn[c] = "accepted"
  /\ line' = Append(line, c)
  /\ conn' = [conn EXCEPT ![c] = "queued"]
  /\ main' = "accept"
  /\ IF freed THEN Misuse ELSE UNCHANGED <<misuse, process>>
  /\ MayMiss(pool = "open" /\ In({"handling", "buffered"}) = {})
  /\ UNCHANGED <<signal, pool, sent, sockFile, freed>>

\* With worker_mutex: worker->queue_job(fd).
Queue(c) ==
  /\ main = "holding"
  /\ conn[c] = "accepted"
  /\ MutexFree
  /\ line' = Append(line, c)
  /\ conn' = [conn EXCEPT ![c] = "queued"]
  /\ main' = "accept"
  /\ MayMiss(pool = "open" /\ In({"handling", "buffered"}) = {})
  /\ UNCHANGED <<ends, signal, pool, sent>>

-----------------------------------------------------------------------------
(* The signal thread: handle_signals(). *)

\* sigwait() returns SIGUSR1.  (SIGINT and SIGPIPE are taken and ignored.)
TakeSignal ==
  /\ signal = "waiting"
  /\ signal' = "caught"
  /\ UNCHANGED <<ends, main, pool, line, conn, sent, missed>>

\* worker_mutex is locked; with no pool yet there is nothing to finish.
LockWithoutPool ==
  /\ signal = "caught"
  /\ pool = "absent"
  /\ signal' = "terminating"
  /\ UNCHANGED <<ends, main, pool, line, conn, sent, missed>>

\* Mutant: worker_mutex is locked and worker->finish() is not called.
LockWithoutFinishing ==
  /\ signal = "caught"
  /\ pool # "absent"
  /\ signal' = "terminating"
  /\ UNCHANGED <<ends, main, pool, line, conn, sent, missed>>

\* worker_mutex is locked and worker->finish() is called.  The main thread may
\* be in start(), or in the finish() of its fail path.
LockAndFinish ==
  /\ signal = "caught"
  /\ pool # "absent"
  /\ signal' = "finishing"
  /\ pool' = IF pool = "open" THEN "closed" ELSE pool
  /\ IF main \in {"starting", "joining"} THEN Misuse ELSE UNCHANGED <<misuse, process>>
  /\ MayMiss(pool # "broken")
  /\ UNCHANGED <<main, line, conn, sent, sockFile, freed>>

\* finish() returns and the pool is deleted; the pointer keeps its value.
FinishReturns ==
  /\ signal = "finishing"
  /\ pool = "broken" \/ (Drained /\ ~missed)
  /\ signal' = "terminating"
  /\ freed' = TRUE
  /\ pool' = IF pool = "closed" THEN "returned" ELSE pool
  /\ UNCHANGED <<process, main, line, conn, sent, sockFile, misuse, missed>>

\* Mutant: the socket file stays.
KeepSocket ==
  /\ signal = "terminating"
  /\ signal' = "unlinked"
  /\ UNCHANGED <<ends, main, pool, line, conn, sent, missed>>

\* terminate_server(): unlink(), worker_mutex still locked.
Unlink ==
  /\ signal = "terminating"
  /\ signal' = "unlinked"
  /\ sockFile' = FALSE
  /\ UNCHANGED <<process, main, pool, line, conn, sent, misuse, freed, missed>>

\* Mutant: the thread waits for the next signal, worker_mutex unlocked.
GoOnWaiting ==
  /\ signal = "unlinked"
  /\ signal' = "waiting"
  /\ UNCHANGED <<ends, main, pool, line, conn, sent, missed>>

\* terminate_server(): exit(0), worker_mutex still locked.  The main thread has
\* been running until now, and may have created the socket file after unlink().
Exit ==
  /\ signal = "unlinked"
  /\ process' = "ended"
  /\ UNCHANGED <<main, signal, pool, line, conn, sent, sockFile, misuse,
                 freed, missed>>

-----------------------------------------------------------------------------
(* The pool's threads: handle_request_unix(). *)

\* A free thread takes the oldest connection.  If all had missed the queueing
\* of it, one was woken spuriously, and is awake now.
Take ==
  /\ pool \in {"open", "closed"}
  /\ line # <<>>
  /\ Cardinality(In({"handling", "buffered"})) < NumWorkers
  /\ conn' = [conn EXCEPT ![Head(line)] = "handling"]
  /\ line' = Tail(line)
  /\ missed' = (missed /\ pool = "closed")
  /\ UNCHANGED <<ends, main, signal, pool, sent>>

\* handle_request() returns, its response in the writer's buffer.
Respond(c) ==
  /\ conn[c] = "handling"
  /\ sent[c]
  /\ conn' = [conn EXCEPT ![c] = "buffered"]
  /\ UNCHANGED <<ends, main, signal, pool, line, sent, missed>>

\* handle_request() throws: get_chunk() on a chunk that cannot be decoded is
\* not in a try block, and the exception leaves the thread (std::terminate).
Throw(c) ==
  /\ conn[c] = "handling"
  /\ sent[c]
  /\ process' = "aborted"
  /\ UNCHANGED <<main, signal, pool, line, conn, sent, sockFile, misuse, freed,
                 missed>>

\* Mutant: the connection is given back to the queue, not closed.
DeliverAndRequeue(c) ==
  /\ conn[c] = "buffered"
  /\ conn' = [conn EXCEPT ![c] = "queued"]
  /\ line' = Append(line, c)
  /\ UNCHANGED <<ends, main, signal, pool, sent, missed>>

\* delete w writes what is buffered, and the connection is closed.
Deliver(c) ==
  /\ conn[c] = "buffered"
  /\ conn' = [conn EXCEPT ![c] = "closed"]
  /\ UNCHANGED <<ends, main, signal, pool, line, sent, missed>>

-----------------------------------------------------------------------------
(* The clients. *)

Connect(c) ==
  /\ main \in {"accept", "holding"}
  /\ conn[c] = "idle"
  /\ conn' = [conn EXCEPT ![c] = "connected"]
  /\ UNCHANGED <<ends, main, signal, pool, line, sent, missed>>

\* The client has sent its whole request, or closed its end.
Send(c) ==
  /\ conn[c] # "idle"
  /\ ~sent[c]
  /\ sent' = [sent EXCEPT ![c] = TRUE]
  /\ UNCHANGED <<ends, main, signal, pool, line, conn, missed>>

-----------------------------------------------------------------------------
Main ==
  \/ CreatePool \/ StartPool \/ SocketFails \/ Bind \/ GoToFail \/ Listen
  \/ FailFinish \/ FailReturn
  \/ \E c \in Clients : Accept(c) \/ Queue(c)

Signal == LockWithoutPool \/ LockAndFinish \/ FinishReturns \/ Unlink \/ Exit

Handler(c) == Respond(c) \/ Throw(c) \/ Deliver(c)

Next ==
  /\ process = "up"
  /\ \/ Main \/ TakeSignal \/ Signal \/ Take
     \/ \E c \in Clients : Handler(c) \/ Connect(c) \/ Send(c)

Spec == Init /\ [][Next]_vars

\* Every thread that is awake runs on; a client that connected sends its request or hangs up.
\* Nothing makes a client connect or a signal arrive.
Fairness ==
  /\ WF_vars(process = "up" /\ Main)
  /\ WF_vars(process = "up" /\ Signal)
  /\ WF_vars(process = "up" /\ ~missed /\ Take)
  /\ \A c \in Clients : WF_vars(process = "up" /\ Handler(c))
                        /\ WF_vars(process = "up" /\ Send(c))

FairSpec == Spec /\ Fairness

-----------------------------------------------------------------------------
(* Properties. *)

\* Type invariant.
TypeOK ==
  /\ process \in {"up", "ended", "failed", "aborted", "crashed"}
  /\ main \in {"boot", "starting", "socket", "bound", "accept", "holding",
               "failing", "joining"}
  /\ signal \in {"waiting", "caught", "finishing", "terminating", "unlinked"}
  /\ pool \in {"absent", "open", "closed", "returned", "broken"}
  /\ line \in Seq(Clients)
  /\ conn \in [Clients -> {"idle", "connected", "accepted", "queued",
                           "handling", "buffered", "closed"}]
  /\ sent \in [Clients -> BOOLEAN]
  /\ sockFile \in BOOLEAN
  /\ misuse \in BOOLEAN /\ freed \in BOOLEAN /\ missed \in BOOLEAN

\* The pool as JobPool sees it.
Pool == INSTANCE JobPool
  WITH Jobs <- Clients, Capacity <- NumWorkers,
       running <- In({"handling", "buffered"}), done <- In({"closed"}),
       status <- IF pool = "absent" THEN "open" ELSE pool

\* Shutdown drains: when SIGUSR1 has ended the process, every connection that
\* reached a working pool was answered and closed, and the only connection
\* accepted and then dropped is the one the main thread held at that moment.
ShutdownLosesOneAtMost ==
  /\ TypeOK
  /\ process = "ended" /\ pool # "broken" =>
       /\ In({"queued", "handling", "buffered"}) = {}
       /\ Cardinality(In({"accepted"})) <= 1

\* The two threads use the pool as JobPool allows, whatever their order: no
\* connection is queued once finish() was called, none is handled twice.  Once
\* connections are accepted, worker_mutex keeps the threads apart: no race on the
\* pool and no use of it after delete.  (Before, and on the fail path, the main
\* thread does not take the mutex and both can happen.)
SafeOnceAccepting ==
  /\ Pool!Spec
  /\ [][(main \in {"accept", "holding"}) => (misuse' = misuse)]_vars

\* A server that accepts connections before it is signalled has its socket file
\* and, when SIGUSR1 has ended it, has it no more: the next bind() succeeds.  (A
\* server signalled earlier can create the file between unlink() and exit().)
SocketFileFollowsServer ==
  [](main \in {"accept", "holding"} /\ MutexFree =>
       /\ sockFile
       /\ [](process = "ended" => ~sockFile))

\* SIGUSR1 stops the server, whatever the main thread and the pool are doing,
\* as long as clients do not keep a thread waiting for their request and the
\* pool misses no notification.
SignalStopsServer == signal = "caught" ~> process # "up" \/ missed

\* A connection queued in a working pool is answered and closed, unless the
\* pool sleeps through its arrival.
QueuedIsAnswered ==
  \A c \in Clients :
    conn[c] = "queued" /\ pool # "broken"
      ~> conn[c] = "closed" \/ process # "up" \/ missed

\* The usage text promises 500 for a server-side error: a request never takes
\* the process down.
ServerErrorIsAnswered == process # "aborted"
=============================================================================
