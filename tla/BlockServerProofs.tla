------------------------- MODULE BlockServerProofs -------------------------
(***************************************************************************)
(* Proofs about BlockServer, for every set of clients and every number of  *)
(* threads: that the main thread and the signal thread use the pool as     *)
(* JobPool allows although the fail path does not take worker_mutex, that  *)
(* a shutdown answers every connection but the one in main's hand, and     *)
(* that it removes the socket file of a server that had come to serve.     *)
(***************************************************************************)
EXTENDS BlockServer, Functions, SequenceTheorems, FiniteSetTheorems, TLAPS

-----------------------------------------------------------------------------
(* The line of the pool: what is in it after a push, and after front() and *)
(* pop(), and that nothing comes to be in it twice.                        *)

LEMMA RangeOfAppend ==
  ASSUME NEW S, NEW s \in Seq(S), NEW x \in S
  PROVE  Range(Append(s, x)) = Range(s) \cup {x}
<1>1. \A i \in 1..Len(s) : i \in DOMAIN Append(s, x) /\ Append(s, x)[i] = s[i]  OBVIOUS
<1>2. Len(s) + 1 \in DOMAIN Append(s, x) /\ Append(s, x)[Len(s) + 1] = x  OBVIOUS
<1> QED  BY <1>1, <1>2 DEF Range

LEMMA RangeOfTail ==
  ASSUME NEW S, NEW s \in Seq(S), s # <<>>
  PROVE  /\ Head(s) \in S /\ Tail(s) \in Seq(S)
         /\ Range(s) = {Head(s)} \cup Range(Tail(s))
<1>1. /\ Len(s) \in Nat \ {0} /\ DOMAIN s = 1..Len(s) /\ DOMAIN Tail(s) = 1..(Len(s) - 1)
      /\ Head(s) = s[1] /\ \A i \in 1..(Len(s) - 1) : Tail(s)[i] = s[i + 1]
  OBVIOUS
<1>2. \A i \in DOMAIN s : i = 1 \/ (i - 1 \in DOMAIN Tail(s) /\ Tail(s)[i - 1] = s[i])  BY <1>1
<1>3. 1 \in DOMAIN s /\ \A i \in DOMAIN Tail(s) : i + 1 \in DOMAIN s  BY <1>1
<1>4. Range(s) \subseteq {Head(s)} \cup Range(Tail(s))  BY <1>1, <1>2 DEF Range
<1>5. {Head(s)} \cup Range(Tail(s)) \subseteq Range(s)  BY <1>1, <1>3 DEF Range
<1> QED  BY <1>1, <1>4, <1>5

Distinct(s) == \A i, k \in DOMAIN s : s[i] = s[k] => i = k

LEMMA DistinctAppend ==
  ASSUME NEW S, NEW s \in Seq(S), NEW x \in S, Distinct(s), x \notin Range(s)
  PROVE  Distinct(Append(s, x))
  BY DEF Distinct, Range

LEMMA DistinctTail ==
  ASSUME NEW S, NEW s \in Seq(S), s # <<>>, Distinct(s)
  PROVE  Distinct(Tail(s)) /\ Head(s) \notin Range(Tail(s))
  BY DEF Distinct, Range

-----------------------------------------------------------------------------
(* The two threads that share the pool.  The pool exists once main has     *)
(* created it.  While worker_mutex is free and main is not on its fail     *)
(* path, nobody has closed it.                                             *)

Serving == main \in {"accept", "holding"}

ThreadsInv ==
  /\ main = "boot" <=> pool = "absent"
  /\ MutexFree /\ main \notin {"boot", "joining"} => pool \in {"open", "broken"}
  /\ process = "ended" => signal = "unlinked"

\* Connections come to be once main accepts.  Main holds at most one; those
\* queued are in line, each once; and when the signal thread has got past
\* finish(), a working pool has none.
ConnInv ==
  /\ ~Serving => line = <<>> /\ \A c \in Clients : conn[c] = "idle"
  /\ main # "holding" => \A c \in Clients : conn[c] # "accepted"
  /\ \A c, d \in Clients : conn[c] = "accepted" /\ conn[d] = "accepted" => c = d
  /\ Distinct(line)
  /\ \A c \in Clients : conn[c] = "queued" <=> c \in Range(line)
  /\ signal \in {"terminating", "unlinked"} /\ pool # "broken" =>
       /\ line = <<>>
       /\ \A c \in Clients : conn[c] \notin {"queued", "handling", "buffered"}

ServerInv == TypeOK /\ ThreadsInv /\ ConnInv

\* Nothing is shared before CreatePool.
LEMMA ServerInit == Init => ServerInv
<1> SUFFICES ASSUME Init PROVE ServerInv
  OBVIOUS
<1>1. line = <<>> /\ line \in Seq(Clients) /\ Range(line) = {} /\ DOMAIN line = {}
  BY EmptySeq DEF Init, Range
<1>2. TypeOK
  BY <1>1 DEF Init, TypeOK
<1>3. ThreadsInv
  BY DEF Init, ThreadsInv, Serving
<1>4. Distinct(line)
  BY <1>1 DEF Distinct
<1>5. ConnInv
  BY <1>1, <1>4 DEF Init, ConnInv, Serving
<1>6. QED
  BY <1>2, <1>3, <1>5 DEF ServerInv

\* A step of either thread keeps the variables' types.
LEMMA TypeStep == TypeOK /\ [Next]_vars => TypeOK'
<1> SUFFICES ASSUME TypeOK, [Next]_vars PROVE TypeOK'
  OBVIOUS
<1> USE DEF TypeOK, ends
<1>1. CASE CreatePool \/ StartPool \/ SocketFails \/ Bind \/ GoToFail \/ Listen
  BY <1>1 DEF CreatePool, StartPool, SocketFails, Bind, GoToFail, Listen, Misuse
<1>2. CASE FailFinish \/ FailReturn
  BY <1>2 DEF FailFinish, FailReturn, MayMiss, Misuse
<1>3. ASSUME NEW c \in Clients, Accept(c) \/ Connect(c) \/ Send(c) \/ Handler(c)
      PROVE  TypeOK'
  <2>1. CASE Accept(c) \/ Connect(c)
    BY <2>1 DEF Accept, Connect
  <2>2. CASE Send(c)
    BY <2>2 DEF Send
  <2>3. CASE Handler(c)
    BY <2>3 DEF Handler, Respond, Throw, Deliver
  <2>4. QED
    BY <1>3, <2>1, <2>2, <2>3
<1>4. ASSUME NEW c \in Clients, Queue(c) PROVE TypeOK'
  <2>1. line' \in Seq(Clients)
    BY <1>4, AppendProperties DEF Queue
  <2>2. QED
    BY <1>4, <2>1 DEF Queue, MayMiss
<1>5. CASE TakeSignal \/ LockWithoutPool \/ Unlink \/ Exit
  BY <1>5 DEF TakeSignal, LockWithoutPool, Unlink, Exit
<1>6. CASE LockAndFinish \/ FinishReturns
  BY <1>6 DEF LockAndFinish, FinishReturns, MayMiss, Misuse
<1>7. CASE Take
  <2>1. line' \in Seq(Clients) /\ Head(line) \in Clients
    BY <1>7, RangeOfTail DEF Take
  <2>2. missed' \in BOOLEAN
    BY <1>7 DEF Take
  <2>3. QED
    BY <1>7, <2>1, <2>2 DEF Take
<1>8. CASE UNCHANGED vars
  BY <1>8 DEF vars
<1>9. QED
  BY <1>1, <1>2, <1>3, <1>4, <1>5, <1>6, <1>7, <1>8 DEF Next, Main, Signal

\* worker_mutex, and its absence on the fail path.
LEMMA ThreadsStep == ServerInv /\ [Next]_vars => ThreadsInv'
<1> SUFFICES ASSUME TypeOK, ThreadsInv, [Next]_vars PROVE ThreadsInv'
  BY DEF ServerInv
<1> USE DEF TypeOK, ThreadsInv, Serving, MutexFree, ends
<1>1. CASE CreatePool \/ StartPool \/ SocketFails \/ Bind \/ GoToFail \/ Listen
  BY <1>1 DEF CreatePool, StartPool, SocketFails, Bind, GoToFail, Listen, Misuse, Next
<1>2. CASE FailFinish \/ FailReturn
  BY <1>2 DEF FailFinish, FailReturn, Misuse, Next
<1>3. ASSUME NEW c \in Clients,
             Accept(c) \/ Queue(c) \/ Connect(c) \/ Send(c) \/ Handler(c)
      PROVE  ThreadsInv'
  BY <1>3 DEF Accept, Queue, Connect, Send, Handler, Respond, Throw, Deliver
<1>4. CASE TakeSignal \/ LockWithoutPool \/ Unlink \/ Exit
  BY <1>4 DEF TakeSignal, LockWithoutPool, Unlink, Exit
<1>5. CASE LockAndFinish \/ FinishReturns
  BY <1>5 DEF LockAndFinish, FinishReturns, Misuse, Next
<1>6. CASE Take
  BY <1>6 DEF Take
<1>7. CASE UNCHANGED vars
  BY <1>7 DEF vars
<1>8. QED
  BY <1>1, <1>2, <1>3, <1>4, <1>5, <1>6, <1>7 DEF Next, Main, Signal

\* A step that leaves the connections alone keeps what is known of them, unless
\* it ends the serving or frees the signal thread to end the process.
LEMMA ConnUntouched ==
  ASSUME ConnInv, UNCHANGED <<line, conn>>,
         Serving => main' = main,
         ~Serving => main' # "holding",
         pool' # "broken" => pool # "broken",
         signal' \in {"terminating", "unlinked"}
           => signal \in {"terminating", "unlinked"}
  PROVE  ConnInv'
  BY DEF ConnInv, Serving

\* Every step of main, the signal thread, the pool and the clients.
LEMMA ConnStep == ServerInv /\ [Next]_vars => ConnInv'
<1> SUFFICES ASSUME ServerInv, [Next]_vars PROVE ConnInv'
  OBVIOUS
<1>0. TypeOK /\ ThreadsInv /\ ConnInv
  BY DEF ServerInv
<1>1. CASE CreatePool \/ StartPool \/ SocketFails \/ Bind \/ GoToFail
           \/ FailFinish \/ FailReturn
  BY <1>0, <1>1, ConnUntouched
  DEF CreatePool, StartPool, SocketFails, Bind, GoToFail, FailFinish, FailReturn,
      Serving, ends, TypeOK, ThreadsInv
<1>2. CASE Listen
  BY <1>0, <1>2, ConnUntouched DEF Listen, Serving, ends
<1>3. CASE TakeSignal \/ Unlink \/ Exit \/ LockAndFinish
  BY <1>0, <1>3, ConnUntouched
  DEF TakeSignal, Unlink, Exit, LockAndFinish, Serving, ends
<1>4. CASE LockWithoutPool
  <2>1. line = <<>> /\ \A c \in Clients : conn[c] = "idle"
    BY <1>0, <1>4 DEF LockWithoutPool, ThreadsInv, ConnInv, Serving
  <2>2. QED
    BY <1>0, <1>4, <2>1 DEF LockWithoutPool, ConnInv, Serving, ends
<1>5. CASE FinishReturns
  <2>1. UNCHANGED <<main, line, conn>>
    BY <1>5 DEF FinishReturns
  <2>2. CASE pool = "broken"
    BY <1>0, <1>5, <2>1, <2>2 DEF FinishReturns, ConnInv, Serving
  <2>3. CASE Drained
    <3>1. /\ line = <<>> /\ Range(line) = {}
          /\ \A c \in Clients : conn[c] \notin {"handling", "buffered"}
      BY <2>3 DEF Drained, In, Range
    <3>2. \A c \in Clients : conn[c] # "queued"
      BY <1>0, <3>1 DEF ConnInv
    <3>3. QED
      BY <1>0, <2>1, <3>1, <3>2 DEF ConnInv, Serving
  <2>4. QED
    BY <1>5, <2>2, <2>3 DEF FinishReturns
<1>6. ASSUME NEW c \in Clients, Accept(c) PROVE ConnInv'
  BY <1>0, <1>6 DEF Accept, TypeOK, ConnInv, Serving, ends
<1>7. ASSUME NEW c \in Clients, Queue(c) PROVE ConnInv'
  <2>1. /\ line \in Seq(Clients) /\ conn[c] = "accepted" /\ line' = Append(line, c)
        /\ main = "holding" /\ main' = "accept" /\ signal' = signal
        /\ signal \notin {"terminating", "unlinked"}
        /\ conn' = [conn EXCEPT ![c] = "queued"]
    BY <1>0, <1>7 DEF Queue, TypeOK, MutexFree, ends
  <2>2. Range(line') = Range(line) \cup {c}
    BY <2>1, RangeOfAppend
  <2>3. c \notin Range(line)
    BY <1>0, <2>1 DEF ConnInv
  <2>4. Distinct(line')
    BY <1>0, <2>1, <2>3, DistinctAppend DEF ConnInv
  <2>5. \A d \in Clients : conn'[d] = IF d = c THEN "queued" ELSE conn[d]
    BY <1>0, <2>1 DEF TypeOK
  <2>6. \A d \in Clients : conn'[d] # "accepted"
    BY <1>0, <2>1, <2>5 DEF ConnInv
  <2>7. QED
    BY <1>0, <2>1, <2>2, <2>4, <2>5, <2>6 DEF ConnInv, Serving
<1>8. CASE Take
  <2> DEFINE h == Head(line)
  <2>1. /\ line \in Seq(Clients) /\ line # <<>> /\ line' = Tail(line)
        /\ UNCHANGED <<main, signal, pool>>
        /\ conn' = [conn EXCEPT ![h] = "handling"]
    BY <1>0, <1>8 DEF Take, TypeOK
  <2>2. h \in Clients /\ Range(line) = {h} \cup Range(line')
    BY <2>1, RangeOfTail
  <2>3. Distinct(line') /\ h \notin Range(line')
    BY <1>0, <2>1, DistinctTail DEF ConnInv
  <2>4. \A d \in Clients : conn'[d] = IF d = h THEN "handling" ELSE conn[d]
    BY <1>0, <2>1, <2>2 DEF TypeOK
  <2>5. Serving /\ ~(signal \in {"terminating", "unlinked"} /\ pool # "broken")
    BY <1>0, <2>1 DEF ConnInv
  <2> HIDE DEF h
  <2>6. QED
    BY <1>0, <2>1, <2>2, <2>3, <2>4, <2>5 DEF ConnInv, Serving
<1>9. ASSUME NEW c \in Clients, Handler(c) PROVE ConnInv'
  <2>1. CASE Respond(c) \/ Deliver(c)
    <3>1. /\ UNCHANGED <<main, signal, pool, line>>
          /\ conn[c] \in {"handling", "buffered"}
          /\ \A d \in Clients : d # c => conn'[d] = conn[d]
          /\ conn'[c] \in {"buffered", "closed"}
      BY <1>0, <2>1 DEF Respond, Deliver, TypeOK
    <3>2. Serving
      BY <1>0, <3>1 DEF ConnInv
    <3>3. QED
      BY <1>0, <3>1, <3>2 DEF ConnInv, Serving
  <2>2. CASE Throw(c)
    BY <1>0, <2>2, ConnUntouched DEF Throw, Serving
  <2>3. QED
    BY <1>9, <2>1, <2>2 DEF Handler
<1>10. ASSUME NEW c \in Clients, Connect(c) PROVE ConnInv'
  <2>1. /\ UNCHANGED <<main, signal, pool, line>> /\ Serving
        /\ conn[c] = "idle" /\ conn'[c] = "connected"
        /\ \A d \in Clients : d # c => conn'[d] = conn[d]
    BY <1>0, <1>10 DEF Connect, TypeOK, Serving
  <2>2. QED
    BY <1>0, <2>1 DEF ConnInv, Serving
<1>11. ASSUME NEW c \in Clients, Send(c) PROVE ConnInv'
  BY <1>0, <1>11, ConnUntouched DEF Send, Serving
<1>12. CASE UNCHANGED vars
  BY <1>0, <1>12, ConnUntouched DEF vars, Serving
<1>13. QED
  BY <1>1, <1>2, <1>3, <1>4, <1>5, <1>6, <1>7, <1>8, <1>9, <1>10, <1>11, <1>12
  DEF Next, Main, Signal

LEMMA ServerAlways == Spec => []ServerInv
<1>1. ServerInv /\ [Next]_vars => ServerInv'
  <2>1. ServerInv => TypeOK
    BY DEF ServerInv
  <2>2. QED
    BY <2>1, TypeStep, ThreadsStep, ConnStep DEF ServerInv
<1>2. QED
  BY <1>1, ServerInit, PTL DEF Spec

-----------------------------------------------------------------------------
(* Shutdown. *)

\* Whatever main and the pool were doing when SIGUSR1 arrived, exit(0) is not
\* reached before everything queued in a working pool was answered, and at most
\* the connection that main held is dropped.
THEOREM ShutdownDrains == Spec => []ShutdownLosesOneAtMost
<1>1. ServerInv => ShutdownLosesOneAtMost
  <2> SUFFICES ASSUME ServerInv PROVE ShutdownLosesOneAtMost
    OBVIOUS
  <2>1. TypeOK /\ ThreadsInv /\ ConnInv
    BY DEF ServerInv
  <2>2. ASSUME process = "ended", pool # "broken"
        PROVE  In({"queued", "handling", "buffered"}) = {}
    <3>1. signal = "unlinked"
      BY <2>1, <2>2 DEF ThreadsInv
    <3>2. \A c \in Clients : conn[c] \notin {"queued", "handling", "buffered"}
      BY <2>1, <2>2, <3>1 DEF ConnInv
    <3>3. QED
      BY <3>2 DEF In
  <2>3. Cardinality(In({"accepted"})) <= 1
    <3>1. \A c, d \in In({"accepted"}) : c = d
      BY <2>1 DEF ConnInv, In
    <3>2. CASE In({"accepted"}) = {}
      BY <3>2, FS_EmptySet
    <3>3. CASE In({"accepted"}) # {}
      <4>1. PICK c : In({"accepted"}) = {c}
        BY <3>1, <3>3
      <4>2. QED
        BY <4>1, FS_Singleton
    <3>4. QED
      BY <3>2, <3>3
  <2>4. QED
    BY <2>1, <2>2, <2>3 DEF ShutdownLosesOneAtMost
<1>2. QED
  BY <1>1, ServerAlways, PTL

-----------------------------------------------------------------------------
(* The pool as it is used. *)

Running == In({"handling", "buffered"})
Done == In({"closed"})
Status == IF pool = "absent" THEN "open" ELSE pool

\* The instance's own copies of Cardinality and Range are the library's.
LEMMA PoolCopies ==
  ASSUME NEW S
  PROVE  Pool!Cardinality(S) = Cardinality(S) /\ Pool!Range(S) = Range(S)
<1>1. Pool!Cardinality(S) = Cardinality(S)
  BY DEF Cardinality, Pool!Cardinality
<1>2. Pool!Range(S) = Range(S)
  BY DEF Range, Pool!Range
<1>3. QED
  BY <1>1, <1>2

\* Initially nothing was queued.
LEMMA PoolInit == Init => Pool!Init
  BY DEF Init, Pool!Init, In

\* A connection the pool knows is queued, in a handler's hands or closed.
LEMMA KnownToPool ==
  ASSUME ConnInv, NEW c \in Clients, c \in Pool!Accepted
  PROVE  conn[c] \in {"queued", "handling", "buffered", "closed"}
  BY PoolCopies DEF Pool!Accepted, ConnInv, In

\* What the pool sees of a step that moves no connection and does not close it.
LEMMA PoolStutter ==
  ASSUME UNCHANGED <<line, conn, Status>>
  PROVE  UNCHANGED Pool!poolVars
  BY DEF Pool!poolVars, Status, In

\* A step of the server is one JobPool allows its owner and its threads, or one
\* the pool does not see.
LEMMA PoolStep == ServerInv /\ [Next]_vars => [Pool!Next]_(Pool!poolVars)
<1> SUFFICES ASSUME ServerInv, [Next]_vars
             PROVE  Pool!Next \/ UNCHANGED Pool!poolVars
  BY DEF Pool!poolVars
<1>0. TypeOK /\ ThreadsInv /\ ConnInv
  BY DEF ServerInv
<1>1. CASE CreatePool
  BY <1>0, <1>1, PoolStutter DEF CreatePool, ThreadsInv, Status
<1>2. CASE StartPool
  <2>1. UNCHANGED <<line, conn>> /\ ~Serving /\ pool # "absent"
    BY <1>0, <1>2 DEF StartPool, ThreadsInv, Serving
  <2>2. CASE pool' = pool
    BY <2>1, <2>2, PoolStutter DEF Status
  <2>3. CASE pool' # pool
    <3>1. pool = "open" /\ pool' = "broken"
      BY <1>2, <2>3 DEF StartPool
    <3>2. line = <<>> /\ Range(line) = {} /\ Running = {} /\ Done = {}
      BY <1>0, <2>1 DEF ConnInv, Range, In, Running, Done
    <3>3. Pool!Accepted = {}
      BY <3>2, PoolCopies DEF Pool!Accepted, Running, Done
    <3>4. Pool!Break
      BY <2>1, <3>1, <3>3 DEF Pool!Break, In
    <3>5. QED
      BY <3>4 DEF Pool!Next
  <2>4. QED
    BY <2>2, <2>3
<1>3. CASE SocketFails \/ Bind \/ GoToFail \/ Listen \/ TakeSignal
           \/ LockWithoutPool \/ Unlink \/ Exit
  <2>1. UNCHANGED <<line, conn, pool>>
    BY <1>3 DEF SocketFails, Bind, GoToFail, Listen, TakeSignal, LockWithoutPool,
                Unlink, Exit, ends
  <2>2. QED
    BY <2>1, PoolStutter DEF Status
<1>4. CASE FailFinish \/ LockAndFinish
  <2>1. UNCHANGED <<line, conn>> /\ pool # "absent"
        /\ pool' = (IF pool = "open" THEN "closed" ELSE pool)
    BY <1>0, <1>4 DEF FailFinish, LockAndFinish, ThreadsInv
  <2>2. CASE pool = "open"
    <3>1. Pool!Close
      BY <2>1, <2>2 DEF Pool!Close, In
    <3>2. QED
      BY <3>1 DEF Pool!Next
  <2>3. CASE pool # "open"
    BY <2>1, <2>3, PoolStutter DEF Status
  <2>4. QED
    BY <2>2, <2>3
<1>5. CASE FailReturn \/ FinishReturns
  <2>1. /\ UNCHANGED <<line, conn>>
        /\ pool' = (IF pool = "closed" THEN "returned" ELSE pool)
        /\ pool = "closed" => Drained
    BY <1>5 DEF FailReturn, FinishReturns
  <2>2. CASE pool = "closed"
    <3>1. Pool!Return
      BY <2>1, <2>2 DEF Pool!Return, In, Drained
    <3>2. QED
      BY <3>1 DEF Pool!Next
  <2>3. CASE pool # "closed"
    BY <2>1, <2>3, PoolStutter DEF Status
  <2>4. QED
    BY <2>2, <2>3
<1>6. ASSUME NEW c \in Clients, Queue(c) PROVE Pool!Next
  <2>1. /\ line' = Append(line, c) /\ conn[c] = "accepted" /\ UNCHANGED pool
        /\ pool \in {"open", "broken"}
        /\ \A d \in Clients : conn'[d] = IF d = c THEN "queued" ELSE conn[d]
    BY <1>0, <1>6 DEF Queue, TypeOK, ThreadsInv
  <2>2. c \notin Pool!Accepted
    BY <1>0, <2>1, KnownToPool
  <2>3. Running' = Running /\ Done' = Done
    BY <2>1 DEF Running, Done, In
  <2>4. Pool!Submit(c)
    BY <2>1, <2>2, <2>3 DEF Pool!Submit, Running, Done
  <2>5. QED
    BY <2>4 DEF Pool!Next
<1>7. CASE Take
  <2> DEFINE h == Head(line)
  <2>1. /\ line \in Seq(Clients) /\ line # <<>> /\ line' = Tail(line)
        /\ UNCHANGED pool /\ pool \in {"open", "closed"}
        /\ Cardinality(Running) < NumWorkers
        /\ conn' = [conn EXCEPT ![h] = "handling"]
    BY <1>0, <1>7 DEF Take, TypeOK, Running
  <2>2. h \in Clients /\ h \in Range(line)
    BY <2>1, RangeOfTail
  <2>3. /\ conn[h] = "queued"
        /\ \A d \in Clients : conn'[d] = IF d = h THEN "handling" ELSE conn[d]
    BY <1>0, <2>1, <2>2 DEF TypeOK, ConnInv
  <2>4. Running' = Running \cup {h} /\ Done' = Done
    BY <2>2, <2>3 DEF Running, Done, In
  <2>5. Pool!Begin
    BY <2>1, <2>4, PoolCopies DEF Pool!Begin, Running, Done
  <2>6. QED
    BY <2>5 DEF Pool!Next
<1>8. ASSUME NEW c \in Clients, Deliver(c) PROVE Pool!Next
  <2>1. /\ conn[c] = "buffered" /\ UNCHANGED <<line, pool>>
        /\ \A d \in Clients : conn'[d] = IF d = c THEN "closed" ELSE conn[d]
    BY <1>0, <1>8 DEF Deliver, TypeOK
  <2>2. c \in Running /\ Running' = Running \ {c} /\ Done' = Done \cup {c}
    BY <2>1 DEF Running, Done, In
  <2>3. Pool!End(c)
    BY <2>1, <2>2 DEF Pool!End, Running, Done
  <2>4. QED
    BY <2>3 DEF Pool!Next
<1>9. ASSUME NEW c \in Clients,
             Accept(c) \/ Connect(c) \/ Send(c) \/ Respond(c) \/ Throw(c)
      PROVE  UNCHANGED Pool!poolVars
  <2>1. UNCHANGED <<line, pool>>
    BY <1>9 DEF Accept, Connect, Send, Respond, Throw
  <2>2. \A d \in Clients :
          \/ conn'[d] = conn[d]
          \/ conn[d] = "handling" /\ conn'[d] = "buffered"
          \/ {conn[d], conn'[d]} \subseteq {"idle", "connected", "accepted"}
    BY <1>0, <1>9 DEF Accept, Connect, Send, Respond, Throw, TypeOK
  <2>3. Running' = Running /\ Done' = Done
    BY <2>2 DEF Running, Done, In
  <2>4. QED
    BY <2>1, <2>3 DEF Pool!poolVars, Running, Done
<1>10. CASE UNCHANGED vars
  BY <1>10, PoolStutter DEF vars, Status
<1>11. QED
  BY <1>1, <1>2, <1>3, <1>4, <1>5, <1>6, <1>7, <1>8, <1>9, <1>10
  DEF Next, Main, Signal, Handler

\* The two threads, one of which often goes without worker_mutex, use the pool
\* as JobPool allows; and once connections are accepted there is no race on the
\* pool and no use of it after delete.
THEOREM PoolUsedAsPromised == Spec => SafeOnceAccepting
<1>1. Spec => Pool!Spec
  BY ServerAlways, PoolInit, PoolStep, PTL DEF Spec, Pool!Spec
<1>2. [Next]_vars => [(Serving => misuse' = misuse)]_vars
  <2> SUFFICES ASSUME Next, Serving PROVE misuse' = misuse
    OBVIOUS
  <2>1. ASSUME NEW c \in Clients,
               Accept(c) \/ Queue(c) \/ Handler(c) \/ Connect(c) \/ Send(c)
        PROVE  misuse' = misuse
    BY <2>1 DEF Accept, Queue, Handler, Respond, Throw, Deliver, Connect, Send, ends
  <2>2. CASE TakeSignal \/ Signal \/ Take
    BY <2>2 DEF Serving, TakeSignal, Signal, LockWithoutPool, LockAndFinish,
                FinishReturns, Unlink, Exit, Take, ends
  <2>3. ~(CreatePool \/ StartPool \/ SocketFails \/ Bind \/ GoToFail \/ Listen
          \/ FailFinish \/ FailReturn)
    BY DEF Serving, CreatePool, StartPool, SocketFails, Bind, GoToFail, Listen,
           FailFinish, FailReturn
  <2>4. QED
    BY <2>1, <2>2, <2>3 DEF Next, Main
<1>3. Spec => [][Serving => misuse' = misuse]_vars
  BY <1>2, PTL DEF Spec
<1>4. QED
  BY <1>1, <1>3 DEF SafeOnceAccepting, Serving

-----------------------------------------------------------------------------
(* The socket file.  Main creates it on its way to accept(), the signal    *)
(* thread removes it, and neither looks at where the other is.             *)

\* From bind() on the file is there, until unlink() removes it.
FileInv ==
  /\ main \in {"bound", "accept", "holding"} /\ signal # "unlinked" => sockFile
  /\ process = "ended" => signal = "unlinked"

\* A server that serves is past the one bind() that could create the file again.
FileGone == Serving /\ (signal = "unlinked" => ~sockFile)

\* Main has bound nothing yet, whatever an earlier process has left behind.
LEMMA FileInit == Init => FileInv
  BY DEF Init, FileInv

\* bind() and unlink() are the only steps that touch the file.
LEMMA FileStep == FileInv /\ [Next]_vars => FileInv'
<1> SUFFICES ASSUME FileInv, [Next]_vars PROVE FileInv'
  OBVIOUS
<1> USE DEF FileInv, ends
<1>1. CASE CreatePool \/ StartPool \/ SocketFails \/ Bind \/ GoToFail \/ Listen
  BY <1>1 DEF CreatePool, StartPool, SocketFails, Bind, GoToFail, Listen, Misuse, Next
<1>2. CASE FailFinish \/ FailReturn
  BY <1>2 DEF FailFinish, FailReturn, Misuse, Next
<1>3. ASSUME NEW c \in Clients,
             Accept(c) \/ Queue(c) \/ Connect(c) \/ Send(c) \/ Handler(c)
      PROVE  FileInv'
  BY <1>3 DEF Accept, Queue, Connect, Send, Handler, Respond, Throw, Deliver
<1>4. CASE TakeSignal \/ LockWithoutPool \/ Unlink \/ Exit
  BY <1>4 DEF TakeSignal, LockWithoutPool, Unlink, Exit
<1>5. CASE LockAndFinish \/ FinishReturns
  BY <1>5 DEF LockAndFinish, FinishReturns, Misuse, Next
<1>6. CASE Take
  BY <1>6 DEF Take
<1>7. CASE UNCHANGED vars
  BY <1>7 DEF vars
<1>8. QED
  BY <1>1, <1>2, <1>3, <1>4, <1>5, <1>6, <1>7 DEF Next, Main, Signal

\* Main never leaves its accept() loop, and no step of the loop creates a file.
LEMMA GoneStep == FileGone /\ [Next]_vars => FileGone'
<1> SUFFICES ASSUME FileGone, [Next]_vars PROVE FileGone'
  OBVIOUS
<1> USE DEF FileGone, Serving, ends
<1>1. ~(CreatePool \/ StartPool \/ SocketFails \/ Bind \/ GoToFail \/ Listen
        \/ FailFinish \/ FailReturn)
  BY DEF CreatePool, StartPool, SocketFails, Bind, GoToFail, Listen, FailFinish,
         FailReturn
<1>2. ASSUME NEW c \in Clients,
             Accept(c) \/ Queue(c) \/ Connect(c) \/ Send(c) \/ Handler(c)
      PROVE  FileGone'
  BY <1>2 DEF Accept, Queue, Connect, Send, Handler, Respond, Throw, Deliver
<1>3. CASE TakeSignal \/ LockWithoutPool \/ Unlink \/ Exit
  BY <1>3 DEF TakeSignal, LockWithoutPool, Unlink, Exit
<1>4. CASE LockAndFinish \/ FinishReturns
  BY <1>4 DEF LockAndFinish, FinishReturns
<1>5. CASE Take
  BY <1>5 DEF Take
<1>6. CASE UNCHANGED vars
  BY <1>6 DEF vars
<1>7. QED
  BY <1>1, <1>2, <1>3, <1>4, <1>5, <1>6 DEF Next, Main, Signal

\* A server that served before SIGUSR1 was handled had its socket file then,
\* and has it no more when the process has ended.
THEOREM FileFollowsServer == Spec => SocketFileFollowsServer
<1> DEFINE Unsignalled == Serving /\ MutexFree
<1>1. FileInv /\ Unsignalled => sockFile /\ FileGone
  BY DEF FileInv, FileGone, Serving, MutexFree
<1>2. FileInv /\ FileGone => (process = "ended" => ~sockFile)
  BY DEF FileInv, FileGone
<1>3. Spec => [](Unsignalled => sockFile /\ [](process = "ended" => ~sockFile))
  <2> HIDE DEF Unsignalled
  <2>1. QED
    BY <1>1, <1>2, FileInit, FileStep, GoneStep, PTL DEF Spec
<1>4. QED
  BY <1>3, PTL DEF SocketFileFollowsServer, Serving
=============================================================================
