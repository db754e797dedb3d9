------------------------ MODULE ThreadedWorkerProofs ------------------------
(***************************************************************************)
(* Proofs about ThreadedWorker, for every set of jobs and every number of  *)
(* workers: type correctness, that no interleaving loses or duplicates a   *)
(* job, and that finish() returns from a drained pool only.                *)
(***************************************************************************)
EXTENDS ThreadedWorker, SequenceTheorems, FiniteSetTheorems, TLAPS

-----------------------------------------------------------------------------
(* The line of the pool: what is in it after a push, and after front() and *)
(* pop(), and that nothing comes to be in it twice.                        *)

LEMMA RangeOfAppend ==
  ASSUME NEW S, NEW s \in Seq(S), NEW x \in S
  PROVE  Range(Append(s, x)) = Range(s) \cup {x}
<1>1. \A i \in 1..Len(s) : i \in DOMAIN Append(s, x) /\ Append(s, x)[i] = s[i]  OBVIOUS
<1>2. Len(s) + 1 \in DOMAIN Append(s, x) /\ Append(s, x)[Len(s) + 1] = x  OBVIOUS
<1> QED  BY <1>1, <1>2 DEF Range

LEMMA RangeOfTail ==
  ASSUME NEW S, NEW s \in Seq(S), s # <<>>
  PROVE  /\ Head(s) \in S /\ Tail(s) \in Seq(S)
         /\ Range(s) = {Head(s)} \cup Range(Tail(s))
<1>1. /\ Len(s) \in Nat \ {0} /\ DOMAIN s = 1..Len(s) /\ DOMAIN Tail(s) = 1..(Len(s) - 1)
      /\ Head(s) = s[1] /\ \A i \in 1..(Len(s) - 1) : Tail(s)[i] = s[i + 1]
  OBVIOUS
<1>2. \A i \in DOMAIN s : i = 1 \/ (i - 1 \in DOMAIN Tail(s) /\ Tail(s)[i - 1] = s[i])  BY <1>1
<1>3. 1 \in DOMAIN s /\ \A i \in DOMAIN Tail(s) : i + 1 \in DOMAIN s  BY <1>1
<1>4. Range(s) \subseteq {Head(s)} \cup Range(Tail(s))  BY <1>1, <1>2 DEF Range
<1>5. {Head(s)} \cup Range(Tail(s)) \subseteq Range(s)  BY <1>1, <1>3 DEF Range
<1> QED  BY <1>1, <1>4, <1>5

Distinct(s) == \A i, k \in DOMAIN s : s[i] = s[k] => i = k

LEMMA DistinctAppend ==
  ASSUME NEW S, NEW s \in Seq(S), NEW x \in S, Distinct(s), x \notin Range(s)
  PROVE  Distinct(Append(s, x))
  BY DEF Distinct, Range

LEMMA DistinctTail ==
  ASSUME NEW S, NEW s \in Seq(S), s # <<>>, Distinct(s)
  PROVE  Distinct(Tail(s)) /\ Head(s) \notin Range(Tail(s))
  BY DEF Distinct, Range

-----------------------------------------------------------------------------
(* Where the owner is, what start() returned, and which threads exist.  A   *)
(* thread ends only once finished_ is set and, in a pool that was started,  *)
(* when nothing is queued; nothing is queued into such a pool afterwards.   *)

OwnerInv ==
  /\ owner = "starting" => started = "pending" /\ ~finished
  /\ owner \in {"notify", "join", "done"} => finished
  /\ owner = "running" => started # "pending" /\ (started = "yes" => ~finished)
  /\ owner = "done" => started # "pending"
  /\ owner = "join" => next <= threads
  /\ started = "pending" => submitted = <<>> /\ queue = <<>> /\ handled = {}
  /\ started = "yes" /\ owner # "done" => threads = NumWorkers
  /\ started = "no" => threads = 0

ThreadInv ==
  /\ started = "pending" =>
       \A w \in Workers : /\ w > threads <=> pc[w] = "absent"
                          /\ pc[w] # "handling"
  /\ started = "yes" => \A w \in Workers : pc[w] # "absent"
  /\ started = "no" => \A w \in Workers : pc[w] \in {"absent", "exited"}
  /\ \A w \in Workers :
       pc[w] = "exited" => finished /\ (started # "no" => queue = <<>>)
  /\ owner \in {"notify", "join"} =>
       \A w \in Workers : w < next => pc[w] \in {"absent", "exited"}
  /\ owner = "done" => \A w \in Workers : pc[w] \in {"absent", "exited"}
  /\ \A w \in Workers : pc[w] = "handling" => job[w] \in Jobs

ControlInv == TypeOK /\ OwnerInv /\ ThreadInv

\* With no thread created the control invariant holds.
LEMMA ControlInit == Init => ControlInv
<1> SUFFICES ASSUME Init PROVE ControlInv
  OBVIOUS
<1> USE NumWorkersAssumption DEF Init, Workers
<1>1. TypeOK
  <2>1. <<>> \in Seq(Jobs) /\ {} \subseteq Jobs
    BY EmptySeq
  <2>2. queue \in Seq(Jobs) /\ submitted \in Seq(Jobs) /\ handled \subseteq Jobs
    BY <2>1
  <2>3. /\ job \in [Workers -> Jobs \cup {NoJob}]
        /\ pc \in [Workers -> {"absent", "fetch", "gap", "waiting", "handling",
                               "exited"}]
    OBVIOUS
  <2>4. threads \in 0..NumWorkers /\ next \in 1..(NumWorkers + 1)
    OBVIOUS
  <2>5. /\ owner \in {"starting", "running", "notify", "join", "done"}
        /\ started \in {"pending", "yes", "no"} /\ finished \in BOOLEAN
    OBVIOUS
  <2>6. QED
    BY <2>2, <2>3, <2>4, <2>5, Zenon DEF TypeOK
<1>2. OwnerInv
  BY DEF OwnerInv
<1>3. ThreadInv
  BY DEF ThreadInv
<1>4. QED
  BY <1>1, <1>2, <1>3 DEF ControlInv

\* Every step of the owner and of a worker keeps the control invariant.
LEMMA ControlStep == ControlInv /\ [Next]_vars => ControlInv'
<1> SUFFICES ASSUME ControlInv, [Next]_vars PROVE ControlInv'
  OBVIOUS
<1> USE NumWorkersAssumption
    DEF ControlInv, TypeOK, OwnerInv, ThreadInv, Workers, ownerVars, jobVars
<1>1. CASE StartThread
  BY <1>1 DEF StartThread
<1>2. CASE StartReturn
  BY <1>2 DEF StartReturn
<1>3. CASE StartFails
  BY <1>3 DEF StartFails, BeginFinish
<1>4. CASE Finish
  BY <1>4 DEF Finish, BeginFinish
<1>5. CASE NotifyAll
  BY <1>5 DEF NotifyAll
<1>6. CASE Join
  BY <1>6 DEF Join
<1>7. CASE FinishReturn
  BY <1>7 DEF FinishReturn
<1>8. ASSUME NEW j \in Jobs, QueueJob(j) PROVE ControlInv'
  BY <1>8 DEF QueueJob
<1>9. ASSUME NEW w \in Workers, TakeJob(w) PROVE ControlInv'
  BY <1>9, RangeOfTail DEF TakeJob
<1>10. ASSUME NEW w \in Workers, Terminate(w) PROVE ControlInv'
  BY <1>10 DEF Terminate
<1>11. ASSUME NEW w \in Workers, FindEmpty(w) PROVE ControlInv'
  BY <1>11 DEF FindEmpty
<1>12. ASSUME NEW w \in Workers, Wait(w) PROVE ControlInv'
  BY <1>12 DEF Wait
<1>13. ASSUME NEW w \in Workers, WakeSpuriously(w) PROVE ControlInv'
  BY <1>13 DEF WakeSpuriously
<1>14. ASSUME NEW w \in Workers, Handle(w) PROVE ControlInv'
  BY <1>14 DEF Handle
<1>15. CASE UNCHANGED vars
  BY <1>15 DEF vars
<1>16. QED
  BY <1>1, <1>2, <1>3, <1>4, <1>5, <1>6, <1>7, <1>8, <1>9, <1>10, <1>11,
     <1>12, <1>13, <1>14, <1>15 DEF Next, Finishing, Worker

\* The variables of the pool keep their types.
THEOREM TypeCorrect == Spec => []TypeOK
<1>1. ControlInv => TypeOK
  BY DEF ControlInv
<1>2. QED
  BY <1>1, ControlInit, ControlStep, PTL DEF Spec

-----------------------------------------------------------------------------
(* Where the jobs are. *)

\* Each step keeps every job in one place; only queue_job, front() with pop(),
\* and the return of a handler move one.
LEMMA PlaceStep ==
  ControlInv /\ EachJobInOnePlace /\ [Next]_vars => EachJobInOnePlace'
<1> SUFFICES ASSUME ControlInv, EachJobInOnePlace, [Next]_vars
             PROVE  EachJobInOnePlace'
  OBVIOUS
<1> DEFINE held == {job[w] : w \in Busy}
<1>0. /\ queue \in Seq(Jobs) /\ submitted \in Seq(Jobs)
      /\ pc \in [Workers -> {"absent", "fetch", "gap", "waiting", "handling",
                             "exited"}]
      /\ job \in [Workers -> Jobs \cup {NoJob}]
      /\ \A w \in Busy : w \in Workers /\ job[w] \in Jobs
  BY DEF ControlInv, TypeOK, ThreadInv, Busy
<1>1. /\ Range(submitted) = Range(queue) \cup held \cup handled
      /\ Range(queue) \cap (held \cup handled) = {}
      /\ held \cap handled = {}
      /\ Distinct(queue)
      /\ \A v, w \in Busy : job[v] = job[w] => v = w
  BY DEF EachJobInOnePlace, Distinct
<1>2. ASSUME UNCHANGED jobVars, Busy' = Busy PROVE EachJobInOnePlace'
  BY <1>1, <1>2 DEF EachJobInOnePlace, Distinct, jobVars
<1>3. CASE StartThread
  <2>1. Busy' = Busy
    BY <1>0, <1>3, NumWorkersAssumption
    DEF StartThread, Busy, ControlInv, OwnerInv, ThreadInv, TypeOK, Workers
  <2>2. QED
    BY <1>2, <1>3, <2>1 DEF StartThread
<1>4. CASE StartReturn \/ StartFails \/ Finish \/ Join \/ FinishReturn
  <2>1. UNCHANGED <<jobVars, pc>>
    BY <1>4 DEF StartReturn, StartFails, Finish, BeginFinish, Join, FinishReturn
  <2>2. QED
    BY <1>2, <2>1 DEF Busy
<1>5. CASE NotifyAll
  <2>1. Busy' = Busy
    BY <1>0, <1>5 DEF NotifyAll, Busy
  <2>2. QED
    BY <1>2, <1>5, <2>1 DEF NotifyAll
<1>6. ASSUME NEW w \in Workers,
             Terminate(w) \/ FindEmpty(w) \/ Wait(w) \/ WakeSpuriously(w)
      PROVE  EachJobInOnePlace'
  <2>1. Busy' = Busy
    BY <1>0, <1>6 DEF Terminate, FindEmpty, Wait, WakeSpuriously, Busy
  <2>2. QED
    BY <1>2, <1>6, <2>1 DEF Terminate, FindEmpty, Wait, WakeSpuriously
<1>7. ASSUME NEW j \in Jobs, QueueJob(j) PROVE EachJobInOnePlace'
  <2>1. Busy' = Busy /\ job' = job /\ handled' = handled
    BY <1>0, <1>7 DEF QueueJob, Busy
  <2>2. j \notin Range(submitted) /\ j \notin Range(queue)
    BY <1>1, <1>7 DEF QueueJob
  <2>3. /\ Range(queue') = Range(queue) \cup {j}
        /\ Range(submitted') = Range(submitted) \cup {j}
    BY <1>0, <1>7, RangeOfAppend DEF QueueJob
  <2>4. Distinct(queue')
    BY <1>0, <1>1, <1>7, <2>2, DistinctAppend DEF QueueJob
  <2>5. held' = held
    BY <2>1
  <2>6. QED
    BY <1>1, <2>1, <2>2, <2>3, <2>4, <2>5 DEF EachJobInOnePlace, Distinct
<1>8. ASSUME NEW w \in Workers, TakeJob(w) PROVE EachJobInOnePlace'
  <2> DEFINE j == Head(queue)
  <2>1. /\ j \in Jobs /\ Range(queue) = {j} \cup Range(queue')
        /\ Distinct(queue') /\ j \notin Range(queue')
    BY <1>0, <1>1, <1>8, RangeOfTail, DistinctTail DEF TakeJob
  <2>2. /\ Busy' = Busy \cup {w} /\ w \notin Busy
        /\ job' = [job EXCEPT ![w] = j]
        /\ handled' = handled /\ submitted' = submitted
    BY <1>0, <1>8 DEF TakeJob, Busy
  <2>3. job'[w] = j /\ \A v \in Busy : job'[v] = job[v]
    BY <1>0, <2>2
  <2>4. held' = held \cup {j}
    BY <2>2, <2>3
  <2>5. j \notin held /\ j \notin handled
    BY <1>1, <2>1
  <2>6. \A v, u \in Busy' : job'[v] = job'[u] => v = u
    BY <1>1, <2>2, <2>3, <2>5
  <2>7. QED
    BY <1>1, <2>1, <2>2, <2>4, <2>5, <2>6 DEF EachJobInOnePlace, Distinct
<1>9. ASSUME NEW w \in Workers, Handle(w) PROVE EachJobInOnePlace'
  <2>1. /\ Busy' = Busy \ {w} /\ w \in Busy
        /\ job' = [job EXCEPT ![w] = NoJob]
        /\ handled' = handled \cup {job[w]}
        /\ submitted' = submitted /\ queue' = queue
    BY <1>0, <1>9 DEF Handle, Busy
  <2>2. \A v \in Busy \ {w} : job'[v] = job[v] /\ job[v] # job[w]
    BY <1>0, <1>1, <2>1
  <2>3. held = held' \cup {job[w]} /\ job[w] \notin held'
    BY <2>1, <2>2
  <2>4. QED
    BY <1>1, <2>1, <2>2, <2>3 DEF EachJobInOnePlace, Distinct
<1>10. CASE UNCHANGED vars
  BY <1>2, <1>10 DEF vars, jobVars, Busy
<1>11. QED
  BY <1>3, <1>4, <1>5, <1>6, <1>7, <1>8, <1>9, <1>10
  DEF Next, Finishing, Worker

\* No job has been queued.
LEMMA PlaceInit == Init => EachJobInOnePlace
  BY EmptySeq DEF Init, EachJobInOnePlace, Busy, Range

\* No interleaving of queue_job and fetch_job_block loses a job or gives it to
\* two workers.
THEOREM JobsConserved == Spec => []EachJobInOnePlace
  BY ControlInit, ControlStep, PlaceInit, PlaceStep, PTL DEF Spec

-----------------------------------------------------------------------------
(* What the owner may rely on when finish() has returned. *)

\* With every thread gone after a start that succeeded, no job is left anywhere.
LEMMA DrainedFromInv ==
  ControlInv /\ EachJobInOnePlace => DrainedOnReturn
<1> SUFFICES ASSUME ControlInv, EachJobInOnePlace,
                    owner = "done", started = "yes", NumWorkers > 0
             PROVE  /\ handled = Range(submitted)
                    /\ \A w \in Workers : pc[w] = "exited"
  BY DEF DrainedOnReturn
<1>1. \A w \in Workers : pc[w] = "exited"
  BY DEF ControlInv, ThreadInv
<1>2. 1 \in Workers
  BY NumWorkersAssumption DEF Workers
<1>3. queue = <<>> /\ Busy = {}
  BY <1>1, <1>2 DEF ControlInv, ThreadInv, Busy
<1>4. QED
  BY <1>1, <1>3 DEF EachJobInOnePlace, Range

\* finish() returns to the owner of a started pool only when every job queued
\* has been handled and every thread has ended.
THEOREM DrainedWhenFinishReturns == Spec => []DrainedOnReturn
  BY ControlInit, ControlStep, PlaceInit, PlaceStep, DrainedFromInv, PTL
  DEF Spec

\* A pool whose start() failed handles nothing.  That handled is empty needs no
\* more than this: no worker handles a job while or after start() fails.
LEMMA FailedStep ==
  ControlInv /\ FailedStartRunsNothing /\ [Next]_vars => FailedStartRunsNothing'
<1> SUFFICES ASSUME ControlInv, FailedStartRunsNothing, [Next]_vars, started' = "no"
             PROVE  handled' = {}
  BY ControlStep DEF ControlInv, ThreadInv, FailedStartRunsNothing
<1>1. CASE started = "no"
  <2>1. handled = {} /\ \A w \in Workers : pc[w] \in {"absent", "exited"}
    BY <1>1 DEF FailedStartRunsNothing
  <2>2. QED
    BY <2>1 DEF Next, vars, StartThread, StartReturn, StartFails, Finish,
       BeginFinish, Finishing, NotifyAll, Join, FinishReturn, QueueJob, Worker,
       TakeJob, Terminate, FindEmpty, Wait, WakeSpuriously, Handle, jobVars
<1>2. CASE started # "no"
  <2>1. FinishReturn /\ started = "pending"
    BY <1>2 DEF Next, vars, StartThread, StartReturn, StartFails, Finish,
       BeginFinish, Finishing, NotifyAll, Join, FinishReturn, QueueJob, Worker,
       TakeJob, Terminate, FindEmpty, Wait, WakeSpuriously, Handle, ownerVars
  <2>2. QED
    BY <2>1 DEF FinishReturn, ControlInv, OwnerInv, jobVars
<1>3. QED
  BY <1>1, <1>2

\* Whatever is queued into a pool whose start() returned false is never run.
THEOREM NothingRunsAfterFailedStart == Spec => []FailedStartRunsNothing
<1>1. Init => FailedStartRunsNothing
  BY DEF Init, FailedStartRunsNothing
<1>2. QED
  BY <1>1, ControlInit, ControlStep, FailedStep, PTL DEF Spec

-----------------------------------------------------------------------------
(* threaded_worker implements the abstract pool. *)

\* A worker that fetches is not busy: fewer than NumWorkers handlers run.
LEMMA RoomForAnother ==
  ASSUME TypeOK, NEW w \in Workers, w \notin Busy
  PROVE  Cardinality({job[v] : v \in Busy}) < NumWorkers
<1> DEFINE img == {job[v] : v \in Busy}
<1>1. IsFiniteSet(Workers) /\ Cardinality(Workers) = NumWorkers
  BY FS_Interval, NumWorkersAssumption DEF Workers
<1>2. /\ IsFiniteSet(Workers \ {w})
      /\ Cardinality(Workers \ {w}) = NumWorkers - 1
  BY <1>1, FS_RemoveElement
<1>3. Busy \in SUBSET (Workers \ {w})
  BY DEF Busy
<1>4. IsFiniteSet(Busy) /\ Cardinality(Busy) <= NumWorkers - 1
      /\ Cardinality(Busy) \in Nat
  BY <1>2, <1>3, FS_Subset, FS_CardinalityType
<1>5. [v \in Busy |-> job[v]] \in Surjection(Busy, img)
  BY DEF Surjection
<1>6. IsFiniteSet(img) /\ Cardinality(img) <= Cardinality(Busy)
  BY <1>4, <1>5, FS_Surjection DEF ExistsSurjection
<1>7. QED
  BY <1>4, <1>6, FS_CardinalityType, NumWorkersAssumption

\* The instance's own copy of Cardinality is Cardinality.
LEMMA PoolCardinality ==
  ASSUME NEW S PROVE Pool!Cardinality(S) = Cardinality(S)
  BY DEF Cardinality, Pool!Cardinality

\* Initially the abstract pool is open and empty.
LEMMA PoolInit == Init => Pool!Init
  BY DEF Init, Pool!Init, Busy, PoolStatus

\* What the abstract pool sees of a step that touches no job and no busy worker.
LEMMA PoolStutter ==
  ASSUME UNCHANGED <<jobVars, PoolStatus>>, Busy' = Busy
  PROVE  UNCHANGED Pool!poolVars
  BY DEF Pool!poolVars, jobVars

\* Every step of the pool is a step of JobPool, or changes nothing JobPool sees.
LEMMA PoolStep ==
  ControlInv /\ EachJobInOnePlace /\ [Next]_vars => [Pool!Next]_(Pool!poolVars)
<1> SUFFICES ASSUME ControlInv, EachJobInOnePlace, [Next]_vars
             PROVE  Pool!Next \/ UNCHANGED Pool!poolVars
  BY DEF Pool!poolVars
<1>0. /\ TypeOK /\ OwnerInv /\ ThreadInv
      /\ pc \in [Workers -> {"absent", "fetch", "gap", "waiting", "handling",
                             "exited"}]
      /\ job \in [Workers -> Jobs \cup {NoJob}]
      /\ \A w \in Busy : w \in Workers /\ job[w] \in Jobs
  BY DEF ControlInv, TypeOK, ThreadInv, Busy
<1>1. CASE StartThread
  <2>1. Busy' = Busy
    BY <1>0, <1>1, NumWorkersAssumption
    DEF StartThread, Busy, OwnerInv, ThreadInv, TypeOK, Workers
  <2>2. QED
    BY <1>1, <2>1, PoolStutter DEF StartThread, PoolStatus
<1>2. CASE StartReturn
  <2>1. Busy' = Busy /\ UNCHANGED jobVars /\ started = "pending" /\ ~finished
        /\ owner' = "running" /\ started' = "yes" /\ finished' = finished
    BY <1>0, <1>2 DEF StartReturn, Busy, OwnerInv
  <2>2. queue = <<>> /\ handled = {} /\ Busy = {}
    BY <1>0, <2>1 DEF OwnerInv, ThreadInv, Busy
  <2>3. CASE NumWorkers = 0
    <3>1. Pool!Accepted = {} /\ PoolStatus = "open" /\ PoolStatus' = "broken"
      BY <2>1, <2>2, <2>3, <1>2 DEF Pool!Accepted, Pool!Range, PoolStatus, StartReturn
    <3>2. Pool!Break
      BY <2>1, <3>1 DEF Pool!Break, jobVars
    <3>3. QED
      BY <3>2 DEF Pool!Next
  <2>4. CASE NumWorkers # 0
    BY <1>2, <2>1, <2>4, PoolStutter DEF PoolStatus, StartReturn
  <2>5. QED
    BY <2>3, <2>4
<1>3. CASE StartFails
  <2>1. Busy' = Busy /\ UNCHANGED <<jobVars, started>> /\ started = "pending"
        /\ ~finished /\ finished' /\ owner = "starting"
    BY <1>0, <1>3 DEF StartFails, BeginFinish, Busy, OwnerInv
  <2>2. queue = <<>> /\ handled = {} /\ Busy = {}
    BY <1>0, <2>1 DEF OwnerInv, ThreadInv, Busy
  <2>3. Pool!Accepted = {} /\ PoolStatus = "open" /\ PoolStatus' = "broken"
    BY <2>1, <2>2 DEF Pool!Accepted, Pool!Range, PoolStatus
  <2>4. Pool!Break
    BY <2>1, <2>3 DEF Pool!Break, jobVars
  <2>5. QED
    BY <2>4 DEF Pool!Next
<1>4. CASE Finish
  <2>1. Busy' = Busy /\ UNCHANGED <<jobVars, started>> /\ started # "pending"
        /\ (started = "yes" => ~finished) /\ finished'
        /\ owner = "running" /\ owner' = "notify"
    BY <1>0, <1>4 DEF Finish, BeginFinish, Busy, OwnerInv
  <2>2. CASE started = "yes" /\ NumWorkers # 0
    <3>1. PoolStatus = "open" /\ PoolStatus' = "closed"
      BY <2>1, <2>2 DEF PoolStatus
    <3>2. Pool!Close
      BY <2>1, <3>1 DEF Pool!Close, jobVars
    <3>3. QED
      BY <3>2 DEF Pool!Next
  <2>3. CASE ~(started = "yes" /\ NumWorkers # 0)
    <3>1. PoolStatus' = PoolStatus
      BY <1>0, <2>1, <2>3 DEF PoolStatus, TypeOK
    <3>2. QED
      BY <2>1, <3>1, PoolStutter
  <2>4. QED
    BY <2>2, <2>3
<1>5. CASE NotifyAll \/ Join
  <2>1. Busy' = Busy /\ UNCHANGED <<jobVars, PoolStatus>>
    BY <1>0, <1>5 DEF NotifyAll, Join, Busy, PoolStatus
  <2>2. QED
    BY <2>1, PoolStutter
<1>6. CASE FinishReturn
  <2>1. Busy' = Busy /\ UNCHANGED <<jobVars, finished>> /\ finished
        /\ owner = "notify"
    BY <1>0, <1>6 DEF FinishReturn, Busy, OwnerInv
  <2>2. CASE started = "yes" /\ NumWorkers # 0
    <3>1. \A w \in Workers : pc[w] = "exited"
      BY <1>0, <1>6, <2>2, NumWorkersAssumption
      DEF FinishReturn, OwnerInv, ThreadInv, Workers, TypeOK
    <3>2. queue = <<>> /\ Busy = {}
      BY <1>0, <2>2, <3>1, NumWorkersAssumption DEF ThreadInv, Busy, Workers
    <3>3. PoolStatus = "closed" /\ PoolStatus' = "returned"
      BY <1>6, <2>1, <2>2 DEF PoolStatus, FinishReturn
    <3>4. Pool!Return
      BY <2>1, <3>2, <3>3 DEF Pool!Return, jobVars
    <3>5. QED
      BY <3>4 DEF Pool!Next
  <2>3. CASE ~(started = "yes" /\ NumWorkers # 0)
    <3>1. PoolStatus' = PoolStatus
      BY <1>0, <1>6, <2>1, <2>3 DEF PoolStatus, TypeOK, FinishReturn
    <3>2. QED
      BY <2>1, <3>1, PoolStutter
  <2>4. QED
    BY <2>2, <2>3
<1>7. ASSUME NEW j \in Jobs, QueueJob(j) PROVE Pool!Next
  <2>1. Busy' = Busy /\ UNCHANGED <<job, handled, PoolStatus>>
        /\ queue' = Append(queue, j)
    BY <1>0, <1>7 DEF QueueJob, Busy, PoolStatus, ownerVars
  <2>2. PoolStatus \in {"open", "broken"}
    BY <1>0, <1>7 DEF QueueJob, OwnerInv, PoolStatus, TypeOK
  <2>3. j \notin Pool!Accepted
    BY <1>7 DEF EachJobInOnePlace, Range, Pool!Accepted, Pool!Range, QueueJob
  <2>4. Pool!Submit(j)
    BY <2>1, <2>2, <2>3 DEF Pool!Submit
  <2>5. QED
    BY <2>4 DEF Pool!Next
<1>8. ASSUME NEW w \in Workers, TakeJob(w) PROVE Pool!Next
  <2>1. w \notin Busy /\ Busy' = Busy \cup {w} /\ queue # <<>>
        /\ queue' = Tail(queue) /\ job' = [job EXCEPT ![w] = Head(queue)]
        /\ UNCHANGED <<handled, PoolStatus>>
    BY <1>0, <1>8 DEF TakeJob, Busy, PoolStatus, ownerVars
  <2>2. job'[w] = Head(queue) /\ \A v \in Busy : job'[v] = job[v]
    BY <1>0, <2>1
  <2>3. {job'[v] : v \in Busy'} = {job[v] : v \in Busy} \cup {Head(queue)}
    BY <2>1, <2>2
  <2>4. Cardinality({job[v] : v \in Busy}) < NumWorkers
    BY <1>0, <2>1, RoomForAnother
  <2>5. started = "yes" /\ owner # "done" /\ NumWorkers # 0
    BY <1>0, <1>8, <2>1, NumWorkersAssumption
    DEF TakeJob, OwnerInv, ThreadInv, TypeOK, Workers
  <2>6. PoolStatus \in {"open", "closed"}
    BY <2>5 DEF PoolStatus
  <2>7. Pool!Begin
    BY <2>1, <2>3, <2>4, <2>6, PoolCardinality DEF Pool!Begin
  <2>8. QED
    BY <2>7 DEF Pool!Next
<1>9. ASSUME NEW w \in Workers,
             Terminate(w) \/ FindEmpty(w) \/ Wait(w) \/ WakeSpuriously(w)
      PROVE  UNCHANGED Pool!poolVars
  <2>1. Busy' = Busy /\ UNCHANGED <<jobVars, PoolStatus>>
    BY <1>0, <1>9
    DEF Terminate, FindEmpty, Wait, WakeSpuriously, Busy, PoolStatus, ownerVars
  <2>2. QED
    BY <2>1, PoolStutter
<1>10. ASSUME NEW w \in Workers, Handle(w) PROVE Pool!Next
  <2>1. /\ w \in Busy /\ Busy' = Busy \ {w}
        /\ job' = [job EXCEPT ![w] = NoJob]
        /\ handled' = handled \cup {job[w]}
        /\ UNCHANGED <<queue, PoolStatus>>
    BY <1>0, <1>10 DEF Handle, Busy, PoolStatus, ownerVars
  <2>2. \A v \in Busy \ {w} : job'[v] = job[v] /\ job[v] # job[w]
    BY <1>0, <2>1 DEF EachJobInOnePlace
  <2>3. {job'[v] : v \in Busy'} = {job[v] : v \in Busy} \ {job[w]}
    BY <2>1, <2>2
  <2>4. PICK j \in Jobs : j = job[w]
    BY <1>0, <2>1
  <2>5. Pool!End(j)
    BY <2>1, <2>3, <2>4 DEF Pool!End
  <2>6. QED
    BY <2>5 DEF Pool!Next
<1>11. CASE UNCHANGED vars
  <2>1. Busy' = Busy /\ UNCHANGED <<jobVars, PoolStatus>>
    BY <1>11 DEF vars, jobVars, Busy, PoolStatus
  <2>2. QED
    BY <2>1, PoolStutter
<1>12. QED
  BY <1>1, <1>2, <1>3, <1>4, <1>5, <1>6, <1>7, <1>8, <1>9, <1>10, <1>11
  DEF Next, Finishing, Worker

\* threaded_worker implements the abstract pool: every behaviour of the threads
\* and the condition variable is one of a FIFO line of jobs.
THEOREM WorkerImplementsPool == Spec => ImplementsJobPool
<1>1. Spec => [](ControlInv /\ EachJobInOnePlace)
  BY ControlInit, ControlStep, PlaceInit, PlaceStep, PTL DEF Spec
<1>2. QED
  BY <1>1, PoolInit, PoolStep, PTL DEF Spec, ImplementsJobPool, Pool!Spec
=============================================================================
