--------------------------- MODULE ThreadedWorker ---------------------------
(***************************************************************************)
(* threaded_worker<T> of src/utils/threaded_worker.hh: one owner thread    *)
(* that calls start(), queue_job() and finish(), and the n_workers threads *)
(* of the pool, at the granularity of the code's critical sections.  A     *)
(* worker that finds the queue empty unlocks queue_mtx, then locks         *)
(* signal_mtx and waits: between the two it is in the "gap", where a       *)
(* notification does not reach it.                                         *)
(***************************************************************************)
EXTENDS Naturals, Sequences, Functions

CONSTANTS Jobs,       \* the items handed to queue_job, all different
          NoJob,      \* not one of them
          NumWorkers  \* n_workers_; hardware_concurrency() may make it 0

ASSUME NumWorkersAssumption == NumWorkers \in Nat
ASSUME NoJobAssumption == NoJob \notin Jobs

Workers == 1..NumWorkers

VARIABLES
  owner,      \* where the owner is: "starting", "running", "notify", "join", "done"
  started,    \* what start() returned: "pending" until it returns, then "yes" or "no"
  threads,    \* workers_.size()
  next,       \* the position of finish()'s loop over workers_
  finished,   \* finished_
  queue,      \* job_queue_
  pc,         \* where each worker thread is
  job,        \* the item a worker passes to handler_
  submitted,  \* history: every job queued so far, in order
  handled     \* history: the jobs whose handler_ call has returned

ownerVars == <<owner, started, threads, next>>
jobVars == <<queue, job, submitted, handled>>
vars == <<owner, started, threads, next, finished, queue, pc, job, submitted,
          handled>>

Init ==
  /\ owner = "starting"
  /\ started = "pending"
  /\ threads = 0
  /\ next = 1
  /\ finished = FALSE
  /\ queue = <<>>
  /\ pc = [w \in Workers |-> "absent"]
  /\ job = [w \in Workers |-> NoJob]
  /\ submitted = <<>>
  /\ handled = {}

-----------------------------------------------------------------------------
(* The owner's thread. *)

\* Mutant: the loop of start() runs once too often.
StartThreadPastEnd ==
  /\ owner = "starting"
  /\ threads <= NumWorkers
  /\ threads' = threads + 1
  /\ pc' = [pc EXCEPT ![threads + 1] = "fetch"]
  /\ UNCHANGED <<owner, started, next, finished, jobVars>>

\* start() creates one more thread; it begins in fetch_job_block().
StartThread ==
  /\ owner = "starting"
  /\ threads < NumWorkers
  /\ threads' = threads + 1
  /\ pc' = [pc EXCEPT ![threads + 1] = "fetch"]
  /\ UNCHANGED <<owner, started, next, finished, jobVars>>

\* start() returns true: all n_workers_ threads were created.
StartReturn ==
  /\ owner = "starting"
  /\ threads = NumWorkers
  /\ owner' = "running"
  /\ started' = "yes"
  /\ UNCHANGED <<threads, next, finished, pc, jobVars>>

\* The first critical section of finish(): no worker may wait any more.
BeginFinish ==
  /\ finished' = TRUE
  /\ owner' = "notify"
  /\ next' = 1
  /\ UNCHANGED <<started, threads, pc, jobVars>>

\* std::thread throws system_error in start(): it calls finish() itself.
StartFails ==
  /\ owner = "starting"
  /\ threads < NumWorkers
  /\ BeginFinish

\* The owner calls finish().
Finish ==
  /\ owner = "running"
  /\ BeginFinish

\* queue_job(j): push under queue_mtx, then wake one waiting worker, if any.
QueueJob(j) ==
  LET waiting == {w \in Workers : pc[w] = "waiting"} IN
  /\ owner = "running"
  /\ j \notin Range(submitted)
  /\ queue' = Append(queue, j)
  /\ submitted' = Append(submitted, j)
  /\ \/ waiting = {} /\ UNCHANGED pc
     \/ \E w \in waiting : pc' = [pc EXCEPT ![w] = "fetch"]
  /\ UNCHANGED <<ownerVars, finished, job, handled>>

\* Mutant: finish() notifies one waiting worker, not all of them.
NotifyOne ==
  LET waiting == {w \in Workers : pc[w] = "waiting"} IN
  /\ owner = "notify"
  /\ next <= threads
  /\ owner' = "join"
  /\ \/ waiting = {} /\ UNCHANGED pc
     \/ \E w \in waiting : pc' = [pc EXCEPT ![w] = "fetch"]
  /\ UNCHANGED <<started, threads, next, finished, jobVars>>

\* finish(): notify_all wakes the workers that wait now, and no other.
NotifyAll ==
  /\ owner = "notify"
  /\ next <= threads
  /\ owner' = "join"
  /\ pc' = [w \in Workers |-> IF pc[w] = "waiting" THEN "fetch" ELSE pc[w]]
  /\ UNCHANGED <<started, threads, next, finished, jobVars>>

\* finish(): th->join() returns once that thread has ended.
Join ==
  /\ owner = "join"
  /\ pc[next] = "exited"
  /\ owner' = "notify"
  /\ next' = next + 1
  /\ UNCHANGED <<started, threads, finished, pc, jobVars>>

\* finish() clears workers_ and returns, to start() or to the owner.
FinishReturn ==
  /\ owner = "notify"
  /\ next > threads
  /\ threads' = 0
  /\ next' = 1
  /\ IF started = "pending"
     THEN owner' = "running" /\ started' = "no"
     ELSE owner' = "done" /\ UNCHANGED started
  /\ UNCHANGED <<finished, pc, jobVars>>

-----------------------------------------------------------------------------
(* The threads of the pool. *)

\* Mutant: the newest job is taken.
TakeNewestJob(w) ==
  /\ pc[w] = "fetch"
  /\ queue # <<>>
  /\ job' = [job EXCEPT ![w] = queue[Len(queue)]]
  /\ queue' = SubSeq(queue, 1, Len(queue) - 1)
  /\ pc' = [pc EXCEPT ![w] = "handling"]
  /\ UNCHANGED <<ownerVars, finished, submitted, handled>>

\* fetch_job_block(): take the oldest job.
TakeJob(w) ==
  /\ pc[w] = "fetch"
  /\ queue # <<>>
  /\ job' = [job EXCEPT ![w] = Head(queue)]
  /\ queue' = Tail(queue)
  /\ pc' = [pc EXCEPT ![w] = "handling"]
  /\ UNCHANGED <<ownerVars, finished, submitted, handled>>

\* Mutant: an empty queue ends the thread, finished_ or not.
TerminateWhenEmpty(w) ==
  /\ pc[w] = "fetch"
  /\ queue = <<>>
  /\ pc' = [pc EXCEPT ![w] = "exited"]
  /\ UNCHANGED <<ownerVars, finished, jobVars>>

\* fetch_job_block(): no job and finished_, so the thread ends.
Terminate(w) ==
  /\ pc[w] = "fetch"
  /\ queue = <<>>
  /\ finished
  /\ pc' = [pc EXCEPT ![w] = "exited"]
  /\ UNCHANGED <<ownerVars, finished, jobVars>>

\* fetch_job_block(): no job yet; queue_mtx is released.
FindEmpty(w) ==
  /\ pc[w] = "fetch"
  /\ queue = <<>>
  /\ ~finished
  /\ pc' = [pc EXCEPT ![w] = "gap"]
  /\ UNCHANGED <<ownerVars, finished, jobVars>>

\* fetch_job_block(): signal_mtx is taken and signal_cond_ waited on, with no
\* predicate: what happened since queue_mtx was released is not looked at.
Wait(w) ==
  /\ pc[w] = "gap"
  /\ pc' = [pc EXCEPT ![w] = "waiting"]
  /\ UNCHANGED <<ownerVars, finished, jobVars>>

\* std::condition_variable::wait may return with no notification.
WakeSpuriously(w) ==
  /\ pc[w] = "waiting"
  /\ pc' = [pc EXCEPT ![w] = "fetch"]
  /\ UNCHANGED <<ownerVars, finished, jobVars>>

\* handle_jobs_internal(): handler_ returns and the worker fetches again.
Handle(w) ==
  /\ pc[w] = "handling"
  /\ handled' = handled \cup {job[w]}
  /\ job' = [job EXCEPT ![w] = NoJob]
  /\ pc' = [pc EXCEPT ![w] = "fetch"]
  /\ UNCHANGED <<ownerVars, finished, queue, submitted>>

-----------------------------------------------------------------------------
Worker(w) == TakeJob(w) \/ Terminate(w) \/ FindEmpty(w) \/ Wait(w) \/ Handle(w)

\* The steps of finish() once it has been called.
Finishing == NotifyAll \/ Join \/ FinishReturn

Next ==
  \/ StartThread \/ StartReturn \/ StartFails \/ Finish \/ Finishing
  \/ \E j \in Jobs : QueueJob(j)
  \/ \E w \in Workers : Worker(w) \/ WakeSpuriously(w)

Spec == Init /\ [][Next]_vars

\* The scheduler runs every thread that can run; a handler returns; finish()
\* goes on.  Nothing makes a spurious wake-up or an owner's call happen.
Fairness == WF_vars(Finishing) /\ \A w \in Workers : WF_vars(Worker(w))

FairSpec == Spec /\ Fairness

-----------------------------------------------------------------------------
(* Properties. *)

Busy == {w \in Workers : pc[w] = "handling"}

\* Type invariant of the pool's variables.
TypeOK ==
  /\ owner \in {"starting", "running", "notify", "join", "done"}
  /\ started \in {"pending", "yes", "no"}
  /\ threads \in 0..NumWorkers
  /\ next \in 1..(NumWorkers + 1)
  /\ finished \in BOOLEAN
  /\ queue \in Seq(Jobs)
  /\ pc \in [Workers -> {"absent", "fetch", "gap", "waiting", "handling", "exited"}]
  /\ job \in [Workers -> Jobs \cup {NoJob}]
  /\ submitted \in Seq(Jobs)
  /\ handled \subseteq Jobs

\* Every job that was queued is in exactly one place: in job_queue_, with the
\* one worker that handles it, or handled.  No interleaving of queue_job and
\* fetch_job_block loses a job, or gives it to two workers.
EachJobInOnePlace ==
  LET held == {job[w] : w \in Busy} IN
  /\ Range(submitted) = Range(queue) \cup held \cup handled
  /\ Range(queue) \cap (held \cup handled) = {}
  /\ held \cap handled = {}
  /\ \A i, k \in DOMAIN queue : queue[i] = queue[k] => i = k
  /\ \A v, w \in Busy : job[v] = job[w] => v = w

\* When finish() returns on a pool that was started, every job queued before it
\* has been handled and no thread of the pool is left.
DrainedOnReturn ==
  owner = "done" /\ started = "yes" /\ NumWorkers > 0 =>
    /\ handled = Range(submitted)
    /\ \A w \in Workers : pc[w] = "exited"

\* A pool whose start() failed runs nothing, whatever is queued into it: the
\* threads that had been created are gone before start() returns.
FailedStartRunsNothing ==
  started = "no" =>
    /\ handled = {}
    /\ \A w \in Workers : pc[w] \in {"absent", "exited"}

\* The worker finish() is about to join was between unlocking queue_mtx and
\* waiting when notify_all was called, and is there still: it was not woken.
MissedNotify == owner = "join" /\ pc[next] = "gap"

\* finish() hangs in one way only: as long as no worker misses the notify_all
\* that precedes its join, finish() returns, whatever the others do.
FinishReturnsUnlessMissed ==
  []~MissedNotify => (owner = "notify" ~> owner \in {"running", "done"})

\* A queued job is taken, unless every worker ends up asleep: the notification
\* of queue_job can be lost, but one worker that is awake is enough.
TakenUnlessAllAsleep ==
  started = "yes" /\ queue # <<>> /\ NumWorkers > 0
    ~> queue = <<>> \/ \A w \in Workers : pc[w] = "waiting"

\* The tests of the pool print "Done." after finish(): it returns.
FinishReturns == owner = "notify" ~> owner \in {"running", "done"}

-----------------------------------------------------------------------------
(* The abstract pool this one implements. *)

PoolStatus ==
  IF started = "no" \/ (started = "pending" /\ finished)
                    \/ (started = "yes" /\ NumWorkers = 0)
  THEN "broken"
  ELSE IF owner = "done" THEN "returned"
  ELSE IF finished THEN "closed" ELSE "open"

Pool == INSTANCE JobPool
  WITH Capacity <- NumWorkers, line <- queue, running <- {job[w] : w \in Busy},
       done <- handled, status <- PoolStatus

\* threaded_worker implements the job pool: jobs start in the order they were
\* queued, one handler each, and control comes back from a drained pool only.
ImplementsJobPool == Pool!Spec

=============================================================================
