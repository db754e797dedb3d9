------------------------------ MODULE JobPool ------------------------------
(***************************************************************************)
(* What threaded_worker<T> promises its owner, with no threads, mutexes or *)
(* condition variables: a FIFO line of jobs, a set of jobs whose handler   *)
(* is running and a set of jobs whose handler has returned.  A closed pool *)
(* accepts nothing more, and the owner gets control back only when nothing *)
(* is left in the line and no handler runs.  A pool that could not be      *)
(* started is broken: it accepts jobs and runs none of them.               *)
(***************************************************************************)
EXTENDS Naturals, Sequences, FiniteSets, Functions

CONSTANTS Jobs,     \* the jobs the owner may queue
          Capacity  \* how many handlers may run at the same time

VARIABLES line,     \* jobs accepted and not started, in order of arrival
          running,  \* jobs whose handler is running
          done,     \* jobs whose handler has returned
          status    \* "open", "closed", "returned" or "broken"

poolVars == <<line, running, done, status>>

Accepted == Range(line) \cup running \cup done

Init ==
  /\ line = <<>>
  /\ running = {}
  /\ done = {}
  /\ status = "open"

\* The owner queues a job it has not queued before.
Submit(j) ==
  /\ status \in {"open", "broken"}
  /\ j \notin Accepted
  /\ line' = Append(line, j)
  /\ UNCHANGED <<running, done, status>>

\* The oldest job of the line starts, if a handler is free.
Begin ==
  /\ status \in {"open", "closed"}
  /\ line # <<>>
  /\ Cardinality(running) < Capacity
  /\ running' = running \cup {Head(line)}
  /\ line' = Tail(line)
  /\ UNCHANGED <<done, status>>

\* The handler of a running job returns.
End(j) ==
  /\ j \in running
  /\ running' = running \ {j}
  /\ done' = done \cup {j}
  /\ UNCHANGED <<line, status>>

\* The owner closes the pool; jobs already accepted are still run.
Close ==
  /\ status = "open"
  /\ status' = "closed"
  /\ UNCHANGED <<line, running, done>>

\* The owner gets control back: everything accepted has been handled.
Return ==
  /\ status = "closed"
  /\ line = <<>>
  /\ running = {}
  /\ status' = "returned"
  /\ UNCHANGED <<line, running, done>>

\* A thread could not be created: nothing was accepted yet, nothing ever runs.
Break ==
  /\ status = "open"
  /\ Accepted = {}
  /\ status' = "broken"
  /\ UNCHANGED <<line, running, done>>

Next ==
  \/ \E j \in Jobs : Submit(j) \/ End(j)
  \/ Begin \/ Close \/ Return \/ Break

Spec == Init /\ [][Next]_poolVars
=============================================================================
