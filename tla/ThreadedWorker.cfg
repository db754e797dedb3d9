\* Three workers, so that one sleeps, one is in the gap and one works at once;
\* three jobs, so that the queue is longer than one and order shows.
SPECIFICATION FairSpec
CONSTANTS
  Jobs = {j1, j2, j3}
  NoJob = NoJob
  NumWorkers = 3
INVARIANTS
  TypeOK
PROPERTIES
  ImplementsJobPool
  FinishReturnsUnlessMissed
  TakenUnlessAllAsleep
\* A finished pool stops.
CHECK_DEADLOCK FALSE
