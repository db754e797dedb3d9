\* Two threads and three clients: both threads busy, one connection queued and
\* one held by the main thread when the signal arrives.
SPECIFICATION FairSpec
CONSTANTS
  Clients = {c1, c2, c3}
  NumWorkers = 2
INVARIANTS
  ShutdownLosesOneAtMost
PROPERTIES
  SafeOnceAccepting
  SocketFileFollowsServer
  SignalStopsServer
  QueuedIsAnswered
\* The process ends, or waits for clients.
CHECK_DEADLOCK FALSE
