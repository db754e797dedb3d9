\* One client is enough.
SPECIFICATION Spec
CONSTANTS
  Clients = {c1, c2}
  NumWorkers = 1
INVARIANTS
  ServerErrorIsAnswered
CHECK_DEADLOCK FALSE
