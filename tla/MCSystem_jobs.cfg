\* Two requests, two dispatches of the same or of both messages, one retry, one error or crash.
CONSTANTS
  Requests = {r1, r2}
  Chunks <- MCChunks
  Budget = 2
  MaxRetries = 1
  MaxJobs = 2
  MaxFaults = 1
SPECIFICATION Spec
INVARIANTS TypeOK OnlyAcceptedRuns NoGhost
PROPERTIES AcceptedSettles
\* All requests are answered and all jobs end.
CHECK_DEADLOCK FALSE
