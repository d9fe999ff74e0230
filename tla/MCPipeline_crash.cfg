\* Two tasks that select a video in common: every call may fail, before or after it
\* took effect, and the workers may die at any point.
CONSTANTS
  Tasks <- MCTasks
  Jobs <- MCJobs
  TaskOf <- MCTaskOf
  Workers = {w1, w2}
  Raw <- SharedRaw
  MaxRetries = 1
  Faults = {"setup", "find", "start", "phase", "ids", "result", "complete", "commit", "failed", "crash", "killed"}
  MaxFaults = 2
SPECIFICATION FairSpec
INVARIANTS CommittedIsCheckpointed NothingUncounted LinkedWhenSelected
PROPERTIES StoredAtOnce EveryJobEnds ImplementsJob
\* All jobs end.
CHECK_DEADLOCK FALSE
