\* Two tasks over the same files, nothing fails.
CONSTANTS
  Tasks <- MCTasks
  Jobs <- MCJobs
  TaskOf <- MCTaskOf
  Workers = {w1}
  Raw <- SameRaw
  MaxRetries = 0
  Faults = {}
  MaxFaults = 0
SPECIFICATION Spec
INVARIANTS LinkedRecords
\* All jobs end.
CHECK_DEADLOCK FALSE
