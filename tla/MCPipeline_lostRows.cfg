\* One task; a call after the last phase raises once, the job is retried.
CONSTANTS
  Tasks <- OneTask
  Jobs <- LoneJob
  TaskOf <- OneTaskOf
  Workers = {w1}
  Raw <- OneRaw
  MaxRetries = 1
  Faults = {"result", "complete", "commit"}
  MaxFaults = 1
SPECIFICATION Spec
INVARIANTS CompletedIsDurable
\* All jobs end.
CHECK_DEADLOCK FALSE
