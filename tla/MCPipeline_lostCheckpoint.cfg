\* One task; one call inside a phase raises, the job is retried.
CONSTANTS
  Tasks <- OneTask
  Jobs <- LoneJob
  TaskOf <- OneTaskOf
  Workers = {w1}
  Raw <- OneRaw
  MaxRetries = 1
  Faults = {"phase"}
  MaxFaults = 1
SPECIFICATION Spec
PROPERTIES CheckpointIsKept
\* All jobs end.
CHECK_DEADLOCK FALSE
