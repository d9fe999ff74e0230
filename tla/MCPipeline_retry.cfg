\* Three tasks on two workers, one with two jobs; a call inside a phase may fail.
CONSTANTS
  Tasks <- ThreeTasks
  Jobs <- ThreeJobs
  TaskOf <- ThreeTaskOf
  Workers = {w1, w2}
  Raw <- ThreeRaw
  MaxRetries = 1
  Faults = {"phase", "ids"}
  MaxFaults = 1
SPECIFICATION Spec
INVARIANTS TypeOK CompletedIsDurable ResultIsTrue EndsSettled
PROPERTIES StoredAtOnce ImplementsJob
SYMMETRY Symmetry
\* All jobs end.
CHECK_DEADLOCK FALSE
