\* Two requests at once: both transactions read a snapshot without an active task.
CONSTANTS
  Requests = {r1, r2}
  Chunks <- MCChunks
SPECIFICATION Spec
PROPERTIES CreatedOnlyWhenIdle
CHECK_DEADLOCK FALSE
