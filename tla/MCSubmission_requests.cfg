\* Three requests at once; everything may fail.
CONSTANTS
  Requests = {r1, r2, r3}
  Chunks <- MCChunks
SPECIFICATION Spec
INVARIANTS TypeOK AcceptedIsWhole ReplyIsKept
SYMMETRY Symmetry
\* All requests are answered.
CHECK_DEADLOCK FALSE
