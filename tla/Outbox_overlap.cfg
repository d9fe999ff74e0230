\* Both tasks overlap with themselves (concurrency=2, one beat every 5 s and 60 s).
CONSTANTS
  Messages = {1}
  Relays = {r1, r2}
  Recoverers = {z1, z2}
  FetchLimit = 1
  ZombieLimit = 1
  MaxRetries = 3
SPECIFICATION FairSpec
INVARIANTS PublishedWasSent
PROPERTIES EverySettles
\* Every message can be settled, and then nothing is left to do.
CHECK_DEADLOCK FALSE
