\* Two messages, one relay and one recoverer: relay fetches one message at a time
\* (a limit smaller than what is pending), recover_zombies both.
CONSTANTS
  Messages = {1, 2}
  Relays = {r1}
  Recoverers = {z1}
  FetchLimit = 1
  ZombieLimit = 2
  MaxRetries = 3
SPECIFICATION FairSpec
INVARIANTS TypeOK PublishedWasSent SendBudget
PROPERTIES SettledIsFinal EverySettles ImplementsDelivery
\* Every message can be settled, and then nothing is left to do.
CHECK_DEADLOCK FALSE
