\* Two overlapping relays: the second one saves a message the first has published.
CONSTANTS
  Messages = {1}
  Relays = {r1, r2}
  Recoverers = {z1}
  FetchLimit = 1
  ZombieLimit = 1
  MaxRetries = 3
SPECIFICATION Spec
PROPERTIES SettledIsFinal
CHECK_DEADLOCK FALSE
