SPECIFICATION Spec
CONSTANTS
  first = first
  second = second
  third = third
  Connection <- MCConnection
  MaxClients = 2
  MaxTroubles = 0
  OneHandler = FALSE
INVARIANTS
  OwnAnswer
