SPECIFICATION Spec
CONSTANTS
  first = first
  second = second
  third = third
  Connection <- MCConnection
  MaxClients = 2
  MaxTroubles = 2
  OneHandler = TRUE
SYMMETRY Symmetry
INVARIANTS
  RegistriesDiffer
  OrderlyStaysUp
  RequestsHandled
