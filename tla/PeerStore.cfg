SPECIFICATION FairSpec
CONSTANTS
  Peers = {u1, u2, u3}
  First = 10
  Last = 12
  Foreign = {11}
  Calls = {c1, c2, c3}
  NoAddress = none
CHECK_DEADLOCK FALSE
INVARIANTS TypeOK AddressesUnique
PROPERTIES AddressStable ImplementsRegistry EveryRequestEnds
