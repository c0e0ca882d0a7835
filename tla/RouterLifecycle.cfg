SPECIFICATION FairSpec
CONSTANTS
  Routers = {u1, u2}
  Addresses = {a1, a2}
  Foreign = {a2}
  NoAddress = none
CHECK_DEADLOCK FALSE
INVARIANTS TypeOK PeerHeld LiveRoutersApart
PROPERTIES DeletedStaysDeleted OnboardingEnds ScriptsEnd
