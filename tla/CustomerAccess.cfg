SPECIFICATION FairSpec
CONSTANTS
  Customers = {h1, p1}
  Pppoe = {p1}
  Down = {h1}
  Requests = {r1, r2}
  Jobs = {j}
  Validity = 1
  MaxTime = 2
  Faults = TRUE
CHECK_DEADLOCK FALSE
INVARIANTS TypeOK RouterAgrees PaidTimeKept
PROPERTIES OverdueEnds
