SPECIFICATION Spec
CONSTANTS
  Customers = {p1}
  Pppoe = {p1}
  Down = {}
  Requests = {r1}
  Jobs = {j}
  Validity = 1
  MaxTime = 2
  Faults = FALSE
CHECK_DEADLOCK FALSE
INVARIANTS LiveAccessWatched
