SPECIFICATION Spec
CONSTANTS
  Sessions = {s1}
  Mpesa = {s1}
  Hotspot = {}
  Threads = {t1, t2}
  Jobs = jobs
  Passwords = {p1, p2, p3}
  NoPassword = none
  CleanupLimit = 1
  MaxOthers = 0
  MaxCrashes = 0
  GrantCap = 2
INVARIANT OneGrantPerPayment
