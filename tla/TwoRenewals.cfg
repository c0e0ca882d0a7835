SPECIFICATION Spec
CONSTANTS
  Sessions = {s1, s2}
  Mpesa = {s1}
  Hotspot = {}
  Threads = {t1}
  Jobs = jobs
  Passwords = {p1}
  NoPassword = none
  CleanupLimit = 1
  MaxOthers = 0
  MaxCrashes = 0
  GrantCap = 2
INVARIANTS TypeOK CompletionExclusive AccessIsBooked AccessOnlyForMoney
PROPERTIES NoGrantWhenProvisioned ImplementsPaidAccess
