SPECIFICATION ReachableSpec
CONSTANTS
  Sessions = {s1}
  Mpesa = {s1}
  Hotspot = {s1}
  Threads = {t1}
  Jobs = jobs
  Passwords = {p1, p2, p3}
  NoPassword = none
  CleanupLimit = 1
  MaxOthers = 1
  MaxCrashes = 1
  GrantCap = 2
INVARIANT ShownPasswordWorks
PROPERTIES HotspotWindowFixed ImplementsPaidAccess OpenSessionsEnd PreparedAccountsEnd
