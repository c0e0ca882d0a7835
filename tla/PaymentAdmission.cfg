SPECIFICATION Spec
CONSTANTS
  Workers = {w1, w2}
  Keys = {k1, k2, k3}
  Phones = {alice, bob}
  Ips = {ip, noip}
  NoIp = noip
  None = none
  Packages = {day}
  Limit = 1
SYMMETRY Symmetry
INVARIANTS TypeOK ChargedOnce AnswersMatch LimitHeld
PROPERTIES ImplementsCharges
