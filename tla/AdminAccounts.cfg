SPECIFICATION Spec
CONSTANTS
  Accounts = {root, admin}
  Superadmin = root
  Defaults = {admin}
  Workers = {w1, w2}
  Threshold = 5
  Guessed = {root}
  MaxVersion = 1
SYMMETRY Symmetry
INVARIANTS TypeOK StartedIsSafe LockoutBounded
