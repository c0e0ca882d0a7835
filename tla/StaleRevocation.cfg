SPECIFICATION Spec
CONSTANTS
  Accounts = {root}
  Superadmin = root
  Defaults = {}
  Workers = {w1, w2}
  Threshold = 5
  Guessed = {}
  MaxVersion = 2
PROPERTIES ChangeRevokesTokens
