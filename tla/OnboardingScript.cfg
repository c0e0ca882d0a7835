SPECIFICATION FairSpec
CONSTANTS
  Records = {u1, u2}
  Replacing = {u2}
  Portals = {u1}
  Dirs = {d1, d2}
  Legacy = {d2}
  None = none
  MaxFaults = 2
CHECK_DEADLOCK FALSE
INVARIANTS TypeOK OperatorsPageKept BackupPredatesChanges
PROPERTIES ForeignUntouched RetriesSucceed
