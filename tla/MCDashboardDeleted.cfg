SPECIFICATION Spec
INVARIANT
  DeletedIsGone
CONSTANTS
  j1 = j1
  j2 = j2
  Job = {j1, j2}
  NoFile = NoFile
  Requested = {j1}
  MaxErrors = 1
CHECK_DEADLOCK FALSE
