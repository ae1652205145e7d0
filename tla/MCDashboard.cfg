SPECIFICATION FairSpec
CONSTANTS
  j1 = j1
  j2 = j2
  Job = {j1, j2}
  NoFile = NoFile
  Requested = {j1}
  MaxErrors = 1
INVARIANTS
  TypeOK
  RunsApart
  RunAlone
  StopIsHonoured
PROPERTIES
  TerminalStays
  StopSettles
CHECK_DEADLOCK FALSE
