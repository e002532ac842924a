SPECIFICATION FairSpec
CONSTANTS
  c1 = c1
  c2 = c2
  d1 = d1
  d2 = d2
  Clients = {c1, c2}
  Dirs = {d1, d2}
  Scenarios <- MCScenarios
  Removable <- MCRemovable
  NoDir = NoDir
  Nobody = Nobody
  AskLimit = 1
INVARIANTS
  UploadAllowed
  TaskAccountedFor
PROPERTIES
  ResultOfThisCrash
  ClientEnds
CHECK_DEADLOCK FALSE
