SPECIFICATION FairSpec
CONSTANTS
  a = a
  b = b
  Exes = {a, b}
  Starts <- MCStarts
  NewLines <- MCNewLines
  LookAhead = 3
  TooLong = 3
  OneLine = 2
  MaxFrames = 2
  MaxLog = 6
  MaxGrow = 3
  MaxVacuum = 1
  MaxRuns = 2
  MaxTime = 4
  MaxRead = 5
  MaxDumped = 2
  Throttle = 2
  QueueSize = 1
  NoExe = NoExe
INVARIANTS
  PositionNotAhead
  ReportedOnce
  CrashesFound
PROPERTIES
  ThrottleKept
  EntriesSettled
  TermEnds
CHECK_DEADLOCK FALSE
