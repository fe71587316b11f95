SPECIFICATION UsageSpec
CONSTANTS
  NoFile = NoFile
  Unreadable = Unreadable
  Sessions = {s1, s2}
  MaxMarked = 1
  MaxTokens = 1
  MaxSaves = 2
  MaxRuns = 2
  Resumed = {s1}
  MaxFaults = 1
INVARIANT SpentIsAccounted
PROPERTY CleanReportIsTrue
CHECK_DEADLOCK FALSE
