CONSTANTS
  Listed <- ListedVal
  Heights = {1, 3}
  ScreenRows = {3, 6}
  PageRows <- PageRowsVal
  MaxLines = 2
  MaxItems = 2
  MaxSpawned = 1
  MaxLen = 4
  MaxEdits = 2
  MaxKilled = 2
  MaxHistory = 1
  Chars <- CharsVal
  Word <- WordVal
  Combining <- CombiningVal
  Blank <- BlankVal
  MaxLinesRead = 3
  NoSession = 0
  Configs <- ConfigsVal
  Tools <- ToolsVal
  Calls <- CallsVal
  Versions <- VersionsVal
  MaxAsked = 2
  MaxSkips = 2
  Noises = {"notification", "request", "repeat"}
  ServerIds = {9}
  MaxNoise = 1
SPECIFICATION MCSpec
INVARIANT NeverPanics
CHECK_DEADLOCK FALSE
