SPECIFICATION MCSpec
CONSTANTS
  Targets = {"file", "glob"}
  Patterns <- MCPatterns
  Length <- MCLength
  Covers <- MCCovers
  Inside <- MCInside
  Shell <- MCShell
  Tools <- MCTools
  Builtin <- MCBuiltin
  RuleSets <- MCRuleSets
  Filters <- MCFilters
  NoGrant = NoGrant
  Transient <- MCTransient
  RetryAfters <- MCRetryAfters
  NoSeconds = NoSeconds
  Limit = 4
  MaxSeconds = 2
  MaxSteps = 2
  MaxChunks = 2
  Answers <- MCAnswers
  Environments <- MCEnvironments
  Models = {"claude", "other"}
  Repeats = {TRUE, FALSE}
  InOrder = TRUE
  MaxUsages = 1
  a1 = a1
  a2 = a2
  Agents = {a1, a2}
  CallIds <- MCIds
  Texts <- MCTexts
  Threshold = 2
  PreviewBytes = 1
  InlineCap = 3
  ReadDefault = 3
  ReadMax = 2
  Queries <- MCQueries
  Cap = 1
  MaxResults = 1
INVARIANT AnswerIsOneStream
INVARIANT DeniedNeverRuns
INVARIANT NeedsLeave
INVARIANT AnswerIsAsSent
INVARIANT HandleReadsBack
INVARIANT ReadsAddUp
PROPERTY RunEnds
CHECK_DEADLOCK FALSE
