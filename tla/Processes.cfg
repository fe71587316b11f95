SPECIFICATION MCSpec
CONSTANTS
  j1 = j1
  j2 = j2
  c1 = c1
  c2 = c2
  Jobs = {j1, j2}
  Stopped = {j1}
  Clients = {c1, c2}
  NoRecord = NoRecord
  p1 = p1
  p2 = p2
  i1 = i1
  i2 = i2
  Procs = {p1, p2}
  Ids = {i1, i2}
  Nobody = Nobody
  NoCode = NoCode
  Alone = TRUE
  Routes = {"run_command", "direct", "approved"}
  PipeCap = 2
  MaxOut = 3
  Keys = {"esc", "0", "1", "prefix", "d"}
  PasteBegin <- BeginVal
  PasteEnd <- EndVal
  MaxWrite = 6
  MaxKeys = 5
  RawOutputs <- RawVal
  ReadChunk = 4
INVARIANT EndedIsTrue
INVARIANT LostIsGone
INVARIANT SessionGetsItsKeys
INVARIANT ProjectedHoweverCut
PROPERTY TreeIsGone
PROPERTY TimeoutMeansBusy
SYMMETRY Symmetry
CHECK_DEADLOCK FALSE
