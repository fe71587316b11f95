SPECIFICATION Spec
CONSTANTS
  p1 = p1
  p2 = p2
  p3 = p3
  pa = pa
  ca = ca
  cb = cb
  r1 = r1
  child = child
  NoRef = NoRef
  NoRecord = NoRecord
  Child = child
  Procs = {p1, p2, p3}
  Commands = {"create", "configure", "relationship", "lifecycle", "send", "milestone", "run", "register", "resolve", "delete", "tool"}
  Parents = {pa}
  Configs = {ca}
  Requests = {r1}
  MaxDeliveries = 2
  MaxApprovals = 1
  MaxNotes = 1
  Schedule = "during_runs"
  MaxCommands = 5
  MaxCrashes = 1
INVARIANTS AckedMessageSurvives NoItemRunTwice DeletedStaysDeleted
PROPERTIES ImplementsManager NoApprovalOutlivesCancel
SYMMETRY Symmetry
CHECK_DEADLOCK FALSE
