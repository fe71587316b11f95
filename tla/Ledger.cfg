SPECIFICATION MCSpec
CONSTANTS
  NoRef = NoRef
  parentModel = parentModel
  root = root
  r1 = r1
  r2 = r2
  p1 = p1
  p2 = p2
  w1 = w1
  c1 = c1
  c2 = c2
  MaxDeliveries = 2
  MaxApprovals = 2
  MaxNotes = 1
  MaxSent = 3
  Consumers = {parentModel}
  Targets = {root}
  Requests = {r1, r2}
  Prints = {p1, p2}
  WorkIds = {w1}
  Children = {c1}
  Born = {c1, c2}
  Tools = {"subagent", "read_file", "mcp"}
  Builtin = {"subagent", "read_file"}
  Delegate = "subagent"
  BadName = ""
  Modes = {"auto", "yolo"}
  Odd = "odd"
  Yolo = "yolo"
  MaxDepth = 1
  NoRecord = NoRecord
  NoAdmission = NoAdmission
INVARIANTS WindowIsSuffix LoadIsFaithful RegisteredOnce HeldToAdmission
SYMMETRY Symmetry
CHECK_DEADLOCK FALSE
