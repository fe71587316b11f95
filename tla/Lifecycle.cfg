SPECIFICATION Spec
CONSTANTS
  NoRecord = NoRecord
  Parents = {pa}
  Configs = {ca}
  Modes = {"one_off", "persistent"}
  MaxEvents = 4
PROPERTIES NeverPendingAgain CancelledNeverLive
CHECK_DEADLOCK FALSE
