SPECIFICATION Spec
CONSTANTS
  Nothing = Nothing
  Name <- HeadName
  Text <- HeadType
  ApprovalType <- HeadType
  Role = {"auditor", "planner"}
  Graph <- HeadGraph
  Initial = "backlog"
  Start = "START_PROJECT"
  Import = "IMPORT_PROJECT"
  Project = {p1, p2}
  Chats = 1
  MaxUpdates = 3
  MaxCommands = 1
  MaxCrashes = 1
INVARIANTS TypeOK StateExists ImportHasSource
PROPERTIES NothingLost NoRestart
CHECK_DEADLOCK FALSE
