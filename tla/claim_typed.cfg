SPECIFICATION Spec
CONSTANTS
  Nothing = Nothing
  Unknown = Unknown
  Name <- MCName
  Text <- MCText
  ApprovalType <- MCApprovalType
  Upper <- MCUpper
  Phrase = {"looks good"}
  Blank = ""
  Role = {"auditor", "planner", "builder"}
  MaxSessionTurns = 2
  Graph <- MCGraph
  Initial = "onboarding"
  Guided = {"auditor", "builder"}
  BaseStates = {"implementation"}
  BuilderState = "implementation"
  GitSource = TRUE
  DecisionId = {}
  MaxTurns = 1
  MaxEdits = 0
  MaxCrashes = 0
PROPERTY TypedApprovalsOnly
