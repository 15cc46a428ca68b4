SPECIFICATION FairSpec
CONSTANTS
  Nothing = Nothing
  Unknown = Unknown
  Name <- MCName
  Text <- MCText
  ApprovalType <- MCApprovalType
  Upper <- MCUpper
  Phrase = {"looks good"}
  Blank = ""
  Role = {"auditor", "planner", "builder"}
  MaxSessionTurns = 3
  Graph <- BotGraph
  Initial = "onboarding"
  Guided = {"auditor", "builder"}
  BaseStates = {"implementation"}
  BuilderState = "implementation"
  GitSource = TRUE
  DecisionId = {"d1"}
  MaxTurns = 3
  MaxEdits = 1
  MaxMessages = 2
  MaxClicks = 1
  MaxRestarts = 0
PROPERTIES QueueDrains
CHECK_DEADLOCK FALSE
