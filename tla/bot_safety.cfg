SPECIFICATION Spec
CONSTANTS
  Nothing = Nothing
  Unknown = Unknown
  Name <- MCName
  Text <- MCText
  ApprovalType <- MCApprovalType
  Upper <- MCUpper
  Phrase = {"looks good"}
  Blank = ""
  Role = {"auditor", "planner", "builder"}
  MaxSessionTurns = 3
  Graph <- BotGraph
  Initial = "onboarding"
  Guided = {"auditor", "builder"}
  BaseStates = {"implementation"}
  BuilderState = "implementation"
  GitSource = TRUE
  DecisionId = {}
  MaxTurns = 4
  MaxEdits = 0
  MaxMessages = 2
  MaxClicks = 2
  MaxRestarts = 1
INVARIANTS TypeOK OnlyApprovedStates GrantedOnce ResumeFits RetryBudget
CHECK_DEADLOCK FALSE
