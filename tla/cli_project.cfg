SPECIFICATION FairSpec
CONSTANTS
  Nothing = Nothing
  Unknown = Unknown
  Name <- MCName
  Text <- MCText
  ApprovalType <- MCApprovalType
  Upper <- MCUpper
  Phrase = {"looks good"}
  Blank = ""
  Role = {"auditor", "planner", "builder"}
  MaxSessionTurns = 2
  Graph <- MCGraph
  Initial = "onboarding"
  Guided = {"auditor", "builder"}
  BaseStates = {"implementation"}
  BuilderState = "implementation"
  GitSource = TRUE
  DecisionId = {}
  MaxTurns = 3
  MaxEdits = 1
  MaxCrashes = 1
INVARIANTS TypeOK AuditTrail RetryBudget
PROPERTIES GateSpec BlockedAfterBudget BaseIsKept CommandEnds
