SPECIFICATION FairSpec
CONSTANTS
  Nothing = Nothing
  Name <- LoadName
  Text <- ShippedText
  ApprovalType <- ShippedApprovalType
  Upper <- LoadUpper
  Phrase = {"looks good"}
  Blank = ""
  Role = {"auditor", "planner", "product-designer", "architect", "builder", "reviewer", "qa"}
  Files <- LoadFiles
INVARIANTS TypeOK VerdictIsRight GatesOpen
PROPERTIES LoadEnds
CHECK_DEADLOCK FALSE
