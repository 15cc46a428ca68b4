SPECIFICATION Spec
CONSTANTS
  Nothing = Nothing
  Absent = Absent
  Torn = Torn
  MaxStamps = 1
  States = {"prd", "implementation"}
  Guided = {"implementation"}
  Builder = "implementation"
  DecisionId = {d1}
  Base = 2
  Width = 3
  Window = 2
  Past = 5
  MaxRuns = 2
  MaxFaults = 1
  MaxArtifacts = 1
INVARIANTS TypeOK IndexFits TurnWrittenOnce LogHasEvidence SuccessIsVersioned RecentAreLatest
CHECK_DEADLOCK FALSE
