SPECIFICATION FairSpec
CONSTANTS
  Unset = Unset
  Configured = 3
  DefaultTimeout = 7
  Buffer = 3
  MaxLag = 1
  MaxCalls = 3
  MaxFaults = 2
INVARIANT TypeOK
PROPERTIES CallSpec RaisesForCause CallReturns
CHECK_DEADLOCK FALSE
