SPECIFICATION FairSpec
CONSTANTS
  Steps <- SomeSteps
  Totals <- SomeTotals
INVARIANT TypeOK
PROPERTIES
  TotalIsTaken
  StopReturns
