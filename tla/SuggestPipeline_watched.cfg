SPECIFICATION FairSpec
CONSTANTS
  t1 = t1
  None = None
  Tasks <- OneTask
  Cancelable <- OneTask
  MaxFaults = 2
INVARIANTS
  TypeOK
  StoredIsModerated
  SafeModeNeedsNoModel
  SummaryIsOfThisText
  ShownIsStored
PROPERTIES
  DraftlessSuccess
  StreamLearnsOutcome
\* Every task is over and its operator answered.
CHECK_DEADLOCK FALSE
