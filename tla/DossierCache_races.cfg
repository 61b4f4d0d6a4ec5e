SPECIFICATION Spec
CONSTANTS
  g1 = g1
  f1 = f1
  p1 = p1
  k1 = k1
  None = None
  Gets <- OneGet
  Refreshes <- OneRefresh
  Patches <- OnePatch
  Confirms <- OneConfirm
  MaxEvents = 1
INVARIANTS
  TypeOK
  StaleHasCause
  AnswerNotOlder
\* Every request is answered: nothing is left to do.
CHECK_DEADLOCK FALSE
