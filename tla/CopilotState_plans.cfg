SPECIFICATION Spec
CONSTANTS
  u1 = u1
  u2 = u2
  c1 = c1
  c2 = c2
  k1 = k1
  k2 = k2
  NoState = NoState
  Suggests <- TwoSuggests
  Calls <- TwoCalls
  Confirms <- None
  Texts <- TextPerPlan
  SafeModes <- SafeOrNot
  Tools <- EveryTool
  Confirmable <- TxnFields
SYMMETRY Symmetry
INVARIANTS
  OnePiece
  DoneHasCause
  GateKeepsToSidebar
PROPERTIES
  ResultMovesOn
\* Every request is answered: nothing is left to do.
CHECK_DEADLOCK FALSE
