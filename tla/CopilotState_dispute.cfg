SPECIFICATION Spec
CONSTANTS
  u1 = u1
  u2 = u2
  c1 = c1
  c2 = c2
  k1 = k1
  k2 = k2
  NoState = NoState
  Suggests <- OneSuggest
  Calls <- TwoCalls
  Confirms <- TwoConfirms
  Texts <- BlockTexts
  SafeModes <- AllModes
  Tools <- DisputeTools
  Confirmable <- TxnFields
SYMMETRY Symmetry
INVARIANTS
  TypeOK
  LossesNamed
  BlockHasReason
\* Every request is answered: nothing is left to do.
CHECK_DEADLOCK FALSE
