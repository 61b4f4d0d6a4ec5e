SPECIFICATION Spec
CONSTANTS
  c1 = c1
  c2 = c2
  c3 = c3
  p = p
  q = q
  bad = bad
  other = other
  here = here
  there = there
  nowhere = nowhere
  None = None
  Calls <- ThreeCalls
  Params <- AllParams
  Incomplete <- BadParams
  Scopes <- AllScopes
  ScopeOf <- Scoping
  CaseScopes <- Creations
SYMMETRY Symmetry
INVARIANTS
  TypeOK
  OwnResult
  AnsweredNotRerun
  AnsweredCaseIsWhole
\* Every call is settled and every key gone: nothing is left to do.
CHECK_DEADLOCK FALSE
