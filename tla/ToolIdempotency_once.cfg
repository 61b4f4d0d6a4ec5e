SPECIFICATION Spec
CONSTANTS
  c1 = c1
  c2 = c2
  c3 = c3
  p = p
  q = q
  bad = bad
  other = other
  here = here
  there = there
  nowhere = nowhere
  None = None
  Calls <- TwoCalls
  Params <- OneParam
  Incomplete <- NoParams
  Scopes <- OneScope
  ScopeOf <- Scoping
  CaseScopes <- OneScope
INVARIANTS
  OneEffectPerKey
\* Every call is settled and every key gone: nothing is left to do.
CHECK_DEADLOCK FALSE
