SPECIFICATION Spec
CONSTANTS
  k1 = k1
  k2 = k2
  p1 = p1
  NoAnalysis = NoAnalysis
  Confirms <- TwoConfirms
  Patches <- OnePatch
  Texts <- CaseTexts
  OtherIntents <- Others
  Named <- SomeNamed
  Bodies <- SomeBodies
SYMMETRY Symmetry
INVARIANTS
  TypeOK
  CaseCoversAnalysis
  SeedIsView
  OffersFit
PROPERTIES
  ConfirmedStays
\* Every request is answered: nothing is left to do.
CHECK_DEADLOCK FALSE
