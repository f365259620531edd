SPECIFICATION FairSpec
CONSTANTS
  v1 = v1
  v2 = v2
  v3 = v3
  r1 = r1
  r2 = r2
  m1 = m1
  Passports <- ThreeClients
  Points <- TwoPoints
  MajorOf <- OneMajor
  ParamChoices <- MixedChoices
  DefaultTimeout = 1
  MaxListed = 3
  Patient = TRUE
  Tunable = FALSE
INVARIANTS
  SeatsAgree
  SummaryAgrees
PROPERTIES
  StartedByOwnPoint
  SeatedIsStarted
