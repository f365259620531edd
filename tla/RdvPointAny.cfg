SPECIFICATION Spec
CONSTANTS
  v1 = v1
  v2 = v2
  v3 = v3
  r1 = r1
  r2 = r2
  m1 = m1
  Passports <- TwoClients
  Points <- TwoPoints
  MajorOf <- OneMajor
  ParamChoices <- Resized
  DefaultTimeout = 1
  MaxListed = 2
  Patient = FALSE
  Tunable = TRUE
INVARIANTS
  SeatsMatchList
  NobodyStranded
  GroupsFit
SYMMETRY Symmetric
