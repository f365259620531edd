SPECIFICATION FairSpec
CONSTANTS
  s1 = s1
  s2 = s2
  c1 = c1
  p1 = p1
  p2 = p2
  p3 = p3
  f1 = f1
  f2 = f2
  Sockets <- TwoSockets
  ConsoleVups <- NoConsoleVups
  Passports <- ThreePassports
  PassportOf <- SharedPassports
  RemovablePassports = {p1}
  UpdatedPassports = {}
  Fields <- TwoFields
  FreshField = f1
  Offered <- OnlyRegister
  PoolMax = 2
  MaxSends <- SecondRegisters
  NoVup = NoVup
  NoPassport = NoPassport
  NoKey = NoKey
CHECK_DEADLOCK FALSE
INVARIANTS
  AckedPassportsDiffer
  PassportMapAgrees
  NoOrphanRegister
PROPERTIES
  KeepsLeases
  BrokenConnectionForgotten
  RegisterAnswered
