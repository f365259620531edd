SPECIFICATION Spec
CONSTANTS
  s1 = s1
  s2 = s2
  c1 = c1
  p1 = p1
  p2 = p2
  p3 = p3
  f1 = f1
  f2 = f2
  Sockets <- TwoSockets
  ConsoleVups <- OneConsoleVup
  Passports <- ThreePassports
  PassportOf <- OwnPassports
  RemovablePassports = {p3}
  UpdatedPassports = {p1}
  Fields <- TwoFields
  FreshField = f1
  Offered <- EachKind
  PoolMax = 1
  MaxSends <- SecondRegisters
  NoVup = NoVup
  NoPassport = NoPassport
  NoKey = NoKey
INVARIANTS
  TypeOK
  NoDanglingPointer
  AckedClientHoldsPassport
  ViewShowsRegistered
