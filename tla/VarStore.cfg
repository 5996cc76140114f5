SPECIFICATION Spec
CONSTANTS
  a = a
  b = b
  v1 = v1
  v2 = v2
  Name <- Names
  Value <- Values
  NoValue = NoValue
  Erased = Erased
  NoSpare = NoSpare
  Garbled = Garbled
  StoreSize = 7
  RuntimeSpace = 6
  Faulty <- AllButAppend
  MaxFailures = 1
  MaxTotal = 8
  Overfill = FALSE
INVARIANTS
  VarTypeOK
  CacheIsFlash
  AppendsErased
  OneAddedCopy
  LookupsAgree
  RefusedOnlyWhenFull
  ListingIsExact
PROPERTIES
  ImplementsVarMap
SYMMETRY Symmetry
