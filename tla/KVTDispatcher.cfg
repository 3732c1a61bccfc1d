CONSTANTS
  k1 = k1
  k2 = k2
  large = large
  v1 = v1
  v2 = v2
  NULL = NULL
  Key <- MCKey
  Value <- MCValue
  Hidden = {}
  Large <- MCLarge
  Room = 2
  MaxDsp = 1
  MaxUi = 2
  MaxConnects = 2
SPECIFICATION FairSpec
INVARIANTS
  TypeOK
  Agreement
PROPERTY UiCatchesUp
