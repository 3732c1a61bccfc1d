CONSTANTS
  p = p
  s = s
  NULL = NULL
  Root = "root"
  Node <- MCNode
  Parent <- MCParent
  Above <- MCAbove
  Spare = {o}
  Param <- MCParam
  Private <- MCPrivate
SPECIFICATION FairSpec
INVARIANTS
  TypeOK
  RefsExact
  TreeSound
  PendingHasParam
  CountersExact
  ParamsOwned
PROPERTIES
  ImplementsMap
  LoopsEnd
