CONSTANTS
  Default = Default
  Settings <- TwoSettings
  Factory <- OneFactory
  User <- TwoUsers
  Rank <- FactoryBetween
  Exchanged <- OneFactory
  a = a
  f = f
  u = u
  w = w
  NoPreset = NoPreset
  Absent = Absent
  MaxActs = 2
  MaxCalls = 0
SPECIFICATION SharedSpec
PROPERTY ChoiceStands
