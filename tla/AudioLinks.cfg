CONSTANTS
  NULL = NULL
  NoName = NoName
  a = a
  me = me
  Name <- OneName
  Self = me
  Everyone <- OneClient
  Slot <- FourSlots
  Serials = 8
  Threshold = 1
  MaxStreams = 2
  MaxNames = 2
SPECIFICATION Spec
VIEW View
INVARIANTS
  TypeOK
  LastSettingsWin
  LastNameWins
  SlotsSuffice
CHECK_DEADLOCK FALSE
