CONSTANTS
  NULL = NULL
  NoName = NoName
  a = a
  me = me
  Name <- OneName
  Self = me
  Everyone <- OneClient
  Slot <- FourSlots
  Serials = 8
  MaxStreams = 2
  MaxNames = 1
SPECIFICATION Spec
INVARIANT BlocksEnd
