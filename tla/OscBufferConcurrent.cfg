CONSTANTS
  Capacity = 6
  Packets <- FewPackets
  Limits <- OneLimit
  Junk <- AnyJunk
SPECIFICATION ConcurrentSpec
INVARIANT InOrder
