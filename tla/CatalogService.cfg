CONSTANTS
  c1 = c1
  c2 = c2
  Client <- TwoClients
  Serials = 4
  MaxAsks = 1
  MaxFails = 1
  MaxSyncs = 1
SPECIFICATION FairSpec
VIEW Relative
INVARIANTS
  TypeOK
  NeverCalledAfterDetach
  ThreadServes
PROPERTIES
  RequestServed
  DetachReturns
