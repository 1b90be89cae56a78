\* A Call-ID used twice, two port pairs, one of which another process may take.
CONSTANTS
  u1 = u1
  u2 = u2
  id1 = id1
  bye = bye
  Nobody = Nobody
  Foreign = Foreign
  Users = {u1, u2}
  Hangups = {bye}
  Legs = {1}
  Recorded = {u1}
  Ids = {id1}
  IdOf <- SameId
  PortMin = 10
  PortMax = 13
  Outside = {12}
SPECIFICATION LiveSpec
CHECK_DEADLOCK FALSE
INVARIANTS
  TypeOK
  SessionsOwnPorts
  OpenPairsAllocated
  NoLeak
PROPERTIES
  RefusedOnlyWhenFull
  ReleaseEnds
  ImplementsLease
