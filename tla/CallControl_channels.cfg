\* Two calls at once on a trunk with one channel.
CONSTANTS
  t1 = t1
  t2 = t2
  ext = ext
  NoTrunk = NoTrunk
  Calls = {c1, c2}
  Trunks <- MCTrunks
  TrunkOrder <- OneTrunkOrder
  MaxChannels <- MCMaxChannels
  Callee <- MCCallee
  Devices <- MCDevices
  Directions = {"inbound", "outbound"}
  Hangups = {}
  Faults = {}
SPECIFICATION Spec
CHECK_DEADLOCK FALSE
INVARIANTS
  TrunkWithinLimit
