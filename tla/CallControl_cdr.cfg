\* One internal call that the caller hangs up.
CONSTANTS
  t1 = t1
  t2 = t2
  ext = ext
  NoTrunk = NoTrunk
  Calls = {c1}
  Trunks <- MCTrunks
  TrunkOrder <- MCTrunkOrder
  MaxChannels <- MCMaxChannels
  Callee <- MCCallee
  Devices <- MCDevices
  Directions = {"internal"}
  Hangups = {"callerBye"}
  Faults = {}
SPECIFICATION Spec
CHECK_DEADLOCK FALSE
INVARIANTS
  HangupClosesCDR
