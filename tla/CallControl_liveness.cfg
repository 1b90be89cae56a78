\* One call of any type, with every hangup, and every fault but lost messages.
CONSTANTS
  t1 = t1
  t2 = t2
  ext = ext
  NoTrunk = NoTrunk
  Calls = {c1}
  Trunks <- MCTrunks
  TrunkOrder <- MCTrunkOrder
  MaxChannels <- MCMaxChannels
  Callee <- MCCallee
  Devices <- MCDevices
  Directions = {"internal", "inbound", "outbound"}
  Hangups = {"cancel", "callerBye", "calleeBye"}
  Faults = {"db", "media"}
SPECIFICATION LiveSpec
CHECK_DEADLOCK FALSE
PROPERTIES
  InviteAnswered
  HangupCompletes
  SessionReclaimed
