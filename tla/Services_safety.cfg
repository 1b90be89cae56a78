CONSTANTS
  Parts = {"trunks", "phones", "auth", "flow", "conference", "mixer", "digits", "voicemail"}
  Trunks = {t1}
  TrunkTypes = {"register", "ip"}
  MaxRequests = 2
  Main = Main
  NoEntry = NoEntry
  TrunkFaults = {"db", "decrypt", "client"}
  MaxOutages = 1
  MaxRegisters = 2
  Contacts = {c1, c2}
  PushWaits = {w1}
  MaxRegistrations = 1
  RegisterFaults = {"db", "busy"}
  AuthRequests = {r1, r2, r3}
  Nonces = {n1, n2}
  MaxFailedAttempts = 2
  MaxNodes = 2
  MaxMembers = 2
  NodeTimeout = 1
  MaxHangups = 2
  FlowModes = {"flow", "sequential", "simultaneous"}
  FlowFaults = {"db", "media", "transport"}
  Guests = {g1, g2}
  RoomLimit = 2
  MaxRooms = 2
  RoomFaults = {"ports", "recorder", "respond"}
  Stride = 1
  DigitUses = {"ivr", "pin", "message", "confirm"}
  MaxPresses = 2
  MaxTries = 2
  MaxDigits = 2
  BufferSize = 1
  Depositors = {d1, d2}
  BoxLimit = 1
  Stamps = {1, 2}
  VoicemailFaults = {"db", "file", "notify"}
SPECIFICATION ServicesSpec
CHECK_DEADLOCK FALSE
INVARIANTS
  RegistrarFollowsRows
  LoopsOwned
  ContactsWithinLimit
  NonceUsedOnce
  HonestNotBlocked
  FlowSessionsOwned
  PartiesTold
  FlowRowTellsOutcome
  PortsReturned
  OccupiedRoomMixes
  DigitsOfThisAttempt
  PressCountsOnce
  BoxWithinLimit
  LampTellsNew
  MessagesHaveAudio
PROPERTIES
  MissedOnlyBeforeSubscribe
  FlowLifecycle
  LouderStaysLouder
