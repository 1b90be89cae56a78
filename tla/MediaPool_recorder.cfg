\* One recorded call.
CONSTANTS
  u1 = u1
  u2 = u2
  id1 = id1
  bye = bye
  Nobody = Nobody
  Foreign = Foreign
  Users = {u1}
  Hangups = {bye}
  Legs = {1, 2}
  Recorded = {u1}
  Ids = {id1}
  IdOf <- SameId
  PortMin = 10
  PortMax = 13
  Outside = {}
SPECIFICATION Spec
CHECK_DEADLOCK FALSE
INVARIANT RecorderSurvivesHangup
