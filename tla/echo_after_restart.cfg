SPECIFICATION StartSpec
CONSTANTS
  Versions = {1, 2, 3}
  NoR = NoR
  NotGiven = NotGiven
  Unset = Unset
  User = User
  Session = Session
  NoCarrier = NoCarrier
  BadCarrier = BadCarrier
  NoMode = NoMode
  MaxChanges = 1
  Worlds <- TheWorlds
  Launches <- TheLaunches
  SwitchRequests <- TheSwitches
INVARIANT EchoRestored
CHECK_DEADLOCK FALSE
