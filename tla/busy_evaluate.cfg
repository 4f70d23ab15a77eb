SPECIFICATION FairSpec
CONSTANTS
  Requests = {r1}
  Kinds = {"silent", "visible"}
  Headless = FALSE
  EnterBeatsBreak = FALSE
  User = User
  NoReq = NoReq
PROPERTY BusyEvaluateRejected
