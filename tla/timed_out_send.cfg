SPECIFICATION FairSpec
CONSTANTS
  Requests = {r1}
  Kinds = {"user_input"}
  Headless = FALSE
  EnterBeatsBreak = FALSE
  User = User
  NoReq = NoReq
PROPERTY TimedOutNeverExecuted
