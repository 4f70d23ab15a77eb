SPECIFICATION FairSpec
CONSTANTS
  Requests = {r1, r2}
  Kinds = {"user_input"}
  Headless = FALSE
  EnterBeatsBreak = FALSE
  User = User
  NoReq = NoReq
PROPERTIES EveryRequestAnswered PendingOpTaken
