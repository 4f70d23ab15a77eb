SPECIFICATION Spec
CONSTANTS
  Requests = {r1, r2}
  Kinds = {"silent", "visible", "user_input", "denied", "invalid", "session"}
  Headless = FALSE
  EnterBeatsBreak = FALSE
  User = User
  NoReq = NoReq
SYMMETRY RequestSymmetry
PROPERTIES KeepsPromise RunsOnlyAtCommandPrompt
