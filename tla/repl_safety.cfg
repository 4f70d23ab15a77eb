SPECIFICATION Spec
CONSTANTS
  Requests = {r1, r2}
  Kinds = {"silent", "visible", "user_input", "session"}
  Headless = FALSE
  EnterBeatsBreak = TRUE
  User = User
  NoReq = NoReq
SYMMETRY RequestSymmetry
INVARIANTS TypeOK CaptureExclusive BusyWhileInHand ReplyHasOneHolder
PROPERTIES UserUndisturbed
