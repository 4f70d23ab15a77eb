SPECIFICATION FairSpec
CONSTANTS
  Requests = {r1, r2}
  Kinds = {"silent", "denied", "visible", "user_input", "session", "history", "shutdown", "invalid", "malformed"}
  Headless = TRUE
  NoReq = NoReq
INVARIANTS RecordedBeforeNext
PROPERTIES KeepsPromise ShutdownCompletes EveryRequestAnswered
