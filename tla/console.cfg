SPECIFICATION Spec
CONSTANTS
  NoFlag = NoFlag
  MaxCommands = 2
  MaxPresses = 2
  MaxDepth = 4
  MaxWrites = 2
  Typed = {":", "quote", ";"}
  Recalled <- TheLines
  MaxText = 2
  MaxBatch = 2
  MaxAstray = 1
  Versions = {1, 2, 3}
  NoR = NoR
  NotGiven = NotGiven
  Unset = Unset
  User = User
  Session = Session
  NoCarrier = NoCarrier
  BadCarrier = BadCarrier
  NoMode = NoMode
  MaxChanges = 1
  Worlds <- TheWorlds
  Launches <- TheLaunches
  SwitchRequests <- TheSwitches
  ForgetConfigs <- AllConfigs
  NoId = NoId
  NoContext = NoContext
  MaxEntered = 3
  MaxMishaps = 1
  MaxChunks = 1
  Sessions <- MCSessions
  Arguments <- MCArguments
  FunctionNames <- MCFunctions
  Lines <- MCLines
  CompletionSettings <- MCSettings
  Marks <- MCMarks
  Debounce = 1
  Lifetime = 2
  Directories = {d1}
  HomeDirectory = d1
  MaxStack = 1
  TerminalWidths = {10}
  Unreadable = Unreadable
  Starts <- MCStarts
  OtherLines <- MCOtherLines
  Topics <- MCTopics
  Letters = {"a", "b"}
  MaxQuery = 2
  MaxFiltered = 4
  TerminalSizes <- MCTerminals
  MinSize <- MCMinSize
  WrappedLines <- MCWrapped
  SchemaLines <- MCSchema
  MaxTexts = 2
  MaxTags = 5
  MaxOpen = 5
  WrapInputs <- MCWraps
  TableInputs <- MCTables
INVARIANTS NoJumpThroughRust SpinnerOutOfTheWay LinesUnderTheirSource
INVARIANTS ShadowExact CatchesUp
INVARIANTS PromptTells OfferedIsAccepted ScreensHold PagesKept
INVARIANTS OutcomesRight ForgetsFailuresOnly MetaFlagOnOwnRow
PROPERTIES InterruptsItsOwn RightR SwitchStartsClean
CHECK_DEADLOCK FALSE
