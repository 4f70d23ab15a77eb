SPECIFICATION Spec
CONSTANTS
  Jobs = {j1, j2}
  Sources <- TheSources
  Options <- TheOptions
  Databases <- TheDatabases
  Commands = {"a"}
  Times = {1, 2}
  NULL = NULL
  NoFile = NoFile
  MaxWrites = 1
  MaxFailures = 1
  MaxRows = 4
  Row <- TheRows
  MaxDeletes = 1
  MaxEntries = 3
  MinRows = 10
  Chrome = 8
  MinVisible = 2
  Heights = {9, 10, 11}
  PageSize = 2
  Limits = {0, 1, 2, 3}
  None = None
  Stamps = {t1}
  MaxLines = 5
  Processes = {p1, p2}
  TimeLimits = {1, 5}
  DefaultLimit = 3
  LongestLimit = 4
  SessionLimit = 2
  Spare = 2
  Lateness = 1
  RequestLimit = 7
  ReadSize = 2
  MaxChanges = 1
  Trees <- TheTrees
  Height <- TheHeight
  Codes <- TheCodes
  Allowlists <- TheLists
SYMMETRY Symmetry
CHECK_DEADLOCK FALSE
INVARIANTS CountsTellTruth OutputWhole
INVARIANTS AnswerComplete EntriesAreBlocks ClientTellsTruth OnlyListedRuns
PROPERTIES OnlyFillsGaps ScreenTellsTruth
