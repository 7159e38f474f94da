SPECIFICATION ServicesSpec
CONSTANTS
  Processes = {p1, p2}
  Loads = {l1, l2}
  Ttl = 2
  Refill = 1
  MaxSaves = 1
  MaxDrops = 1
  MaxClock = 3
  Nothing = Nothing
  Keys = {k1, k2}
  Limit = 2
  Window = 2
  MaxBuckets = 1
  MaxHits = 5
  MaxTime = 4
  NoBucket = NoBucket
  Editors = {e1, e2}
  People = {ann, bob, root}
  SuperAdmins = {root}
  Remarks = {w1, w2}
  MaxLogs = 2
  MaxEdits = 3
  System = system
  NoLog = NoLog
  MaxAuthors = 4
  MaxMoment = 3
  NoStudy = NoStudy
  MaxSaveCalls = 3
  MaxAtOnce = 2
  Labels = {1, 2}
  Detailed = {1}
  MaxRoleId = 2
  Imported = {1}
  Schemas = {"none", "restrict"}
  Payloads <- MCPayloads
  MaxMishaps = 1
  Tasks = {c1, c2}
  Invalid = Invalid
  Blank = Blank
  Files <- MCFiles
  FlushEvery = 2
  MaxImports = 2
  MaxWriteErrors = 2
  NoImportLog = NoImportLog
  HuProjects = {b1, b2}
  HuAssets = {a1}
  AtFirst = {b1}
  MaxWrites = 2
  MaxStarts = 2
  MaxPeerSaves = 1
  Gone = Gone
  AsIs = AsIs
  MaxCode = 4
  TextRank <- MCTextRank
  MaxPeriod = 2
  ChunkSize = 2
  PageSize = 2
  MaxPages = 3
  MaxEvents = 1
INVARIANTS
  ServicesTypeOK
  OwnSavesSeen
  StalenessBounded
  LoadsBounded
  TwiceTheLimit
  RefusedForCause
  RemarkExplained
  RemarkByItsCompleter
  AnswerShown
  SaveReplaces
  SavedHasItsLog
  EditsStay
  NotedIsShown
  InsertsHideNothing
  PagesAreSlices
PROPERTIES
  RolesKeepTheirName
CHECK_DEADLOCK FALSE
