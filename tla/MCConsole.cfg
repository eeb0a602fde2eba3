INIT ConsoleInit
NEXT BoundedNext
SYMMETRY Symmetry
CHECK_DEADLOCK FALSE
CONSTANTS
  DictTypes = {a, b}
  DictReqs = {r1, r2}
  DictNone = none
  DictMaxVer = 2
  DictMaxLoads = 3
  DictEdits = {e1, e2}
  DictPageRead = {a}
  PollMaxVisits = 4
  RtMaxConns = 3
  RtMaxLogins = 2
  TbHomes = {h1, h2}
  TbList = list
  TbDetail = detail
  TbBare = bare
  TbNone = none
  TbMaxStale = 1
  CuChunks = 3
  CuConcurrency = 2
  CuAttempts = 2
  LpMaxTickets = 2
  LpMaxChallenges = 1
  LpMaxSends = 2
  WfMaxNodes = 4
  WfMaxArms = 2
  WfMaxJumps = 1
  SsReqs = {r1, r2}
  SsNone = none
  SsMaxTokens = 3
  SsMaxLogins = 2
  RkMaxTries = 3
  RkMaxIntents = 3
  RkMaxVersions = 2
INVARIANTS
  ConsoleTypeOK
  DictCacheIsFresh
  DictJoinIsFresh
  PageTableIsCurrent
  EditReachesCache
  PollSerial
  RtNoLeak
  RtVoluntaryIsSilent
  TabsCurrentShown
  CuSendsWhatIsMissing
  LoginOnce
  WfEditsKeepTree
  WfServerAgrees
  WfEngineFollowsDrawing
  SsNoSelfReuse
  SsRevokedIsDead
  RkOncePerIntent
  RkSuccessIsTrue
