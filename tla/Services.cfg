SPECIFICATION ServicesSpec
CONSTANTS
  None = None
  Key = {k}  Caller = {a, b}  Client = {1, 2}  MaxResets = 1
  Request = {1, 2}
  Window = 4  Keep = 1  Main = main  Agent = {main, sub}  Call = {1, 2}
  MaxRows = 5  MaxPrompts = 1  MaxSummaries = 1
  File = {f}  Temp = {t}  MaxContent = 2  MaxDone = 4
  Conn = {c, d}  Message = {1, 2}  Out = {o}  Slots = 1
  Context = 1
  Req = {1, 2}  Root = root  fx = fx  fy = fy  Child = {fx, fy}
  Source = {p}  Symbols <- TwoVersions  Model = {m, none}  NoModel = none
  Printed <- ScreenOutput  Extent = {2, 3, 4}  MaxOps = 4  MaxInt = 15
  Judged <- RuledCalls  Exempt <- FreeCalls  Config <- SomeConfigs  Batch <- SomeBatches  MaxRounds = 3
  MaxEdits = 2  MaxRuns = 2  MaxBreaks = 1
INVARIANTS ClientsAccounted SettledOnce CallsPaired AgentSurvives MainCacheIsTable RepliesComplete AskedOnce EditsExact EditReported BatchIsItsCalls RepeatStopped ParsesWhatCame MaskRoundTrip AnswerRestored ScreenSound TreeEditDone SearchMerges IgnoredStaysOut RemovalStops IndexMatches
PROPERTIES EditsWhatItSaw
CHECK_DEADLOCK FALSE
