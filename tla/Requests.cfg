SPECIFICATION RequestsSpec
CONSTANTS
  MaxMishaps = 2
  Users = {u1, u2, u3}
  Requests = {r1, r2}
  Visits = {v1, v2}
  MaxUses = 1
  Logins = {l1, l2, l3}
  MaxFailures = 2
  MaxChanges = 2
  Savers = {s1, s2}
  MaxSettingChanges = 2
  RuleLibraries = {1}
  RuleTypes = {1, 2}
  Extensions = {b, c}
  BuiltinType = 2
  BuiltinSuffix = b
  ImageType = 1
  VideoType = 2
  RuleClients = {k1}
  MaxRules = 3
  BookmarkClients = {g1, g2}
  MaxBookmarkRequests = 4
  UploadIds = {1, 2, 3}
  TrackUploads = {s, t}
  Deleters = {d1, d2}
  Readers = {r}
  Exports = {1, 2}
  ExportRuns = {x1, x2}
  ExportAttempts = 2
  MaxExportTurns = 4
  Positions = {1, 2}
  MaxCoverVersion = 2
  CoverAttempts = 1
  MaxCoverRequests = 2
  Probers = {q1, q2}
  FFmpegs = {pa, pb}
  Families = {1}
  MaxPathChanges = 1
  Writebacks = {1, 2}
  Swappers = {1, 2}
  MaxContents = 2
  MaxSeconds = 1
  MaxGen = 2
  MaxVersion = 2
  MaxAttempts = 1
  Workers = {1, 2}
INVARIANTS RequestsTypes AccessHolds FilesFitRows EditsAreKept DecisionsHold RulesDecide
PROPERTIES LateStepsYield BookmarkIsRegister
CHECK_DEADLOCK FALSE
