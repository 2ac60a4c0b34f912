SPECIFICATION Spec
CONSTANTS
  Session = {s1, s2}
  Handler = {h1, h2}
  ReportInput <- MCReports
  Position = {0, 96}
  Duration = 100
  Activity = {TRUE, FALSE}
  None = None
  MaxReports = 2
  MaxDuplicates = 1
  MaxFailures = 2
  MaxLegacy = 2
SYMMETRY Symmetry
CONSTRAINT FewCalls
CHECK_DEADLOCK FALSE
INVARIANTS TypeOK KnownIsCurrent RetriesAreBounded LegacyIsHonest
PROPERTIES IsRegister LoneReportIsStored
