SPECIFICATION Spec
CONSTANTS
  Session = {s1}
  Handler = {h1}
  ReportInput <- MCFewReports
  Position = {0, 40}
  Duration = 100
  Activity = {TRUE}
  None = None
  MaxReports = 1
  MaxDuplicates = 0
  MaxFailures = 0
  MaxLegacy = 2
CHECK_DEADLOCK FALSE
PROPERTIES PositionKeepsWatched
