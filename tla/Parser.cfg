CONSTANTS
  Sources <- MCSources
  Programs <- MCPrograms
  MaxReports = 20
SPECIFICATION ReadSpec
CHECK_DEADLOCK FALSE
INVARIANTS
  TypeOK
  ReadsWhatIsWritten
  NothingIgnored
  ReportsAdvance
PROPERTIES
  RecoveryKeepsNesting
  ParsingEnds
