CONSTANTS
  Sources <- MCSources
  Letters <- MCLetters
  Digits <- MCDigits
  Keywords <- MCKeywords
SPECIFICATION Spec
CHECK_DEADLOCK FALSE
INVARIANTS
  TypeOK
  LongestLexeme
  NothingLost
  LocationsIncrease
PROPERTIES
  ScanEnds
