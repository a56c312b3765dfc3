CONSTANTS
  Sources <- MCSources
  Letters <- MCLetters
  Digits <- MCDigits
  Keywords <- MCKeywords
SPECIFICATION Spec
CHECK_DEADLOCK FALSE
INVARIANTS
  LocationsAreReal
