CONSTANTS
  Ast <- MCAst
  Builtins <- MCBuiltins
  Programs <- MCPrograms
SPECIFICATION Spec
INVARIANTS
  GuardsBalanced
  RepeatedNamesAreParameters
  AcceptedIsClosed
PROPERTIES
  ChecksEverything
