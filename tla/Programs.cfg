CONSTANTS
  Ast <- MCAst
  Builtins <- MCBuiltins
  Programs <- AllSources
  MAX_RECURSION_DEPTH = 3
  IntBits = 4
SPECIFICATION PipelineSpec
INVARIANTS
  TypeOK
  DepthsBalanced
  TableSorted
  OneErrorEndsTheRun
  GlobalsMatchDeclarations
  MissesOnlyGlobalsToCome
  ReferencesFresh
  ReferencesInside
  VariablesKeepTheirTypes
  StructsAreNotShared
  OperatorsObeyArithmetic
PROPERTIES
  SlotsKeepIdentity
  ConversionsFailOnTextsOnly
  Terminates
