CONSTANTS
  Ast <- MCAst
  Library <- MCLibrary
  Programs <- MCPrograms
  Name <- MCName
  Asked <- MCAsked
SPECIFICATION Spec
CHECK_DEADLOCK FALSE
PROPERTIES
  ImplementsSymbolTable
