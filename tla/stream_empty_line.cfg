CONSTANTS
  MaxLines = 3
  Inputs <- MCInputs
  Pieces <- MCPieces
  Names <- MCNames
  RegexSearch <- MCRegexSearch
  Blank = ""
  NoMatch = "none"
  NumStatements = 2
SPECIFICATION Spec
INVARIANTS
  EmptyLineProcessesStatement
CHECK_DEADLOCK FALSE
