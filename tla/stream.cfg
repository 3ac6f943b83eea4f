CONSTANTS
  MaxLines = 4
  Inputs <- MCInputs
  Pieces <- MCPieces
  Names <- MCNames
  RegexSearch <- MCRegexSearch
  Blank = ""
  NoMatch = "none"
  NumStatements = 2
SPECIFICATION Spec
INVARIANTS
  TypeOK
  MultiLineIsPending
  OneCallPerStatement
  CallsReportTheirLine
  CrashOnlyAtEmptyLine
CHECK_DEADLOCK FALSE
