SPECIFICATION MCSpec
CONSTANTS
  Region = {1, 2}
  MaxCalls = 2
  Fail = {"write", "ask", "refuse"}
CHECK_DEADLOCK FALSE
INVARIANTS PartsTypeOK ReadsTellTheTruth AnswersShowWhatTheyServe SurfacesFollow EditsKeepOrigins FormatAccounted ItemsLandAsAsked
PROPERTIES NothingLost ToolsEnd
