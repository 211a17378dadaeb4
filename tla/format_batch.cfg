SPECIFICATION Spec
CONSTANTS
  Newline = 0
  Docs <- MCDocs
  Changes <- MCChanges
  Answers <- MCAnswers
CHECK_DEADLOCK FALSE
INVARIANT OriginIsExact
