SPECIFICATION Spec
CONSTANTS
  OpenTag <- MCOpenTag
  CloseTag <- MCCloseTag
  Hold = 2
  NoName = NoName
  NoId = NoId
  t1 = t1
  t2 = t2
  Scripts <- MCScripts
  MaxResults = 2
INVARIANT TypeOK
INVARIANT ChunksDoNotMatter
INVARIANT TextLagsLittle
INVARIANT BlocksWellFormed
INVARIANT ToolCallsAgree
INVARIANT EndingsAreTold
INVARIANT ReportedOnce
INVARIANT ObserverAgrees
