SPECIFICATION FairSpec
CONSTANTS
  c1 = c1
  c2 = c2
  c3 = c3
  Callers <- ThreeCallers
  NoCaller = NoCaller
  Names <- SomeNames
  Answers <- SomeAnswers
  plain <- LowerCase
  normalized <- NormalForm
  aliases <- SomeAliases
  hiddenModels <- OneHiddenModel
  baseModels = {"auto", "claude-sonnet-4.5"}
  hiddenFromList = {"auto"}
INVARIANT TypeOK
INVARIANT ListIsSnapshot
PROPERTY WriterProgress
CHECK_DEADLOCK FALSE
