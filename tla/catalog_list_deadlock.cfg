SPECIFICATION FairSpec
CONSTANTS
  c1 = c1
  c2 = c2
  c3 = c3
  Callers <- TwoCallers
  NoCaller = NoCaller
  Names <- SomeNames
  Answers <- OneAnswer
  plain <- LowerCase
  normalized <- NormalForm
  aliases <- SomeAliases
  hiddenModels <- OneHiddenModel
  baseModels = {"auto", "claude-sonnet-4.5"}
  hiddenFromList = {"auto"}
PROPERTY ListReturns
CHECK_DEADLOCK FALSE
