SPECIFICATION LiveStreamSpec
CONSTANTS
  Absent = Absent
  Refused = Refused
  Scripts <- MCScripts
  LineEnds <- MCLineEnds
  Parsed <- MCParsed
  DefaultCommitUrl = "/default"
INVARIANTS
  MessagesAsSent
  CommitsWhatWasUsed
  UsageOfThisDelivery
PROPERTIES
  OnlySplitsAndBareFramesFail
  AckReturns
CHECK_DEADLOCK FALSE
