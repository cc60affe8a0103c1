SPECIFICATION Spec
CONSTANTS
  MaxCalls = 2
  MaxReplies = 2
  MaxChunks = 1
  MaxRetries = 1
  BaseDelay = 4
  MaxDelay = 3
  RetryAfter = {3, 4}
  TruncationLimit = 2
  MaxStops = 1
  MaxCrashes = 1
INVARIANTS
  NoProjectorDies
  DraftIsOwned
  NothingIsLost
  ToolsRunOnce
  RequestsAreBounded
PROPERTIES
  ImplementsTranscript
  StopIsObeyed
CHECK_DEADLOCK FALSE
