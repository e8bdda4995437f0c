CONSTANTS
  Origins <- MCOrigins
  Links <- MCLinks
  kMaxOrigins = 1
  kMaxPendingIn = 1
  QueueLength = 1
  MaxLines = 3
  MaxTimeouts = 1
  MaxScripts = 2
  ScriptLines = 3
  JobLines = {2}
  LongLines = {}
SPECIFICATION TerminalFairSpec
INVARIANTS ResultsStayWithTheirOrigin
PROPERTIES LinesInOrder WaitEnds
CHECK_DEADLOCK FALSE
