SPECIFICATION FairSpec
CONSTANTS
  HistoryDepth = 2
  Requestable = {"COMM_CONFIG"}
  Chords = {"none", "usb"}
  Modes = 2
  Serial = 1
  Buttons = {0, 2}
INVARIANTS HistoryIsAPath GatesKeepDebug
PROPERTY RequestIsTaken
