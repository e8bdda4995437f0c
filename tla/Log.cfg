CONSTANTS
  Capacity = 5
  Wrap = 8
  MaxLength = 2
  MaxRecords = 3
  MaxPackets = 2
  Savers <- MCSavers
  Shell = "shell"
SPECIFICATION Spec
INVARIANTS RetainedUntilStored OneConsumer
CHECK_DEADLOCK FALSE
VIEW WithoutAired
