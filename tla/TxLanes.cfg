SPECIFICATION Spec
CONSTANTS
  result1 = result1  broken = broken  debug1 = debug1  debug2 = debug2
  sample1 = sample1  sample2 = sample2  sample3 = sample3
  p1 = p1  p2 = p2
  Frames = {result1, debug1, debug2}
  KindOf <- MCKindOf
  Producers = {p1, p2}
  Capacity <- OneSlot
  Timeout = 1
  NoFrame = NoFrame
SYMMETRY LaneSymmetry
INVARIANTS TypeOK OvertakenAtMostOnce NoFrameLostOrRepeated
PROPERTY VerdictHonestWhenAlone
