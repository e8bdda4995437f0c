SPECIFICATION FairSpec
CONSTANTS
  result1 = result1  broken = broken  debug1 = debug1  debug2 = debug2
  sample1 = sample1  sample2 = sample2  sample3 = sample3
  p1 = p1  p2 = p2
  Frames = {debug1, sample1, sample2}
  KindOf <- MCKindOf
  Producers = {p1}
  Capacity <- TwoSlots
  Timeout = 1
  NoFrame = NoFrame
INVARIANT CountersAddUp
PROPERTIES KeepsPromise QueuedFramesSettle
