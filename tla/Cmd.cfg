SPECIFICATION Spec
CONSTANTS
  a1 = a1  a2 = a2  a1x = a1x  b1 = b1  bping = bping  binvalid = binvalid
  A = A  B = B  tcp = tcp  s1 = s1  s2 = s2
  Nothing = Nothing
  Requests = {a1, a2, a1x, bping}
  KeyOf <- MCKeyOf
  Target <- MCTarget
  Kind <- MCKind
  Long = {a1x}
  Slots = {s1, s2}
  QueueDepth = 1
  Direct = {tcp}
  MaxBoot = 2
  MaxSession = 1
INVARIANTS AtMostOnce RepliesAreTrue WorkOwnsItsSlot NoLeakedSlot
SYMMETRY SlotSymmetry
