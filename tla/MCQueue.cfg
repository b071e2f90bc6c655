CONSTANTS
  v1 = v1  v2 = v2  p1 = p1  p2 = p2  q1 = q1  k1 = k1  k2 = k2
  Workers = {v1, v2}
  Payloads = {p1, p2, q1}
  Keys = {k1, k2}
  KeyOf <- SessionOf
  Backlog <- Waiting
  Batch = 2
  MaxFaults = 1
  None = None
SPECIFICATION Spec
INVARIANTS NothingLost NoneStranded FairShare
PROPERTIES Delivered
