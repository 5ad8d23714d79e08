SPECIFICATION Spec
CONSTANTS
  a = a
  b = b
  c = c
  k1 = k1
  k2 = k2
  q1 = q1
  q2 = q2
  q3 = q3
  x1 = x1
  Ops = {a, c}
  Keys = {k1, k2}
  OpKey <- TwoKeys
  Closing = {a, c}
  Cancellable = {a}
  Lanes = {q1, q2}
  NoLane = NoLane
  Capacity = 1
  TracksIdle = FALSE
  Sections = {x1}
  NoSection = NoSection
  Stoppers = {"graceful"}
  StopTimeouts = FALSE
  MaxQueues = 1
  NoOp = NoOp
INVARIANTS
  ExclusiveAlone
  StopQuiescent
