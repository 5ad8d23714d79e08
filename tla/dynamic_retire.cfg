SPECIFICATION Spec
CONSTANTS
  a = a
  b = b
  c = c
  k1 = k1
  k2 = k2
  q1 = q1
  q2 = q2
  q3 = q3
  x1 = x1
  Ops = {a, b}
  Keys = {k1}
  OpKey <- SameKey
  Closing = {a, b}
  Cancellable = {a}
  Lanes = {q1, q2}
  NoLane = NoLane
  Capacity = 1
  TracksIdle = TRUE
  Sections = {}
  NoSection = NoSection
  Stoppers = {"graceful"}
  StopTimeouts = FALSE
  MaxQueues = 0
  NoOp = NoOp
INVARIANTS
  RetiredIsEmpty
  NoSendOnClosed
