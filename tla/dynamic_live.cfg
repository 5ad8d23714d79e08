SPECIFICATION FairSpec
CONSTANTS
  a = a
  b = b
  c = c
  k1 = k1
  k2 = k2
  q1 = q1
  q2 = q2
  q3 = q3
  x1 = x1
  Ops = {a, c}
  Keys = {k1, k2}
  OpKey <- TwoKeys
  Closing = {a}
  Cancellable = {}
  Lanes = {q1, q2, q3}
  NoLane = NoLane
  Capacity = 1
  TracksIdle = TRUE
  Sections = {}
  NoSection = NoSection
  Stoppers = {"graceful"}
  StopTimeouts = FALSE
  MaxQueues = 1
  NoOp = NoOp
PROPERTIES
  OpsResolve
  StopReturns
INVARIANTS
  AbortsOnlyOnHardStop
