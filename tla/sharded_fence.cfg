SPECIFICATION Spec
CONSTANTS
  a = a
  b = b
  c = c
  k1 = k1
  k2 = k2
  s1 = s1
  s2 = s2
  x1 = x1
  Ops = {a, b}
  Keys = {k1, k2}
  OpKey <- SameKey
  Closing = {}
  Cancellable = {}
  Lanes = {s1}
  NoLane = NoLane
  Capacity = 1
  TracksIdle = FALSE
  Sections = {}
  NoSection = NoSection
  Stoppers = {"graceful"}
  StopTimeouts = FALSE
  ShardOf <- OneShard
INVARIANT NoSendOnClosed
