SPECIFICATION FairSpec
CONSTANTS
  a = a
  b = b
  c = c
  k1 = k1
  k2 = k2
  s1 = s1
  s2 = s2
  x1 = x1
  Ops = {a}
  Keys = {k1, k2}
  OpKey <- TwoKeys
  Closing = {a}
  Cancellable = {}
  Lanes = {s1, s2}
  NoLane = NoLane
  Capacity = 1
  TracksIdle = FALSE
  Sections = {x1}
  NoSection = NoSection
  Stoppers = {"hard"}
  StopTimeouts = TRUE
  ShardOf <- TwoShards
PROPERTIES
  SectionsEnd
INVARIANTS
  ExclusiveAlone
