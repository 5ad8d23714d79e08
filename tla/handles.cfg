SPECIFICATION FairSpec
CONSTANTS
  c1 = c1
  c2 = c2
  r1 = r1
  r2 = r2
  Calls = {c1, c2}
  Readers = {r1, r2}
  NoCall = NoCall
  MaxSteps = 2
INVARIANTS
  InnerSerialized
  NoLeak
  CleanBeforeFinally
  NoStaleRead
  OutcomeTrue
  RetryUnsafeTrue
PROPERTIES
  SettlesOnce
  ClosedForGood
  CallsEnd
  CommittedByDecision
  ChainResolves
