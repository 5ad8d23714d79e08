SPECIFICATION Spec
CONSTANTS
  u1 = u1
  u2 = u2
  u3 = u3
  m1 = m1
  p1 = p1
  p2 = p2
  o1 = o1
  o2 = o2
  x1 = x1
  x2 = x2
  Users = {u1, u2, u3}
  Admins = {m1}
  NoUser = NoUser
  Policies = {p1, p2}
  Orders = {o1, o2}
  Processes = {process1, process2}
  Artifacts = {artifact1, artifact2}
  NoFile = NoFile
  Foreign = Foreign
  Aggregates = {x1, x2}
  Blocks = {b1, b2, b3}
  NoBlock = NoBlock
  Callers = {caller1, caller2}
  Services = {service1, service2}
  First = service1
  Book = book
  Buckets = {"account", "group", "default"}
SYMMETRY AnyBlock
CHECK_DEADLOCK FALSE
INVARIANTS
  NoOrphan
  RefusedIsUnapplied
  RequestDestroyedOnce
  PolicyOwnedOnce
  CallbacksLive
  FailuresBlock
  KillSwitchHolds
  LoadedWhole
  MemoryLive
  ServiceLive
PROPERTIES
  NothingResurfaces
