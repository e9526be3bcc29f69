CONSTANTS
  ann = ann  ben = ben  o1 = o1  o2 = o2  p1 = p1  p2 = p2  p3 = p3  p4 = p4
  Agents = {ann, ben}
  Bare = {ben}
  Supervised = {ann}
  Startable = {ann, ben}
  Ops = {o1, o2}
  Pids = {p1, p2, p3}
  NoPid = NoPid
  Idle = Idle
  NoOp = NoOp
  MayForce = TRUE
  MayCrash = TRUE
  SlowBoot = TRUE
  StartWait = 1  StopWait = 1  LockTimeout = 2
SPECIFICATION FairSpec
CHECK_DEADLOCK FALSE
INVARIANT TypeOK
INVARIANT VerificationHoldsLock
INVARIANT OneOperationPerAgent
PROPERTY StopMeansDown
PROPERTY LocksAreReleased
