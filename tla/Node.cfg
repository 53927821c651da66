SPECIFICATION NodeSpec
CONSTANTS
  Background = TRUE
  MaxVersions = 1
  BatchSize = 2
  LastVersion = 9
  MaxRestarts = 2
  MaxErrors = 2
  k1 = k1
  k2 = k2
  v1 = v1
  v2 = v2
  r1 = r1
  r2 = r2
  Nil = Nil
  NotRead = NotRead
  NoSnap = NoSnap
  Idle = Idle
  n1 = n1
  n2 = n2
  f1 = f1
  f2 = f2
  NoFeature = NoFeature
  NoEmitter = NoEmitter
  c1 = c1
  c2 = c2
  t1 = t1
  t2 = t2
  contract = contract
  system = system
  Free = Free
INVARIANTS RecentKept  
PROPERTIES  StaleExpires AutoEnabled EventsDispatched CallsReturn
CHECK_DEADLOCK FALSE
