SPECIFICATION FairSpec
CONSTANTS
  Clients = {c1, c2}
  Threads = {t1, t2}
  Topics = {contract}
  System = system
  Removable = {contract, system}
  Free = Free
  Idle = Idle
PROPERTY RemovedWithLastTopic
CHECK_DEADLOCK FALSE
