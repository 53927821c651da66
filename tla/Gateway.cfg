SPECIFICATION Spec
SYMMETRY Symmetry
CONSTANTS
  u1 = u1  u2 = u2  u3 = u3  e1 = e1  e2 = e2  e3 = e3  e4 = e4  o1 = o1  o2 = o2  o3 = o3
  t1 = t1  t2 = t2
  GatewayAddr = GatewayAddr  NoUser = NoUser  NoReceipt = NoReceipt  NoSig = NoSig
  NoExec = NoExec
INVARIANTS
  Backed
  AppliedOnce
  NothingSkipped
  
