SPECIFICATION LiveSpec
CONSTANTS
  u1 = u1  u2 = u2  e1 = e1  e2 = e2  o1 = o1  t1 = t1
  GatewayAddr = GatewayAddr  NoUser = NoUser  NoReceipt = NoReceipt  NoSig = NoSig
  NoExec = NoExec
  Users = {u1, u2}
  EthAddrs = {e1, e2}
  TokenIDs = {t1}
  Kind = "ETH"
  CheckTxHash = FALSE
  Oracles = {o1}
  Blacklist = {u2}
  Confirmations = 1
  Amounts = {1}
  SharedTx = FALSE
  ResetAllowed = FALSE
  MaxEvents = 2
  MaxNonce = 1
  MaxFaults = 1
INVARIANTS
  WithdrawalsLinked
PROPERTIES
  DepositsApplied
  WithdrawalsSigned
