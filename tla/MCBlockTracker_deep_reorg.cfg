\* The block at exactly the largest recoverable depth is already forgotten.
SPECIFICATION BlockSpec
CONSTANTS
  t1 = t1
  t2 = t2
  t3 = t3
  alice = alice
  bob = bob
  aliceII = aliceII
  bobII = bobII
  u1 = u1
  NoTx = NoTx
  NoGamer = NoGamer
  None = None
  InitRuneName = "cookie"
  UpgradeRuneName = "cookie"
  KeyCalls = {k1}
  InitUtxos <- MCInitUtxos
  MaxInitUtxos = 1
  Txids <- MCTxids
  Addresses <- MCAddresses
  Sender <- MCSender
  Spends <- MCSpends
  PrincipalOf <- MCPrincipalOf
  Fee = 2
  MaxU64 = 100
  Calls = {c1}
  Serial = TRUE
  MaxDepth = 3
  Hashes = {h1, h2}
  FirstHeight = 3
  MaxHeight = 6
  MaxTxs = 2
  MaxReorgs = 1
  MaxResets = 0
  LateConfirm = FALSE
INVARIANTS
  RecoverableKept
