\* The chain grows from height 3 to 7 with two reorganisations and one reset of the
\* stored blocks, while gamers register and are rolled back.
SPECIFICATION BlockSpec
CONSTANTS
  t1 = t1
  t2 = t2
  t3 = t3
  alice = alice
  bob = bob
  aliceII = aliceII
  bobII = bobII
  u1 = u1
  NoTx = NoTx
  NoGamer = NoGamer
  None = None
  InitRuneName = "cookie"
  UpgradeRuneName = "cookie"
  KeyCalls = {k1}
  InitUtxos <- MCInitUtxos
  MaxInitUtxos = 1
  Txids <- MCTxids
  Addresses <- MCAddresses
  Sender <- MCSender
  Spends <- MCSpends
  PrincipalOf <- MCPrincipalOf
  Fee = 2
  MaxU64 = 100
  Calls = {c1}
  Serial = TRUE
  MaxDepth = 3
  Hashes = {h1, h2}
  FirstHeight = 3
  MaxHeight = 7
  MaxTxs = 2
  MaxReorgs = 2
  MaxResets = 1
  LateConfirm = FALSE
SYMMETRY Symmetry
INVARIANTS
  BlockTypeOK
  StatesChained
  OneStatePerGamer
  PoolHoldsFees
  BlocksContiguous
  ConfirmedCanFinalize
  NewBlockNeverPanics
  SettledInTime
  ConfirmedIsMined
  OldestIsFinal
PROPERTIES
  FinalizesDeep
  ImplementsLedger
