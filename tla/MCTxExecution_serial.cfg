\* An orchestrator that waits for each answer; two init_key calls race with
\* three init_btc_utxo calls and an upgrade.
SPECIFICATION Spec
CONSTANTS
  t1 = t1
  t2 = t2
  t3 = t3
  t4 = t4
  t5 = t5
  alice = alice
  bob = bob
  carol = carol
  aliceII = aliceII
  bobII = bobII
  carolII = carolII
  u1 = u1
  u2 = u2
  NoTx = NoTx
  NoGamer = NoGamer
  None = None
  InitRuneName = "first"
  UpgradeRuneName = "upgraded"
  KeyCalls = {k1, k2}
  InitUtxos <- MCInitUtxos
  MaxInitUtxos = 3
  Txids <- MCTxids
  Addresses <- MCAddresses
  Sender <- MCSender
  Spends <- MCSpends
  PrincipalOf <- MCPrincipalOf
  Fee = 2
  MaxU64 = 100
  Calls = {c1}
  Serial = TRUE
INVARIANTS
  TypeOK
  StatesChained
  OneStatePerGamer
  PoolHoldsFees
  PlayIsFunded
  RegistersRecorded
  GamersCanClaim
PROPERTIES
  AddressStable
  ImplementsLedger
