\* An orchestrator that calls again before it has its answer: a
\* registration is committed on a state that is no longer the newest.
SPECIFICATION Spec
CONSTANTS
  t1 = t1
  t2 = t2
  t3 = t3
  t4 = t4
  t5 = t5
  alice = alice
  bob = bob
  carol = carol
  aliceII = aliceII
  bobII = bobII
  carolII = carolII
  u1 = u1
  u2 = u2
  NoTx = NoTx
  NoGamer = NoGamer
  None = None
  InitRuneName = "first"
  UpgradeRuneName = "upgraded"
  KeyCalls = {k1, k2}
  InitUtxos <- MCInitUtxos
  MaxInitUtxos = 1
  Txids <- MCTxids
  Addresses <- MCAddresses
  Sender <- MCSender
  Spends <- MCSpends
  PrincipalOf <- MCPrincipalOf
  Fee = 2
  MaxU64 = 100
  Calls = {c1, c2}
  Serial = FALSE
INVARIANTS
  StatesChained
