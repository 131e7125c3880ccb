\* The rune is etched while the gamers still claim: a claim after that makes its
\* premine another one than update_rune_info asserts.
SPECIFICATION GameSpec
CONSTANTS
  t1 = t1
  t2 = t2
  t3 = t3
  alice = alice
  bob = bob
  aliceII = aliceII
  bobII = bobII
  u1 = u1
  NoTx = NoTx
  NoGamer = NoGamer
  None = None
  InitRuneName = "cookie"
  UpgradeRuneName = "cookie"
  KeyCalls = {k1}
  InitUtxos <- MCInitUtxos
  MaxInitUtxos = 1
  Txids <- MCTxids
  Addresses <- MCAddresses
  Sender <- MCSender
  Spends <- MCSpends
  PrincipalOf <- MCPrincipalOf
  Fee = 2
  MaxU64 = 100
  Calls = {c1}
  Serial = TRUE
  CookiesPerClaim = 5
  CoolingDown = 1
  MaxU128 = 10000
  MaxClaimed = 15
  EtchCalls = {e1}
  EtchEarly = TRUE
  QuietMint = FALSE
  OtherRunes = {}
  MaxTime = 4
INVARIANTS
  EtchedFits
