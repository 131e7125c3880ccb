\* Two gamers claim and end the game while registrations overlap and are rolled
\* back; its rune is etched after the end and received in the end.
SPECIFICATION FairGameSpec
CONSTANTS
  t1 = t1
  t2 = t2
  t3 = t3
  alice = alice
  bob = bob
  aliceII = aliceII
  bobII = bobII
  u1 = u1
  NoTx = NoTx
  NoGamer = NoGamer
  None = None
  InitRuneName = "cookie"
  UpgradeRuneName = "cookie"
  KeyCalls = {k1, k2}
  InitUtxos <- MCInitUtxos
  MaxInitUtxos = 1
  Txids <- MCTxids
  Addresses <- MCAddresses
  Sender <- MCSender
  Spends <- MCSpends
  PrincipalOf <- MCPrincipalOf
  Fee = 2
  MaxU64 = 100
  Calls = {c1, c2}
  Serial = FALSE
  CookiesPerClaim = 5
  CoolingDown = 1
  MaxU128 = 10000
  MaxClaimed = 15
  EtchCalls = {e1}
  EtchEarly = FALSE
  QuietMint = FALSE
  OtherRunes = {}
  MaxTime = 4
INVARIANTS
  GameTypeOK
  CookiesCovered
  ClaimsAreSpaced
  EndAgrees
  EtchedFits
  RegistersRecorded
  GamersCanClaim
PROPERTIES
  FinalCount
  EndedIsMinted
