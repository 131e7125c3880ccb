\* Two gamers register, claim, are mined, settled or rolled back; the rune is
\* received when nothing is pending, those of its rune or as many of another, and
\* the second gamer may come after that.
SPECIFICATION ReeSpec
CONSTANTS
  t1 = t1
  t2 = t2
  t3 = t3
  alice = alice
  bob = bob
  aliceII = aliceII
  bobII = bobII
  u1 = u1
  NoTx = NoTx
  NoGamer = NoGamer
  None = None
  InitRuneName = "cookie"
  UpgradeRuneName = "cookie"
  KeyCalls = {k1}
  InitUtxos <- MCInitUtxos
  MaxInitUtxos = 1
  Txids <- MCTxids
  Addresses <- MCAddresses
  Sender <- MCSender
  Spends <- MCSpends
  PrincipalOf <- MCPrincipalOf
  Fee = 2
  MaxU64 = 100
  Calls = {c1}
  Serial = TRUE
  MaxDepth = 2
  Hashes = {h1, h2}
  FirstHeight = 2
  MaxHeight = 4
  MaxTxs = 1
  MaxReorgs = 1
  MaxResets = 1
  LateConfirm = FALSE
  CookiesPerClaim = 5
  CoolingDown = 1
  MaxU128 = 10000
  MaxClaimed = 10
  EtchCalls = {e1}
  EtchEarly = TRUE
  QuietMint = TRUE
  OtherRunes = {0, 6, 12}
  MaxTime = 3
SYMMETRY Symmetry
INVARIANTS
  RunesKept
  PayoutsCovered
PROPERTIES
  SettledGamersStay
  MinedGamersStay
  ImplementsPurse
