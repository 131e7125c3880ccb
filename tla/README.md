# ree-cookie in TLA+

Specifications, model checks and proofs for the `ree-cookie` canister: an
exchange on the Internet Computer that runs a clicker game whose entry fee is
paid in bitcoin, through transactions an outside *orchestrator* executes,
reports as mined and rolls back. Paths below are relative to the repository, so
`canister.rs` is `src/canister.rs` there (`src/src/canister.rs` in the maps of
`PROJECT.json`).

## 1. The system

| Part | State | Operations | Interacts with |
|---|---|---|---|
| Life-cycle and set-up (`canister.rs` 33-96, 563-574; `state.rs` 30-150) | `rune_name`, `key`/`address`, `game_status` | `init`, `init_key` (awaits the management canister), `init_btc_utxo`, `post_upgrade`, `finish_*`, `end`, `rune_minted`, ... | every other part reads `address` |
| Pool states (`state.rs` 351-438) | `states`, the pool's history | `commit`, `finalize`, `rollback`, `last_state` | `commit` by `execute_tx`, `finalize` by `new_block`, `rollback` by `rollback_tx`; rollback edits `GAMER` |
| Transaction execution (`canister.rs` 277-412, 504-539; `psbt.rs`) | `TX_RECORDS`, `ADDRESS_PRINCIPLE_MAP`, `GAMER` | `execute_tx` (awaits a signature and a principal), `rollback_tx` | management canister, identity canister, orchestrator |
| Block tracking (`canister.rs` 414-502, 541-546; `reorg.rs`) | `BLOCKS`, `TX_RECORDS` | `new_block`, `detect_reorg`, `handle_reorg`, `reset_blocks` | orchestrator (bitcoin), pool states |
| Game and gamers (`game/*.rs`, `canister.rs` 130-149) | `Game`, `GAMER` | `claim`, `end_game`, `register_new_gamer` | time, registrations and their rollback |
| Rune etching and liquidity (`canister.rs` 151-205; `state.rs` 161-272) | `etching_key`, `rune_id`, `rune_balance` | `etch_rune` (awaits), `update_rune_info`, liquidity and withdrawal (unfinished: `todo!()`) | rune customs canister, newest pool state |
| Persistent state (`memory.rs`) | a stable cell and four stable maps | `mutate_state`, `read_state` | everything |
| Queries, errors, logs, did files, tests | - | - | - |

How it runs. A canister handles one message at a time. A handler with awaits is
several messages; others run in between. A panic undoes the message it happens
in, and no other; an `Err` that is returned undoes nothing. All state is in
stable memory and survives upgrades.

What is hard:

* `execute_tx` validates a registration, awaits twice, and commits what it
  computed before. `init_key` and `etch_rune` have the same shape.
* A rollback undoes the registrations of other gamers that build on it.
* Reorganisations: blocks are replaced, confirmations undone, records flip
  between `(txid, false)` and `(txid, true)`.
* `new_block` finalizes from stored blocks, in their order, with an `unwrap`: one
  transaction that is not in the history blocks this and every later call.
* A step that half succeeds: `new_block` before `init_key`.

What makes each part correct:

* set-up: play starts exactly when key and utxo are there; the address never
  changes.
* pool states and execution: the history is a chain of spends; it holds one fee
  per gamer; gamers, principals and records agree with it.
* blocks: the stored blocks are the top of the chain without a gap; a record is
  confirmed exactly while its transaction is mined; what is finalized stays
  mined; what is mined is finalized.
* game: the cookies of all gamers never exceed those counted as claimed, nor
  those etched; nothing is claimed after the end.

## 2. Plan

Modules, in the order they are written. Each layer EXTENDS the one above it, so
a later action sees the whole state.

1. `GameStatus`, `PoolStates`: operators only. *(done)*
2. `ExchangeSetup`: `init`, `init_key`, `init_btc_utxo`, `post_upgrade`. *(done)*
3. `TxExecution`: `execute_tx` for registrations, `rollback_tx`. *(done)*
4. `PoolLedger`: the abstract ledger, implemented by `TxExecution` and by
   `BlockTracker`. *(done)*
5. `BlockTracker`: `new_block`, `reset_blocks`, bitcoin. *(done)*
6. `PoolStatesProofs`, `TxExecutionProofs`. *(done)*
7. `CookieGame` EXTENDS `TxExecution`: `claim`, `end_game`, `etch_rune`,
   `update_rune_info`. *(done)*
8. `Settlement`, `SettlementLoop`: the closed form of the finalizing loop, compared
   with the loop itself. *(done)*
9. `CookiePurse`, what the game promises, and `ReeCookie`, `BlockTracker` and
   `CookieGame` together, which implements it. *(done)*
10. `LedgerProofs` (with `FiniteSums`), `CookieGameProofs`, `BlockTrackerProofs`,
    `SettlementLoopProofs`, `ReeCookieProofs`: all safety properties of the runs for
    every value of the constants, each layer's and those of the whole. *(done)*

## 3. Modules and code

**GameStatus** is the enum and its `finish_init_key` and `finish_init_btc`. `end` and
`rune_minted` have one status to start from and are in the actions that call them.
`LiquidityAdded` and `Withdrawable` are not reached by any code.

**PoolStates** has the three methods on `states`. A pool state is a record with
the code's fields; `rune_utxo` is always `None` in the code and left out.
`finalize` (rotate and truncate) is a `SubSeq`; `rollback` is three operators: when
it does not fail, what it leaves of the history, what it leaves of `GAMER`.

**ExchangeSetup**. `key` and `address` are one variable: the derivation path they
come from. `init_key` is `InitKeyCall` (to the await), `InitKeyReply` (after it)
and `InitKeyFails`. `PostUpgrade` rewrites the rune name; a canister is stopped
for an upgrade, so nothing is in flight then.

**TxExecution**. `execute_tx` is `ExecuteRegister` (guards and validation, up to
the await in `psbt::sign`), `SignReply` (up to the await of `get_principal`),
`CommitRegister` (the rest: gamer, pool state, principal, record), and
`ExecuteFails`. `calls` holds what a call carries over its awaits.
`RollbackTx` is `rollback_tx`. A transaction is an id, its sender and the outpoint
it spends: the orchestrator passes psbts that do what their intention says, the
code does not check that either. `nonce` is free, so wrong ones are refused by the
guard. Every record names the one pool, so `pools` is left out.

`Serial` is the one assumption about the orchestrator's pace: whether it waits for
the answer to an `execute_tx` before the next `execute_tx` or `rollback_tx`. The
code does not enforce it, so runs and theorems say which they take.

**BlockTracker**. `NewBlock` is the whole of `new_block`, `detect_reorg` and
`handle_reorg`. `chain` is bitcoin as far as it has been reported, from
the first block on, and `peak` the height of its longest branch so far:
blocks hold transactions the exchange signed, parents first, no double
spends. `ExtendChain`, `ReplaceBlock`, `RepeatBlock` are the three ways the
orchestrator calls `new_block`; `RollbackUnmined` its call of `rollback_tx`, for
transactions that are not in the chain. After `reset_blocks` the orchestrator may go
on at the tip, report a block of another branch, or report blocks again, from the
lowest that is not settled.
`LateConfirm` says whether a transaction may be mined after it was rolled back. A
report that `detect_reorg` refuses changes nothing and has no action. `CanProcess` is the part of
`NewBlock`'s guard that says that no `unwrap` in the message fails; an accepted report for
which it is false would be a panic, and `NewBlockNeverPanics` says that there is none.

**Settlement** is the loop of `new_block` that finalizes, in closed form: each settled
transaction must be in the history, at a place no earlier than those before it in
the chain (else an `unwrap` traps and the message never happened); the history then
starts at the last of them. **SettlementLoop** is the loop as it is written, one
transaction a step: `rest` are the blocks it is not through with, `seen` how far it is in
the lowest of them. It starts from every input; the module is its own instance for TLC.

**CookieGame** adds the game to `TxExecution`: the total of claimed cookies, the
`is_end` flag, a clock and the `etch_rune` calls that wait. `Claim` is `claim` with
`Game::claim` and `able_claim`, `EndGame` is `end_game`; everybody may call them, as
in the code ("need permission check", `canister.rs` 142). `etch_rune` is `EtchRuneCall`
(reads the premine), `EtchRuneReply` and `EtchRuneFails`; bitcoin etches a name once.
`UpdateRuneInfo` is `update_rune_info` for a utxo with so many runes, or with none. The code
asserts the amount and looks neither at the rune nor at the caller; `Mint` says which utxos it
is called with: the premine of the rune that was etched, or one of `OtherRunes`. `rune_id`
and `etching_key` are only shown by queries and left out. `LiquidityBtc`,
`LiquidityRunes` and `WithdrawRunes` are the amounts that `query_add_liquidity_info`
and the two unfinished validations compute.

Three constants say what the code leaves to whoever runs the game: `EtchEarly`, whether
`etch_rune` is called before the game has ended, `QuietMint`, whether
`update_rune_info` waits until no registration is pending or in flight, and `OtherRunes`,
which amounts of other runes it may be called with.

**ReeCookie** puts the two together: each step of the one part leaves the variables of
the other alone, and an upgrade waits for the calls of both.

**CookiePurse** is what the game promises: a purse per gamer and a count of all that
was claimed, closed once and then turned into runes. The refinement mapping takes the
cookies in `GAMER`, `claimed_cookies`, the negated `is_end`, and the rune balance of
the newest pool state.

**PoolLedger** is what the pool promises: registrations take effect at once, are
pending, and are settled oldest first or reverted from some point on. The
refinement mapping takes tip and value of the newest state, the keys of `GAMER`, and
all states but the oldest as pending.

**MCTxExecution**, **MCBlockTracker**, **MCCookieGame** and **MCReeCookie** give the constants their small values.
Definitions marked `Mutant:` are not part of the specifications: each is a version
of the definition after it with a plausible bug, which the checks tell apart.

## 4. Runs

| Run | Question | Answer |
|---|---|---|
| `serial` | five transactions, three gamers, two `init_key` calls, three calls of `init_btc_utxo`, an upgrade, one call at a time | all invariants, `AddressStable`, and the refinement `ImplementsLedger` hold |
| `stale` | two calls of `execute_tx` at once and rollbacks in between: is the history still a chain? | no: `StatesChained` is violated |
| `follow` | blocks 3 to 7 with depth 3, two reorganisations, repeated blocks, one `reset_blocks`, three transactions | all hold, also the refinement; `new_block` panics on no block bitcoin may bring next (`NewBlockNeverPanics`) and is never late (`SettledInTime`) |
| `settle` | a chain that grows, one reorganisation, fairness | `MinedIsFinalized` holds |
| `deep_reorg` | is every block kept that a recoverable reorganisation may replace? | no: `RecoverableKept` is violated at exactly the largest depth |
| `play` | two gamers, three registrations two of which overlap, rollbacks, claims, end, etching after the end, under fairness | `CookiesCovered`, `ClaimsAreSpaced`, `EndAgrees`, `EtchedFits`, `RegistersRecorded`, `GamersCanClaim`, `FinalCount` and `EndedIsMinted` hold |
| `lost_runes` | does the newest pool state keep the runes? | no: `RunesKept` is violated by a rollback |
| `early_etch` | when the game has ended, does the rune fit what the gamers claimed? | no: `EtchedFits` is violated |
| `loop` | three transactions, at most two blocks of up to two, up to three states: is the closed form the loop? | yes: `LoopAgrees` |
| `whole` | game and chain at once: heights 2 to 4 with depth 2, a reorganisation, a reset, claims, runes received, registrations after that | `RunesKept`, `PayoutsCovered`, `SettledGamersStay`, `MinedGamersStay` and the refinement `ImplementsPurse` hold |
| `renamed` | does a pool sign with its address's key after an upgrade? | no: `SignsForItsAddress` is violated |
| `late_confirm` | may a rolled back transaction be mined after all? | no: `ConfirmedCanFinalize` is violated |

The six violated runs are findings:

1. *A stale commit* (`canister.rs` 317-344 against the comment at `state.rs` 299).
   Two registrations are validated on the same state; both are committed. Nothing
   looks at the newest state, the nonce or `GAMER` again after the awaits. An
   orchestrator that waits for each answer avoids it (`serial`, theorem
   `SerialChain`).
2. *Off by one at the reorganisation depth* (`canister.rs` 459-492 against its
   comment, and `reorg.rs` 61). `new_block` settles and forgets the block at depth 64
   which `detect_reorg` still counts as recoverable; that reorganisation then ends in
   `BlockNotFoundInState`.
3. *A record that outlives its rollback* (`canister.rs` 519-536 and 465-479). If the
   transaction is mined later, its record is confirmed, no pool state has its id, and
   `finalize(..).unwrap()` traps for every further block.
4. *Runes that go with a rollback* (`canister.rs` 179-195). `update_rune_info` writes the
   balance into the newest pool state only. If that registration is rolled back, the
   newest state is one with no runes, and the status `RunesMinted` lets
   nobody write them again.
5. *An early etching* (`canister.rs` 158 and 188-191). `etch_rune` may be called during
   the game and is sized by the cookies claimed until then: in the run by none, before the
   only claim. That claim makes the assertion of `update_rune_info` fail for this rune, once the
   game has ended for good, and the name is etched only once. (As many of another rune would be
   accepted, and an early etching with no claim after it fits.) Etching
   after the end avoids it (`play`), and receiving the runes when nothing is
   pending avoids the one before (`whole`).
6. *A path that changes under its address* (`canister.rs` 571-573 against 227-228 and 329-330).
   `rune_name` is name and derivation path at once; if `init` got another one than
   `post_upgrade` writes, signatures no longer fit the pool's address. The run ends where
   such a signature is asked for.

Bounds. Five transactions are enough for a chain of three, a competitor for the
first utxo and a child of the competitor; rollbacks then hit the first, middle
and last of a chain, and a gamer registers again by another transaction. Two calls
in flight are the smallest overlap, and what breaks does so with two. Depth 3
stands for 64: heights 3 to 7 let a transaction be mined, replaced, mined again
and settled, with its child settled after it. `MaxReorgs`, `MaxResets`,
`MaxInitUtxos`, `MaxTxs` and `MaxHeight` are the only bounds on behaviour; a fee of
2 and utxos of 3 and 4 sats tell fee and utxo apart. `MaxU64` is never reached in the
runs: the overflow guard of the code refuses such a registration before it changes
anything.

In the game runs t1 and t3 are registrations of one gamer on the first utxo, and t2 one
of the other on top of t1: a gamer is rolled back and registers again, or is committed
twice. Four seconds with a cooldown of one allow two claims per registration;
`MaxClaimed` allows three in all (a gamer who registers again starts without a cooldown,
so that time alone does not bound them). `MaxU128` is far above.

In `whole` depth 2 is the smallest at which a block can be replaced; a registration is
settled by the next block, so that the runes can be received between two
registrations. t3 is a second registration of a gamer who is settled, which must be
refused. Blocks of two transactions are left to `follow`. `OtherRunes` has every premine that
the bound on the claims allows, so that `update_rune_info` may also be called with runes that
were never etched; in the other runs of the game, above all in `play`, whose liveness is about the rune that
was etched, it is empty.

`loop` starts from every input, reachable or not: a transaction listed twice, a child
before its parent, records of others. Only there the deadlock check is off, as the loop
ends. Symmetry is used in `follow`
and `whole` only, for block hashes; neither has a liveness property.

Fairness. `settle` takes weak fairness of `Extend`: bitcoin finds
blocks and the orchestrator reports them. `reset_blocks` is excluded there: it forgets
blocks whose transactions are then settled only with a later one. `play` assumes that
whoever runs the game calls `etch_rune` again while the rune is not there and then
`update_rune_info` (weak fairness: nothing in the code disables the calls once the game has
ended), and that the customs canister does not refuse every time (strong fairness of
`EtchRuneReply`: failures in between disable it). No timer in the code makes these calls;
the run shows that the code never closes the way for an operator who does. Gamers,
registrations and other replies are not assumed fair.

## 5. Proofs

`TxExecutionProofs` proves for every set of transactions, gamers, utxos, fees and
calls, under the named assumptions of the modules (`NoneAssumption`,
`TxAssumption`, `PrincipalAssumption` - the identity canister gives each address a
principal of its own -, `SatsAssumption`, `MaxInitUtxosAssumption`):

* `TypeCorrect`: `TypeOK`.
* `PlayFunded`, `AddressNeverChanges`: by the inductive invariant `SetupInv`.
  `PlayIsFunded` is not inductive: it needs that the status says exactly which of
  address and utxo are there (`StatusInv`), that an `init_key` call in flight carries
  the current rune name, which is the address's if there is one (`KeyInv`), and that
  before play no transaction is in flight or in the history (`QuietInv`).
* `SignsUntilRenamed`, `SameNameSigns`: by `NameInv`, that the rune name is the one of `init` or
  the one of `post_upgrade`, and the path of the address the one of `init` until the rename. So `SignsForItsAddress`,
  which the run `renamed` refutes, holds until the rename, and for good if the two names are one.
* `RecordsComplete`, `GamersFound`: relative to `SetupInv`, also when calls overlap.
* `SerialChain`, `SerialGamers`: assuming `Serial`, by `HistoryInv`. The strengthening
  is `FitInv`: the one call in flight carries a registration that still fits the
  newest state. It is what overlap destroys.

`LedgerProofs`, still assuming `Serial`:

* `SerialFees`: `PoolHoldsFees`, by `FundInv`. A rollback takes several states at once, so
  `StatesChained`, which compares neighbours, is not enough: `ChainInv` compares any two
  states, `OriginInv` says what each state was made from. That as many gamers go as
  states are popped rests on `OneStatePerGamer` (a bijection, in `RollbackMembers`).
* `LedgerImplemented`: every step maps to `Fund`, `Register`, `Revert` or a stutter of
  `PoolLedger`. A history splits at `FixedLength` in one way only (`FixedSplits`),
  which says what is pending before and after a step.

`CookieGameProofs` treats a step of the game as one of `TxExecution` (whose lemmas apply)
or a `GameStep`, which leaves all of the history but its runes:

* `GameTypeCorrect`, `EndFlagAgrees`, `CountStaysFinal`: by `LifeInv`, which adds to `SetupInv`
  that `is_end` says whether the status is past `Play`.
* `CookiesStayCovered`: the sum over `GAMER`, also when calls overlap. `FiniteSums`
  proves what the sums of the community modules do when an element is added, removed or
  changed.
* `ClaimsStaySpaced`, for the claims since a gamer's present registration (a rollback and a new
  registration start the cooldown anew, in the code as in the model): by itself inductive; the arithmetic is that one cooldown and one
  second more give one more claim (`OneMoreClaim`).
* `LateEtchFits` assumes `~EtchEarly`: an etching under way has today's premine.
* `QuietRunesKept` assumes `QuietMint` but nothing of `OtherRunes` or the etching, by `RunesInv`: all states of the history and the calls in
  flight have the runes of now, so that a commit brings them and a rollback cannot lose
  them. `QuietPayoutsCovered` assumes `Serial` too and adds up the others.
* `GameRecordsComplete`, `GameGamersFound`: what `TxExecution` promises, with the game.

`BlockTrackerProofs` treats a step as one of `TxExecution`, a reset, or a reported block
(`Reported`, the common form of the three ways):

* `BlockTypeCorrect`: with `HeightInv`, that the chain reaches from `FirstHeight` to
  its tip and `peak` is no lower.
* `BlockChain`, `BlockGamers`, `BlockFees`, `BlockLedgerImplemented`, assuming `Serial`: for the
  pool, `new_block` is a `Cut` of some oldest states (`NewBlockCuts`), which keeps the
  invariants above and is a `Settle` of the ledger.
* `BlocksStayContiguous`: by `GapInv` and `CopyInv`. The three cases of `detect_reorg` are
  exactly those that leave no gap.
* `RecordsFollowChain`: `ConfirmedIsMined` is not inductive. It needs that a transaction is in
  one block only (`UniqueInv`), or it would be confirmed once more than unconfirmed; and
  without resets that every block that is not settled is stored (`StoredInv`), or
  a reorganisation would replace a block that it does not find.
* `OldestStaysMined`: by `OldestInv`, that the oldest state's transaction is mined below every
  stored block and at a depth no reorganisation reaches.
* `ConfirmedStaysFinalizable`, assuming `Serial` and `~LateConfirm`: by `LiveInv`, that the
  transactions of every block that is stored, or may be reported again, are in the
  history. It holds because the history is in the order of the chain (`HistoryInOrder`):
  a state spends the one before it, so what a mined state was built on is mined, and
  mined before it (`OrderInv`). A rollback of a transaction that is not mined
  therefore pops nothing that is, and what `new_block` forgets with a settled
  transaction is mined below the blocks it leaves (`ForgottenIsDeep`). `IdInv` says that
  only registrations have an id, `OutpointAssumption` that no transaction of the exchange
  made a utxo that `init_btc_utxo` brings in: bitcoin has no cycles.
* `NewBlockNeverFails`, with the same assumptions: `NewBlockNeverPanics` looks at every block that
  bitcoin may bring next, not only at those stored. Whichever it is, the blocks that would
  then be stored are part of one chain in which each transaction has one place, after
  its parent (`MinedBlockFits` for a new one, `RepeatedBlockFits` for one reported before), so that the
  loop finds them in the order of the history.
* `SettledPromptly`, with the same assumptions: `SettledInTime`, the safety half of the liveness property
  `MinedIsFinalized`. By `PromptInv` (what is pending and mined is in a stored
  block that is not deep yet) and `MinedGamersInv` (whose registration is mined is in `GAMER`, with no
  other state: he cannot register by the same transaction again once it was forgotten).
* `FinalizedDeep`: from `UniqueInv` and what a step that removes the oldest state has done
  (`SettledFacts`).
* `ShallowStayStored`: what is true of `RecoverableKept`, which the run `deep_reorg` refutes:
  without a reset, a block is stored under every depth but the largest.
* `HistoryIdsUnique`, assuming `Serial`: no transaction makes two states. It is what `LoopInit`
  takes of a history, so that `LoopIsClosedForm` is about every history the exchange reaches.

`SettlementLoopProofs` proves `LoopIsClosedForm`, `LoopAgrees` for every history, blocks and records. `LoopInv`
says what has been settled when the loop is at a place: all that is due before it (`Reached`)
is in the history and in its order, and what is left starts at the deepest of them (`LeftInv`).
The one fact about `Finalize` it rests on is that cutting twice is cutting once, at
the later place (`FinalizeHas`).

`ReeCookieProofs` joins the two: a step is one of `BlockTracker` with the game unchanged or a
`GameStep` with the chain unchanged, so the lemmas on steps combine.

* `WholeRunesKept`, `WholePayoutsCovered`: as for the game; a cut leaves only states that were
  there.
* `SettledStayForGood`, assuming `Serial`: a commit that fits is of a new gamer, and a
  rollback pops states after the oldest.
* `MinedStayForGood`, assuming `Serial` and `~LateConfirm`: the same is true of a gamer from the moment his
  registration is mined, when rollbacks can still reach his state (`MinedGamersStay`): the
  states a rollback of an unmined transaction pops are not mined (`OrderInv`), and `MinedGamersInv`
  holds after the step too.
* `PurseImplemented`, assuming `Serial` and `QuietMint`. The branch of `claim` that writes the
  total and then fails is shown never to be taken: a gamer's cookies are part of a sum
  that is at most the total (`CoverInv`), and the total was just checked.

* The other theorems named `Whole...` carry what was proved of the parts over to the two together:
  `BitcoinInv` for the chain (`WholeBlocksContiguous`, `WholeRecordsFollow`, `WholeOldestMined`,
  `WholeFinalizedDeep`, `WholeShallowStored`, `WholeStaysFinalizable`, `WholeSettledPromptly`), `WaitInv` for the pool
  (`WholePoolConsistent`, `WholeIdsUnique`, `WholeLedgerImplemented`), `ServiceInv` and
  `LifeInv` for the rest. They are not corollaries: a step of the game writes runes into the
  newest state and cookies into `GAMER` while blocks settle and rollbacks pop them, and a block
  shortens the history on which the game's invariants are stated.

`PoolStatesProofs` has the lemmas on `Position`, `Rollback` and `Finalize`. Where an
induction is needed (a first position, a sum over a finite set) it is made in set form:
strict inclusion on intervals or on finite sets is well-founded.

`Serial`, `QuietMint`, `~EtchEarly` and `~LateConfirm` are assumptions about the operators of the
exchange, not about the code; without them the runs `stale`, `lost_runes`, `early_etch` and
`late_confirm` refute the same properties. So each of the six findings has its theorem, which
says under which condition the property holds: `SerialChain`, `QuietRunesKept`, `LateEtchFits`,
`ConfirmedStaysFinalizable`, `SignsUntilRenamed`, `ShallowStayStored`. `MaxClaimed` and `MaxTime` are any
numbers, as are the other bounds.

Model-checked only: the liveness properties `MinedIsFinalized` and `EndedIsMinted`, which are out of
the proof system's reach. Every invariant and every action property of the
passing runs is the subject of a theorem.

## 6. Not modelled

* Cryptography, psbt contents and addresses: signing is an await that
  may fail, and a key is the path it is derived by.
* The intentions `withdraw` and `add_liquidity`: they panic in `todo!()` or return an
  error before anything changes.
* An orchestrator that, after `reset_blocks`, starts again at a block that was settled. The
  exchange accepts any height then (`reorg.rs` 41-43); a transaction that was settled and
  built upon would be finalized once more and `finalize(..).unwrap()` would trap.
  `MayReport` stops at the lowest block that is not settled, and so does what
  `NewBlockNeverPanics`, `ConfirmedCanFinalize` and their theorems say. The records of forgotten blocks that
  a reorganisation replaces after a reset stay confirmed; `ConfirmedIsMined` says nothing then.
* Heights below the reorganisation depth, where `block_height - 64` would wrap:
  `HeightAssumption` excludes them.
* `claimed_cookies` near the end of `u128`: `Premine` wraps as the code does, the runs do
  not come near.
* Access guards: each action is taken by the caller the guard admits.
* The other queries, which only read; error texts and logging (`do_reply` of `log.rs` has no
  caller); the commented-out `pool.rs`, generated files.
