\* Three transactions, at most two blocks of up to two transactions, histories of up to
\* three states.  The loop ends, so the deadlock check is off.
SPECIFICATION LoopSpec
CONSTANTS
  Txids = {t1, t2, t3}
  NoTx = NoTx
  NoGamer = NoGamer
  MaxStates = 3
  Heights = {1, 2}
  MaxTxs = 2
INVARIANTS
  LoopAgrees
CHECK_DEADLOCK FALSE
