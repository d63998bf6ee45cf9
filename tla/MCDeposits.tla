----------------------------- MODULE MCDeposits -----------------------------
EXTENDS Deposits, TLC

CONSTANTS x1, alice, u1

Usdc(n) == [coin |-> "usdc", from |-> alice, amount |-> n]
Other == [coin |-> "other", from |-> alice, amount |-> 9]

Call(ok, logs) == [ok |-> ok, logs |-> logs]

\* A call that may pay twice, send the wrong token or revert.
Erratic ==
  [t \in Txs |-> {Call(TRUE, <<Usdc(2), Usdc(3)>>), Call(TRUE, <<Other>>), Call(FALSE, <<>>)}]

\* A plain transfer.
Plain == [t \in Txs |-> {Call(TRUE, <<Usdc(5)>>)}]
=============================================================================
