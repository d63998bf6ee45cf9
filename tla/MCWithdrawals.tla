--------------------------- MODULE MCWithdrawals ----------------------------
EXTENDS MCSettlement, Withdrawals

CONSTANTS x1, x2, x3, a1, a2

MCPayer == [x \in Requests |-> w1]
MCAmount == [x \in Requests |-> CASE x = x1 -> 10 [] x = x2 -> 25 [] OTHER -> 5]
=============================================================================
