---------------------------- MODULE Withdrawals -----------------------------
(***************************************************************************)
(* USDC withdrawals, composed with the bets of Settlement over the wallets *)
(* they share: the bettor requests and cancels, an operator approves,      *)
(* rejects, sends the coins from an external wallet and enters the hash, a *)
(* second operator confirms, and the debit is booked only then.            *)
(*                                                                         *)
(* Every route is one transaction that locks the withdrawal row; the ones  *)
(* that write the wallet wait for a placement that holds its row.          *)
(***************************************************************************)
EXTENDS Settlement

CONSTANTS
  Requests,    \* ids of withdrawals rows
  Payer,       \* the wallet of a request
  Amount,      \* amount_micro of a request
  Fees,        \* values of fee_micro an approval may set
  Admins,      \* operators
  Confirmers,  \* the ones on the balance-edit allowlist
  MaxPending,  \* MAX_PENDING_WITHDRAWALS
  Bank         \* bank_limit_micro at the start

ASSUME WithdrawalAssumption ==
  /\ Wallets # {}
  /\ IsFiniteSet(Requests) /\ Requests \cap Tickets = {}
  /\ Payer \in [Requests -> Wallets]
  /\ Amount \in [Requests -> Nat \ {0}]
  /\ Fees \subseteq Nat
  /\ Confirmers \subseteq Admins
  /\ MaxPending \in Nat /\ Bank \in Int

VARIABLES
  request,   \* withdrawals rows: status, fee_micro, approved_by_user_id
  debits,    \* wallet_ledger rows of type withdrawal, one per ref_id
  bankLimit  \* riskzilla_bank_state.bank_limit_micro

withdrawalVars == <<request, debits, bankLimit>>
allVars == <<vars, withdrawalVars>>

NoRequest == [status |-> "none", fee |-> 0, approver |-> None]

OpenRequests == {x \in Requests : request[x].status \in {"requested", "approved", "submitted"}}
RequestsOf(S, w) == {x \in S : Payer[x] = w}

LockedBy(S) == SumFunctionOnSet(Amount, S)

-----------------------------------------------------------------------------
(* The bettor: POST /wallet/withdrawals and .../cancel *)

RequestWithdrawal(x) ==
  LET w == Payer[x]
  IN  /\ request[x].status = "none"
      /\ WalletFree(w)
      /\ Amount[x] <= Available(w)
      /\ Cardinality(RequestsOf(OpenRequests, w)) < MaxPending
      /\ wallet' = [wallet EXCEPT ![w].locked = @ + Amount[x]]
      /\ request' = [request EXCEPT ![x].status = "requested"]
      /\ UNCHANGED <<debits, bankLimit>>

\* Wrong: the fee, which was never locked, is released too.
ReleasedWithFee(x) == Amount[x] + request[x].fee

\* What a refused, failed or cancelled request releases.
Released(x) == Amount[x]

Release(x, st) ==
  /\ WalletFree(Payer[x])
  /\ wallet' = [wallet EXCEPT ![Payer[x]].locked = @ - Released(x)]
  /\ request' = [request EXCEPT ![x].status = st]
  /\ UNCHANGED <<debits, bankLimit>>

CancelWithdrawal(x) == request[x].status = "requested" /\ Release(x, "cancelled")

-----------------------------------------------------------------------------
(* The operators: /admin/withdrawals *)

Approve(x, a, fee) ==
  /\ request[x].status = "requested"
  /\ request' = [request EXCEPT ![x] = [status |-> "approved", fee |-> fee, approver |-> a]]
  /\ UNCHANGED <<wallet, debits, bankLimit>>

Reject(x) == request[x].status = "requested" /\ Release(x, "failed")

MarkSubmitted(x) ==
  /\ request[x].status = "approved"
  /\ request' = [request EXCEPT ![x].status = "submitted"]
  /\ UNCHANGED <<wallet, debits, bankLimit>>

Debit(x) == Amount[x] + request[x].fee

\* The route compares the balance with the debit; that what stays locked is
\* still covered is left to the CHECK of the wallets table.
ConfirmFits(x) ==
  /\ wallet[Payer[x]].balance >= Debit(x)
  /\ wallet[Payer[x]].balance - Debit(x) >= wallet[Payer[x]].locked - Amount[x]

\* Wrong: the bank counts the fee as paid out.
BankDebitWithFee(x) == Debit(x)

BankDebit(x) == Amount[x]

MarkConfirmed(x, a) ==
  LET w == Payer[x]
  IN  /\ request[x].status = "submitted"
      /\ a \in Confirmers /\ a # request[x].approver
      /\ WalletFree(w)
      /\ ConfirmFits(x)
      /\ wallet' = [wallet EXCEPT ![w] = [balance |-> @.balance - Debit(x),
                                          locked |-> @.locked - Amount[x]]]
      /\ debits' = debits \cup {[request |-> x, delta |-> - Debit(x)]}
      /\ bankLimit' = bankLimit - BankDebit(x)
      /\ request' = [request EXCEPT ![x].status = "confirmed"]

MarkFailed(x) == request[x].status \in {"approved", "submitted"} /\ Release(x, "failed")

-----------------------------------------------------------------------------
WithdrawalInit ==
  /\ Init
  /\ request = [x \in Requests |-> NoRequest]
  /\ debits = {}
  /\ bankLimit = Bank

\* What a withdrawal route leaves alone.
BetsUnchanged ==
  UNCHANGED <<marketVars, ticketVars, ledger, openLiability, settlements, job, plan, lockVars,
             bounds>>

WithdrawalStep(x) ==
  /\ \/ RequestWithdrawal(x)
     \/ CancelWithdrawal(x)
     \/ \E a \in Admins, fee \in Fees : Approve(x, a, fee)
     \/ Reject(x)
     \/ MarkSubmitted(x)
     \/ \E a \in Admins : MarkConfirmed(x, a)
     \/ MarkFailed(x)
  /\ BetsUnchanged

WithdrawalNext ==
  \/ \E x \in Requests : WithdrawalStep(x)
  \/ Next /\ UNCHANGED withdrawalVars

WithdrawalSpec == WithdrawalInit /\ [][WithdrawalNext]_allVars

-----------------------------------------------------------------------------
(* Properties *)

\* Types; in particular balance and locked_micro stay naturals, and no wallet is
\* locked beyond its balance, through every lock, release and debit (the CHECKs
\* of the wallets table).
WithdrawalTypeOK ==
  /\ request \in [Requests -> [status: {"none", "requested", "approved", "submitted",
                                        "confirmed", "failed", "cancelled"},
                               fee: Fees \cup {0}, approver: Admins \cup {None}]]
  /\ wallet \in [Wallets -> [balance: Nat, locked: Nat]] /\ NeverOverdrawn
  /\ debits \subseteq [request: Requests, delta: Int]
  /\ bankLimit \in Int

\* Wallet, locks and bank reconcile with the books over bets and withdrawals
\* together: what is available is the opening balance, the ledger rows of both
\* and the locks of the open requests; locked_micro is the open stakes and the
\* open requests; and the bank lost the amounts sent, not the fees, which it
\* keeps ("we decrement bank by amount and NOT amount+fee").
MoneyAddsUp ==
  /\ \A w \in Wallets :
       LET open == RequestsOf(OpenRequests, w)
           mine == {t \in Tickets : WalletOf[t] = w}
       IN  /\ wallet[w].locked = LockedBy(open)
                + Stakes({t \in mine : status[t] \in OpenStatuses})
           /\ Available(w) = (Opening - LockedBy(open))
                + RowSum({r \in ledger : r.ticket \in mine})
                + RowSum({r \in debits : Payer[r.request] = w})
                + Stakes({t \in mine : VoidUnbooked(t)})
  /\ bankLimit = Bank - LockedBy({x \in Requests : request[x].status = "confirmed"})

\* The wallet as an escrow of bets and withdrawals.
EndedTickets(w) ==
  {t \in Tickets : WalletOf[t] = w /\ status[t] \in {"settled", "voided", "rejected"}}
EndedRequests(w) == RequestsOf({x \in Requests : request[x].status # "none"} \ OpenRequests, w)

Worth(h) ==
  IF h \in Tickets
  THEN IF status[h] = "rejected" THEN Stake[h] ELSE payout[h]
  ELSE IF request[h].status = "confirmed" THEN - request[h].fee ELSE Amount[h]

HeldBy(w) ==
  {t \in Tickets : WalletOf[t] = w /\ status[t] \in OpenStatuses} \cup RequestsOf(OpenRequests, w)
Brought(w) == [h \in EndedTickets(w) \cup EndedRequests(w) |-> Worth(h)]
HoldAmount == [h \in Tickets \cup Requests |-> IF h \in Tickets THEN Stake[h] ELSE Amount[h]]

TheWallet == CHOOSE w \in Wallets : TRUE

E == INSTANCE Escrow WITH
       Holds  <- Tickets \cup Requests,
       Bets   <- Tickets,
       Amount <- HoldAmount,
       free   <- Available(TheWallet),
       held   <- HeldBy(TheWallet),
       worth  <- Brought(TheWallet)

\* Bets and withdrawals together keep the promise of a wallet: a stake or a
\* request is held only from what is free when it commits, although placement
\* checks the balance before; winnings that were withdrawn or staked again are
\* not taken back by a rollback, which then fails as a whole; and a fee, which
\* was not locked with its request, never eats into what is held.
WalletIsEscrow == E!Spec
=============================================================================
