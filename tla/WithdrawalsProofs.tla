-------------------------- MODULE WithdrawalsProofs -------------------------
(***************************************************************************)
(* Bets and withdrawals over the wallets they share, for every set of      *)
(* tickets, requests, operators and settlers: the books balance            *)
(* (MoneyAddsUp), the wallet columns stay naturals (WithdrawalTypeOK), and *)
(* every wallet implements the Escrow. The steps of the bets are the ones  *)
(* of SettlementProofs; what is proved here is what a withdrawal route does *)
(* between them.                                                           *)
(***************************************************************************)
EXTENDS Withdrawals, SettlementProofs

RequestStatuses == {"none", "requested", "approved", "submitted",
                    "confirmed", "failed", "cancelled"}
OpenRequestStatuses == {"requested", "approved", "submitted"}
OpenReq(w) == RequestsOf(OpenRequests, w)
DebitsOf(w) == {r \in debits : Payer[r.request] = w}
Sent == {x \in Requests : request[x].status = "confirmed"}

\* The rows of the withdrawals: an open request was never debited.
RequestsTyped ==
  /\ request \in [Requests -> [status: RequestStatuses, fee: Fees \cup {0},
                               approver: Admins \cup {None}]]
  /\ IsFiniteSet(debits) /\ debits \subseteq [request: Requests, delta: Int]
  /\ \A r \in debits : request[r.request].status = "confirmed"

\* The equations of MoneyAddsUp for one wallet.
WalletAddsUp(w) ==
  /\ wallet[w].locked = LockedBy(OpenReq(w)) + Stakes(OpenOf(w))
  /\ Available(w) = (((Opening - LockedBy(OpenReq(w))) + RowSum(RowsOf(w)))
                       + RowSum(DebitsOf(w))) + Stakes(UnbookedOf(w))
BankAddsUp == bankLimit = Bank - LockedBy(Sent)

\* The inductive invariant.
WInv ==
  /\ IInv /\ Countable /\ Covered
  /\ RequestsTyped
  /\ \A w \in Wallets : WalletAddsUp(w)
  /\ BankAddsUp

-----------------------------------------------------------------------------
(* Sums of amounts *)

\* What any set of requests locks is a natural number.
LEMMA LockedType ==
  ASSUME NEW S \in SUBSET Requests
  PROVE  IsFiniteSet(S) /\ LockedBy(S) \in Nat
<1>1. IsFiniteSet(S) /\ \A x \in S : Amount[x] \in Nat
  BY WithdrawalAssumption, FS_Subset
<1> QED BY <1>1, SumNat DEF LockedBy

\* One request comes or goes.
LEMMA LockedOne ==
  ASSUME NEW S \in SUBSET Requests, NEW x \in Requests
  PROVE  /\ x \notin S => LockedBy(S \cup {x}) = LockedBy(S) + Amount[x]
         /\ x \in S => LockedBy(S \ {x}) = LockedBy(S) - Amount[x]
<1>1. IsFiniteSet(S) /\ \A y \in Requests : Amount[y] \in Int
  BY LockedType, WithdrawalAssumption
<1>2. LockedBy(S) \in Nat /\ LockedBy(S \ {x}) \in Nat /\ Amount[x] \in Int
  BY <1>1, LockedType
<1>3. ASSUME x \notin S PROVE LockedBy(S \cup {x}) = LockedBy(S) + Amount[x]
  <2>1. \A y \in S \cup {x} : Amount[y] \in Int
    BY <1>1
  <2>2. SumFunctionOnSet(Amount, S \cup {x}) = Amount[x] + SumFunctionOnSet(Amount, S)
    BY <1>1, <1>3, <2>1, SumAdd
  <2>3. SumFunctionOnSet(Amount, S) \in Int
    BY <1>2 DEF LockedBy
  <2> QED BY <1>2, <2>2, <2>3 DEF LockedBy
<1>4. ASSUME x \in S PROVE LockedBy(S \ {x}) = LockedBy(S) - Amount[x]
  <2>1. \A y \in S : Amount[y] \in Int
    BY <1>1
  <2>2. SumFunctionOnSet(Amount, S) = Amount[x] + SumFunctionOnSet(Amount, S \ {x})
    BY <1>1, <1>4, <2>1, SumRemove
  <2>3. SumFunctionOnSet(Amount, S \ {x}) \in Int
    BY <1>2 DEF LockedBy
  <2> QED BY <1>2, <2>2, <2>3 DEF LockedBy
<1> QED BY <1>3, <1>4

\* The equations are the ones of MoneyAddsUp.
LEMMA AddsUp ==
  ASSUME IInv
  PROVE  MoneyAddsUp <=> (\A w \in Wallets : WalletAddsUp(w)) /\ BankAddsUp
<1>1. \A r \in ledger : r.ticket \in Tickets
  BY DEF IInv, BooksInOrder, LedgerRow
<1>2. ASSUME NEW w \in Wallets
      PROVE  /\ {t \in {u \in Tickets : WalletOf[u] = w} : status[t] \in OpenStatuses} = OpenOf(w)
             /\ {r \in ledger : r.ticket \in {u \in Tickets : WalletOf[u] = w}} = RowsOf(w)
             /\ {t \in {u \in Tickets : WalletOf[u] = w} : VoidUnbooked(t)} = UnbookedOf(w)
  BY <1>1 DEF OpenOf, RowsOf, UnbookedOf
<1> QED BY <1>2 DEF MoneyAddsUp, WalletAddsUp, BankAddsUp, OpenReq, DebitsOf, Sent

\* What the equations sum up.
LEMMA WithdrawalSums ==
  ASSUME IInv, Countable, RequestsTyped, NEW w \in Wallets
  PROVE  /\ OpenReq(w) \in SUBSET Requests /\ Sent \in SUBSET Requests
         /\ LockedBy(OpenReq(w)) \in Nat /\ LockedBy(Sent) \in Nat
         /\ IsFiniteSet(DebitsOf(w)) /\ \A r \in DebitsOf(w) : r.delta \in Int
         /\ RowSum(DebitsOf(w)) \in Int
<1>1. OpenReq(w) \in SUBSET Requests /\ Sent \in SUBSET Requests
  BY DEF OpenReq, Sent, RequestsOf, OpenRequests
<1>2. IsFiniteSet(DebitsOf(w)) /\ \A r \in DebitsOf(w) : r.delta \in Int
  <2>1. DebitsOf(w) \in SUBSET debits
    BY DEF DebitsOf
  <2> QED BY <2>1, FS_Subset DEF RequestsTyped
<1> QED BY <1>1, <1>2, LockedType, RowSumType

-----------------------------------------------------------------------------
(* The steps of the bets *)

\* A step of a bet moves the wallet by the books and leaves the requests alone.
LEMMA BetStepAddsUp ==
  ASSUME WInv, [Next]_vars, UNCHANGED withdrawalVars
  PROVE  WInv'
<1> USE DEF WInv
<1>1. IInv' /\ Countable' /\ Covered' /\ MoneyStep
  BY NextIInv, StepMoney, StepCovered
<1>2. request' = request /\ debits' = debits /\ bankLimit' = bankLimit
  BY DEF withdrawalVars
<1>3. RequestsTyped' /\ BankAddsUp'
  BY <1>2 DEF RequestsTyped, BankAddsUp, Sent
<1>4. ASSUME NEW w \in Wallets PROVE WalletAddsUp(w)'
  <2>1. OpenReq(w)' = OpenReq(w) /\ DebitsOf(w)' = DebitsOf(w)
    BY <1>2 DEF OpenReq, DebitsOf, RequestsOf, OpenRequests
  <2>2. /\ OpenOf(w)' \in SUBSET Tickets /\ UnbookedOf(w)' \in SUBSET Tickets
        /\ RowsOf(w)' \in SUBSET ledger'
    BY DEF OpenOf, UnbookedOf, RowsOf
  <2>3. IsFiniteSet(ledger') /\ \A r \in ledger' : r.delta \in Int
    BY <1>1 DEF Countable, IInv, BooksInOrder, LedgerRow
  <2>4. IsFiniteSet(RowsOf(w)') /\ \A r \in RowsOf(w)' : r.delta \in Int
    BY <2>2, <2>3, FS_Subset
  <2>5. /\ Stakes(OpenOf(w)') \in Int /\ Stakes(UnbookedOf(w)') \in Int
        /\ RowSum(RowsOf(w)') \in Int
    BY <2>2, <2>4, StakesType, RowSumType
  <2>6. /\ Stakes(OpenOf(w)) \in Int /\ Stakes(UnbookedOf(w)) \in Int
        /\ RowSum(RowsOf(w)) \in Int
    BY SumTypes
  <2>7. LockedBy(OpenReq(w)) \in Int /\ RowSum(DebitsOf(w)) \in Int
    BY WithdrawalSums
  <2>8. Opening \in Int
    BY TicketAssumption
  <2>9. WalletStep(w)
    BY <1>1 DEF MoneyStep
  <2>10. WalletAddsUp(w)
    OBVIOUS
  <2>11. wallet'[w].locked = LockedBy(OpenReq(w)) + Stakes(OpenOf(w)')
    BY <2>5, <2>6, <2>7, <2>9, <2>10 DEF WalletAddsUp, WalletStep
  <2>12. Available(w)' = (((Opening - LockedBy(OpenReq(w))) + RowSum(RowsOf(w)'))
                            + RowSum(DebitsOf(w))) + Stakes(UnbookedOf(w)')
    BY <2>5, <2>6, <2>7, <2>8, <2>9, <2>10 DEF WalletAddsUp, WalletStep
  <2> QED BY <2>1, <2>11, <2>12 DEF WalletAddsUp
<1> QED BY <1>1, <1>3, <1>4

-----------------------------------------------------------------------------
(* The steps of a withdrawal *)

\* A route moves the request x to status st, locks lock more of its wallet and
\* takes spend from it, and waits for a placement when it writes the wallet.
Routed(x, st, lock, spend) ==
  /\ wallet' \in [Wallets -> [balance: Int, locked: Int]]
  /\ wallet'[Payer[x]].locked = wallet[Payer[x]].locked + lock
  /\ wallet'[Payer[x]].balance = wallet[Payer[x]].balance - spend
  /\ \A w \in Wallets : w # Payer[x] => wallet'[w] = wallet[w]
  /\ lock + spend <= Available(Payer[x])
  /\ lock + spend > 0 => WalletFree(Payer[x])
  /\ request' \in [Requests -> [status: RequestStatuses, fee: Fees \cup {0},
                                approver: Admins \cup {None}]]
  /\ request'[x].status = st
  /\ \A y \in Requests : y # x => request'[y] = request[y]

\* The four things a route can do: lock the amount, release it, pass the
\* request on, or book the debit.
Locks(x) ==
  /\ request[x].status = "none" /\ Routed(x, "requested", Amount[x], 0)
  /\ UNCHANGED <<debits, bankLimit>>
Releases(x) ==
  /\ request[x].status \in OpenRequestStatuses
  /\ \E st \in {"failed", "cancelled"} : Routed(x, st, - Amount[x], 0)
  /\ UNCHANGED <<debits, bankLimit>>
PassesOn(x) ==
  /\ request[x].status \in OpenRequestStatuses
  /\ \E st \in OpenRequestStatuses : Routed(x, st, 0, 0)
  /\ UNCHANGED <<debits, bankLimit>>
Debits(x) ==
  /\ request[x].status = "submitted"
  /\ Routed(x, "confirmed", - Amount[x], Amount[x] + request[x].fee)
  /\ request'[x].fee = request[x].fee
  /\ debits' = debits \cup {[request |-> x, delta |-> - (Amount[x] + request[x].fee)]}
  /\ bankLimit' = bankLimit - Amount[x]

\* Types of one request.
LEMMA RequestTypes ==
  ASSUME IInv, Countable, Covered, RequestsTyped, NEW x \in Requests
  PROVE  /\ Payer[x] \in Wallets /\ Amount[x] \in Nat /\ request[x].fee \in Nat
         /\ wallet[Payer[x]].balance \in Int /\ wallet[Payer[x]].locked \in Int
         /\ Available(Payer[x]) \in Int /\ Available(Payer[x]) >= 0
         /\ request[x] \in [status: RequestStatuses, fee: Fees \cup {0},
                            approver: Admins \cup {None}]
<1>1. Payer[x] \in Wallets /\ Amount[x] \in Nat /\ Fees \subseteq Nat
  BY WithdrawalAssumption
<1>2. request[x] \in [status: RequestStatuses, fee: Fees \cup {0}, approver: Admins \cup {None}]
  BY DEF RequestsTyped
<1>3. request[x].fee \in Nat
  <2>1. request[x].fee \in Fees \cup {0}
    BY <1>2
  <2>2. 0 \in Nat
    OBVIOUS
  <2> QED BY <1>1, <2>1, <2>2, Zenon
<1>4. wallet[Payer[x]].balance \in Int /\ wallet[Payer[x]].locked \in Int
  BY <1>1 DEF Countable
<1>5. Available(Payer[x]) \in Int /\ Available(Payer[x]) >= 0
  BY <1>1, <1>4 DEF Available, Covered
<1> QED BY <1>1, <1>2, <1>3, <1>4, <1>5

\* A route is one of the four.
LEMMA RouteIsOne ==
  ASSUME IInv, Countable, Covered, RequestsTyped, NEW x \in Requests, WithdrawalStep(x)
  PROVE  /\ Locks(x) \/ Releases(x) \/ PassesOn(x) \/ Debits(x)
         /\ BetsUnchanged
<1> DEFINE w == Payer[x]
           Typed == [status: RequestStatuses, fee: Fees \cup {0}, approver: Admins \cup {None}]
<1>1. /\ w \in Wallets /\ Amount[x] \in Nat /\ request[x].fee \in Nat
      /\ wallet[w].balance \in Int /\ wallet[w].locked \in Int
      /\ Available(w) \in Int /\ Available(w) >= 0
      /\ request[x] \in Typed
  BY RequestTypes
<1>2. /\ wallet \in [Wallets -> [balance: Int, locked: Int]]
      /\ request \in [Requests -> Typed]
  BY DEF Countable, RequestsTyped
<1>3. BetsUnchanged
  BY DEF WithdrawalStep
<1> HIDE DEF w, Typed
<1>4. ASSUME NEW n \in Int, wallet' = [wallet EXCEPT ![w].locked = @ + n]
      PROVE  /\ wallet' \in [Wallets -> [balance: Int, locked: Int]]
             /\ wallet'[w].locked = wallet[w].locked + n
             /\ wallet'[w].balance = wallet[w].balance - 0
             /\ \A v \in Wallets : v # w => wallet'[v] = wallet[v]
  BY <1>1, <1>2, <1>4
<1>5. ASSUME NEW st \in RequestStatuses, request' = [request EXCEPT ![x].status = st]
      PROVE  /\ request' \in [Requests -> Typed]
             /\ request'[x].status = st /\ request'[x].fee = request[x].fee
             /\ \A y \in Requests : y # x => request'[y] = request[y]
  BY <1>1, <1>2, <1>5 DEF Typed
<1>6. CASE RequestWithdrawal(x)
  <2>1. /\ request[x].status = "none" /\ WalletFree(w) /\ Amount[x] <= Available(w)
        /\ wallet' = [wallet EXCEPT ![w].locked = @ + Amount[x]]
        /\ request' = [request EXCEPT ![x].status = "requested"]
        /\ UNCHANGED <<debits, bankLimit>>
    BY <1>6 DEF RequestWithdrawal, w
  <2>2. "requested" \in RequestStatuses /\ Amount[x] \in Int /\ Amount[x] + 0 <= Available(w)
    BY <1>1, <2>1 DEF RequestStatuses
  <2>3. Locks(x)
    BY <1>1, <1>4, <1>5, <2>1, <2>2 DEF Locks, Routed, w, Typed
  <2> QED BY <1>3, <2>3
<1>7. ASSUME NEW st \in {"failed", "cancelled"}, request[x].status \in OpenRequestStatuses,
             Release(x, st)
      PROVE  Releases(x)
  <2>1. /\ wallet' = [wallet EXCEPT ![w].locked = @ - Amount[x]]
        /\ request' = [request EXCEPT ![x].status = st]
        /\ UNCHANGED <<debits, bankLimit>>
    BY <1>7 DEF Release, Released, w
  <2>2. wallet' = [wallet EXCEPT ![w].locked = @ + (- Amount[x])]
    BY <1>1, <1>2, <2>1
  <2>3. st \in RequestStatuses /\ - Amount[x] \in Int /\ - Amount[x] + 0 <= Available(w)
    BY <1>1, <1>7 DEF RequestStatuses
  <2>4. ~ (- Amount[x] + 0 > 0)
    BY <1>1
  <2>5. Routed(x, st, - Amount[x], 0)
    BY <1>4, <1>5, <2>1, <2>2, <2>3, <2>4 DEF Routed, w, Typed
  <2> QED BY <1>7, <2>1, <2>5 DEF Releases
<1>8. CASE CancelWithdrawal(x) \/ Reject(x) \/ MarkFailed(x)
  BY <1>3, <1>7, <1>8 DEF CancelWithdrawal, Reject, MarkFailed, OpenRequestStatuses
<1>9. ASSUME NEW a \in Admins, NEW fee \in Fees, Approve(x, a, fee)
      PROVE  PassesOn(x)
  <2> DEFINE row == [status |-> "approved", fee |-> fee, approver |-> a]
  <2>1. /\ request[x].status = "requested" /\ wallet' = wallet /\ UNCHANGED <<debits, bankLimit>>
        /\ request' = [request EXCEPT ![x] = row]
    BY <1>9 DEF Approve
  <2>2. row \in Typed /\ row.status = "approved"
    BY DEF Typed, RequestStatuses
  <2>3. /\ wallet'[w].locked = wallet[w].locked + 0
        /\ wallet'[w].balance = wallet[w].balance - 0
        /\ 0 + 0 <= Available(w) /\ ~ (0 + 0 > 0)
    BY <1>1, <2>1
  <2> HIDE DEF row
  <2>4. Routed(x, "approved", 0, 0)
    BY <1>2, <2>1, <2>2, <2>3 DEF Routed, w, Typed
  <2> QED BY <2>1, <2>4 DEF PassesOn, OpenRequestStatuses
<1>10. CASE MarkSubmitted(x)
  <2>1. "submitted" \in RequestStatuses /\ "submitted" \in OpenRequestStatuses
        /\ "approved" \in OpenRequestStatuses
    BY DEF RequestStatuses, OpenRequestStatuses
  <2>2. /\ request[x].status = "approved" /\ wallet' = wallet /\ UNCHANGED <<debits, bankLimit>>
        /\ request' = [request EXCEPT ![x].status = "submitted"]
    BY <1>10 DEF MarkSubmitted
  <2>3. /\ wallet'[w].locked = wallet[w].locked + 0
        /\ wallet'[w].balance = wallet[w].balance - 0
        /\ 0 + 0 <= Available(w) /\ ~ (0 + 0 > 0)
    BY <1>1, <2>2
  <2>4. Routed(x, "submitted", 0, 0)
    BY <1>2, <1>5, <2>1, <2>2, <2>3 DEF Routed, w, Typed
  <2> QED BY <1>3, <2>1, <2>2, <2>4 DEF PassesOn
<1>11. ASSUME NEW a \in Admins, MarkConfirmed(x, a)
       PROVE  Debits(x)
  <2>1. /\ request[x].status = "submitted" /\ WalletFree(w)
        /\ wallet[w].balance - (Amount[x] + request[x].fee) >= wallet[w].locked - Amount[x]
        /\ wallet' = [wallet EXCEPT ![w] =
                        [balance |-> wallet[w].balance - (Amount[x] + request[x].fee),
                         locked |-> wallet[w].locked - Amount[x]]]
        /\ debits' = debits \cup {[request |-> x, delta |-> - (Amount[x] + request[x].fee)]}
        /\ bankLimit' = bankLimit - Amount[x]
        /\ request' = [request EXCEPT ![x].status = "confirmed"]
    BY <1>2, <1>11 DEF MarkConfirmed, ConfirmFits, Debit, BankDebit, w
  <2>2. "confirmed" \in RequestStatuses
    BY DEF RequestStatuses
  <2>3. /\ wallet' \in [Wallets -> [balance: Int, locked: Int]]
        /\ wallet'[w].locked = wallet[w].locked + (- Amount[x])
        /\ wallet'[w].balance = wallet[w].balance - (Amount[x] + request[x].fee)
        /\ \A v \in Wallets : v # w => wallet'[v] = wallet[v]
    BY <1>1, <1>2, <2>1
  <2>4. - Amount[x] + (Amount[x] + request[x].fee) <= Available(w)
    BY <1>1, <2>1 DEF Available
  <2>5. Routed(x, "confirmed", - Amount[x], Amount[x] + request[x].fee)
    BY <1>5, <2>1, <2>2, <2>3, <2>4 DEF Routed, w, Typed
  <2> QED BY <1>5, <2>1, <2>2, <2>5 DEF Debits
<1> QED BY <1>3, <1>6, <1>8, <1>9, <1>10, <1>11 DEF WithdrawalStep

\* The bets a route leaves alone keep their invariant.
LEMMA RouteKeepsBets ==
  ASSUME IInv, BetsUnchanged
  PROVE  /\ IInv' /\ status' = status /\ payout' = payout /\ ledger' = ledger
         /\ \A w \in Wallets : /\ OpenOf(w)' = OpenOf(w) /\ RowsOf(w)' = RowsOf(w)
                               /\ UnbookedOf(w)' = UnbookedOf(w)
<1>1. UNCHANGED <<marketStatus, outcomeResult, price, matchClosed, status, payout, placedAt, leg,
                  odds, potential, ledger, openLiability, settlements, job, plan, hold, passedBy>>
  BY DEF BetsUnchanged, marketVars, ticketVars, lockVars
<1>2. TicketsTyped'
  BY <1>1 DEF IInv, TicketsTyped
<1>3. PlansOwned' /\ HoldsOwned'
  <2>1. \A s \in Settlers : \A t \in job[s].held : hold'[t].by = "nobody"
    BY <1>1 DEF IInv, PlansOwned
  <2>2. PlansOwned'
    BY <1>1, <2>1, TicketStepKeepsPlans DEF IInv
  <2>3. HoldsOwned'
    BY <1>1, SameHoldsKept DEF IInv, HoldsOwned
  <2> QED BY <2>2, <2>3
<1>4. BooksInOrder'
  BY <1>1, NoPostingKeepsBooks DEF IInv
<1>5. IInv'
  BY <1>1, <1>2, <1>3, <1>4 DEF IInv
<1>6. ASSUME NEW w \in Wallets
      PROVE  /\ OpenOf(w)' = OpenOf(w) /\ RowsOf(w)' = RowsOf(w)
             /\ UnbookedOf(w)' = UnbookedOf(w)
  BY <1>1 DEF OpenOf, RowsOf, UnbookedOf, VoidUnbooked, Adjustments, CreditRows
<1> QED BY <1>1, <1>5, <1>6

\* A route takes no more than is available.
LEMMA RouteStaysCovered ==
  ASSUME Countable, Covered, NEW x \in Requests, NEW st, NEW lock \in Int, NEW spend \in Int,
         Routed(x, st, lock, spend), status' = status, ledger' = ledger
  PROVE  /\ Countable' /\ Covered'
         /\ Available(Payer[x])' = (Available(Payer[x]) - spend) - lock
         /\ \A w \in Wallets : w # Payer[x] => Available(w)' = Available(w)
<1>1. Payer[x] \in Wallets
  BY WithdrawalAssumption
<1>2. wallet \in [Wallets -> [balance: Int, locked: Int]]
  BY DEF Countable
<1>3. Available(Payer[x])' = (Available(Payer[x]) - spend) - lock
  BY <1>1, <1>2 DEF Routed, Available
<1>4. \A w \in Wallets : w # Payer[x] => Available(w)' = Available(w)
  BY DEF Routed, Available
<1>5. \A w \in Wallets : Available(w) \in Int /\ Available(w) >= 0
  BY <1>2 DEF Available, Covered
<1>6. ASSUME NEW w \in Wallets
      PROVE  /\ Available(w)' \in Int /\ Available(w)' >= 0
             /\ \/ Available(w)' >= Available(w)
                \/ \A t \in Tickets : WalletOf[t] = w => status'[t] # "placing"
  <2>1. CASE w # Payer[x]
    BY <1>4, <1>5, <2>1
  <2>2. CASE w = Payer[x]
    <3>1. Available(w) \in Int /\ lock + spend <= Available(w)
      BY <1>5, <2>2 DEF Routed
    <3>2. Available(w)' \in Int /\ Available(w)' >= 0
      BY <1>3, <2>2, <3>1
    <3>3. CASE lock + spend > 0
      BY <2>2, <3>2, <3>3 DEF Routed, WalletFree
    <3>4. CASE lock + spend <= 0
      BY <1>3, <2>2, <3>1, <3>2, <3>4
    <3> QED BY <3>3, <3>4
  <2> QED BY <2>1, <2>2
<1>7. Covered'
  BY <1>6, CoverStays
<1>8. Countable'
  BY DEF Countable, Routed
<1> QED BY <1>3, <1>4, <1>7, <1>8

\* Which requests are open and which were sent after a route.
LEMMA RouteSets ==
  ASSUME RequestsTyped, NEW x \in Requests, NEW st, NEW lock, NEW spend,
         Routed(x, st, lock, spend)
  PROVE  /\ \A w \in Wallets :
              OpenReq(w)' = IF w = Payer[x]
                            THEN IF st \in OpenRequestStatuses THEN OpenReq(w) \cup {x}
                                 ELSE OpenReq(w) \ {x}
                            ELSE OpenReq(w)
         /\ Sent' = IF st = "confirmed" THEN Sent \cup {x} ELSE Sent \ {x}
         /\ (x \in OpenReq(Payer[x])) <=> (request[x].status \in OpenRequestStatuses)
         /\ (x \in Sent) <=> (request[x].status = "confirmed")
<1>1. request'[x].status = st /\ \A y \in Requests : y # x => request'[y] = request[y]
  BY DEF Routed
<1>2. \A w : OpenReq(w) = {y \in Requests : request[y].status \in OpenRequestStatuses /\ Payer[y] = w}
  BY DEF OpenReq, RequestsOf, OpenRequests, OpenRequestStatuses
<1>3. \A w : OpenReq(w)' = {y \in Requests : request'[y].status \in OpenRequestStatuses /\ Payer[y] = w}
  BY DEF OpenReq, RequestsOf, OpenRequests, OpenRequestStatuses
<1>4. ASSUME NEW w \in Wallets
      PROVE  OpenReq(w)' = IF w = Payer[x]
                           THEN IF st \in OpenRequestStatuses THEN OpenReq(w) \cup {x}
                                ELSE OpenReq(w) \ {x}
                           ELSE OpenReq(w)
  BY <1>1, <1>2, <1>3
<1>5. Sent' = IF st = "confirmed" THEN Sent \cup {x} ELSE Sent \ {x}
  BY <1>1 DEF Sent
<1> QED BY <1>2, <1>4, <1>5 DEF Sent

\* A route moves wallet, requests, debits and bank together.
LEMMA RouteAddsUp ==
  ASSUME WInv, NEW x \in Requests, WithdrawalStep(x)
  PROVE  WInv'
<1> USE DEF WInv
<1>1. /\ Locks(x) \/ Releases(x) \/ PassesOn(x) \/ Debits(x)
      /\ BetsUnchanged
  BY RouteIsOne
<1>2. /\ IInv' /\ status' = status /\ ledger' = ledger
      /\ \A w \in Wallets : /\ OpenOf(w)' = OpenOf(w) /\ RowsOf(w)' = RowsOf(w)
                            /\ UnbookedOf(w)' = UnbookedOf(w)
  BY <1>1, RouteKeepsBets
<1> DEFINE row == [request |-> x, delta |-> - (Amount[x] + request[x].fee)]
           p == Payer[x]
<1>3. p \in Wallets /\ Amount[x] \in Nat /\ request[x].fee \in Nat
  BY RequestTypes
<1>4. PICK st \in RequestStatuses, lock \in Int, spend \in Int :
        /\ Routed(x, st, lock, spend)
        /\ \/ /\ request[x].status = "none" /\ st = "requested"
              /\ lock = Amount[x] /\ spend = 0 /\ UNCHANGED <<debits, bankLimit>>
           \/ /\ request[x].status \in OpenRequestStatuses /\ st \in {"failed", "cancelled"}
              /\ lock = - Amount[x] /\ spend = 0 /\ UNCHANGED <<debits, bankLimit>>
           \/ /\ request[x].status \in OpenRequestStatuses /\ st \in OpenRequestStatuses
              /\ lock = 0 /\ spend = 0 /\ UNCHANGED <<debits, bankLimit>>
           \/ /\ request[x].status \in OpenRequestStatuses /\ st = "confirmed"
              /\ lock = - Amount[x] /\ spend = - row.delta
              /\ debits' = debits \cup {row} /\ bankLimit' = bankLimit - Amount[x]
  <2>1. Amount[x] \in Int /\ - Amount[x] \in Int /\ Amount[x] + request[x].fee \in Int
        /\ - row.delta = Amount[x] + request[x].fee /\ 0 \in Int
        /\ {"requested", "failed", "cancelled", "confirmed"} \subseteq RequestStatuses
        /\ OpenRequestStatuses \subseteq RequestStatuses
    BY <1>3 DEF RequestStatuses, OpenRequestStatuses
  <2> HIDE DEF row
  <2>2. CASE Locks(x)
    BY <2>1, <2>2 DEF Locks
  <2>3. CASE Releases(x)
    BY <2>1, <2>3 DEF Releases
  <2>4. CASE PassesOn(x)
    BY <2>1, <2>4 DEF PassesOn
  <2>5. CASE Debits(x)
    <3>1. debits' = debits \cup {row}
      BY <2>5 DEF Debits, row
    <3> QED BY <2>1, <2>5, <3>1 DEF Debits, OpenRequestStatuses
  <2> QED BY <1>1, <2>2, <2>3, <2>4, <2>5
<1>5. /\ Countable' /\ Covered'
      /\ Available(p)' = (Available(p) - spend) - lock
      /\ \A w \in Wallets : w # p => Available(w)' = Available(w)
  BY <1>2, <1>4, RouteStaysCovered
<1>6. row \in [request: Requests, delta: Int] /\ row.request = x /\ row.delta \in Int
  BY <1>3
<1> HIDE DEF row, p
<1>7. /\ request' \in [Requests -> [status: RequestStatuses, fee: Fees \cup {0},
                                    approver: Admins \cup {None}]]
      /\ request'[x].status = st /\ \A y \in Requests : y # x => request'[y] = request[y]
  BY <1>4 DEF Routed
<1>8. row \notin debits
  BY <1>4, <1>6 DEF RequestsTyped, OpenRequestStatuses
<1>9. request[x].status # "confirmed"
  BY <1>4 DEF OpenRequestStatuses
<1>10. RequestsTyped'
  <2>1. IsFiniteSet(debits') /\ debits' \subseteq [request: Requests, delta: Int]
    <3>1. IsFiniteSet(debits \cup {row})
      BY FS_AddElement DEF RequestsTyped
    <3> QED BY <1>4, <1>6, <3>1 DEF RequestsTyped
  <2>2. ASSUME NEW r \in debits'
        PROVE  request'[r.request].status = "confirmed"
    <3>1. CASE r \in debits
      <4>1. request[r.request].status = "confirmed" /\ r.request \in Requests
        BY <3>1 DEF RequestsTyped
      <4> QED BY <1>7, <1>9, <4>1
    <3>2. CASE r \notin debits
      BY <1>4, <1>6, <1>7, <3>2
    <3> QED BY <3>1, <3>2
  <2> QED BY <1>7, <2>1, <2>2 DEF RequestsTyped
<1>11. /\ \A w \in Wallets :
            OpenReq(w)' = IF w = p
                          THEN IF st \in OpenRequestStatuses THEN OpenReq(w) \cup {x}
                               ELSE OpenReq(w) \ {x}
                          ELSE OpenReq(w)
       /\ Sent' = IF st = "confirmed" THEN Sent \cup {x} ELSE Sent \ {x}
       /\ (x \in OpenReq(p)) <=> (request[x].status \in OpenRequestStatuses)
       /\ (x \in Sent) <=> (request[x].status = "confirmed")
  BY <1>4, RouteSets DEF p
<1>12. LockedBy(OpenReq(p)') = LockedBy(OpenReq(p)) + lock
  <2>1. OpenReq(p) \in SUBSET Requests /\ LockedBy(OpenReq(p)) \in Nat
    BY <1>3, WithdrawalSums
  <2>2. CASE request[x].status = "none"
    <3>1. OpenReq(p)' = OpenReq(p) \cup {x} /\ x \notin OpenReq(p) /\ lock = Amount[x]
      BY <1>3, <1>4, <1>11, <2>2 DEF OpenRequestStatuses
    <3> QED BY <2>1, <3>1, LockedOne
  <2>3. CASE request[x].status \in OpenRequestStatuses /\ st \in OpenRequestStatuses
    <3>1. OpenReq(p)' = OpenReq(p) /\ lock = 0
      BY <1>3, <1>4, <1>11, <2>3 DEF OpenRequestStatuses
    <3> QED BY <2>1, <3>1
  <2>4. CASE request[x].status \in OpenRequestStatuses /\ st \notin OpenRequestStatuses
    <3>1. OpenReq(p)' = OpenReq(p) \ {x} /\ x \in OpenReq(p) /\ lock = - Amount[x]
      BY <1>3, <1>4, <1>11, <2>4 DEF OpenRequestStatuses
    <3>2. LockedBy(OpenReq(p) \ {x}) = LockedBy(OpenReq(p)) - Amount[x]
      BY <2>1, <3>1, LockedOne
    <3> QED BY <1>3, <2>1, <3>1, <3>2
  <2> QED BY <1>4, <2>2, <2>3, <2>4
<1>13. RowSum(DebitsOf(p)') = RowSum(DebitsOf(p)) - spend
  <2>1. /\ IsFiniteSet(DebitsOf(p)) /\ (\A r \in DebitsOf(p) : r.delta \in Int)
        /\ RowSum(DebitsOf(p)) \in Int
    BY <1>3, WithdrawalSums
  <2>2. CASE st = "confirmed"
    <3>1. DebitsOf(p)' = DebitsOf(p) \cup {row} /\ DebitsOf(p) \cap {row} = {}
      BY <1>4, <1>6, <1>8, <2>2 DEF DebitsOf, p, OpenRequestStatuses
    <3>2. RowSum({row}) = row.delta
      BY <1>6, RowSumOne
    <3>3. RowSum(DebitsOf(p) \cup {row}) = RowSum(DebitsOf(p)) + RowSum({row})
      BY <1>6, <2>1, <3>1, FS_Singleton, RowSumUnion
    <3>4. spend = - row.delta
      BY <1>4, <2>2 DEF OpenRequestStatuses
    <3> QED BY <1>6, <2>1, <3>1, <3>2, <3>3, <3>4
  <2>3. CASE st # "confirmed"
    <3>1. DebitsOf(p)' = DebitsOf(p) /\ spend = 0
      BY <1>4, <2>3 DEF DebitsOf
    <3> QED BY <2>1, <3>1
  <2> QED BY <2>2, <2>3
<1>14. ASSUME NEW w \in Wallets PROVE WalletAddsUp(w)'
  <2>1. /\ Stakes(OpenOf(w)) \in Int /\ Stakes(UnbookedOf(w)) \in Int
        /\ RowSum(RowsOf(w)) \in Int /\ Available(w) \in Int /\ wallet[w].locked \in Int
    BY SumTypes
  <2>2. LockedBy(OpenReq(w)) \in Int /\ RowSum(DebitsOf(w)) \in Int /\ Opening \in Int
    BY WithdrawalSums, TicketAssumption
  <2>3. WalletAddsUp(w)
    OBVIOUS
  <2>4. CASE w = p
    <3>1. wallet'[w].locked = wallet[w].locked + lock
      BY <1>4, <2>4 DEF Routed, p
    <3>2. wallet'[w].locked = LockedBy(OpenReq(w)') + Stakes(OpenOf(w))
      BY <1>12, <2>1, <2>2, <2>3, <2>4, <3>1 DEF WalletAddsUp
    <3>3. Available(w)' = (((Opening - LockedBy(OpenReq(w)')) + RowSum(RowsOf(w)))
                             + RowSum(DebitsOf(w)')) + Stakes(UnbookedOf(w))
      BY <1>5, <1>12, <1>13, <2>1, <2>2, <2>3, <2>4 DEF WalletAddsUp
    <3> QED BY <1>2, <3>2, <3>3 DEF WalletAddsUp
  <2>5. CASE w # p
    <3>1. OpenReq(w)' = OpenReq(w) /\ wallet'[w] = wallet[w] /\ Available(w)' = Available(w)
      BY <1>4, <1>5, <1>11, <2>5 DEF Routed, p
    <3>2. DebitsOf(w)' = DebitsOf(w)
      BY <1>4, <1>6, <2>5 DEF DebitsOf, p
    <3> QED BY <1>2, <2>3, <3>1, <3>2 DEF WalletAddsUp
  <2> QED BY <2>4, <2>5
<1>15. BankAddsUp'
  <2>1. Sent \in SUBSET Requests /\ LockedBy(Sent) \in Nat
    BY <1>3, WithdrawalSums
  <2>2. x \notin Sent /\ Bank \in Int
    BY <1>9, <1>11, WithdrawalAssumption
  <2>3. CASE st = "confirmed"
    <3>1. LockedBy(Sent') = LockedBy(Sent) + Amount[x]
      BY <1>11, <2>1, <2>2, <2>3, LockedOne
    <3>2. bankLimit' = bankLimit - Amount[x]
      BY <1>4, <2>3 DEF OpenRequestStatuses
    <3> QED BY <1>3, <2>1, <2>2, <3>1, <3>2 DEF BankAddsUp
  <2>4. CASE st # "confirmed"
    <3>1. Sent' = Sent /\ bankLimit' = bankLimit
      BY <1>4, <1>11, <2>2, <2>4
    <3> QED BY <3>1 DEF BankAddsUp
  <2> QED BY <2>3, <2>4
<1> QED BY <1>2, <1>5, <1>10, <1>14, <1>15

-----------------------------------------------------------------------------
(* Theorems *)

\* No bet, no request: the sums are empty.
LEMMA InitWInv == WithdrawalInit => WInv
<1> SUFFICES ASSUME WithdrawalInit PROVE WInv
  OBVIOUS
<1>1. MoneyInv
  BY InitMoney DEF WithdrawalInit
<1>2. \A x \in Requests : request[x].status = "none"
  BY DEF WithdrawalInit, NoRequest
<1>3. RequestsTyped
  <2>1. NoRequest \in [status: RequestStatuses, fee: Fees \cup {0}, approver: Admins \cup {None}]
    BY DEF NoRequest, RequestStatuses
  <2> QED BY <2>1, FS_EmptySet DEF WithdrawalInit, RequestsTyped
<1>4. LockedBy({}) = 0 /\ RowSum({}) = 0
  BY SumEmpty DEF LockedBy, RowSum
<1>5. Sent = {}
  BY <1>2 DEF Sent
<1>6. BankAddsUp
  BY <1>4, <1>5, WithdrawalAssumption DEF BankAddsUp, WithdrawalInit
<1>7. ASSUME NEW w \in Wallets PROVE WalletAddsUp(w)
  <2>1. OpenReq(w) = {} /\ DebitsOf(w) = {}
    BY <1>2 DEF OpenReq, DebitsOf, RequestsOf, OpenRequests, WithdrawalInit
  <2>2. /\ wallet[w].locked = Stakes(OpenOf(w))
        /\ Available(w) = Opening + RowSum(RowsOf(w)) + Stakes(UnbookedOf(w))
    BY <1>1 DEF MoneyInv, LockedIsOpenStakes, LedgerReconciles, OpenOf, RowsOf, UnbookedOf
  <2>3. /\ Stakes(OpenOf(w)) \in Int /\ Stakes(UnbookedOf(w)) \in Int
        /\ RowSum(RowsOf(w)) \in Int /\ Opening \in Int
    BY <1>1, SumTypes, TicketAssumption DEF MoneyInv
  <2>4. LockedBy(OpenReq(w)) = 0 /\ RowSum(DebitsOf(w)) = 0
    BY <1>4, <2>1
  <2> QED BY <2>2, <2>3, <2>4 DEF WalletAddsUp
<1> QED BY <1>1, <1>3, <1>6, <1>7 DEF WInv, MoneyInv

\* Routes and bets keep the books in any interleaving.
LEMMA NextWInv == WInv /\ [WithdrawalNext]_allVars => WInv'
<1> SUFFICES ASSUME WInv, [WithdrawalNext]_allVars PROVE WInv'
  OBVIOUS
<1>1. ASSUME NEW x \in Requests, WithdrawalStep(x) PROVE WInv'
  BY <1>1, RouteAddsUp
<1>2. CASE Next /\ UNCHANGED withdrawalVars
  BY <1>2, BetStepAddsUp
<1>3. CASE UNCHANGED allVars
  <2>1. vars' = vars /\ UNCHANGED withdrawalVars
    BY <1>3 DEF allVars
  <2> QED BY <2>1, BetStepAddsUp
<1> QED BY <1>1, <1>2, <1>3 DEF WithdrawalNext

\* The invariant holds in every reachable state.
THEOREM WithdrawalInductive == WithdrawalSpec => []WInv
<1> QED BY InitWInv, NextWInv, PTL DEF WithdrawalSpec

\* Locked amounts, ledger and bank reconcile, for any number of bets, requests
\* and settlers; the bank loses the amounts sent and keeps the fees.
THEOREM WithdrawalBooks == WithdrawalSpec => []MoneyAddsUp
<1>1. WInv => MoneyAddsUp
  BY AddsUp DEF WInv
<1> QED BY <1>1, WithdrawalInductive, PTL

\* balance_micro and locked_micro never go below zero and what is locked is
\* covered: no lock, release, debit, settle or rollback trips a CHECK of the
\* wallets table that its route did not ask about.
THEOREM WithdrawalTypes == WithdrawalSpec => []WithdrawalTypeOK
<1>1. WInv => WithdrawalTypeOK
  <2> SUFFICES ASSUME WInv PROVE WithdrawalTypeOK
    OBVIOUS
  <2> USE DEF WInv
  <2>1. ASSUME NEW w \in Wallets PROVE wallet[w] \in [balance: Nat, locked: Nat]
    <3>1. /\ wallet[w].locked = LockedBy(OpenReq(w)) + Stakes(OpenOf(w))
          /\ LockedBy(OpenReq(w)) \in Nat /\ Stakes(OpenOf(w)) \in Nat
      BY WithdrawalSums, SumTypes DEF WalletAddsUp
    <3>2. wallet[w].locked \in Nat
      BY <3>1
    <3>3. wallet[w] \in [balance: Int, locked: Int] /\ Available(w) >= 0
      BY DEF Countable, Covered
    <3>4. wallet[w].balance \in Nat
      BY <3>2, <3>3 DEF Available
    <3> QED BY <3>2, <3>3, <3>4
  <2>2. wallet \in [Wallets -> [balance: Nat, locked: Nat]]
    BY <2>1 DEF Countable
  <2>4. NeverOverdrawn
    <3>1. \A w \in Wallets : /\ wallet[w] \in [balance: Nat, locked: Nat]
                             /\ wallet[w].balance - wallet[w].locked >= 0
      BY <2>1 DEF Covered, Available
    <3>2. \A w \in Wallets : wallet[w].balance \in Nat /\ wallet[w].locked \in Nat
      BY <3>1
    <3> QED BY <3>1, <3>2 DEF NeverOverdrawn
  <2>3. bankLimit \in Int
    <3>1. Sent \in SUBSET Requests
      BY DEF Sent
    <3>2. LockedBy(Sent) \in Nat
      BY <3>1, LockedType
    <3> QED BY <3>2, WithdrawalAssumption DEF BankAddsUp
  <2> QED BY <2>2, <2>3, <2>4 DEF WithdrawalTypeOK, RequestsTyped, RequestStatuses
<1> QED BY <1>1, WithdrawalInductive, PTL

-----------------------------------------------------------------------------
(* Every wallet is an escrow *)

\* The escrow of the wallet w; E of Withdrawals is the one of TheWallet.
W(w) == INSTANCE Escrow WITH
          Holds  <- Tickets \cup Requests,
          Bets   <- Tickets,
          Amount <- HoldAmount,
          free   <- Available(w),
          held   <- HeldBy(w),
          worth  <- Brought(w)

EndedOf(w) == EndedTickets(w) \cup EndedRequests(w)

\* What the escrow does not see.
Still(w) == Available(w)' = Available(w) /\ HeldBy(w)' = HeldBy(w) /\ Brought(w)' = Brought(w)

\* The totals of the escrow are the sums of the books.
LEMMA EscrowTotal ==
  ASSUME NEW w, NEW S, NEW f
  PROVE  W(w)!Total(S, f) = SumFunctionOnSet(f, S)
BY DEF W!Total, W!SumFunctionOnSet, W!FoldFunctionOnSet, W!MapThenFoldSet,
       SumFunctionOnSet, FoldFunctionOnSet, MapThenFoldSet

\* A hold is taken.
LEMMA Takes ==
  ASSUME NEW w, NEW h \in Tickets \cup Requests, h \notin HeldBy(w), h \notin EndedOf(w),
         HoldAmount[h] <= Available(w), Available(w)' = Available(w) - HoldAmount[h],
         HeldBy(w)' = HeldBy(w) \cup {h}, Brought(w)' = Brought(w)
  PROVE  W(w)!Next
<1>1. W(w)!Take(h)
  BY DEF W!Take, W!Ended, Brought, EndedOf
<1> QED BY <1>1 DEF W!Next

\* Holds are taken back and end.
LEMMA Moves ==
  ASSUME NEW w, NEW R \in SUBSET Tickets, NEW X \in SUBSET (Tickets \cup Requests),
         R \subseteq EndedOf(w), X \subseteq HeldBy(w) \cup R,
         HeldBy(w)' = (HeldBy(w) \cup R) \ X, EndedOf(w)' = (EndedOf(w) \ R) \cup X,
         \A h \in EndedOf(w) \ R : Worth(h)' = Worth(h),
         Available(w)' = (Available(w) - SumFunctionOnSet(Brought(w), R))
                            + SumFunctionOnSet(Brought(w)', X),
         Available(w)' >= 0
  PROVE  W(w)!Next
<1>1. DOMAIN Brought(w) = EndedOf(w) /\ DOMAIN Brought(w)' = EndedOf(w)'
  BY DEF Brought, EndedOf
<1>2. \A h \in EndedOf(w) \ R : Brought(w)'[h] = Brought(w)[h]
  BY DEF Brought, EndedOf
<1>3. /\ W(w)!Total(R, Brought(w)) = SumFunctionOnSet(Brought(w), R)
      /\ W(w)!Total(X, Brought(w)') = SumFunctionOnSet(Brought(w)', X)
  BY EscrowTotal
<1>4. W(w)!Move(R, X)
  BY <1>1, <1>2, <1>3 DEF W!Move, W!Ended
<1> QED BY <1>4 DEF W!Next

\* Holds and ended holds, by tickets and requests.
LEMMA EscrowSets ==
  ASSUME NEW w
  PROVE  /\ HeldBy(w) = OpenOf(w) \cup OpenReq(w)
         /\ HeldBy(w)' = OpenOf(w)' \cup OpenReq(w)'
         /\ EndedOf(w)' = EndedTickets(w)' \cup EndedRequests(w)'
         /\ OpenReq(w) \subseteq Requests /\ OpenOf(w) \subseteq Tickets
         /\ EndedTickets(w) \subseteq Tickets /\ EndedRequests(w) \subseteq Requests
BY DEF HeldBy, OpenOf, OpenReq, EndedOf, EndedTickets, EndedRequests, RequestsOf, OpenRequests

\* A bet step leaves the side of the requests alone.
LEMMA RequestsStay ==
  ASSUME request' = request, NEW w
  PROVE  /\ OpenReq(w)' = OpenReq(w) /\ EndedRequests(w)' = EndedRequests(w)
         /\ \A h \in Requests : Worth(h)' = Worth(h)
<1>1. OpenReq(w)' = OpenReq(w) /\ EndedRequests(w)' = EndedRequests(w)
  BY DEF OpenReq, EndedRequests, RequestsOf, OpenRequests
<1>2. ASSUME NEW h \in Requests PROVE Worth(h)' = Worth(h)
  <2>1. h \notin Tickets
    BY WithdrawalAssumption
  <2> QED BY <2>1 DEF Worth
<1> QED BY <1>1, <1>2

\* A step that opens and ends no ticket of the wallet and moves no money of it.
LEMMA QuietIsStill ==
  ASSUME NEW w, request' = request, Available(w)' = Available(w),
         \A t \in Tickets : \/ WalletOf[t] # w
                            \/ status'[t] = status[t] /\ payout'[t] = payout[t]
                            \/ {status[t], status'[t]} \subseteq {"absent", "placing"}
                            \/ {status[t], status'[t]} \subseteq OpenStatuses
  PROVE  Still(w)
<1>1. OpenOf(w)' = OpenOf(w) /\ EndedTickets(w)' = EndedTickets(w)
  BY DEF OpenOf, EndedTickets, OpenStatuses
<1>2. OpenReq(w)' = OpenReq(w) /\ EndedRequests(w)' = EndedRequests(w)
  BY RequestsStay
<1>3. HeldBy(w)' = HeldBy(w) /\ EndedOf(w)' = EndedOf(w)
  BY <1>1, <1>2, EscrowSets DEF EndedOf
<1>4. ASSUME NEW h \in EndedOf(w) PROVE Worth(h)' = Worth(h)
  <2>1. CASE h \in Requests
    BY <2>1, RequestsStay
  <2>2. CASE h \notin Requests
    <3>1. h \in EndedTickets(w) /\ h \in Tickets
      BY <2>2, EscrowSets DEF EndedOf
    <3> QED BY <3>1 DEF EndedTickets, OpenStatuses, Worth
  <2> QED BY <2>1, <2>2
<1>5. Brought(w)' = Brought(w)
  BY <1>3, <1>4 DEF Brought, EndedOf
<1> QED BY <1>3, <1>5 DEF Still

\* A placement commits: its stake is held, from what is free.
LEMMA PlacementTakes ==
  ASSUME IInv, Countable, Covered, request' = request, NEW w \in Wallets,
         NEW t \in Tickets, NEW st \in OpenStatuses, PlaceCommit(t, st)
  PROVE  W(w)!Next \/ Still(w)
<1>1. /\ status[t] = "placing" /\ status' = [status EXCEPT ![t] = st] /\ payout' = payout
      /\ wallet' = [wallet EXCEPT ![WalletOf[t]].locked = @ + Stake[t]]
  BY DEF PlaceCommit
<1>2. /\ status \in [Tickets -> Statuses] /\ payout \in [Tickets -> Nat]
      /\ wallet \in [Wallets -> [balance: Int, locked: Int]]
  BY DEF IInv, TicketsTyped, Countable
<1>3. Stake[t] \in Nat /\ t \notin Requests /\ HoldAmount[t] = Stake[t]
  BY TicketAssumption, WithdrawalAssumption DEF HoldAmount
<1>4. CASE WalletOf[t] # w
  <2>1. Available(w)' = Available(w)
    BY <1>1, <1>2, <1>4 DEF Available
  <2>2. \A u \in Tickets : WalletOf[u] = w => status'[u] = status[u] /\ payout'[u] = payout[u]
    BY <1>1, <1>2, <1>4
  <2> QED BY <2>1, <2>2, QuietIsStill
<1>5. CASE WalletOf[t] = w
  <2>1. Stake[t] <= Available(w)
    BY <1>1, <1>5 DEF Covered
  <2>2. Available(w)' = Available(w) - Stake[t]
    BY <1>1, <1>2, <1>3, <1>5 DEF Available
  <2>3. OpenOf(w)' = OpenOf(w) \cup {t} /\ t \notin OpenOf(w)
    BY <1>1, <1>2, <1>5 DEF OpenOf, OpenStatuses
  <2>4. EndedTickets(w)' = EndedTickets(w) /\ t \notin EndedTickets(w)
    BY <1>1, <1>2 DEF EndedTickets, OpenStatuses
  <2>5. OpenReq(w)' = OpenReq(w) /\ EndedRequests(w)' = EndedRequests(w)
    BY RequestsStay
  <2>6. HeldBy(w)' = HeldBy(w) \cup {t} /\ t \notin HeldBy(w) /\ t \notin EndedOf(w)
    BY <1>3, <2>3, <2>4, <2>5, EscrowSets DEF EndedOf
  <2>7. ASSUME NEW h \in EndedOf(w) PROVE Worth(h)' = Worth(h)
    <3>1. CASE h \in Requests
      BY <3>1, RequestsStay
    <3>2. CASE h \notin Requests
      <4>1. h \in EndedTickets(w) /\ h \in Tickets /\ h # t
        BY <2>4, <3>2, EscrowSets DEF EndedOf
      <4> QED BY <1>1, <1>2, <4>1 DEF Worth
    <3> QED BY <3>1, <3>2
  <2>8. Brought(w)' = Brought(w)
    BY <2>4, <2>5, <2>7 DEF Brought, EndedOf
  <2> QED BY <1>3, <2>1, <2>2, <2>6, <2>8, Takes
<1> QED BY <1>4, <1>5

\* A rejected or voided ticket brings its stake back.
LEMMA RefundMoves ==
  ASSUME IInv, Countable, Covered', request' = request, NEW w \in Wallets, NEW t \in Tickets,
         NEW st \in {"rejected", "voided"}, status[t] \in OpenStatuses,
         status' = [status EXCEPT ![t] = st], RefundStake(t),
         IF st = "voided" THEN payout' = [payout EXCEPT ![t] = Stake[t]] ELSE payout' = payout
  PROVE  W(w)!Next \/ Still(w)
<1>1. wallet' = [wallet EXCEPT ![WalletOf[t]].locked = @ - Stake[t]]
  BY DEF RefundStake
<1>2. /\ status \in [Tickets -> Statuses] /\ payout \in [Tickets -> Nat]
      /\ wallet \in [Wallets -> [balance: Int, locked: Int]]
  BY DEF IInv, TicketsTyped, Countable
<1>3. Stake[t] \in Nat /\ t \notin Requests
  BY TicketAssumption, WithdrawalAssumption
<1>4. \A u \in Tickets : u # t => status'[u] = status[u] /\ payout'[u] = payout[u]
  BY <1>2
<1>5. status'[t] = st /\ (st = "voided" => payout'[t] = Stake[t])
  BY <1>2
<1>6. CASE WalletOf[t] # w
  <2>1. Available(w)' = Available(w)
    BY <1>1, <1>2, <1>6 DEF Available
  <2>2. \A u \in Tickets : WalletOf[u] = w => status'[u] = status[u] /\ payout'[u] = payout[u]
    BY <1>4, <1>6
  <2> QED BY <2>1, <2>2, QuietIsStill
<1>7. CASE WalletOf[t] = w
  <2>1. Available(w)' = Available(w) + Stake[t] /\ Available(w) \in Int
    BY <1>1, <1>2, <1>3, <1>7 DEF Available
  <2>2. OpenOf(w)' = OpenOf(w) \ {t} /\ t \in OpenOf(w)
    BY <1>4, <1>5, <1>7 DEF OpenOf, OpenStatuses
  <2>3. EndedTickets(w)' = EndedTickets(w) \cup {t} /\ t \notin EndedTickets(w)
    BY <1>4, <1>5, <1>7 DEF EndedTickets, OpenStatuses
  <2>4. OpenReq(w)' = OpenReq(w) /\ EndedRequests(w)' = EndedRequests(w)
    BY RequestsStay
  <2>5. HeldBy(w)' = (HeldBy(w) \cup {}) \ {t} /\ t \in HeldBy(w)
    BY <1>3, <2>2, <2>4, EscrowSets
  <2>6. EndedOf(w)' = (EndedOf(w) \ {}) \cup {t} /\ t \notin EndedOf(w)
    BY <1>3, <2>3, <2>4, EscrowSets DEF EndedOf
  <2>7. ASSUME NEW h \in EndedOf(w) \ {} PROVE Worth(h)' = Worth(h)
    <3>1. CASE h \in Requests
      BY <3>1, RequestsStay
    <3>2. CASE h \notin Requests
      <4>1. h \in Tickets /\ h # t
        BY <2>6, <3>2, EscrowSets DEF EndedOf
      <4> QED BY <1>4, <4>1 DEF Worth
    <3> QED BY <3>1, <3>2
  <2>8. Brought(w)'[t] = Stake[t]
    <3>1. Worth(t)' = Stake[t]
      BY <1>5 DEF Worth
    <3>2. t \in EndedOf(w)'
      BY <2>6
    <3> QED BY <3>1, <3>2 DEF Brought, EndedOf
  <2>9. SumFunctionOnSet(Brought(w)', {t}) = Stake[t]
    <3>1. SumFunctionOnSet(Brought(w)', {} \cup {t})
            = Brought(w)'[t] + SumFunctionOnSet(Brought(w)', {})
      BY <1>3, <2>8, FS_EmptySet, SumAdd
    <3>2. {} \cup {t} = {t} /\ SumFunctionOnSet(Brought(w)', {}) = 0
      BY SumEmpty
    <3> QED BY <1>3, <2>8, <3>1, <3>2
  <2>10. SumFunctionOnSet(Brought(w), {}) = 0
    BY SumEmpty
  <2>11. Available(w)' = (Available(w) - SumFunctionOnSet(Brought(w), {}))
                            + SumFunctionOnSet(Brought(w)', {t})
    BY <1>3, <2>1, <2>9, <2>10
  <2>12. Available(w)' >= 0
    BY DEF Covered
  <2>13. {} \in SUBSET Tickets /\ {t} \in SUBSET (Tickets \cup Requests)
         /\ {} \subseteq EndedOf(w) /\ {t} \subseteq HeldBy(w) \cup {}
    BY <2>5
  <2> QED BY <2>5, <2>6, <2>7, <2>11, <2>12, <2>13, Moves
<1> QED BY <1>6, <1>7

\* A settlement transaction takes back what the reversed tickets brought and
\* pays the settled ones.
LEMMA PostingEscrow ==
  ASSUME IInv, Countable, Covered', request' = request, NEW w \in Wallets,
         NEW R, NEW P, Posting(R, P), PostSettlement(R, P)
  PROVE  W(w)!Next
<1> DEFINE back == BackOf(R, w)
           paid == PaidOf(P, w)
<1>1. PostTickets(R, P) /\ wallet' = [v \in Wallets |-> PostWallet(v, R, P)]
  BY DEF PostSettlement
<1>2. /\ R \subseteq Tickets /\ DOMAIN P \subseteq Tickets
      /\ \A t \in R : status[t] = "settled"
      /\ \A t \in DOMAIN P : status[t] = "accepted" \/ t \in R
  BY DEF Posting
<1>3. Available(w)' = (Available(w) - SumFunctionOnSet(payout, back))
                         + SumFunctionOnSet(Won(P), paid)
  BY <1>1, PostingWallet
<1>4. /\ back \in SUBSET Tickets /\ paid \in SUBSET Tickets
      /\ IsFiniteSet(back) /\ IsFiniteSet(paid)
  BY PostingTypes
<1>5. Tickets \cap Requests = {}
  BY WithdrawalAssumption
<1>6. /\ OpenOf(w)' = (OpenOf(w) \cup back) \ paid
      /\ paid \subseteq OpenOf(w) \cup back
  BY <1>1, <1>2 DEF OpenOf, BackOf, PaidOf, PostTickets, OpenStatuses
<1>7. EndedTickets(w)' = (EndedTickets(w) \ back) \cup paid /\ back \subseteq EndedTickets(w)
  BY <1>1, <1>2 DEF EndedTickets, BackOf, PaidOf, PostTickets
<1>8. OpenReq(w)' = OpenReq(w) /\ EndedRequests(w)' = EndedRequests(w)
  BY RequestsStay
<1>9. HeldBy(w)' = (HeldBy(w) \cup back) \ paid /\ paid \subseteq HeldBy(w) \cup back
  <2> HIDE DEF back, paid
  <2> QED BY <1>4, <1>5, <1>6, <1>8, EscrowSets
<1>10. EndedOf(w)' = (EndedOf(w) \ back) \cup paid /\ back \subseteq EndedOf(w)
  <2> HIDE DEF back, paid
  <2> QED BY <1>4, <1>5, <1>7, <1>8, EscrowSets DEF EndedOf
<1>11. ASSUME NEW h \in EndedOf(w) \ back PROVE Worth(h)' = Worth(h)
  <2>1. CASE h \in Requests
    BY <2>1, RequestsStay
  <2>2. CASE h \notin Requests
    <3>1. h \in EndedTickets(w) /\ h \in Tickets
      BY <2>2, EscrowSets DEF EndedOf
    <3>2. h \notin R /\ h \notin DOMAIN P
      BY <1>2, <1>11, <3>1 DEF EndedTickets, BackOf
    <3> QED BY <1>1, <3>1, <3>2 DEF Worth, PostTickets
  <2> QED BY <2>1, <2>2
<1>12. \A t \in back : Brought(w)[t] = payout[t]
  BY <1>2, <1>4, <1>7 DEF Brought, Worth, BackOf
<1>13. \A t \in paid : Brought(w)'[t] = Won(P)[t]
  <2> SUFFICES ASSUME NEW t \in paid PROVE Brought(w)'[t] = Won(P)[t]
    OBVIOUS
  <2>1. t \in Tickets /\ t \in DOMAIN P /\ t \in EndedTickets(w)'
    BY <1>4, <1>7 DEF PaidOf
  <2>2. Worth(t)' = P[t].payout
    BY <1>1, <2>1 DEF Worth, PostTickets
  <2>3. Brought(w)'[t] = Worth(t)'
    BY <2>1 DEF Brought
  <2> QED BY <2>1, <2>2, <2>3 DEF Won
<1> HIDE DEF back, paid
<1>14. /\ SumFunctionOnSet(Brought(w), back) = SumFunctionOnSet(payout, back)
       /\ SumFunctionOnSet(Brought(w)', paid) = SumFunctionOnSet(Won(P), paid)
  BY <1>4, <1>12, <1>13, SumSame
<1>15. Available(w)' = (Available(w) - SumFunctionOnSet(Brought(w), back))
                          + SumFunctionOnSet(Brought(w)', paid)
  BY <1>3, <1>14
<1>16. Available(w)' >= 0
  BY DEF Covered
<1>17. paid \in SUBSET (Tickets \cup Requests)
  BY <1>4
<1> QED BY <1>4, <1>9, <1>10, <1>11, <1>15, <1>16, <1>17, Moves

\* The bets keep the promise.
LEMMA BetStepEscrow ==
  ASSUME WInv, [Next]_vars, UNCHANGED withdrawalVars, NEW w \in Wallets
  PROVE  W(w)!Next \/ Still(w)
<1>1. IInv /\ Countable /\ Covered /\ Covered' /\ request' = request
  BY StepCovered DEF WInv, withdrawalVars
<1>2. status \in [Tickets -> Statuses] /\ payout \in [Tickets -> Nat]
  BY <1>1 DEF IInv, TicketsTyped
<1>3. CASE UNCHANGED <<status, payout, wallet>>
  <2>1. Available(w)' = Available(w)
    BY <1>3 DEF Available
  <2> QED BY <1>1, <1>3, <2>1, QuietIsStill
<1>4. CASE TicketNext
  <2>1. PICK t \in Tickets : \/ PlaceValidate(t)
                             \/ \E st \in OpenStatuses : PlaceCommit(t, st)
                             \/ BetDelayAccept(t) /\ status[t] = "pending_delay"
                             \/ BetDelayReprice(t) /\ status[t] = "pending_delay"
                             \/ BetDelayReject(t) /\ status[t] = "pending_delay"
                             \/ AdminVoid(t)
                             \/ LockStep
    BY <1>1, <1>4, TicketCases
  <2>2. CASE PlaceValidate(t)
    <3>1. /\ status[t] = "absent" /\ status' = [status EXCEPT ![t] = "placing"]
          /\ payout' = payout /\ wallet' = wallet
      BY <2>2 DEF PlaceValidate, moneyVars
    <3>2. Available(w)' = Available(w)
      BY <3>1 DEF Available
    <3>3. \A u \in Tickets : \/ status'[u] = status[u] /\ payout'[u] = payout[u]
                             \/ {status[u], status'[u]} \subseteq {"absent", "placing"}
      BY <1>2, <3>1
    <3> QED BY <1>1, <3>2, <3>3, QuietIsStill
  <2>3. ASSUME NEW st \in OpenStatuses, PlaceCommit(t, st)
        PROVE  W(w)!Next \/ Still(w)
    BY <1>1, <2>3, PlacementTakes
  <2>4. CASE (BetDelayAccept(t) \/ BetDelayReprice(t)) /\ status[t] = "pending_delay"
    <3>1. /\ status[t] = "pending_delay" /\ status' = [status EXCEPT ![t] = "accepted"]
          /\ payout' = payout /\ wallet' = wallet
      BY <2>4 DEF BetDelayAccept, BetDelayReprice, moneyVars
    <3>2. Available(w)' = Available(w)
      BY <3>1 DEF Available
    <3>3. \A u \in Tickets : \/ status'[u] = status[u] /\ payout'[u] = payout[u]
                             \/ {status[u], status'[u]} \subseteq OpenStatuses
      BY <1>2, <3>1 DEF OpenStatuses
    <3> QED BY <1>1, <3>2, <3>3, QuietIsStill
  <2>5. CASE BetDelayReject(t) /\ status[t] = "pending_delay"
    BY <1>1, <2>5, RefundMoves DEF BetDelayReject, OpenStatuses
  <2>6. CASE AdminVoid(t)
    BY <1>1, <2>6, RefundMoves DEF AdminVoid, OpenStatuses
  <2>7. CASE LockStep
    BY <1>3, <2>7 DEF LockStep, ticketVars, moneyVars
  <2> QED BY <2>1, <2>2, <2>3, <2>4, <2>5, <2>6, <2>7
<1>5. CASE SettlerNext
  <2>1. ASSUME NEW R, NEW P, Posting(R, P), PostSettlement(R, P)
        PROVE  W(w)!Next
    BY <1>1, <2>1, PostingEscrow
  <2> QED BY <1>1, <1>3, <1>5, <2>1, SettlerPosts
<1>6. CASE ~ TicketNext /\ ~ SettlerNext
  <2>1. UNCHANGED <<status, payout, wallet>>
    BY <1>6 DEF Next, FeedOddsChange, Crash, Tick, vars, ticketVars, moneyVars
  <2> QED BY <1>3, <2>1
<1> QED BY <1>4, <1>5, <1>6

\* A route touches one wallet and one request.
LEMMA RouteOther ==
  ASSUME IInv, Countable, RequestsTyped, NEW x \in Requests, NEW st, NEW lock, NEW spend,
         Routed(x, st, lock, spend), BetsUnchanged, NEW w \in Wallets
  PROVE  /\ OpenOf(w)' = OpenOf(w) /\ EndedTickets(w)' = EndedTickets(w)
         /\ \A h \in Tickets \cup Requests : h # x => Worth(h)' = Worth(h)
         /\ Payer[x] # w => Still(w)
<1>1. /\ status' = status /\ payout' = payout
      /\ \A y \in Requests : y # x => request'[y] = request[y]
  BY DEF BetsUnchanged, ticketVars, Routed
<1>2. OpenOf(w)' = OpenOf(w) /\ EndedTickets(w)' = EndedTickets(w)
  BY <1>1 DEF OpenOf, EndedTickets
<1>3. ASSUME NEW h \in Tickets \cup Requests, h # x PROVE Worth(h)' = Worth(h)
  BY <1>1, <1>3 DEF Worth
<1>4. ASSUME Payer[x] # w PROVE Still(w)
  <2>1. Available(w)' = Available(w)
    BY <1>4 DEF Routed, Available
  <2>2. OpenReq(w)' = OpenReq(w) /\ EndedRequests(w)' = EndedRequests(w)
    BY <1>1, <1>4 DEF OpenReq, EndedRequests, RequestsOf, OpenRequests
  <2>3. HeldBy(w)' = HeldBy(w) /\ EndedOf(w)' = EndedOf(w)
    BY <1>2, <2>2, EscrowSets DEF EndedOf
  <2>4. EndedOf(w) \subseteq (Tickets \cup Requests) \ {x}
    BY <1>4, EscrowSets, WithdrawalAssumption DEF EndedOf, EndedRequests, RequestsOf
  <2>5. Brought(w)' = Brought(w)
    BY <1>3, <2>3, <2>4 DEF Brought, EndedOf
  <2> QED BY <2>1, <2>3, <2>5 DEF Still
<1> QED BY <1>2, <1>3, <1>4

\* The routes keep the promise.
LEMMA RouteEscrow ==
  ASSUME WInv, NEW x \in Requests, WithdrawalStep(x), NEW w \in Wallets
  PROVE  W(w)!Next \/ Still(w)
<1>1. /\ Locks(x) \/ Releases(x) \/ PassesOn(x) \/ Debits(x)
      /\ BetsUnchanged
  BY RouteIsOne DEF WInv
<1>2. /\ IInv /\ Countable /\ Covered /\ RequestsTyped
      /\ status' = status /\ payout' = payout /\ ledger' = ledger
  BY <1>1, RouteKeepsBets DEF WInv
<1>3. Amount[x] \in Nat /\ request[x].fee \in Nat /\ x \notin Tickets
  BY <1>2, RequestTypes, WithdrawalAssumption
<1>4. CASE Payer[x] # w
  <2>1. \E st, lock, spend : Routed(x, st, lock, spend)
    BY <1>1 DEF Locks, Releases, PassesOn, Debits
  <2> QED BY <1>1, <1>2, <1>4, <2>1, RouteOther
<1>5. ASSUME Payer[x] = w, NEW st, NEW lock \in Int, NEW spend \in Int,
             Routed(x, st, lock, spend)
      PROVE  /\ Available(w)' = (Available(w) - spend) - lock
             /\ Available(w) \in Int /\ Available(w)' >= 0
             /\ lock + spend <= Available(w)
             /\ OpenOf(w)' = OpenOf(w) /\ EndedTickets(w)' = EndedTickets(w)
             /\ \A h \in Tickets \cup Requests : h # x => Worth(h)' = Worth(h)
             /\ OpenReq(w)' = IF st \in OpenRequestStatuses THEN OpenReq(w) \cup {x}
                              ELSE OpenReq(w) \ {x}
             /\ (x \in OpenReq(w)) <=> (request[x].status \in OpenRequestStatuses)
             /\ EndedRequests(w)' = IF st \in OpenRequestStatuses \cup {"none"}
                                    THEN EndedRequests(w) \ {x} ELSE EndedRequests(w) \cup {x}
             /\ (x \in EndedRequests(w)) <=>
                  (request[x].status \notin OpenRequestStatuses \cup {"none"})
  <2>1. /\ Available(w)' = (Available(w) - spend) - lock /\ Covered'
    BY <1>2, <1>5, RouteStaysCovered
  <2>2. Available(w) \in Int /\ Available(w)' >= 0 /\ lock + spend <= Available(w)
    BY <1>2, <1>5, <2>1 DEF Covered, Countable, Available, Routed
  <2>3. /\ OpenReq(w)' = IF st \in OpenRequestStatuses THEN OpenReq(w) \cup {x}
                         ELSE OpenReq(w) \ {x}
        /\ (x \in OpenReq(w)) <=> (request[x].status \in OpenRequestStatuses)
    BY <1>2, <1>5, RouteSets
  <2>4. /\ OpenOf(w)' = OpenOf(w) /\ EndedTickets(w)' = EndedTickets(w)
        /\ \A h \in Tickets \cup Requests : h # x => Worth(h)' = Worth(h)
    BY <1>1, <1>2, <1>5, RouteOther
  <2>5. request'[x].status = st /\ \A y \in Requests : y # x => request'[y] = request[y]
    BY <1>5 DEF Routed
  <2>6. /\ EndedRequests(w) = {y \in Requests : /\ request[y].status
                                                   \notin OpenRequestStatuses \cup {"none"}
                                               /\ Payer[y] = w}
        /\ EndedRequests(w)' = {y \in Requests : /\ request'[y].status
                                                    \notin OpenRequestStatuses \cup {"none"}
                                                /\ Payer[y] = w}
    BY DEF EndedRequests, RequestsOf, OpenRequests, OpenRequestStatuses
  <2>7. /\ EndedRequests(w)' = IF st \in OpenRequestStatuses \cup {"none"}
                               THEN EndedRequests(w) \ {x} ELSE EndedRequests(w) \cup {x}
        /\ (x \in EndedRequests(w)) <=>
             (request[x].status \notin OpenRequestStatuses \cup {"none"})
    BY <1>5, <2>5, <2>6
  <2> QED BY <2>1, <2>2, <2>3, <2>4, <2>7
<1>6. CASE Payer[x] = w /\ Locks(x)
  <2>1. Routed(x, "requested", Amount[x], 0) /\ request[x].status = "none"
    BY <1>6 DEF Locks
  <2>2. /\ Available(w)' = Available(w) - Amount[x] /\ Amount[x] <= Available(w)
        /\ OpenReq(w)' = OpenReq(w) \cup {x} /\ x \notin OpenReq(w)
        /\ EndedRequests(w)' = EndedRequests(w) /\ x \notin EndedRequests(w)
        /\ OpenOf(w)' = OpenOf(w) /\ EndedTickets(w)' = EndedTickets(w)
        /\ \A h \in Tickets \cup Requests : h # x => Worth(h)' = Worth(h)
    <3>1. "requested" \in OpenRequestStatuses /\ "none" \notin OpenRequestStatuses
      BY DEF OpenRequestStatuses
    <3>2. /\ Available(w)' = (Available(w) - 0) - Amount[x] /\ Available(w) \in Int
          /\ Amount[x] + 0 <= Available(w)
          /\ OpenReq(w)' = OpenReq(w) \cup {x} /\ x \notin OpenReq(w)
          /\ EndedRequests(w)' = EndedRequests(w) \ {x} /\ x \notin EndedRequests(w)
          /\ OpenOf(w)' = OpenOf(w) /\ EndedTickets(w)' = EndedTickets(w)
          /\ \A h \in Tickets \cup Requests : h # x => Worth(h)' = Worth(h)
      <4>1. Amount[x] \in Int /\ 0 \in Int
        BY <1>3
      <4> QED BY <1>5, <1>6, <2>1, <3>1, <4>1
    <3>3. Available(w)' = Available(w) - Amount[x] /\ Amount[x] <= Available(w)
      BY <1>3, <3>2
    <3> QED BY <3>2, <3>3
  <2>3. HeldBy(w)' = HeldBy(w) \cup {x} /\ x \notin HeldBy(w) /\ x \notin EndedOf(w)
    BY <1>3, <2>2, EscrowSets DEF EndedOf
  <2>4. EndedOf(w) \subseteq (Tickets \cup Requests) \ {x}
    BY <2>3, EscrowSets DEF EndedOf
  <2>5. Brought(w)' = Brought(w)
    BY <2>2, <2>4 DEF Brought, EndedOf
  <2>6. HoldAmount[x] = Amount[x]
    BY <1>3 DEF HoldAmount
  <2> QED BY <2>2, <2>3, <2>5, <2>6, Takes
<1>7. CASE Payer[x] = w /\ PassesOn(x)
  <2>1. PICK st \in OpenRequestStatuses : Routed(x, st, 0, 0)
    BY <1>7 DEF PassesOn
  <2>2. request[x].status \in OpenRequestStatuses
    BY <1>7 DEF PassesOn
  <2>3. /\ Available(w)' = Available(w)
        /\ OpenReq(w)' = OpenReq(w) /\ EndedRequests(w)' = EndedRequests(w)
        /\ x \notin EndedRequests(w)
        /\ OpenOf(w)' = OpenOf(w) /\ EndedTickets(w)' = EndedTickets(w)
        /\ \A h \in Tickets \cup Requests : h # x => Worth(h)' = Worth(h)
    <3>1. /\ Available(w)' = (Available(w) - 0) - 0 /\ Available(w) \in Int
          /\ OpenReq(w)' = OpenReq(w) \cup {x} /\ x \in OpenReq(w)
          /\ EndedRequests(w)' = EndedRequests(w) \ {x} /\ x \notin EndedRequests(w)
          /\ OpenOf(w)' = OpenOf(w) /\ EndedTickets(w)' = EndedTickets(w)
          /\ \A h \in Tickets \cup Requests : h # x => Worth(h)' = Worth(h)
      <4>1. 0 \in Int
        OBVIOUS
      <4> QED BY <1>5, <1>7, <2>1, <2>2, <4>1
    <3>2. Available(w)' = Available(w)
      BY <3>1
    <3> QED BY <3>1, <3>2
  <2>4. HeldBy(w)' = HeldBy(w)
    BY <2>3, EscrowSets
  <2>5. EndedOf(w) \subseteq (Tickets \cup Requests) \ {x}
    BY <1>3, <2>3, EscrowSets DEF EndedOf
  <2>6. Brought(w)' = Brought(w)
    BY <2>3, <2>5 DEF Brought, EndedOf
  <2> QED BY <2>3, <2>4, <2>6 DEF Still
<1>8. ASSUME Payer[x] = w, request[x].status \in OpenRequestStatuses,
             NEW st \in {"failed", "cancelled", "confirmed"}, NEW spend \in Int,
             Routed(x, st, - Amount[x], spend), Worth(x)' = Amount[x] - spend
      PROVE  W(w)!Next
  <2>1. /\ Available(w)' = (Available(w) - spend) - (- Amount[x])
        /\ Available(w) \in Int /\ Available(w)' >= 0
        /\ OpenReq(w)' = OpenReq(w) \ {x} /\ x \in OpenReq(w)
        /\ EndedRequests(w)' = EndedRequests(w) \cup {x} /\ x \notin EndedRequests(w)
        /\ OpenOf(w)' = OpenOf(w) /\ EndedTickets(w)' = EndedTickets(w)
        /\ \A h \in Tickets \cup Requests : h # x => Worth(h)' = Worth(h)
    <3>1. - Amount[x] \in Int
      BY <1>3
    <3> QED BY <1>5, <1>8, <3>1 DEF OpenRequestStatuses
  <2>2. HeldBy(w)' = (HeldBy(w) \cup {}) \ {x} /\ x \in HeldBy(w)
    BY <1>3, <2>1, EscrowSets
  <2>3. EndedOf(w)' = (EndedOf(w) \ {}) \cup {x} /\ x \notin EndedOf(w)
    BY <1>3, <2>1, EscrowSets DEF EndedOf
  <2>4. \A h \in EndedOf(w) \ {} : Worth(h)' = Worth(h)
    BY <2>1, <2>3, EscrowSets DEF EndedOf
  <2>5. Brought(w)'[x] = Amount[x] - spend
    BY <1>8, <2>3 DEF Brought, EndedOf
  <2>6. SumFunctionOnSet(Brought(w)', {x}) = Amount[x] - spend
    <3>1. Amount[x] - spend \in Int
      BY <1>3
    <3>2. SumFunctionOnSet(Brought(w)', {} \cup {x})
            = Brought(w)'[x] + SumFunctionOnSet(Brought(w)', {})
      BY <2>5, <3>1, FS_EmptySet, SumAdd
    <3>3. {} \cup {x} = {x} /\ SumFunctionOnSet(Brought(w)', {}) = 0
      BY SumEmpty
    <3> QED BY <1>3, <2>5, <3>2, <3>3
  <2>7. SumFunctionOnSet(Brought(w), {}) = 0
    BY SumEmpty
  <2>8. Available(w)' = (Available(w) - SumFunctionOnSet(Brought(w), {}))
                           + SumFunctionOnSet(Brought(w)', {x})
    BY <1>3, <2>1, <2>6, <2>7
  <2>9. {} \in SUBSET Tickets /\ {x} \in SUBSET (Tickets \cup Requests)
        /\ {} \subseteq EndedOf(w) /\ {x} \subseteq HeldBy(w) \cup {}
    BY <2>2
  <2> QED BY <2>1, <2>2, <2>3, <2>4, <2>8, <2>9, Moves
<1>9. CASE Payer[x] = w /\ Releases(x)
  <2>1. PICK st \in {"failed", "cancelled"} : Routed(x, st, - Amount[x], 0)
    BY <1>9 DEF Releases
  <2>2. Worth(x)' = Amount[x] - 0
    BY <1>3, <2>1 DEF Worth, Routed
  <2> QED BY <1>8, <1>9, <2>1, <2>2 DEF Releases
<1>10. CASE Payer[x] = w /\ Debits(x)
  <2>1. /\ Routed(x, "confirmed", - Amount[x], Amount[x] + request[x].fee)
        /\ request'[x].fee = request[x].fee /\ request[x].status = "submitted"
    BY <1>10 DEF Debits
  <2>2. request'[x].status = "confirmed"
    BY <2>1 DEF Routed
  <2>3. Worth(x)' = - request[x].fee
    BY <1>3, <2>1, <2>2 DEF Worth
  <2>4. Worth(x)' = Amount[x] - (Amount[x] + request[x].fee) /\ Amount[x] + request[x].fee \in Int
    BY <1>3, <2>3
  <2> QED BY <1>8, <1>10, <2>1, <2>4 DEF OpenRequestStatuses
<1> QED BY <1>1, <1>4, <1>6, <1>7, <1>9, <1>10

\* Every wallet starts free and with nothing held.
LEMMA InitEscrow ==
  ASSUME WithdrawalInit, NEW w \in Wallets
  PROVE  W(w)!Init
<1>1. Available(w) = Opening
  <2>1. wallet[w].balance = Opening /\ wallet[w].locked = 0 /\ Opening \in Int
    BY TicketAssumption DEF WithdrawalInit, Init
  <2> QED BY <2>1 DEF Available
<1>2. (\A t \in Tickets : status[t] = "absent") /\ \A x \in Requests : request[x].status = "none"
  BY DEF WithdrawalInit, Init, NoRequest
<1>3. HeldBy(w) = {} /\ EndedTickets(w) = {} /\ EndedRequests(w) = {}
  BY <1>2 DEF HeldBy, EndedTickets, EndedRequests, RequestsOf, OpenRequests, OpenStatuses
<1>4. Brought(w) = [h \in {} |-> 0]
  BY <1>3 DEF Brought
<1> QED BY <1>1, <1>3, <1>4 DEF W!Init

\* A step of bets or withdrawals is a step of every escrow, or none.
LEMMA StepEscrow ==
  ASSUME WInv, [WithdrawalNext]_allVars, NEW w \in Wallets
  PROVE  W(w)!Next \/ Still(w)
<1>1. CASE Next /\ UNCHANGED withdrawalVars
  BY <1>1, BetStepEscrow
<1>2. CASE UNCHANGED allVars
  <2>1. vars' = vars /\ UNCHANGED withdrawalVars
    BY <1>2 DEF allVars
  <2> QED BY <2>1, BetStepEscrow
<1>3. ASSUME NEW x \in Requests, WithdrawalStep(x) PROVE W(w)!Next \/ Still(w)
  BY <1>3, RouteEscrow
<1> QED BY <1>1, <1>2, <1>3 DEF WithdrawalNext

\* Every wallet keeps the promise of Escrow: a stake or a request is held only
\* from what is free when it commits, a hold ends once and brings a definite
\* amount, and a rollback takes back exactly that amount or fails as a whole.
THEOREM EveryWalletIsEscrow ==
  ASSUME NEW w \in Wallets
  PROVE  WithdrawalSpec => W(w)!Spec
<1>1. WithdrawalInit => W(w)!Init
  BY InitEscrow
<1>2. WInv /\ [WithdrawalNext]_allVars => [W(w)!Next]_<<Available(w), HeldBy(w), Brought(w)>>
  BY StepEscrow DEF Still
<1> QED BY <1>1, <1>2, WithdrawalInductive, PTL DEF WithdrawalSpec, W!Spec

\* The refinement the run checks is the one of TheWallet.
THEOREM WalletRefinesEscrow == WithdrawalSpec => WalletIsEscrow
<1>1. TheWallet \in Wallets
  BY WithdrawalAssumption DEF TheWallet
<1>2. WithdrawalInit => E!Init
  <2>1. WithdrawalInit => W(TheWallet)!Init
    BY <1>1, InitEscrow
  <2> QED BY <2>1 DEF W!Init, E!Init
<1>3. WInv /\ [WithdrawalNext]_allVars
        => [E!Next]_<<Available(TheWallet), HeldBy(TheWallet), Brought(TheWallet)>>
  <2>1. WInv /\ [WithdrawalNext]_allVars => W(TheWallet)!Next \/ Still(TheWallet)
    BY <1>1, StepEscrow
  <2>2. W(TheWallet)!Next => E!Next
    BY DEF W!Next, E!Next, W!Take, E!Take, W!Move, E!Move, W!Ended, E!Ended, W!Total, E!Total,
           W!SumFunctionOnSet, E!SumFunctionOnSet, W!FoldFunctionOnSet, E!FoldFunctionOnSet,
           W!MapThenFoldSet, E!MapThenFoldSet
  <2> QED BY <2>1, <2>2 DEF Still
<1> QED BY <1>2, <1>3, WithdrawalInductive, PTL DEF WithdrawalSpec, WalletIsEscrow, E!Spec
=============================================================================
