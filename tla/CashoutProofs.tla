---------------------------- MODULE CashoutProofs ----------------------------
(***************************************************************************)
(* Cashout for every set of tickets, quotes and clients: a ticket is paid  *)
(* by a settle or by a cashout and never by both (PaidOnce), the exposure  *)
(* counter stays exact, and a wallet drifts from its ledger by exactly the *)
(* stakes of the tickets that were cashed out (DriftIsCashedOutStakes).    *)
(*                                                                         *)
(* The steps of Settlement are reused as SettlementProofs describes them;   *)
(* what is new is AcceptCommit, which writes a ticket, its wallet and one  *)
(* row in one transaction after a delay without a lock.                    *)
(***************************************************************************)
EXTENDS Cashout, SettlementProofs

QuoteRow == [status: {"none", "offered", "accepted", "expired", "errored"},
             ticket: Tickets \cup {None}, offer: Nat, expired: BOOLEAN]
TabState == [pc: {"rest", "delay", "commit", "locked", "expire", "error"},
             quote: Quotes \cup {None}]

\* A stored quote names a committed ticket, and an accept call under way a stored
\* quote.
QuotesTyped ==
  /\ quote \in [Quotes -> QuoteRow]
  /\ tab \in [Tabs -> TabState]
  /\ \A q \in Quotes : quote[q].status # "none" =>
       /\ quote[q].ticket \in Tickets
       /\ status[quote[q].ticket] \notin {"absent", "placing"}
  /\ \A a \in Tabs : tab[a].pc # "rest" => /\ tab[a].quote \in Quotes
                                            /\ quote[tab[a].quote].status # "none"

\* The ticket of a client's quote.
TabTicket(a) == quote[tab[a].quote].ticket

\* An accept in its transaction has the row of its ticket, alone.
TabsHold ==
  \A a \in Tabs : tab[a].pc = "locked" =>
    /\ hold[TabTicket(a)].by = "cashout"
    /\ \A b \in Tabs \ {a} : tab[b].pc = "locked" => TabTicket(b) # TabTicket(a)

CashedOf(w) == {t \in Tickets : WalletOf[t] = w /\ status[t] = "cashed_out"}

\* The books of a wallet with its cashed-out tickets.
Drifts(w) ==
  Available(w) = (Opening + RowSum(RowsOf(w))) + (Stakes(UnbookedOf(w)) + Stakes(CashedOf(w)))

\* The inductive invariant. DriftIsCashedOutStakes is its last conjunct, with
\* the two kinds of stakes apart; PaidOnce is what makes the row of a cashout
\* new when it is posted.
CInv ==
  /\ IInv /\ Countable /\ OpenLiabilityExact /\ LockedIsOpenStakes
  /\ QuotesTyped /\ TabsHold /\ PaidOnce
  /\ \A w \in Wallets : Drifts(w)

-----------------------------------------------------------------------------
(* The offer *)

\* PO!Product multiplies the values of a function: the recursion of ProductNat.
LEMMA ProductUnfold ==
  ASSUME NEW f
  PROVE  PO!Product(f) = (CHOOSE g : IsTimes(g, f, DOMAIN f))[DOMAIN f]
BY DEF PO!Product, PO!FoldFunction, PO!FoldFunctionOnSet, PO!MapThenFoldSet, IsTimes, Pick

\* Products of natural factors over a ticket's legs are natural numbers.
LEMMA LegProduct ==
  ASSUME NEW t \in Tickets, NEW f, DOMAIN f = LegsOf(t), \A m \in LegsOf(t) : f[m] \in Nat
  PROVE  PO!Product(f) \in Nat /\ ((\A m \in LegsOf(t) : f[m] > 0) => PO!Product(f) > 0)
<1> DEFINE S == LegsOf(t)
           g == CHOOSE h : IsTimes(h, f, S)
<1>1. IsFiniteSet(S)
  <2>1. S \in SUBSET Markets /\ IsFiniteSet(Markets)
    BY TicketAssumption
  <2> HIDE DEF S
  <2> QED BY <2>1, FS_Subset
<1>2. DOMAIN f = S /\ \A m \in S : f[m] \in Nat
  OBVIOUS
<1> HIDE DEF S
<1>3. IsTimes(g, f, S)
  BY <1>1, TimesExists
<1>4. PO!Product(f) = g[S]
  BY <1>2, ProductUnfold
<1> HIDE DEF g
<1>5. g[S] \in Nat /\ ((\A x \in S : f[x] > 0) => g[S] > 0)
  BY <1>1, <1>2, <1>3, ProductNat
<1> QED BY <1>4, <1>5 DEF S

\* Rounding and truncating a quotient of naturals gives a natural.
LEMMA DivNat ==
  ASSUME NEW a \in Nat, NEW b \in Nat, b > 0
  PROVE  a \div b \in Nat
OBVIOUS

\* The value of a ticket is a natural number of micro-units.
LEMMA MultiplyNat ==
  ASSUME NEW s \in Nat, NEW n \in Nat, NEW d \in Nat, d > 0
  PROVE  PO!MultiplyMicroByOdds(s, n, d) \in Nat
<1>1. Q \in Nat /\ Q > 0
  BY CashoutAssumption
<1>2. 2 * n * Q + d \in Nat /\ 2 * d \in Nat /\ 2 * d > 0
  <2>1. 2 * n \in Nat
    OBVIOUS
  <2>2. (2 * n) * Q \in Nat
    BY <1>1, <2>1, NatTimes
  <2> QED BY <2>2
<1>3. PO!Quantise(n, d) \in Nat
  <2> DEFINE x == 2 * n * Q + d
             y == 2 * d
  <2>1. PO!Quantise(n, d) = x \div y
    BY DEF PO!Quantise
  <2> HIDE DEF x, y
  <2> QED BY <1>2, <2>1, DivNat DEF x, y
<1>4. s * PO!Quantise(n, d) \in Nat
  BY <1>3, NatTimes
<1> QED BY <1>1, <1>4, DivNat DEF PO!MultiplyMicroByOdds

\* What a leg multiplies by is a fraction of naturals.
LEMMA LegFactorTyped ==
  ASSUME IInv, NEW t \in Tickets, NEW m \in LegsOf(t)
  PROVE  LegFactor(t, m)[1] \in Nat /\ LegFactor(t, m)[2] \in Nat /\ LegFactor(t, m)[2] > 0
<1>1. odds[t][m] \in Nat /\ price[m] \in Nat /\ price[m] > 0
  <2>1. odds[t][m] \in Prices /\ price[m] \in Prices
    BY TicketAssumption DEF IInv, TicketsTyped, Odds
  <2>2. Prices \subseteq Nat \ {0}
    BY TicketAssumption, Zenon
  <2>3. odds[t][m] \in Nat \ {0} /\ price[m] \in Nat \ {0}
    BY <2>1, <2>2, Zenon
  <2> QED BY <2>3
<1>2. Q \in Nat /\ Q > 0
  BY CashoutAssumption
<1>3. leg[t][m] \in Results \cup {Unresolved}
  BY DEF IInv, TicketsTyped
<1> QED BY <1>1, <1>2, <1>3 DEF LegFactor, Results, Unresolved

\* compute() of algorithm.ts offers a natural number of micro-units.
LEMMA OfferNat ==
  ASSUME IInv, NEW t \in Tickets
  PROVE  Offer(t) \in Nat
<1> DEFINE num == [m \in LegsOf(t) |-> LegFactor(t, m)[1]]
           den == [m \in LegsOf(t) |-> LegFactor(t, m)[2]]
<1>1. \A m \in LegsOf(t) : num[m] \in Nat /\ den[m] \in Nat /\ den[m] > 0
  BY LegFactorTyped
<1>2. RatioNum(t) = PO!Product(num) /\ RatioDen(t) = PO!Product(den)
  BY DEF RatioNum, RatioDen
<1>3. DOMAIN num = LegsOf(t) /\ DOMAIN den = LegsOf(t)
  OBVIOUS
<1> HIDE DEF num, den
<1>4. RatioNum(t) \in Nat /\ RatioDen(t) \in Nat /\ RatioDen(t) > 0
  BY <1>1, <1>2, <1>3, LegProduct
<1>5. Stake[t] \in Nat /\ potential[t] \in Nat
  BY TicketAssumption DEF IInv, TicketsTyped
<1>6. PO!MultiplyMicroByOdds(Stake[t], RatioNum(t), RatioDen(t)) \in Nat
  BY <1>4, <1>5, MultiplyNat
<1> QED BY <1>5, <1>6 DEF Offer

-----------------------------------------------------------------------------
(* The steps of Settlement leave cashed-out tickets alone *)

\* The rows a step may add: none of type cashout, none of a cashed-out ticket.
ForeignRow(r) == r.type # "cashout" /\ status[r.ticket] # "cashed_out"

RowsKept == ledger \subseteq ledger' /\ \A r \in ledger' \ ledger : ForeignRow(r)

PayoutsKept == \A t \in Tickets : status[t] = "cashed_out" => payout'[t] = payout[t]

\* A posting of the settlement service.
LEMMA PostingForeign ==
  ASSUME IInv, NEW R, NEW P, Posting(R, P), PostSettlement(R, P)
  PROVE  RowsKept /\ PayoutsKept
<1>1. ledger' = PostLedger(R, P) /\ PostTickets(R, P)
  BY DEF PostSettlement
<1>2. /\ R \in SUBSET Tickets /\ DOMAIN P \subseteq Tickets
      /\ \A t \in R \cup DOMAIN P : status[t] # "cashed_out"
  BY DEF Posting
<1>3. ASSUME NEW t \in R, NEW r \in ReverseRows(t)
      PROVE  ForeignRow(r)
  <2>1. r.ticket = t /\ r.type = "adjustment"
    BY <1>3 DEF ReverseRows, InsertUnlessExists, Row
  <2> QED BY <1>2, <2>1 DEF ForeignRow
<1>4. ASSUME NEW t \in DOMAIN P, NEW r \in SettleRows(t, P[t])
      PROVE  ForeignRow(r)
  <2>1. r.ticket = t /\ r.type = P[t].type
    BY <1>4 DEF SettleRows, InsertUnlessExists, Row
  <2>2. P[t].type \in CreditTypes
    BY DEF Posting, Payouts
  <2>3. r.type # "cashout"
    BY <2>1, <2>2 DEF CreditTypes
  <2> QED BY <1>2, <2>1, <2>3 DEF ForeignRow
<1>5. RowsKept
  BY <1>1, <1>3, <1>4 DEF PostLedger, RowsKept
<1>6. PayoutsKept
  BY <1>1, <1>2 DEF PostTickets, PayoutsKept
<1> QED BY <1>5, <1>6

\* One row of an open or placing ticket.
LEMMA InsertForeign ==
  ASSUME NEW row, row.type # "cashout", status[row.ticket] # "cashed_out",
         ledger' = ledger \cup InsertUnlessExists(ledger, row)
  PROVE  RowsKept
BY DEF RowsKept, ForeignRow, InsertUnlessExists

\* Every step of Settlement.
LEMMA StepForeign ==
  ASSUME IInv, [Next]_vars
  PROVE  RowsKept /\ PayoutsKept
<1>1. CASE TicketNext
  <2>1. PICK t \in Tickets : \/ PlaceValidate(t)
                             \/ \E st \in OpenStatuses : PlaceCommit(t, st)
                             \/ BetDelayAccept(t) /\ status[t] = "pending_delay"
                             \/ BetDelayReprice(t) /\ status[t] = "pending_delay"
                             \/ BetDelayReject(t) /\ status[t] = "pending_delay"
                             \/ AdminVoid(t)
                             \/ LockStep
    BY <1>1, TicketCases
  <2>2. PayoutsKept
    <3>1. \/ payout' = payout
          \/ status[t] = "accepted" /\ payout' = [payout EXCEPT ![t] = Stake[t]]
      BY <2>1 DEF PlaceValidate, PlaceCommit, BetDelayAccept, BetDelayReprice, BetDelayReject,
                  AdminVoid, LockStep, ticketVars
    <3>2. payout \in [Tickets -> Nat]
      BY DEF IInv, TicketsTyped
    <3> QED BY <3>1, <3>2 DEF PayoutsKept
  <2>3. ASSUME NEW st \in OpenStatuses, PlaceCommit(t, st)
        PROVE  RowsKept
    <3> DEFINE row == Row("bet_stake", t, 1, - Stake[t])
    <3>1. row.type # "cashout" /\ status[row.ticket] # "cashed_out"
      BY <2>3 DEF PlaceCommit, Row
    <3>2. ledger' = ledger \cup InsertUnlessExists(ledger, row)
      BY <2>3 DEF PlaceCommit
    <3> HIDE DEF row
    <3> QED BY <3>1, <3>2, InsertForeign
  <2>4. CASE (BetDelayReject(t) /\ status[t] = "pending_delay") \/ AdminVoid(t)
    <3> DEFINE row == Row("bet_refund", t, 1, Stake[t])
    <3>1. row.type # "cashout" /\ status[row.ticket] # "cashed_out"
      BY <2>4 DEF AdminVoid, Row
    <3>2. ledger' = ledger \cup InsertUnlessExists(ledger, row)
      BY <2>4 DEF BetDelayReject, AdminVoid, RefundStake
    <3> HIDE DEF row
    <3> QED BY <2>2, <3>1, <3>2, InsertForeign
  <2>5. CASE PlaceValidate(t) \/ BetDelayAccept(t) \/ BetDelayReprice(t) \/ LockStep
    <3>1. ledger' = ledger
      BY <2>5 DEF PlaceValidate, BetDelayAccept, BetDelayReprice, LockStep, moneyVars
    <3> QED BY <2>2, <3>1 DEF RowsKept
  <2> QED BY <2>1, <2>2, <2>3, <2>4, <2>5
<1>2. CASE SettlerNext
  <2>1. ASSUME UNCHANGED <<status, payout, wallet, ledger, openLiability>>
        PROVE  RowsKept /\ PayoutsKept
    <3>1. ledger' = ledger /\ payout' = payout
      BY <2>1
    <3>2. RowsKept
      BY <3>1 DEF RowsKept
    <3>3. PayoutsKept
      BY <3>1 DEF PayoutsKept
    <3> QED BY <3>2, <3>3
  <2>2. ASSUME NEW R, NEW P, Posting(R, P), PostSettlement(R, P)
        PROVE  RowsKept /\ PayoutsKept
    BY <2>2, PostingForeign
  <2>3. \/ \E R, P : Posting(R, P) /\ PostSettlement(R, P)
        \/ UNCHANGED <<status, payout, wallet, ledger, openLiability>>
    BY <1>2, SettlerPosts
  <2> QED BY <2>1, <2>2, <2>3
<1>3. CASE ~ TicketNext /\ ~ SettlerNext
  <2>1. ledger' = ledger /\ payout' = payout
    BY <1>3 DEF Next, FeedOddsChange, Crash, Tick, vars, ticketVars, moneyVars
  <2>2. RowsKept
    BY <2>1 DEF RowsKept
  <2>3. PayoutsKept
    BY <2>1 DEF PayoutsKept
  <2> QED BY <2>2, <2>3
<1> QED BY <1>1, <1>2, <1>3

\* No step of Settlement cashes a ticket out or reopens one that was.
LEMMA StepKeepsCashed ==
  ASSUME IInv, [Next]_vars, NEW t \in Tickets
  PROVE  (status'[t] = "cashed_out") <=> (status[t] = "cashed_out")
BY StepMoves DEF TicketMove, OpenStatuses

\* They pay no ticket that was cashed out, and cash out none.
LEMMA BetStepPaidOnce ==
  ASSUME IInv, PaidOnce, [Next]_vars
  PROVE  PaidOnce'
<1>1. RowsKept /\ PayoutsKept
  BY StepForeign
<1>2. ASSUME NEW t \in Tickets, status[t] = "cashed_out"
      PROVE  /\ UnreversedCredits(ledger', t) = UnreversedCredits(ledger, t)
             /\ CashoutRows(t)' = CashoutRows(t)
             /\ payout'[t] = payout[t]
  <2>1. \A r : r.ticket = t => (r \in ledger' <=> r \in ledger)
    BY <1>1, <1>2 DEF RowsKept, ForeignRow
  <2>2. CreditRows(ledger', t) = CreditRows(ledger, t)
    BY <2>1 DEF CreditRows
  <2>3. \A r \in CreditRows(ledger, t) : Reversed(ledger', r) <=> Reversed(ledger, r)
    BY <2>1 DEF Reversed, CreditRows
  <2>4. CashoutRows(t)' = CashoutRows(t)
    BY <2>1 DEF CashoutRows
  <2> QED BY <1>1, <1>2, <2>2, <2>3, <2>4 DEF UnreversedCredits, PayoutsKept
<1>3. ASSUME NEW t \in Tickets, status[t] # "cashed_out"
      PROVE  CashoutRows(t)' = CashoutRows(t)
  BY <1>1 DEF RowsKept, ForeignRow, CashoutRows
<1>4. \A t \in Tickets : (status'[t] = "cashed_out") <=> (status[t] = "cashed_out")
  BY StepKeepsCashed
<1> QED BY <1>2, <1>3, <1>4 DEF PaidOnce

\* The sums of a wallet after a step are whole numbers too.
LEMMA NextSumTypes ==
  ASSUME IInv', Countable', NEW w \in Wallets
  PROVE  /\ RowSum(RowsOf(w)') \in Int /\ Stakes(UnbookedOf(w)') \in Int
         /\ Stakes(OpenOf(w)') \in Int /\ Stakes(CashedOf(w)') \in Int
<1>1. /\ UnbookedOf(w)' \in SUBSET Tickets /\ OpenOf(w)' \in SUBSET Tickets
      /\ CashedOf(w)' \in SUBSET Tickets
  BY DEF UnbookedOf, OpenOf, CashedOf
<1>2. RowsOf(w)' \in SUBSET ledger'
  BY DEF RowsOf
<1>3. IsFiniteSet(ledger') /\ \A r \in ledger' : r.delta \in Int
  BY DEF Countable, IInv, BooksInOrder, LedgerRow
<1>4. IsFiniteSet(RowsOf(w)') /\ \A r \in RowsOf(w)' : r.delta \in Int
  BY <1>2, <1>3, FS_Subset
<1> QED BY <1>1, <1>4, StakesType, RowSumType

\* No step of Settlement takes a row from the accept that has it.
LEMMA CashoutHoldStays ==
  ASSUME IInv, [Next]_vars, NEW t \in Tickets, hold[t].by = "cashout"
  PROVE  hold'[t].by = "cashout"
<1>1. DOMAIN hold = Tickets /\ t \in LockedRows
  BY DEF IInv, HoldsOwned, LockedRows, HeldRows
<1>2. ASSUME NEW u \in Tickets, u # t, NEW h, hold' = [hold EXCEPT ![u] = h]
      PROVE  hold'[t] = hold[t]
  BY <1>1, <1>2
<1>3. CASE TicketNext
  <2>1. PICK u \in Tickets :
          \/ hold' = hold
          \/ u \notin LockedRows /\ hold' = [hold EXCEPT ![u] = Decision(u)]
          \/ u \notin LockedRows /\ hold' = [hold EXCEPT ![u].by = "void"]
          \/ hold[u].by \in Decisions \cup {"void"} /\ hold' = [hold EXCEPT ![u] = NoHold(u)]
    BY <1>3 DEF TicketNext, PlaceValidate, PlaceCommit, BetDelayTake, BetDelayAccept,
                BetDelayReprice, BetDelayReject, VoidTake, AdminVoid, VoidRefused, HoldFails,
                ReleaseRow, lockVars, Decisions
  <2>2. hold' = hold \/ u # t
    BY <1>1, <2>1 DEF Decisions
  <2>3. CASE u # t
    BY <1>1, <2>1, <2>3
  <2> QED BY <2>2, <2>3
<1>4. CASE ~ TicketNext
  <2>1. CASE SettlerNext
    <3>1. PICK s \in Settlers :
            \/ \E m \in Markets, res \in SettlePayloads : SettlePhase1(s, m, res)
            \/ \E C \in SUBSET Tickets : ChunkBegin(s, C)
            \/ ChunkCommit(s) \/ CloseMatch(s) \/ TxError(s) \/ ReconcileStranded(s)
            \/ \E m \in Markets, win \in CancelWindows : MarketCancel(s, m, win)
            \/ \E m \in Markets, win \in CancelWindows : MarketCancelSkip(s, m, win)
            \/ \E m \in Markets, type \in {"rollback_settle", "rollback_cancel"} :
                 MarketRollback(s, m, type)
            \/ \E due \in SUBSET Matches : ReconcileMatchLifecycle(s, due)
      BY <2>1 DEF SettlerNext
    <3>2. CASE \/ \E m \in Markets, res \in SettlePayloads : SettlePhase1(s, m, res)
               \/ \E C \in SUBSET Tickets : ChunkBegin(s, C)
               \/ ChunkCommit(s) \/ CloseMatch(s) \/ TxError(s) \/ ReconcileStranded(s)
               \/ \E due \in SUBSET Matches : ReconcileMatchLifecycle(s, due)
      <4>1. hold' = hold
        BY <3>2 DEF SettlePhase1, ChunkBegin, ChunkCommit, CloseMatch, TxError,
                    ReconcileStranded, ReconcileMatchLifecycle, lockVars
      <4> QED BY <4>1
    <3>3. ASSUME NEW m \in Markets, NEW win \in CancelWindows,
                 MarketCancel(s, m, win) \/ MarketCancelSkip(s, m, win)
          PROVE  hold' = hold
      BY <3>3 DEF MarketCancel, MarketCancelSkip, lockVars
    <3>4. ASSUME NEW m \in Markets, NEW type, MarketRollback(s, m, type)
          PROVE  hold' = hold
      BY <3>4 DEF MarketRollback
    <3> QED BY <3>1, <3>2, <3>3, <3>4
  <2>2. CASE ~ SettlerNext
    <3>1. hold' = hold
      BY <1>4, <2>2 DEF Next, FeedOddsChange, Crash, Tick, vars, lockVars
    <3> QED BY <3>1
  <2> QED BY <2>1, <2>2
<1> QED BY <1>3, <1>4

\* A step of Settlement keeps the whole invariant.
LEMMA BetStepCInv ==
  ASSUME CInv, [Next]_vars, UNCHANGED cashoutVars
  PROVE  CInv'
<1> USE DEF CInv
<1>1. IInv' /\ Countable' /\ MoneyStep /\ OpenLiabilityExact' /\ PaidOnce'
  BY NextIInv, StepMoney, StepLiability, BetStepPaidOnce
<1>2. QuotesTyped' /\ TabsHold'
  <2>1. quote' = quote /\ tab' = tab
    BY DEF cashoutVars
  <2>2. \A t \in Tickets : status[t] \notin {"absent", "placing"} =>
                           status'[t] \notin {"absent", "placing"}
    BY StepMoves DEF TicketMove, OpenStatuses
  <2>3. QuotesTyped'
    BY <2>1, <2>2 DEF QuotesTyped
  <2>4. \A a \in Tabs : tab[a].pc = "locked" => TabTicket(a) \in Tickets
    BY DEF QuotesTyped, TabTicket
  <2>5. \A a \in Tabs : tab[a].pc = "locked" => hold'[TabTicket(a)].by = "cashout"
    BY <2>4, CashoutHoldStays DEF TabsHold
  <2> QED BY <2>1, <2>3, <2>5 DEF TabsHold, TabTicket
<1>3. ASSUME NEW w \in Wallets
      PROVE  wallet'[w].locked = Stakes(OpenOf(w)') /\ Drifts(w)'
  <2>1. CashedOf(w)' = CashedOf(w)
    BY StepKeepsCashed DEF CashedOf
  <2>2. /\ RowSum(RowsOf(w)) \in Int /\ Stakes(UnbookedOf(w)) \in Int
        /\ Stakes(OpenOf(w)) \in Int
    BY SumTypes
  <2>3. Stakes(CashedOf(w)) \in Int
    BY StakesType DEF CashedOf
  <2>4. WalletStep(w) /\ Drifts(w) /\ wallet[w].locked = Stakes(OpenOf(w)) /\ Opening \in Int
    <3>1. WalletStep(w) /\ Drifts(w)
      BY <1>1 DEF MoneyStep
    <3>2. wallet[w].locked = Stakes(OpenOf(w))
      BY DEF LockedIsOpenStakes, OpenOf
    <3>3. Opening \in Int
      BY TicketAssumption
    <3> QED BY <3>1, <3>2, <3>3
  <2>5. /\ RowSum(RowsOf(w)') \in Int /\ Stakes(UnbookedOf(w)') \in Int
        /\ Stakes(OpenOf(w)') \in Int
    BY <1>1, NextSumTypes
  <2> QED BY <2>1, <2>2, <2>3, <2>4, <2>5 DEF WalletStep, Drifts
<1>4. LockedIsOpenStakes'
  BY <1>3 DEF LockedIsOpenStakes, OpenOf
<1> QED BY <1>1, <1>2, <1>3, <1>4

-----------------------------------------------------------------------------
(* quote() and accept() *)

\* The steps that write only quotes and the calls under way.
LEMMA QuoteStepCInv ==
  ASSUME CInv, UNCHANGED vars,
         \/ \E q \in Quotes, t \in Tickets : GetQuote(q, t)
         \/ \E q \in Quotes : QuoteExpires(q)
         \/ \E a \in Tabs, q \in Quotes : AcceptBegin(a, q)
         \/ \E a \in Tabs : AcceptRecheck(a) \/ MarkQuote(a) \/ QuoteTaken(a)
  PROVE  CInv'
<1> USE DEF CInv
<1>1. UNCHANGED <<marketStatus, outcomeResult, price, matchClosed, status, payout, leg, odds,
                  potential, wallet, ledger, openLiability, job, plan>>
  BY DEF vars, marketVars, ticketVars, moneyVars
<1>2. IInv'
  <2>1. IInv /\ [Next]_vars
    OBVIOUS
  <2> QED BY <2>1, NextIInv
<1>3. Countable' /\ OpenLiabilityExact' /\ LockedIsOpenStakes' /\ PaidOnce'
  <2>1. Countable' /\ LockedIsOpenStakes'
    BY <1>1 DEF Countable, LockedIsOpenStakes
  <2>2. OpenLiabilityExact'
    BY <1>1 DEF OpenLiabilityExact, Liability
  <2>3. PaidOnce'
    BY <1>1 DEF PaidOnce, CashoutRows
  <2> QED BY <2>1, <2>2, <2>3
<1>4. \A w \in Wallets : Drifts(w)'
  BY <1>1 DEF Drifts, Available, RowsOf, UnbookedOf, CashedOf, VoidUnbooked
<1>5. QuotesTyped'
  <2>1. ASSUME NEW q \in Quotes, NEW t \in Tickets, GetQuote(q, t)
        PROVE  QuotesTyped'
    <3> DEFINE new == [status |-> "offered", ticket |-> t, offer |-> Offer(t), expired |-> FALSE]
    <3>1. new \in QuoteRow /\ new.status # "none" /\ new.ticket = t
      BY OfferNat DEF QuoteRow
    <3>2. /\ quote' = [quote EXCEPT ![q] = new] /\ tab' = tab /\ status' = status
          /\ status[t] = "accepted"
      BY <1>1, <2>1 DEF GetQuote
    <3> HIDE DEF new
    <3> QED BY <3>1, <3>2 DEF QuotesTyped
  <2>2. ASSUME NEW q \in Quotes, QuoteExpires(q)
        PROVE  QuotesTyped'
    BY <1>1, <2>2 DEF QuoteExpires, QuotesTyped, QuoteRow
  <2>3. ASSUME NEW a \in Tabs, NEW q \in Quotes, AcceptBegin(a, q)
        PROVE  QuotesTyped'
    BY <1>1, <2>3 DEF AcceptBegin, QuotesTyped, TabState
  <2>4. ASSUME NEW a \in Tabs, AcceptRecheck(a)
        PROVE  QuotesTyped'
    BY <1>1, <2>4 DEF AcceptRecheck, QuotesTyped, TabState
  <2>5. ASSUME NEW a \in Tabs, MarkQuote(a)
        PROVE  QuotesTyped'
    BY <1>1, <2>5 DEF MarkQuote, AtRest, QuotesTyped, TabState, QuoteRow
  <2>6. ASSUME NEW a \in Tabs, QuoteTaken(a)
        PROVE  QuotesTyped'
    BY <1>1, <2>6 DEF QuoteTaken, AtRest, QuotesTyped, TabState
  <2> QED BY <2>1, <2>2, <2>3, <2>4, <2>5, <2>6
<1>6. TabsHold'
  <2>1. /\ hold' = hold /\ tab \in [Tabs -> TabState] /\ quote \in [Quotes -> QuoteRow]
    BY DEF vars, lockVars, QuotesTyped
  <2>2. ASSUME NEW a \in Tabs, tab'[a].pc = "locked"
        PROVE  tab'[a] = tab[a]
    <3>1. CASE tab' = tab
      BY <3>1
    <3>2. ASSUME NEW b \in Tabs, NEW q \in Quotes, AcceptBegin(b, q)
          PROVE  tab'[a] = tab[a]
      BY <2>1, <2>2, <3>2 DEF AcceptBegin
    <3>3. ASSUME NEW b \in Tabs, AcceptRecheck(b)
          PROVE  tab'[a] = tab[a]
      BY <2>1, <2>2, <3>3 DEF AcceptRecheck, TabState
    <3>4. ASSUME NEW b \in Tabs, MarkQuote(b) \/ QuoteTaken(b)
          PROVE  tab'[a] = tab[a]
      BY <2>1, <2>2, <3>4 DEF MarkQuote, QuoteTaken, AtRest
    <3> QED BY <3>1, <3>2, <3>3, <3>4 DEF GetQuote, QuoteExpires
  <2>3. ASSUME NEW q \in Quotes, quote[q].status # "none"
        PROVE  quote'[q].ticket = quote[q].ticket
    <3>1. CASE quote' = quote
      BY <3>1
    <3>2. ASSUME NEW p \in Quotes, NEW t \in Tickets, GetQuote(p, t)
          PROVE  quote'[q].ticket = quote[q].ticket
      BY <2>1, <2>3, <3>2 DEF GetQuote
    <3>3. ASSUME NEW p \in Quotes, QuoteExpires(p)
          PROVE  quote'[q].ticket = quote[q].ticket
      BY <2>1, <3>3 DEF QuoteExpires, QuoteRow
    <3>4. ASSUME NEW b \in Tabs, MarkQuote(b)
          PROVE  quote'[q].ticket = quote[q].ticket
      BY <2>1, <3>4 DEF MarkQuote, QuoteRow
    <3> QED BY <3>1, <3>2, <3>3, <3>4 DEF AcceptBegin, AcceptRecheck, QuoteTaken
  <2>4. \A a \in Tabs : tab'[a].pc = "locked" =>
          tab[a].pc = "locked" /\ TabTicket(a)' = TabTicket(a)
    BY <2>2, <2>3 DEF QuotesTyped, TabTicket
  <2> QED BY <2>1, <2>4 DEF TabsHold
<1> QED BY <1>2, <1>3, <1>4, <1>5, <1>6

\* The steps that only take the row of a ticket or let go of it.
LEMMA LockStepCInv ==
  ASSUME CInv, NEW a \in Tabs, AcceptLock(a) \/ AcceptRolledBack(a)
  PROVE  CInv'
<1> USE DEF CInv
<1> DEFINE t == TabTicket(a)
<1>1. UNCHANGED <<marketStatus, outcomeResult, price, matchClosed, status, payout, leg, odds,
                  potential, wallet, ledger, openLiability, job, plan, passedBy, quote>>
  BY DEF AcceptLock, AcceptRolledBack, marketVars, ticketVars, moneyVars
<1>2. t \in Tickets /\ status[t] \notin {"absent", "placing"} /\ DOMAIN hold = Tickets
  BY DEF QuotesTyped, AcceptLock, AcceptRolledBack, TabTicket, IInv, HoldsOwned
<1>3. \/ /\ AcceptLock(a) /\ t \notin LockedRows /\ hold' = [hold EXCEPT ![t].by = "cashout"]
         /\ tab' = [tab EXCEPT ![a].pc = "locked"]
      \/ /\ AcceptRolledBack(a) /\ hold[t].by # "nobody" /\ ReleaseRow(t)
         /\ tab[a].pc = "locked" /\ tab' = [tab EXCEPT ![a] = AtRest]
  BY DEF AcceptLock, AcceptRolledBack, TabTicket, TabsHold
<1>4. TabsHold' /\ QuotesTyped'
  <2>1. tab \in [Tabs -> TabState] /\ quote' = quote
    BY <1>1 DEF QuotesTyped
  <2>2. \A b \in Tabs \ {a} : tab'[b] = tab[b] /\ TabTicket(b)' = TabTicket(b)
    BY <1>3, <2>1 DEF TabTicket
  <2>3. QuotesTyped'
    BY <1>1, <1>3, <2>1 DEF QuotesTyped, TabState, AtRest, AcceptLock
  <2>4. \A b \in Tabs : tab[b].pc = "locked" => TabTicket(b) \in Tickets
    BY DEF QuotesTyped, TabTicket
  <2>5. CASE AcceptLock(a) /\ t \notin LockedRows /\ tab' = [tab EXCEPT ![a].pc = "locked"]
             /\ hold' = [hold EXCEPT ![t].by = "cashout"]
    <3>1. hold[t].by = "nobody"
      BY <1>2, <2>5 DEF LockedRows, HeldRows
    <3>2. \A b \in Tabs : tab[b].pc = "locked" => TabTicket(b) # t /\ b # a
      BY <2>5, <3>1 DEF TabsHold, AcceptLock
    <3>3. TabTicket(a)' = t /\ hold'[t].by = "cashout"
      <4>1. hold[t] \in [by: Holders, odds: Odds(t), promise: Nat]
        BY <1>2 DEF IInv, HoldsOwned
      <4>2. TabTicket(a)' = t
        BY <2>1, <2>5 DEF TabTicket, TabState
      <4> QED BY <1>2, <2>5, <4>1, <4>2
    <3>4. \A u \in Tickets \ {t} : hold'[u] = hold[u]
      BY <1>2, <2>5
    <3> HIDE DEF t
    <3>5. \A b \in Tabs \ {a} : tab'[b].pc = "locked" =>
            TabTicket(b)' # t /\ hold'[TabTicket(b)'].by = "cashout"
      BY <2>2, <2>4, <3>2, <3>4 DEF TabsHold
    <3>6. \A b, c \in Tabs \ {a} : tab'[b].pc = "locked" /\ tab'[c].pc = "locked" /\ b # c =>
            TabTicket(b)' # TabTicket(c)'
      BY <2>2 DEF TabsHold
    <3> QED BY <2>3, <3>3, <3>5, <3>6 DEF TabsHold
  <2>6. CASE tab[a].pc = "locked" /\ tab' = [tab EXCEPT ![a] = AtRest] /\ ReleaseRow(t)
    <3>1. \A b \in Tabs : tab'[b].pc = "locked" =>
            b # a /\ tab[b].pc = "locked" /\ TabTicket(b)' = TabTicket(b)
      BY <2>1, <2>2, <2>6 DEF AtRest
    <3>2. \A b \in Tabs : tab'[b].pc = "locked" => TabTicket(b) # t
      BY <2>6, <3>1 DEF TabsHold
    <3>3. \A u \in Tickets \ {t} : hold'[u] = hold[u]
      BY <1>2, <2>6 DEF ReleaseRow
    <3> HIDE DEF t
    <3> QED BY <2>3, <2>4, <3>1, <3>2, <3>3 DEF TabsHold
  <2> QED BY <1>3, <2>5, <2>6
<1> HIDE DEF t
<1>5. IInv'
  <2>1. TicketsTyped'
    BY <1>1 DEF IInv, TicketsTyped
  <2>2. \A u \in Tickets \ {t} : status'[u] = status[u] /\ hold'[u] = hold[u]
    BY <1>1, <1>2, <1>3 DEF ReleaseRow
  <2>3. PlansOwned'
    BY <1>1, <1>2, <1>3, <2>2, FreeTicketKeepsPlans DEF IInv, TicketsTyped
  <2>4. HoldsOwned'
    <3>1. CASE ReleaseRow(t)
      BY <1>1, <1>2, <2>2, <3>1, ReleaseKept DEF IInv
    <3>2. CASE hold' = [hold EXCEPT ![t].by = "cashout"]
      <4> DEFINE h == [hold[t] EXCEPT !.by = "cashout"]
      <4>1. hold[t] \in [by: Holders, odds: Odds(t), promise: Nat]
        BY <1>2 DEF IInv, HoldsOwned
      <4>2. h \in [by: Holders, odds: Odds(t), promise: Nat] /\ h.by = "cashout"
        BY <4>1 DEF Holders
      <4>3. hold' = [hold EXCEPT ![t] = h]
        BY <3>2
      <4> HIDE DEF h
      <4>4. h.by \notin Decisions /\ h.by # "reprice"
        BY <4>2 DEF Decisions
      <4> QED BY <1>1, <1>2, <2>2, <4>2, <4>3, <4>4, OneHoldKept DEF IInv
    <3> QED BY <1>3, <3>1, <3>2
  <2>5. BooksInOrder'
    BY <1>1, NoPostingKeepsBooks DEF IInv
  <2> QED BY <1>1, <2>1, <2>3, <2>4, <2>5 DEF IInv
<1>6. Countable' /\ OpenLiabilityExact' /\ LockedIsOpenStakes' /\ PaidOnce'
  <2>1. Countable' /\ LockedIsOpenStakes'
    BY <1>1 DEF Countable, LockedIsOpenStakes
  <2>2. OpenLiabilityExact'
    BY <1>1 DEF OpenLiabilityExact, Liability
  <2>3. PaidOnce'
    BY <1>1 DEF PaidOnce, CashoutRows
  <2> QED BY <2>1, <2>2, <2>3
<1>7. \A w \in Wallets : Drifts(w)'
  BY <1>1 DEF Drifts, Available, RowsOf, UnbookedOf, CashedOf, VoidUnbooked
<1> QED BY <1>4, <1>5, <1>6, <1>7

\* What a committed accept writes: the ticket t of its quote, at the offer.
Cashes(t, offer) ==
  /\ status[t] = "accepted" /\ hold[t].by # "nobody"
  /\ wallet' = CashoutWallet(t, offer)
  /\ ledger' = ledger \cup {Row("cashout", t, 1, offer - Stake[t])}
  /\ status' = [status EXCEPT ![t] = "cashed_out"]
  /\ payout' = [payout EXCEPT ![t] = offer]
  /\ openLiability' = Floor0(openLiability - Liability({t}))
  /\ ReleaseRow(t)
  /\ UNCHANGED <<marketVars, leg, odds, potential, job, plan, passedBy>>

\* The commit leaves the books of every ticket in order and the plans of the
\* chunks intact.
LEMMA CommitIInv ==
  ASSUME IInv, NEW t \in Tickets, NEW offer \in Nat, Cashes(t, offer)
  PROVE  IInv'
<1> DEFINE row == Row("cashout", t, 1, offer - Stake[t])
<1>1. row \in LedgerRow /\ row.ticket = t /\ row.type = "cashout"
  BY TicketAssumption DEF Row, LedgerRow
<1>2. /\ status[t] = "accepted" /\ ledger' = ledger \cup {row}
      /\ status' = [status EXCEPT ![t] = "cashed_out"]
      /\ payout' = [payout EXCEPT ![t] = offer] /\ hold[t].by # "nobody" /\ ReleaseRow(t)
      /\ UNCHANGED <<marketStatus, outcomeResult, price, matchClosed, leg, odds, potential,
                     job, plan, passedBy>>
  BY DEF Cashes, marketVars
<1> HIDE DEF row
<1>3. TicketsTyped'
  BY <1>2 DEF IInv, TicketsTyped, Statuses
<1>4. PlansOwned' /\ HoldsOwned'
  <2>1. DOMAIN hold = Tickets /\ status \in [Tickets -> Statuses]
    BY DEF IInv, HoldsOwned, TicketsTyped
  <2>2. \A u \in Tickets \ {t} : status'[u] = status[u] /\ hold'[u] = hold[u]
    BY <1>2, <2>1 DEF ReleaseRow
  <2>3. PlansOwned'
    BY <1>2, <2>1, <2>2, FreeTicketKeepsPlans DEF IInv
  <2> QED BY <1>2, <2>2, <2>3, ReleaseKept DEF IInv
<1>5. BooksInOrder'
  <2>1. TicketBooks(ledger, t, "accepted", payout[t])
    BY <1>2 DEF IInv, BooksInOrder
  <2>2. CreditRows(ledger', t) = CreditRows(ledger, t)
    BY <1>1, <1>2 DEF CreditRows, CreditTypes
  <2>3. Adjustments(ledger', t) = Adjustments(ledger, t)
    BY <1>1, <1>2 DEF Adjustments
  <2>4. TicketBooks(ledger', t, "accepted", payout[t])
    BY <2>1, <2>2, <2>3, SameRowsSameBooks
  <2>5. TicketBooks(ledger', t, "cashed_out", offer)
    BY <2>4 DEF TicketBooks
  <2>6. status'[t] = "cashed_out" /\ payout'[t] = offer
    BY <1>2 DEF IInv, TicketsTyped
  <2>7. \A u \in Tickets \ {t} : status'[u] = status[u] /\ payout'[u] = payout[u]
    BY <1>2 DEF IInv, TicketsTyped
  <2>8. {row} \in SUBSET LedgerRow /\ \A r \in {row} : r.ticket = t
    BY <1>1
  <2>9. TicketBooks(ledger', t, status'[t], payout'[t])
    BY <2>5, <2>6
  <2>10. BooksInOrder /\ ledger' = ledger \cup {row}
    BY <1>2 DEF IInv
  <2> QED BY <2>7, <2>8, <2>9, <2>10, OneTicketKeepsBooks
<1> QED BY <1>2, <1>3, <1>4, <1>5 DEF IInv

\* The ticket has its one cashout row, for what it paid, and no live credit.
LEMMA CommitPaidOnce ==
  ASSUME IInv, PaidOnce, NEW t \in Tickets, NEW offer \in Nat, Cashes(t, offer)
  PROVE  PaidOnce'
<1> DEFINE row == Row("cashout", t, 1, offer - Stake[t])
<1>1. row.ticket = t /\ row.type = "cashout" /\ row.delta = offer - Stake[t]
  BY DEF Row
<1>2. /\ status[t] = "accepted" /\ ledger' = ledger \cup {row}
      /\ \A u \in Tickets \ {t} : status'[u] = status[u] /\ payout'[u] = payout[u]
      /\ status'[t] = "cashed_out" /\ payout'[t] = offer
  BY DEF Cashes, IInv, TicketsTyped
<1> HIDE DEF row
<1>3. ASSUME NEW u \in Tickets
      PROVE  UnreversedCredits(ledger', u) = UnreversedCredits(ledger, u)
  <2>1. CreditRows(ledger', u) = CreditRows(ledger, u)
    BY <1>1, <1>2 DEF CreditRows, CreditTypes
  <2>2. \A r : Reversed(ledger', r) <=> Reversed(ledger, r)
    BY <1>1, <1>2 DEF Reversed
  <2> QED BY <2>1, <2>2 DEF UnreversedCredits
<1>4. CashoutRows(t)' = {row}
  <2>1. CashoutRows(t) = {}
    BY <1>2 DEF PaidOnce
  <2> QED BY <1>1, <1>2, <2>1 DEF CashoutRows
<1>5. \A u \in Tickets \ {t} : CashoutRows(u)' = CashoutRows(u)
  BY <1>1, <1>2 DEF CashoutRows
<1>6. UnreversedCredits(ledger, t) = {}
  BY <1>2 DEF IInv, BooksInOrder, TicketBooks
<1>7. row \in CashoutRows(t)' /\ row.delta = payout'[t] - Stake[t]
  BY <1>1, <1>2, <1>4
<1>8. ASSUME NEW u \in Tickets \ {t}
      PROVE  IF status'[u] = "cashed_out"
             THEN /\ UnreversedCredits(ledger', u) = {}
                  /\ \E r \in CashoutRows(u)' :
                       CashoutRows(u)' = {r} /\ r.delta = payout'[u] - Stake[u]
             ELSE CashoutRows(u)' = {}
  BY <1>2, <1>3, <1>5 DEF PaidOnce
<1>9. /\ UnreversedCredits(ledger', t) = {}
      /\ \E r \in CashoutRows(t)' : CashoutRows(t)' = {r} /\ r.delta = payout'[t] - Stake[t]
  BY <1>3, <1>4, <1>6, <1>7
<1> QED BY <1>2, <1>8, <1>9 DEF PaidOnce

\* Stake and offer leave the lock and reach the balance: the wallet moves by the
\* row and by the stake that the row does not give back.
LEMMA CommitMoney ==
  ASSUME CInv, NEW t \in Tickets, NEW offer \in Nat, Cashes(t, offer)
  PROVE  Countable' /\ LockedIsOpenStakes' /\ \A w \in Wallets : Drifts(w)'
<1> USE DEF CInv
<1> DEFINE row == Row("cashout", t, 1, offer - Stake[t])
           v == WalletOf[t]
<1>1. /\ row \in LedgerRow /\ row.ticket = t /\ row.type = "cashout"
      /\ row.delta = offer - Stake[t] /\ Stake[t] \in Int /\ offer \in Int /\ v \in Wallets
      /\ row.delta \in Int
  BY TicketAssumption DEF Row, LedgerRow
<1>2. /\ status[t] = "accepted" /\ ledger' = ledger \cup {row}
      /\ status' = [status EXCEPT ![t] = "cashed_out"]
      /\ wallet' = CashoutWallet(t, offer)
      /\ status \in [Tickets -> Statuses]
      /\ wallet \in [Wallets -> [balance: Int, locked: Int]]
  BY DEF Cashes, IInv, TicketsTyped, Countable
<1> HIDE DEF row
<1>3. row \notin ledger
  <2>1. CashoutRows(t) = {}
    BY <1>2 DEF PaidOnce
  <2> QED BY <1>1, <2>1 DEF CashoutRows
<1>4. /\ wallet'[v].balance = (wallet[v].balance + offer) - Stake[t]
      /\ wallet'[v].locked = wallet[v].locked - Stake[t]
      /\ \A w \in Wallets \ {v} : wallet'[w] = wallet[w]
      /\ wallet[v].balance \in Int /\ wallet[v].locked \in Int
  BY <1>1, <1>2 DEF CashoutWallet
<1>5. wallet' \in [Wallets -> [balance: Int, locked: Int]]
  BY <1>1, <1>2 DEF CashoutWallet
<1>6. Countable'
  <2>1. IsFiniteSet(ledger')
    BY <1>2, FS_Singleton, FS_Union DEF Countable
  <2>2. \A r \in ledger' : status'[r.ticket] \notin {"absent", "placing"}
    <3>1. \A r \in ledger : r.ticket \in Tickets
      BY DEF IInv, BooksInOrder, LedgerRow
    <3> QED BY <1>1, <1>2, <3>1 DEF Countable
  <2> QED BY <1>5, <2>1, <2>2 DEF Countable
<1>7. IInv' /\ Opening \in Int
  BY CommitIInv, TicketAssumption
<1>8. \A w \in Wallets : UnbookedOf(w)' = UnbookedOf(w)
  <2>1. ASSUME NEW u \in Tickets
        PROVE  VoidUnbooked(u)' <=> VoidUnbooked(u)
    <3>1. CASE u = t
      BY <1>2, <3>1 DEF VoidUnbooked
    <3>2. CASE u # t
      <4>1. status'[u] = status[u] /\ \A r \in {row} : r.ticket = t
        BY <1>1, <1>2, <3>2
      <4>2. /\ CreditRows(ledger', u) = CreditRows(ledger, u)
            /\ Adjustments(ledger', u) = Adjustments(ledger, u)
        BY <1>1, <1>2, <3>2 DEF CreditRows, Adjustments
      <4> QED BY <4>1, <4>2, UnbookedStays
    <3> QED BY <3>1, <3>2
  <2> QED BY <2>1 DEF UnbookedOf
<1>9. ASSUME NEW w \in Wallets
      PROVE  wallet[w].locked = Stakes(OpenOf(w)) /\ Drifts(w)
  BY DEF LockedIsOpenStakes, OpenOf
<1>10. ASSUME NEW w \in Wallets, w # v
       PROVE  wallet'[w].locked = Stakes(OpenOf(w)') /\ Drifts(w)'
  <2>1. RowsOf(w)' = RowsOf(w) /\ OpenOf(w)' = OpenOf(w) /\ CashedOf(w)' = CashedOf(w)
    BY <1>1, <1>2, <1>10 DEF RowsOf, OpenOf, CashedOf
  <2>2. wallet'[w] = wallet[w] /\ UnbookedOf(w)' = UnbookedOf(w)
    BY <1>4, <1>8, <1>10
  <2> QED BY <1>9, <2>1, <2>2 DEF Drifts, Available
<1>11. wallet'[v].locked = Stakes(OpenOf(v)') /\ Drifts(v)'
  <2>1. Stakes(OpenOf(v)') = Stakes(OpenOf(v)) - Stake[t]
    BY <1>1, <1>2, OpenStakesMove DEF Statuses, OpenStatuses
  <2>2. RowSum(RowsOf(v)') = RowSum(RowsOf(v)) + row.delta
    <3>1. /\ {row} \in SUBSET LedgerRow /\ IsFiniteSet({row}) /\ {row} \cap ledger = {}
      BY <1>1, <1>3, FS_Singleton
    <3>2. {r \in {row} : WalletOf[r.ticket] = v} = {row}
      BY <1>1
    <3>3. RowSum(RowsOf(v)') = RowSum(RowsOf(v)) + RowSum({row})
      BY <1>1, <1>2, <3>1, <3>2, RowsGrow
    <3> QED BY <1>1, <3>3, RowSumOne
  <2>3. Stakes(CashedOf(v)') = Stakes(CashedOf(v)) + Stake[t]
    <3>1. CashedOf(v)' = (CashedOf(v) \cup {t}) \ {} /\ CashedOf(v) \cap {t} = {}
      BY <1>2 DEF CashedOf
    <3>2. CashedOf(v) \in SUBSET Tickets /\ {t} \in SUBSET Tickets
          /\ {} \in SUBSET (CashedOf(v) \cup {t})
      BY DEF CashedOf
    <3>3. Stakes((CashedOf(v) \cup {t}) \ {}) = (Stakes(CashedOf(v)) + Stakes({t})) - Stakes({})
      BY <3>1, <3>2, StakesMove
    <3>4. Stakes({t}) = Stake[t] /\ Stakes({}) = 0 /\ Stakes(CashedOf(v)) \in Int
      BY <3>2, StakesOne, StakesType
    <3> QED BY <1>1, <3>1, <3>3, <3>4
  <2>4. /\ RowSum(RowsOf(v)) \in Int /\ Stakes(UnbookedOf(v)) \in Int
        /\ Stakes(OpenOf(v)) \in Int /\ Stakes(CashedOf(v)) \in Int
    <3>1. CashedOf(v) \in SUBSET Tickets
      BY DEF CashedOf
    <3> QED BY <1>1, <3>1, SumTypes, StakesType
  <2>5. wallet[v].locked = Stakes(OpenOf(v)) /\ Drifts(v) /\ UnbookedOf(v)' = UnbookedOf(v)
    BY <1>1, <1>8, <1>9
  <2>6. Available(v)' = Available(v) + offer /\ Available(v) \in Int
    BY <1>1, <1>4 DEF Available
  <2> QED BY <1>1, <1>4, <1>7, <2>1, <2>2, <2>3, <2>4, <2>5, <2>6 DEF Drifts
<1>12. \A w \in Wallets : wallet'[w].locked = Stakes(OpenOf(w)') /\ Drifts(w)'
  BY <1>10, <1>11
<1>13. LockedIsOpenStakes'
  BY <1>12 DEF LockedIsOpenStakes, OpenOf
<1> QED BY <1>6, <1>12, <1>13

\* Phase 4 of accept() keeps the invariant.
LEMMA CommitCInv ==
  ASSUME CInv, NEW a \in Tabs, AcceptCommit(a)
  PROVE  CInv'
<1> DEFINE q == tab[a].quote
           t == quote[q].ticket
           offer == quote[q].offer
<1>1. q \in Quotes /\ t \in Tickets /\ offer \in Nat
  BY DEF CInv, QuotesTyped, QuoteRow, AcceptCommit
<1>2. Cashes(t, offer)
  BY DEF CInv, TabsHold, TabTicket, AcceptCommit, Cashes, TicketOpen, ReleaseOpenLiability
<1>3. quote' = [quote EXCEPT ![q].status = "accepted"] /\ tab' = [tab EXCEPT ![a] = AtRest]
  BY DEF AcceptCommit
<1>4. QuotesTyped' /\ TabsHold'
  <2>1. /\ status' = [status EXCEPT ![t] = "cashed_out"] /\ status \in [Tickets -> Statuses]
        /\ ReleaseRow(t) /\ DOMAIN hold = Tickets /\ tab[a].pc = "locked"
    BY <1>2 DEF Cashes, CInv, IInv, TicketsTyped, HoldsOwned, AcceptCommit
  <2>2. QuotesTyped'
    BY <1>1, <1>3, <2>1 DEF CInv, QuotesTyped, QuoteRow, TabState, AtRest
  <2>3. \A b \in Tabs : tab'[b].pc = "locked" =>
          /\ b # a /\ tab[b].pc = "locked" /\ TabTicket(b)' = TabTicket(b)
          /\ TabTicket(b) \in Tickets
    BY <1>1, <1>3 DEF CInv, QuotesTyped, QuoteRow, TabState, AtRest, TabTicket
  <2>4. \A b \in Tabs : tab'[b].pc = "locked" => TabTicket(b) # t
    BY <2>1, <2>3 DEF CInv, TabsHold, TabTicket
  <2>5. \A u \in Tickets \ {t} : hold'[u] = hold[u]
    BY <1>1, <2>1 DEF ReleaseRow
  <2> HIDE DEF q, t, offer
  <2> QED BY <2>2, <2>3, <2>4, <2>5 DEF CInv, TabsHold
<1> HIDE DEF q, t, offer
<1>5. IInv' /\ PaidOnce'
  BY <1>1, <1>2, CommitIInv, CommitPaidOnce DEF CInv
<1>6. OpenLiabilityExact'
  BY <1>1, <1>2, ReleaseOne DEF CInv, Cashes, Statuses, OpenStatuses
<1>7. Countable' /\ LockedIsOpenStakes' /\ \A w \in Wallets : Drifts(w)'
  BY <1>1, <1>2, CommitMoney
<1> QED BY <1>4, <1>5, <1>6, <1>7 DEF CInv

-----------------------------------------------------------------------------
(* Theorems *)

\* Nothing placed, nothing quoted.
LEMMA InitCInv == CashoutInit => CInv
<1> SUFFICES ASSUME CashoutInit PROVE CInv
  OBVIOUS
<1>1. MoneyInv /\ Init
  BY InitMoney DEF CashoutInit
<1>2. QuotesTyped /\ TabsHold
  BY DEF CashoutInit, QuotesTyped, TabsHold, QuoteRow, TabState, NoQuote, AtRest
<1>3. PaidOnce
  BY <1>1 DEF Init, PaidOnce, CashoutRows
<1>4. ASSUME NEW w \in Wallets
      PROVE  Drifts(w)
  <2>1. Available(w) = (Opening + RowSum(RowsOf(w))) + Stakes(UnbookedOf(w))
    <3>1. Available(w) = Opening + RowSum(RowsOf(w)) + Stakes(UnbookedOf(w))
      BY <1>1 DEF MoneyInv, LedgerReconciles, RowsOf, UnbookedOf
    <3> QED BY <3>1
  <2>2. CashedOf(w) = {}
    BY <1>1 DEF Init, CashedOf
  <2>3. Stakes({}) = 0
    BY SumEmpty DEF Stakes
  <2>4. Stakes(UnbookedOf(w)) \in Int
    BY <1>1, SumTypes DEF MoneyInv
  <2> QED BY <2>1, <2>2, <2>3, <2>4 DEF Drifts
<1> QED BY <1>1, <1>2, <1>3, <1>4 DEF CInv, MoneyInv

\* Every step of the composition keeps the invariant.
LEMMA NextCInv == CInv /\ [CashoutNext]_<<vars, cashoutVars>> => CInv'
<1> SUFFICES ASSUME CInv, [CashoutNext]_<<vars, cashoutVars>> PROVE CInv'
  OBVIOUS
<1>1. CASE Next /\ UNCHANGED cashoutVars
  BY <1>1, BetStepCInv
<1>2. CASE UNCHANGED <<vars, cashoutVars>>
  BY <1>2, BetStepCInv
<1>3. ASSUME NEW a \in Tabs, AcceptCommit(a)
      PROVE  CInv'
  BY <1>3, CommitCInv
<1>5. ASSUME NEW a \in Tabs, AcceptLock(a) \/ AcceptRolledBack(a)
      PROVE  CInv'
  BY <1>5, LockStepCInv
<1>4. CASE \/ \E q \in Quotes, t \in Tickets : GetQuote(q, t)
           \/ \E q \in Quotes : QuoteExpires(q)
           \/ \E a \in Tabs, q \in Quotes : AcceptBegin(a, q)
           \/ \E a \in Tabs : AcceptRecheck(a) \/ MarkQuote(a) \/ QuoteTaken(a)
  <2>1. UNCHANGED vars
    BY <1>4 DEF GetQuote, QuoteExpires, AcceptBegin, AcceptRecheck, MarkQuote, QuoteTaken
  <2> QED BY <1>4, <2>1, QuoteStepCInv
<1> QED BY <1>1, <1>2, <1>3, <1>4, <1>5 DEF CashoutNext

\* The invariant holds in every reachable state of the composition.
THEOREM CashoutInductive == CashoutSpec => []CInv
<1> QED BY InitCInv, NextCInv, PTL DEF CashoutSpec

\* Quotes and accept calls are well typed; the offer that is computed, rounded
\* and capped is a natural number of micro-units (algorithm.ts compute).
THEOREM CashoutTypes == CashoutSpec => []CashoutTypeOK
<1>1. CInv => CashoutTypeOK
  <2>1. IInv => TypeOK
    BY DEF IInv, TicketsTyped, PlansOwned, HoldsOwned, BooksInOrder, TypeOK, Jobs, Payouts
  <2> QED BY <2>1 DEF CInv, QuotesTyped, QuoteRow, TabState, CashoutTypeOK
<1> QED BY <1>1, CashoutInductive, PTL

\* A ticket is paid by a settle or by a cashout and never by both, for any
\* number of clients accepting any number of quotes of it while the settler
\* settles, cancels and rolls back its markets (service.ts accept, phase 4).
THEOREM CashoutPaysOnce == CashoutSpec => []PaidOnce
<1>1. CInv => PaidOnce
  BY DEF CInv
<1> QED BY <1>1, CashoutInductive, PTL

\* A cashout releases the exposure its ticket reserved, once.
THEOREM CashoutLiability == CashoutSpec => []OpenLiabilityExact
<1>1. CInv => OpenLiabilityExact
  BY DEF CInv
<1> QED BY <1>1, CashoutInductive, PTL

\* A cashout row is net of the stake that the bet_stake row took already, so a
\* wallet drifts from its ledger by the stakes of its cashed-out tickets, and by
\* those of unbooked voids, and by nothing else.
THEOREM CashoutDrift == CashoutSpec => []DriftIsCashedOutStakes
<1>1. CInv => DriftIsCashedOutStakes
  <2> SUFFICES ASSUME CInv, NEW w \in Wallets
               PROVE  Available(w) = Opening + RowSum({r \in ledger : WalletOf[r.ticket] = w})
                        + Stakes({t \in Tickets : WalletOf[t] = w
                                    /\ (status[t] = "cashed_out" \/ VoidUnbooked(t))})
    BY DEF DriftIsCashedOutStakes
  <2> DEFINE D == {t \in Tickets : WalletOf[t] = w
                                    /\ (status[t] = "cashed_out" \/ VoidUnbooked(t))}
  <2>1. D = (UnbookedOf(w) \cup CashedOf(w)) \ {} /\ UnbookedOf(w) \cap CashedOf(w) = {}
    BY DEF UnbookedOf, CashedOf, VoidUnbooked
  <2>2. /\ UnbookedOf(w) \in SUBSET Tickets /\ CashedOf(w) \in SUBSET Tickets
        /\ {} \in SUBSET (UnbookedOf(w) \cup CashedOf(w)) /\ {} \in SUBSET Tickets
    BY DEF UnbookedOf, CashedOf
  <2>3. Stakes((UnbookedOf(w) \cup CashedOf(w)) \ {})
          = (Stakes(UnbookedOf(w)) + Stakes(CashedOf(w))) - Stakes({})
    BY <2>1, <2>2, StakesMove
  <2>4. /\ Stakes(UnbookedOf(w)) \in Int /\ Stakes(CashedOf(w)) \in Int /\ Stakes({}) = 0
    BY <2>2, StakesType, SumEmpty DEF Stakes
  <2>5. RowSum(RowsOf(w)) \in Int /\ Opening \in Int
    BY SumTypes, TicketAssumption DEF CInv
  <2>6. Drifts(w) /\ RowsOf(w) = {r \in ledger : WalletOf[r.ticket] = w}
    BY DEF CInv, RowsOf
  <2> HIDE DEF D
  <2>7. Stakes(D) = Stakes(UnbookedOf(w)) + Stakes(CashedOf(w))
    BY <2>1, <2>3, <2>4
  <2>8. Available(w) = Opening + RowSum(RowsOf(w)) + Stakes(D)
    BY <2>4, <2>5, <2>6, <2>7 DEF Drifts
  <2> QED BY <2>6, <2>8 DEF D
<1> QED BY <1>1, CashoutInductive, PTL

=============================================================================
