------------------------------ MODULE Cashout -------------------------------
(***************************************************************************)
(* Cashout of open tickets, composed with the money path of Settlement:    *)
(* quote() prices an open ticket and stores an offer, accept() validates   *)
(* it, sleeps the acceptance delay without a lock, prices the ticket again *)
(* and commits at the quoted amount.                                       *)
(*                                                                         *)
(* accept() is a step for each of its database round trips, because the    *)
(* settler, the feed and a second accept of the same quote run in between. *)
(***************************************************************************)
EXTENDS Settlement, Functions

CONSTANTS
  Quotes,         \* ids of cashouts rows
  Tabs,           \* clients that call accept
  Q,              \* ODDS_FIXED_SCALE, the unit of Prices
  CashoutTickets, \* tickets of a bet type with a cashout model: single, combo
  Kickoff,        \* scheduled_at of a match, on the placement clock
  FullPayback,    \* prematch_full_payback_seconds
  MinOffer,       \* min_offer_micro
  MinChangeBp,    \* min_value_change_bp
  DriftBp         \* ACCEPTANCE_DRIFT_TOLERANCE, in basis points

ASSUME CashoutAssumption ==
  /\ Q \in Nat \ {0}
  /\ CashoutTickets \subseteq Tickets
  /\ Kickoff \in [Matches -> Int]
  /\ {FullPayback, MinOffer, MinChangeBp, DriftBp} \subseteq Nat

VARIABLES
  quote, \* cashouts rows: status, ticket, offered_micro, and whether the TTL is over
  tab    \* where each client's accept call is, and on which quote

cashoutVars == <<quote, tab>>

PO == INSTANCE Payout

-----------------------------------------------------------------------------
(* compute() of algorithm.ts, no deduction ladder *)

\* What a leg multiplies the stake by, as <<numerator, denominator>>: its odds
\* times the current probability, which is 1 / current price.
LegFactor(t, m) ==
  CASE leg[t][m] = "void"      -> <<1, 1>>
    [] leg[t][m] = "won"       -> <<odds[t][m], Q>>
    [] leg[t][m] = "half_won"  -> <<Q + odds[t][m], 2 * Q>>
    [] leg[t][m] = "half_lost" -> <<1, 2>>
    [] leg[t][m] = Unresolved  -> <<odds[t][m], price[m]>>
    [] OTHER                   -> <<0, 1>>

RatioNum(t) == PO!Product([m \in LegsOf(t) |-> LegFactor(t, m)[1]])
RatioDen(t) == PO!Product([m \in LegsOf(t) |-> LegFactor(t, m)[2]])

\* Freshly placed and no match of the ticket has started.
FullPaybackWindow(t) ==
  /\ FullPayback > 0
  /\ clock - placedAt[t] <= FullPayback
  /\ \A m \in LegsOf(t) : Kickoff[MatchOf[m]] > clock

Offer(t) ==
  LET fair == PO!MultiplyMicroByOdds(Stake[t], RatioNum(t), RatioDen(t))
      raw == IF FullPaybackWindow(t) THEN Stake[t] ELSE fair
  IN  IF raw > potential[t] THEN potential[t] ELSE raw

\* |value / stake - 1| clears the significant-change gate.
SignificantChange(t) ==
  LET gap == RatioNum(t) - RatioDen(t)
  IN  (IF gap < 0 THEN - gap ELSE gap) * 10000 >= MinChangeBp * RatioDen(t)

OfferAvailable(t) ==
  /\ t \in CashoutTickets
  /\ \A m \in LegsOf(t) : /\ leg[t][m] # "lost"
                          /\ leg[t][m] = Unresolved => marketStatus[m] = 1
  /\ FullPaybackWindow(t) \/ SignificantChange(t)
  /\ Offer(t) >= MinOffer

-----------------------------------------------------------------------------
(* quote() *)

NoQuote == [status |-> "none", ticket |-> None, offer |-> 0, expired |-> FALSE]

\* Unavailable quotes are not stored.
GetQuote(q, t) ==
  /\ quote[q].status = "none"
  /\ status[t] = "accepted"
  /\ OfferAvailable(t)
  /\ quote' = [quote EXCEPT ![q] = [status |-> "offered", ticket |-> t,
                                    offer |-> Offer(t), expired |-> FALSE]]
  /\ UNCHANGED <<vars, tab>>

\* QUOTE_TTL_SECONDS pass.
QuoteExpires(q) ==
  /\ quote[q].status = "offered"
  /\ ~ quote[q].expired
  /\ quote' = [quote EXCEPT ![q].expired = TRUE]
  /\ UNCHANGED <<vars, tab>>

-----------------------------------------------------------------------------
(* accept() *)

AtRest == [pc |-> "rest", quote |-> None]

\* Phase 1, no locks: a bad quote or ticket is answered with an error and
\* changes nothing; an expired quote is about to be marked.
AcceptBegin(a, q) ==
  /\ tab[a].pc = "rest"
  /\ quote[q].status = "offered"
  /\ \/ /\ quote[q].expired
        /\ tab' = [tab EXCEPT ![a] = [pc |-> "expire", quote |-> q]]
     \/ /\ ~ quote[q].expired
        /\ status[quote[q].ticket] = "accepted"
        /\ tab' = [tab EXCEPT ![a] = [pc |-> "delay", quote |-> q]]
  /\ UNCHANGED <<vars, quote>>

\* The lowest recomputed offer that is still taken.
DriftFloor(q) == quote[q].offer - (quote[q].offer * DriftBp) \div 10000

StillGood(q) ==
  OfferAvailable(quote[q].ticket) /\ Offer(quote[q].ticket) >= DriftFloor(q)

\* Phase 3, after the delay and still without locks: price the ticket again.
AcceptRecheck(a) ==
  LET q == tab[a].quote
  IN  /\ tab[a].pc = "delay"
      /\ tab' = [tab EXCEPT ![a].pc = IF StillGood(q) THEN "commit" ELSE "error"]
      /\ UNCHANGED <<vars, quote>>

\* No accept has the cashouts row FOR UPDATE.
QuoteFree(q) == \A b \in Tabs : ~ (tab[b].pc = "locked" /\ tab[b].quote = q)

\* The update that marks an expired or drifted quote, whatever its status is
\* by now.
MarkQuote(a) ==
  /\ tab[a].pc \in {"expire", "error"}
  /\ QuoteFree(tab[a].quote)
  /\ quote' = [quote EXCEPT ![tab[a].quote].status =
                 IF tab[a].pc = "expire" THEN "expired" ELSE "errored"]
  /\ tab' = [tab EXCEPT ![a] = AtRest]
  /\ UNCHANGED vars

\* Phase 4: the quote is locked and still offered, and the ticket, in whatever
\* status, is taken after the transaction that has it.
AcceptLock(a) ==
  LET q == tab[a].quote
      t == quote[q].ticket
  IN  /\ tab[a].pc = "commit"
      /\ QuoteFree(q) /\ quote[q].status = "offered"
      /\ t \notin LockedRows
      /\ hold' = [hold EXCEPT ![t].by = "cashout"]
      /\ tab' = [tab EXCEPT ![a].pc = "locked"]
      /\ UNCHANGED <<marketVars, ticketVars, moneyVars, settlements, job, plan, passedBy, bounds,
                     quote>>

\* The quote was taken: nothing else was locked.
QuoteTaken(a) ==
  /\ tab[a].pc = "commit"
  /\ QuoteFree(tab[a].quote) /\ quote[tab[a].quote].status # "offered"
  /\ tab' = [tab EXCEPT ![a] = AtRest]
  /\ UNCHANGED <<vars, quote>>

\* The ticket is no longer open, or the transaction fails: rolled back.
AcceptRolledBack(a) ==
  /\ tab[a].pc = "locked"
  /\ ReleaseRow(quote[tab[a].quote].ticket)
  /\ tab' = [tab EXCEPT ![a] = AtRest]
  /\ UNCHANGED <<marketVars, ticketVars, moneyVars, settlements, job, plan, passedBy, bounds,
                 quote>>

\* Wrong: the quote is locked and checked, the ticket is not.
TicketOpenUnchecked(t) == TRUE

TicketOpen(t) == status[t] = "accepted"

\* Wrong: the liability the ticket reserved is kept.
ReleaseOpenLiabilityNone(t) == openLiability

ReleaseOpenLiability(t) == Floor0(openLiability - Liability({t}))

\* Wrong: the whole offer is credited and the stake released too.
CashoutWalletGross(t, offer) ==
  [wallet EXCEPT ![WalletOf[t]].balance = @ + offer, ![WalletOf[t]].locked = @ - Stake[t]]

CashoutWallet(t, offer) ==
  [wallet EXCEPT ![WalletOf[t]].balance = (@ + offer) - Stake[t],
                 ![WalletOf[t]].locked = @ - Stake[t]]

\* The wallet is locked last and everything is written at the quoted amount.
AcceptCommit(a) ==
  LET q == tab[a].quote
      t == quote[q].ticket
      offer == quote[q].offer
  IN  /\ tab[a].pc = "locked"
      /\ TicketOpen(t)
      /\ WalletFree(WalletOf[t])
      /\ wallet' = CashoutWallet(t, offer)
      /\ ledger' = ledger \cup {Row("cashout", t, 1, offer - Stake[t])}
      /\ status' = [status EXCEPT ![t] = "cashed_out"]
      /\ payout' = [payout EXCEPT ![t] = offer]
      /\ openLiability' = ReleaseOpenLiability(t)
      /\ quote' = [quote EXCEPT ![q].status = "accepted"]
      /\ tab' = [tab EXCEPT ![a] = AtRest]
      /\ ReleaseRow(t)
      /\ UNCHANGED <<marketVars, placedAt, leg, odds, potential, settlements, job, plan, passedBy,
                     bounds>>

-----------------------------------------------------------------------------
CashoutInit ==
  /\ Init
  /\ quote = [q \in Quotes |-> NoQuote]
  /\ tab = [a \in Tabs |-> AtRest]

CashoutNext ==
  \/ Next /\ UNCHANGED cashoutVars
  \/ \E q \in Quotes, t \in Tickets : GetQuote(q, t)
  \/ \E q \in Quotes : QuoteExpires(q)
  \/ \E a \in Tabs, q \in Quotes : AcceptBegin(a, q)
  \/ \E a \in Tabs : \/ AcceptRecheck(a)
                     \/ MarkQuote(a)
                     \/ AcceptLock(a)
                     \/ QuoteTaken(a)
                     \/ AcceptRolledBack(a)
                     \/ AcceptCommit(a)

CashoutSpec == CashoutInit /\ [][CashoutNext]_<<vars, cashoutVars>>

-----------------------------------------------------------------------------
(* Properties *)

CashoutTypeOK ==
  /\ TypeOK
  /\ quote \in [Quotes -> [status: {"none", "offered", "accepted", "expired", "errored"},
                           ticket: Tickets \cup {None}, offer: Nat, expired: BOOLEAN]]
  /\ tab \in [Tabs -> [pc: {"rest", "delay", "commit", "locked", "expire", "error"},
                       quote: Quotes \cup {None}]]

CashoutRows(t) == {r \in ledger : r.ticket = t /\ r.type = "cashout"}

\* ARCHITECTURE.md, "Settlement guard": a ticket is paid by a settle or by a
\* cashout, never by both, whatever settles, cancels, rolls back or re-settles
\* its market before, during and after the acceptance delay.
PaidOnce ==
  \A t \in Tickets :
    IF status[t] = "cashed_out"
    THEN /\ UnreversedCredits(ledger, t) = {}
         /\ \E r \in CashoutRows(t) : CashoutRows(t) = {r} /\ r.delta = payout[t] - Stake[t]
    ELSE CashoutRows(t) = {}

\* What the wallet holds is what the ledger says plus the stakes of unbooked
\* voids and of cashed-out tickets: their cashout row is net of the stake that
\* the bet_stake row already took off. Nothing else drifts.
DriftIsCashedOutStakes ==
  \A w \in Wallets :
    Available(w) = Opening
      + RowSum({r \in ledger : WalletOf[r.ticket] = w})
      + Stakes({t \in Tickets : WalletOf[t] = w /\ (status[t] = "cashed_out" \/ VoidUnbooked(t))})

\* OPERATIONS.md, the reconciliation of wallets and ledger: "Drift must be zero
\* per currency. Any non-zero value pages on-call." Asked here only of wallets
\* with no open stake, which the query reads as drift of its own, and with no
\* void whose refund went unbooked.
DriftIsZero ==
  \A w \in Wallets :
    wallet[w].locked = 0 /\ (\A t \in Tickets : ~ VoidUnbooked(t)) =>
      wallet[w].balance = Opening + RowSum({r \in ledger : WalletOf[r.ticket] = w})

\* service.ts, accept, before it commits: "If the offer is no longer available (a
\* leg went inactive, lost, etc.) [...] reject."
LostLegIsRefused ==
  [][\A t \in Tickets : status[t] = "accepted" /\ status'[t] = "cashed_out" =>
       \A m \in LegsOf(t) : leg[t][m] # "lost"]_<<vars, cashoutVars>>

\* PHASES.md: "Concurrent accept of the same quote from two tabs: one wins, the
\* other gets quote_accepted (409). Partial unique index on cashouts WHERE
\* status='accepted' is the backstop": the row of the winner stays accepted.
WinnerStaysAccepted ==
  [][\A q \in Quotes : quote[q].status = "accepted" => quote'[q].status = "accepted"]_<<vars, cashoutVars>>

=============================================================================
