----------------------------- MODULE Settlement -----------------------------
(***************************************************************************)
(* The money path of a ticket: placement by the api, the bet-delay worker, *)
(* the settlement service (settle, cancel and rollback messages, chunked   *)
(* ticket settlement, the stranded-ticket sweep) and the operator's manual *)
(* void, over the Postgres tables they share.                              *)
(*                                                                         *)
(* A transaction that holds a row others want, or that reads what it does  *)
(* not lock, is two steps, one that locks and reads and one that writes    *)
(* and commits, because other transactions run in between: the settler's   *)
(* chunk (ChunkBegin, ChunkCommit), the placement (PlaceValidate locks the *)
(* wallet and reads the markets, PlaceCommit writes), the bet-delay worker *)
(* (BetDelayTake reads the markets and decides) and the operator's void    *)
(* (VoidTake). The cancel and the rollback of a market are one step each.  *)
(***************************************************************************)
EXTENDS Integers, FiniteSets, FiniteSetsExt

CONSTANTS
  Wallets,        \* rows of wallets, keyed (user_id, currency)
  Markets,        \* rows of markets
  Matches,        \* rows of matches
  Outcomes,       \* outcome ids of a market
  Tickets,        \* idempotency keys a bettor may place under
  Consumers,      \* feed consumers of the settlement service (AMQP, backup stream)
  Sweepers,       \* the reconcile sweeper; empty when its interval is <= 0
  WalletOf,       \* the wallet a ticket is staked from
  Stake,          \* stake_micro of a ticket
  Picks,          \* ticket -> [market -> outcome], one entry per leg
  UsdcTickets,    \* tickets counted by riskzilla_bank_state
  RepriceTickets, \* tickets placed with accept_odds_changes
  DriftExempt,    \* <<ticket, market>>: legs of a betbuilder or with a boosted price
  MatchOf,        \* the match of a market
  Prices,         \* published odds, in units of the published precision
  OpeningPrice,   \* the price a market starts at
  DriftTolerance, \* tolerated drift between placement and acceptance, in percent
  Opening,        \* balance_micro every wallet starts with
  SettlePayloads, \* outcome -> result, the bodies a bet_settlement may carry
  CancelWindows,  \* [start, end], the windows a bet_cancel may carry
  None,           \* an absent start_time or end_time
  ChunkSize,      \* settleTicketChunkSize
  MaxClock,       \* bound: last value of the placement clock
  MaxApplied,     \* bound: fresh settlements rows per behaviour
  MaxFaults,      \* bound: crashes and failed transactions of a settler
  MaxMoves,       \* bound: odds_change messages per behaviour
  Potential(_, _),          \* ticket, odds per leg -> payout promised at placement
  Reprice(_, _),            \* ticket, odds per leg -> payout of the bet-delay re-price
  ComputePayout(_, _, _, _) \* ticket, potential, odds, results -> [payout, type]

Settlers == Consumers \cup Sweepers

Results == {"won", "lost", "void", "half_won", "half_lost"}
Unresolved == "unresolved"

\* tickets.status; "absent" is no row, "placing" a row not committed yet.
Statuses == {"absent", "placing", "pending_delay", "accepted", "settled", "rejected",
             "voided", "cashed_out"}
OpenStatuses == {"pending_delay", "accepted"}

\* market.status: bettable, suspended, settled, cancelled.
MarketStatuses == {1, 0, -3, -4}
Terminal == {-3, -4}

CreditTypes == {"bet_payout", "bet_refund"}

LegsOf(t) == DOMAIN Picks[t]

ASSUME TicketAssumption ==
  /\ IsFiniteSet(Tickets) /\ IsFiniteSet(Markets)
  /\ Consumers \cap Sweepers = {}
  /\ WalletOf \in [Tickets -> Wallets]
  /\ Stake \in [Tickets -> Nat \ {0}]
  /\ \A t \in Tickets : /\ LegsOf(t) \subseteq Markets /\ LegsOf(t) # {}
                        /\ Picks[t] \in [LegsOf(t) -> Outcomes]
  /\ MatchOf \in [Markets -> Matches]
  /\ SettlePayloads \subseteq [Outcomes -> Results]
  /\ Prices \subseteq Nat \ {0} /\ OpeningPrice \in Prices
  /\ ChunkSize \in Nat \ {0}
  /\ Opening \in Nat

\* What the proofs need to know of the payout functions: a natural number of
\* micro-units and a credit type for every combination of leg results.
Odds(t) == [LegsOf(t) -> Prices]
Potentials(t) == {Potential(t, o) : o \in Odds(t)} \cup {Reprice(t, o) : o \in Odds(t)}

ASSUME PayoutAssumption ==
  \A t \in Tickets :
    /\ Potentials(t) \subseteq Nat
    /\ \A o \in Odds(t), r \in [LegsOf(t) -> Results], pot \in Potentials(t) :
         ComputePayout(t, pot, o, r) \in [payout: Nat, type: CreditTypes]

VARIABLES
  marketStatus,  \* markets.status
  outcomeResult, \* market_outcomes.result
  price,         \* market_outcomes.published_odds, one price per market
  matchClosed,   \* matches.status = 'closed'
  status,        \* tickets.status, "absent" before placement
  payout,        \* tickets.actual_payout_micro, 0 for NULL
  placedAt,      \* tickets.placed_at on the placement clock
  leg,           \* ticket_selections.result per ticket and market
  odds,          \* ticket_selections.odds_at_placement
  potential,     \* tickets.potential_payout_micro
  wallet,        \* wallets.balance_micro and wallets.locked_micro
  ledger,        \* wallet_ledger rows that reference a ticket
  openLiability, \* riskzilla_bank_state.open_liability_micro
  settlements,   \* apply-once keys, per settlement type
  job,           \* what each settler goroutine is doing
  plan,          \* per settler: the settles its open chunk transaction will commit
  hold,          \* per ticket: the other transaction that has its row FOR UPDATE
  passedBy,      \* history: tickets a cancel or a rollback could not lock, while it
                 \* changed their legs; until they are settled anew from those legs
  clock,         \* placement clock
  faults,        \* faults spent
  moves          \* odds changes spent

marketVars == <<marketStatus, outcomeResult, price, matchClosed>>
ticketVars == <<status, payout, placedAt, leg, odds, potential>>
moneyVars  == <<wallet, ledger, openLiability>>
lockVars   == <<hold, passedBy>>
bounds     == <<clock, faults, moves>>
vars == <<marketVars, ticketVars, moneyVars, settlements, job, plan, lockVars, bounds>>

-----------------------------------------------------------------------------
(* wallet_ledger *)

\* ref_id is the bare ticket id for generation 1 and "<id>:<gen>" after that.
LedgerRow == [type: {"bet_stake", "adjustment", "cashout"} \cup CreditTypes,
              ticket: Tickets, gen: Nat \ {0}, delta: Int]

Row(type, t, gen, delta) ==
  [type |-> type, ticket |-> t, gen |-> gen, delta |-> delta]

\* INSERT ... ON CONFLICT (type, ref_type, ref_id) DO NOTHING: the set of rows
\* the statement adds to L.
InsertUnlessExists(L, row) ==
  {r \in {row} : ~ \E x \in L : /\ x.type = row.type
                                /\ x.ticket = row.ticket
                                /\ x.gen = row.gen}

CreditRows(L, t) == {r \in L : r.ticket = t /\ r.type \in CreditTypes}

Reversed(L, r) ==
  \E a \in L : a.type = "adjustment" /\ a.ticket = r.ticket /\ a.gen = r.gen

UnreversedCredits(L, t) == {r \in CreditRows(L, t) : ~ Reversed(L, r)}

\* Wrong: the count scoped to the type being written, as it once was.
NextPayoutGenPerType(L, t, type) ==
  Cardinality({r \in CreditRows(L, t) : r.type = type}) + 1

\* Wrong: counted from zero.
NextPayoutGenFromZero(L, t, type) == Cardinality(CreditRows(L, t))

\* Wrong: no generations, every credit under the bare ticket id.
NextPayoutGenBare(L, t, type) == 1

NextPayoutGen(L, t, type) == Cardinality(CreditRows(L, t)) + 1

LatestUnreversedGen(L, t) ==
  CHOOSE g \in {r.gen : r \in UnreversedCredits(L, t)} :
    \A r \in UnreversedCredits(L, t) : r.gen <= g

-----------------------------------------------------------------------------
(* Tickets and their legs *)

Resolved(t, legs) == \A m \in LegsOf(t) : legs[m] # Unresolved

\* The settle of one ticket whose legs are all resolved.
Settle(t, legs) == ComputePayout(t, potential[t], odds[t], legs)

\* Tickets with a selection on m.
AffectedTickets(m) ==
  {t \in Tickets : status[t] \notin {"absent", "placing"} /\ m \in LegsOf(t)}

InWindow(t, win) ==
  /\ win.start # None => placedAt[t] >= win.start
  /\ win.end # None => placedAt[t] <= win.end

\* A transaction on one ticket that is not the settler's: who has the row and,
\* for the bet-delay worker, the odds and the payout it decided on.
Holders == {"nobody", "void", "cashout", "accept", "reprice", "reject"}
Decisions == {"accept", "reprice", "reject"}
NoHold(t) == [by |-> "nobody", odds |-> [m \in LegsOf(t) |-> OpeningPrice], promise |-> 0]

ReleaseRow(t) == hold' = [hold EXCEPT ![t] = NoHold(t)]

\* Rows another transaction has taken FOR UPDATE.
HeldRows == {t \in Tickets : hold[t].by # "nobody"}
LockedRows == HeldRows \cup UNION {job[s].held : s \in Settlers}

\* Wrong: the placement reads the wallet without FOR UPDATE.
WalletNeverLocked(w) == TRUE

\* No placement transaction holds the wallet row FOR UPDATE.
WalletFree(w) == \A t \in Tickets : WalletOf[t] = w => status[t] # "placing"

Available(w) == wallet[w].balance - wallet[w].locked

Stakes(S) == SumFunctionOnSet(Stake, S)

Liability(S) == SumFunctionOnSet(potential, S \cap UsdcTickets)

Floor0(n) == IF n < 0 THEN 0 ELSE n

-----------------------------------------------------------------------------
(* The writes of one settlement transaction: reverse the tickets in R, then *)
(* settle the tickets in the domain of P as P says.                         *)

\* Wrong: every reversal under the bare ticket id, so a second one is lost.
ReverseRowsBare(t) ==
  IF payout[t] > 0 /\ UnreversedCredits(ledger, t) # {}
  THEN InsertUnlessExists(ledger, Row("adjustment", t, 1, - payout[t]))
  ELSE {}

ReverseRows(t) ==
  IF payout[t] > 0 /\ UnreversedCredits(ledger, t) # {}
  THEN InsertUnlessExists(ledger,
         Row("adjustment", t, LatestUnreversedGen(ledger, t), - payout[t]))
  ELSE {}

SettleRows(t, p) ==
  IF p.payout > 0
  THEN InsertUnlessExists(ledger,
         Row(p.type, t, NextPayoutGen(ledger, t, p.type), p.payout))
  ELSE {}

PostLedger(R, P) ==
  ledger \cup (UNION {ReverseRows(t) : t \in R})
         \cup (UNION {SettleRows(t, P[t]) : t \in DOMAIN P})

\* Wrong: the reversal returns the payout but does not lock the stake again.
PostWalletNoRelock(w, R, P) ==
  LET back == {t \in R : WalletOf[t] = w}
      paid == {t \in DOMAIN P : WalletOf[t] = w}
  IN  [balance |-> wallet[w].balance
                     - SumFunctionOnSet(payout, back)
                     + SumFunctionOnSet([t \in paid |-> P[t].payout - Stake[t]], paid),
       locked  |-> wallet[w].locked - Stakes(paid)]

PostWallet(w, R, P) ==
  LET back == {t \in R : WalletOf[t] = w}
      paid == {t \in DOMAIN P : WalletOf[t] = w}
  IN  [balance |-> (wallet[w].balance
                      - SumFunctionOnSet([t \in back |-> payout[t] - Stake[t]], back))
                      + SumFunctionOnSet([t \in paid |-> P[t].payout - Stake[t]], paid),
       locked  |-> (wallet[w].locked + Stakes(back)) - Stakes(paid)]

\* The CHECK (balance_micro >= locked_micro) holds after every statement when
\* the tickets are walked in some order; a transaction it fails rolls back.
WalletCheck(R, P) ==
  LET S == R \cup DOMAIN P
      debit(t) == IF t \in R THEN payout[t] ELSE 0
      credit(t) == IF t \in DOMAIN P THEN P[t].payout ELSE 0
  IN  \E rank \in [S -> 1 .. Cardinality(S)] :
        /\ \A t, u \in S : t # u => rank[t] # rank[u]
        /\ \A t \in S :
             LET before == {u \in S : WalletOf[u] = WalletOf[t] /\ rank[u] < rank[t]}
             IN  (Available(WalletOf[t]) - debit(t))
                   + SumFunctionOnSet([u \in before |-> credit(u) - debit(u)], before) >= 0

\* Wrong: a ticket that was settled at nothing has nothing to reverse and stays
\* settled.
PostTicketsPaidOnly(R, P) ==
  /\ status' = [t \in Tickets |-> IF t \in DOMAIN P THEN "settled"
                                  ELSE IF t \in R /\ payout[t] > 0 THEN "accepted"
                                  ELSE status[t]]
  /\ payout' = [t \in Tickets |-> IF t \in DOMAIN P THEN P[t].payout
                                  ELSE IF t \in R THEN 0 ELSE payout[t]]

PostTickets(R, P) ==
  /\ status' = [t \in Tickets |-> IF t \in DOMAIN P THEN "settled"
                                  ELSE IF t \in R THEN "accepted" ELSE status[t]]
  /\ payout' = [t \in Tickets |-> IF t \in DOMAIN P THEN P[t].payout
                                  ELSE IF t \in R THEN 0 ELSE payout[t]]

PostSettlement(R, P) ==
  /\ \A t \in R \cup DOMAIN P : WalletFree(WalletOf[t])
  /\ WalletCheck(R, P)
  /\ PostTickets(R, P)
  /\ wallet' = [w \in Wallets |-> PostWallet(w, R, P)]
  /\ ledger' = PostLedger(R, P)
  /\ openLiability' = Floor0(openLiability + Liability(R) - Liability(DOMAIN P))

NoSettles == [t \in {} |-> 0]
Idle == [pc |-> "idle", todo |-> {}, held |-> {}, market |-> None]

-----------------------------------------------------------------------------
(* Placement, odds changes and the bet-delay worker *)

\* POST /bets, first half: the user and wallet rows are locked, the legs are
\* checked against markets read without a lock. A placement that is refused or
\* fails later rolls back, which is the same as never having begun.
PlaceValidate(t) ==
  /\ status[t] = "absent"
  /\ WalletFree(WalletOf[t])
  /\ Available(WalletOf[t]) >= Stake[t]
  /\ \A m \in LegsOf(t) : /\ marketStatus[m] = 1
                          /\ ~ matchClosed[MatchOf[m]]
                          /\ outcomeResult[m][Picks[t][m]] = Unresolved
  /\ status' = [status EXCEPT ![t] = "placing"]
  /\ odds' = [odds EXCEPT ![t] = [m \in LegsOf(t) |-> price[m]]]
  /\ UNCHANGED <<marketVars, payout, placedAt, leg, potential, moneyVars, settlements, job, plan,
                 lockVars, bounds>>

\* Second half: the ticket under its idempotency key, its selections, the stake
\* lock, the bet_stake row and the open liability commit together.
PlaceCommit(t, st) ==
  /\ status[t] = "placing"
  /\ st \in OpenStatuses
  /\ status' = [status EXCEPT ![t] = st]
  /\ placedAt' = [placedAt EXCEPT ![t] = clock]
  /\ potential' = [potential EXCEPT ![t] = Potential(t, odds[t])]
  /\ wallet' = [wallet EXCEPT ![WalletOf[t]].locked = @ + Stake[t]]
  /\ ledger' = ledger \cup InsertUnlessExists(ledger, Row("bet_stake", t, 1, - Stake[t]))
  /\ openLiability' = IF t \in UsdcTickets
                      THEN openLiability + Potential(t, odds[t]) ELSE openLiability
  /\ UNCHANGED <<marketVars, payout, leg, odds, settlements, job, plan, lockVars, bounds>>

\* An odds_change: a status, which a terminal market ignores, and a price.
FeedOddsChange(m, st, p) ==
  /\ moves < MaxMoves
  /\ st \in {1, 0}
  /\ p \in Prices
  /\ marketStatus' = [marketStatus EXCEPT ![m] = IF @ \in Terminal THEN @ ELSE st]
  /\ price' = [price EXCEPT ![m] = p]
  /\ moves' = moves + 1
  /\ UNCHANGED <<outcomeResult, matchClosed, ticketVars, moneyVars, settlements, job, plan,
                 lockVars, clock, faults>>

Bettable(t) == \A m \in LegsOf(t) : marketStatus[m] = 1

\* |current - placed| / placed > tolerance.
Drift(placed, current) ==
  (IF current > placed THEN current - placed ELSE placed - current) * 100
    > DriftTolerance * placed
DriftedLegs(t) ==
  {m \in LegsOf(t) : <<t, m>> \notin DriftExempt /\ Drift(odds[t][m], price[m])}

\* Only drifted legs are rewritten; the others keep the price the bettor saw.
RepricedLegs(t) ==
  [m \in LegsOf(t) |-> IF m \in DriftedLegs(t) THEN price[m] ELSE odds[t][m]]

\* Wrong: the payout is rebuilt from every leg's current price.
NewPotentialAllLegs(t) == Reprice(t, [m \in LegsOf(t) |-> price[m]])

NewPotential(t) == Reprice(t, RepricedLegs(t))

\* evaluate(): what the worker decides on the markets as they are now.
Decision(t) ==
  CASE Bettable(t) /\ DriftedLegs(t) = {} ->
         [NoHold(t) EXCEPT !.by = "accept"]
    [] Bettable(t) /\ DriftedLegs(t) # {} /\ t \in RepriceTickets /\ NewPotential(t) > 0 ->
         [by |-> "reprice", odds |-> RepricedLegs(t), promise |-> NewPotential(t)]
    [] OTHER -> [NoHold(t) EXCEPT !.by = "reject"]

\* processTicket: the row is taken FOR UPDATE SKIP LOCKED, its status re-read,
\* and the decision made on markets that are not locked.
BetDelayTake(t) ==
  /\ status[t] = "pending_delay" /\ t \notin LockedRows
  /\ hold' = [hold EXCEPT ![t] = Decision(t)]
  /\ UNCHANGED <<marketVars, ticketVars, moneyVars, settlements, job, plan, passedBy, bounds>>

BetDelayAccept(t) ==
  /\ hold[t].by = "accept"
  /\ status' = [status EXCEPT ![t] = "accepted"]
  /\ ReleaseRow(t)
  /\ UNCHANGED <<marketVars, payout, placedAt, leg, odds, potential, moneyVars, settlements,
                 job, plan, passedBy, bounds>>

\* Wrong: the liability counter keeps the potential payout of the old odds.
LiabilityDeltaNone(t) == 0

LiabilityDelta(t) == IF t \in UsdcTickets THEN hold[t].promise - potential[t] ELSE 0

BetDelayReprice(t) ==
  /\ hold[t].by = "reprice"
  /\ status' = [status EXCEPT ![t] = "accepted"]
  /\ odds' = [odds EXCEPT ![t] = hold[t].odds]
  /\ potential' = [potential EXCEPT ![t] = hold[t].promise]
  /\ openLiability' = openLiability + LiabilityDelta(t)
  /\ ReleaseRow(t)
  /\ UNCHANGED <<marketVars, payout, placedAt, leg, wallet, ledger, settlements, job, plan,
                 passedBy, bounds>>

\* Release the stake of t with a bet_refund row under the bare ticket id, and
\* the liability it reserved.
RefundStake(t) ==
  /\ WalletFree(WalletOf[t])
  /\ wallet' = [wallet EXCEPT ![WalletOf[t]].locked = @ - Stake[t]]
  /\ ledger' = ledger \cup InsertUnlessExists(ledger, Row("bet_refund", t, 1, Stake[t]))
  /\ openLiability' = Floor0(openLiability - Liability({t}))

BetDelayReject(t) ==
  /\ hold[t].by = "reject"
  /\ status' = [status EXCEPT ![t] = "rejected"]
  /\ RefundStake(t)
  /\ ReleaseRow(t)
  /\ UNCHANGED <<marketVars, payout, placedAt, leg, odds, potential, settlements, job, plan,
                 passedBy, bounds>>

\* POST /admin/tickets/:id/void takes the row of a ticket of any status FOR
\* UPDATE, after whoever has it. A row that nobody writes any more is left out:
\* that it is locked changes nothing.
VoidTake(t) ==
  /\ status[t] \in OpenStatuses \cup {"settled"} /\ t \notin LockedRows
  /\ hold' = [hold EXCEPT ![t].by = "void"]
  /\ UNCHANGED <<marketVars, ticketVars, moneyVars, settlements, job, plan, passedBy, bounds>>

\* Wrong: a settled ticket can be voided too.
AdminVoidSettled(t) ==
  /\ hold[t].by = "void"
  /\ status[t] \in {"accepted", "settled"}
  /\ status' = [status EXCEPT ![t] = "voided"]
  /\ payout' = [payout EXCEPT ![t] = Stake[t]]
  /\ RefundStake(t)
  /\ ReleaseRow(t)
  /\ UNCHANGED <<marketVars, placedAt, leg, odds, potential, settlements, job, plan, passedBy,
                 bounds>>

AdminVoid(t) ==
  /\ hold[t].by = "void"
  /\ status[t] = "accepted"
  /\ status' = [status EXCEPT ![t] = "voided"]
  /\ payout' = [payout EXCEPT ![t] = Stake[t]]
  /\ RefundStake(t)
  /\ ReleaseRow(t)
  /\ UNCHANGED <<marketVars, placedAt, leg, odds, potential, settlements, job, plan, passedBy,
                 bounds>>

\* A ticket that is not accepted is refused.
VoidRefused(t) ==
  /\ hold[t].by = "void"
  /\ status[t] # "accepted"
  /\ ReleaseRow(t)
  /\ UNCHANGED <<marketVars, ticketVars, moneyVars, settlements, job, plan, passedBy, bounds>>

\* The transaction of the worker or of the operator fails and rolls back; a
\* pending ticket is taken again by the worker's next sweep.
HoldFails(t) ==
  /\ faults < MaxFaults
  /\ hold[t].by \in Decisions \cup {"void"}
  /\ ReleaseRow(t)
  /\ faults' = faults + 1
  /\ UNCHANGED <<marketVars, ticketVars, moneyVars, settlements, job, plan, passedBy, clock, moves>>

-----------------------------------------------------------------------------
(* bet_settlement: phase 1, then the affected tickets chunk by chunk, then   *)
(* the match lifecycle check                                                 *)

Applied == Cardinality(settlements.settle) + Cardinality(settlements.cancel)
             + Cardinality(settlements.rollback_settle)
             + Cardinality(settlements.rollback_cancel)

\* The cascade of a fresh settle: market status, outcome results, open legs.
SettleCascade(m, res) ==
  /\ marketStatus' = [marketStatus EXCEPT ![m] = -3]
  /\ outcomeResult' = [outcomeResult EXCEPT ![m] = res]
  /\ leg' = [t \in Tickets |->
               [k \in LegsOf(t) |->
                  IF k = m /\ t \in AffectedTickets(m) /\ leg[t][m] = Unresolved
                  THEN res[Picks[t][m]] ELSE leg[t][k]]]

StartChunks(s, tickets, m) ==
  [pc |-> IF tickets # {} THEN "settle" ELSE "close",
   todo |-> tickets, held |-> {}, market |-> m]

SettlePhase1(s, m, res) ==
  /\ s \in Consumers
  /\ job[s].pc = "idle"
  /\ res \in SettlePayloads
  /\ IF <<m, res>> \in settlements.settle
     THEN UNCHANGED <<marketStatus, outcomeResult, leg, settlements>>
     ELSE /\ Applied < MaxApplied
          /\ settlements' = [settlements EXCEPT !.settle = @ \cup {<<m, res>>}]
          /\ SettleCascade(m, res)
  /\ job' = [job EXCEPT ![s] = StartChunks(s, AffectedTickets(m), m)]
  /\ UNCHANGED <<price, matchClosed, status, payout, placedAt, odds, potential, moneyVars,
                 plan, lockVars, bounds>>

\* Wrong: a row locked by another settler is waited for and used as it was read.
GrabRowsNoSkip(s, C) == C
\* FOR UPDATE SKIP LOCKED: the rows of chunk C that settler s gets.
GrabRows(s, C) == C \ (HeldRows \cup UNION {job[x].held : x \in Settlers \ {s}})

\* LoadTicketWithSelections for every id of a chunk: lock what is free, and
\* decide from the legs as they are now.
ChunkBegin(s, C) ==
  /\ job[s].pc = "settle"
  /\ C # {} /\ C \subseteq job[s].todo
  /\ Cardinality(C) = ChunkSize \/ (C = job[s].todo /\ Cardinality(C) < ChunkSize)
  /\ job' = [job EXCEPT ![s] = [pc |-> "chunk", todo |-> job[s].todo \ C,
                                held |-> GrabRows(s, C), market |-> job[s].market]]
  /\ plan' = [plan EXCEPT ![s] =
                [t \in {u \in GrabRows(s, C) : status[u] = "accepted" /\ Resolved(u, leg[u])}
                   |-> Settle(t, leg[t])]]
  /\ passedBy' = passedBy \ DOMAIN plan'[s]
  /\ UNCHANGED <<marketVars, ticketVars, moneyVars, settlements, hold, bounds>>

\* The rest of the chunk transaction: SettleTicket for every planned ticket.
ChunkCommit(s) ==
  /\ job[s].pc = "chunk"
  /\ PostSettlement({}, plan[s])
  /\ job' = [job EXCEPT ![s] = StartChunks(s, job[s].todo, job[s].market)]
  /\ plan' = [plan EXCEPT ![s] = NoSettles]
  /\ UNCHANGED <<marketVars, placedAt, leg, odds, potential, settlements, lockVars, bounds>>

BookTerminal(ma) == \A m \in Markets : MatchOf[m] = ma => marketStatus[m] \in Terminal

\* MarkMatchClosedIfAllMarketsTerminal for the match of the message.
CloseMatch(s) ==
  /\ s \in Consumers
  /\ job[s].pc = "close"
  /\ matchClosed' = [matchClosed EXCEPT ![MatchOf[job[s].market]] =
                       @ \/ BookTerminal(MatchOf[job[s].market])]
  /\ job' = [job EXCEPT ![s] = Idle]
  /\ UNCHANGED <<marketStatus, outcomeResult, price, ticketVars, moneyVars, settlements, plan,
                 lockVars, bounds>>

\* A failed transaction: rolled back, logged and swallowed. A consumer goes on
\* to the match check, the sweeper waits for its next tick.
TxError(s) ==
  /\ faults < MaxFaults
  /\ job[s].pc \in {"settle", "chunk"}
  /\ faults' = faults + 1
  /\ job' = [job EXCEPT ![s] = IF s \in Consumers
                               THEN StartChunks(s, {}, job[s].market) ELSE Idle]
  /\ plan' = [plan EXCEPT ![s] = NoSettles]
  /\ UNCHANGED <<marketVars, ticketVars, moneyVars, settlements, lockVars, clock, moves>>

\* The process dies: open transactions roll back, ticket lists are forgotten.
Crash ==
  /\ faults < MaxFaults
  /\ \E s \in Settlers : job[s].pc # "idle"
  /\ faults' = faults + 1
  /\ job' = [s \in Settlers |-> Idle]
  /\ plan' = [s \in Settlers |-> NoSettles]
  /\ UNCHANGED <<marketVars, ticketVars, moneyVars, settlements, lockVars, clock, moves>>

-----------------------------------------------------------------------------
(* bet_cancel *)

\* Legs after the tickets of S had theirs on m cleared and voided.
VoidLegs(S, m) ==
  [t \in Tickets |-> IF t \in S THEN [leg[t] EXCEPT ![m] = "void"] ELSE leg[t]]

\* The tickets of S that a message passes by when it gives them the legs of legs,
\* and the ones it reverses or settles.
PassedBy(S, legs, done) ==
  (passedBy \ done) \cup {t \in S \cap LockedRows : legs[t] # leg[t]}

MarketCancel(s, m, win) ==
  LET hit == {t \in AffectedTickets(m) : InWindow(t, win)}
      legs == VoidLegs(hit, m)
      undo == {t \in hit : status[t] = "settled" /\ t \notin LockedRows}
      redo == {t \in hit : /\ t \notin LockedRows
                           /\ status[t] \in {"accepted", "settled"}
                           /\ Resolved(t, legs[t])}
  IN  /\ s \in Consumers
      /\ job[s].pc = "idle"
      /\ win \in CancelWindows
      /\ <<m, win>> \notin settlements.cancel
      /\ Applied < MaxApplied
      /\ settlements' = [settlements EXCEPT !.cancel = @ \cup {<<m, win>>}]
      /\ marketStatus' = [marketStatus EXCEPT ![m] = IF win.end = None THEN -4 ELSE @]
      /\ leg' = legs
      /\ PostSettlement(undo, [t \in redo |-> Settle(t, legs[t])])
      /\ job' = [job EXCEPT ![s] = [Idle EXCEPT !.pc = "close", !.market = m]]
      /\ passedBy' = PassedBy(hit, legs, undo \cup redo)
      /\ UNCHANGED <<outcomeResult, price, matchClosed, placedAt, odds, potential, plan, hold, bounds>>

\* A cancel already applied, or whose transaction fails: only the match check
\* of the handler is left.
MarketCancelSkip(s, m, win) ==
  /\ s \in Consumers
  /\ job[s].pc = "idle"
  /\ \/ <<m, win>> \in settlements.cancel /\ UNCHANGED faults
     \/ faults < MaxFaults /\ faults' = faults + 1
  /\ job' = [job EXCEPT ![s] = [Idle EXCEPT !.pc = "close", !.market = m]]
  /\ UNCHANGED <<marketVars, ticketVars, moneyVars, settlements, plan, lockVars, clock, moves>>

-----------------------------------------------------------------------------
(* rollback_bet_settlement and rollback_bet_cancel *)

\* Legs after the results on m are taken back.
OpenLegs(m) ==
  [t \in Tickets |-> IF t \in AffectedTickets(m) THEN [leg[t] EXCEPT ![m] = Unresolved] ELSE leg[t]]

MarketRollback(s, m, type) ==
  LET undo == {t \in AffectedTickets(m) : status[t] = "settled" /\ t \notin LockedRows}
      legs == OpenLegs(m)
  IN  /\ s \in Consumers
      /\ job[s].pc = "idle"
      /\ type \in {"rollback_settle", "rollback_cancel"}
      /\ m \notin settlements[type]
      /\ Applied < MaxApplied
      /\ settlements' = [settlements EXCEPT ![type] = @ \cup {m}]
      /\ leg' = legs
      /\ marketStatus' = [marketStatus EXCEPT ![m] = 1]
      /\ PostSettlement(undo, NoSettles)
      /\ passedBy' = PassedBy(AffectedTickets(m), legs, undo)
      /\ UNCHANGED <<outcomeResult, price, matchClosed, placedAt, odds, potential, job, plan,
                     hold, bounds>>

-----------------------------------------------------------------------------
(* The stranded-ticket sweep *)

\* HealStrandedSelections: the legs of accepted tickets that are still open on
\* a terminal market whose outcome has a result.
HealedLegs ==
  [t \in Tickets |->
     [m \in LegsOf(t) |->
        IF /\ status[t] = "accepted"
           /\ leg[t][m] = Unresolved
           /\ marketStatus[m] \in Terminal
           /\ outcomeResult[m][Picks[t][m]] # Unresolved
        THEN outcomeResult[m][Picks[t][m]] ELSE leg[t][m]]]

\* Wrong: the repair of the open legs does nothing, as when its statement was
\* refused by Postgres; only tickets with resolved legs are settled.
ReconcileStrandedNoHeal(s) ==
  LET ready == {t \in Tickets : status[t] = "accepted" /\ Resolved(t, leg[t])}
  IN  /\ s \in Sweepers
      /\ job[s].pc = "idle"
      /\ job' = [job EXCEPT ![s] = StartChunks(s, ready, None)]
      /\ UNCHANGED <<marketVars, ticketVars, moneyVars, settlements, plan, lockVars, bounds>>

ReconcileStranded(s) ==
  LET ready == {t \in Tickets : status[t] = "accepted" /\ Resolved(t, HealedLegs[t])}
  IN  /\ s \in Sweepers
      /\ job[s].pc = "idle"
      /\ leg' = HealedLegs
      /\ job' = [job EXCEPT ![s] = StartChunks(s, ready, None)]
      /\ UNCHANGED <<marketVars, status, payout, placedAt, odds, potential, moneyVars,
                     settlements, plan, lockVars, bounds>>

\* ReconcileMatchLifecycle, the sweep's last step, over the matches whose
\* scheduled start is due: 3 hours to 30 days ago.
ReconcileMatchLifecycle(s, due) ==
  /\ s \in Sweepers
  /\ job[s].pc = "close"
  /\ matchClosed' = [ma \in Matches |->
                       matchClosed[ma] \/ (/\ ma \in due
                                          /\ \E m \in Markets : MatchOf[m] = ma
                                          /\ BookTerminal(ma))]
  /\ job' = [job EXCEPT ![s] = Idle]
  /\ UNCHANGED <<marketStatus, outcomeResult, price, ticketVars, moneyVars, settlements, plan,
                 lockVars, bounds>>

Tick ==
  /\ clock < MaxClock
  /\ clock' = clock + 1
  /\ UNCHANGED <<marketVars, ticketVars, moneyVars, settlements, job, plan, lockVars, faults, moves>>

-----------------------------------------------------------------------------
Init ==
  /\ marketStatus = [m \in Markets |-> 1]
  /\ outcomeResult = [m \in Markets |-> [o \in Outcomes |-> Unresolved]]
  /\ price = [m \in Markets |-> OpeningPrice]
  /\ matchClosed = [ma \in Matches |-> FALSE]
  /\ status = [t \in Tickets |-> "absent"]
  /\ payout = [t \in Tickets |-> 0]
  /\ placedAt = [t \in Tickets |-> 0]
  /\ leg = [t \in Tickets |-> [m \in LegsOf(t) |-> Unresolved]]
  /\ odds = [t \in Tickets |-> [m \in LegsOf(t) |-> OpeningPrice]]
  /\ potential = [t \in Tickets |-> 0]
  /\ wallet = [w \in Wallets |-> [balance |-> Opening, locked |-> 0]]
  /\ ledger = {}
  /\ openLiability = 0
  /\ settlements = [settle |-> {}, cancel |-> {}, rollback_settle |-> {}, rollback_cancel |-> {}]
  /\ job = [s \in Settlers |-> Idle]
  /\ plan = [s \in Settlers |-> NoSettles]
  /\ hold = [t \in Tickets |-> NoHold(t)]
  /\ passedBy = {}
  /\ clock = 0 /\ faults = 0 /\ moves = 0

TicketNext ==
  \E t \in Tickets :
    \/ PlaceValidate(t)
    \/ \E st \in OpenStatuses : PlaceCommit(t, st)
    \/ BetDelayTake(t)
    \/ BetDelayAccept(t)
    \/ BetDelayReprice(t)
    \/ BetDelayReject(t)
    \/ VoidTake(t)
    \/ AdminVoid(t)
    \/ VoidRefused(t)
    \/ HoldFails(t)

SettlerNext ==
  \E s \in Settlers :
    \/ \E m \in Markets, res \in SettlePayloads : SettlePhase1(s, m, res)
    \/ \E C \in SUBSET Tickets : ChunkBegin(s, C)
    \/ ChunkCommit(s)
    \/ CloseMatch(s)
    \/ TxError(s)
    \/ \E m \in Markets, win \in CancelWindows : MarketCancel(s, m, win)
    \/ \E m \in Markets, win \in CancelWindows : MarketCancelSkip(s, m, win)
    \/ \E m \in Markets, type \in {"rollback_settle", "rollback_cancel"} :
         MarketRollback(s, m, type)
    \/ ReconcileStranded(s)
    \/ \E due \in SUBSET Matches : ReconcileMatchLifecycle(s, due)

Next ==
  \/ TicketNext
  \/ SettlerNext
  \/ \E m \in Markets, st \in {1, 0}, p \in Prices : FeedOddsChange(m, st, p)
  \/ Crash
  \/ Tick

Spec == Init /\ [][Next]_vars

-----------------------------------------------------------------------------
(* Properties *)

TypeOK ==
  /\ marketStatus \in [Markets -> MarketStatuses]
  /\ price \in [Markets -> Prices]
  /\ matchClosed \in [Matches -> BOOLEAN]
  /\ status \in [Tickets -> Statuses]
  /\ payout \in [Tickets -> Nat]
  /\ \A t \in Tickets : /\ leg[t] \in [LegsOf(t) -> Results \cup {Unresolved}]
                        /\ odds[t] \in Odds(t)
  /\ potential \in [Tickets -> Nat]
  /\ ledger \subseteq LedgerRow
  /\ \A t \in Tickets : hold[t] \in [by: Holders, odds: Odds(t), promise: Nat]
  /\ passedBy \subseteq Tickets
  /\ \A s \in Settlers : /\ job[s].pc \in {"idle", "settle", "chunk", "close"}
                         /\ job[s].todo \subseteq Tickets
                         /\ job[s].held \subseteq Tickets
                         /\ DOMAIN plan[s] \subseteq job[s].held
                         /\ plan[s] \in [DOMAIN plan[s] -> [payout: Nat, type: CreditTypes]]

Adjustments(L, t) == {r \in L : r.ticket = t /\ r.type = "adjustment"}

\* Every reversed credit has its own compensating row and nothing else does:
\* an adjustment cancels exactly one bet_payout or bet_refund of the ticket,
\* and what is left uncompensated is what the ticket is currently worth - no
\* credit while it is open or lost, the one credit of its latest generation
\* once it is settled (store.go, nextPayoutRefID and
\* LatestUnreversedPayoutRefID, over settle / rollback / re-settle).
OneLiveCredit ==
  \A t \in Tickets :
    /\ status[t] # "voided" =>
         \A a \in Adjustments(ledger, t) :
           \E c \in CreditRows(ledger, t) :
             /\ c.gen = a.gen /\ c.delta = - a.delta
             /\ \A d \in CreditRows(ledger, t) : d.gen = a.gen => d = c
    /\ status[t] \in {"absent", "placing", "pending_delay", "accepted"} =>
         UnreversedCredits(ledger, t) = {}
    /\ status[t] = "settled" =>
         IF payout[t] = 0 THEN UnreversedCredits(ledger, t) = {}
         ELSE \E c \in UnreversedCredits(ledger, t) :
                UnreversedCredits(ledger, t) = {c} /\ c.delta = payout[t]

\* A manual void whose refund row is missing: it posts under the bare ticket id,
\* which the first credit, a bet_refund reversed since, still holds.
VoidUnbooked(t) ==
  /\ status[t] = "voided"
  /\ Adjustments(ledger, t) # {}
  /\ \A r \in CreditRows(ledger, t) : r.gen = 1 => r.type = "bet_refund"

\* What a set of ledger rows adds up to.
RowSum(rows) == SumFunctionOnSet([r \in rows |-> r.delta], rows)

\* The wallet reconciles with its ledger: what the bettor can spend is the
\* opening balance plus the ticket rows posted, in every interleaving of
\* placement, bet-delay, chunks, cancels and rollbacks. The stakes of unbooked
\* voids are the only gap.
LedgerReconciles ==
  \A w \in Wallets :
    Available(w) = Opening
      + RowSum({r \in ledger : WalletOf[r.ticket] = w})
      + Stakes({t \in Tickets : WalletOf[t] = w /\ VoidUnbooked(t)})

\* The books of one ticket, as TicketAccount tells them.
TicketRows(t) == {r \in ledger : r.ticket = t}

Phase(t) ==
  CASE status[t] \in {"absent", "placing"} -> "none"
    [] status[t] \in OpenStatuses -> "open"
    [] status[t] = "settled" -> "paid"
    [] OTHER -> "ended"

BareCredit(t, type) == \E r \in CreditRows(ledger, t) : r.gen = 1 /\ r.type = type

FirstCredit(t) ==
  IF BareCredit(t, "bet_payout") THEN "bet_payout"
  ELSE IF BareCredit(t, "bet_refund") THEN "bet_refund" ELSE "none"

Account(t) == INSTANCE TicketAccount WITH
                Stake <- Stake[t],
                phase <- Phase(t),
                worth <- payout[t],
                net   <- RowSum(TicketRows(t)),
                first <- FirstCredit(t)

\* Every ticket keeps an account of its own: its ledger rows add up to what its
\* row says in every state, so that no error of one ticket hides behind the
\* error of another in the sum of the wallet, through any number of settles,
\* cancels and rollbacks (store.go, SettleTicket and ReverseSettledTicket).
TicketsAreAccounts ==
  /\ \A t \in Tickets : Account(t)!Init
  /\ [][\A t \in Tickets :
          \/ UNCHANGED <<Phase(t), payout[t], RowSum(TicketRows(t)), FirstCredit(t)>>
          \/ Account(t)!Next]_vars

\* locked_micro is the stakes of the open tickets, no stake locked twice or
\* released twice, however often a ticket is settled and reversed.
LockedIsOpenStakes ==
  \A w \in Wallets :
    wallet[w].locked =
      Stakes({t \in Tickets : WalletOf[t] = w /\ status[t] \in OpenStatuses})

\* No wallet is overdrawn: a placement checks the balance in one statement and
\* locks the stake in a later one, without the check, and between the two the
\* settler, the bet-delay worker and other placements go on.
NeverOverdrawn ==
  \A w \in Wallets : 0 <= wallet[w].locked /\ wallet[w].locked <= wallet[w].balance

\* The cached exposure counter equals the exposure of the open USDC tickets,
\* so the bank gate of a placement sees the true figure.
OpenLiabilityExact ==
  openLiability = Liability({t \in Tickets : status[t] \in OpenStatuses})

\* A ticket's potential payout is built from the leg odds it stores, the ones
\* settlement pays from (worker.go, "newPayout must be built from exactly the
\* per-leg odds we STORE").
PotentialMatchesLegs ==
  \A t \in Tickets :
    status[t] \in OpenStatuses \cup {"settled"} =>
      potential[t] \in {Potential(t, odds[t]), Reprice(t, odds[t])}

\* A settled ticket that its legs, as they are now, would not have paid.
Mispaid(t) ==
  /\ status[t] = "settled"
  /\ ~ (Resolved(t, leg[t]) /\ payout[t] = Settle(t, leg[t]).payout)

\* A settled ticket paid what its legs say now: a settle reads the legs, and a
\* cancel or a rollback that re-grades one also re-settles or re-opens the
\* ticket, whatever the other settlers, the sweep, the operator and failing
\* transactions do in between. The one way out is to have the row locked when
\* the cancel or the rollback comes (settler.go, applyCancelToTickets, "SKIP-
\* LOCKED misses just no-op").
SettledMatchesLegs == \A t \in Tickets \ passedBy : ~ Mispaid(t)

\* A row locked by a transaction is changed by no one else: until the chunk, the
\* worker or the operator ends, the ticket keeps its status, its odds and its
\* potential payout, and nobody else has it.
HeldRowsAreStable ==
  [][/\ \A s \in Settlers : job'[s] = job[s] =>
          \A t \in job[s].held :
            /\ status'[t] = status[t] /\ hold'[t].by = "nobody"
            /\ \A x \in Settlers \ {s} : t \notin job'[x].held
     /\ \A t \in HeldRows : hold'[t] = hold[t] =>
          /\ status'[t] = status[t] /\ odds'[t] = odds[t] /\ potential'[t] = potential[t]
          /\ \A s \in Settlers : t \notin job'[s].held]_vars

\* settler.go, reverseSettledForCancel: "another worker holds it; their settle
\* will pick up the cancel on its next pass".
CancelIsPickedUp == \A t \in Tickets : Mispaid(t) ~> ~ Mispaid(t)

\* SCHEMA.md, "Manual void (admin)": a void writes (bet_refund, ticket,
\* ticketId, +stake).
VoidsAreBooked ==
  [][\A t \in Tickets : status[t] # "voided" /\ status'[t] = "voided" =>
       Row("bet_refund", t, 1, Stake[t]) \in ledger' \ ledger]_vars

\* The lifecycle of a ticket: what is rejected or voided stays so, and only a
\* settled ticket may come back to the book.
LifecycleOnlyForward ==
  [][\A t \in Tickets :
       /\ status[t] \in {"rejected", "voided", "cashed_out"} => status'[t] = status[t]
       /\ status[t] = "settled" => status'[t] \in {"settled", "accepted"}
       /\ status[t] = "accepted" => status'[t] \notin {"absent", "placing", "pending_delay", "rejected"}
       /\ status'[t] = "accepted" /\ status[t] = "settled" => payout'[t] = 0]_vars

\* Fairness: database transactions that are open end, and the sweeper's ticker
\* keeps firing. Messages and bettors owe nothing.
Fairness ==
  /\ \A t \in Tickets : /\ WF_vars(\E st \in OpenStatuses : PlaceCommit(t, st))
                        /\ WF_vars(BetDelayAccept(t) \/ BetDelayReprice(t) \/ BetDelayReject(t))
                        /\ WF_vars(AdminVoid(t) \/ VoidRefused(t))
  /\ \A s \in Settlers : /\ WF_vars(\E C \in SUBSET Tickets : ChunkBegin(s, C))
                         /\ WF_vars(ChunkCommit(s))
                         /\ WF_vars(CloseMatch(s))
                         /\ WF_vars(\E due \in SUBSET Matches : ReconcileMatchLifecycle(s, due))
                         /\ WF_vars(ReconcileStranded(s))

FairSpec == Spec /\ Fairness

\* An open ticket whose every leg has, or can be given, a result.
Stranded(t) == status[t] = "accepted" /\ Resolved(t, HealedLegs[t])

\* No ticket stays open on results that are in: whatever chunk failed, row was
\* skipped or settle beat the placement, the sweep settles it, unless the
\* result is taken back or the operator acts first.
StrandedTicketsSettle == \A t \in Tickets : Stranded(t) ~> ~ Stranded(t)

-----------------------------------------------------------------------------
(* The inductive invariant behind TypeOK and OneLiveCredit *)

\* What ComputePayout is applied to: well-typed legs and odds, and for a
\* committed ticket a potential payout that placement or the re-price computed.
TicketsTyped ==
  /\ price \in [Markets -> Prices]
  /\ outcomeResult \in [Markets -> [Outcomes -> Results \cup {Unresolved}]]
  /\ status \in [Tickets -> Statuses]
  /\ payout \in [Tickets -> Nat]
  /\ potential \in [Tickets -> Nat]
  /\ DOMAIN leg = Tickets /\ DOMAIN odds = Tickets
  /\ \A t \in Tickets : /\ leg[t] \in [LegsOf(t) -> Results \cup {Unresolved}]
                        /\ odds[t] \in Odds(t)
                        /\ status[t] \notin {"absent", "placing"} => potential[t] \in Potentials(t)

Payouts == [payout: Nat, type: CreditTypes]

Jobs == [pc: {"idle", "settle", "chunk", "close"}, todo: SUBSET Tickets,
         held: SUBSET Tickets, market: Markets \cup {None}]

\* A chunk transaction settles only rows it holds, which stay open until it
\* ends because no other transaction can take them.
PlansOwned ==
  /\ job \in [Settlers -> Jobs]
  /\ DOMAIN plan = Settlers
  /\ \A s \in Settlers :
       /\ plan[s] \in [DOMAIN plan[s] -> Payouts]
       /\ DOMAIN plan[s] \subseteq job[s].held
       /\ job[s].pc # "chunk" => job[s].held = {}
       /\ \A t \in DOMAIN plan[s] : status[t] = "accepted"
       /\ \A t \in job[s].held : hold[t].by = "nobody"
       /\ \A x \in Settlers \ {s} : job[s].held \cap job[x].held = {}

\* A decision of the bet-delay worker is about a ticket that stays pending until
\* it is written.
HoldsOwned ==
  /\ passedBy \subseteq Tickets
  /\ DOMAIN hold = Tickets
  /\ \A t \in Tickets :
       /\ hold[t] \in [by: Holders, odds: Odds(t), promise: Nat]
       /\ hold[t].by # "nobody" => status[t] \notin {"absent", "placing"}
       /\ hold[t].by \in Decisions => status[t] = "pending_delay"
       /\ hold[t].by = "reprice" => hold[t].promise = Reprice(t, hold[t].odds)

\* The credit and adjustment rows L holds of a ticket in status st that was
\* last paid pay. A generation is a credit's alone, and none is above the number
\* of credits: that is what makes the next one, counted from the rows, fresh.
TicketBooks(L, t, st, pay) ==
  /\ IsFiniteSet(CreditRows(L, t))
  /\ \A c, d \in CreditRows(L, t) : c.gen = d.gen => c = d
  /\ \A c \in CreditRows(L, t) : c.gen <= Cardinality(CreditRows(L, t))
  /\ \A a \in Adjustments(L, t) :
       \E c \in CreditRows(L, t) : c.gen = a.gen /\ c.delta = - a.delta
  /\ st \in {"absent", "placing", "pending_delay"} => CreditRows(L, t) = {}
  /\ st \in {"absent", "placing", "pending_delay", "accepted"} => UnreversedCredits(L, t) = {}
  /\ st = "settled" =>
       IF pay = 0 THEN UnreversedCredits(L, t) = {}
       ELSE \E c \in UnreversedCredits(L, t) :
              UnreversedCredits(L, t) = {c} /\ c.delta = pay

\* An operator's void posts its refund under generation 1 whatever was posted
\* before, so the discipline ends there.
BooksInOrder ==
  /\ ledger \subseteq LedgerRow
  /\ \A t \in Tickets : status[t] # "voided" => TicketBooks(ledger, t, status[t], payout[t])

IInv ==
  /\ marketStatus \in [Markets -> MarketStatuses]
  /\ matchClosed \in [Matches -> BOOLEAN]
  /\ TicketsTyped
  /\ PlansOwned
  /\ HoldsOwned
  /\ BooksInOrder

=============================================================================
