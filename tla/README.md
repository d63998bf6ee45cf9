# Oddzilla: a TLA+ model of bets, settlement and the money they move

Oddzilla is a sportsbook: a Fastify API (TypeScript) takes bets and cash-outs, Go services ingest
an odds feed, hold live bets for a delay, and settle tickets when results arrive, all over one
Postgres database. This directory models the part of the system where money changes hands, checks
it with TLC on small instances and proves the safety properties with TLAPS for every instance. All source
paths below are relative to the repository root.

## 1. The system

| Part | Code | State it keeps | Operations |
|---|---|---|---|
| Bet placement | `services/api/src/modules/bets` | `tickets`, `ticket_selections`, `wallets.locked_micro`, `wallet_ledger`, `riskzilla_bank_state.open_liability_micro` | place (idempotency key, wallet row lock, market and outcome checks, insert) |
| Bet-delay worker | `services/bet-delay` | the same rows | accept, accept at updated odds, reject with refund |
| Settlement service | `services/settlement` | market status, `market_outcomes.result`, `settlements` (the apply-once log), legs, tickets, wallets, ledger, match status | settle, cancel, both rollbacks, chunked ticket settlement, stranded sweep, match lifecycle, ladder inference |
| Cashout | `services/api/src/modules/cashout` | `cashouts` rows (the quotes), tickets, wallets, ledger | quote, accept (check, delay, re-check, commit), expiry |
| Admin void | `services/api/src/modules/admin/tickets.ts` | tickets, wallets, ledger | void an open ticket |
| Feed ingester | `services/feed-ingester` | matches, markets, outcomes, `amqp_state` (recovery cursors) | consume, reconnect (flush, rewind, recover), heartbeat gap, watchdog, source switch |
| Bifrost backup feed | `services/bifrost-feed`, `admin/feed.ts` | `feed_control`, snapshots in memory, the Redis stream `oddin.backup` | gate, re-emit, resync |
| Fonbet ingester | `services/fonbet-ingester` | matches, markets of a second provider | ingest, grade from final scores |
| Odds publisher | `services/odds-publisher` | published prices | margin cascade, publish |
| RiskZilla | `services/api/src/lib/riskzilla` | bank limit, open liability, scores | decide on a bet |
| Withdrawals | `modules/wallet/routes.ts`, `admin/withdrawals.ts` | `withdrawals`, wallet locks, ledger, bank limit | request, cancel, approve, reject, submit, confirm, fail |
| Deposits | `services/wallet-watcher`, `admin/deposits.ts` | `deposit_intents`, `unattributed_deposits`, the scan cursor, linked addresses | discover, confirm, credit, reject; manual credit |
| SlotZilla | `services/slotzilla`, `api/src/lib/slotzilla`, `admin/slotzilla.ts` | games, spins, stored play-by-play, the engine's memory | place a spin; poll, settle, void, end; pause, resume, void |
| outboxes, ws-gateway, clients, support, signer, metrics | other directories | their own tables or none | see section 9 |

How they meet. The services that move money share rows and call nobody; they coordinate by `SELECT ... FOR UPDATE`
(placement and cashout on the wallet and ticket), `FOR UPDATE SKIP LOCKED` (settler chunks, cancels,
the bet-delay worker), unique keys with `ON CONFLICT DO NOTHING` (ledger and `settlements`), and
CHECK constraints on the wallet (`balance >= locked >= 0`). Feed messages come over AMQP and may be
repeated, delayed or contradicted by a rollback; the backup feed's come over a Redis stream, and the two
services agree on who speaks through the row `feed_control`.

What is hard:

- *A settle is not one transaction.* Phase 1 stores results and legs, then tickets are settled in
  chunks of their own, then the match is closed. A crash, a failed chunk or a row skipped because
  it was locked leaves tickets behind that only the sweep picks up (`settler.go` 272-560).
- *A ticket may be settled more than once.* Rollback reverses a credit and re-opens the ticket; the
  next credit needs a new ledger key, and a collision is silent (`store.go` 950-1010).
- *Placement and bet delay check state they did not lock* and insert or accept afterwards.
- *A row is taken by one who settles nothing*: a void or a cashout locks a ticket of any status before it refuses, and
  a cancel passes it by meanwhile.
- *Cashout prices a ticket, waits, prices again and only then opens the transaction that pays.*
- *Several writers keep running sums* (`locked_micro`, `open_liability_micro`) that must equal a sum over tickets.
- *Payout arithmetic* exists three times: TypeScript at placement, Go at re-price, Go at settlement.
- *The ladder pass invents results*: it settles a line no message named, from its sibling lines.
- *The watcher asks a node three questions about a chain that moves between them* (head, receipt, block
  hash), and scans each block once.
- *Locked money is shared*: stakes and withdrawal requests lock parts of one balance, a fee is not locked,
  and a rollback may ask for winnings that are gone.
- *SlotZilla's engine works on a copy of the game row*, keeps part of its state in memory, and lists the
  open spins before it ends a game.
- *A switch of feeds is a handshake over polled rows*: flush, acknowledgement, activation, replay, each of
  which may fail, come late or be overtaken.

What makes each part correct: placement never overdraws; a ticket's lock, exposure and promise agree
with its row; a settled ticket is credited once, whatever was rolled back before; the wallet equals the
sum of its ledger; nobody touches a row another transaction holds; a ticket on known results is settled
eventually; a cashout and a settle never both pay; a refund is the stake and a better result never pays
less; an inferred line has the only result the known lines allow; a deposit is credited once, when it is
confirmed, and eventually; what is locked stays covered whoever spends; a spin settles on stored events after
its last window, and nobody lifts an operator's pause; no bettable price outlives the news it missed, and the
offer comes back after every outage.

## 2. Modules

| Module | Models | Extends |
|---|---|---|
| `Settlement` | placement, bet delay, admin void, feed status and price, every settlement operation; the ledger | Integers, FiniteSets, FiniteSetsExt |
| `TicketAccount` | what the books promise of one ticket; the abstract specification every ticket of `Settlement` implements | Integers |
| `Payout` | the payout functions of the five bet types, promise and re-price, as operators | Integers, Sequences, FiniteSets, Functions |
| `MCSettlement` | model values, tickets, prices and payouts for TLC | `Settlement` (and an instance of `Payout`) |
| `SettlementProofs` | the theorems about `Settlement`: the books of one ticket, then the sums over many | `Settlement`, `SumTheorems` |
| `SumTheorems` | what the proofs need to know of sums and products over finite sets | Functions, FiniteSetTheorems, TLAPS |
| `Cashout`, `MCCashout` | quotes and their acceptance, composed with the whole of `Settlement` | `Settlement`, Functions (and an instance of `Payout`) |
| `Grading`, `MCGrading` | enumeration of results of a two-leg ticket, to check `Payout` | `Payout` |
| `Ladder`, `MCLadder` | the ladder inference pass and the feed it infers from | Integers, FiniteSets, FiniteSetsExt |
| `Withdrawals`, `MCWithdrawals` | withdrawals, composed with the whole of `Settlement` on shared wallets | `Settlement` (`MCSettlement`) |
| `Escrow` | what a wallet promises; the abstract specification `Withdrawals` implements | Integers, FiniteSetsExt |
| `Deposits`, `MCDeposits` | the chain, the watcher's tick and the operator | Integers, Sequences, FiniteSetsExt |
| `SlotZilla`, `MCSlotZilla` | one fixture: spins, the engine's poll, the operator | Integers, FiniteSetsExt |
| `FeedSwitch`, `MCFeedSwitch` | feed-ingester, bifrost-feed and the switch between them, for the offer of one market | Integers, Sequences |
| `CashoutProofs`, `WithdrawalsProofs` | the theorems about the two compositions | `Cashout` or `Withdrawals`, and `SettlementProofs` |
| `ResultProofs` | the theorems about payouts and inferred results | `Grading`, `Ladder`, `SumTheorems` |
| `DepositsProofs`, `SlotZillaProofs`, `FeedSwitchProofs` | the theorems about these three | their module, and `SumTheorems` or SequenceTheorems |

### Settlement

`status`, `payout`, `placedAt`, `potential` are columns of `tickets`, `leg` and `odds` of
`ticket_selections`; `marketStatus`, `outcomeResult`, `price`, `matchClosed` come from `markets`,
`market_outcomes` and `matches`; `wallet`, `ledger`, `openLiability` and `settlements` from the tables of
those names. `job[s]` is the program counter of one
settler goroutine: the tickets it has still to settle, the rows its open transaction holds, and the
payouts it computed (`plan`) when it read them. `hold[t]` is the other transaction that has a ticket's row FOR
UPDATE (the bet-delay worker with what it decided, an operator's void, a cashout), and `passedBy` is history: the
tickets a cancel or a rollback could not lock while it graded their legs.

| Action | Code |
|---|---|
| `PlaceValidate`, `PlaceCommit` | `bets/service.ts`: the checks, and the insert at the end of the same transaction; they are two steps because the markets checked are not locked |
| `BetDelayTake`, then `BetDelayAccept`, `BetDelayReprice` or `BetDelayReject` | `bet-delay/internal/worker/worker.go`: the row is locked and the decision made on markets that are not, then it is committed |
| `VoidTake`, then `AdminVoid` or `VoidRefused` | `admin/tickets.ts` |
| `HoldFails` | the transaction of the worker or of the operator fails |
| `FeedOddsChange` | the effect of the feed ingester on status and price |
| `SettlePhase1`, `ChunkBegin`, `ChunkCommit`, `CloseMatch` | `applyMarketSettle`, `settleTicketsInParallel` and `settleTicketsSequential`, `settleTicketChunk` with `maybeSettleTicket`, `MarkMatchClosedIfAllMarketsTerminal` |
| `MarketCancel`, `MarketCancelSkip` | `applyMarketCancel` |
| `MarketRollback` | `applyRollback` for either message type |
| `ReconcileStranded`, `ReconcileMatchLifecycle` | the sweeper passes of `main.go` |
| `TxError`, `Crash` | a transaction of the settler that fails; the settlement process dying |
| `Tick` | time passing, for the windows of cancels and the full-payback window of cashout |

The ledger is a set of rows with the unique key (type, ticket, generation); generation 1 is the code's
bare ticket id, generation *n* its suffixed form. `InsertUnlessExists` is `ON CONFLICT DO NOTHING`.
`WalletCheck` is the CHECK constraint: a transaction that would violate it does not happen.

`TicketAccount` follows one ticket: not placed, open, paid, ended. `TicketsAreAccounts` maps its phase to the status,
what it is worth to the payout column, its net to the sum of its ledger rows, and shows the code's one exception: the refund
of a void is not booked where an older, reversed refund holds the bare ticket id. It says more than the sum of
a wallet, in which the errors of two tickets could cancel.

Not in `Settlement`, on purpose: side projections written in the settle transaction (push, bell,
community feed, analyses, achievements) touch none of its state; `bank_limit` is not moved by a settle
since migration 0049; RiskZilla's decision, per-bettor price adjustment and the BetBuilder session check
only refuse a bet or choose its price; in the model a placement may happen or not, at the published price; an outcome that is inactive or unpriced is folded into `Bettable`; a message names one market (the
code loops over them, one transaction each); the not-before time of a delayed bet only chooses when.

### Payout and Grading

`ComputePayoutOf` dispatches on the bet type: single, combo (with void factors and boost), tiple, tippot,
betbuilder. Stored odds are integers scaled by Q, as NUMERIC(…,4) scales by
10000. The Go code multiplies in float64 and floors after adding 1e-9; the model computes with exact
numerators and denominators and floors once, so floating-point error is outside it. `PlacementPotential` rounds the product of the odds half up before the floor, as
`money.ts` does; `RepricePotential` truncates, as the bet-delay worker does. `Placed` is the ticket as placement
writes it: the boost multiplier goes through `toFixed(2)` (`FreezeBoost`, which rounds half up on the exact
decimal), the potential does not. `Settlement` takes `ComputePayout`, `Potential` and
`Reprice` as CONSTANT operators, so its proofs hold for any payout function with values in `Nat`; that the code's
functions are such is `PayoutsMeetAssumption`.

### Cashout

`GetQuote` and `QuoteExpires` are one action each. Acceptance is a step per database round trip:
`AcceptBegin` (the checks, without locks), `AcceptRecheck` after the delay, `MarkQuote` for the error
paths, and the transaction: `AcceptLock` takes the quote and the ticket's row in whatever status, `QuoteTaken` finds the quote
gone, then `AcceptCommit` pays or `AcceptRolledBack` gives up. Two clients run it at once, on the same quote or
on two, while everything `Settlement` does goes on. The offer is the probability-weighted payout with
the 1/price fallback for the probability; the deduction ladder and the configuration cascade, which scale
it, are left out.

### Ladder

A family is a set of totals or handicap lines graded on one hidden integer, `number`, which only the
feed's actions read; `result` is what the feed and earlier passes settled. `ReconcileLadderLines` is the query
that starts a pass, `ReconcileLine` the visit of one candidate, with the feed settling lines in between. `Decides` and
`InferLine` compute the interval of numbers the settled siblings allow and settle a line whose result is
the same at both ends. The settle itself goes through `applyMarketSettle`, which is what a member of
`Consumers` does in `Settlement`.

### Withdrawals and Escrow

One action per route, each a transaction that locks the withdrawal row; the ones that write the wallet wait
for a placement that holds its row (`WalletFree`). `Next` of `Settlement` goes on beside them, so bets are
placed, won and rolled back on the same wallet. `MarkConfirmed` debits amount and fee, although only the
amount was locked: `ConfirmFits` is the route's check and the CHECK of the table. A refused request and a
failed one both end as `failed`, as in the code.

`Escrow` knows free money, open holds and what an ended hold was worth. `WalletIsEscrow` maps `free` to
balance minus locked, `held` to the open tickets and requests, `worth` to payouts, refunds and the fee of a
confirmed withdrawal. A step of the code that lends, keeps or takes money that was not free is no step of it.

### Deposits

`chain` is what the node answers; `MineBlock` and `Reorg` are external. Every call to the node is a step of
the watcher: `DiscoverBegin` (head, cursor), `ScanUsdc`, `ScanWrongToken` (which moves the cursor),
`ListPendingIntents` (the head for the walk), `Inspect` (receipt and threshold), `VerifyCanonical` (block
hash); `CreditIntent` is the transaction after it, and a fork may come in between. `WatcherError` is a failed call or a restart at any of them. `CreditManual`,
`AdminReject` and the two acknowledgements are the operator's routes; `LinkAddress` and `UnlinkAddress` the
bettor's. A log's position counts in its block, so a transaction mined again may have other log indexes.
`skipped`, `late` and `began` are history: transfers of unlinked senders, blocks put below the cursor, and the
cursor discovery started with, below which nothing is ever read.

### SlotZilla

`game`, `spin`, `stored`, `totals` are tables, `mem` the engine's struct, `job` where its poll is: `PollBegin`
(the row is read), `FetchOk` or `FetchFails`, `ResumeServicePause`, `StoreEvents`, `UpdateClock` (which lists
the spins to settle), `SettleOne`, `SettleDone`, `VoidOne`, `VoidDone` (end, void or pause the game). Between
any two of them a spin is placed or the operator pauses, resumes or voids. `StatementFails` follows the error path
of each statement, `Restart` loses `mem`. The fixture (`Tick`, `Whistle`, `Log`) moves between polls, since a
poll works on one document and one reading of the time. Timestamps are kept as ages, capped where the code no
longer tells two apart.

### FeedSwitch

The offer is one market; `offer.by` says who wrote it last: a flush of the switch, of an OnConnect hook or of the
watchdog, a first delivery of AMQP, a redelivery, or the backup. `amqp` is Oddin's side (connection, queue, messages to
be redelivered, a replay on its way, whether the recovery cursor stands rewound), `ing` the ingester's switch goroutine,
its watchdog and the flags they share with the consumer, `bif` the gate and runner of bifrost-feed, `reported` the
status hash in Redis. `runSourceSwitch` is split at every call (`FlushIn`, `AckFlush`, `FlushOut`, `RecoverOut`,
`ResumeOut`), OnConnect into `HookBegin` (whose turn it is), `HookFlush` and `HookRecover`, the watchdog into
`WatchdogCheck` and `WatchdogFlush`: nothing is locked between a check and its flush, which may take a minute.

A handler may fail: `Deliver` then leaves the message in `amqp.again`, and `Redeliver` applies it after whatever was
prefetched, or fails again. `PublishStatus` refreshes the hash from the socket, `StatusGrowsOld` is a heartbeat that is
missing or too old, and `Verdict` reads the hash, not the socket. Publishing to the stream and applying an entry may
fail too (`Publish`, `ApplyStream`), and a process that cannot read the row at boot takes it for auto (`Adopted`).
A delivery of another market moves the cursor as well, so a replay after a heartbeat gap need not cover this one
(`AskReplay`). Thresholds of time are flags the environment sets (`GoQuiet`, `FlushWaitOver`), in the order the
code's constants give them. `lost` is history: a replay due was lost, narrow or not asked for, or a connection
came back with neither flush nor replay, or a price survived failed flushes. `spent.owed` is history too: the last
acknowledgement of a flush failed, or the publishing or applying of its answer did.

## 3. Runs

Passing:

| Run | Instance | Shows |
|---|---|---|
| `SettleOneMarket` | 2 tickets, 1 market, a consumer and a sweeper, worker and operator, 4 applied messages, 1 fault, `FairSpec` | `OneLiveCredit`, `LedgerReconciles`, `LockedIsOpenStakes`, `SettledMatchesLegs`, `HeldRowsAreStable`, `LifecycleOnlyForward`, the refinement `TicketsAreAccounts`, `StrandedTicketsSettle`, `TypeOK` |
| `BetDelay` | a single and a combo open at once on 2 markets, 3 prices, 2 price moves, 5 % drift tolerance, one leg exempt from it, cancels with a time window | `PotentialMatchesLegs`: promise and stored odds stay in step through a re-price; `OpenLiabilityExact`: the exposure follows |
| `Grading` | every pair of results and factors on tickets of the five types, Q = 10, boosts up to 3/2, with and without a decimal that `toFixed` drops | `RefundIsStake`, `WinPaysPotential`, `BetterLegNeverPaysLess` |
| `Ladder` | totals 0.5, 1, 1.25, 1.75, 2 and handicaps -1, -0.75, 0, 0.25, 1.5; the feed may void whole and half lines | `InferenceIsNoGuess`, `IntervalIsExact` (testing the ends decides exactly what enumerating every number decides) |
| `Cashout` | 1 ticket, 2 quotes, 2 clients (symmetric) | `CashoutTypeOK`, `PaidOnce`, `OpenLiabilityExact` |
| `Withdrawals` | 1 wallet of 20, 2 tickets, requests of 10, 25 and 5 with a fee of 5, at most 2 pending | `MoneyAddsUp`, the refinement `WalletIsEscrow`, `WithdrawalTypeOK` (with `NeverOverdrawn`: what is locked is covered) |
| `Deposits` | a transaction that may pay twice, send the wrong token or revert; 4 blocks, forks of depth 2, 2 confirmations, 1 error; `FairSpec` | `MoneyFollowsLedger`, `ScanIsComplete`, `CreditIsConfirmed`, `ConfirmedIntentsEnd`, `TypeOK` |
| `SlotZilla` | 1 spin, a play that is corrected within or across windows, windows of one second, a match of four, 1 fault | `MoneyMatchesSpins`, `OpenSpinsArePolled`, `ServicePauseIsRemembered`, `OperatorPauseHolds`, `NothingSettlesEarly`, `SettledOnStoredEvents`, `TypeOK` |
| `FeedSwitch` | 1 price move, 1 switch, 1 fault | `NoStalePrice`, `BackupFillsOffer`, `AmqpFillsOffer`, `TypeOK` |

Expecting a violation, each of one property that quotes a line of the repository (section 5 says what happens):

| Run | Property | The text is in |
|---|---|---|
| `PassedBy` | `CancelIsPickedUp` | `settlement/internal/settler/settler.go` 909-910 |
| `CashoutDrift` | `DriftIsZero` | `docs/OPERATIONS.md` 355 |
| `DepositReorg` | `CreditedAtMostSent` | `wallet-watcher/internal/store/store.go` 324 |

Thirteen more configurations beside them are of the same kind: TLC refutes each one's single property. They are not
in the run list of `PROJECT.json`, which is kept short; `tlc -config X.cfg M` repeats each in seconds.

| Configuration | Module | Property | The text is in |
|---|---|---|---|
| `VoidBooked` | `MCSettlement` | `VoidsAreBooked` | `docs/SCHEMA.md` 331 |
| `BoostedRefund` | `MCGrading` | `BoostOnlyOnWinnings` | `settlement/internal/settler/payout.go` 113-114 |
| `LadderVoid` | `MCLadder` | `NothingIsAGuess` | `settlement/internal/store/ladder.go` 26 |
| `CashoutLostLeg` | `MCCashout` | `LostLegIsRefused` | `cashout/service.ts` 270-271 |
| `CashoutTwoTabs` | `MCCashout` | `WinnerStaysAccepted` | `docs/PHASES.md` 581-583 |
| `SlotEnd` | `MCSlotZilla` | `EndedWithNoneOpen` | `slotzilla/internal/engine/engine.go` 676-677 |
| `SlotDark` | `MCSlotZilla` | `FeedBackLiftsPause` | `slotzilla/internal/engine/engine.go` 554-555 |
| `SlotReplay` | `MCSlotZilla` | `SettledSpinReplays` | `docs/SLOTZILLA.md` 30-31 |
| `FeedReconnect` | `MCFeedSwitch` | `FlushedOnConnect` | `feed-ingester/cmd/feed-ingester/main.go` 1033, 1049-1050 |
| `FeedRequeue` | `MCFeedSwitch` | `RequeuedIsNewest` | `feed-ingester/cmd/feed-ingester/main.go` 1035 |
| `FeedWatchdog` | `MCFeedSwitch` | `WatchdogIsUndone` | `feed-ingester/cmd/feed-ingester/main.go` 808-810 |
| `FeedCursor` | `MCFeedSwitch` | `CursorStaysRewound` | `feed-ingester/cmd/feed-ingester/main.go` 1226-1228 |
| `FeedHandOff` | `MCFeedSwitch` | `SwitchBackRefills` | `feed-ingester/cmd/feed-ingester/main.go` 1052 |

One more passes: `FeedOffer` (module `MCFeedSwitch`, 1 switch, 1 fault, no price move, `FairSpec`) checks the liveness
`OfferComesBack`, of which `AmqpFillsOffer` is the safety part.

Passing and failing properties come in pairs. A property that holds names the known ways it is lost, as an explicit term or
a history variable, and any other way is a violation of it; the known way itself is the subject of a configuration that
expects a violation, where a text of the repository denies it. So `SettledMatchesLegs` exempts `passedBy` and
`CancelIsPickedUp` shows it; `LedgerReconciles` and `MoneyAddsUp` have the term `VoidUnbooked`, shown by `VoidsAreBooked`;
`BetterLegNeverPaysLess` exempts `BoostGivenUp`, next to `BoostOnlyOnWinnings`; `InferenceIsNoGuess` exempts `FalsePush`,
shown by `NothingIsAGuess`; `OpenSpinsArePolled` (`loose`), `ServicePauseIsRemembered` (`forgot`) and
`SettledOnStoredEvents` (`missed`) go with the three SlotZilla configurations; `NoStalePrice` (a used hand-off flag, a redelivery, failed flushes)
with `FlushedOnConnect` and `RequeuedIsNewest`; `BackupFillsOffer` (a flush of the watchdog or of a hook,
`spent.owed`) with `WatchdogIsUndone`; `AmqpFillsOffer` (`lost`, a flush of the
watchdog) with `SwitchBackRefills`, `CursorStaysRewound` and `WatchdogIsUndone`.
`ScanIsComplete` exempts `late`, which no text denies.

### Bounds, and why they are enough

`MaxApplied` bounds the fresh rows of `settlements` (replays are free), `MaxMoves` price moves, `MaxFaults`
failures and crashes, `MaxClock` the placement clock. Four applied messages reach settle, rollback, cancel and the
rollback of the cancel: two generations and a type change of the credit, which is where keys could collide; one fault at any point
reaches every half-done state, since recovery starts from the tables alone. Two tickets are what a
shared wallet, a shared chunk and a skipped row need. With the wallet of 20 in `SettleOneMarket` both stakes (10 and
20) are open together only after a win; `BetDelay` opens with 30 and has both. Deadlock is checked where a sweeper runs
on one market (`SettleOneMarket`), in `Grading`, in `Ladder`, where the pass always may run again, and in `Deposits`
and `FeedSwitch`, whose loops never end; the other settlement
runs end when their bounded messages are used up, and a SlotZilla game ends, so they say
`CHECK_DEADLOCK FALSE`.

`Withdrawals`: an opening balance of 20 makes the request of 25 possible only after a win, and a rollback of
that win then meets money that is gone; three requests meet the limit of two pending. `Deposits`: four blocks
with forks of depth 2 are a transfer seen, replaced, mined again and confirmed; `MaxBlockRange` 2 makes a scan
stop below the head; with `StartBlock` 0 and a lookback of 1 discovery may begin above the first blocks. `SlotZilla`: a round of three one-second windows after a lead of one second needs a match of
four; `FeedDarkVoidSeconds` 2 lets the feed go dark while the spin is open; the two reports of the event fall
in the first and second window, so that a correction changes two reels. One spin suffices for every race with
the engine and the operator; the sums over spins are then sums of one term, and the limits per user and per
match never refuse. `FeedSwitch`: each bound is one, and the run boots in either source, so a
switch into and a switch out of backup are each met with every fault; two switches in a row are not, and for the
safety properties the proofs cover them (section 6). `MaxStream` 1 bounds the stream entries not yet applied: with one
market a second entry is the first with newer odds. `FeedOffer` needs no price move, since what it asks is whether
anything is bettable. The position `prod` differs from `auto` only in that the gate never opens; it is used where the
backup must keep out (`FeedWatchdog`, `FeedCursor`, `FeedHandOff`). `Grading`: Q = 10
and `BoostUnit` 2 make one digit of odds and one step of a frozen boost; a stake of 250 is large enough that the
rounding of the product moves a payout by 13 micro-units, which is all that `WinPaysPotential` allows, so its bound is
tight.

### Fairness

`FairSpec` assumes weak fairness of `PlaceCommit`, `ChunkBegin`, `ChunkCommit`, `CloseMatch`, and of the end of what
the worker or an operator took (a transaction that began ends, a goroutine with work goes on) and of the two sweeper passes, which
`services/settlement/cmd/settlement/main.go` (240-288) drives by a ticker for the life of the process. Nothing is assumed of feed
messages, bettors, operators, or of faults not happening; faults are bounded in number.

`FairSpec` of `Deposits` assumes weak fairness of the watcher's next step, which the ticker of `runLoop`
(`services/wallet-watcher/cmd/wallet-watcher/main.go` 121-139) drives, and that blocks keep coming up to the
bound; errors are bounded, nothing is assumed of operators.

`FairSpec` of `FeedSwitch` assumes that the goroutines of both services and their tickers run (switch poll,
watchdog, status hash, gate, resync), that a broken connection can be dialled again and then delivers and redelivers,
that heartbeats come over an open one and that Oddin answers a recovery it accepted. Odds, operators and faults owe nothing.

## 4. Hazards

`PROJECT.json` lists them with their lines and the properties that would catch them. A property that has a hazard as
its named exception does not catch it, and is not listed for it. Without a property, and with a note, are therefore:

- the hazards that do strike, each shown by a configuration of section 3: the unbooked void, the lost leg and the
  second tab of a cashout, the voided whole line, the spin left open, the missed window, the forgotten pause, the
  hand-off flag, the lost replay, the requeued message and the late flush of the watchdog;
- a block that a fork puts below the cursor (`late` of `ScanIsComplete`), which no text denies;
- two that wait for the next module: the rollback of a line after its siblings were inferred from it, and the results
  a rollback leaves in place.

Not in the list: a rollback reopens a market of a match that stays closed (`settlement/internal/store/store.go` 58; no
text says otherwise); a withdrawal marked failed after it was sent may still be mined (`admin/withdrawals.ts` 377; the
broadcast is made by hand and nothing watches it); a late stream entry can overwrite newer AMQP odds, because the upsert
keeps the newest timestamp but the last status and price (`feed-ingester/internal/store/markets.go` 287; in the model
such a price is the backup's, of which `NoStalePrice` says nothing); float64 error in a payout (`payout.go` 102, computed
exactly here); and the limit of 200 intents in one walk (`processor.go` 105).

## 5. Where the code and its texts disagree

With a run:

- `DepositReorg`. The unique key of the ledger is called the double-credit guard
  (`wallet-watcher/internal/store/store.go` 324, `services/wallet-watcher/README.md` 26). It guards an intent. A
  transaction that was scanned and that a fork of a single block moves to a later block, at another log index, is
  scanned again as a second intent; the receipt is asked for by transaction and not compared with the intent's log
  index or block, so it confirms both, and one transfer is credited twice.
- `PassedBy`. A cancel skips a settled ticket whose row is locked; the comment (`settler.go` 909-910) says the holder's
  settle will pick the cancel up. The ticket is settled, so no settle takes it again, and the holder may be a void or a
  cashout, which settle nothing: the legs say void and the payout stays. One settler is enough.
- `CashoutDrift`. The drift of the reconciliation query "must be zero per currency" (`docs/OPERATIONS.md` 355). The row
  of a cashout is net of the stake (`cashout/service.ts` 362), which the row of the placement already took off, so every
  cashout leaves its stake as drift; `DriftIsCashedOutStakes`, a theorem, says it leaves no more than that.

With a configuration of section 3:

- `VoidBooked`. A void is to write its refund (`docs/SCHEMA.md` 331); it uses the bare ticket id, and where an earlier,
  reversed refund holds that key no row is written (`admin/tickets.ts` 145).
- `BoostedRefund`. "Boosts only apply to actual winnings" (`payout.go` 113-114); the boost also multiplies part refunds
  unless every leg is void. Above 4/3, a combo of a lost leg refunded by three quarters and a void pays more than with
  both legs void. The defaults are 1.03 to 1.12, the configuration accepts up to 5.
- `LadderVoid`. "Nothing here is a guess" (`store/ladder.go` 26); a whole line voided for a reason other than a push is
  read as a push (`settler/ladder.go` 283), and its siblings are settled on that number.
- `CashoutLostLeg`. An offer with a lost leg is to be rejected (`cashout/service.ts` 270-271); the transaction does not
  read the legs (295), and one lost after the re-check is paid at the quote.
- `CashoutTwoTabs`. Of two accepts "one wins, the other gets `quote_accepted`" (`docs/PHASES.md` 581-583); the loser's
  error paths (`cashout/service.ts` 211 and 283) overwrite the accepted quote's status.
- `SlotEnd`. "The game ends when none is left open" (`slotzilla/internal/engine/engine.go` 676-677); a spin placed after
  the list, or whose void failed, is open on the ended game.
- `SlotDark`. The pause is lifted "once the feed answers again" (`engine.go` 554-555); not after a restart during it, or
  when the statement that lifts it failed.
- `SlotReplay`. "A settled spin can be replayed from the stored events" (`docs/SLOTZILLA.md` 30-31); when the clock
  update fails after the events were stored, the windows miss them.
- `FeedReconnect`. "Suspend-before-recover is unconditional" (`feed-ingester/cmd/feed-ingester/main.go` 1033) and the
  hand-off flag "cannot mis-fire" (1050). When the connection outlived the backup period no dial follows the switch,
  and the flag makes a later, unrelated reconnect skip flush and recovery.
- `FeedRequeue`. "A single placement at stale odds is a real-money loss" (main.go 1035); a message whose handler failed
  is requeued (`internal/amqp/consumer.go` 238-242) and applied after newer ones, with no timestamp to stop it.
- `FeedWatchdog`. "Re-activation rides the existing recovery paths" (main.go 808-810); a flush the watchdog began in
  the silence may land after the reconnect's replay, on a connection that shows no gap.
- `FeedCursor`. dropAMQP stays set so that nothing narrows the rewound window (main.go 1226-1228); the backup stream's
  consumer is another goroutine, does not look at the flag, and moves the cursor.
- `FeedHandOff`. "Flush + recovery already issued by the switch" (main.go 1052); the replay came before there was a
  queue, or while deliveries were still dropped.

Visible in the models without a property of their own:

- A result sent again after its rollback is taken for a replay and changes nothing (`settler.go` 1268;
  1038 says future settles can re-apply): the rows of `settlements` are never removed.
- After a watchdog suspension on an open connection the alive-gap recovery asks from a cursor nobody rewound
  (main.go 808-810), and a slow consumer shows no gap at all (`Stall`).
- A forced backup "should mean we do not talk to Oddin's broker, full stop" (`internal/amqp/consumer.go` 68);
  `Paused` is looked at before a dial only, and an open connection is kept (`Dial`).
- An operator's resume is to go "back to live if the match had tipped off" (`admin/slotzilla.ts` 402); it tests
  for a clock reading, which the feed also gives before tip-off (`AdminResume`).
- `max_payout_micro` bounds the exposure booked for a spin (`rules.go` 334), not its payout (`PayoutMicro`).
- The header of `admin/withdrawals.ts` (6) names a status rejected; the route writes failed.
- A rollback leaves `market_outcomes.result` in place (`store.go` 237 relies on NULL): `MarketRollback`
  leaves `outcomeResult` alone, so a placement on the reopened market is refused.
- The promise at placement rounds the odds before it floors, and can exceed stake times odds
  (`money.ts` 91 and 103): `Quantise`.
- A boost multiplier may be configured with four decimals (`admin/combi-boost-config.ts` 18) and is promised so, but is
  frozen with two (`bets/service.ts` 885), so a multiplier of 1.025 settles as 1.02 or 1.03. The first conjunct of
  `WinPaysPotential` is therefore about tickets with `Placed(bet) = bet`; the screen that edits the configuration
  steps by 0.01.

## 6. Proofs

Every theorem holds for all values of the constants under the ASSUMEs of its module, which TLC evaluates in every
run; bounds such as `MaxApplied` or `MaxFaults` are constants too, so none of them limits a theorem. The
assumptions are shapes: finite sets of tickets, requests, spins and transactions, positive stakes and amounts, and
payout functions with values in `Nat` (`PayoutAssumption`).

| Module | Theorem | States |
|---|---|---|
| `SettlementProofs` | `TypeCorrect`, `NoDoubleCredit`, `Lifecycle`, `HeldRowsStay` | `TypeOK`, `OneLiveCredit`, `LifecycleOnlyForward`, `HeldRowsAreStable` |
| | `LockedExact`, `LedgerExact`, `LiabilityExact`, `Solvent` | `LockedIsOpenStakes`, `LedgerReconciles`, `OpenLiabilityExact`, `NeverOverdrawn` |
| | `PaidFromStoredOdds`, `PaidWhatLegsSay` | `PotentialMatchesLegs`, `SettledMatchesLegs` |
| | `EveryTicketIsAccount`, `AccountsKept` | every ticket implements `TicketAccount`; `TicketsAreAccounts` |
| `CashoutProofs` | `CashoutTypes`, `CashoutPaysOnce`, `CashoutLiability`, `CashoutDrift` | `CashoutTypeOK`, `PaidOnce`, `OpenLiabilityExact`; `DriftIsCashedOutStakes`, the size of the drift `CashoutDrift` shows |
| `WithdrawalsProofs` | `WithdrawalTypes`, `WithdrawalBooks` | `WithdrawalTypeOK`, `MoneyAddsUp` |
| | `EveryWalletIsEscrow`, `WalletRefinesEscrow` | every wallet implements `Escrow`; `WalletIsEscrow` |
| `DepositsProofs` | `TypeCorrect`, `BooksBalance`, `ScanComplete`, `OnlyConfirmedCredited` | `TypeOK`, `MoneyFollowsLedger`, `ScanIsComplete`, `CreditIsConfirmed` |
| `SlotZillaProofs` | `SlotTypes`, `SlotMoney`, `SpinsArePolled`, `PauseIsRemembered` | `TypeOK`, `MoneyMatchesSpins`, `OpenSpinsArePolled`, `ServicePauseIsRemembered` |
| | `OperatorIsObeyed`, `NeverEarly`, `PaidOnStoredEvents` | `OperatorPauseHolds`, `NothingSettlesEarly`, `SettledOnStoredEvents` |
| `FeedSwitchProofs` | `FeedTypes`, `NoStaleAmqpPrice`, `BackupRefills`, `AmqpRefills` | `TypeOK`, `NoStalePrice`, `BackupFillsOffer`, `AmqpFillsOffer` |
| `ResultProofs` | `PayoutTyped`, `RefundsAreStakes`, `WinsPayPromise` | `TypeOK`, `RefundIsStake`, `WinPaysPotential` |
| | `BetterLegs` | `BetterLegNeverPaysLess` |
| | `InferenceExact` | `IntervalIsExact` |
| | `InferenceHonest` | `InferenceIsNoGuess` |
| | `PayoutsMeetAssumption` | the `PayoutAssumption` of `Settlement`, of the code's functions |

Each module has one inductive invariant, from which the rest follows by one implication, or for an action property
by one step; the theorems of `SettlementProofs` about payouts and accounts have their own, on top of `IInv`, and `ResultProofs`
has one for each of its two modules.

*Credits* (`IInv` of `Settlement`). `OneLiveCredit` says a ticket has at most one credit that no adjustment cancels.
That the next credit does not collide with an old one needs to know that a generation belongs to one
credit only and that none is above the number of credits: then the counted generation is fresh
(`NextGenIsFresh`). That is `TicketBooks`. That a settle hits a ticket with no live credit needs to know
that the rows a chunk planned for are held by it and still open when it commits: that is `PlansOwned`. That a
planned payout is one needs the argument types of `ComputePayout`: `TicketsTyped`. `BooksInOrder` says nothing of a
voided ticket, whose refund ignores the generations; void is final, so nothing is credited after it. The proof goes
bottom up: what an insert, a credit and a reversal do to one ticket's rows, what a step does that books nothing,
which steps keep the plans, one lemma per action, and `NextIInv`.

*Sums* (`MoneyInv` of `SettlementProofs`). `MoneyStep` says how far a step moves a wallet: by what it moves the open
stakes, and by what it moves the ledger. It is proved once (`StepMoney`) and used in three places, since quotes and
withdrawals leave the bets' part alone. It needs `IInv`: a row is added to the sum only if its key is new, and the
only key that is not is the refund of a void, which is the term `VoidUnbooked`. `Covered` carries `Solvent`: a stake
checked by `PlaceValidate` is still there at `PlaceCommit`, because the placement holds the wallet row and nobody
who takes money writes it meanwhile (`WalletFree`). `LegsInv` carries `PaidWhatLegsSay`: a plan
pays what its legs say when it commits, unless the legs were graded anew while its row was held, and then the ticket is
in `passedBy` (`PlansCurrent`). There is no hypothesis on the number of settlers.

*Accounts* (`AccountInv`: an open ticket stands at its stake, a settled one at its payout less the stake). One case per kind of
step: the placement enters (`EnterAccount`), a reject or void returns the stake (`ReturnAccount`), a settlement
transaction takes back and pays (`PostingAccount`, from the sums of the rows it posts for one ticket). That a settle
takes the bare id only of a ticket never credited needs that generations have no gap (`FirstGeneration`).

*Cashout* (`CInv`). `PaidOnce` is itself part of the induction: it makes the row of a cashout new when it is posted,
which `DriftIsCashedOutStakes` rests on. That the offer is a natural number needs a product of odds over any number of legs.

*Withdrawals* (`WInv`) adds to `Covered` that an open request was never debited. The refinement is one case per route
(`RouteEscrow`) and one per kind of step of the bets (`PlacementTakes`, `RefundMoves`, `PostingEscrow`): which holds
the step opens, ends or takes back, and that the free money moves by just that. `WalletIsEscrow` follows the one wallet
`TheWallet`; `EveryWalletIsEscrow` proves it of each.

*Deposits* (`IInv` of `DepositsProofs`). `CreditIsConfirmed` needs `VerifyOK`: what the walk remembers of an intent is
still true if the block's hash is unchanged, because hashes are not used again and a transaction is in the chain once
(`ChainOK`, kept by a fork of any depth: `ReorgChain`). `ScanIsComplete` needs `ScanOK`, about the range under scan.

*SlotZilla* (`SInv`) says what each statement of a poll owes the next: the list of spins to void misses only the loose
ones (`Polled`), the row read before the fetch still says whose pause it is (`Remembered`), what was final when listed
stays final (`Timely`), the copy in memory is behind the stored events by ages only (`Mirrored`); and `Money`.

*FeedSwitch* (`FInv`): which mode of the switch allows which flag (`Modes`), a queue ends with the newest odds
(`Carried`), acknowledgements are numbered (`Acknowledged`), a price that survived both flushes of a switch and back is
marked (`Survivor`), the runner answered the latest acknowledgement (`Refilled`). The exceptions
are named in the statements: for `NoStalePrice` a redelivery, a connection that used the hand-off flag and a price that
survived failed flushes; for `BackupFillsOffer` a flush of the watchdog or of a hook begun before the switch, and an
answer that was not acknowledged, published or applied (`spent.owed`). `AmqpRefills` adds `Awaited` to it: while the
offer is dark on an applied connection that lost nothing, a replay is owed by somebody, the hook, the switch, Oddin or
the queue (`RequestIsAnswered`, `AwaitedStep`).

*Payouts* (`GradingInv`: the ticket is one of `Bets`, its legs are graded). The weight is in the arithmetic. Products
over any number of legs are compared factor by factor, by the induction over sets of `SumTheorems`; of a quotient only its bounds
and its monotonicity are used. A refund of a combo is exact because the product of full voids is `ProductUnit`, and cancels.
A win compares three roundings of one rational: half up at 1/Q, down at 1/Q^2, and not at all (`TruncationSlack` for the
re-price). For
`BetterLegs` the worth of a leg is non-decreasing in its rank; the only drop left is the boost that
vanishes when the last leg becomes void, and 4/3 is where three quarters times the boost reach one. The statement
exempts just that re-grading (`BoostGivenUp`: a boost above 4/3, and the leg that becomes void is the last), so it holds for
every boost the configuration accepts.

*Ladder* (`LadderInv`). `gradeHigh` is brought to a closed form, of which it is plain that the grade does not fall as
the number rises; so the numbers that explain a settled line are an interval, and so are those that explain several
(`ConsistentInterval`). Two equal ends
then pin what is between, and an end that is consistent is a witness that something is possible. `InferenceHonest`
needs in addition that the pass works on lines found earlier: what a query found stays true of the number while the feed
goes on (`Honest` in `LadderInv`), and the true number explains every line settled so far, inferred ones included, as long as no
void reads as a push of another number (`FalsePush`). Which lines the feed may void is not restricted.

`SumTheorems` is about the fold the sums are written with. The library's induction theorems take an operator as a
parameter, which the installed provers cannot instantiate; induction is done over sets here. The subsets on which a
statement fails, if any, have a smallest one, since strict inclusion of finite sets is well founded (`SmallestSet`,
`SubsetInduction`); a statement about sums is turned into the set of its exceptions.

Only model-checked: liveness (`StrandedTicketsSettle`, `ConfirmedIntentsEnd`, and `OfferComesBack` of `FeedOffer.cfg`), which
needs fairness and ENABLED, out of the prover's reach; and the violations. Every invariant and every action property
of the passing runs is stated by a theorem.

## 7. How to run

In this directory: `tlc -config SettleOneMarket.cfg MCSettlement` and so on (the module of each run is
in `PROJECT.json`); `tlapm SettlementProofs.tla` and so on for the other seven modules with theorems, each of which
takes from seconds to two minutes.

## 8. Plan

Done: `Settlement`, `Payout`, `Grading`, `Cashout`, `Ladder`, because the ledger
and the settlement cascade carry the most money and the most interleavings; then `Withdrawals` with `Escrow`,
`Deposits`, `SlotZilla` and `FeedSwitch`; then their safety properties as theorems, with the refinements of `Escrow`
and `TicketAccount`, and last the payout arithmetic and the ladder. Next, in order:

1. `Ladder` with rollbacks, composed with `Settlement`: inferred lines whose premise is taken back.
2. `RiskZilla`: the bank gate against the open liability that ticket and spin operations keep.
3. The outbox workers (claim, send, crash, resend) and Fonbet's grading.

## 9. Not modelled

Parsing of feed messages and automapping (data, no protocol state); margin cascade (a pure function of
configuration; its result is the `price` of `Settlement`); ws-gateway (fan-out, nothing durable); push,
email and achievement projections; web and Android clients, back office screens, support, mail receiver, banner
generator, metrics; the signer (stateless: it derives addresses and signs hashes). RiskZilla's decision, Fonbet and
the outboxes are in the plan above.

Left out of modelled parts: of withdrawals, account status, address syntax and the uniqueness of a hash; of
SlotZilla, demo games, edits of paytable and configuration during a game, velocity caps, the frames sent to clients
and the discovery of fixtures; of the feed switch, the settlements and results that come over the backup, more than
one market, fixture refresh and the phantom sweeps.

The models cover a small share of the repository's lines, and most of it cannot be covered by a state machine that
says anything: of some 175 000 lines the larger part is user interface (`apps/web`, `apps/mobile-android`,
back-office screens), read-only queries (`modules/catalog`, `modules/zillafacts`, `modules/community`), CRUD of
configuration with one writer, generated tables and seed data. The state that several actors change,
and where an order of steps can be wrong, is in the services named in section 1.
