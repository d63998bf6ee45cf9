----------------------------- MODULE SlotZilla -----------------------------
(***************************************************************************)
(* SlotZilla on one fixture: spins placed through the api, the engine that *)
(* polls the play-by-play feed and settles or voids them, and the operator *)
(* who pauses, resumes and voids the game.                                 *)
(*                                                                         *)
(* A poll is a sequence of database statements with the fetch among them;  *)
(* each one is a step, so that placements and the operator come in         *)
(* between. The engine's memory (mem) is lost by a restart, the tables are *)
(* not. Time and the fixture stand still during a poll, which takes one    *)
(* document and one reading of the time; a timestamp is kept as its age,   *)
(* up to the age beyond which nothing tells two apart. The feed and the    *)
(* matches row are external.                                               *)
(***************************************************************************)
EXTENDS Integers, FiniteSets, FiniteSetsExt

CONSTANTS
  Spins,          \* placements by idempotency key
  Users,
  UserOf,         \* spin -> user
  Stake,          \* spin -> stake_micro
  Currency,       \* spin -> "USDC" or "OZ"
  Opening,        \* balance a wallet opens with
  Events,         \* play-by-play events by Sportradar id
  Reports,        \* event -> what the scout may log for it: [second, symbol]
  NoReport,
  Paytable,       \* <<reels that agree, symbol>> -> multiplier x100
  MaxPayout,      \* slotzilla_config.max_payout_micro
  MatchCap,       \* match_liability_cap_micro
  WindowSeconds,  \* match-clock length of a window
  LeadSeconds, ClockPastSeconds, GraceSeconds, FeedDarkVoidSeconds,
  NeverStartedAfter,
  MatchSeconds,   \* match-clock length of the fixture
  MaxFaults       \* bound: failed statements and restarts

RoundWindows == 3
Wallets == Users \X {"USDC", "OZ"}
WalletOf(s) == <<UserOf[s], Currency[s]>>
Rank == [P3 |-> 6, P2 |-> 5, FT |-> 4, MISS |-> 3, FOUL |-> 2, NONE |-> 1]

ASSUME SlotAssumption ==
  /\ IsFiniteSet(Spins) /\ IsFiniteSet(Events) /\ IsFiniteSet(Users)
  /\ UserOf \in [Spins -> Users] /\ Currency \in [Spins -> {"USDC", "OZ"}]
  /\ Stake \in [Spins -> Nat \ {0}]
  /\ DOMAIN Paytable = {2, 3} \X DOMAIN Rank /\ \A l \in DOMAIN Paytable : Paytable[l] \in Nat
  /\ \A e \in Events : Reports[e] \subseteq [second: Nat, symbol: DOMAIN Rank]
  /\ NoReport \notin [second: Nat, symbol: DOMAIN Rank]
  /\ {WindowSeconds, MaxPayout, MatchCap, FeedDarkVoidSeconds} \subseteq Nat \ {0}
  /\ {LeadSeconds, ClockPastSeconds, GraceSeconds, NeverStartedAfter, MatchSeconds, Opening,
      MaxFaults} \subseteq Nat

VARIABLES
  now,        \* wall clock since the scheduled start
  play,       \* the fixture as the feed would describe it
  scout,      \* the play-by-play as the scout has it
  listed,     \* matches.status: "live" (or not started), "closed", "cancelled"
  game,       \* the slotzilla_games row
  totals,     \* its stake and payout totals per currency
  spin,       \* slotzilla_spins
  wallet,     \* wallets
  ledger,     \* wallet_ledger, ref_type slotzilla_spin
  liability,  \* riskzilla_bank_state.open_liability_micro, the spins' share
  stored,     \* sr_live_events: report and age of updated_at
  mem,        \* the engine's game struct
  job,        \* where the engine is in its poll
  faults,
  loose,      \* history: spins the poll's last list does not answer for
  missed,     \* history: an event change reached no window
  forgot      \* history: the engine no longer knows of its last feed-dark pause

feedVars == <<now, play, scout, listed>>
spinVars == <<spin, wallet, ledger, liability, totals>>
history == <<loose, missed, forgot>>
vars == <<feedVars, game, spinVars, stored, mem, job, faults, history>>

-----------------------------------------------------------------------------
(* Windows and lines *)

CeilDiv(a, b) == - ((- a) \div b)

FirstWindowFor(clock) == CeilDiv(clock + LeadSeconds, WindowSeconds) * WindowSeconds
WindowsOf(from) == [i \in 1..RoundWindows |-> from + (i - 1) * WindowSeconds]
RoundEnd(from) == from + RoundWindows * WindowSeconds

In(r, from) == r # NoReport /\ r.second \in from..(from + WindowSeconds - 1)

\* The highest-ranked symbol of a window, NONE when it is empty. An event that
\* is disabled or makes no symbol is a report of NONE.
ReelForWindow(ev, from) ==
  LET symbols == {"NONE"} \cup {ev[e].report.symbol : e \in {e \in Events : In(ev[e].report, from)}}
  IN CHOOSE x \in symbols : \A y \in symbols : Rank[y] <= Rank[x]

Reels(ev, from) == [i \in 1..RoundWindows |-> ReelForWindow(ev, WindowsOf(from)[i])]

\* EvaluateLine and PayoutMicro: the symbol most reels agree on, if two do.
PayoutMicro(reels, stake) ==
  LET count(x) == Cardinality({i \in 1..RoundWindows : reels[i] = x})
      lines == {x \in DOMAIN Rank : count(x) >= 2}
  IN IF lines = {} THEN 0
     ELSE LET x == CHOOSE x \in lines : TRUE IN (stake * Paytable[<<count(x), x>>]) \div 100

ExposureMicro(s) ==
  Min({MaxPayout, (Stake[s] * Max({Paytable[l] : l \in DOMAIN Paytable})) \div 100})

\* Wrong: the window's own seconds are not waited for.
PastWindowStart(from, clock, over) ==
  clock >= from + (IF over THEN 0 ELSE ClockPastSeconds)

PastWindow(from, clock, over) ==
  clock >= from + WindowSeconds + (IF over THEN 0 ELSE ClockPastSeconds)

GraceOver(ev, from) ==
  \A e \in Events : In(ev[e].report, from) => ev[e].age >= GraceSeconds

WindowFinal(m, from) ==
  /\ m.clock # -1
  /\ PastWindow(from, m.clock, m.ended \/ m.ending)
  /\ GraceOver(m.built, from)

SpinFinal(m, s) == \A i \in 1..RoundWindows : WindowFinal(m, WindowsOf(spin[s].from)[i])

-----------------------------------------------------------------------------
(* The fixture and its feed *)

Unlogged == [e \in Events |-> [report |-> NoReport, age |-> GraceSeconds]]

Older(age, cap) == Min({age + 1, cap})
OlderEvents(ev) == [e \in Events |-> [ev[e] EXCEPT !.age = Older(@, GraceSeconds)]]

Active == game.status \in {"scheduled", "live", "paused"}

\* The fixture moves between polls, and is of no interest once the game is off.
BetweenPolls == job.pc = "idle" /\ Active

\* The match clock runs with the wall clock or stands.
Tick ==
  /\ BetweenPolls
  /\ now' = Older(now, NeverStartedAfter + 1)
  /\ stored' = OlderEvents(stored)
  /\ mem' = [mem EXCEPT !.known = OlderEvents(@), !.built = OlderEvents(@),
                         !.silence = Older(@, FeedDarkVoidSeconds)]
  /\ game' = [game EXCEPT !.age = Older(@, FeedDarkVoidSeconds)]
  /\ \/ UNCHANGED play
     \/ /\ play.phase = "on" /\ play.clock < MatchSeconds
        /\ play' = [play EXCEPT !.clock = @ + 1]
  /\ UNCHANGED <<scout, listed, spinVars, job, faults, history>>

Whistle ==
  /\ BetweenPolls
  /\ \/ play.phase = "before" /\ play' = [play EXCEPT !.phase = "on"]
     \/ play.phase = "on" /\ play.clock = MatchSeconds /\ play' = [play EXCEPT !.phase = "over"]
  /\ UNCHANGED <<now, scout, listed, game, spinVars, stored, mem, job, faults, history>>

\* A play logged, or corrected, at a second the clock has reached.
Log(e, r) ==
  /\ BetweenPolls /\ r # scout[e] /\ r.second <= play.clock
  /\ scout' = [scout EXCEPT ![e] = r]
  /\ UNCHANGED <<now, play, listed, game, spinVars, stored, mem, job, faults, history>>

CloseFixture(status) ==
  /\ BetweenPolls /\ listed = "live"
  /\ listed' = status
  /\ UNCHANGED <<now, play, scout, game, spinVars, stored, mem, job, faults, history>>

-----------------------------------------------------------------------------
(* Spins: one transaction each *)

Open == {s \in Spins : spin[s].status = "open"}
Stakes(S) == SumFunctionOnSet(Stake, S)
Exposures(S) == SumFunctionOnSet([s \in Spins |-> spin[s].exposure], S)
UsdcSpins == {s \in Spins : Currency[s] = "USDC"}
Unplaced == [status |-> "absent", from |-> 0, exposure |-> 0, payout |-> 0]

Row(type, s, delta) == [type |-> type, spin |-> s, delta |-> delta]
InsertLedger(r) ==
  IF \E x \in ledger : x.type = r.type /\ x.spin = r.spin THEN ledger ELSE ledger \cup {r}

Usdc(s, n) == IF Currency[s] = "USDC" THEN n ELSE 0

\* The reading carried forward while the clock runs.
EstimatedClock == game.clock + (IF game.running THEN game.age ELSE 0)
ClockIsFresh == game.clock # -1 /\ game.age < FeedDarkVoidSeconds

Covers(s) == Stake[s] <= wallet[WalletOf(s)].balance - wallet[WalletOf(s)].locked

\* The poll has listed the open spins and will not look again before it ends
\* or voids the game.
Listed == job.pc = "void"

PlaceSpin(s) ==
  /\ spin[s].status = "absent"
  /\ Covers(s)
  /\ game.status = "live" /\ ClockIsFresh
  /\ ~ \E x \in Open : UserOf[x] = UserOf[s]
  /\ Exposures(Open) + ExposureMicro(s) <= MatchCap
  /\ spin' = [spin EXCEPT ![s] = [status |-> "open", from |-> FirstWindowFor(EstimatedClock),
                                  exposure |-> ExposureMicro(s), payout |-> 0]]
  /\ wallet' = [wallet EXCEPT ![WalletOf(s)].locked = @ + Stake[s]]
  /\ ledger' = ledger \cup {Row("slot_stake", s, - Stake[s])}
  /\ liability' = liability + Usdc(s, ExposureMicro(s))
  /\ totals' = [totals EXCEPT ![Currency[s]].stake = @ + Stake[s]]
  /\ loose' = IF Listed THEN loose \cup {s} ELSE loose
  /\ UNCHANGED <<feedVars, game, stored, mem, job, faults, missed, forgot>>

\* Wrong: the update of the row without its status guard.
ClaimAlways(s) == spin[s].status # "absent"

\* UPDATE ... WHERE id = $1 AND status = 'open'
Claim(s) == spin[s].status = "open"

\* Wrong: the exposure of a closed spin stays booked.
ReleaseLiabilityNever(S) == UNCHANGED liability

ReleaseLiability(S) ==
  liability' = Max({0, liability - Exposures(S \cap UsdcSpins)})

SettleSpin(s, payout) ==
  /\ spin' = [spin EXCEPT ![s].status = IF payout > 0 THEN "won" ELSE "lost", ![s].payout = payout]
  /\ wallet' = [wallet EXCEPT ![WalletOf(s)] = [balance |-> (@.balance + payout) - Stake[s],
                                                locked |-> @.locked - Stake[s]]]
  /\ ledger' = IF payout > 0 THEN InsertLedger(Row("slot_payout", s, payout)) ELSE ledger
  /\ ReleaseLiability({s})
  /\ totals' = [totals EXCEPT ![Currency[s]].payout = @ + payout]

\* VoidSpin of the engine for one spin, voidOpenSpinsForGame of the api for all.
VoidSpins(S) ==
  /\ spin' = [s \in Spins |-> IF s \in S THEN [spin[s] EXCEPT !.status = "void"] ELSE spin[s]]
  /\ wallet' = [w \in Wallets |->
                  [wallet[w] EXCEPT !.locked = @ - Stakes({s \in S : WalletOf(s) = w})]]
  /\ ledger' = ledger \cup {Row("slot_refund", s, Stake[s]) :
                              s \in {s \in S : ~ \E x \in ledger : x.type = "slot_refund" /\ x.spin = s}}
  /\ ReleaseLiability(S)
  /\ totals' = [c \in DOMAIN totals |->
                  [totals[c] EXCEPT !.stake = @ - Stakes({s \in S : Currency[s] = c})]]

-----------------------------------------------------------------------------
(* The engine's poll *)

Idle == [pc |-> "idle", mode |-> "none", row |-> "none", touched |-> FALSE, todo |-> {}]
NewMem == [loaded |-> FALSE, known |-> Unlogged, built |-> Unlogged, clock |-> -1, ended |-> FALSE,
           ending |-> FALSE, dark |-> FALSE, silence |-> 0]

\* Wrong: the engine's own pause is not told apart.
RowViewStatus == game.status

\* What the row of SelectActiveGames says of a pause.
RowView == IF game.status = "paused" /\ game.pausedBy = "nobody" /\ game.note = "feed_dark"
           THEN "feed_dark" ELSE game.status

\* The row is read and, the first time, the stored events.
Loaded(m) ==
  IF m.loaded THEN m
  ELSE [m EXCEPT !.loaded = TRUE, !.known = stored, !.built = stored, !.silence = 0]

NeverStarted ==
  game.status = "scheduled" /\ mem.clock = -1 /\ now > NeverStartedAfter

PollBegin ==
  /\ job.pc = "idle" /\ Active
  /\ loose' = {}
  /\ \/ /\ listed = "cancelled"
        /\ job' = [Idle EXCEPT !.pc = "void", !.mode = "cancel", !.todo = Open]
        /\ UNCHANGED mem
     \/ /\ listed = "closed"
        /\ job' = [Idle EXCEPT !.pc = "fetch", !.row = RowView]
        /\ mem' = [Loaded(mem) EXCEPT !.ending = TRUE]
     \/ /\ listed = "live" /\ ~ NeverStarted
        /\ job' = [Idle EXCEPT !.pc = "fetch", !.row = RowView]
        /\ mem' = Loaded(mem)
     \/ /\ listed = "live" /\ NeverStarted
        /\ job' = [Idle EXCEPT !.pc = "void", !.mode = "finish"]
        /\ UNCHANGED mem
  /\ UNCHANGED <<feedVars, game, spinVars, stored, faults, missed, forgot>>

\* onFeedBack ends the outage in memory and, for the engine's own pause, goes
\* on to the game row.
FetchOk ==
  /\ job.pc = "fetch"
  /\ job' = [job EXCEPT !.pc = IF mem.dark /\ job.row = "feed_dark" THEN "resume" ELSE "store"]
  /\ mem' = [mem EXCEPT !.silence = 0, !.dark = FALSE]
  /\ UNCHANGED <<feedVars, game, spinVars, stored, faults, history>>

\* finishGame lists what is open; a spin the clock did not reach is voided.
Reached(m) == {s \in Open : m.clock # -1 /\ m.clock >= RoundEnd(spin[s].from)}

\* Wrong: the game ends although spins wait for their grace.
FinishAtOnce(m) ==
  IF ~ m.ending THEN Idle
  ELSE [Idle EXCEPT !.pc = "void", !.mode = "finish", !.todo = Open \ Reached(m)]

FinishOrIdle(m) ==
  IF ~ m.ending THEN Idle
  ELSE [Idle EXCEPT !.pc = "void", !.mode = IF Reached(m) = {} THEN "finish" ELSE "wait",
                    !.todo = Open \ Reached(m)]

FetchFails ==
  /\ job.pc = "fetch"
  /\ job' = IF ~ mem.dark /\ mem.silence >= FeedDarkVoidSeconds
            THEN [Idle EXCEPT !.pc = "void", !.mode = "dark", !.row = job.row, !.todo = Open]
            ELSE FinishOrIdle(mem)
  /\ loose' = IF job'.pc = "void" THEN {} ELSE loose
  /\ UNCHANGED <<feedVars, game, spinVars, stored, mem, faults, missed, forgot>>

\* The pause PauseGameByService wrote, as the row shows it.
ServicePaused == game.status = "paused" /\ game.pausedBy = "nobody" /\ game.note = "feed_dark"

\* Wrong: any pause is lifted.
ResumableAny == game.status = "paused"

\* The WHERE clause of ResumeServicePause.
Resumable == ServicePaused

ResumeServicePause ==
  /\ job.pc = "resume"
  /\ game' = IF Resumable THEN [game EXCEPT !.status = "live", !.note = "none"] ELSE game
  /\ job' = [job EXCEPT !.pc = "store"]
  /\ UNCHANGED <<feedVars, spinVars, stored, mem, faults, history>>

\* What a document says: every event, or in a delta some of them.
Documents == {[e \in Events |-> IF e \in some THEN scout[e] ELSE NoReport] : some \in SUBSET Events}

\* applyEvents: the guarded upsert, then the merge into memory. An event the
\* database already has keeps the time it was seen.
Changed(d) == {e \in Events : d[e] \notin {NoReport, stored[e].report}}
Fresh(d) == {e \in Events : d[e] # NoReport /\ (e \in Changed(d) \/ mem.known[e].report = NoReport)}

UpsertEvents(d) ==
  [e \in Events |-> IF e \in Changed(d) THEN [report |-> d[e], age |-> 0] ELSE stored[e]]

Merge(d) ==
  [e \in Events |-> IF d[e] = NoReport THEN mem.known[e]
                    ELSE [report |-> d[e], age |-> IF e \in Fresh(d) THEN 0 ELSE mem.known[e].age]]

StoreEvents(d) ==
  /\ job.pc = "store"
  /\ stored' = UpsertEvents(d)
  /\ mem' = [mem EXCEPT !.known = Merge(d)]
  /\ job' = [job EXCEPT !.pc = "clock", !.touched = Fresh(d) # {}]
  /\ UNCHANGED <<feedVars, game, spinVars, faults, history>>

\* Wrong: the windows are derived once.
RebuiltOnce(m) == m.built

Rebuilt(m) == IF job.touched THEN m.known ELSE m.built

\* applyClock keeps the reading in memory before it writes the row; the row's
\* clock and its status are two statements.
ReadClock(m) == [m EXCEPT !.clock = play.clock, !.ended = play.phase = "over"]
WriteClock(g) == [g EXCEPT !.clock = play.clock, !.running = play.phase = "on", !.age = 0]

\* MarkGameLive, for a game read as scheduled whose fixture has started.
Starts == play.phase # "before" /\ job.row = "scheduled"

\* applyClock, the windows, and the list of the spins to settle.
UpdateClock ==
  LET m == [ReadClock(mem) EXCEPT !.ending = @ \/ play.phase = "over", !.built = Rebuilt(mem)]
  IN /\ job.pc = "clock"
     /\ game' = [WriteClock(game) EXCEPT !.status = IF Starts /\ @ = "scheduled" THEN "live" ELSE @]
     /\ mem' = m
     /\ missed' = (missed /\ (m.built # stored \/ m.known # stored))
     /\ job' = [Idle EXCEPT !.pc = "settle", !.todo = {s \in Open : SpinFinal(m, s)}]
     /\ UNCHANGED <<feedVars, spinVars, stored, faults, loose, forgot>>

SettleOne(s) ==
  /\ job.pc = "settle" /\ s \in job.todo
  /\ \/ Claim(s) /\ SettleSpin(s, PayoutMicro(Reels(mem.built, spin[s].from), Stake[s]))
     \/ ~ Claim(s) /\ UNCHANGED spinVars
  /\ job' = [job EXCEPT !.todo = @ \ {s}]
  /\ UNCHANGED <<feedVars, game, stored, mem, faults, history>>

SettleDone ==
  /\ job.pc = "settle" /\ job.todo = {}
  /\ job' = FinishOrIdle(mem)
  /\ loose' = IF job'.pc = "void" THEN {} ELSE loose
  /\ UNCHANGED <<feedVars, game, spinVars, stored, mem, faults, missed, forgot>>

VoidOne(s) ==
  /\ job.pc = "void" /\ s \in job.todo
  /\ \/ Claim(s) /\ VoidSpins({s})
     \/ ~ Claim(s) /\ UNCHANGED spinVars
  /\ job' = [job EXCEPT !.todo = @ \ {s}]
  /\ UNCHANGED <<feedVars, game, stored, mem, faults, history>>

\* The list is worked off: EndGame, VoidGame, or the service's own pause.
VoidDone ==
  /\ job.pc = "void" /\ job.todo = {}
  /\ \/ /\ job.mode = "finish"
        /\ game' = IF Active THEN [game EXCEPT !.status = "ended"] ELSE game
        /\ job' = Idle
        /\ UNCHANGED <<mem, loose, forgot>>
     \/ /\ job.mode = "cancel"
        /\ game' = IF Active THEN [game EXCEPT !.status = "voided"] ELSE game
        /\ job' = Idle
        /\ UNCHANGED <<mem, loose, forgot>>
     \/ /\ job.mode = "wait"
        /\ job' = Idle
        /\ UNCHANGED <<game, mem, loose, forgot>>
     \/ /\ job.mode = "dark"
        /\ game' = IF job.row = "live" /\ game.status = "live"
                   THEN [game EXCEPT !.status = "paused", !.pausedBy = "nobody", !.note = "feed_dark"]
                   ELSE game
        /\ mem' = [mem EXCEPT !.dark = TRUE]
        /\ forgot' = (forgot /\ game' = game)
        /\ job' = FinishOrIdle(mem)
        /\ loose' = IF job'.pc = "void" THEN {} ELSE loose
  /\ UNCHANGED <<feedVars, spinVars, stored, faults, missed>>

-----------------------------------------------------------------------------
(* Failures *)

\* A statement fails and the poll takes its error path. A batch may have been
\* stored although its answer was lost; an error may strike several spins.
StatementFails ==
  /\ faults < MaxFaults
  /\ faults' = faults + 1
  /\ \/ /\ job.pc = "resume"
        /\ job' = [job EXCEPT !.pc = "store"]
        /\ forgot' = TRUE
        /\ UNCHANGED <<game, mem, stored, loose, missed>>
     \/ /\ job.pc = "store"
        /\ stored' \in {stored} \cup {UpsertEvents(d) : d \in Documents}
        /\ missed' = (missed \/ stored' # stored)
        /\ job' = Idle
        /\ UNCHANGED <<game, mem, loose, forgot>>
     \/ /\ job.pc = "clock"
        /\ missed' = (missed \/ job.touched)
        /\ mem' = ReadClock(mem)
        /\ game' \in {game} \cup (IF Starts THEN {WriteClock(game)} ELSE {})
        /\ job' = Idle
        /\ UNCHANGED <<stored, loose, forgot>>
     \/ \E S \in (SUBSET job.todo) \ {{}} :
          /\ job' = [job EXCEPT !.todo = @ \ S]
          /\ loose' = IF job.pc = "void" THEN loose \cup S ELSE loose
          /\ UNCHANGED <<game, mem, stored, missed, forgot>>
     \/ /\ job.pc = "void" /\ job.mode \in {"finish", "cancel", "wait"}
        /\ job.todo = {} \/ job.mode # "cancel"
        /\ job' = Idle
        /\ UNCHANGED <<game, mem, stored, loose, missed, forgot>>
     \/ /\ job.pc = "void" /\ job.todo = {} /\ job.mode = "dark" /\ job.row = "live"
        /\ job' = FinishOrIdle(mem)
        /\ loose' = IF job'.pc = "void" THEN {} ELSE loose
        /\ mem' = [mem EXCEPT !.dark = TRUE]
        /\ UNCHANGED <<game, stored, missed, forgot>>
  /\ UNCHANGED <<feedVars, spinVars>>

\* The process restarts, or the game is switched off and on again.
Restart ==
  /\ faults < MaxFaults
  /\ faults' = faults + 1
  /\ mem' = NewMem /\ job' = Idle
  /\ missed' = FALSE
  /\ forgot' = (forgot \/ ServicePaused)
  /\ UNCHANGED <<feedVars, game, spinVars, stored, loose>>

-----------------------------------------------------------------------------
(* The operator *)

AdminPause ==
  /\ game.status \in {"live", "scheduled"}
  /\ game' = [game EXCEPT !.status = "paused", !.pausedBy = "operator"]
  /\ UNCHANGED <<feedVars, spinVars, stored, mem, job, faults, history>>

\* Back to live when the row has a clock reading.
AdminResume ==
  /\ game.status = "paused"
  /\ game' = [game EXCEPT !.status = IF game.clock # -1 THEN "live" ELSE "scheduled",
                          !.pausedBy = "nobody"]
  /\ UNCHANGED <<feedVars, spinVars, stored, mem, job, faults, history>>

AdminVoid ==
  /\ game.status # "voided"
  /\ game' = [game EXCEPT !.status = "voided"]
  /\ VoidSpins(Open)
  /\ UNCHANGED <<feedVars, stored, mem, job, faults, history>>

-----------------------------------------------------------------------------
Init ==
  /\ now = 0
  /\ play = [clock |-> 0, phase |-> "before"]
  /\ scout = [e \in Events |-> NoReport] /\ listed = "live"
  /\ game = [status |-> "scheduled", pausedBy |-> "nobody", note |-> "none", clock |-> -1,
             running |-> FALSE, age |-> 0]
  /\ totals = [c \in {"USDC", "OZ"} |-> [stake |-> 0, payout |-> 0]]
  /\ spin = [s \in Spins |-> Unplaced]
  /\ wallet = [w \in Wallets |-> [balance |-> Opening, locked |-> 0]]
  /\ ledger = {} /\ liability = 0
  /\ stored = Unlogged /\ mem = NewMem /\ job = Idle /\ faults = 0
  /\ loose = {} /\ missed = FALSE /\ forgot = FALSE

Poll ==
  \/ PollBegin \/ FetchOk \/ FetchFails \/ ResumeServicePause \/ UpdateClock
  \/ SettleDone \/ VoidDone \/ \E d \in Documents : StoreEvents(d)
  \/ \E s \in Spins : SettleOne(s) \/ VoidOne(s)

Next ==
  \/ Tick \/ Whistle
  \/ \E e \in Events : \E r \in Reports[e] : Log(e, r)
  \/ \E st \in {"closed", "cancelled"} : CloseFixture(st)
  \/ \E s \in Spins : PlaceSpin(s)
  \/ Poll \/ StatementFails \/ Restart
  \/ AdminPause \/ AdminResume \/ AdminVoid

Spec == Init /\ [][Next]_vars

-----------------------------------------------------------------------------
(* Properties *)

\* Types; no wallet is locked beyond its balance or below zero, a round starts
\* on a window, and the engine works off a list only while it settles or voids.
TypeOK ==
  /\ now \in 0..(NeverStartedAfter + 1) /\ faults \in 0..MaxFaults
  /\ play \in [clock: 0..MatchSeconds, phase: {"before", "on", "over"}]
  /\ listed \in {"live", "closed", "cancelled"}
  /\ game \in [status: {"scheduled", "live", "paused", "ended", "voided"},
               pausedBy: {"nobody", "operator"}, note: {"none", "feed_dark"},
               clock: -1..MatchSeconds, running: BOOLEAN, age: 0..FeedDarkVoidSeconds]
  /\ spin \in [Spins -> [status: {"absent", "open", "won", "lost", "void"}, from: Nat,
                          exposure: Nat, payout: Nat]]
  /\ \A s \in Open : spin[s].from % WindowSeconds = 0
  /\ wallet \in [Wallets -> [balance: Nat, locked: Nat]]
  /\ \A w \in Wallets : wallet[w].locked <= wallet[w].balance
  /\ ledger \subseteq [type: {"slot_stake", "slot_payout", "slot_refund"}, spin: Spins, delta: Int]
  /\ liability \in Nat
  /\ job.pc \in {"idle", "fetch", "resume", "store", "clock", "settle", "void"}
  /\ job.todo \subseteq Spins /\ (job.todo # {} => job.pc \in {"settle", "void"})

RowSum(rows) == SumFunctionOnSet([r \in rows |-> r.delta], rows)

\* Lock, balance, exposure and the game's totals are what the spins and the
\* ledger say, whoever closed a spin: the engine's settle or void racing the
\* operator's, or a second try after a restart (store/spins.go SettleSpin and
\* VoidSpin, service.ts voidOpenSpinsForGame).
MoneyMatchesSpins ==
  /\ \A w \in Wallets :
       LET staked == Stakes({s \in Open : WalletOf(s) = w})
       IN /\ wallet[w].locked = staked
          /\ wallet[w].balance = (Opening + staked) + RowSum({r \in ledger : WalletOf(r.spin) = w})
  /\ liability = Exposures(Open \cap UsdcSpins)
  /\ \A c \in DOMAIN totals :
       LET mine == {s \in Spins : Currency[s] = c}
       IN /\ totals[c].payout = SumFunctionOnSet([s \in Spins |-> spin[s].payout], mine)
          /\ totals[c].stake = Stakes({s \in mine : spin[s].status \notin {"absent", "void"}})

\* An open spin is on a game the engine still polls. The exceptions are a spin
\* whose void failed and a spin placed after the list that preceded EndGame or
\* VoidGame (engine.go finishGame: "the game ends when none is left open").
OpenSpinsArePolled == Active \/ Open \subseteq loose

\* The engine knows of the pause it made, so that it can lift it, as long as it
\* was not restarted since and no statement to lift it failed: not lost by
\* fetches that fail and succeed, an operator who resumes and pauses, a match
\* that is closed, or an earlier pause that was forgotten (engine.go onFeedDark
\* and onFeedBack).
ServicePauseIsRemembered == ServicePaused => mem.dark \/ job.pc = "resume" \/ forgot

\* No step of the engine undoes an operator's pause but to end or void the
\* game, although the row it acts on was read before (games.go
\* ResumeServicePause: "the admin's decision is never overridden").
OperatorPauseHolds ==
  [][game.status = "paused" /\ game.pausedBy = "operator" /\ job' # job
       => game'.status \in {"paused", "ended", "voided"}]_vars

Settles(s) == spin[s].status = "open" /\ spin'[s].status \in {"won", "lost"}

\* A spin settles only when the fixture's own clock is past its last window,
\* whatever old document or early close of the matches row the engine holds
\* (windows.go WindowFinal).
NothingSettlesEarly ==
  [][\A s \in Spins : Settles(s) => play.clock >= RoundEnd(spin[s].from)]_vars

\* A settled spin can be replayed from the stored events, each of them known
\* for the grace period, unless a failed statement kept an event out of the
\* windows (SLOTZILLA.md: "a settled spin can be replayed from the stored
\* events").
SettledOnStoredEvents ==
  [][\A s \in Spins : Settles(s) /\ ~ missed =>
       /\ spin'[s].payout = PayoutMicro(Reels(stored, spin[s].from), Stake[s])
       /\ \A i \in 1..RoundWindows : GraceOver(stored, WindowsOf(spin[s].from)[i])]_vars

\* engine.go, finishGame: "the game ends when none is left open". Stated of the
\* game row and the spins alone, and refuted: a spin placed after the list that
\* precedes EndGame, or whose void failed, stays open on a game nobody polls.
EndedWithNoneOpen == game.status = "ended" => Open = {}

\* engine.go, onFeedBack: "lifts a service-made feed-dark pause once the feed
\* answers again". When a poll that found the pause in the row has its document
\* and goes on to the events, the pause is lifted. Refuted: the engine goes by
\* its memory, which a restart empties, and does not try again after an error.
FeedBackLiftsPause == job.pc = "store" /\ job.row = "feed_dark" => ~ ServicePaused

\* SLOTZILLA.md: "a settled spin can be replayed from the stored events". The
\* payout is the one the stored events give when it is paid. Refuted: when the
\* clock update fails the windows are not derived from the events just stored.
SettledSpinReplays ==
  [][\A s \in Spins : Settles(s) =>
       spin'[s].payout = PayoutMicro(Reels(stored, spin[s].from), Stake[s])]_vars

=============================================================================
