--------------------------- MODULE SlotZillaProofs --------------------------
(***************************************************************************)
(* SlotZilla for any number of spins, events, players and faults: the      *)
(* money of every spin is booked once (MoneyMatchesSpins), no open spin is *)
(* left on a game nobody polls (OpenSpinsArePolled), the engine knows its  *)
(* own pause and respects the operator's (ServicePauseIsRemembered,        *)
(* OperatorPauseHolds), and a spin settles late enough and on what is      *)
(* stored (NothingSettlesEarly, SettledOnStoredEvents).                    *)
(*                                                                         *)
(* A poll is many statements, so each property needs what one statement    *)
(* owes the next: that the list of spins to void misses only the spins     *)
(* counted as loose (Polled), that the row read before the fetch still     *)
(* says whose pause it is (Remembered), that what was final when listed    *)
(* stays final (Timely), and that the memory copy of the events runs       *)
(* behind the stored one by age only (Mirrored).                           *)
(***************************************************************************)
EXTENDS SlotZilla, SumTheorems

Report == [second: Nat, symbol: DOMAIN Rank]
EventState == [Events -> [report: Report \cup {NoReport}, age: Nat]]
GameState == [status: {"scheduled", "live", "paused", "ended", "voided"},
              pausedBy: {"nobody", "operator"}, note: {"none", "feed_dark"},
              clock: -1..MatchSeconds, running: BOOLEAN, age: 0..FeedDarkVoidSeconds]
SpinState == [status: {"absent", "open", "won", "lost", "void"}, from: Nat, exposure: Nat, payout: Nat]
MemState == [loaded: BOOLEAN, known: EventState, built: EventState, clock: Int, ended: BOOLEAN,
             ending: BOOLEAN, dark: BOOLEAN, silence: Nat]
JobState == [pc: {"idle", "fetch", "resume", "store", "clock", "settle", "void"},
             mode: {"none", "finish", "cancel", "wait", "dark"},
             row: {"none", "scheduled", "live", "paused", "ended", "voided", "feed_dark"},
             touched: BOOLEAN, todo: SUBSET Spins]

Types ==
  /\ now \in 0..(NeverStartedAfter + 1) /\ faults \in 0..MaxFaults
  /\ play \in [clock: 0..MatchSeconds, phase: {"before", "on", "over"}]
  /\ listed \in {"live", "closed", "cancelled"}
  /\ scout \in [Events -> Report \cup {NoReport}] /\ stored \in EventState
  /\ game \in GameState /\ mem \in MemState /\ job \in JobState
  /\ loose \subseteq Spins /\ missed \in BOOLEAN /\ forgot \in BOOLEAN
  /\ job.todo # {} => job.pc \in {"settle", "void"}

\* A spin's row: its round starts on a window, and only a win has a payout.
Rows ==
  /\ spin \in [Spins -> SpinState]
  /\ \A s \in Spins : /\ spin[s].from % WindowSeconds = 0
                      /\ spin[s].payout > 0 <=> spin[s].status = "won"

\* The list a poll voids before it ends or voids the game holds every open spin
\* but the loose ones; no spin is open on a game that never had a clock.
Polled ==
  /\ game.status = "scheduled" => Open = {}
  /\ Open # {} => game.clock # -1
  /\ job.pc = "void" /\ job.mode \in {"finish", "cancel"} => Open \subseteq job.todo \cup loose
  /\ ~ Active => Open = {} \/ (job.pc = "idle" /\ Open \subseteq loose)

\* The row read at the start of a poll knows the service's pause.
Remembered ==
  /\ ServicePauseIsRemembered
  /\ job.pc = "fetch" /\ ServicePaused => job.row = "feed_dark"

\* A listed spin was placed, and the clock is past its round.
Timely ==
  job.pc = "settle" =>
    \A s \in job.todo :
      /\ spin[s].status # "absent"
      /\ play.clock >= RoundEnd(spin[s].from)
      /\ \A i \in 1..RoundWindows : GraceOver(mem.built, WindowsOf(spin[s].from)[i])

\* Two copies of the events agree but for ages, the first being the younger.
Behind(a, b) == \A e \in Events : a[e].report = b[e].report /\ a[e].age <= b[e].age

\* The events in memory are behind the stored ones, and so are the windows, or
\* will be when they are rebuilt.
Mirrored ==
  /\ job.pc \in {"fetch", "resume", "store", "clock", "settle"} => mem.loaded
  /\ \A e \in Events : /\ mem.known[e].age <= mem.built[e].age
                       /\ scout[e] = NoReport =>
                            stored[e].report = NoReport /\ mem.known[e].report = NoReport
  /\ mem.loaded /\ ~ missed =>
       /\ Behind(mem.known, stored)
       /\ ~ (job.pc = "clock" /\ job.touched) => Behind(mem.built, stored)

CInv == Types /\ Rows /\ Polled /\ Remembered /\ Timely /\ Mirrored

-----------------------------------------------------------------------------
(* Money *)

SpinsOf(w) == {s \in Spins : WalletOf(s) = w}
OpenOf(w) == {s \in Open : WalletOf(s) = w}
SpinsIn(c) == {s \in Spins : Currency[s] = c}
Standing(c) == {s \in SpinsIn(c) : spin[s].status \notin {"absent", "void"}}

\* What a spin has changed its player's balance by, and what it has paid.
Gains == [s \in Spins |-> IF spin[s].status \in {"won", "lost"} THEN spin[s].payout - Stake[s] ELSE 0]
Payouts == [s \in Spins |-> spin[s].payout]

\* The rows a spin accounts for; the ledger is these.
RowsOf(s) ==
  ((IF spin[s].status = "absent" THEN {} ELSE {Row("slot_stake", s, - Stake[s])})
   \cup (IF spin[s].status = "won" THEN {Row("slot_payout", s, spin[s].payout)} ELSE {}))
  \cup (IF spin[s].status = "void" THEN {Row("slot_refund", s, Stake[s])} ELSE {})

Booked == ledger = UNION {RowsOf(s) : s \in Spins}

WalletsExact ==
  /\ wallet \in [Wallets -> [balance: Int, locked: Int]]
  /\ \A w \in Wallets : /\ wallet[w].locked = Stakes(OpenOf(w))
                        /\ wallet[w].balance = Opening + SumFunctionOnSet(Gains, SpinsOf(w))
                        /\ wallet[w].locked <= wallet[w].balance

TotalsExact ==
  /\ totals \in [{"USDC", "OZ"} -> [stake: Int, payout: Int]]
  /\ \A c \in {"USDC", "OZ"} : /\ totals[c].stake = Stakes(Standing(c))
                               /\ totals[c].payout = SumFunctionOnSet(Payouts, SpinsIn(c))

LiabilityExact == liability = Exposures(Open \cap UsdcSpins)

Money == WalletsExact /\ TotalsExact /\ LiabilityExact /\ Booked

SInv == CInv /\ Money

-----------------------------------------------------------------------------
(* Numbers *)

\* The larger and the smaller of two.
LEMMA MinMaxTwo ==
  ASSUME NEW a \in Int, NEW b \in Int
  PROVE  /\ Max({a, b}) = IF a >= b THEN a ELSE b
         /\ Min({a, b}) = IF a <= b THEN a ELSE b
<1>1. \A x \in {a, b} : (\A y \in {a, b} : x >= y) <=> x = IF a >= b THEN a ELSE b
  OBVIOUS
<1>2. \A x \in {a, b} : (\A y \in {a, b} : x <= y) <=> x = IF a <= b THEN a ELSE b
  OBVIOUS
<1>3. (IF a >= b THEN a ELSE b) \in {a, b} /\ (IF a <= b THEN a ELSE b) \in {a, b}
  OBVIOUS
<1> QED BY <1>1, <1>2, <1>3 DEF Max, Min

\* A finite set of natural numbers has a largest member.
LEMMA MaxNat ==
  ASSUME NEW S \in SUBSET Nat, IsFiniteSet(S), S # {}
  PROVE  Max(S) \in S
<1> DEFINE Q == {s \in SUBSET S : s = {} \/ \E x \in s : \A y \in s : x >= y}
<1>1. ASSUME NEW s \in SUBSET S, \A t \in SUBSET s : t # s => t \in Q
      PROVE  s \in Q
  <2>1. CASE s = {}
    BY <2>1
  <2>2. CASE s # {}
    <3>1. PICK z \in s : TRUE
      BY <2>2
    <3>2. s \ {z} \in Q
      BY <1>1, <3>1
    <3>3. CASE s \ {z} = {}
      BY <3>1, <3>3
    <3>4. CASE s \ {z} # {}
      <4>1. PICK x \in s \ {z} : \A y \in s \ {z} : x >= y
        BY <3>2, <3>4
      <4>2. x \in Nat /\ z \in Nat /\ \A y \in s : y \in Nat
        BY <3>1, <4>1
      <4>3. CASE x >= z
        BY <4>1, <4>2, <4>3
      <4>4. CASE z >= x
        BY <3>1, <4>1, <4>2, <4>4
      <4> QED BY <4>2, <4>3, <4>4
    <3> QED BY <3>3, <3>4
  <2> QED BY <2>1, <2>2
<1>2. Q \in SUBSET (SUBSET S)
  OBVIOUS
<1> HIDE DEF Q
<1>3. \A s \in SUBSET S : s \in Q
  BY <1>1, <1>2, SubsetInduction
<1>4. \E x \in S : \A y \in S : x >= y
  BY <1>3 DEF Q
<1> QED BY <1>4 DEF Max

\* What is so many windows from the start is on a window.
LEMMA OnAWindow ==
  ASSUME NEW k \in Int
  PROVE  (k * WindowSeconds) % WindowSeconds = 0
<1> DEFINE W == WindowSeconds
           q == (k * W) \div W
           m == (k * W) % W
<1>1. W \in Nat /\ W > 0
  BY SlotAssumption
<1>2. k * W \in Int
  BY <1>1
<1>3. q \in Int /\ m \in 0..(W - 1) /\ k * W = W * q + m
  BY <1>1, <1>2
<1> HIDE DEF q, m, W
<1>4. m = W * (k - q)
  BY <1>1, <1>3
<1>5. CASE k - q >= 1
  <2>1. W * (k - q) >= W
    BY <1>1, <1>3, <1>5
  <2> QED BY <1>1, <1>3, <1>4, <2>1
<1>6. CASE k - q <= -1
  <2>1. W * (k - q) <= - W
    BY <1>1, <1>3, <1>6
  <2> QED BY <1>1, <1>3, <1>4, <2>1
<1>7. CASE k - q = 0
  BY <1>1, <1>4, <1>7 DEF m, W
<1> QED BY <1>3, <1>5, <1>6, <1>7

\* The first window after a clock reading, FirstWindowFor of rules.go.
LEMMA FirstWindow ==
  ASSUME NEW c \in Nat
  PROVE  FirstWindowFor(c) \in Nat /\ FirstWindowFor(c) % WindowSeconds = 0
<1> DEFINE W == WindowSeconds
           a == c + LeadSeconds
           q == (- a) \div W
<1>1. W \in Nat /\ W > 0 /\ a \in Nat
  BY SlotAssumption
<1>2. q \in Int /\ W * q <= - a
  BY <1>1
<1>3. FirstWindowFor(c) = (- q) * W
  BY DEF FirstWindowFor, CeilDiv
<1> HIDE DEF q, a, W
<1>4. q <= 0
  <2> SUFFICES ASSUME q >= 1 PROVE FALSE
    BY <1>2
  <2>1. W * q >= W
    BY <1>1, <1>2
  <2> QED BY <1>1, <1>2, <2>1
<1>5. - q \in Nat
  BY <1>2, <1>4
<1>6. (- q) * W \in Nat
  BY <1>1, <1>5, NatTimes
<1> QED BY <1>3, <1>5, <1>6, OnAWindow DEF W

\* Age is capped, and an older copy stays the older.
LEMMA Ageing ==
  ASSUME NEW a \in Nat, NEW b \in Nat, NEW c \in Nat, a <= b
  PROVE  Older(a, c) \in Nat /\ Older(a, c) <= c /\ Older(a, c) <= Older(b, c)
<1>0. c \in Int
  OBVIOUS
<1>1. ASSUME NEW x \in Int PROVE Min({x, c}) = IF x <= c THEN x ELSE c
  BY <1>0, MinMaxTwo
<1>2. a + 1 \in Int /\ b + 1 \in Int
  OBVIOUS
<1>3. /\ Older(a, c) = IF a + 1 <= c THEN a + 1 ELSE c
      /\ Older(b, c) = IF b + 1 <= c THEN b + 1 ELSE c
  BY <1>1, <1>2 DEF Older
<1> QED BY <1>3

\* The most a spin may pay is a whole amount.
LEMMA ExposureType ==
  ASSUME NEW s \in Spins
  PROVE  ExposureMicro(s) \in Nat
<1> DEFINE P == {Paytable[l] : l \in DOMAIN Paytable}
<1>1. DOMAIN Rank = {"P3", "P2", "FT", "MISS", "FOUL", "NONE"}
  BY DEF Rank
<1>2. IsFiniteSet(DOMAIN Paytable)
  <2>1. IsFiniteSet({2, 3}) /\ IsFiniteSet(DOMAIN Rank)
    <3>1. IsFiniteSet({"P3", "P2", "FT", "MISS", "FOUL", "NONE"})
      <4>1. /\ IsFiniteSet({"P3"}) /\ IsFiniteSet({"P2"}) /\ IsFiniteSet({"FT"})
            /\ IsFiniteSet({"MISS"}) /\ IsFiniteSet({"FOUL"}) /\ IsFiniteSet({"NONE"})
        BY FS_Singleton
      <4>2. IsFiniteSet({"P3"} \cup {"P2"})
        BY <4>1, FS_Union
      <4>3. IsFiniteSet(({"P3"} \cup {"P2"}) \cup {"FT"})
        BY <4>1, <4>2, FS_Union
      <4>4. IsFiniteSet((({"P3"} \cup {"P2"}) \cup {"FT"}) \cup {"MISS"})
        BY <4>1, <4>3, FS_Union
      <4>5. IsFiniteSet(((({"P3"} \cup {"P2"}) \cup {"FT"}) \cup {"MISS"}) \cup {"FOUL"})
        BY <4>1, <4>4, FS_Union
      <4>6. IsFiniteSet((((({"P3"} \cup {"P2"}) \cup {"FT"}) \cup {"MISS"}) \cup {"FOUL"}) \cup {"NONE"})
        BY <4>1, <4>5, FS_Union
      <4>7. (((({"P3"} \cup {"P2"}) \cup {"FT"}) \cup {"MISS"}) \cup {"FOUL"}) \cup {"NONE"}
              = {"P3", "P2", "FT", "MISS", "FOUL", "NONE"}
        BY Zenon
      <4> QED BY <4>6, <4>7
    <3>2. IsFiniteSet({2} \cup {3}) /\ {2} \cup {3} = {2, 3}
      BY FS_Singleton, FS_Union
    <3> QED BY <1>1, <3>1, <3>2
  <2>2. IsFiniteSet({2, 3} \X DOMAIN Rank)
    BY <2>1, FS_Product
  <2> QED BY <2>2, SlotAssumption
<1>3. P \in SUBSET Nat
  BY SlotAssumption
<1>4. IsFiniteSet(P)
  <2> DEFINE T == DOMAIN Paytable
  <2>1. [l \in T |-> Paytable[l]] \in Surjection(T, P)
    BY DEF Surjection
  <2> HIDE DEF P, T
  <2> QED BY <1>2, <2>1, FS_Surjection DEF T
<1>5. P # {}
  <2>1. <<2, "NONE">> \in DOMAIN Paytable
    BY <1>1, SlotAssumption
  <2> QED BY <2>1
<1> HIDE DEF P
<1>6. Max(P) \in Nat
  BY <1>3, <1>4, <1>5, MaxNat
<1>7. Stake[s] \in Nat /\ MaxPayout \in Nat
  BY SlotAssumption
<1> DEFINE x == Stake[s] * Max(P)
<1>8. x \in Nat
  BY <1>6, <1>7, NatTimes
<1> HIDE DEF x
<1>9. x \div 100 \in Nat
  BY <1>8
<1>10. ExposureMicro(s) = Min({MaxPayout, x \div 100})
  BY DEF ExposureMicro, P, x
<1>11. PICK y \in Nat : y = x \div 100
  BY <1>9
<1>12. Min({MaxPayout, y}) \in Nat
  BY <1>7, MinMaxTwo
<1> QED BY <1>10, <1>11, <1>12

\* A payout is a whole amount, whatever the reels show.
LEMMA PayoutType ==
  ASSUME NEW reels, NEW stake \in Nat
  PROVE  PayoutMicro(reels, stake) \in Nat
<1> DEFINE count(x) == Cardinality({i \in 1..RoundWindows : reels[i] = x})
           lines == {x \in DOMAIN Rank : count(x) >= 2}
           x0 == CHOOSE x \in lines : TRUE
<1>1. PayoutMicro(reels, stake)
        = IF lines = {} THEN 0 ELSE (stake * Paytable[<<count(x0), x0>>]) \div 100
  BY DEF PayoutMicro
<1>2. CASE lines = {}
  BY <1>1, <1>2
<1>3. CASE lines # {}
  <2>1. x0 \in lines
    BY <1>3
  <2>2. count(x0) \in Nat /\ count(x0) <= 3
    <3>1. IsFiniteSet(1..3) /\ Cardinality(1..3) = 3
      <4>1. 1 \in Int /\ 3 \in Int
        OBVIOUS
      <4>2. IsFiniteSet(1..3) /\ Cardinality(1..3) = IF 1 > 3 THEN 0 ELSE 3 - 1 + 1
        BY <4>1, FS_Interval, Zenon
      <4> QED BY <4>2
    <3>2. {i \in 1..RoundWindows : reels[i] = x0} \in SUBSET (1..3)
      BY DEF RoundWindows
    <3> QED BY <3>1, <3>2, FS_Subset, FS_CardinalityType
  <2> HIDE DEF count, x0
  <2>3. count(x0) \in {2, 3} /\ x0 \in DOMAIN Rank
    BY <2>1, <2>2
  <2> HIDE DEF lines
  <2>4. Paytable[<<count(x0), x0>>] \in Nat
    BY <2>3, SlotAssumption
  <2> DEFINE y == stake * Paytable[<<count(x0), x0>>]
  <2>5. y \in Nat
    BY <2>4, NatTimes
  <2> HIDE DEF y
  <2>6. y \div 100 \in Nat
    BY <2>5
  <2> QED BY <1>1, <1>3, <2>6 DEF y
<1> QED BY <1>2, <1>3

\* A spin whose windows are final is past its round, and each of its windows is
\* past its grace.
LEMMA FinalIsOver ==
  ASSUME NEW m, m.clock \in Int, NEW s \in Spins, spin[s].from \in Nat, SpinFinal(m, s)
  PROVE  /\ m.clock >= RoundEnd(spin[s].from)
         /\ \A i \in 1..RoundWindows : GraceOver(m.built, WindowsOf(spin[s].from)[i])
<1> DEFINE from == spin[s].from
<1>1. WindowSeconds \in Nat /\ ClockPastSeconds \in Nat
  BY SlotAssumption
<1>2. \A i \in 1..RoundWindows : WindowFinal(m, WindowsOf(from)[i])
  BY DEF SpinFinal
<1>3. 3 \in 1..RoundWindows /\ WindowsOf(from)[3] = from + 2 * WindowSeconds
  BY <1>1 DEF RoundWindows, WindowsOf
<1>4. PastWindow(from + 2 * WindowSeconds, m.clock, m.ended \/ m.ending)
  BY <1>2, <1>3 DEF WindowFinal
<1>5. RoundEnd(from) = from + 3 * WindowSeconds
  BY DEF RoundEnd, RoundWindows
<1>6. m.clock >= RoundEnd(from)
  BY <1>1, <1>4, <1>5 DEF PastWindow
<1> QED BY <1>2, <1>6 DEF WindowFinal

-----------------------------------------------------------------------------
(* Copies of the events, and the engine's jobs *)

\* Time ages every event of a copy.
LEMMA OlderCopy ==
  ASSUME NEW ev \in EventState
  PROVE  /\ OlderEvents(ev) \in EventState
         /\ \A e \in Events : /\ OlderEvents(ev)[e].report = ev[e].report
                              /\ OlderEvents(ev)[e].age = Older(ev[e].age, GraceSeconds)
<1>1. GraceSeconds \in Nat
  BY SlotAssumption
<1>2. ASSUME NEW e \in Events
      PROVE  /\ OlderEvents(ev)[e] \in [report: Report \cup {NoReport}, age: Nat]
             /\ OlderEvents(ev)[e].report = ev[e].report
             /\ OlderEvents(ev)[e].age = Older(ev[e].age, GraceSeconds)
  <2>1. ev[e] \in [report: Report \cup {NoReport}, age: Nat]
    BY DEF EventState
  <2>2. OlderEvents(ev)[e] = [ev[e] EXCEPT !.age = Older(@, GraceSeconds)]
    BY DEF OlderEvents
  <2>3. ev[e].age \in Nat /\ Older(ev[e].age, GraceSeconds) \in Nat
    BY <1>1, <2>1, Ageing
  <2> QED BY <2>1, <2>2, <2>3
<1>3. OlderEvents(ev) \in EventState
  <2>1. OlderEvents(ev) = [e \in Events |-> OlderEvents(ev)[e]]
    BY DEF OlderEvents
  <2> QED BY <1>2, <2>1 DEF EventState
<1> QED BY <1>2, <1>3

\* What a document says of an event is a report or nothing.
LEMMA DocumentType ==
  ASSUME Types, NEW d \in Documents
  PROVE  d \in [Events -> Report \cup {NoReport}]
BY DEF Types, Documents

\* What the upsert stores and what memory keeps are copies of the events.
LEMMA StoredCopies ==
  ASSUME Types, NEW d \in Documents
  PROVE  UpsertEvents(d) \in EventState /\ Merge(d) \in EventState
<1>1. d \in [Events -> Report \cup {NoReport}] /\ stored \in EventState /\ mem.known \in EventState
  BY DocumentType DEF Types, MemState
<1>2. ASSUME NEW e \in Events
      PROVE  /\ UpsertEvents(d)[e] \in [report: Report \cup {NoReport}, age: Nat]
             /\ Merge(d)[e] \in [report: Report \cup {NoReport}, age: Nat]
  <2>1. /\ d[e] \in Report \cup {NoReport}
        /\ stored[e] \in [report: Report \cup {NoReport}, age: Nat]
        /\ mem.known[e] \in [report: Report \cup {NoReport}, age: Nat]
    BY <1>1 DEF EventState
  <2>2. UpsertEvents(d)[e] \in {[report |-> d[e], age |-> 0], stored[e]}
    BY DEF UpsertEvents
  <2>3. Merge(d)[e] \in {mem.known[e], [report |-> d[e], age |-> 0],
                         [report |-> d[e], age |-> mem.known[e].age]}
    BY DEF Merge
  <2> HIDE DEF Report
  <2> QED BY <2>1, <2>2, <2>3
<1>3. /\ UpsertEvents(d) = [e \in Events |-> UpsertEvents(d)[e]]
      /\ Merge(d) = [e \in Events |-> Merge(d)[e]]
  BY DEF UpsertEvents, Merge
<1> QED BY <1>2, <1>3 DEF EventState

\* Nothing logged.
LEMMA UnloggedType ==
  /\ Unlogged \in EventState /\ NewMem \in MemState
  /\ Idle \in JobState /\ Idle.pc = "idle" /\ Idle.todo = {}
<1>1. GraceSeconds \in Nat
  BY SlotAssumption
<1>2. [report |-> NoReport, age |-> GraceSeconds] \in [report: Report \cup {NoReport}, age: Nat]
  BY <1>1
<1>3. Unlogged \in EventState
  BY <1>2 DEF Unlogged, EventState
<1>4. NewMem \in MemState
  <2> HIDE DEF EventState
  <2> QED BY <1>3 DEF NewMem, MemState
<1> QED BY <1>3, <1>4 DEF Idle, JobState

\* How a poll ends: at once, or with a list of open spins, all of them before
\* the game is ended.
LEMMA FinishOrIdleDoes ==
  ASSUME NEW m
  PROVE  LET j == FinishOrIdle(m)
         IN  /\ j \in JobState /\ j.pc \in {"idle", "void"} /\ j.mode \in {"none", "finish", "wait"}
             /\ j.todo # {} => j.pc = "void"
             /\ j.pc = "void" /\ j.mode = "finish" => j.todo = Open
             /\ j.todo \subseteq Open
<1>1. Open \subseteq Spins /\ Reached(m) \subseteq Open
  BY DEF Open, Reached
<1>2. CASE ~ m.ending
  BY <1>2, UnloggedType DEF FinishOrIdle, Idle
<1>3. CASE m.ending
  <2> DEFINE md == IF Reached(m) = {} THEN "finish" ELSE "wait"
             j == [Idle EXCEPT !.pc = "void", !.mode = md, !.todo = Open \ Reached(m)]
  <2>1. FinishOrIdle(m) = j
    BY <1>3 DEF FinishOrIdle
  <2>2. j \in JobState /\ j.pc = "void" /\ j.mode = md /\ j.todo = Open \ Reached(m)
    BY <1>1 DEF Idle, JobState
  <2> QED BY <1>1, <2>1, <2>2
<1> QED BY <1>2, <1>3

-----------------------------------------------------------------------------
(* What a step does to the spins *)

\* Wallets, counters and the spin rows change only when a spin is placed,
\* settled or voided.
LEMMA SpinWriters ==
  ASSUME Next
  PROVE  \/ \E s \in Spins : PlaceSpin(s)
         \/ \E s \in Spins : SettleOne(s) /\ Claim(s)
         \/ \E s \in Spins : VoidOne(s) /\ Claim(s)
         \/ AdminVoid
         \/ UNCHANGED spinVars
BY DEF Next, Poll, Tick, Whistle, Log, CloseFixture, PollBegin, FetchOk, FetchFails,
       ResumeServicePause, UpdateClock, SettleDone, VoidDone, StoreEvents, SettleOne, VoidOne,
       StatementFails, Restart, AdminPause, AdminResume, spinVars

-----------------------------------------------------------------------------
(* Types *)

\* The parts of the state the steps below rest on.
LEMMA Parts ==
  ASSUME Types
  PROVE  /\ now \in 0..(NeverStartedAfter + 1) /\ faults \in 0..MaxFaults /\ MaxFaults \in Nat
         /\ NeverStartedAfter \in Nat
         /\ play \in [clock: 0..MatchSeconds, phase: {"before", "on", "over"}]
         /\ play.clock \in Nat /\ play.clock <= MatchSeconds /\ MatchSeconds \in Nat
         /\ listed \in {"live", "closed", "cancelled"}
         /\ scout \in [Events -> Report \cup {NoReport}] /\ stored \in EventState
         /\ game \in GameState /\ mem \in MemState /\ job \in JobState
         /\ mem.known \in EventState /\ mem.built \in EventState
         /\ job.todo \subseteq Spins /\ (job.todo # {} => job.pc \in {"settle", "void"})
         /\ loose \subseteq Spins /\ missed \in BOOLEAN /\ forgot \in BOOLEAN
         /\ FeedDarkVoidSeconds \in Nat
<1>1. MatchSeconds \in Nat /\ MaxFaults \in Nat /\ NeverStartedAfter \in Nat /\ FeedDarkVoidSeconds \in Nat
  BY SlotAssumption
<1>2. play.clock \in Nat /\ play.clock <= MatchSeconds
  BY <1>1 DEF Types
<1>3. mem.known \in EventState /\ mem.built \in EventState
  BY DEF Types, MemState
<1>4. job.todo \subseteq Spins
  BY DEF Types, JobState
<1> QED BY <1>1, <1>2, <1>3, <1>4 DEF Types

\* A reading of the clock, in memory and on the row.
LEMMA ClockTypes ==
  ASSUME Types
  PROVE  /\ WriteClock(game) \in GameState /\ WriteClock(game).clock = play.clock
         /\ WriteClock(game).status = game.status /\ WriteClock(game).pausedBy = game.pausedBy
         /\ WriteClock(game).note = game.note
         /\ ReadClock(mem) \in MemState /\ ReadClock(mem).clock = play.clock
         /\ ReadClock(mem).known = mem.known /\ ReadClock(mem).built = mem.built
         /\ ReadClock(mem).loaded = mem.loaded /\ ReadClock(mem).dark = mem.dark
<1>1. PICK on \in BOOLEAN : on = (play.phase = "on")
  OBVIOUS
<1>2. PICK over \in BOOLEAN : over = (play.phase = "over")
  OBVIOUS
<1>3. PICK c \in 0..MatchSeconds : c = play.clock
  BY Parts
<1>4. c \in -1..MatchSeconds /\ c \in Int /\ 0 \in 0..FeedDarkVoidSeconds
  BY <1>3, Parts
<1>5. WriteClock(game) = [game EXCEPT !.clock = c, !.running = on, !.age = 0]
  BY <1>1, <1>3 DEF WriteClock
<1>6. ReadClock(mem) = [mem EXCEPT !.clock = c, !.ended = over]
  BY <1>2, <1>3 DEF ReadClock
<1>7. game \in GameState /\ mem \in MemState
  BY Parts
<1>8. /\ WriteClock(game) \in GameState /\ WriteClock(game).clock = play.clock
      /\ WriteClock(game).status = game.status /\ WriteClock(game).pausedBy = game.pausedBy
      /\ WriteClock(game).note = game.note
  BY <1>3, <1>4, <1>5, <1>7 DEF GameState
<1>9. /\ ReadClock(mem) \in MemState /\ ReadClock(mem).clock = play.clock
      /\ ReadClock(mem).known = mem.known /\ ReadClock(mem).built = mem.built
      /\ ReadClock(mem).loaded = mem.loaded /\ ReadClock(mem).dark = mem.dark
  <2> HIDE DEF EventState
  <2> QED BY <1>3, <1>4, <1>6, <1>7 DEF MemState
<1> QED BY <1>8, <1>9

\* The clock and the fixture's own moves.
LEMMA FixtureTypes ==
  ASSUME Types,
         \/ Tick \/ Whistle \/ (\E e \in Events : \E r \in Reports[e] : Log(e, r))
         \/ \E st \in {"closed", "cancelled"} : CloseFixture(st)
  PROVE  Types'
<1>1. CASE Tick
  <2>1. now' \in 0..(NeverStartedAfter + 1)
    <3>1. NeverStartedAfter + 1 \in Nat /\ now \in Nat
      BY Parts
    <3>2. PICK top \in Nat : top = NeverStartedAfter + 1
      BY <3>1
    <3>3. \A a, c \in Nat : Older(a, c) \in Nat /\ Older(a, c) <= c
      <4> TAKE a, c \in Nat
      <4>1. a <= a
        OBVIOUS
      <4> QED BY <4>1, Ageing
    <3> QED BY <1>1, <3>1, <3>2, <3>3 DEF Tick
  <2>2. stored' \in EventState
    BY <1>1, Parts, OlderCopy DEF Tick
  <2>3. mem' \in MemState
    <3>1. OlderEvents(mem.known) \in EventState /\ OlderEvents(mem.built) \in EventState
      BY Parts, OlderCopy
    <3>2. mem.silence \in Nat /\ FeedDarkVoidSeconds \in Nat
      BY Parts DEF MemState
    <3>3. Older(mem.silence, FeedDarkVoidSeconds) \in Nat
      BY <3>2, Ageing
    <3>4. mem' = [mem EXCEPT !.known = OlderEvents(mem.known), !.built = OlderEvents(mem.built),
                             !.silence = Older(mem.silence, FeedDarkVoidSeconds)]
      BY <1>1 DEF Tick
    <3> HIDE DEF EventState
    <3> QED BY <3>1, <3>3, <3>4, Parts DEF MemState
  <2>4. game' \in GameState
    <3>1. game.age \in Nat /\ FeedDarkVoidSeconds \in Nat
      BY Parts DEF GameState
    <3>2. /\ Older(game.age, FeedDarkVoidSeconds) \in Nat
          /\ Older(game.age, FeedDarkVoidSeconds) <= FeedDarkVoidSeconds
      BY <3>1, Ageing
    <3>3. game' = [game EXCEPT !.age = Older(game.age, FeedDarkVoidSeconds)]
      BY <1>1 DEF Tick
    <3> QED BY <3>1, <3>2, <3>3, Parts DEF GameState
  <2>5. play' \in [clock: 0..MatchSeconds, phase: {"before", "on", "over"}]
    BY <1>1, Parts DEF Tick
  <2> QED BY <1>1, <2>1, <2>2, <2>3, <2>4, <2>5, Parts DEF Tick, Types, history
<1>2. CASE Whistle
  <2>1. play' \in [clock: 0..MatchSeconds, phase: {"before", "on", "over"}]
    BY <1>2, Parts DEF Whistle
  <2> QED BY <1>2, <2>1, Parts DEF Whistle, Types, history
<1>3. ASSUME NEW e \in Events, NEW r \in Reports[e], Log(e, r)
      PROVE  Types'
  <2>1. r \in Report
    BY SlotAssumption DEF Report
  <2>2. scout' \in [Events -> Report \cup {NoReport}]
    BY <1>3, <2>1, Parts DEF Log
  <2> QED BY <1>3, <2>2, Parts DEF Log, Types, history
<1>4. ASSUME NEW st \in {"closed", "cancelled"}, CloseFixture(st)
      PROVE  Types'
  BY <1>4, Parts DEF CloseFixture, Types, history
<1> QED BY <1>1, <1>2, <1>3, <1>4

\* The operator, the players and a restart.
LEMMA OthersTypes ==
  ASSUME Types,
         \/ (\E s \in Spins : PlaceSpin(s)) \/ Restart \/ AdminPause \/ AdminResume \/ AdminVoid
  PROVE  Types'
<1>1. ASSUME NEW s \in Spins, PlaceSpin(s)
      PROVE  Types'
  <2>1. loose' \subseteq Spins
    BY <1>1, Parts DEF PlaceSpin
  <2> QED BY <1>1, <2>1, Parts DEF PlaceSpin, Types, feedVars
<1>2. CASE Restart
  <2>1. mem' \in MemState /\ job' \in JobState /\ job'.todo = {}
    BY <1>2, UnloggedType DEF Restart
  <2>2. faults' \in 0..MaxFaults
    BY <1>2, Parts DEF Restart
  <2>3. forgot' \in BOOLEAN /\ missed' \in BOOLEAN
    BY <1>2 DEF Restart
  <2> QED BY <1>2, <2>1, <2>2, <2>3, Parts DEF Restart, Types, feedVars
<1>3. CASE AdminPause \/ AdminResume \/ AdminVoid
  <2>1. game' \in GameState
    BY <1>3, Parts DEF AdminPause, AdminResume, AdminVoid, GameState
  <2> QED BY <1>3, <2>1, Parts DEF AdminPause, AdminResume, AdminVoid, Types, feedVars, history
<1> QED BY <1>1, <1>2, <1>3

\* A poll's statements up to the windows.
LEMMA PollTypes ==
  ASSUME Types,
         \/ PollBegin \/ FetchOk \/ FetchFails \/ ResumeServicePause \/ UpdateClock
         \/ \E d \in Documents : StoreEvents(d)
  PROVE  Types'
<1>1. CASE PollBegin
  <2>1. Loaded(mem) \in MemState
    <3> HIDE DEF EventState
    <3> QED BY Parts DEF Loaded, MemState
  <2>2. mem' \in MemState
    <3>1. mem' \in {mem, Loaded(mem), [Loaded(mem) EXCEPT !.ending = TRUE]}
      BY <1>1 DEF PollBegin
    <3>2. [Loaded(mem) EXCEPT !.ending = TRUE] \in MemState
      <4> HIDE DEF EventState
      <4> QED BY <2>1 DEF MemState
    <3> QED BY <2>1, <3>1, <3>2, Parts
  <2>3. RowView \in {"none", "scheduled", "live", "paused", "ended", "voided", "feed_dark"}
    BY Parts DEF RowView, GameState
  <2>4. Open \in SUBSET Spins
    BY DEF Open
  <2>5. job' \in JobState /\ (job'.todo # {} => job'.pc = "void")
    BY <1>1, <2>3, <2>4 DEF PollBegin, Idle, JobState
  <2> QED BY <1>1, <2>2, <2>5, Parts DEF PollBegin, Types, feedVars
<1>2. CASE FetchOk
  <2>1. mem' \in MemState
    <3> HIDE DEF EventState
    <3> QED BY <1>2, Parts DEF FetchOk, MemState
  <2>2. job' \in JobState /\ job'.todo = {}
    BY <1>2, Parts DEF FetchOk, JobState
  <2> QED BY <1>2, <2>1, <2>2, Parts DEF FetchOk, Types, feedVars, history
<1>3. CASE FetchFails
  <2>1. job' \in JobState /\ (job'.todo # {} => job'.pc = "void")
    <3>1. CASE job' = FinishOrIdle(mem)
      BY <3>1, FinishOrIdleDoes
    <3>2. CASE job' = [Idle EXCEPT !.pc = "void", !.mode = "dark", !.row = job.row, !.todo = Open]
      <4>1. job.row \in {"none", "scheduled", "live", "paused", "ended", "voided", "feed_dark"}
        BY Parts DEF JobState
      <4>2. Open \in SUBSET Spins
        BY DEF Open
      <4> QED BY <3>2, <4>1, <4>2 DEF Idle, JobState
    <3> QED BY <1>3, <3>1, <3>2 DEF FetchFails
  <2>2. loose' \subseteq Spins
    BY <1>3, Parts DEF FetchFails
  <2> QED BY <1>3, <2>1, <2>2, Parts DEF FetchFails, Types, feedVars
<1>4. CASE ResumeServicePause
  <2>1. game' \in GameState
    BY <1>4, Parts DEF ResumeServicePause, GameState
  <2>2. job' \in JobState /\ job'.todo = {}
    BY <1>4, Parts DEF ResumeServicePause, JobState
  <2> QED BY <1>4, <2>1, <2>2, Parts DEF ResumeServicePause, Types, feedVars, history
<1>5. CASE UpdateClock
  <2>1. game' \in GameState
    <3>1. WriteClock(game) \in GameState
      BY ClockTypes
    <3> QED BY <1>5, <3>1 DEF UpdateClock, GameState
  <2>2. mem' \in MemState
    <3>1. Rebuilt(mem) \in EventState
      BY Parts DEF Rebuilt
    <3>2. ReadClock(mem) \in MemState
      BY ClockTypes
    <3>3. mem' = [ReadClock(mem) EXCEPT !.ending = @ \/ play.phase = "over", !.built = Rebuilt(mem)]
      BY <1>5 DEF UpdateClock
    <3> HIDE DEF EventState
    <3> QED BY <3>1, <3>2, <3>3 DEF MemState
  <2>3. job' \in JobState /\ job'.pc = "settle"
    <3> DEFINE m == [ReadClock(mem) EXCEPT !.ending = @ \/ play.phase = "over", !.built = Rebuilt(mem)]
               S == {s \in Open : SpinFinal(m, s)}
    <3>1. S \in SUBSET Spins
      BY DEF Open
    <3>2. job' = [Idle EXCEPT !.pc = "settle", !.todo = S]
      BY <1>5 DEF UpdateClock
    <3> HIDE DEF S
    <3> QED BY <3>1, <3>2 DEF Idle, JobState
  <2>4. missed' \in BOOLEAN
    BY <1>5 DEF UpdateClock
  <2> QED BY <1>5, <2>1, <2>2, <2>3, <2>4, Parts DEF UpdateClock, Types, feedVars
<1>6. ASSUME NEW d \in Documents, StoreEvents(d)
      PROVE  Types'
  <2>1. mem' \in MemState /\ stored' \in EventState
    <3>1. Merge(d) \in EventState /\ UpsertEvents(d) \in EventState
      BY StoredCopies
    <3> HIDE DEF EventState
    <3> QED BY <1>6, <3>1, Parts DEF StoreEvents, MemState
  <2>2. job' \in JobState /\ job'.todo = {}
    BY <1>6, Parts DEF StoreEvents, JobState
  <2> QED BY <1>6, <2>1, <2>2, Parts DEF StoreEvents, Types, feedVars, history
<1> QED BY <1>1, <1>2, <1>3, <1>4, <1>5, <1>6

\* The lists a poll works off, and the statements that fail.
LEMMA ListTypes ==
  ASSUME Types,
         \/ SettleDone \/ VoidDone \/ StatementFails \/ \E s \in Spins : SettleOne(s) \/ VoidOne(s)
  PROVE  Types'
<1>1. CASE SettleDone
  <2>1. job' \in JobState /\ (job'.todo # {} => job'.pc = "void")
    BY <1>1, FinishOrIdleDoes DEF SettleDone
  <2>2. loose' \subseteq Spins
    BY <1>1, Parts DEF SettleDone
  <2> QED BY <1>1, <2>1, <2>2, Parts DEF SettleDone, Types, feedVars
<1>2. CASE VoidDone
  <2>1. job' \in JobState /\ (job'.todo # {} => job'.pc = "void")
    <3>1. job' \in {Idle, FinishOrIdle(mem)}
      BY <1>2 DEF VoidDone
    <3> QED BY <3>1, FinishOrIdleDoes, UnloggedType
  <2>2. game' \in GameState
    BY <1>2, Parts DEF VoidDone, GameState
  <2>3. mem' \in MemState
    <3> HIDE DEF EventState
    <3> QED BY <1>2, Parts DEF VoidDone, MemState
  <2>4. loose' \subseteq Spins
    BY <1>2, Parts DEF VoidDone
  <2> QED BY <1>2, <2>1, <2>2, <2>3, <2>4, Parts DEF VoidDone, Types, feedVars
<1>3. ASSUME NEW s \in Spins, SettleOne(s) \/ VoidOne(s)
      PROVE  Types'
  <2>1. job' \in JobState /\ job'.pc \in {"settle", "void"}
    BY <1>3, Parts DEF SettleOne, VoidOne, JobState
  <2> QED BY <1>3, <2>1, Parts DEF SettleOne, VoidOne, Types, feedVars, history
<1>4. CASE StatementFails
  <2>1. faults' \in 0..MaxFaults
    BY <1>4, Parts DEF StatementFails
  <2>2. job' \in JobState /\ (job'.todo # {} => job'.pc \in {"settle", "void"})
    <3>1. CASE job' = Idle \/ job' = FinishOrIdle(mem)
      BY <3>1, FinishOrIdleDoes, UnloggedType
    <3>2. CASE job.pc = "resume" /\ job' = [job EXCEPT !.pc = "store"]
      BY <3>2, Parts DEF JobState
    <3>3. ASSUME NEW S \in (SUBSET job.todo) \ {{}}, job' = [job EXCEPT !.todo = @ \ S]
          PROVE  job' \in JobState /\ (job'.todo # {} => job'.pc \in {"settle", "void"})
      BY <3>3, Parts DEF JobState
    <3> QED BY <1>4, <3>1, <3>2, <3>3 DEF StatementFails
  <2>3. game' \in GameState
    <3>1. WriteClock(game) \in GameState
      BY ClockTypes
    <3>2. game' = game \/ game' = WriteClock(game)
      BY <1>4 DEF StatementFails
    <3> QED BY <3>1, <3>2, Parts
  <2>4. mem' \in MemState
    <3>1. ReadClock(mem) \in MemState
      BY ClockTypes
    <3>3. [mem EXCEPT !.dark = TRUE] \in MemState
      <4> HIDE DEF EventState
      <4> QED BY Parts DEF MemState
    <3>2. mem' \in {mem, ReadClock(mem), [mem EXCEPT !.dark = TRUE]}
      BY <1>4 DEF StatementFails
    <3> QED BY <3>1, <3>2, <3>3, Parts
  <2>5. stored' \in EventState
    <3>1. stored' \in {stored} \cup {UpsertEvents(d) : d \in Documents}
      BY <1>4 DEF StatementFails
    <3> QED BY <3>1, StoredCopies, Parts
  <2>6. loose' \subseteq Spins
    BY <1>4, Parts DEF StatementFails
  <2>7. missed' \in BOOLEAN /\ forgot' \in BOOLEAN
    BY <1>4, Parts DEF StatementFails
  <2> QED BY <1>4, <2>1, <2>2, <2>3, <2>4, <2>5, <2>6, <2>7, Parts DEF StatementFails, Types, feedVars
<1> QED BY <1>1, <1>2, <1>3, <1>4

\* Every step keeps the types.
LEMMA TypesStep ==
  ASSUME Types, Next
  PROVE  Types'
BY FixtureTypes, OthersTypes, PollTypes, ListTypes DEF Next, Poll

-----------------------------------------------------------------------------
(* The rows of the spins *)

\* A new spin starts on a window after the clock.
LEMMA PlaceRow ==
  ASSUME Types, Rows, NEW s \in Spins, PlaceSpin(s)
  PROVE  \E from \in Nat :
           /\ from % WindowSeconds = 0
           /\ spin' = [spin EXCEPT ![s] = [status |-> "open", from |-> from,
                                           exposure |-> ExposureMicro(s), payout |-> 0]]
<1>1. EstimatedClock \in Nat
  <2>1. game.clock \in Nat /\ game.age \in Nat
    BY Parts DEF PlaceSpin, ClockIsFresh, GameState
  <2> QED BY <2>1 DEF EstimatedClock
<1>2. FirstWindowFor(EstimatedClock) \in Nat /\ FirstWindowFor(EstimatedClock) % WindowSeconds = 0
  BY <1>1, FirstWindow
<1> QED BY <1>2 DEF PlaceSpin

\* A settled spin is won or lost for a whole amount.
LEMMA SettleRow ==
  ASSUME Types, Rows, NEW s \in Spins, SettleOne(s), Claim(s)
  PROVE  \E p \in Nat :
           /\ p = PayoutMicro(Reels(mem.built, spin[s].from), Stake[s])
           /\ SettleSpin(s, p)
           /\ spin' = [spin EXCEPT ![s] = [status |-> IF p > 0 THEN "won" ELSE "lost", from |-> @.from,
                                           exposure |-> @.exposure, payout |-> p]]
<1> DEFINE p == PayoutMicro(Reels(mem.built, spin[s].from), Stake[s])
<1>1. p \in Nat
  BY SlotAssumption, PayoutType
<1>2. SettleSpin(s, p)
  BY DEF SettleOne
<1> HIDE DEF p
<1>3. spin' = [spin EXCEPT ![s].status = IF p > 0 THEN "won" ELSE "lost", ![s].payout = p]
  BY <1>2 DEF SettleSpin
<1>4. spin' = [spin EXCEPT ![s] = [status |-> IF p > 0 THEN "won" ELSE "lost", from |-> @.from,
                                   exposure |-> @.exposure, payout |-> p]]
  <2>1. PICK st : st = IF p > 0 THEN "won" ELSE "lost"
    OBVIOUS
  <2>2. spin \in [Spins -> SpinState] /\ spin[s] \in SpinState
    BY DEF Rows
  <2>3. spin' = [spin EXCEPT ![s].status = st, ![s].payout = p]
    BY <1>3, <2>1
  <2>4. /\ spin'[s] = [[spin[s] EXCEPT !.status = st] EXCEPT !.payout = p]
        /\ \A x \in Spins : x # s => spin'[x] = spin[x]
        /\ spin' = [x \in Spins |-> spin'[x]]
    BY <2>2, <2>3
  <2>5. spin'[s] = [status |-> st, from |-> spin[s].from, exposure |-> spin[s].exposure, payout |-> p]
    BY <2>2, <2>4 DEF SpinState
  <2> QED BY <2>1, <2>2, <2>4, <2>5
<1> QED BY <1>1, <1>2, <1>4 DEF p

\* The rows of spins that are voided.
LEMMA VoidRow ==
  ASSUME Rows, NEW S \in SUBSET Spins, VoidSpins(S), NEW s \in Spins
  PROVE  /\ spin'[s] \in SpinState
         /\ spin'[s].status = IF s \in S THEN "void" ELSE spin[s].status
         /\ spin'[s].from = spin[s].from /\ spin'[s].exposure = spin[s].exposure
         /\ spin'[s].payout = spin[s].payout
<1>1. spin[s] \in SpinState
  BY DEF Rows
<1>2. spin'[s] = IF s \in S THEN [spin[s] EXCEPT !.status = "void"] ELSE spin[s]
  BY DEF VoidSpins
<1> QED BY <1>1, <1>2 DEF SpinState

\* Only open spins are voided.
LEMMA Voided ==
  ASSUME Next
  PROVE  /\ \A s \in Spins : VoidOne(s) /\ Claim(s) => VoidSpins({s}) /\ {s} \subseteq Open
         /\ AdminVoid => VoidSpins(Open)
BY DEF VoidOne, Claim, Open, AdminVoid

\* Every step keeps the rows in order.
LEMMA RowsStep ==
  ASSUME Types, Rows, Next
  PROVE  Rows'
<1>1. ASSUME NEW s \in Spins, PlaceSpin(s)
      PROVE  Rows'
  <2>1. PICK from \in Nat :
           /\ from % WindowSeconds = 0
           /\ spin' = [spin EXCEPT ![s] = [status |-> "open", from |-> from,
                                           exposure |-> ExposureMicro(s), payout |-> 0]]
    BY <1>1, PlaceRow
  <2>2. [status |-> "open", from |-> from, exposure |-> ExposureMicro(s), payout |-> 0] \in SpinState
    BY ExposureType DEF SpinState
  <2>3. spin' \in [Spins -> SpinState]
    BY <2>1, <2>2 DEF Rows
  <2>4. ASSUME NEW x \in Spins
        PROVE  /\ spin'[x].from % WindowSeconds = 0
               /\ spin'[x].payout > 0 <=> spin'[x].status = "won"
    <3>1. CASE x = s
      BY <2>1, <3>1 DEF Rows
    <3>2. CASE x # s
      BY <2>1, <3>2 DEF Rows
    <3> QED BY <3>1, <3>2
  <2> QED BY <2>3, <2>4 DEF Rows
<1>2. ASSUME NEW s \in Spins, SettleOne(s), Claim(s)
      PROVE  Rows'
  <2>1. PICK p \in Nat :
           spin' = [spin EXCEPT ![s] = [status |-> IF p > 0 THEN "won" ELSE "lost", from |-> @.from,
                                        exposure |-> @.exposure, payout |-> p]]
    BY <1>2, SettleRow
  <2>2. spin[s] \in SpinState /\ spin \in [Spins -> SpinState]
    BY DEF Rows
  <2>3. [status |-> IF p > 0 THEN "won" ELSE "lost", from |-> spin[s].from,
         exposure |-> spin[s].exposure, payout |-> p] \in SpinState
    BY <2>2 DEF SpinState
  <2>4. spin' \in [Spins -> SpinState]
    BY <2>1, <2>2, <2>3
  <2>5. ASSUME NEW x \in Spins
        PROVE  /\ spin'[x].from % WindowSeconds = 0
               /\ spin'[x].payout > 0 <=> spin'[x].status = "won"
    <3>1. CASE x = s
      BY <2>1, <2>2, <3>1 DEF Rows
    <3>2. CASE x # s
      BY <2>1, <2>2, <3>2 DEF Rows
    <3> QED BY <3>1, <3>2
  <2> QED BY <2>4, <2>5 DEF Rows
<1>3. ASSUME NEW S \in SUBSET Open, VoidSpins(S)
      PROVE  Rows'
  <2>1. S \in SUBSET Spins /\ \A s \in S : spin[s].status = "open"
    BY DEF Open
  <2>2. \A s \in Spins : spin'[s] \in SpinState
    BY <1>3, <2>1, VoidRow
  <2>3. spin' \in [Spins -> SpinState]
    <3>1. spin' = [s \in Spins |-> spin'[s]]
      BY <1>3 DEF VoidSpins
    <3> QED BY <2>2, <3>1
  <2>4. ASSUME NEW s \in Spins
        PROVE  /\ spin'[s].from % WindowSeconds = 0
               /\ spin'[s].payout > 0 <=> spin'[s].status = "won"
    <3>1. /\ spin'[s].status = IF s \in S THEN "void" ELSE spin[s].status
          /\ spin'[s].from = spin[s].from /\ spin'[s].payout = spin[s].payout
      BY <1>3, <2>1, VoidRow
    <3> QED BY <2>1, <3>1 DEF Rows
  <2> QED BY <2>3, <2>4 DEF Rows
<1>4. CASE UNCHANGED spinVars
  BY <1>4 DEF Rows, spinVars
<1> QED BY <1>1, <1>2, <1>3, <1>4, SpinWriters, Voided

\* The open spins after a step: a placement adds one, the others take some away;
\* a spin that was placed keeps its round.
LEMMA OpenStep ==
  ASSUME Types, Rows, Next
  PROVE  /\ \/ \E s \in Spins : PlaceSpin(s) /\ s \notin Open /\ Open' = Open \cup {s}
            \/ \E s \in Spins : (SettleOne(s) \/ VoidOne(s)) /\ Claim(s) /\ Open' = Open \ {s}
            \/ AdminVoid /\ Open' = {}
            \/ UNCHANGED spinVars /\ Open' = Open
         /\ \A s \in Spins : spin[s].status # "absent" =>
              spin'[s].status # "absent" /\ spin'[s].from = spin[s].from
<1>0. spin \in [Spins -> SpinState]
  BY DEF Rows
<1>1. ASSUME NEW s \in Spins, PlaceSpin(s)
      PROVE  /\ s \notin Open /\ Open' = Open \cup {s}
             /\ \A x \in Spins : spin[x].status # "absent" =>
                  spin'[x].status # "absent" /\ spin'[x].from = spin[x].from
  <2>1. PICK from \in Nat :
           spin' = [spin EXCEPT ![s] = [status |-> "open", from |-> from,
                                        exposure |-> ExposureMicro(s), payout |-> 0]]
    BY <1>1, PlaceRow
  <2>2. spin[s].status = "absent"
    BY <1>1 DEF PlaceSpin
  <2>3. ASSUME NEW x \in Spins
        PROVE  /\ x # s => spin'[x] = spin[x]
               /\ x = s => spin'[x].status = "open"
    BY <1>0, <2>1
  <2>4. s \notin Open /\ Open' = Open \cup {s}
    BY <2>2, <2>3 DEF Open
  <2> QED BY <2>2, <2>3, <2>4
<1>2. ASSUME NEW s \in Spins, SettleOne(s), Claim(s)
      PROVE  /\ Open' = Open \ {s}
             /\ \A x \in Spins : spin[x].status # "absent" =>
                  spin'[x].status # "absent" /\ spin'[x].from = spin[x].from
  <2>1. PICK p \in Nat :
           spin' = [spin EXCEPT ![s] = [status |-> IF p > 0 THEN "won" ELSE "lost", from |-> @.from,
                                        exposure |-> @.exposure, payout |-> p]]
    BY <1>2, SettleRow
  <2>2. ASSUME NEW x \in Spins
        PROVE  /\ x # s => spin'[x] = spin[x]
               /\ x = s => spin'[x].status \in {"won", "lost"} /\ spin'[x].from = spin[x].from
    BY <1>0, <2>1
  <2>3. Open' = Open \ {s}
    BY <2>2 DEF Open
  <2> QED BY <2>2, <2>3
<1>3. ASSUME NEW S \in SUBSET Open, VoidSpins(S)
      PROVE  /\ Open' = Open \ S
             /\ \A x \in Spins : spin[x].status # "absent" =>
                  spin'[x].status # "absent" /\ spin'[x].from = spin[x].from
  <2>1. S \in SUBSET Spins
    BY DEF Open
  <2>2. \A s \in Spins : /\ spin'[s].status = IF s \in S THEN "void" ELSE spin[s].status
                         /\ spin'[s].from = spin[s].from
    BY <1>3, <2>1, VoidRow
  <2>3. Open' = Open \ S
    BY <2>2 DEF Open
  <2> QED BY <2>2, <2>3
<1>4. ASSUME UNCHANGED spinVars
      PROVE  spin' = spin /\ Open' = Open
  BY <1>4 DEF spinVars, Open
<1>5. ASSUME NEW s \in Spins, VoidOne(s), Claim(s)
      PROVE  /\ Open' = Open \ {s}
             /\ \A x \in Spins : spin[x].status # "absent" =>
                  spin'[x].status # "absent" /\ spin'[x].from = spin[x].from
  BY <1>3, <1>5, Voided
<1>6. ASSUME AdminVoid
      PROVE  /\ Open' = {}
             /\ \A x \in Spins : spin[x].status # "absent" =>
                  spin'[x].status # "absent" /\ spin'[x].from = spin[x].from
  BY <1>3, <1>6, Voided
<1> QED BY <1>1, <1>2, <1>4, <1>5, <1>6, SpinWriters

-----------------------------------------------------------------------------
(* No open spin is forgotten *)

\* What a step does to the game row's clock and status.
LEMMA GameSteps ==
  ASSUME Types, Next
  PROVE  /\ game.clock # -1 => game'.clock # -1
         /\ game'.status = "scheduled" => game.status = "scheduled" \/ game.clock = -1
         /\ Active' => Active
         /\ ~ Active' /\ Active =>
              AdminVoid \/ (VoidDone /\ job.mode \in {"finish", "cancel"} /\ job' = Idle /\ loose' = loose)
<1>1. CASE game' = game
  BY <1>1 DEF Active
<1>2. CASE Tick
  BY <1>2, Parts DEF Tick, Active, GameState
<1>3. CASE ResumeServicePause
  BY <1>3, Parts DEF ResumeServicePause, Active, GameState, Resumable, ServicePaused
<1>4. CASE UpdateClock
  <2>1. /\ WriteClock(game) \in GameState /\ WriteClock(game).clock = play.clock
        /\ WriteClock(game).status = game.status /\ play.clock \in Nat
    BY ClockTypes, Parts
  <2>2. game' = [WriteClock(game) EXCEPT
                   !.status = IF Starts /\ @ = "scheduled" THEN "live" ELSE @]
    BY <1>4 DEF UpdateClock
  <2>3. /\ game'.clock = play.clock
        /\ game'.status = IF Starts /\ game.status = "scheduled" THEN "live" ELSE game.status
    BY <2>1, <2>2 DEF GameState
  <2> QED BY <2>1, <2>3 DEF Active
<1>5. CASE VoidDone
  BY <1>5, Parts DEF VoidDone, Active, GameState
<1>6. CASE StatementFails
  <2>1. game' = game \/ game' = WriteClock(game)
    BY <1>6 DEF StatementFails
  <2> QED BY <1>1, <2>1, ClockTypes, Parts DEF Active
<1>7. CASE AdminPause \/ AdminResume \/ AdminVoid
  BY <1>7, Parts DEF AdminPause, AdminResume, AdminVoid, Active, GameState
<1>8. \/ game' = game \/ Tick \/ ResumeServicePause \/ UpdateClock \/ VoidDone \/ StatementFails
      \/ AdminPause \/ AdminResume \/ AdminVoid
  BY DEF Next, Poll, Whistle, Log, CloseFixture, PlaceSpin, PollBegin, FetchOk, FetchFails,
         SettleDone, StoreEvents, SettleOne, VoidOne, Restart
<1> QED BY <1>1, <1>2, <1>3, <1>4, <1>5, <1>6, <1>7, <1>8

\* What a step that touches no spin does to the poll's list.
LEMMA ListSteps ==
  ASSUME Types, Rows, Next, UNCHANGED spinVars
  PROVE  \/ job' = job /\ loose' = loose
         \/ job'.pc = "void" /\ job'.mode = "cancel" /\ job'.todo = Open
         \/ job'.pc = "void" /\ job'.mode = "finish" /\ (job'.todo = Open \/ game.status = "scheduled")
         \/ job'.pc = "void" /\ job'.mode \notin {"finish", "cancel"}
         \/ job'.pc # "void"
         \/ /\ job.pc = "void" /\ job'.pc = "void" /\ job'.mode = job.mode
            /\ loose' = loose
            /\ \E s \in Spins : s \notin Open /\ job'.todo = job.todo \ {s}
         \/ /\ job.pc = "void" /\ job'.pc = "void" /\ job'.mode = job.mode
            /\ \E S \in SUBSET Spins : loose' = loose \cup S /\ job'.todo = job.todo \ S
<1>0. Idle.pc = "idle"
  BY UnloggedType
<1>1. CASE PollBegin
  BY <1>1 DEF PollBegin, Idle, NeverStarted
<1>2. CASE FetchFails
  BY <1>2, FinishOrIdleDoes DEF FetchFails, Idle
<1>3. CASE SettleDone
  BY <1>3, FinishOrIdleDoes DEF SettleDone
<1>4. CASE VoidDone
  BY <1>0, <1>4, FinishOrIdleDoes DEF VoidDone
<1>5. CASE StatementFails
  <2>1. CASE job' = Idle
    BY <1>0, <2>1
  <2>2. CASE job' = FinishOrIdle(mem)
    BY <2>2, FinishOrIdleDoes
  <2>3. CASE job.pc = "resume" /\ job' = [job EXCEPT !.pc = "store"]
    BY <2>3, Parts DEF JobState
  <2>4. ASSUME NEW S \in (SUBSET job.todo) \ {{}}, job' = [job EXCEPT !.todo = @ \ S],
               loose' = IF job.pc = "void" THEN loose \cup S ELSE loose
        PROVE  \/ job'.pc # "void"
               \/ /\ job.pc = "void" /\ job'.pc = "void" /\ job'.mode = job.mode
                  /\ \E T \in SUBSET Spins : loose' = loose \cup T /\ job'.todo = job.todo \ T
    <3>1. /\ job'.pc = job.pc /\ job'.mode = job.mode /\ job'.todo = job.todo \ S
          /\ S \in SUBSET Spins
      BY <2>4, Parts DEF JobState
    <3> QED BY <2>4, <3>1
  <2> QED BY <1>5, <2>1, <2>2, <2>3, <2>4 DEF StatementFails
<1>6. CASE Restart
  BY <1>0, <1>6 DEF Restart
<1>7. ASSUME NEW s \in Spins, SettleOne(s)
      PROVE  job'.pc # "void"
  BY <1>7, Parts DEF SettleOne, JobState
<1>8. ASSUME NEW s \in Spins, VoidOne(s)
      PROVE  /\ job.pc = "void" /\ job'.pc = "void" /\ job'.mode = job.mode
             /\ loose' = loose /\ job'.todo = job.todo \ {s}
  BY <1>8, Parts DEF VoidOne, JobState, history
<1>9. ASSUME NEW s \in Spins, VoidOne(s)
      PROVE  s \notin Open
  <2>1. spin' = spin
    BY DEF spinVars
  <2>2. ASSUME Claim(s) PROVE FALSE
    <3>1. VoidSpins({s}) /\ {s} \in SUBSET Spins
      BY <1>9, <2>2, Voided
    <3>2. spin'[s].status = "void"
      BY <3>1, VoidRow
    <3> QED BY <2>1, <2>2, <3>2 DEF Claim
  <2> QED BY <2>2 DEF Claim, Open
<1>10. CASE FetchOk \/ ResumeServicePause \/ UpdateClock \/ \E d \in Documents : StoreEvents(d)
  BY <1>10, Parts DEF FetchOk, ResumeServicePause, UpdateClock, StoreEvents, JobState, Idle
<1>11. CASE job' = job /\ loose' = loose
  BY <1>11
<1>12. CASE \E s \in Spins : PlaceSpin(s)
  <2>1. PICK s \in Spins : PlaceSpin(s)
    BY <1>12
  <2>2. PICK from \in Nat :
           spin' = [spin EXCEPT ![s] = [status |-> "open", from |-> from,
                                        exposure |-> ExposureMicro(s), payout |-> 0]]
    BY <2>1, PlaceRow
  <2>3. spin' = spin /\ spin \in [Spins -> SpinState] /\ spin[s].status = "absent"
    BY <2>1 DEF spinVars, Rows, PlaceSpin
  <2> QED BY <2>2, <2>3
<1>13. \/ job' = job /\ loose' = loose
       \/ PollBegin \/ FetchFails \/ SettleDone \/ VoidDone \/ StatementFails \/ Restart
       \/ (\E s \in Spins : SettleOne(s)) \/ (\E s \in Spins : VoidOne(s))
       \/ (FetchOk \/ ResumeServicePause \/ UpdateClock \/ \E d \in Documents : StoreEvents(d))
       \/ \E s \in Spins : PlaceSpin(s)
  BY DEF Next, Poll, Tick, Whistle, Log, CloseFixture, AdminPause, AdminResume, AdminVoid, history
<1> HIDE DEF Next
<1> QED BY <1>1, <1>2, <1>3, <1>4, <1>5, <1>6, <1>7, <1>8, <1>9, <1>10, <1>11, <1>12, <1>13

\* Every step keeps the list.
LEMMA PolledStep ==
  ASSUME Types, Rows, Polled, Next
  PROVE  Polled'
<1>1. ASSUME NEW s \in Spins, PlaceSpin(s), Open' = Open \cup {s}
      PROVE  Polled'
  <2>1. /\ game' = game /\ job' = job /\ game.status = "live" /\ game.clock # -1
        /\ loose' = IF job.pc = "void" THEN loose \cup {s} ELSE loose
    BY <1>1 DEF PlaceSpin, ClockIsFresh, Listed
  <2>2. Active'
    BY <2>1 DEF Active
  <2> QED BY <1>1, <2>1, <2>2 DEF Polled
<1>2. ASSUME NEW s \in Spins, SettleOne(s) \/ VoidOne(s), Open' = Open \ {s}
      PROVE  Polled'
  <2>1. /\ game' = game /\ loose' = loose /\ job.pc \in {"settle", "void"} /\ job'.pc = job.pc
        /\ job'.mode = job.mode /\ job'.todo = job.todo \ {s}
    BY <1>2, Parts DEF SettleOne, VoidOne, JobState, history
  <2>2. Active' = Active
    BY <2>1 DEF Active
  <2> QED BY <1>2, <2>1, <2>2 DEF Polled
<1>3. ASSUME Open' = {}
      PROVE  Polled'
  BY <1>3 DEF Polled
<1>4. ASSUME UNCHANGED spinVars, Open' = Open
      PROVE  Polled'
  <2>1. /\ game'.status = "scheduled" => Open = {}
        /\ Open # {} => game'.clock # -1
    BY GameSteps DEF Polled
  <2>2. job'.pc = "void" /\ job'.mode \in {"finish", "cancel"} => Open \subseteq job'.todo \cup loose'
    BY <1>4, ListSteps DEF Polled
  <2>3. ~ Active' => Open = {} \/ (job'.pc = "idle" /\ Open \subseteq loose')
    <3>1. CASE Active
      <4>1. ASSUME ~ Active'
            PROVE  AdminVoid \/ (VoidDone /\ job.mode \in {"finish", "cancel"} /\ job' = Idle
                                 /\ loose' = loose)
        BY <3>1, <4>1, GameSteps
      <4>2. ASSUME AdminVoid
            PROVE  Open = {}
        <5>1. VoidSpins(Open) /\ Open \in SUBSET Spins
          BY <4>2, Voided DEF Open
        <5>2. \A s \in Open : s \in Spins /\ spin'[s].status = "void"
          BY <5>1, VoidRow
        <5>3. \A s \in Open : s \notin Open'
          BY <5>2 DEF Open
        <5> QED BY <1>4, <5>3
      <4>3. ASSUME VoidDone, job.mode \in {"finish", "cancel"}, job' = Idle, loose' = loose
            PROVE  job'.pc = "idle" /\ Open \subseteq loose'
        BY <4>3, UnloggedType DEF VoidDone, Polled
      <4> QED BY <4>1, <4>2, <4>3
    <3>2. CASE ~ Active /\ Open # {}
      <4>1. job.pc = "idle" /\ Open \subseteq loose /\ job.todo = {}
        BY <3>2, Parts DEF Polled
      <4>2. job'.pc = "idle" /\ loose' = loose
        <5>1. ~ \E s \in Spins : PlaceSpin(s)
          BY <3>2 DEF PlaceSpin, Active
        <5>2. ~ StatementFails
          <6>1. ~ \E S \in (SUBSET job.todo) \ {{}} : TRUE
            BY <4>1
          <6> QED BY <4>1, <6>1 DEF StatementFails
        <5> QED BY <3>2, <4>1, <5>1, <5>2, UnloggedType
              DEF Next, Poll, Tick, Whistle, Log, CloseFixture, AdminPause, AdminResume, AdminVoid,
                  history, PollBegin, FetchOk, FetchFails, ResumeServicePause, UpdateClock,
                  SettleDone, VoidDone, StoreEvents, SettleOne, VoidOne, Restart
      <4> QED BY <4>1, <4>2
    <3> QED BY <3>1, <3>2
  <2> QED BY <1>4, <2>1, <2>2, <2>3 DEF Polled
<1>5. \/ \E s \in Spins : PlaceSpin(s) /\ Open' = Open \cup {s}
      \/ \E s \in Spins : (SettleOne(s) \/ VoidOne(s)) /\ Open' = Open \ {s}
      \/ Open' = {}
      \/ UNCHANGED spinVars /\ Open' = Open
  BY OpenStep
<1> HIDE DEF Next
<1> QED BY <1>1, <1>2, <1>3, <1>4, <1>5

-----------------------------------------------------------------------------
(* The engine and its pause *)

\* A service pause begins only where the engine makes it, and no other step
\* touches what the row says of it.
LEMMA PauseSteps ==
  ASSUME Types, Next
  PROVE  /\ ServicePaused' => ServicePaused \/ (VoidDone /\ job.mode = "dark")
         /\ ServicePaused' => ~ ResumeServicePause
<1>0. ASSUME ResumeServicePause
      PROVE  ~ ServicePaused'
  BY <1>0, Parts DEF ResumeServicePause, GameState, Resumable, ServicePaused
<1>1. CASE game' = game
  <2>1. ServicePaused' = ServicePaused
    BY <1>1 DEF ServicePaused
  <2> QED BY <1>0, <2>1
<1>2. CASE Tick
  <2>1. ServicePaused' = ServicePaused
    BY <1>2, Parts DEF Tick, ServicePaused, GameState
  <2> QED BY <1>0, <2>1
<1>4. CASE UpdateClock
  <2>1. /\ WriteClock(game) \in GameState /\ WriteClock(game).note = game.note
        /\ WriteClock(game).status = game.status /\ WriteClock(game).pausedBy = game.pausedBy
    BY ClockTypes, Parts
  <2>2. game' = [WriteClock(game) EXCEPT
                   !.status = IF Starts /\ @ = "scheduled" THEN "live" ELSE @]
    BY <1>4 DEF UpdateClock
  <2>3. /\ game'.note = game.note /\ game'.pausedBy = game.pausedBy
        /\ game'.status = IF Starts /\ game.status = "scheduled" THEN "live" ELSE game.status
    BY <2>1, <2>2 DEF GameState
  <2> QED BY <1>4, <2>3 DEF ServicePaused, UpdateClock, ResumeServicePause
<1>5. CASE VoidDone
  BY <1>5, Parts DEF VoidDone, ServicePaused, ResumeServicePause, GameState
<1>6. CASE StatementFails
  <2>1. game' = game \/ (job.pc = "clock" /\ game' = WriteClock(game))
    BY <1>6 DEF StatementFails
  <2> QED BY <1>1, <2>1, ClockTypes DEF ServicePaused, ResumeServicePause
<1>7. CASE AdminPause \/ AdminResume \/ AdminVoid
  BY <1>7, Parts DEF AdminPause, AdminResume, AdminVoid, ServicePaused, GameState
<1>8. \/ game' = game \/ Tick \/ ResumeServicePause \/ UpdateClock \/ VoidDone \/ StatementFails
      \/ AdminPause \/ AdminResume \/ AdminVoid
  BY DEF Next, Poll, Whistle, Log, CloseFixture, PlaceSpin, PollBegin, FetchOk, FetchFails,
         SettleDone, StoreEvents, SettleOne, VoidOne, Restart
<1> HIDE DEF Next
<1> QED BY <1>1, <1>2, <1>0, <1>4, <1>5, <1>6, <1>7, <1>8

\* The engine stays dark, or goes to lift the pause, or forgets it.
LEMMA DarkSteps ==
  ASSUME Types, Remembered, Next, ServicePaused
  PROVE  ServicePaused' => mem'.dark \/ job'.pc = "resume" \/ forgot'
<1>0. mem \in MemState /\ job \in JobState
  BY Parts
<1>1. CASE mem'.dark = mem.dark /\ job'.pc = job.pc /\ forgot' = forgot
  BY <1>1 DEF Remembered, ServicePauseIsRemembered
<1>2. CASE mem'.dark = mem.dark /\ forgot' = forgot /\ job.pc # "resume"
  BY <1>2 DEF Remembered, ServicePauseIsRemembered
<1>3. CASE FetchOk
  <2>1. /\ mem'.dark = FALSE /\ forgot' = forgot /\ job.pc = "fetch"
        /\ job'.pc = IF mem.dark /\ job.row = "feed_dark" THEN "resume" ELSE "store"
    <3> HIDE DEF EventState
    <3> QED BY <1>0, <1>3 DEF FetchOk, MemState, JobState, history
  <2> QED BY <2>1 DEF Remembered, ServicePauseIsRemembered
<1>4. CASE ResumeServicePause
  BY <1>4, PauseSteps
<1>5. CASE StatementFails
  <2>1. CASE job.pc = "resume" /\ forgot' = TRUE
    BY <2>1
  <2>2. CASE mem' = mem /\ forgot' = forgot /\ job.pc # "resume"
    BY <1>2, <2>2
  <2>3. CASE mem' = ReadClock(mem) /\ forgot' = forgot /\ job.pc = "clock"
    BY <1>2, <2>3, ClockTypes
  <2>4. CASE mem' = [mem EXCEPT !.dark = TRUE]
    <3> HIDE DEF EventState
    <3> QED BY <1>0, <2>4 DEF MemState
  <2>5. \A S \in (SUBSET job.todo) \ {{}} : job.pc # "resume"
    BY Parts
  <2> QED BY <1>5, <2>1, <2>2, <2>3, <2>4, <2>5 DEF StatementFails
<1>6. CASE Restart
  BY <1>6 DEF Restart
<1>7. CASE VoidDone
  <2>1. CASE mem' = mem /\ forgot' = forgot
    BY <1>2, <1>7, <2>1 DEF VoidDone
  <2>2. CASE mem' = [mem EXCEPT !.dark = TRUE]
    <3> HIDE DEF EventState
    <3> QED BY <1>0, <2>2 DEF MemState
  <2> QED BY <1>7, <2>1, <2>2 DEF VoidDone
<1>8. CASE Tick
  <2>1. mem'.dark = mem.dark
    <3> HIDE DEF EventState
    <3> QED BY <1>0, <1>8 DEF Tick, MemState
  <2> QED BY <1>1, <1>8, <2>1 DEF Tick, history
<1>9. CASE PollBegin
  <2>1. mem' \in {mem, Loaded(mem), [Loaded(mem) EXCEPT !.ending = TRUE]}
    BY <1>9 DEF PollBegin
  <2>2. mem'.dark = mem.dark
    <3> HIDE DEF EventState
    <3> QED BY <1>0, <2>1 DEF Loaded, MemState
  <2> QED BY <1>2, <1>9, <2>2 DEF PollBegin
<1>10. CASE UpdateClock
  <2>1. mem'.dark = mem.dark
    <3>1. ReadClock(mem) \in MemState /\ ReadClock(mem).dark = mem.dark
      BY ClockTypes
    <3>2. mem' = [ReadClock(mem) EXCEPT !.ending = @ \/ play.phase = "over", !.built = Rebuilt(mem)]
      BY <1>10 DEF UpdateClock
    <3> HIDE DEF EventState
    <3> QED BY <3>1, <3>2 DEF MemState
  <2> QED BY <1>2, <1>10, <2>1 DEF UpdateClock
<1>11. CASE \E d \in Documents : StoreEvents(d)
  <2>1. mem'.dark = mem.dark
    <3> HIDE DEF EventState
    <3> QED BY <1>0, <1>11 DEF StoreEvents, MemState
  <2> QED BY <1>2, <1>11, <2>1 DEF StoreEvents, history
<1>12. CASE FetchFails \/ SettleDone
  BY <1>2, <1>12 DEF FetchFails, SettleDone
<1>13. CASE \E s \in Spins : SettleOne(s) \/ VoidOne(s)
  BY <1>2, <1>13 DEF SettleOne, VoidOne, history
<1>14. CASE Whistle \/ AdminPause \/ AdminResume \/ AdminVoid
  BY <1>1, <1>14 DEF Whistle, AdminPause, AdminResume, AdminVoid, history
<1>15. CASE \E s \in Spins : PlaceSpin(s)
  BY <1>1, <1>15 DEF PlaceSpin
<1>16. CASE \E e \in Events : \E r \in Reports[e] : Log(e, r)
  BY <1>1, <1>16 DEF Log, history
<1>17. CASE \E st \in {"closed", "cancelled"} : CloseFixture(st)
  BY <1>1, <1>17 DEF CloseFixture, history
<1> QED BY <1>3, <1>4, <1>5, <1>6, <1>7, <1>8, <1>9, <1>10, <1>11, <1>12, <1>13, <1>14, <1>15,
           <1>16, <1>17 DEF Next, Poll

\* While it fetches, the engine holds the row it read.
LEMMA FetchSteps ==
  ASSUME Types, Next, job'.pc = "fetch"
  PROVE  PollBegin \/ job' = job
<1>0. job \in JobState /\ Idle.pc = "idle"
  BY Parts, UnloggedType
<1>1. FinishOrIdle(mem).pc \in {"idle", "void"}
  BY FinishOrIdleDoes
<1>2. ~ FetchOk /\ ~ ResumeServicePause /\ ~ UpdateClock /\ ~ \E d \in Documents : StoreEvents(d)
  BY <1>0 DEF FetchOk, ResumeServicePause, UpdateClock, StoreEvents, JobState, Idle
<1>3. ~ FetchFails
  BY <1>1 DEF FetchFails, Idle
<1>4. ~ SettleDone /\ ~ VoidDone /\ ~ Restart
  BY <1>0, <1>1 DEF SettleDone, VoidDone, Restart
<1>5. ~ \E s \in Spins : SettleOne(s) \/ VoidOne(s)
  BY <1>0 DEF SettleOne, VoidOne, JobState
<1>6. ~ StatementFails
  <2>1. \A S \in (SUBSET job.todo) \ {{}} : job.pc # "fetch"
    BY Parts
  <2>2. \A S : [job EXCEPT !.todo = @ \ S].pc = job.pc
    BY <1>0 DEF JobState
  <2>3. [job EXCEPT !.pc = "store"].pc = "store"
    BY <1>0 DEF JobState
  <2> QED BY <1>0, <1>1, <2>1, <2>2, <2>3 DEF StatementFails
<1> QED BY <1>2, <1>3, <1>4, <1>5, <1>6
      DEF Next, Poll, Tick, Whistle, Log, CloseFixture, PlaceSpin, AdminPause, AdminResume, AdminVoid

\* Every step keeps the memory of a pause.
LEMMA RememberedStep ==
  ASSUME Types, Remembered, Next
  PROVE  Remembered'
<1>1. ServicePaused' => mem'.dark \/ job'.pc = "resume" \/ forgot'
  <2>1. CASE ServicePaused
    BY <2>1, DarkSteps
  <2>2. ASSUME VoidDone, job.mode = "dark"
        PROVE  mem'.dark
    <3>1. mem' = [mem EXCEPT !.dark = TRUE] /\ mem \in MemState
      BY <2>2, Parts DEF VoidDone
    <3> HIDE DEF EventState
    <3> QED BY <3>1 DEF MemState
  <2> QED BY <2>1, <2>2, PauseSteps
<1>2. ASSUME job'.pc = "fetch", ServicePaused'
      PROVE  job'.row = "feed_dark"
  <2>1. CASE PollBegin
    <3>1. game' = game /\ job'.row = RowView
      BY <1>2, <2>1 DEF PollBegin, Idle
    <3> QED BY <1>2, <3>1 DEF RowView, ServicePaused
  <2>2. CASE job' = job
    <3>1. ServicePaused
      BY <1>2, <2>2, PauseSteps DEF VoidDone
    <3> QED BY <1>2, <2>2, <3>1 DEF Remembered
  <2> QED BY <1>2, <2>1, <2>2, FetchSteps
<1> QED BY <1>1, <1>2 DEF Remembered, ServicePauseIsRemembered

-----------------------------------------------------------------------------
(* What was final when it was listed stays final *)

\* While the engine settles, its list only shrinks, and neither its memory nor
\* the fixture moves.
LEMMA SettleSteps ==
  ASSUME Types, Next, job'.pc = "settle", ~ UpdateClock
  PROVE  job.pc = "settle" /\ job'.todo \subseteq job.todo /\ mem' = mem /\ play' = play
<1>0. job \in JobState /\ Idle.pc = "idle" /\ FinishOrIdle(mem).pc \in {"idle", "void"}
  BY Parts, UnloggedType, FinishOrIdleDoes
<1>1. ~ Tick /\ ~ Whistle /\ ~ PollBegin /\ ~ FetchOk /\ ~ FetchFails /\ ~ ResumeServicePause
  BY <1>0 DEF Tick, Whistle, BetweenPolls, PollBegin, FetchOk, FetchFails, ResumeServicePause,
              JobState, Idle
<1>2. /\ ~ SettleDone /\ ~ VoidDone /\ ~ Restart
      /\ ~ \E d \in Documents : StoreEvents(d)
  BY <1>0 DEF SettleDone, VoidDone, Restart, StoreEvents, JobState
<1>3. ASSUME NEW s \in Spins, SettleOne(s) \/ VoidOne(s)
      PROVE  job.pc = "settle" /\ job'.todo \subseteq job.todo /\ mem' = mem /\ play' = play
  BY <1>0, <1>3 DEF SettleOne, VoidOne, JobState, feedVars
<1>4. CASE StatementFails
  <2>1. ASSUME NEW S \in (SUBSET job.todo) \ {{}}, job' = [job EXCEPT !.todo = @ \ S]
        PROVE  job.pc = "settle" /\ job'.todo \subseteq job.todo
    BY <1>0, <2>1 DEF JobState
  <2>2. [job EXCEPT !.pc = "store"].pc = "store"
    BY <1>0 DEF JobState
  <2> QED BY <1>0, <1>4, <2>1, <2>2 DEF StatementFails, feedVars
<1>5. CASE job' = job /\ mem' = mem /\ play' = play
  BY <1>5
<1> QED BY <1>1, <1>2, <1>3, <1>4, <1>5
      DEF Next, Poll, Log, CloseFixture, PlaceSpin, AdminPause, AdminResume, AdminVoid, feedVars

\* Every step keeps the listed spins final.
LEMMA TimelyStep ==
  ASSUME Types, Rows, Timely, Next
  PROVE  Timely'
<1> SUFFICES ASSUME job'.pc = "settle", NEW s \in job'.todo
             PROVE  /\ spin'[s].status # "absent"
                    /\ play'.clock >= RoundEnd(spin'[s].from)
                    /\ \A i \in 1..RoundWindows : GraceOver(mem'.built, WindowsOf(spin'[s].from)[i])
  BY DEF Timely, RoundEnd, WindowsOf, GraceOver, In
<1>1. CASE UpdateClock
  <2> DEFINE m == [ReadClock(mem) EXCEPT !.ending = @ \/ play.phase = "over", !.built = Rebuilt(mem)]
  <2>1. /\ mem' = m /\ spin' = spin /\ play' = play
        /\ job' = [Idle EXCEPT !.pc = "settle", !.todo = {x \in Open : SpinFinal(m, x)}]
    BY <1>1 DEF UpdateClock, feedVars, spinVars
  <2>2. m.clock = play.clock /\ play.clock \in Int
    <3>1. ReadClock(mem) \in MemState /\ ReadClock(mem).clock = play.clock
      BY ClockTypes
    <3> HIDE DEF EventState
    <3> QED BY <3>1, Parts DEF MemState
  <2> HIDE DEF m
  <2>3. s \in Spins /\ spin[s].status = "open" /\ SpinFinal(m, s)
    BY <2>1 DEF Idle, Open
  <2>4. spin[s].from \in Nat
    BY <2>3 DEF Rows, SpinState
  <2>5. /\ m.clock >= RoundEnd(spin[s].from)
        /\ \A i \in 1..RoundWindows : GraceOver(m.built, WindowsOf(spin[s].from)[i])
    BY <2>2, <2>3, <2>4, FinalIsOver
  <2> QED BY <2>1, <2>2, <2>3, <2>5
<1>2. CASE ~ UpdateClock
  <2>1. s \in job.todo /\ job.pc = "settle" /\ mem' = mem /\ play' = play
    BY <1>2, SettleSteps
  <2>2. /\ spin[s].status # "absent" /\ play.clock >= RoundEnd(spin[s].from)
        /\ \A i \in 1..RoundWindows : GraceOver(mem.built, WindowsOf(spin[s].from)[i])
    BY <2>1 DEF Timely
  <2>3. s \in Spins
    BY <2>1, Parts
  <2>4. spin'[s].status # "absent" /\ spin'[s].from = spin[s].from
    BY <2>2, <2>3, OpenStep
  <2> QED BY <2>1, <2>2, <2>4
<1> QED BY <1>1, <1>2

-----------------------------------------------------------------------------
(* The windows and the stored events *)

\* The copies a step leaves alone.
LEMMA MirrorWriters ==
  ASSUME Types, Next
  PROVE  \/ Tick \/ PollBegin \/ UpdateClock \/ Restart
         \/ \E e \in Events : \E r \in Reports[e] : Log(e, r)
         \/ \E d \in Documents : StoreEvents(d)
         \/ StatementFails /\ job.pc \in {"store", "clock"}
         \/ /\ UNCHANGED <<scout, stored, missed>>
            /\ mem'.known = mem.known /\ mem'.built = mem.built /\ mem'.loaded = mem.loaded
            /\ job'.pc = "clock" => job' = job
            /\ job'.pc \in {"idle", "void"} \/ job.pc \in {"fetch", "resume", "store", "clock", "settle"}
            /\ job.pc = "clock" => job' = job
<1>0. job \in JobState /\ mem \in MemState /\ Idle.pc = "idle" /\ FinishOrIdle(mem).pc \in {"idle", "void"}
  BY Parts, UnloggedType, FinishOrIdleDoes
<1>1. CASE FetchOk
  <2>1. mem'.known = mem.known /\ mem'.built = mem.built /\ mem'.loaded = mem.loaded
    <3> HIDE DEF EventState
    <3> QED BY <1>0, <1>1 DEF FetchOk, MemState
  <2>2. job'.pc \in {"resume", "store"}
    BY <1>0, <1>1 DEF FetchOk, JobState
  <2> QED BY <1>1, <2>1, <2>2 DEF FetchOk, feedVars, history
<1>2. CASE FetchFails
  BY <1>0, <1>2 DEF FetchFails, feedVars, Idle
<1>3. CASE ResumeServicePause
  BY <1>0, <1>3 DEF ResumeServicePause, feedVars, history, JobState
<1>4. CASE SettleDone
  BY <1>0, <1>4 DEF SettleDone, feedVars
<1>5. CASE VoidDone
  <2>1. mem'.known = mem.known /\ mem'.built = mem.built /\ mem'.loaded = mem.loaded
    <3>1. mem' = mem \/ mem' = [mem EXCEPT !.dark = TRUE]
      BY <1>5 DEF VoidDone
    <3> HIDE DEF EventState
    <3> QED BY <1>0, <3>1 DEF MemState
  <2>2. job'.pc \in {"idle", "void"} /\ job.pc = "void"
    BY <1>0, <1>5 DEF VoidDone
  <2> QED BY <1>5, <2>1, <2>2 DEF VoidDone, feedVars
<1>6. CASE \E s \in Spins : SettleOne(s) \/ VoidOne(s)
  BY <1>0, <1>6 DEF SettleOne, VoidOne, feedVars, history, JobState
<1>7. CASE StatementFails /\ job.pc \notin {"store", "clock"}
  <2>1. mem'.known = mem.known /\ mem'.built = mem.built /\ mem'.loaded = mem.loaded
    <3>1. mem' = mem \/ mem' = [mem EXCEPT !.dark = TRUE]
      BY <1>7 DEF StatementFails
    <3> HIDE DEF EventState
    <3> QED BY <1>0, <3>1 DEF MemState
  <2>2. /\ job'.pc \in {"idle", "void"} \/ job.pc \in {"fetch", "resume", "store", "clock", "settle"}
        /\ job'.pc # "clock"
    <3>1. CASE job.pc = "resume" /\ job' = [job EXCEPT !.pc = "store"]
      BY <1>0, <3>1 DEF JobState
    <3>2. ASSUME NEW S \in (SUBSET job.todo) \ {{}}, job' = [job EXCEPT !.todo = @ \ S]
          PROVE  job'.pc = job.pc /\ job.pc \in {"settle", "void"}
      BY <1>0, <3>2, Parts DEF JobState
    <3>3. CASE job'.pc \in {"idle", "void"}
      BY <3>3
    <3> QED BY <1>0, <1>7, <3>1, <3>2, <3>3 DEF StatementFails
  <2> QED BY <1>7, <2>1, <2>2 DEF StatementFails, feedVars
<1>8. CASE UNCHANGED <<scout, stored, missed, mem, job>>
  BY <1>0, <1>8 DEF JobState
<1> QED BY <1>1, <1>2, <1>3, <1>4, <1>5, <1>6, <1>7, <1>8
      DEF Next, Poll, Whistle, CloseFixture, PlaceSpin, AdminPause, AdminResume, AdminVoid,
          feedVars, history

\* The members of a copy.
LEMMA CopyParts ==
  ASSUME NEW ev \in EventState, NEW e \in Events
  PROVE  ev[e].report \in Report \cup {NoReport} /\ ev[e].age \in Nat
<1>1. ev[e] \in [report: Report \cup {NoReport}, age: Nat]
  BY DEF EventState
<1> HIDE DEF Report
<1> QED BY <1>1

\* A document reaches the memory copy as it reaches the stored one.
LEMMA MergedIsStored ==
  ASSUME Types, Mirrored, NEW d \in Documents, job.pc = "store"
  PROVE  /\ \A e \in Events : /\ Merge(d)[e].age <= mem.built[e].age
                              /\ scout[e] = NoReport => /\ UpsertEvents(d)[e].report = NoReport
                                                        /\ Merge(d)[e].report = NoReport
         /\ ~ missed => /\ Behind(Merge(d), UpsertEvents(d))
                        /\ Fresh(d) = {} => Behind(mem.built, UpsertEvents(d))
<1>1. ASSUME NEW e \in Events
      PROVE  /\ stored[e].age \in Nat /\ mem.known[e].age \in Nat /\ mem.built[e].age \in Nat
             /\ mem.known[e].age <= mem.built[e].age
             /\ scout[e] = NoReport => stored[e].report = NoReport /\ mem.known[e].report = NoReport
  BY Parts, CopyParts DEF Mirrored
<1>2. ASSUME NEW e \in Events
      PROVE  /\ d[e] = NoReport => Merge(d)[e] = mem.known[e]
             /\ d[e] # NoReport => /\ Merge(d)[e].report = d[e]
                                   /\ Merge(d)[e].age = IF e \in Fresh(d) THEN 0 ELSE mem.known[e].age
  BY DEF Merge
<1>3. ASSUME NEW e \in Events
      PROVE  /\ e \in Changed(d) => /\ UpsertEvents(d)[e].report = d[e] /\ UpsertEvents(d)[e].age = 0
                                    /\ d[e] # NoReport /\ e \in Fresh(d)
             /\ e \notin Changed(d) => /\ UpsertEvents(d)[e] = stored[e]
                                       /\ d[e] = NoReport \/ d[e] = stored[e].report
  BY DEF UpsertEvents, Changed, Fresh
<1>4. ASSUME NEW e \in Events
      PROVE  scout[e] = NoReport => d[e] = NoReport
  BY <1>4 DEF Documents
<1>5. ASSUME NEW e \in Events
      PROVE  /\ Merge(d)[e].age <= mem.built[e].age
             /\ scout[e] = NoReport => /\ UpsertEvents(d)[e].report = NoReport
                                       /\ Merge(d)[e].report = NoReport
  <2>1. CASE d[e] = NoReport
    BY <1>1, <1>2, <1>3, <2>1
  <2>2. CASE d[e] # NoReport
    BY <1>1, <1>2, <1>4, <2>2
  <2> QED BY <2>1, <2>2
<1>6. ASSUME ~ missed
      PROVE  /\ Behind(Merge(d), UpsertEvents(d))
             /\ Fresh(d) = {} => Behind(mem.built, UpsertEvents(d))
  <2>0. mem.loaded
    BY DEF Mirrored
  <2>1. ASSUME NEW e \in Events
        PROVE  /\ mem.built[e].report = stored[e].report /\ mem.built[e].age <= stored[e].age
               /\ mem.known[e].report = stored[e].report /\ mem.known[e].age <= stored[e].age
    BY <1>6, <2>0 DEF Mirrored, Behind
  <2>2. ASSUME Fresh(d) = {}
        PROVE  Behind(mem.built, UpsertEvents(d))
    BY <1>3, <2>1, <2>2 DEF Behind
  <2>3. ASSUME NEW e \in Events
        PROVE  /\ Merge(d)[e].report = UpsertEvents(d)[e].report
               /\ Merge(d)[e].age <= UpsertEvents(d)[e].age
    <3>1. CASE d[e] = NoReport
      BY <1>1, <1>2, <1>3, <2>1, <3>1
    <3>2. CASE e \in Changed(d)
      BY <1>2, <1>3, <3>2
    <3>3. CASE d[e] # NoReport /\ e \notin Changed(d)
      BY <1>1, <1>2, <1>3, <2>1, <3>3
    <3> QED BY <3>1, <3>2, <3>3
  <2> QED BY <2>2, <2>3 DEF Behind
<1> QED BY <1>5, <1>6

\* Every step keeps the windows behind the stored events.
LEMMA MirroredStep ==
  ASSUME Types, Mirrored, Next
  PROVE  Mirrored'
<1>0. /\ job \in JobState /\ mem \in MemState /\ stored \in EventState
      /\ mem.known \in EventState /\ mem.built \in EventState
  BY Parts
<1>1. ASSUME NEW e \in Events
      PROVE  /\ stored[e].age \in Nat /\ mem.known[e].age \in Nat /\ mem.built[e].age \in Nat
             /\ mem.known[e].age <= mem.built[e].age
             /\ scout[e] = NoReport => stored[e].report = NoReport /\ mem.known[e].report = NoReport
  BY <1>0, CopyParts DEF Mirrored
<1>2. CASE Tick
  <2>1. /\ mem'.known = OlderEvents(mem.known) /\ mem'.built = OlderEvents(mem.built)
        /\ mem'.loaded = mem.loaded /\ stored' = OlderEvents(stored)
    <3> HIDE DEF EventState
    <3> QED BY <1>0, <1>2 DEF Tick, MemState
  <2>2. job' = job /\ job.pc = "idle" /\ scout' = scout /\ missed' = missed
    BY <1>2 DEF Tick, BetweenPolls, history
  <2>3. GraceSeconds \in Nat
    BY SlotAssumption
  <2>4. ASSUME NEW e \in Events
        PROVE  /\ mem'.known[e].report = mem.known[e].report /\ stored'[e].report = stored[e].report
               /\ mem'.built[e].report = mem.built[e].report
               /\ mem'.known[e].age <= mem'.built[e].age
               /\ mem.built[e].age <= stored[e].age => mem'.built[e].age <= stored'[e].age
               /\ mem.known[e].age <= stored[e].age => mem'.known[e].age <= stored'[e].age
    <3>1. /\ mem'.known[e].age = Older(mem.known[e].age, GraceSeconds)
          /\ mem'.built[e].age = Older(mem.built[e].age, GraceSeconds)
          /\ stored'[e].age = Older(stored[e].age, GraceSeconds)
          /\ mem'.known[e].report = mem.known[e].report /\ stored'[e].report = stored[e].report
          /\ mem'.built[e].report = mem.built[e].report
      BY <1>0, <2>1, OlderCopy
    <3>2. \A a, b \in Nat : a <= b => Older(a, GraceSeconds) <= Older(b, GraceSeconds)
      BY <2>3, Ageing
    <3>3. mem'.known[e].age <= mem'.built[e].age
      BY <1>1, <3>1, <3>2
    <3>4. mem.built[e].age <= stored[e].age => mem'.built[e].age <= stored'[e].age
      BY <1>1, <3>1, <3>2
    <3>5. mem.known[e].age <= stored[e].age => mem'.known[e].age <= stored'[e].age
      BY <1>1, <3>1, <3>2
    <3> QED BY <3>1, <3>3, <3>4, <3>5
  <2>5. mem'.loaded /\ ~ missed' => Behind(mem'.built, stored') /\ Behind(mem'.known, stored')
    BY <2>1, <2>2, <2>4 DEF Mirrored, Behind
  <2> QED BY <1>1, <2>1, <2>2, <2>4, <2>5 DEF Mirrored, Behind
<1>3. CASE PollBegin
  <2>1. /\ \/ job'.pc = "void" /\ mem' = mem
           \/ job'.pc = "fetch" /\ mem' \in {Loaded(mem), [Loaded(mem) EXCEPT !.ending = TRUE]}
        /\ UNCHANGED <<scout, stored, missed>>
    BY <1>3 DEF PollBegin, Idle, feedVars
  <2>2. /\ Loaded(mem) \in MemState /\ Loaded(mem).loaded
        /\ mem.loaded => Loaded(mem) = mem
        /\ ~ mem.loaded => Loaded(mem).known = stored /\ Loaded(mem).built = stored
    <3> HIDE DEF EventState
    <3> QED BY <1>0 DEF Loaded, MemState
  <2>3. CASE mem' = mem /\ job'.pc = "void"
    BY <1>3, <2>1, <2>3 DEF Mirrored, PollBegin, Behind
  <2>4. CASE job'.pc = "fetch" /\ mem' \in {Loaded(mem), [Loaded(mem) EXCEPT !.ending = TRUE]}
    <3>1. /\ mem'.loaded /\ mem'.known = Loaded(mem).known /\ mem'.built = Loaded(mem).built
      <4> HIDE DEF EventState
      <4> QED BY <2>2, <2>4 DEF MemState
    <3>2. ~ missed' => Behind(mem'.built, stored') /\ Behind(mem'.known, stored')
      <4>1. CASE mem.loaded
        BY <1>3, <2>1, <2>2, <3>1, <4>1 DEF Mirrored, PollBegin, Behind
      <4>2. CASE ~ mem.loaded
        BY <1>1, <2>1, <2>2, <3>1, <4>2 DEF Behind
      <4> QED BY <4>1, <4>2
    <3>3. job'.pc \in {"fetch", "void"}
      BY <2>1
    <3>4. ASSUME NEW e \in Events
          PROVE  /\ mem'.known[e].age <= mem'.built[e].age
                 /\ scout'[e] = NoReport =>
                      stored'[e].report = NoReport /\ mem'.known[e].report = NoReport
      BY <1>1, <2>1, <2>2, <3>1
    <3> QED BY <3>1, <3>2, <3>3, <3>4 DEF Mirrored, Behind
  <2> QED BY <2>1, <2>3, <2>4
<1>4. CASE UpdateClock
  <2>1. /\ mem'.known = mem.known /\ mem'.loaded = mem.loaded
        /\ mem'.built = Rebuilt(mem)
        /\ missed' = (missed /\ (Rebuilt(mem) # stored \/ mem.known # stored))
    <3> DEFINE m == [ReadClock(mem) EXCEPT !.ending = @ \/ play.phase = "over", !.built = Rebuilt(mem)]
    <3>1. /\ ReadClock(mem) \in MemState /\ ReadClock(mem).known = mem.known
          /\ ReadClock(mem).loaded = mem.loaded
      BY ClockTypes
    <3>2. m.known = mem.known /\ m.loaded = mem.loaded /\ m.built = Rebuilt(mem)
      <4> HIDE DEF EventState
      <4> QED BY <3>1 DEF MemState
    <3>3. mem' = m /\ missed' = (missed /\ (m.built # stored \/ m.known # stored))
      BY <1>4 DEF UpdateClock
    <3> HIDE DEF m
    <3> QED BY <3>2, <3>3
  <2>2. UNCHANGED <<scout, stored>> /\ job.pc = "clock" /\ job'.pc = "settle"
    BY <1>4 DEF UpdateClock, feedVars, Idle
  <2>3. mem.loaded
    BY <2>2 DEF Mirrored
  <2>4. ~ missed' => Behind(mem'.built, stored') /\ Behind(mem'.known, stored')
    <3>1. CASE ~ missed
      BY <2>1, <2>2, <2>3, <3>1 DEF Mirrored, Rebuilt, Behind
    <3>2. CASE Rebuilt(mem) = stored /\ mem.known = stored
      BY <1>1, <2>1, <2>2, <3>2 DEF Behind
    <3> QED BY <2>1, <3>1, <3>2
  <2>5. ASSUME NEW e \in Events
        PROVE  mem'.known[e].age <= mem'.built[e].age
    BY <1>1, <2>1 DEF Rebuilt
  <2> QED BY <1>1, <2>1, <2>2, <2>3, <2>4, <2>5 DEF Mirrored, Behind
<1>5. CASE Restart
  <2>1. /\ mem' = NewMem /\ job'.pc = "idle" /\ UNCHANGED <<scout, stored>>
        /\ ~ mem'.loaded /\ mem'.known = Unlogged /\ mem'.built = Unlogged
    BY <1>5 DEF Restart, feedVars, Idle, NewMem
  <2>2. ASSUME NEW e \in Events
        PROVE  Unlogged[e].age <= Unlogged[e].age /\ Unlogged[e].report = NoReport
    BY SlotAssumption DEF Unlogged
  <2> QED BY <1>1, <2>1, <2>2 DEF Mirrored
<1>6. ASSUME NEW e \in Events, NEW r \in Reports[e], Log(e, r)
      PROVE  Mirrored'
  <2>1. UNCHANGED <<stored, mem, job, missed>> /\ scout' = [scout EXCEPT ![e] = r]
    BY <1>6 DEF Log, history
  <2>2. r # NoReport
    BY SlotAssumption
  <2>3. \A x \in Events : scout'[x] = NoReport => scout[x] = NoReport
    BY <2>1, <2>2, Parts
  <2> QED BY <2>1, <2>3 DEF Mirrored, Behind
<1>7. ASSUME NEW d \in Documents, StoreEvents(d)
      PROVE  Mirrored'
  <2>1. /\ mem'.known = Merge(d) /\ mem'.built = mem.built /\ mem'.loaded = mem.loaded
    <3> HIDE DEF EventState
    <3> QED BY <1>0, <1>7 DEF StoreEvents, MemState
  <2>2. PICK fresh \in BOOLEAN : fresh = (Fresh(d) # {})
    OBVIOUS
  <2>3. /\ job.pc = "store" /\ job'.pc = "clock" /\ job'.touched = fresh
        /\ stored' = UpsertEvents(d) /\ scout' = scout /\ missed' = missed
    BY <1>0, <1>7, <2>2 DEF StoreEvents, JobState, feedVars, history
  <2>4. mem.loaded
    BY <2>3 DEF Mirrored
  <2>5. /\ \A e \in Events : /\ Merge(d)[e].age <= mem.built[e].age
                             /\ scout[e] = NoReport => /\ UpsertEvents(d)[e].report = NoReport
                                                       /\ Merge(d)[e].report = NoReport
        /\ ~ missed => /\ Behind(Merge(d), UpsertEvents(d))
                       /\ ~ fresh => Behind(mem.built, UpsertEvents(d))
    BY <2>2, <2>3, MergedIsStored
  <2> QED BY <2>1, <2>3, <2>4, <2>5 DEF Mirrored, Behind
<1>8. CASE StatementFails /\ job.pc \in {"store", "clock"}
  <2>0. Idle.pc = "idle"
    BY UnloggedType
  <2>1. \A S \in (SUBSET job.todo) \ {{}} : job.pc \in {"settle", "void"}
    BY Parts
  <2>2. CASE job.pc = "store"
    <3>1. /\ mem' = mem /\ job' = Idle /\ scout' = scout
          /\ missed' = (missed \/ stored' # stored)
          /\ stored' \in {stored} \cup {UpsertEvents(d) : d \in Documents}
      BY <1>8, <2>1, <2>2 DEF StatementFails, feedVars
    <3>2. ASSUME NEW e \in Events, scout[e] = NoReport
          PROVE  stored'[e].report = NoReport
      BY <1>1, <2>2, <3>1, <3>2, MergedIsStored
    <3> QED BY <1>1, <2>0, <2>2, <3>1, <3>2 DEF Mirrored, Behind
  <2>3. CASE job.pc = "clock"
    <3>1. /\ mem' = ReadClock(mem) /\ job' = Idle /\ scout' = scout /\ stored' = stored
          /\ missed' = (missed \/ job.touched)
      BY <1>8, <2>1, <2>3 DEF StatementFails, feedVars
    <3>2. mem'.known = mem.known /\ mem'.built = mem.built /\ mem'.loaded = mem.loaded
      BY <3>1, ClockTypes
    <3> QED BY <1>1, <2>0, <2>3, <3>1, <3>2 DEF Mirrored, Behind
  <2> QED BY <1>8, <2>2, <2>3
<1>9. CASE /\ UNCHANGED <<scout, stored, missed>>
           /\ mem'.known = mem.known /\ mem'.built = mem.built /\ mem'.loaded = mem.loaded
           /\ job'.pc = "clock" => job' = job
           /\ job'.pc \in {"idle", "void"} \/ job.pc \in {"fetch", "resume", "store", "clock", "settle"}
           /\ job.pc = "clock" => job' = job
  BY <1>9 DEF Mirrored, Behind
<1> HIDE DEF Next
<1> QED BY <1>2, <1>3, <1>4, <1>5, <1>6, <1>7, <1>8, <1>9, MirrorWriters

-----------------------------------------------------------------------------
(* Money *)

\* The amounts of the spins add up to whole amounts.
LEMMA SpinSums ==
  ASSUME NEW S \in SUBSET Spins
  PROVE  /\ IsFiniteSet(S) /\ Stakes(S) \in Nat
         /\ \A s \in S : Stake[s] \in Nat
<1>1. IsFiniteSet(S) /\ \A s \in S : Stake[s] \in Nat
  BY SlotAssumption, FS_Subset
<1> QED BY <1>1, SumNat DEF Stakes

\* Some spins leave a sum.
LEMMA SumOut ==
  ASSUME NEW f, NEW A \in SUBSET Spins, NEW C \in SUBSET A, \A x \in A : f[x] \in Nat
  PROVE  /\ SumFunctionOnSet(f, A \ C) = SumFunctionOnSet(f, A) - SumFunctionOnSet(f, C)
         /\ SumFunctionOnSet(f, A \ C) \in Nat /\ SumFunctionOnSet(f, C) \in Nat
         /\ SumFunctionOnSet(f, A) \in Nat
<1> DEFINE D == A \ C
<1>1. IsFiniteSet(A) /\ IsFiniteSet(C) /\ IsFiniteSet(D)
  BY SpinSums
<1>2. /\ SumFunctionOnSet(f, D) \in Nat /\ SumFunctionOnSet(f, C) \in Nat
      /\ SumFunctionOnSet(f, A) \in Nat
  BY <1>1, SumNat
<1>3. D \cap C = {} /\ D \cup C = A /\ \A x \in D \cup C : f[x] \in Int
  OBVIOUS
<1> HIDE DEF D
<1>4. SumFunctionOnSet(f, D \cup C) = SumFunctionOnSet(f, D) + SumFunctionOnSet(f, C)
  BY <1>1, <1>3, SumDisjoint
<1>5. SumFunctionOnSet(f, A) = SumFunctionOnSet(f, D) + SumFunctionOnSet(f, C)
  BY <1>3, <1>4
<1>6. SumFunctionOnSet(f, D) = SumFunctionOnSet(f, A) - SumFunctionOnSet(f, C)
  BY <1>2, <1>5
<1> QED BY <1>2, <1>6 DEF D

\* A spin's wallet and currency.
LEMMA WalletIn ==
  ASSUME NEW s \in Spins
  PROVE  WalletOf(s) \in Wallets /\ Currency[s] \in {"USDC", "OZ"} /\ Stake[s] \in Nat
BY SlotAssumption DEF WalletOf, Wallets

\* The rows of the spins as numbers.
LEMMA RowParts ==
  ASSUME Rows, NEW s \in Spins
  PROVE  /\ spin[s].exposure \in Nat /\ spin[s].payout \in Nat
         /\ spin[s].status \in {"absent", "open", "won", "lost", "void"}
         /\ spin[s].status # "won" => spin[s].payout = 0
         /\ Gains[s] \in Int /\ Payouts[s] \in Nat
<1>1. /\ spin[s].exposure \in Nat /\ spin[s].payout \in Nat
      /\ spin[s].status \in {"absent", "open", "won", "lost", "void"}
  BY DEF Rows, SpinState
<1>2. spin[s].payout > 0 <=> spin[s].status = "won"
  BY DEF Rows
<1>3. Stake[s] \in Nat
  BY WalletIn
<1> QED BY <1>1, <1>2, <1>3 DEF Gains, Payouts

\* releaseOpenLiability gives back exactly what the closed spins had booked: the
\* clamp at zero never bites.
LEMMA ReleaseExact ==
  ASSUME Rows, LiabilityExact, NEW S \in SUBSET Open, ReleaseLiability(S), Open' = Open \ S,
         \A x \in Spins : spin'[x].exposure = spin[x].exposure
  PROVE  LiabilityExact'
<1> DEFINE f == [s \in Spins |-> spin[s].exposure]
           g == [s \in Spins |-> spin'[s].exposure]
           A == Open \cap UsdcSpins
           C == S \cap UsdcSpins
<1>1. A \in SUBSET Spins /\ C \in SUBSET A /\ A \ C \in SUBSET Spins
  BY DEF Open
<1>2. \A x \in A : f[x] \in Nat
  BY <1>1, RowParts
<1>3. \A x \in A \ C : f[x] = g[x]
  BY <1>1
<1>4. liability = SumFunctionOnSet(f, A) /\ liability' = Max({0, liability - SumFunctionOnSet(f, C)})
  BY DEF LiabilityExact, ReleaseLiability, Exposures
<1>5. (LiabilityExact)' <=> liability' = SumFunctionOnSet(g, A \ C)
  <2>1. (Open \cap UsdcSpins)' = A \ C
    BY DEF UsdcSpins
  <2> QED BY <2>1 DEF LiabilityExact, Exposures
<1> HIDE DEF f, g, A, C
<1>6. /\ SumFunctionOnSet(f, A \ C) = SumFunctionOnSet(f, A) - SumFunctionOnSet(f, C)
      /\ SumFunctionOnSet(f, A \ C) \in Nat
  BY <1>1, <1>2, SumOut
<1>7. IsFiniteSet(A \ C)
  BY <1>1, SpinSums
<1>8. SumFunctionOnSet(f, A \ C) = SumFunctionOnSet(g, A \ C)
  BY <1>3, <1>7, SumSame
<1>9. PICK n \in Nat : n = SumFunctionOnSet(f, A \ C)
  BY <1>6
<1>10. Max({0, n}) = n
  BY MinMaxTwo
<1> QED BY <1>4, <1>5, <1>6, <1>8, <1>9, <1>10

\* The ledger grows by what the rows of the spins grow by.
LEMMA BookedStep ==
  ASSUME Booked, NEW N, \A s \in Spins : RowsOf(s)' = RowsOf(s) \cup N[s],
         ledger' = ledger \cup UNION {N[s] : s \in Spins}
  PROVE  Booked'
<1>1. \A r : r \in ledger' <=> \E s \in Spins : r \in RowsOf(s)'
  BY DEF Booked
<1>2. ledger' = UNION {RowsOf(s)' : s \in Spins}
  BY <1>1
<1> QED BY <1>2 DEF Booked

\* A placed spin: the stake is locked and booked, the exposure added.
LEMMA PlaceMoney ==
  ASSUME Types, Rows, Money, NEW s \in Spins, PlaceSpin(s)
  PROVE  Money'
<1> USE DEF Money
<1>1. PICK from \in Nat :
        spin' = [spin EXCEPT ![s] = [status |-> "open", from |-> from,
                                     exposure |-> ExposureMicro(s), payout |-> 0]]
  BY PlaceRow
<1>2. spin[s].status = "absent" /\ spin \in [Spins -> SpinState]
  BY DEF PlaceSpin, Rows
<1>3. /\ spin'[s].status = "open" /\ spin'[s].payout = 0 /\ spin'[s].exposure = ExposureMicro(s)
      /\ \A x \in Spins : x # s => spin'[x] = spin[x]
  BY <1>1, <1>2
<1>4. spin[s].payout = 0 /\ Stake[s] \in Nat /\ WalletOf(s) \in Wallets /\ Currency[s] \in {"USDC", "OZ"}
  BY <1>2, RowParts, WalletIn
<1>5. WalletsExact'
  <2>0. PICK W \in Wallets : W = WalletOf(s)
    BY <1>4
  <2>1. wallet' = [wallet EXCEPT ![W].locked = @ + Stake[s]]
    BY <2>0 DEF PlaceSpin
  <2>2. wallet \in [Wallets -> [balance: Int, locked: Int]] /\ wallet[W] \in [balance: Int, locked: Int]
    BY <1>4 DEF WalletsExact
  <2>3. /\ wallet'[W].balance = wallet[W].balance /\ wallet'[W].locked = wallet[W].locked + Stake[s]
        /\ \A w \in Wallets : w # W => wallet'[w] = wallet[w]
        /\ wallet' \in [Wallets -> [balance: Int, locked: Int]]
    BY <1>4, <2>1, <2>2
  <2>4. Gains' = Gains
    <3>1. \A x \in Spins : Gains'[x] = Gains[x]
      BY <1>2, <1>3 DEF Gains
    <3>2. Gains' = [x \in Spins |-> Gains'[x]] /\ Gains = [x \in Spins |-> Gains[x]]
      BY DEF Gains
    <3> QED BY <3>1, <3>2
  <2>5. OpenOf(W)' = OpenOf(W) \cup {s} /\ s \notin OpenOf(W) /\ OpenOf(W) \in SUBSET Spins
    BY <1>2, <1>3, <2>0 DEF OpenOf, Open
  <2>6. \A w \in Wallets : w # W => OpenOf(w)' = OpenOf(w)
    BY <1>3, <2>0 DEF OpenOf, Open
  <2>7. Stakes(OpenOf(W) \cup {s}) = Stake[s] + Stakes(OpenOf(W))
    <3>1. IsFiniteSet(OpenOf(W)) /\ \A y \in OpenOf(W) \cup {s} : Stake[y] \in Int
      BY <2>5, SpinSums, WalletIn
    <3> QED BY <2>5, <3>1, SumAdd DEF Stakes
  <2>8. Stake[s] <= wallet[W].balance - wallet[W].locked
    BY <2>0 DEF PlaceSpin, Covers
  <2>9. ASSUME NEW w \in Wallets
        PROVE  /\ wallet'[w].locked = Stakes(OpenOf(w)')
               /\ wallet'[w].balance = Opening + SumFunctionOnSet(Gains', SpinsOf(w))
               /\ wallet'[w].locked <= wallet'[w].balance
    <3>1. CASE w = W
      <4>1. wallet'[w].locked = Stakes(OpenOf(w)')
        <5>1. wallet[w].locked = Stakes(OpenOf(w)) /\ wallet[w].locked \in Int
          BY <2>2, <3>1 DEF WalletsExact
        <5>2. Stakes(OpenOf(w)') = Stake[s] + Stakes(OpenOf(w))
          BY <2>5, <2>7, <3>1
        <5>3. wallet'[w].locked = wallet[w].locked + Stake[s]
          BY <2>3, <3>1
        <5> QED BY <1>4, <5>1, <5>2, <5>3
      <4>2. wallet'[w].balance = Opening + SumFunctionOnSet(Gains', SpinsOf(w))
        BY <2>3, <2>4, <3>1 DEF WalletsExact
      <4>3. wallet'[w].locked <= wallet'[w].balance
        BY <1>4, <2>2, <2>3, <2>8, <3>1
      <4> QED BY <4>1, <4>2, <4>3
    <3>2. CASE w # W
      BY <2>3, <2>4, <2>6, <3>2 DEF WalletsExact
    <3> QED BY <3>1, <3>2
  <2> QED BY <2>3, <2>9 DEF WalletsExact, Stakes, SpinsOf
<1>6. TotalsExact'
  <2>0. PICK C \in {"USDC", "OZ"} : C = Currency[s]
    BY <1>4
  <2>1. totals' = [totals EXCEPT ![C].stake = @ + Stake[s]]
    BY <2>0 DEF PlaceSpin
  <2>2. totals \in [{"USDC", "OZ"} -> [stake: Int, payout: Int]] /\ totals[C] \in [stake: Int, payout: Int]
    BY <1>4 DEF TotalsExact
  <2>3. /\ totals'[C].payout = totals[C].payout /\ totals'[C].stake = totals[C].stake + Stake[s]
        /\ \A c \in {"USDC", "OZ"} : c # C => totals'[c] = totals[c]
        /\ totals' \in [{"USDC", "OZ"} -> [stake: Int, payout: Int]]
    BY <1>4, <2>1, <2>2
  <2>4. Payouts' = Payouts
    <3>1. \A x \in Spins : Payouts'[x] = Payouts[x]
      BY <1>3, <1>4 DEF Payouts
    <3>2. Payouts' = [x \in Spins |-> Payouts'[x]] /\ Payouts = [x \in Spins |-> Payouts[x]]
      BY DEF Payouts
    <3> QED BY <3>1, <3>2
  <2>5. Standing(C)' = Standing(C) \cup {s} /\ s \notin Standing(C) /\ Standing(C) \in SUBSET Spins
    BY <1>2, <1>3, <2>0 DEF Standing, SpinsIn
  <2>6. \A c \in {"USDC", "OZ"} : c # C => Standing(c)' = Standing(c)
    BY <1>3, <2>0 DEF Standing, SpinsIn
  <2>7. Stakes(Standing(C) \cup {s}) = Stake[s] + Stakes(Standing(C))
    <3>1. IsFiniteSet(Standing(C)) /\ \A y \in Standing(C) \cup {s} : Stake[y] \in Int
      BY <2>5, SpinSums, WalletIn
    <3> QED BY <2>5, <3>1, SumAdd DEF Stakes
  <2>8. ASSUME NEW c \in {"USDC", "OZ"}
        PROVE  /\ totals'[c].stake = Stakes(Standing(c)')
               /\ totals'[c].payout = SumFunctionOnSet(Payouts', SpinsIn(c))
    <3>1. CASE c = C
      <4>1. totals'[c].stake = Stakes(Standing(c)')
        <5>1. totals[c].stake = Stakes(Standing(c)) /\ totals[c].stake \in Int
          BY <2>2, <3>1 DEF TotalsExact
        <5>2. Stakes(Standing(c)') = Stake[s] + Stakes(Standing(c))
          BY <2>5, <2>7, <3>1
        <5>3. totals'[c].stake = totals[c].stake + Stake[s]
          BY <2>3, <3>1
        <5> QED BY <1>4, <5>1, <5>2, <5>3
      <4> QED BY <2>3, <2>4, <3>1, <4>1 DEF TotalsExact
    <3>2. CASE c # C
      BY <2>3, <2>4, <2>6, <3>2 DEF TotalsExact
    <3> QED BY <3>1, <3>2
  <2> QED BY <2>3, <2>8 DEF TotalsExact, Stakes, SpinsIn
<1>7. LiabilityExact'
  <2> DEFINE f == [x \in Spins |-> spin[x].exposure]
             g == [x \in Spins |-> spin'[x].exposure]
             A == Open \cap UsdcSpins
             B == Open' \cap UsdcSpins
  <2>1. liability = SumFunctionOnSet(f, A) /\ (LiabilityExact' <=> liability' = SumFunctionOnSet(g, B))
    BY DEF LiabilityExact, Exposures, UsdcSpins
  <2>2. liability' = liability + (IF Currency[s] = "USDC" THEN ExposureMicro(s) ELSE 0)
    BY DEF PlaceSpin, Usdc
  <2>3. A \in SUBSET Spins /\ s \notin A /\ (IF Currency[s] = "USDC" THEN B = A \cup {s} ELSE B = A)
    BY <1>2, <1>3 DEF Open, UsdcSpins
  <2>4. /\ \A x \in A : f[x] = g[x] /\ f[x] \in Nat /\ g[x] \in Int
        /\ g[s] = ExposureMicro(s) /\ g[s] \in Int
    BY <1>3, <2>3, RowParts, ExposureType
  <2> HIDE DEF f, g, A, B
  <2>5. IsFiniteSet(A)
    BY <2>3, SpinSums
  <2>6. SumFunctionOnSet(f, A) = SumFunctionOnSet(g, A)
    BY <2>4, <2>5, SumSame
  <2>7. SumFunctionOnSet(f, A) \in Int
    BY <2>4, <2>5, SumType
  <2>8. CASE Currency[s] = "USDC"
    <3>1. SumFunctionOnSet(g, A \cup {s}) = g[s] + SumFunctionOnSet(g, A)
      BY <2>3, <2>4, <2>5, SumAdd
    <3> QED BY <2>1, <2>2, <2>3, <2>4, <2>6, <2>7, <2>8, <3>1
  <2>9. CASE Currency[s] # "USDC"
    BY <2>1, <2>2, <2>3, <2>6, <2>7, <2>9
  <2> QED BY <2>8, <2>9
<1>8. Booked'
  <2> DEFINE N == [x \in Spins |-> IF x = s THEN {Row("slot_stake", s, - Stake[s])} ELSE {}]
  <2>1. \A x \in Spins : RowsOf(x)' = RowsOf(x) \cup N[x]
    BY <1>2, <1>3 DEF RowsOf, Row
  <2>2. UNION {N[x] : x \in Spins} = {Row("slot_stake", s, - Stake[s])}
    OBVIOUS
  <2>3. ledger' = ledger \cup UNION {N[x] : x \in Spins}
    BY <2>2 DEF PlaceSpin
  <2> HIDE DEF N
  <2> QED BY <2>1, <2>3, BookedStep
<1> QED BY <1>5, <1>6, <1>7, <1>8

\* A settled spin: the lock is released, the balance moves by payout less stake.
LEMMA SettleMoney ==
  ASSUME Types, Rows, Money, Next, NEW s \in Spins, SettleOne(s), Claim(s)
  PROVE  Money'
<1> USE DEF Money
<1>1. PICK p \in Nat :
        /\ SettleSpin(s, p)
        /\ spin' = [spin EXCEPT ![s] = [status |-> IF p > 0 THEN "won" ELSE "lost", from |-> @.from,
                                        exposure |-> @.exposure, payout |-> p]]
  BY SettleRow
<1>2. spin[s].status = "open" /\ spin \in [Spins -> SpinState]
  BY DEF Claim, Rows
<1>3. /\ spin'[s].status = IF p > 0 THEN "won" ELSE "lost"
      /\ spin'[s].payout = p /\ spin'[s].exposure = spin[s].exposure
      /\ \A x \in Spins : x # s => spin'[x] = spin[x]
  BY <1>1, <1>2
<1>4. spin[s].payout = 0 /\ Stake[s] \in Nat /\ WalletOf(s) \in Wallets /\ Currency[s] \in {"USDC", "OZ"}
  BY <1>2, RowParts, WalletIn
<1>5. WalletsExact'
  <2>0. PICK W \in Wallets : W = WalletOf(s)
    BY <1>4
  <2>1. wallet' = [wallet EXCEPT ![W] = [balance |-> (@.balance + p) - Stake[s],
                                         locked |-> @.locked - Stake[s]]]
    BY <1>1, <2>0 DEF SettleSpin
  <2>2. wallet \in [Wallets -> [balance: Int, locked: Int]] /\ wallet[W] \in [balance: Int, locked: Int]
    BY DEF WalletsExact
  <2>3. /\ wallet'[W].balance = (wallet[W].balance + p) - Stake[s]
        /\ wallet'[W].locked = wallet[W].locked - Stake[s]
        /\ \A w \in Wallets : w # W => wallet'[w] = wallet[w]
    BY <2>1, <2>2
  <2>4. wallet' \in [Wallets -> [balance: Int, locked: Int]]
    BY <1>4, <2>1, <2>2
  <2>5. /\ Gains[s] = 0 /\ Gains'[s] = p - Stake[s] /\ Gains'[s] \in Int
        /\ \A x \in Spins : x # s => Gains'[x] = Gains[x]
        /\ \A x \in Spins : Gains[x] \in Int
    BY <1>2, <1>3, <1>4, RowParts DEF Gains
  <2>6. OpenOf(W)' = OpenOf(W) \ {s} /\ s \in OpenOf(W) /\ OpenOf(W) \in SUBSET Spins
    BY <1>2, <1>3, <2>0 DEF OpenOf, Open
  <2>7. \A w \in Wallets : w # W => OpenOf(w)' = OpenOf(w)
    BY <1>2, <1>3, <2>0 DEF OpenOf, Open
  <2>8. Stakes(OpenOf(W)) = Stake[s] + Stakes(OpenOf(W) \ {s})
    <3>1. IsFiniteSet(OpenOf(W)) /\ \A y \in OpenOf(W) : Stake[y] \in Int
      BY <2>6, SpinSums
    <3> QED BY <2>6, <3>1, SumRemove DEF Stakes
  <2>9. Stakes(OpenOf(W) \ {s}) \in Nat
    BY <2>6, SpinSums
  <2>10. SumFunctionOnSet(Gains', SpinsOf(W)) = SumFunctionOnSet(Gains, SpinsOf(W)) - 0 + (p - Stake[s])
    <3>1. s \in SpinsOf(W) /\ SpinsOf(W) \in SUBSET Spins
      BY <2>0 DEF SpinsOf
    <3>2. IsFiniteSet(SpinsOf(W))
      BY <3>1, SpinSums
    <3>3. \A y \in SpinsOf(W) : Gains[y] \in Int /\ Gains'[y] \in Int /\ (y # s => Gains[y] = Gains'[y])
      BY <2>5, <3>1
    <3>4. SumFunctionOnSet(Gains', SpinsOf(W)) = SumFunctionOnSet(Gains, SpinsOf(W)) - Gains[s] + Gains'[s]
      BY <3>1, <3>2, <3>3, SumChange
    <3> QED BY <2>5, <3>4
  <2>11. SumFunctionOnSet(Gains, SpinsOf(W)) \in Int
    <3>1. SpinsOf(W) \in SUBSET Spins
      BY DEF SpinsOf
    <3> QED BY <2>5, <3>1, SpinSums, SumType
  <2>12. ASSUME NEW w \in Wallets
        PROVE  /\ wallet'[w].locked = Stakes(OpenOf(w)')
               /\ wallet'[w].balance = Opening + SumFunctionOnSet(Gains', SpinsOf(w))
               /\ wallet'[w].locked <= wallet'[w].balance
    <3>1. CASE w = W
      <4>1. /\ wallet[w].locked = Stakes(OpenOf(w)) /\ wallet[w].locked \in Int
            /\ wallet[w].balance = Opening + SumFunctionOnSet(Gains, SpinsOf(w))
            /\ wallet[w].balance \in Int /\ wallet[w].locked <= wallet[w].balance
        BY <2>2, <3>1 DEF WalletsExact
      <4>2. wallet'[w].locked = wallet[w].locked - Stake[s]
        BY <2>3, <3>1
      <4>3. wallet'[w].balance = (wallet[w].balance + p) - Stake[s]
        BY <2>3, <3>1
      <4>4. Stakes(OpenOf(w)) = Stake[s] + Stakes(OpenOf(w)') /\ Stakes(OpenOf(w)') \in Nat
        BY <2>6, <2>8, <2>9, <3>1
      <4>5. wallet'[w].locked = Stakes(OpenOf(w)')
        BY <1>4, <4>1, <4>2, <4>4
      <4>6. wallet'[w].balance = Opening + SumFunctionOnSet(Gains', SpinsOf(w))
        <5>1. Opening \in Int /\ SumFunctionOnSet(Gains, SpinsOf(w)) \in Int
          BY <2>11, <3>1, SlotAssumption
        <5>2. SumFunctionOnSet(Gains', SpinsOf(w)) = SumFunctionOnSet(Gains, SpinsOf(w)) - 0 + (p - Stake[s])
          BY <2>10, <3>1
        <5> QED BY <1>4, <4>1, <4>3, <5>1, <5>2
      <4>7. wallet'[w].locked <= wallet'[w].balance
        BY <1>4, <4>1, <4>2, <4>3
      <4> QED BY <4>5, <4>6, <4>7
    <3>2. CASE w # W
      <4>1. SpinsOf(w) \in SUBSET Spins /\ s \notin SpinsOf(w)
        BY <2>0, <3>2 DEF SpinsOf
      <4>2. IsFiniteSet(SpinsOf(w)) /\ \A x \in SpinsOf(w) : Gains[x] = Gains'[x]
        BY <2>5, <4>1, SpinSums
      <4>3. SumFunctionOnSet(Gains, SpinsOf(w)) = SumFunctionOnSet(Gains', SpinsOf(w))
        BY <4>2, SumSame
      <4> QED BY <2>3, <2>7, <3>2, <4>3 DEF WalletsExact
    <3> QED BY <3>1, <3>2
  <2> QED BY <2>4, <2>12 DEF WalletsExact, Stakes, SpinsOf
<1>6. TotalsExact'
  <2>0. PICK C \in {"USDC", "OZ"} : C = Currency[s]
    BY <1>4
  <2>1. totals' = [totals EXCEPT ![C].payout = @ + p]
    BY <1>1, <2>0 DEF SettleSpin
  <2>2. totals \in [{"USDC", "OZ"} -> [stake: Int, payout: Int]] /\ totals[C] \in [stake: Int, payout: Int]
    BY DEF TotalsExact
  <2>3. /\ totals'[C].payout = totals[C].payout + p /\ totals'[C].stake = totals[C].stake
        /\ \A c \in {"USDC", "OZ"} : c # C => totals'[c] = totals[c]
        /\ totals' \in [{"USDC", "OZ"} -> [stake: Int, payout: Int]]
    BY <2>1, <2>2
  <2>4. /\ Payouts[s] = 0 /\ Payouts'[s] = p
        /\ \A x \in Spins : x # s => Payouts'[x] = Payouts[x]
        /\ \A x \in Spins : Payouts[x] \in Int
    BY <1>3, <1>4, RowParts DEF Payouts
  <2>5. \A c \in {"USDC", "OZ"} : Standing(c)' = Standing(c)
    BY <1>2, <1>3 DEF Standing, SpinsIn
  <2>6. ASSUME NEW c \in {"USDC", "OZ"}
        PROVE  /\ SpinsIn(c) \in SUBSET Spins /\ IsFiniteSet(SpinsIn(c))
               /\ SumFunctionOnSet(Payouts, SpinsIn(c)) \in Int
               /\ s \in SpinsIn(c) <=> c = C
    <3>1. SpinsIn(c) \in SUBSET Spins /\ (s \in SpinsIn(c) <=> c = C)
      BY <2>0 DEF SpinsIn
    <3> QED BY <2>4, <3>1, SpinSums, SumType
  <2>7. ASSUME NEW c \in {"USDC", "OZ"}
        PROVE  /\ totals'[c].stake = Stakes(Standing(c)')
               /\ totals'[c].payout = SumFunctionOnSet(Payouts', SpinsIn(c))
    <3>0. /\ totals[c].stake = Stakes(Standing(c))
          /\ totals[c].payout = SumFunctionOnSet(Payouts, SpinsIn(c))
      BY DEF TotalsExact
    <3>1. CASE c = C
      <4>1. \A y \in SpinsIn(c) : Payouts[y] \in Int /\ Payouts'[y] \in Int /\ (y # s => Payouts[y] = Payouts'[y])
        BY <2>4, <2>6
      <4>2. SumFunctionOnSet(Payouts', SpinsIn(c))
              = SumFunctionOnSet(Payouts, SpinsIn(c)) - Payouts[s] + Payouts'[s]
        BY <2>6, <3>1, <4>1, SumChange
      <4>3. SumFunctionOnSet(Payouts', SpinsIn(c)) = SumFunctionOnSet(Payouts, SpinsIn(c)) + p
        BY <2>4, <2>6, <4>2
      <4> QED BY <2>3, <2>5, <3>0, <3>1, <4>3
    <3>2. CASE c # C
      <4>1. \A x \in SpinsIn(c) : Payouts[x] = Payouts'[x]
        BY <2>4, <2>6, <3>2
      <4>2. SumFunctionOnSet(Payouts, SpinsIn(c)) = SumFunctionOnSet(Payouts', SpinsIn(c))
        BY <2>6, <4>1, SumSame
      <4> QED BY <2>3, <2>5, <3>0, <3>2, <4>2
    <3> QED BY <3>1, <3>2
  <2> QED BY <2>3, <2>7 DEF TotalsExact, Stakes, SpinsIn
<1>7. LiabilityExact'
  <2>1. {s} \in SUBSET Open /\ Open' = Open \ {s}
    BY <1>2, <1>3 DEF Open
  <2>2. ReleaseLiability({s})
    BY <1>1 DEF SettleSpin
  <2>3. \A x \in Spins : spin'[x].exposure = spin[x].exposure
    BY <1>3
  <2> QED BY <2>1, <2>2, <2>3, ReleaseExact
<1>8. Booked'
  <2> DEFINE N == [x \in Spins |-> IF x = s /\ p > 0 THEN {Row("slot_payout", s, p)} ELSE {}]
  <2>1. \A x \in Spins : RowsOf(x)' = RowsOf(x) \cup N[x]
    BY <1>2, <1>3 DEF RowsOf, Row
  <2>2. UNION {N[x] : x \in Spins} = IF p > 0 THEN {Row("slot_payout", s, p)} ELSE {}
    OBVIOUS
  <2>3. \A r \in ledger : ~ (r.type = "slot_payout" /\ r.spin = s)
    <3> SUFFICES ASSUME NEW r \in ledger, r.type = "slot_payout", r.spin = s PROVE FALSE
      OBVIOUS
    <3>1. PICK x \in Spins : r \in RowsOf(x)
      BY DEF Booked
    <3>2. r.spin = x /\ (r.type = "slot_payout" => spin[x].status = "won")
      BY <3>1 DEF RowsOf, Row
    <3> QED BY <1>2, <3>2
  <2>4. ledger' = ledger \cup UNION {N[x] : x \in Spins}
    <3>1. Row("slot_payout", s, p).type = "slot_payout" /\ Row("slot_payout", s, p).spin = s
      BY DEF Row
    <3>2. ledger' = IF p > 0 THEN ledger \cup {Row("slot_payout", s, p)} ELSE ledger
      BY <1>1, <2>3, <3>1 DEF SettleSpin, InsertLedger
    <3> QED BY <2>2, <3>2
  <2> HIDE DEF N
  <2> QED BY <2>1, <2>4, BookedStep
<1> QED BY <1>5, <1>6, <1>7, <1>8

\* Voided spins: the locks are released, the stakes booked back, the totals
\* reduced.
LEMMA VoidMoney ==
  ASSUME Types, Rows, Money, NEW S \in SUBSET Open, VoidSpins(S)
  PROVE  Money'
<1> USE DEF Money
<1>1. S \in SUBSET Spins /\ \A s \in S : spin[s].status = "open"
  BY DEF Open
<1>2. ASSUME NEW x \in Spins
      PROVE  /\ spin'[x].status = IF x \in S THEN "void" ELSE spin[x].status
             /\ spin'[x].exposure = spin[x].exposure /\ spin'[x].payout = spin[x].payout
  BY <1>1, VoidRow
<1>3. WalletsExact'
  <2>1. wallet \in [Wallets -> [balance: Int, locked: Int]]
    BY DEF WalletsExact
  <2>2. ASSUME NEW w \in Wallets
        PROVE  /\ {s \in S : WalletOf(s) = w} \in SUBSET OpenOf(w) /\ OpenOf(w) \in SUBSET Spins
               /\ OpenOf(w)' = OpenOf(w) \ {s \in S : WalletOf(s) = w}
    BY <1>1, <1>2 DEF OpenOf, Open
  <2>3. Gains' = Gains
    <3>1. \A x \in Spins : Gains'[x] = Gains[x]
      BY <1>1, <1>2 DEF Gains
    <3>2. Gains' = [x \in Spins |-> Gains'[x]] /\ Gains = [x \in Spins |-> Gains[x]]
      BY DEF Gains
    <3> QED BY <3>1, <3>2
  <2>4. ASSUME NEW w \in Wallets
        PROVE  /\ wallet'[w] \in [balance: Int, locked: Int]
               /\ wallet'[w].locked = Stakes(OpenOf(w)')
               /\ wallet'[w].balance = Opening + SumFunctionOnSet(Gains', SpinsOf(w))
               /\ wallet'[w].locked <= wallet'[w].balance
    <3>1. PICK D : D = {s \in S : WalletOf(s) = w}
      OBVIOUS
    <3>2. D \in SUBSET OpenOf(w) /\ OpenOf(w) \in SUBSET Spins /\ OpenOf(w)' = OpenOf(w) \ D
      BY <2>2, <3>1
    <3>3. \A x \in OpenOf(w) : Stake[x] \in Nat
      BY <3>2, WalletIn
    <3>4. Stakes(OpenOf(w) \ D) = Stakes(OpenOf(w)) - Stakes(D) /\ Stakes(D) \in Nat
      BY <3>2, <3>3, SumOut DEF Stakes
    <3>5. wallet'[w] = [wallet[w] EXCEPT !.locked = wallet[w].locked - Stakes(D)]
      BY <3>1 DEF VoidSpins
    <3>6. /\ wallet[w] \in [balance: Int, locked: Int]
          /\ wallet[w].locked = Stakes(OpenOf(w)) /\ wallet[w].locked \in Int
          /\ wallet[w].balance = Opening + SumFunctionOnSet(Gains, SpinsOf(w))
          /\ wallet[w].balance \in Int /\ wallet[w].locked <= wallet[w].balance
      BY <2>1 DEF WalletsExact
    <3>7. PICK d \in Nat : d = Stakes(D)
      BY <3>4
    <3>8. /\ wallet'[w] \in [balance: Int, locked: Int]
          /\ wallet'[w].locked = wallet[w].locked - d /\ wallet'[w].balance = wallet[w].balance
      BY <3>5, <3>6, <3>7
    <3>9. wallet'[w].locked = Stakes(OpenOf(w)')
      <4>1. Stakes(OpenOf(w)') = Stakes(OpenOf(w)) - d
        BY <3>2, <3>4, <3>7
      <4> QED BY <3>6, <3>8, <4>1
    <3>10. wallet'[w].locked <= wallet'[w].balance
      BY <3>6, <3>7, <3>8
    <3> QED BY <2>3, <3>6, <3>8, <3>9, <3>10
  <2>5. wallet' \in [Wallets -> [balance: Int, locked: Int]]
    <3>1. wallet' = [w \in Wallets |-> wallet'[w]]
      BY DEF VoidSpins
    <3> QED BY <2>4, <3>1
  <2> QED BY <2>4, <2>5 DEF WalletsExact, Stakes, SpinsOf
<1>4. TotalsExact'
  <2>1. totals \in [{"USDC", "OZ"} -> [stake: Int, payout: Int]] /\ DOMAIN totals = {"USDC", "OZ"}
    BY DEF TotalsExact
  <2>2. ASSUME NEW c \in {"USDC", "OZ"}
        PROVE  /\ {s \in S : Currency[s] = c} \in SUBSET Standing(c) /\ Standing(c) \in SUBSET Spins
               /\ Standing(c)' = Standing(c) \ {s \in S : Currency[s] = c}
    <3>1. \A x \in Spins : spin'[x].status \in {"absent", "void"} <=>
                             x \in S \/ spin[x].status \in {"absent", "void"}
      BY <1>2
    <3> QED BY <1>1, <3>1 DEF Standing, SpinsIn
  <2>3. Payouts' = Payouts
    <3>1. \A x \in Spins : Payouts'[x] = Payouts[x]
      BY <1>2 DEF Payouts
    <3>2. Payouts' = [x \in Spins |-> Payouts'[x]] /\ Payouts = [x \in Spins |-> Payouts[x]]
      BY DEF Payouts
    <3> QED BY <3>1, <3>2
  <2>4. ASSUME NEW c \in {"USDC", "OZ"}
        PROVE  /\ totals'[c] \in [stake: Int, payout: Int]
               /\ totals'[c].stake = Stakes(Standing(c)')
               /\ totals'[c].payout = SumFunctionOnSet(Payouts', SpinsIn(c))
    <3>1. PICK D : D = {s \in S : Currency[s] = c}
      OBVIOUS
    <3>2. D \in SUBSET Standing(c) /\ Standing(c) \in SUBSET Spins /\ Standing(c)' = Standing(c) \ D
      BY <2>2, <3>1
    <3>3. \A x \in Standing(c) : Stake[x] \in Nat
      BY <3>2, WalletIn
    <3>4. Stakes(Standing(c) \ D) = Stakes(Standing(c)) - Stakes(D) /\ Stakes(D) \in Nat
      BY <3>2, <3>3, SumOut DEF Stakes
    <3>5. totals'[c] = [totals[c] EXCEPT !.stake = totals[c].stake - Stakes(D)]
      BY <2>1, <3>1 DEF VoidSpins
    <3>6. /\ totals[c] \in [stake: Int, payout: Int]
          /\ totals[c].stake = Stakes(Standing(c)) /\ totals[c].stake \in Int
          /\ totals[c].payout = SumFunctionOnSet(Payouts, SpinsIn(c))
      BY <2>1 DEF TotalsExact
    <3>7. PICK d \in Nat : d = Stakes(D)
      BY <3>4
    <3>8. /\ totals'[c] \in [stake: Int, payout: Int]
          /\ totals'[c].stake = totals[c].stake - d /\ totals'[c].payout = totals[c].payout
      BY <3>5, <3>6, <3>7
    <3>9. Stakes(Standing(c)') = Stakes(Standing(c)) - d
      BY <3>2, <3>4, <3>7
    <3> QED BY <2>3, <3>6, <3>8, <3>9
  <2>5. totals' \in [{"USDC", "OZ"} -> [stake: Int, payout: Int]]
    <3>1. totals' = [c \in {"USDC", "OZ"} |-> totals'[c]]
      BY <2>1 DEF VoidSpins
    <3> QED BY <2>4, <3>1
  <2> QED BY <2>4, <2>5 DEF TotalsExact, Stakes, SpinsIn
<1>5. LiabilityExact'
  <2>1. Open' = Open \ S
    BY <1>1, <1>2 DEF Open
  <2>2. ReleaseLiability(S)
    BY DEF VoidSpins
  <2> QED BY <1>2, <2>1, <2>2, ReleaseExact
<1>6. Booked'
  <2> DEFINE N == [x \in Spins |-> IF x \in S THEN {Row("slot_refund", x, Stake[x])} ELSE {}]
  <2>1. \A x \in Spins : RowsOf(x)' = RowsOf(x) \cup N[x]
    <3> TAKE x \in Spins
    <3>1. CASE x \in S
      BY <1>1, <1>2, <3>1 DEF RowsOf, Row
    <3>2. CASE x \notin S
      BY <1>2, <3>2 DEF RowsOf, Row
    <3> QED BY <3>1, <3>2
  <2>2. \A r : r \in UNION {N[x] : x \in Spins} <=> \E x \in S : r = Row("slot_refund", x, Stake[x])
    BY <1>1
  <2>3. ASSUME NEW s \in S
        PROVE  ~ \E r \in ledger : r.type = "slot_refund" /\ r.spin = s
    <3> SUFFICES ASSUME NEW r \in ledger, r.type = "slot_refund", r.spin = s PROVE FALSE
      OBVIOUS
    <3>1. PICK x \in Spins : r \in RowsOf(x)
      BY DEF Booked
    <3>2. r.spin = x /\ (r.type = "slot_refund" => spin[x].status = "void")
      BY <3>1 DEF RowsOf, Row
    <3> QED BY <1>1, <3>2
  <2>4. ledger' = ledger \cup {Row("slot_refund", s, Stake[s]) : s \in S}
    <3>1. {s \in S : ~ \E x \in ledger : x.type = "slot_refund" /\ x.spin = s} = S
      BY <2>3
    <3> QED BY <3>1 DEF VoidSpins
  <2>5. ledger' = ledger \cup UNION {N[x] : x \in Spins}
    BY <2>2, <2>4
  <2> HIDE DEF N
  <2> QED BY <2>1, <2>5, BookedStep
<1> QED BY <1>3, <1>4, <1>5, <1>6

\* A step that touches no spin leaves the money alone.
LEMMA MoneyKept ==
  ASSUME Money, UNCHANGED spinVars
  PROVE  Money'
<1>1. UNCHANGED <<spin, wallet, ledger, liability, totals>>
  BY DEF spinVars
<1>2. /\ Gains' = Gains /\ Payouts' = Payouts /\ Open' = Open
      /\ \A w : OpenOf(w)' = OpenOf(w) /\ SpinsOf(w)' = SpinsOf(w)
      /\ \A c : Standing(c)' = Standing(c) /\ SpinsIn(c)' = SpinsIn(c)
      /\ \A s : RowsOf(s)' = RowsOf(s)
  BY <1>1 DEF Gains, Payouts, Open, OpenOf, SpinsOf, Standing, SpinsIn, RowsOf
<1>3. WalletsExact'
  BY <1>1, <1>2 DEF Money, WalletsExact, Stakes
<1>4. TotalsExact'
  BY <1>1, <1>2 DEF Money, TotalsExact, Stakes
<1>5. LiabilityExact'
  BY <1>1, <1>2 DEF Money, LiabilityExact, Exposures, UsdcSpins
<1>6. Booked'
  BY <1>1, <1>2 DEF Money, Booked
<1> QED BY <1>3, <1>4, <1>5, <1>6 DEF Money

\* Every step keeps the money exact.
LEMMA MoneyStep ==
  ASSUME Types, Rows, Money, Next
  PROVE  Money'
<1>1. ASSUME NEW s \in Spins, VoidOne(s), Claim(s)
      PROVE  Money'
  BY <1>1, Voided, VoidMoney
<1>2. CASE AdminVoid
  BY <1>2, Voided, VoidMoney
<1>3. CASE UNCHANGED spinVars
  BY <1>3, MoneyKept
<1> QED BY <1>1, <1>2, <1>3, SpinWriters, PlaceMoney, SettleMoney

-----------------------------------------------------------------------------
(* The invariant *)

\* Nothing is placed, booked or fetched at first.
LEMMA InitSInv ==
  ASSUME Init
  PROVE  SInv
<1>1. Types
  <2>1. /\ NeverStartedAfter \in Nat /\ MaxFaults \in Nat /\ MatchSeconds \in Nat
        /\ FeedDarkVoidSeconds \in Nat
    BY SlotAssumption
  <2>2. /\ now \in 0..(NeverStartedAfter + 1) /\ faults \in 0..MaxFaults
        /\ play \in [clock: 0..MatchSeconds, phase: {"before", "on", "over"}]
        /\ game \in GameState
    BY <2>1 DEF Init, GameState
  <2>3. stored \in EventState /\ mem \in MemState /\ job \in JobState /\ job.todo = {}
    BY UnloggedType DEF Init
  <2>4. scout \in [Events -> Report \cup {NoReport}]
    BY DEF Init
  <2> QED BY <2>2, <2>3, <2>4 DEF Init, Types
<1>2. \A s \in Spins : spin[s] = Unplaced
  BY DEF Init
<1>3. Unplaced \in SpinState /\ Unplaced.status = "absent" /\ Unplaced.payout = 0 /\ Unplaced.from = 0
  BY DEF Unplaced, SpinState
<1>4. Rows
  <2>1. spin \in [Spins -> SpinState]
    BY <1>3 DEF Init
  <2>2. 0 % WindowSeconds = 0
    BY SlotAssumption, OnAWindow
  <2> QED BY <1>2, <1>3, <2>1, <2>2 DEF Rows
<1>5. Open = {}
  BY <1>2, <1>3 DEF Open
<1>6. job.pc = "idle" /\ game.status = "scheduled" /\ mem.loaded = FALSE
  BY DEF Init, Idle, NewMem
<1>7. Polled /\ Remembered /\ Timely
  BY <1>5, <1>6 DEF Polled, Remembered, Timely, ServicePauseIsRemembered, ServicePaused
<1>8. Mirrored
  <2>1. mem.known = Unlogged /\ mem.built = Unlogged /\ stored = Unlogged
    BY DEF Init, NewMem
  <2>2. \A e \in Events : Unlogged[e].report = NoReport /\ Unlogged[e].age <= Unlogged[e].age
    BY SlotAssumption DEF Unlogged
  <2> QED BY <1>6, <2>1, <2>2 DEF Mirrored
<1>9. WalletsExact
  <2>1. Opening \in Nat
    BY SlotAssumption
  <2>2. \A s \in Spins : Gains[s] = 0
    BY <1>2, <1>3 DEF Gains
  <2>3. ASSUME NEW w \in Wallets
        PROVE  /\ wallet[w] = [balance |-> Opening, locked |-> 0]
               /\ Stakes(OpenOf(w)) = 0 /\ SumFunctionOnSet(Gains, SpinsOf(w)) = 0
    <3>1. OpenOf(w) = {} /\ SpinsOf(w) \in SUBSET Spins
      BY <1>5 DEF OpenOf, SpinsOf
    <3>2. Stakes(OpenOf(w)) = 0
      BY <3>1, SumEmpty DEF Stakes
    <3>3. SumFunctionOnSet(Gains, SpinsOf(w)) = SumFunctionOnSet(Gains, {})
      BY <2>2, <3>1, SpinSums, SumSupport
    <3> QED BY <3>2, <3>3, SumEmpty DEF Init
  <2>4. wallet \in [Wallets -> [balance: Int, locked: Int]]
    BY <2>1 DEF Init
  <2> QED BY <2>1, <2>3, <2>4 DEF WalletsExact
<1>10. TotalsExact
  <2>1. \A s \in Spins : Payouts[s] = 0
    BY <1>2, <1>3 DEF Payouts
  <2>2. ASSUME NEW c \in {"USDC", "OZ"}
        PROVE  /\ totals[c] = [stake |-> 0, payout |-> 0]
               /\ Stakes(Standing(c)) = 0 /\ SumFunctionOnSet(Payouts, SpinsIn(c)) = 0
    <3>1. Standing(c) = {} /\ SpinsIn(c) \in SUBSET Spins
      BY <1>2, <1>3 DEF Standing, SpinsIn
    <3>2. Stakes(Standing(c)) = 0
      BY <3>1, SumEmpty DEF Stakes
    <3>3. SumFunctionOnSet(Payouts, SpinsIn(c)) = SumFunctionOnSet(Payouts, {})
      BY <2>1, <3>1, SpinSums, SumSupport
    <3> QED BY <3>2, <3>3, SumEmpty DEF Init
  <2>3. totals \in [{"USDC", "OZ"} -> [stake: Int, payout: Int]]
    BY DEF Init
  <2> QED BY <2>2, <2>3 DEF TotalsExact
<1>11. LiabilityExact
  <2>1. Open \cap UsdcSpins = {}
    BY <1>5
  <2> QED BY <2>1, SumEmpty DEF Init, LiabilityExact, Exposures
<1>12. Booked
  <2>1. \A s \in Spins : RowsOf(s) = {}
    BY <1>2, <1>3 DEF RowsOf
  <2> QED BY <2>1 DEF Init, Booked
<1> QED BY <1>1, <1>4, <1>7, <1>8, <1>9, <1>10, <1>11, <1>12 DEF SInv, CInv, Money

\* Nothing changes when nothing happens.
LEMMA Stutter ==
  ASSUME SInv, UNCHANGED vars
  PROVE  SInv'
<1>1. /\ UNCHANGED <<now, play, scout, listed, game, spin, stored, mem, job, faults, loose, missed, forgot>>
      /\ UNCHANGED spinVars
  BY DEF vars, feedVars, spinVars, history
<1>2. Money'
  BY <1>1, MoneyKept DEF SInv
<1>3. Types'
  BY <1>1 DEF SInv, CInv, Types
<1>4. Rows'
  BY <1>1 DEF SInv, CInv, Rows
<1>5. Polled'
  BY <1>1 DEF SInv, CInv, Polled, Open, Active
<1>6. Remembered'
  BY <1>1 DEF SInv, CInv, Remembered, ServicePauseIsRemembered, ServicePaused
<1>7. Timely'
  BY <1>1 DEF SInv, CInv, Timely, RoundEnd, GraceOver, In, WindowsOf
<1>8. Mirrored'
  BY <1>1 DEF SInv, CInv, Mirrored, Behind
<1> QED BY <1>2, <1>3, <1>4, <1>5, <1>6, <1>7, <1>8 DEF SInv, CInv

\* One step of anybody.
LEMMA StepSInv ==
  ASSUME SInv, [Next]_vars
  PROVE  SInv'
<1>1. Types /\ Rows /\ Polled /\ Remembered /\ Timely /\ Mirrored /\ Money
  BY DEF SInv, CInv
<1>2. CASE Next
  <2>1. Types' /\ Rows'
    BY <1>1, <1>2, TypesStep, RowsStep
  <2>2. Polled' /\ Remembered'
    BY <1>1, <1>2, PolledStep, RememberedStep
  <2>3. Timely' /\ Mirrored'
    BY <1>1, <1>2, TimelyStep, MirroredStep
  <2>4. Money'
    BY <1>1, <1>2, MoneyStep
  <2> QED BY <2>1, <2>2, <2>3, <2>4 DEF SInv, CInv
<1>3. CASE UNCHANGED vars
  BY <1>3, Stutter
<1> QED BY <1>2, <1>3

\* The inductive invariant of the game, the engine and the operator together.
THEOREM SlotInductive == Spec => []SInv
<1>1. Init => SInv
  BY InitSInv
<1>2. SInv /\ [Next]_vars => SInv'
  BY StepSInv
<1> QED BY <1>1, <1>2, PTL DEF Spec

-----------------------------------------------------------------------------
(* What follows from it *)

\* The rows of one spin add up to its net.
Net == [s \in Spins |->
          IF spin[s].status \in {"absent", "void"} THEN 0 ELSE spin[s].payout - Stake[s]]

LEMMA SpinRows ==
  ASSUME Rows, NEW s \in Spins
  PROVE  /\ IsFiniteSet(RowsOf(s)) /\ RowSum(RowsOf(s)) = Net[s]
         /\ \A r \in RowsOf(s) : r.spin = s /\ r.delta \in Int
         /\ RowsOf(s) \subseteq [type: {"slot_stake", "slot_payout", "slot_refund"}, spin: Spins, delta: Int]
<1>1. /\ Stake[s] \in Nat /\ - Stake[s] \in Int /\ spin[s].payout \in Nat
      /\ spin[s].status \in {"absent", "open", "won", "lost", "void"}
      /\ spin[s].status # "won" => spin[s].payout = 0
  BY WalletIn, RowParts
<1>2. \A ty, d : /\ Row(ty, s, d).type = ty /\ Row(ty, s, d).spin = s /\ Row(ty, s, d).delta = d
                 /\ ty \in {"slot_stake", "slot_payout", "slot_refund"} /\ d \in Int =>
                      Row(ty, s, d) \in [type: {"slot_stake", "slot_payout", "slot_refund"}, spin: Spins, delta: Int]
  BY DEF Row
<1>3. /\ \A r \in RowsOf(s) : r.spin = s /\ r.delta \in Int
      /\ RowsOf(s) \subseteq [type: {"slot_stake", "slot_payout", "slot_refund"}, spin: Spins, delta: Int]
  BY <1>1, <1>2 DEF RowsOf
<1>4. ASSUME NEW r, r.delta \in Int
      PROVE  IsFiniteSet({r}) /\ RowSum({r}) = r.delta
  <2> DEFINE f == [x \in {r} |-> x.delta]
  <2>1. f[r] = r.delta /\ \A x \in {r} : f[x] \in Int
    BY <1>4
  <2>2. RowSum({r}) = SumFunctionOnSet(f, {r})
    BY DEF RowSum
  <2> HIDE DEF f
  <2>3. IsFiniteSet({r}) /\ {r} \ {r} = {}
    BY FS_Singleton
  <2>4. SumFunctionOnSet(f, {r}) = f[r] + SumFunctionOnSet(f, {r} \ {r})
    BY <2>1, <2>3, SumRemove
  <2>5. SumFunctionOnSet(f, {r}) = f[r] + 0
    BY <2>3, <2>4, SumEmpty
  <2> QED BY <1>4, <2>1, <2>2, <2>3, <2>5
<1>5. ASSUME NEW r, NEW q, r # q, r.delta \in Int, q.delta \in Int
      PROVE  IsFiniteSet({r} \cup {q}) /\ RowSum({r} \cup {q}) = q.delta + r.delta
  <2> DEFINE f == [x \in {r} \cup {q} |-> x.delta]
             g == [x \in {r} |-> x.delta]
  <2>1. f[q] = q.delta /\ \A x \in {r} \cup {q} : f[x] \in Int
    BY <1>5
  <2>2. RowSum({r} \cup {q}) = SumFunctionOnSet(f, {r} \cup {q}) /\ RowSum({r}) = SumFunctionOnSet(g, {r})
    BY DEF RowSum
  <2>3. \A x \in {r} : f[x] = g[x]
    OBVIOUS
  <2> HIDE DEF f, g
  <2>4. IsFiniteSet({r}) /\ IsFiniteSet({r} \cup {q}) /\ q \notin {r}
    BY <1>5, FS_Singleton, FS_AddElement
  <2>5. SumFunctionOnSet(f, {r} \cup {q}) = f[q] + SumFunctionOnSet(f, {r})
    BY <2>1, <2>4, SumAdd
  <2>6. SumFunctionOnSet(f, {r}) = SumFunctionOnSet(g, {r})
    BY <2>3, <2>4, SumSame
  <2>7. RowSum({r}) = r.delta
    BY <1>4, <1>5
  <2> QED BY <2>1, <2>2, <2>4, <2>5, <2>6, <2>7
<1>6. CASE spin[s].status = "absent"
  <2>1. RowsOf(s) = {} /\ Net[s] = 0
    BY <1>6 DEF RowsOf, Net
  <2>2. RowSum({}) = 0
    BY SumEmpty DEF RowSum
  <2> QED BY <1>3, <2>1, <2>2, FS_EmptySet
<1>7. CASE spin[s].status \in {"open", "lost"}
  <2>1. PICK r : r = Row("slot_stake", s, - Stake[s])
    OBVIOUS
  <2>2. RowsOf(s) = {r} /\ Net[s] = - Stake[s] /\ r.delta = - Stake[s]
    BY <1>1, <1>2, <1>7, <2>1 DEF RowsOf, Net
  <2> QED BY <1>1, <1>3, <1>4, <2>2
<1>8. CASE spin[s].status = "won"
  <2>1. PICK r : r = Row("slot_stake", s, - Stake[s])
    OBVIOUS
  <2>2. PICK q : q = Row("slot_payout", s, spin[s].payout)
    OBVIOUS
  <2>3. /\ RowsOf(s) = {r} \cup {q} /\ Net[s] = spin[s].payout - Stake[s]
        /\ r.delta = - Stake[s] /\ q.delta = spin[s].payout /\ r # q
    BY <1>1, <1>2, <1>8, <2>1, <2>2 DEF RowsOf, Net
  <2>4. IsFiniteSet({r} \cup {q}) /\ RowSum({r} \cup {q}) = q.delta + r.delta
    BY <1>1, <1>5, <2>3
  <2> QED BY <1>1, <1>3, <2>3, <2>4
<1>9. CASE spin[s].status = "void"
  <2>1. PICK r : r = Row("slot_stake", s, - Stake[s])
    OBVIOUS
  <2>2. PICK q : q = Row("slot_refund", s, Stake[s])
    OBVIOUS
  <2>3. /\ RowsOf(s) = {r} \cup {q} /\ Net[s] = 0
        /\ r.delta = - Stake[s] /\ q.delta = Stake[s] /\ r # q
    BY <1>1, <1>2, <1>9, <2>1, <2>2 DEF RowsOf, Net
  <2>4. IsFiniteSet({r} \cup {q}) /\ RowSum({r} \cup {q}) = q.delta + r.delta
    <3>1. r.delta \in Int /\ q.delta \in Int /\ r # q
      BY <1>1, <2>3
    <3> QED BY <1>5, <3>1
  <2> QED BY <1>1, <1>3, <2>3, <2>4
<1> QED BY <1>1, <1>6, <1>7, <1>8, <1>9

\* The rows of a wallet add up to the nets of its spins, and these to what its
\* balance moved by less what is still at stake.
LEMMA WalletRows ==
  ASSUME Rows, Booked, NEW w \in Wallets
  PROVE  /\ SumFunctionOnSet(Gains, SpinsOf(w))
              = Stakes(OpenOf(w)) + RowSum({r \in ledger : WalletOf(r.spin) = w})
         /\ RowSum({r \in ledger : WalletOf(r.spin) = w}) \in Int
<1> DEFINE S == SpinsOf(w)
           U == {r \in ledger : WalletOf(r.spin) = w}
           F == [s \in Spins |-> RowsOf(s)]
           f == [r \in U |-> r.delta]
           h == [s \in Spins |-> IF spin[s].status = "open" THEN Stake[s] ELSE 0]
<1>1. S \in SUBSET Spins /\ IsFiniteSet(S) /\ \A s \in S : WalletOf(s) = w
  <2>1. S \in SUBSET Spins /\ \A s \in S : WalletOf(s) = w
    BY DEF SpinsOf
  <2> QED BY <2>1, SpinSums
<1>2. ASSUME NEW s \in S
      PROVE  /\ IsFiniteSet(F[s]) /\ RowSum(F[s]) = Net[s]
             /\ \A r \in F[s] : r.spin = s /\ r.delta \in Int /\ r \in U
  <2>1. s \in Spins /\ WalletOf(s) = w /\ F[s] = RowsOf(s)
    BY <1>1
  <2>2. RowsOf(s) \subseteq ledger
    BY <2>1 DEF Booked
  <2> QED BY <2>1, <2>2, SpinRows
<1>3. \A r : r \in U <=> \E s \in S : r \in F[s]
  <2>1. ASSUME NEW r \in U
        PROVE  \E s \in S : r \in F[s]
    <3>1. PICK s \in Spins : r \in RowsOf(s)
      BY <2>1 DEF Booked
    <3>2. r.spin = s
      BY <3>1, SpinRows
    <3> QED BY <2>1, <3>1, <3>2 DEF SpinsOf
  <2> QED BY <1>2, <2>1
<1>4. ASSUME NEW s \in S
      PROVE  /\ \A x \in F[s] : f[x] \in Int
             /\ Net[s] = SumFunctionOnSet(f, F[s])
  <2>1. \A x \in F[s] : f[x] = x.delta /\ f[x] \in Int
    BY <1>2
  <2> DEFINE g == [r \in F[s] |-> r.delta]
  <2>2. RowSum(F[s]) = SumFunctionOnSet(g, F[s]) /\ \A x \in F[s] : g[x] = f[x]
    BY <2>1 DEF RowSum
  <2> HIDE DEF g, f, F
  <2>3. SumFunctionOnSet(g, F[s]) = SumFunctionOnSet(f, F[s])
    BY <1>2, <2>2, SumSame
  <2> QED BY <1>2, <2>1, <2>2, <2>3
<1>5. \A s, x \in S : s # x => F[s] \cap F[x] = {}
  BY <1>2
<1>6. RowSum(U) = SumFunctionOnSet(f, U)
  BY DEF RowSum
<1>7. ASSUME NEW s \in Spins
      PROVE  Gains[s] \in Int /\ Net[s] \in Int /\ h[s] = Gains[s] - Net[s] /\ h[s] \in Int
  <2>1. /\ Stake[s] \in Nat /\ spin[s].payout \in Nat
        /\ spin[s].status \in {"absent", "open", "won", "lost", "void"}
        /\ spin[s].status # "won" => spin[s].payout = 0
    BY WalletIn, RowParts
  <2> QED BY <2>1 DEF Gains, Net
<1>8. OpenOf(w) \in SUBSET S /\ \A s \in S \ OpenOf(w) : h[s] = 0
  BY DEF OpenOf, Open, SpinsOf
<1>9. \A s \in OpenOf(w) : h[s] = Stake[s]
  BY DEF OpenOf, Open
<1> HIDE DEF S, U, F, f, h
<1>10. IsFamily(U, F, S, f, Net)
  BY <1>2, <1>3, <1>4, <1>5 DEF IsFamily
<1>11. SumFunctionOnSet(f, U) = SumFunctionOnSet(Net, S)
  BY <1>1, <1>10, SumFamily
<1>12. SumFunctionOnSet(h, S) = SumFunctionOnSet(Gains, S) - SumFunctionOnSet(Net, S)
  BY <1>1, <1>7, SumMinus
<1>13. SumFunctionOnSet(h, S) = SumFunctionOnSet(h, OpenOf(w))
  BY <1>1, <1>7, <1>8, SumSupport
<1>14. SumFunctionOnSet(h, OpenOf(w)) = Stakes(OpenOf(w))
  <2>1. IsFiniteSet(OpenOf(w))
    BY <1>1, <1>8, FS_Subset
  <2> QED BY <1>9, <2>1, SumSame DEF Stakes
<1>15. SumFunctionOnSet(Gains, S) \in Int /\ SumFunctionOnSet(Net, S) \in Int
  BY <1>1, <1>7, SumType
<1>16. SumFunctionOnSet(Gains, S) = Stakes(OpenOf(w)) + RowSum(U) /\ RowSum(U) \in Int
  BY <1>6, <1>11, <1>12, <1>13, <1>14, <1>15
<1> QED BY <1>16 DEF S, U

\* The states of the invariant are of the types TypeOK names.
LEMMA SInvTypes ==
  ASSUME SInv
  PROVE  TypeOK
<1>1. Types /\ Rows /\ Money
  BY DEF SInv, CInv
<1>2. spin \in [Spins -> SpinState] /\ \A s \in Open : spin[s].from % WindowSeconds = 0
  BY <1>1 DEF Rows, Open
<1>3. ASSUME NEW w \in Wallets
      PROVE  wallet[w] \in [balance: Nat, locked: Nat] /\ wallet[w].locked <= wallet[w].balance
  <2>1. /\ wallet[w] \in [balance: Int, locked: Int] /\ wallet[w].locked = Stakes(OpenOf(w))
        /\ wallet[w].locked <= wallet[w].balance
    BY <1>1 DEF Money, WalletsExact
  <2>2. OpenOf(w) \in SUBSET Spins
    BY DEF OpenOf, Open
  <2>3. wallet[w].locked \in Nat
    BY <2>1, <2>2, SpinSums
  <2> QED BY <2>1, <2>3
<1>4. wallet \in [Wallets -> [balance: Nat, locked: Nat]]
  <2>1. wallet = [w \in Wallets |-> wallet[w]]
    BY <1>1 DEF Money, WalletsExact
  <2> QED BY <1>3, <2>1
<1>5. ledger \subseteq [type: {"slot_stake", "slot_payout", "slot_refund"}, spin: Spins, delta: Int]
  <2> SUFFICES ASSUME NEW r \in ledger
               PROVE  r \in [type: {"slot_stake", "slot_payout", "slot_refund"}, spin: Spins, delta: Int]
    OBVIOUS
  <2>1. PICK s \in Spins : r \in RowsOf(s)
    BY <1>1 DEF Money, Booked
  <2> QED BY <1>1, <2>1, SpinRows
<1>6. liability \in Nat
  <2> DEFINE f == [s \in Spins |-> spin[s].exposure]
             A == Open \cap UsdcSpins
  <2>1. A \in SUBSET Spins
    BY DEF Open
  <2>2. \A x \in A : f[x] \in Nat
    BY <1>1, <2>1, RowParts
  <2>3. liability = SumFunctionOnSet(f, A)
    BY <1>1 DEF Money, LiabilityExact, Exposures
  <2> HIDE DEF f, A
  <2> QED BY <2>1, <2>2, <2>3, SpinSums, SumNat
<1>7. /\ job.pc \in {"idle", "fetch", "resume", "store", "clock", "settle", "void"}
      /\ job.todo \subseteq Spins /\ (job.todo # {} => job.pc \in {"settle", "void"})
  BY <1>1 DEF Types, JobState
<1> QED BY <1>1, <1>2, <1>3, <1>4, <1>5, <1>6, <1>7 DEF TypeOK, Types, GameState, SpinState

\* TypeOK of every state: no wallet of a spinning player is locked beyond its
\* balance or below zero, whoever closes the spins (store/spins.go, spin.ts).
THEOREM SlotTypes == Spec => []TypeOK
<1>1. SInv => TypeOK
  BY SInvTypes
<1> QED BY <1>1, SlotInductive, PTL

\* The money of every spin is booked once, for any number of spins and players,
\* however the engine's settle and void, the operator's void and restarts
\* interleave (SettleSpin and VoidSpin of store/spins.go, voidOpenSpinsForGame).
THEOREM SlotMoney == Spec => []MoneyMatchesSpins
<1>1. SInv => MoneyMatchesSpins
  <2> SUFFICES ASSUME SInv PROVE MoneyMatchesSpins
    OBVIOUS
  <2>1. Rows /\ WalletsExact /\ TotalsExact /\ LiabilityExact /\ Booked
    BY DEF SInv, CInv, Money
  <2>2. ASSUME NEW w \in Wallets
        PROVE  /\ wallet[w].locked = Stakes(OpenOf(w))
               /\ wallet[w].balance
                    = (Opening + Stakes(OpenOf(w))) + RowSum({r \in ledger : WalletOf(r.spin) = w})
    <3>1. /\ wallet[w].locked = Stakes(OpenOf(w))
          /\ wallet[w].balance = Opening + SumFunctionOnSet(Gains, SpinsOf(w))
      BY <2>1 DEF WalletsExact
    <3>2. SumFunctionOnSet(Gains, SpinsOf(w))
            = Stakes(OpenOf(w)) + RowSum({r \in ledger : WalletOf(r.spin) = w})
      BY <2>1, WalletRows
    <3>3. Opening \in Int /\ Stakes(OpenOf(w)) \in Int
      <4>1. OpenOf(w) \in SUBSET Spins
        BY DEF OpenOf, Open
      <4> QED BY <4>1, SpinSums, SlotAssumption
    <3>4. RowSum({r \in ledger : WalletOf(r.spin) = w}) \in Int
      BY <2>1, WalletRows
    <3> QED BY <3>1, <3>2, <3>3, <3>4
  <2>3. ASSUME NEW c \in {"USDC", "OZ"}
        PROVE  /\ totals[c].payout
                    = SumFunctionOnSet([s \in Spins |-> spin[s].payout], {s \in Spins : Currency[s] = c})
               /\ totals[c].stake = Stakes({s \in {s \in Spins : Currency[s] = c} :
                                              spin[s].status \notin {"absent", "void"}})
    BY <2>1 DEF TotalsExact, Payouts, SpinsIn, Standing
  <2>4. DOMAIN totals = {"USDC", "OZ"}
    BY <2>1 DEF TotalsExact
  <2> QED BY <2>1, <2>2, <2>3, <2>4 DEF MoneyMatchesSpins, OpenOf, LiabilityExact
<1> QED BY <1>1, SlotInductive, PTL

\* No open spin is left on a game nobody polls, for any number of spins and
\* faults, but for those a failed void or a late placement leaves (engine.go
\* finishGame).
THEOREM SpinsArePolled == Spec => []OpenSpinsArePolled
<1>1. SInv => OpenSpinsArePolled
  BY DEF SInv, CInv, Polled, OpenSpinsArePolled
<1> QED BY <1>1, SlotInductive, PTL

\* The engine remembers every pause it made (engine.go onFeedBack).
THEOREM PauseIsRemembered == Spec => []ServicePauseIsRemembered
<1>1. SInv => ServicePauseIsRemembered
  BY DEF SInv, CInv, Remembered
<1> QED BY <1>1, SlotInductive, PTL

\* An operator's pause is undone by nobody but the operator, the end of the game
\* or its void, although the engine acts on a row it read before (games.go
\* ResumeServicePause).
THEOREM OperatorIsObeyed == Spec => OperatorPauseHolds
<1> DEFINE A == game.status = "paused" /\ game.pausedBy = "operator" /\ job' # job
                  => game'.status \in {"paused", "ended", "voided"}
<1>1. SInv /\ [Next]_vars => [A]_vars
  <2> SUFFICES ASSUME SInv, Next, game.status = "paused", game.pausedBy = "operator", job' # job
               PROVE  game'.status \in {"paused", "ended", "voided"}
    OBVIOUS
  <2>1. Types
    BY DEF SInv, CInv
  <2>2. ~ Tick /\ ~ AdminPause /\ ~ AdminResume /\ ~ AdminVoid
    BY DEF Tick, AdminPause, AdminResume, AdminVoid
  <2>3. CASE game' = game
    BY <2>3
  <2>4. CASE ResumeServicePause
    BY <2>4 DEF ResumeServicePause, Resumable, ServicePaused
  <2>5. CASE UpdateClock
    <3>1. WriteClock(game) \in GameState /\ WriteClock(game).status = game.status
      BY <2>1, ClockTypes
    <3>2. game' = [WriteClock(game) EXCEPT
                     !.status = IF Starts /\ @ = "scheduled" THEN "live" ELSE @]
      BY <2>5 DEF UpdateClock
    <3> QED BY <3>1, <3>2 DEF GameState
  <2>6. CASE VoidDone
    BY <2>1, <2>6, Parts DEF VoidDone, GameState
  <2>7. CASE StatementFails
    <3>1. game' = game \/ game' = WriteClock(game)
      BY <2>7 DEF StatementFails
    <3> QED BY <2>1, <3>1, ClockTypes
  <2>8. game' = game \/ ResumeServicePause \/ UpdateClock \/ VoidDone \/ StatementFails
    BY <2>2 DEF Next, Poll, Whistle, Log, CloseFixture, PlaceSpin, PollBegin, FetchOk, FetchFails,
                SettleDone, StoreEvents, SettleOne, VoidOne, Restart
  <2> HIDE DEF Next
  <2> QED BY <2>3, <2>4, <2>5, <2>6, <2>7, <2>8
<1> HIDE DEF A
<1>2. Spec => [][A]_vars
  BY <1>1, SlotInductive, PTL DEF Spec
<1> QED BY <1>2 DEF A, OperatorPauseHolds

\* Only SettleOne settles a spin, and it is the one it claims.
LEMMA SettledBySettleOne ==
  ASSUME Types, Rows, Next, NEW s \in Spins, Settles(s)
  PROVE  SettleOne(s) /\ Claim(s)
<1>0. spin[s].status = "open" /\ spin'[s].status \in {"won", "lost"} /\ spin \in [Spins -> SpinState]
  BY DEF Settles, Rows
<1>1. ASSUME NEW x \in Spins, PlaceSpin(x)
      PROVE  FALSE
  <2>1. PICK from \in Nat :
          spin' = [spin EXCEPT ![x] = [status |-> "open", from |-> from,
                                       exposure |-> ExposureMicro(x), payout |-> 0]]
    BY <1>1, PlaceRow
  <2> QED BY <1>0, <2>1
<1>2. ASSUME NEW x \in Spins, SettleOne(x), Claim(x)
      PROVE  x = s
  <2>1. PICK p \in Nat :
           spin' = [spin EXCEPT ![x] = [status |-> IF p > 0 THEN "won" ELSE "lost", from |-> @.from,
                                        exposure |-> @.exposure, payout |-> p]]
    BY <1>2, SettleRow
  <2> QED BY <1>0, <2>1
<1>3. ASSUME NEW S \in SUBSET Spins, VoidSpins(S)
      PROVE  FALSE
  <2>1. spin'[s].status = IF s \in S THEN "void" ELSE spin[s].status
    BY <1>3, VoidRow
  <2> QED BY <1>0, <2>1
<1>4. ASSUME NEW x \in Spins, VoidOne(x), Claim(x)
      PROVE  FALSE
  BY <1>3, <1>4, Voided
<1>5. ~ AdminVoid
  <2>1. Open \in SUBSET Spins
    BY DEF Open
  <2> QED BY <1>3, <2>1, Voided
<1>6. ~ UNCHANGED spinVars
  BY <1>0 DEF spinVars
<1> QED BY <1>1, <1>2, <1>4, <1>5, <1>6, SpinWriters

\* A spin settles only once the fixture's clock is past its round, whatever the
\* matches row says and however old the list is (windows.go WindowFinal).
THEOREM NeverEarly == Spec => NothingSettlesEarly
<1> DEFINE A == \A s \in Spins : Settles(s) => play.clock >= RoundEnd(spin[s].from)
<1>1. SInv /\ [Next]_vars => [A]_vars
  <2> SUFFICES ASSUME SInv, Next, NEW s \in Spins, Settles(s)
               PROVE  play.clock >= RoundEnd(spin[s].from)
    OBVIOUS
  <2>1. SettleOne(s)
    BY SettledBySettleOne DEF SInv, CInv
  <2> QED BY <2>1 DEF SettleOne, SInv, CInv, Timely
<1> HIDE DEF A
<1>2. Spec => [][A]_vars
  BY <1>1, SlotInductive, PTL DEF Spec
<1> QED BY <1>2 DEF A, NothingSettlesEarly

\* The reels depend on the reports alone, not on their age.
LEMMA SameReels ==
  ASSUME NEW a, NEW b, Behind(a, b), NEW from
  PROVE  /\ Reels(a, from) = Reels(b, from)
<1>1. ASSUME NEW w
      PROVE  ReelForWindow(a, w) = ReelForWindow(b, w)
  <2>1. \A e \in Events : a[e].report = b[e].report
    BY DEF Behind
  <2>2. {a[e].report.symbol : e \in {e \in Events : In(a[e].report, w)}}
          = {b[e].report.symbol : e \in {e \in Events : In(b[e].report, w)}}
    BY <2>1
  <2>3. PICK Z : Z = {"NONE"} \cup {a[e].report.symbol : e \in {e \in Events : In(a[e].report, w)}}
    OBVIOUS
  <2>4. ReelForWindow(a, w) = CHOOSE x \in Z : \A y \in Z : Rank[y] <= Rank[x]
    BY <2>3 DEF ReelForWindow
  <2>5. ReelForWindow(b, w) = CHOOSE x \in Z : \A y \in Z : Rank[y] <= Rank[x]
    BY <2>2, <2>3 DEF ReelForWindow
  <2> QED BY <2>4, <2>5
<1> QED BY <1>1 DEF Reels

\* A settled spin was paid by the stored events, each past its grace, for any
\* play-by-play and any sequence of failures that kept no event out of the
\* windows (engine.go applyEvents, SLOTZILLA.md).
THEOREM PaidOnStoredEvents == Spec => SettledOnStoredEvents
<1> DEFINE A == \A s \in Spins : Settles(s) /\ ~ missed =>
                  /\ spin'[s].payout = PayoutMicro(Reels(stored, spin[s].from), Stake[s])
                  /\ \A i \in 1..RoundWindows : GraceOver(stored, WindowsOf(spin[s].from)[i])
<1>1. SInv /\ [Next]_vars => [A]_vars
  <2> SUFFICES ASSUME SInv, Next, NEW s \in Spins, Settles(s), ~ missed
               PROVE  /\ spin'[s].payout = PayoutMicro(Reels(stored, spin[s].from), Stake[s])
                      /\ \A i \in 1..RoundWindows : GraceOver(stored, WindowsOf(spin[s].from)[i])
    OBVIOUS
  <2>0. Types /\ Rows /\ Timely /\ Mirrored
    BY DEF SInv, CInv
  <2>1. SettleOne(s) /\ Claim(s)
    BY <2>0, SettledBySettleOne
  <2>2. job.pc = "settle" /\ s \in job.todo
    BY <2>1 DEF SettleOne
  <2>3. Behind(mem.built, stored)
    BY <2>0, <2>2 DEF Mirrored
  <2>4. PICK p \in Nat :
          /\ p = PayoutMicro(Reels(mem.built, spin[s].from), Stake[s])
          /\ spin' = [spin EXCEPT ![s] = [status |-> IF p > 0 THEN "won" ELSE "lost", from |-> @.from,
                                          exposure |-> @.exposure, payout |-> p]]
    BY <2>0, <2>1, SettleRow
  <2>5. spin'[s].payout = p
    BY <2>0, <2>4 DEF Rows
  <2>6. Reels(mem.built, spin[s].from) = Reels(stored, spin[s].from)
    BY <2>3, SameReels
  <2>7. \A i \in 1..RoundWindows : GraceOver(mem.built, WindowsOf(spin[s].from)[i])
    BY <2>0, <2>2 DEF Timely
  <2>8. ASSUME NEW w, GraceOver(mem.built, w)
        PROVE  GraceOver(stored, w)
    <3>1. ASSUME NEW e \in Events
          PROVE  /\ mem.built[e].report = stored[e].report /\ mem.built[e].age <= stored[e].age
                 /\ mem.built[e].age \in Nat /\ stored[e].age \in Nat
      BY <2>0, <2>3, Parts, CopyParts DEF Behind
    <3>2. GraceSeconds \in Nat
      BY SlotAssumption
    <3> QED BY <2>8, <3>1, <3>2 DEF GraceOver
  <2> QED BY <2>4, <2>5, <2>6, <2>7, <2>8
<1> HIDE DEF A
<1>2. Spec => [][A]_vars
  BY <1>1, SlotInductive, PTL DEF Spec
<1> QED BY <1>2 DEF A, SettledOnStoredEvents
=============================================================================
