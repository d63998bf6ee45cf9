----------------------------- MODULE FeedSwitch -----------------------------
(***************************************************************************)
(* Two feeds, one offer. The feed-ingester applies Oddin's AMQP messages,  *)
(* bifrost-feed watches a second source and writes what it sees to a Redis *)
(* stream the ingester applies too, and the operator's row feed_control    *)
(* says which one may speak: auto, prod or backup.                         *)
(*                                                                         *)
(* The offer is one market: bettable or suspended, at some version of the  *)
(* odds, written last by one feed. A message is the version it carries.    *)
(* Time is left out: a threshold that has passed is a flag the environment *)
(* sets.                                                                   *)
(***************************************************************************)
EXTENDS Integers, Sequences

CONSTANTS
  None,         \* no odds, no snapshot
  Sources,      \* the positions of the switch in use
  MaxMoves,     \* bound: changes of the odds
  MaxSwitches,  \* bound: operator switches
  MaxFaults,    \* bound: lost connections, failed statements and restarts
  MaxStream     \* bound: stream entries not yet applied

ASSUME SourcesAssumption == Sources \subseteq {"auto", "prod", "backup"}
ASSUME BoundsAssumption == {MaxMoves, MaxSwitches, MaxFaults, MaxStream} \subseteq Nat
ASSUME NoneAssumption == None \notin Nat

VARIABLES
  control, \* feed_control: source, flushed_at (0 for NULL), and whether the wait for it is over
  truth,   \* the odds as they are
  amqp,    \* Oddin's side: connection, its queue, messages to be redelivered, a replay on
           \* its way, whether the recovery cursor was rewound for it, the heartbeats handled
  ing,     \* feed-ingester: the switch goroutine, the flags it shares, the watchdog
  stale,   \* AMQP has been silent past the watchdog's threshold
  bif,     \* bifrost-feed: its socket, its copy of the control row, gate and runner
  reported,\* bifrost:feed:status in Redis: a heartbeat not too old, with connected = 1
  stream,  \* the Redis stream oddin.backup
  offer,   \* the market: bettable, at which version, by whom
  spent,   \* bounds: moves, switches, faults, acknowledgements; history: an answer to the
           \* last flush is owed, because its acknowledgement, the publishing or the
           \* applying of the answer failed
  lost     \* history: "dark" when a replay due was lost, narrow or not asked for, "skip"
           \* when AMQP came back without the flush too; else "no"

vars == <<control, truth, amqp, ing, stale, bif, reported, stream, offer, spent, lost>>

\* FlushAndSuspendActiveCatalog touches what is active, whoever calls it.
Suspended(who) == IF offer.bettable THEN [bettable |-> FALSE, version |-> None, by |-> who]
                  ELSE offer
Bound == amqp.conn # "down"

\* The backup needs no replay.
Darker == IF lost = "skip" \/ ing.isBackup THEN lost ELSE "dark"
Brighter == IF lost = "skip" THEN "skip" ELSE "no"

CanFail == spent.faults < MaxFaults
Fault == [spent EXCEPT !.faults = @ + 1]
Owing == [Fault EXCEPT !.owed = TRUE]

-----------------------------------------------------------------------------
(* The odds and Oddin's side of AMQP *)

\* The odds change. A message goes to the queue if there is one; the queue is
\* exclusive and dies with its connection.
Move ==
  /\ spent.moves < MaxMoves
  /\ truth' = truth + 1
  /\ amqp' = IF Bound THEN [amqp EXCEPT !.queue = Append(@, truth')] ELSE amqp
  /\ spent' = [spent EXCEPT !.moves = @ + 1]
  /\ UNCHANGED <<control, ing, stale, bif, reported, stream, offer, lost>>

\* A replay that was asked for is sent to whatever queue there is.
Replay ==
  /\ amqp.replay
  /\ amqp' = [amqp EXCEPT !.replay = FALSE, !.queue = IF Bound THEN Append(@, truth) ELSE @]
  /\ lost' = IF Bound THEN lost ELSE Darker
  /\ UNCHANGED <<control, truth, ing, stale, bif, reported, stream, offer, spent>>

\* The connection breaks, with what its queue held.
Disconnect ==
  /\ CanFail
  /\ amqp.conn = "up"
  /\ amqp' = [amqp EXCEPT !.conn = "down", !.queue = <<>>, !.again = {}]
  /\ spent' = Fault
  /\ UNCHANGED <<control, truth, ing, stale, bif, reported, stream, offer, lost>>

\* Time passes: so long without a heartbeat looked at that the next will show a
\* gap (15 s), and without a delivery past FEED_STALE_SUSPEND_SECONDS (20 s).
GoQuiet ==
  /\ \/ /\ amqp.conn # "up" \/ ing.drop
        /\ amqp.beat = "ok"
        /\ amqp' = [amqp EXCEPT !.beat = "gap"] /\ UNCHANGED stale
     \/ /\ amqp.conn # "up" /\ amqp.beat # "ok"
        /\ ~ stale
        /\ stale' = TRUE /\ UNCHANGED amqp
  /\ UNCHANGED <<control, truth, ing, bif, reported, stream, offer, spent, lost>>

\* An open connection falls silent: Oddin's producer is down, and its next
\* heartbeat shows the gap; or the ingester is slow, and the heartbeats it
\* comes to read later were sent on time.
Stall ==
  /\ CanFail
  /\ amqp.conn = "up"
  /\ stale' = TRUE
  /\ \/ amqp.beat = "ok" /\ amqp' = [amqp EXCEPT !.beat = "gap"] /\ UNCHANGED lost
     \/ UNCHANGED amqp /\ lost' = Darker
  /\ spent' = Fault
  /\ UNCHANGED <<control, truth, ing, bif, reported, stream, offer>>

-----------------------------------------------------------------------------
(* The operator: PUT /admin/feed/source *)

\* Repeating a position other than backup changes nothing anyone reads.
SwitchSource(src) ==
  /\ src # control.source \/ src = "backup"
  /\ spent.switches < MaxSwitches
  /\ control' = [source |-> src, flush |-> 0, waited |-> src # "backup"]
  /\ spent' = [spent EXCEPT !.switches = @ + 1]
  /\ UNCHANGED <<truth, amqp, ing, stale, bif, reported, stream, offer, lost>>

\* flushWait, 15 s after the switch.
FlushWaitOver ==
  /\ ~ control.waited
  /\ control' = [control EXCEPT !.waited = TRUE]
  /\ UNCHANGED <<truth, amqp, ing, stale, bif, reported, stream, offer, spent, lost>>

-----------------------------------------------------------------------------
(* feed-ingester: runSourceSwitch *)

\* It polls the row and reacts to a change; the flags change at once, the flush
\* of the offer and what follows take their time.
PollSource ==
  /\ ing.pc = "poll"
  /\ control.source # ing.prev
  /\ ing' = CASE control.source = "backup" ->
                   [ing EXCEPT !.pc = "flushIn", !.prev = "backup", !.isBackup = TRUE, !.drop = TRUE]
              [] control.source # "backup" /\ ing.prev = "backup" ->
                   [ing EXCEPT !.pc = "flushOut", !.prev = control.source, !.isBackup = FALSE]
              [] OTHER -> [ing EXCEPT !.prev = control.source]
  /\ UNCHANGED <<control, truth, amqp, stale, bif, reported, stream, offer, spent, lost>>

\* FlushAndSuspendActiveCatalog, one transaction; its callers log an error and
\* go on.
Flush(who) ==
  \/ offer' = Suspended(who) /\ UNCHANGED spent
  \/ UNCHANGED offer /\ CanFail /\ spent' = Fault

\* Wrong: the offer is not suspended before the replay.
FlushBeforeRecoverNever(who, a) ==
  UNCHANGED <<offer, spent>> /\ amqp' = [a EXCEPT !.rewound = TRUE]

\* flushBeforeRecover rewinds the cursor after a flush that went through; the
\* rewind may fail on its own.
FlushBeforeRecover(who, a) ==
  \/ Flush(who) /\ amqp' = [a EXCEPT !.rewound = (spent' = spent)]
  \/ /\ CanFail /\ spent' = Fault
     /\ offer' = Suspended(who) /\ amqp' = [a EXCEPT !.rewound = FALSE]

FlushIn ==
  /\ ing.pc = "flushIn"
  /\ Flush("switch")
  /\ ing' = [ing EXCEPT !.pc = "ack"]
  /\ lost' = IF offer'.bettable THEN lost ELSE "no"
  /\ UNCHANGED <<control, truth, amqp, stale, bif, reported, stream>>

\* UPDATE feed_control SET flushed_at ... WHERE source = 'backup', flushed or
\* not; an error is logged.
AckFlush ==
  /\ ing.pc = "ack"
  /\ \/ /\ control' = IF control.source = "backup"
                      THEN [control EXCEPT !.flush = spent.acks + 1, !.waited = TRUE] ELSE control
        /\ spent' = [spent EXCEPT !.acks = @ + 1, !.owed = FALSE]
     \/ CanFail /\ spent' = Owing /\ UNCHANGED control
  /\ ing' = [ing EXCEPT !.pc = "poll"]
  /\ UNCHANGED <<truth, amqp, stale, bif, reported, stream, offer, lost>>

FlushOut ==
  /\ ing.pc = "flushOut"
  /\ FlushBeforeRecover("switch", amqp)
  /\ ing' = [ing EXCEPT !.pc = "recoverOut"]
  /\ lost' = IF ~ offer'.bettable THEN "dark"
             ELSE IF offer'.by = "backup" THEN lost ELSE "skip"
  /\ UNCHANGED <<control, truth, stale, bif, reported, stream>>

\* TriggerRecovery. A replay from the rewound cursor covers every market; one
\* from a cursor that deliveries have moved since need not cover this one. An
\* error of the REST call is logged and nobody asks again. The rewound cursor
\* matters as long as another request is due.
AskReplay(a, due) ==
  LET b == [a EXCEPT !.rewound = @ /\ due]
  IN \/ amqp' = [b EXCEPT !.replay = TRUE] /\ lost' = Brighter /\ UNCHANGED spent
     \/ amqp' = b /\ lost' = Darker /\ ~ a.rewound /\ UNCHANGED spent
     \/ amqp' = b /\ lost' = Darker /\ CanFail /\ spent' = Fault

RecoverOut ==
  /\ ing.pc = "recoverOut"
  /\ AskReplay(amqp, amqp.conn = "ask")
  /\ ing' = [ing EXCEPT !.pc = "resumeOut"]
  /\ UNCHANGED <<control, truth, stale, bif, reported, stream, offer>>

\* Wrong: deliveries stay ignored after the switch back.
ResumedDropping == [ing EXCEPT !.pc = "poll", !.done = TRUE]

Resumed == [ing EXCEPT !.pc = "poll", !.done = TRUE, !.drop = FALSE]

ResumeOut ==
  /\ ing.pc = "resumeOut"
  /\ ing' = Resumed
  /\ UNCHANGED <<control, truth, amqp, stale, bif, reported, stream, offer, spent, lost>>

\* Wrong: a process booted into backup applies AMQP deliveries.
BootedApplying(src) ==
  [prev |-> src, done |-> FALSE, dog |-> "calm", pc |-> IF src = "backup" THEN "flushIn" ELSE "poll",
   isBackup |-> src = "backup", drop |-> FALSE]

\* A new process adopts the row; booted into backup it flushes and acknowledges
\* as a switch does.
Booted(src) ==
  [prev |-> src, done |-> FALSE, dog |-> "calm", pc |-> IF src = "backup" THEN "flushIn" ELSE "poll",
   isBackup |-> src = "backup", drop |-> src = "backup"]

\* loadFeedSource; a read that fails is taken for auto, until the next poll.
Adopted == {control.source, "auto"}

RestartIngester ==
  /\ CanFail
  /\ \E src \in Adopted : ing' = Booted(src)
  /\ amqp' = [amqp EXCEPT !.conn = "down", !.queue = <<>>, !.again = {}, !.beat = "none"]
  /\ stale' = FALSE
  /\ spent' = Fault
  /\ UNCHANGED <<control, truth, bif, reported, stream, offer, lost>>

-----------------------------------------------------------------------------
(* feed-ingester: the AMQP consumer and its OnConnect hook *)

\* Paused keeps it from dialling, not from using a connection it has. The
\* queue is bound before the hook runs.
Dial ==
  /\ amqp.conn = "down"
  /\ ~ ing.isBackup
  /\ amqp' = [amqp EXCEPT !.conn = "hook"]
  /\ UNCHANGED <<control, truth, ing, stale, bif, reported, stream, offer, spent, lost>>

\* switchBackRecoveryDone, consumed: what is bettable was not flushed for this
\* connection, and what is dark waits for a replay somebody else has asked for.
\* Or the source is backup; or the hook goes on to flush.
HookBegin ==
  /\ amqp.conn = "hook"
  /\ \/ /\ ing.done
        /\ ing' = [ing EXCEPT !.done = FALSE]
        /\ amqp' = [amqp EXCEPT !.conn = "up"]
        /\ lost' = IF offer.bettable THEN "skip"
                   ELSE IF amqp.replay \/ amqp.queue # <<>> THEN lost ELSE "dark"
     \/ /\ ~ ing.done
        /\ amqp' = [amqp EXCEPT !.conn = IF ing.isBackup THEN "up" ELSE "flush"]
        /\ UNCHANGED <<ing, lost>>
  /\ UNCHANGED <<control, truth, stale, bif, reported, stream, offer, spent>>

\* The flush takes its time; the source may be backup when it lands.
HookFlush ==
  /\ amqp.conn = "flush"
  /\ FlushBeforeRecover("hook", [amqp EXCEPT !.conn = "ask"])
  /\ lost' = IF offer'.bettable /\ spent' # spent THEN IF ing.drop THEN lost ELSE "skip"
             ELSE IF ing.isBackup THEN "no" ELSE "dark"
  /\ UNCHANGED <<control, truth, ing, stale, bif, reported, stream>>

\* The hook's recovery request; none is sent if the source is backup by now, and
\* the next switch back rewinds again.
HookRecover ==
  /\ amqp.conn = "ask"
  /\ IF ing.isBackup
     THEN amqp' = [amqp EXCEPT !.conn = "up", !.rewound = FALSE] /\ UNCHANGED <<spent, lost>>
     ELSE AskReplay([amqp EXCEPT !.conn = "up"], ing.pc = "recoverOut")
  /\ UNCHANGED <<control, truth, ing, stale, bif, reported, stream, offer>>

\* One message out of the broker's hands, which leaves its side as a: the
\* liveness stamps, then it is dropped, or applied, or its handler fails and it
\* is requeued, behind the messages the consumer has prefetched.
Handle(v, by, a) ==
  /\ amqp.conn = "up"
  /\ stale' = FALSE
  /\ \/ /\ ing.drop
        /\ amqp' = a
        /\ lost' = IF ing.pc = "poll" THEN lost ELSE Darker
        /\ UNCHANGED <<offer, spent>>
     \/ /\ ~ ing.drop
        /\ amqp' = [a EXCEPT !.rewound = FALSE]
        /\ offer' = [bettable |-> TRUE, version |-> v, by |-> by]
        /\ lost' = IF v = truth THEN "no" ELSE lost
        /\ UNCHANGED spent
     \/ /\ ~ ing.drop /\ CanFail
        /\ amqp' = [a EXCEPT !.again = @ \cup {v}]
        /\ spent' = Fault
        /\ UNCHANGED <<offer, lost>>
  /\ UNCHANGED <<control, truth, ing, bif, reported, stream>>

Deliver ==
  /\ amqp.queue # <<>>
  /\ Handle(Head(amqp.queue), "amqp", [amqp EXCEPT !.queue = Tail(@)])

\* Nothing compares the message with what was applied since.
Redeliver ==
  \E v \in amqp.again : Handle(v, "redelivery", [amqp EXCEPT !.again = @ \ {v}])

\* A heartbeat is a delivery too. handleAlive compares its timestamp with the
\* last one it looked at, and asks for a replay after a gap, from a cursor the
\* other markets have moved.
Heartbeat ==
  /\ amqp.conn = "up"
  /\ stale' = FALSE
  /\ \/ /\ ing.drop
        /\ UNCHANGED <<amqp, spent, lost>>
     \/ /\ ~ ing.drop /\ amqp.beat # "gap"
        /\ amqp' = [amqp EXCEPT !.beat = "ok"] /\ UNCHANGED <<spent, lost>>
     \/ /\ ~ ing.drop /\ amqp.beat = "gap"
        /\ AskReplay([amqp EXCEPT !.beat = "ok", !.rewound = FALSE], FALSE)
  /\ UNCHANGED <<control, truth, ing, bif, reported, stream, offer>>

-----------------------------------------------------------------------------
(* feed-ingester: the alive watchdog and the stream consumer *)

\* What a check of the watchdog finds: AMQP is judged by its silence, the backup
\* (backupHealthy) by its status, where a hash without heartbeat, an old one and a
\* closed socket are alike. The backup is given a second check, past the
\* threshold; a suspension is not repeated before the feed was well again.
Verdict ==
  LET unwell == IF ing.isBackup THEN ~ reported ELSE stale
  IN  CASE ~ unwell -> "calm"
        [] unwell /\ ing.dog = "guard" -> "guard"
        [] unwell /\ ing.dog = "calm" /\ ing.isBackup -> "sick"
        [] OTHER -> "flush"

\* A status that cannot be read counts as well.
WatchdogCheck ==
  /\ ing.dog # "flush"
  /\ \/ ing' = [ing EXCEPT !.dog = Verdict] /\ UNCHANGED spent
     \/ ing.isBackup /\ CanFail /\ spent' = Fault /\ ing' = [ing EXCEPT !.dog = "calm"]
  /\ ing' # ing
  /\ UNCHANGED <<control, truth, amqp, stale, bif, reported, stream, offer, lost>>

\* suspendCatalogForStaleness lands when it lands, acknowledged to nobody.
WatchdogFlush ==
  /\ ing.dog = "flush"
  /\ Flush("watchdog")
  /\ ing' = [ing EXCEPT !.dog = "guard"]
  /\ lost' = IF offer' = offer THEN lost ELSE IF ing.isBackup THEN "no" ELSE "dark"
  /\ UNCHANGED <<control, truth, amqp, stale, bif, reported, stream>>

\* The stream entry goes through the same handler as AMQP, whatever the source
\* is by now; it moves the cursor and does not touch the liveness stamps. After
\* its retries it is dropped.
ApplyStream ==
  /\ stream # <<>>
  /\ stream' = Tail(stream)
  /\ \/ /\ amqp' = [amqp EXCEPT !.rewound = FALSE]
        /\ offer' = [bettable |-> TRUE, version |-> Head(stream), by |-> "backup"]
        /\ spent' = [spent EXCEPT !.owed = FALSE]
     \/ /\ CanFail /\ spent' = Owing
        /\ UNCHANGED <<amqp, offer>>
  /\ UNCHANGED <<control, truth, ing, stale, bif, reported, lost>>

-----------------------------------------------------------------------------
(* bifrost-feed *)

\* Gate.evaluate. In auto an open connection is proof of life; without one the
\* silence grows past BIFROST_TAKEOVER_AFTER_SECONDS, sooner or later.
GateWants ==
  CASE control.source = "prod"   -> {FALSE}
    [] control.source = "backup" -> {control.waited}
    [] control.source = "auto"   -> IF amqp.conn = "down" THEN {bif.active, TRUE} ELSE {FALSE}

Evaluate ==
  /\ \E want \in GateWants :
       bif' = [bif EXCEPT !.flush = control.flush, !.active = want,
                          !.pending = @ \/ want # bif.active]
  /\ bif' # bif
  /\ UNCHANGED <<control, truth, amqp, ing, stale, reported, stream, offer, spent, lost>>

Emit(b) == IF b.active /\ b.snap # None THEN Append(stream, b.snap) ELSE stream

\* A publish that fails is recorded, not repeated.
Publish(b) ==
  \/ Len(Emit(b)) <= MaxStream /\ stream' = Emit(b) /\ UNCHANGED spent
  \/ /\ CanFail /\ Emit(b) # stream
     /\ spent' = Owing /\ UNCHANGED stream

\* process: cache the snapshot, publish it while active.
ProcessFrame ==
  /\ bif.socket /\ bif.snap # truth
  /\ bif' = [bif EXCEPT !.snap = truth]
  /\ Publish(bif')
  /\ UNCHANGED <<control, truth, amqp, ing, stale, reported, offer, lost>>

\* Wrong: only an activation re-emits.
FlushMovedNever == FALSE

\* A flush acknowledged while active has just wiped what was fed.
FlushMoved == bif.active /\ bif.flush > bif.lastFlush

\* watchGate: re-emit on an activation, or on a later flush.
WatchGate ==
  /\ bif.socket
  /\ bif.pending \/ FlushMoved
  /\ bif' = [bif EXCEPT !.pending = FALSE, !.lastFlush = bif.flush]
  /\ Publish(bif)
  /\ UNCHANGED <<control, truth, amqp, ing, stale, reported, offer, lost>>

\* The periodic resync; the stream is drained by the time it comes.
Resync ==
  /\ bif.socket /\ bif.active
  /\ stream = <<>>
  /\ Publish(bif)
  /\ UNCHANGED <<control, truth, amqp, ing, stale, bif, reported, offer, lost>>

SocketDown ==
  /\ CanFail
  /\ bif.socket
  /\ bif' = [bif EXCEPT !.socket = FALSE]
  /\ spent' = Fault
  /\ UNCHANGED <<control, truth, amqp, ing, stale, reported, stream, offer, lost>>

\* A new socket subscribes again, and its init frames are processed.
SocketUp ==
  /\ ~ bif.socket
  /\ bif' = [bif EXCEPT !.socket = TRUE, !.snap = truth]
  /\ Publish(bif')
  /\ UNCHANGED <<control, truth, amqp, ing, stale, reported, offer, lost>>

NewBif == [socket |-> FALSE, snap |-> None, flush |-> 0, lastFlush |-> 0,
           active |-> FALSE, pending |-> FALSE]

\* Its last status outlives it, and grows old if it stays away.
RestartBifrost ==
  /\ CanFail
  /\ bif' = NewBif
  /\ reported' \in {reported, FALSE}
  /\ spent' = Fault
  /\ UNCHANGED <<control, truth, amqp, ing, stale, stream, offer, lost>>

\* publishStatus, every 5 s; the writes may also fail for so long that the last
\* heartbeat is too old.
PublishStatus ==
  /\ reported # bif.socket
  /\ reported' = bif.socket
  /\ UNCHANGED <<control, truth, amqp, ing, stale, bif, stream, offer, spent, lost>>

StatusGrowsOld ==
  /\ CanFail
  /\ reported /\ reported' = FALSE
  /\ spent' = Fault
  /\ UNCHANGED <<control, truth, amqp, ing, stale, bif, stream, offer, lost>>

-----------------------------------------------------------------------------
Init ==
  /\ control \in [source: Sources, flush: {0}, waited: {TRUE}]
  /\ truth = 0
  /\ amqp = [conn |-> "down", queue |-> <<>>, again |-> {}, replay |-> FALSE, rewound |-> FALSE,
             beat |-> "none"]
  /\ ing = Booted(control.source)
  /\ stale = FALSE
  /\ bif = NewBif
  /\ reported = FALSE
  /\ stream = <<>>
  /\ offer = [bettable |-> FALSE, version |-> None, by |-> "switch"]
  /\ spent = [moves |-> 0, switches |-> 0, faults |-> 0, acks |-> 0, owed |-> FALSE]
  /\ lost = "no"

SwitchStep == PollSource \/ FlushIn \/ AckFlush \/ FlushOut \/ RecoverOut \/ ResumeOut
ConsumerStep == Dial \/ HookBegin \/ HookFlush \/ HookRecover
WatchdogStep == WatchdogCheck \/ WatchdogFlush
BifrostStep == Evaluate \/ ProcessFrame \/ WatchGate

Next ==
  \/ Move \/ Replay \/ Disconnect \/ GoQuiet \/ Stall
  \/ (\E src \in Sources : SwitchSource(src))
  \/ FlushWaitOver
  \/ SwitchStep \/ RestartIngester
  \/ ConsumerStep \/ Deliver \/ Redeliver \/ Heartbeat
  \/ WatchdogStep \/ ApplyStream
  \/ BifrostStep \/ Resync \/ SocketDown \/ SocketUp \/ RestartBifrost
  \/ PublishStatus \/ StatusGrowsOld

Spec == Init /\ [][Next]_vars

\* Tickers keep firing, goroutines run, a broken connection can be opened again
\* and Oddin answers; a connection that stays closed is taken over from. Odds,
\* operators and faults owe nothing.
Fairness ==
  /\ WF_vars(SwitchStep) /\ WF_vars(ConsumerStep)
  /\ WF_vars(Deliver) /\ WF_vars(Redeliver)
  /\ WF_vars(WatchdogStep) /\ WF_vars(PublishStatus) /\ WF_vars(ApplyStream)
  /\ WF_vars(Evaluate) /\ WF_vars(ProcessFrame) /\ WF_vars(WatchGate)
  /\ WF_vars(Resync) /\ WF_vars(SocketUp)
  /\ WF_vars(Heartbeat) /\ WF_vars(Replay) /\ WF_vars(FlushWaitOver)

FairSpec == Spec /\ Fairness

-----------------------------------------------------------------------------
(* Properties *)

\* Types; a process that serves the backup drops AMQP deliveries, and a queue
\* does not outlive its connection (main.go loadFeedSource, runSourceSwitch).
TypeOK ==
  /\ control \in [source: Sources, flush: Nat, waited: BOOLEAN]
  /\ truth \in 0 .. MaxMoves
  /\ amqp.conn \in {"down", "hook", "flush", "ask", "up"}
  /\ \A i \in DOMAIN amqp.queue : amqp.queue[i] \in 0 .. truth
  /\ amqp.again \subseteq 0 .. truth
  /\ amqp.conn = "down" => amqp.queue = <<>> /\ amqp.again = {}
  /\ amqp.beat \in {"none", "ok", "gap"} /\ amqp.replay \in BOOLEAN
  /\ amqp.rewound \in BOOLEAN
  /\ ing.pc \in {"poll", "flushIn", "ack", "flushOut", "recoverOut", "resumeOut"}
  /\ ing.prev \in Sources \cup {"auto"}
  /\ ing.dog \in {"calm", "sick", "flush", "guard"}
  /\ ing.isBackup => ing.drop
  /\ bif.snap = None \/ bif.snap \in 0 .. truth
  /\ bif.lastFlush \in 0 .. spent.acks
  /\ \A i \in DOMAIN stream : stream[i] \in 0 .. truth
  /\ offer.bettable = (offer.version # None)
  /\ lost \in {"no", "dark", "skip"}

\* A price that one of the writers left is the true one, or the true one is on
\* its way: in the queue, or to be redelivered.
Newest(writers) ==
  amqp.conn \in {"ask", "up"} /\ ~ ing.drop /\ offer.by \in writers
  => \/ offer.version = truth \/ truth \in amqp.again
     \/ \E i \in DOMAIN amqp.queue : amqp.queue[i] = truth

\* No bettable price outlives the news it missed: once a connection is open and
\* applied, a price a first delivery wrote is the true one or a newer one is on
\* its way, whatever happened in outages, restarts and switches before and before
\* any replay arrives. The exceptions are a connection on which OnConnect trusted
\* the switch's flag with something bettable (FlushedOnConnect is about that), a
\* flush that failed, best effort by design (OnConnect's, or both of a switch to
\* the backup and back), and a redelivery (RequeuedIsNewest is about that).
NoStalePrice == lost # "skip" => Newest({"amqp"})

\* Whatever is bettable on a connection was flushed before it was used, or is the
\* newest (main.go OnConnect: "Suspend-before-recover is unconditional", "The
\* hand-off is an explicit CAS rather than a time window so it cannot mis-fire").
FlushedOnConnect == Newest({"amqp"})

\* A message that had to be redelivered leaves no old price either, for want of a
\* replay to come (main.go OnConnect: "a single placement at stale odds is a
\* real-money loss").
RequeuedIsNewest == lost # "skip" /\ ~ amqp.replay => Newest({"amqp", "redelivery"})

\* Nothing moves the cursor between a switch back's rewind and its request
\* (main.go runSourceSwitch: dropAMQP stays true "so a concurrent BumpAfterTs
\* cannot narrow the rewound window").
CursorStaysRewound ==
  [][ing.pc = "recoverOut" /\ amqp.rewound => amqp'.rewound \/ ing'.pc # "recoverOut"]_vars

\* bifrost-feed has seen everything and said everything there is to say.
BackupAtRest ==
  /\ ing.pc = "poll" /\ ing.isBackup
  /\ bif.active /\ ~ bif.pending /\ ~ FlushMoved /\ bif.flush = control.flush
  /\ bif.socket /\ stream = <<>>

\* A forced backup answers the flush of the switch without waiting for the next
\* resync, however late the flush landed (gate.go: "the runner also re-emits
\* whenever a later flush acknowledgement appears"): what is dark then was
\* suspended since by the watchdog or by an OnConnect hook begun before the
\* switch, which acknowledge nothing (runner.go reemitAll: the resync "bounds how
\* long a catalogue suspended by anything else ... stays dark"), or the
\* acknowledgement, the publishing or the applying of the answer failed.
BackupFillsOffer ==
  BackupAtRest /\ control.flush # 0 /\ ~ spent.owed
  => offer.bettable \/ offer.by \in {"watchdog", "hook"}

\* What the watchdog suspended, AMQP brings back (main.go runAliveWatchdog:
\* "Re-activation rides the existing recovery paths").
WatchdogIsUndone ==
  [](offer.by = "watchdog" /\ ~ ing.isBackup => <>(offer.bettable \/ ing.isBackup))

\* The replay a switch back asked for fills the offer: OnConnect need not ask
\* again (main.go OnConnect: "flush + recovery already issued by the switch").
SwitchBackRefills == []<>(ing.isBackup \/ offer.bettable \/ offer.by = "watchdog")

\* An offer fed by AMQP is never left waiting for nothing: on an open connection,
\* applied and drained, a dark offer means that the replay it waited for was lost,
\* failed, or was asked for from a cursor that had moved on (main.go
\* flushBeforeRecover: "recovery window will be too narrow"). Every other path
\* through outages, restarts, switches and failing handlers lights it again.
AmqpFillsOffer ==
  amqp.conn = "up" /\ ing.pc = "poll" /\ ~ ing.isBackup /\ lost = "no"
  => offer.bettable \/ amqp.replay \/ amqp.queue # <<>> \/ amqp.again # {}

\* When switches and faults are over the offer comes back, from whichever feed
\* the operator left in charge, unless the replay it waits for was lost, failed
\* or narrow.
OfferComesBack == <>[](offer.bettable \/ lost # "no")

=============================================================================
