-------------------------- MODULE FeedSwitchProofs --------------------------
(***************************************************************************)
(* The two feeds for any number of odds changes, switches and faults: no   *)
(* price of a first delivery outlives the news it missed (NoStalePrice),   *)
(* and a forced backup leaves no flush of the switch unanswered            *)
(* (BackupFillsOffer).                                                     *)
(*                                                                         *)
(* Both hold because of what lies between the steps that write the offer:  *)
(* which mode of the switch allows which flag (Modes), that a queue ends   *)
(* with the newest odds (Carried), and what is known of the offer while    *)
(* deliveries are dropped, where it may be as old as it likes (Survivor).  *)
(***************************************************************************)
EXTENDS FeedSwitch, SequenceTheorems, TLAPS

AmqpState == [conn: {"down", "hook", "flush", "ask", "up"}, queue: Seq(Nat), again: SUBSET Nat,
              replay: BOOLEAN, rewound: BOOLEAN, beat: {"none", "ok", "gap"}]
IngState == [prev: Sources \cup {"auto"}, done: BOOLEAN, dog: {"calm", "sick", "flush", "guard"},
             pc: {"poll", "flushIn", "ack", "flushOut", "recoverOut", "resumeOut"},
             isBackup: BOOLEAN, drop: BOOLEAN]
BifState == [socket: BOOLEAN, snap: Nat \cup {None}, flush: Nat, lastFlush: Nat,
             active: BOOLEAN, pending: BOOLEAN]
Flushers == {"switch", "hook", "watchdog"}
Feeders == {"amqp", "redelivery", "backup"}
OfferState == [bettable: BOOLEAN, version: Nat \cup {None}, by: Flushers \cup Feeders]
SpentState == [moves: 0 .. MaxMoves, switches: Nat, faults: Nat, acks: Nat, owed: BOOLEAN]

Types ==
  /\ control \in [source: Sources, flush: Nat, waited: BOOLEAN]
  /\ amqp \in AmqpState /\ ing \in IngState /\ bif \in BifState
  /\ stream \in Seq(Nat) /\ offer \in OfferState /\ spent \in SpentState
  /\ truth = spent.moves /\ stale \in BOOLEAN /\ reported \in BOOLEAN
  /\ lost \in {"no", "dark", "skip"}

\* What the switch goroutine is doing decides the flags.
Modes ==
  /\ ing.isBackup <=> ing.prev = "backup"
  /\ ing.pc \in {"flushIn", "ack"} => ing.isBackup
  /\ ing.pc \in {"flushOut", "recoverOut", "resumeOut"} => ~ ing.isBackup /\ ing.drop
  /\ ing.pc = "poll" => (ing.drop <=> ing.isBackup)
  /\ ing.isBackup => ing.drop

\* Whatever carries odds carries odds that were true, and a queue ends with the
\* newest.
Carried ==
  /\ \A i \in 1 .. Len(amqp.queue) : amqp.queue[i] <= truth
  /\ \A i \in 1 .. Len(stream) : stream[i] <= truth
  /\ bif.snap # None => bif.snap <= truth
  /\ amqp.queue # <<>> => amqp.queue[Len(amqp.queue)] = truth
  /\ \A v \in amqp.again : v <= truth
  /\ amqp.conn = "down" => amqp.queue = <<>> /\ amqp.again = {}
  /\ offer.bettable = (offer.version # None)
  /\ offer.by \in Feeders => offer.bettable

\* Acknowledgements are numbered; the row has one only while it says backup.
Acknowledged ==
  /\ bif.flush <= spent.acks /\ bif.lastFlush <= spent.acks /\ control.flush <= spent.acks
  /\ control.source # "backup" => control.flush = 0
  /\ bif.socket => bif.snap # None

\* A price of AMQP on a connection that is applied is the newest, or something
\* is queued behind it, or the newest is to be redelivered.
Fresh ==
  /\ amqp.conn \in {"ask", "up"} /\ ~ ing.drop
  /\ offer.by = "amqp" /\ lost # "skip"
  => offer.version = truth \/ amqp.queue # <<>> \/ truth \in amqp.again

\* A price of AMQP that survived both flushes of a switch and back.
Survivor == ing.pc \in {"recoverOut", "resumeOut"} /\ offer.by = "amqp" => lost = "skip"

\* The runner answered the latest acknowledgement, and its answer was applied,
\* whatever others suspended since.
Refilled ==
  /\ ing.pc = "poll" /\ ing.isBackup
  /\ control.flush # 0 /\ ~ spent.owed /\ control.flush <= bif.lastFlush
  /\ bif.active /\ ~ bif.pending /\ bif.socket /\ stream = <<>>
  => offer.bettable \/ offer.by \in {"watchdog", "hook"}

FInv == Types /\ Modes /\ Carried /\ Acknowledged /\ Fresh /\ Survivor /\ Refilled

-----------------------------------------------------------------------------
(* Queues *)

\* What a message appended to a queue leaves.
LEMMA AppendEnds ==
  ASSUME NEW s \in Seq(Nat), NEW x \in Nat
  PROVE  /\ Append(s, x) \in Seq(Nat) /\ Append(s, x) # <<>>
         /\ Len(s) \in Nat /\ Len(Append(s, x)) = Len(s) + 1
         /\ Append(s, x)[Len(s) + 1] = x
         /\ \A i \in 1 .. Len(s) : Append(s, x)[i] = s[i]
<1>1. Append(s, x) \in Seq(Nat) /\ Len(s) \in Nat /\ Len(Append(s, x)) = Len(s) + 1
  OBVIOUS
<1>2. Append(s, x)[Len(s) + 1] = x /\ \A i \in 1 .. Len(s) : Append(s, x)[i] = s[i]
  OBVIOUS
<1>3. Append(s, x) # <<>>
  BY <1>1
<1> QED BY <1>1, <1>2, <1>3

\* What is left of a queue when its first message is taken.
LEMMA TailEnds ==
  ASSUME NEW s \in Seq(Nat), s # <<>>
  PROVE  /\ Tail(s) \in Seq(Nat) /\ Head(s) \in Nat /\ Len(s) \in Nat /\ Len(s) >= 1
         /\ Head(s) = s[1] /\ Len(Tail(s)) = Len(s) - 1
         /\ \A i \in 1 .. Len(s) - 1 : Tail(s)[i] = s[i + 1]
         /\ Tail(s) = <<>> => Len(s) = 1
         /\ Tail(s) # <<>> => Len(s) >= 2
<1>1. Tail(s) \in Seq(Nat) /\ Len(s) \in Nat /\ Len(s) >= 1 /\ Head(s) = s[1] /\ Len(Tail(s)) = Len(s) - 1
  OBVIOUS
<1>2. Head(s) \in Nat
  BY <1>1
<1>3. \A i \in 1 .. Len(s) - 1 : Tail(s)[i] = s[i + 1]
  BY <1>1
<1>4. /\ Tail(s) = <<>> => Len(Tail(s)) = 0
      /\ Tail(s) # <<>> => Len(Tail(s)) # 0
  BY <1>1, EmptySeq
<1> QED BY <1>1, <1>2, <1>3, <1>4

\* What a flush leaves is dark: by who flushed it, or by who did so before.
LEMMA SuspendedIs ==
  ASSUME offer \in OfferState, NEW who \in Flushers, offer.by \in Feeders => offer.bettable
  PROVE  /\ Suspended(who) \in OfferState /\ ~ Suspended(who).bettable
         /\ Suspended(who).by \in Flushers
         /\ Suspended(who) # offer => Suspended(who).by = who /\ Suspended(who).version = None
<1>1. CASE offer.bettable
  BY <1>1 DEF Suspended, OfferState
<1>2. CASE ~ offer.bettable
  BY <1>2 DEF Suspended, OfferState, Flushers, Feeders
<1> QED BY <1>1, <1>2 DEF OfferState

\* A flush of the catalog went through, or failed and left the offer.
LEMMA FlushDoes ==
  ASSUME NEW who, Flush(who)
  PROVE  \/ offer' = Suspended(who) /\ spent' = spent
         \/ offer' = offer /\ spent' = Fault
BY DEF Flush

\* A fault is counted and nothing else, except that an answer may be owed.
LEMMA FaultKeeps ==
  ASSUME spent \in SpentState
  PROVE  /\ Fault \in SpentState /\ Owing \in SpentState
         /\ Fault.moves = spent.moves /\ Fault.acks = spent.acks /\ Fault.owed = spent.owed
         /\ Owing.moves = spent.moves /\ Owing.acks = spent.acks /\ Owing.owed
         /\ Fault # spent
<1>1. /\ Fault \in SpentState
      /\ Fault.moves = spent.moves /\ Fault.acks = spent.acks /\ Fault.owed = spent.owed
      /\ Fault # spent
  BY DEF Fault, SpentState
<1>2. /\ Owing \in SpentState
      /\ Owing.moves = Fault.moves /\ Owing.acks = Fault.acks /\ Owing.owed
  BY <1>1 DEF Owing, SpentState
<1> QED BY <1>1, <1>2

\* The flush before a recovery leaves the connection and what it carries.
LEMMA RecoverFlushDoes ==
  ASSUME NEW who \in Flushers, NEW a \in AmqpState, FlushBeforeRecover(who, a)
  PROVE  /\ amqp' \in AmqpState
         /\ amqp'.conn = a.conn /\ amqp'.queue = a.queue /\ amqp'.again = a.again
         /\ \/ offer' = Suspended(who) /\ (spent' = spent \/ spent' = Fault)
            \/ offer' = offer /\ spent' = Fault
<1>1. PICK r \in BOOLEAN : amqp' = [a EXCEPT !.rewound = r]
  <2>1. (spent' = spent) \in BOOLEAN
    OBVIOUS
  <2> QED BY <2>1 DEF FlushBeforeRecover
<1>2. /\ amqp' \in AmqpState
      /\ amqp'.conn = a.conn /\ amqp'.queue = a.queue /\ amqp'.again = a.again
  BY <1>1 DEF AmqpState
<1>3. \/ offer' = Suspended(who) /\ (spent' = spent \/ spent' = Fault)
      \/ offer' = offer /\ spent' = Fault
  BY FlushDoes DEF FlushBeforeRecover
<1> QED BY <1>2, <1>3

\* A message is dropped, or applied, or put aside for another time.
LEMMA HandleDoes ==
  ASSUME Types, NEW v \in Nat, NEW by \in Feeders, NEW a \in AmqpState, Handle(v, by, a)
  PROVE  /\ amqp' \in AmqpState /\ amqp.conn = "up"
         /\ amqp'.conn = a.conn /\ amqp'.queue = a.queue
         /\ \/ /\ ing.drop /\ amqp'.again = a.again /\ offer' = offer /\ spent' = spent
               /\ (lost' = lost /\ ing.pc = "poll") \/ lost' = Darker
            \/ /\ ~ ing.drop /\ amqp'.again = a.again /\ spent' = spent
               /\ offer' = [bettable |-> TRUE, version |-> v, by |-> by]
               /\ lost' = "no" \/ lost' = lost
            \/ /\ ~ ing.drop /\ amqp'.again = a.again \cup {v} /\ spent' = Fault
               /\ offer' = offer /\ lost' = lost
         /\ stale' \in BOOLEAN
         /\ UNCHANGED <<control, truth, ing, bif, reported, stream>>
<1>1. /\ amqp.conn = "up" /\ stale' \in BOOLEAN
      /\ UNCHANGED <<control, truth, ing, bif, reported, stream>>
  BY DEF Handle
<1>2. CASE ing.drop
  <2>1. amqp' = a /\ offer' = offer /\ spent' = spent
    BY <1>2 DEF Handle
  <2>2. (lost' = lost /\ ing.pc = "poll") \/ lost' = Darker
    BY <1>2 DEF Handle
  <2> QED BY <1>1, <1>2, <2>1, <2>2
<1>3. CASE /\ ~ ing.drop /\ amqp' = [a EXCEPT !.rewound = FALSE] /\ spent' = spent
           /\ offer' = [bettable |-> TRUE, version |-> v, by |-> by]
           /\ lost' = IF v = truth THEN "no" ELSE lost
  <2>1. amqp' \in AmqpState /\ amqp'.conn = a.conn /\ amqp'.queue = a.queue /\ amqp'.again = a.again
    BY <1>3 DEF AmqpState
  <2> QED BY <1>1, <1>3, <2>1
<1>4. CASE /\ ~ ing.drop /\ amqp' = [a EXCEPT !.again = @ \cup {v}] /\ spent' = Fault
           /\ offer' = offer /\ lost' = lost
  <2>1. a.again \cup {v} \in SUBSET Nat
    BY DEF AmqpState
  <2>2. /\ amqp' \in AmqpState /\ amqp'.conn = a.conn /\ amqp'.queue = a.queue
        /\ amqp'.again = a.again \cup {v}
    BY <1>4, <2>1 DEF AmqpState
  <2> QED BY <1>1, <1>4, <2>2
<1> QED BY <1>2, <1>3, <1>4 DEF Handle

\* What the two kinds of delivery hand over.
LEMMA DeliveryDoes ==
  ASSUME Types, Deliver \/ Redeliver
  PROVE  \E v \in Nat, by \in Feeders, a \in AmqpState :
           /\ Handle(v, by, a) /\ a.conn = amqp.conn
           /\ \/ /\ Deliver /\ amqp.queue # <<>> /\ v = Head(amqp.queue) /\ by = "amqp"
                 /\ a.queue = Tail(amqp.queue) /\ a.again = amqp.again
              \/ /\ Redeliver /\ v \in amqp.again /\ by = "redelivery"
                 /\ a.queue = amqp.queue /\ a.again = amqp.again \ {v}
<1>1. amqp \in AmqpState
  BY DEF Types
<1>2. CASE Deliver
  <2> DEFINE a == [amqp EXCEPT !.queue = Tail(@)]
  <2>1. amqp.queue # <<>> /\ Handle(Head(amqp.queue), "amqp", a)
    BY <1>2 DEF Deliver
  <2>2. Tail(amqp.queue) \in Seq(Nat) /\ Head(amqp.queue) \in Nat
    BY <1>1, <2>1, TailEnds DEF AmqpState
  <2>3. a \in AmqpState /\ a.conn = amqp.conn /\ a.queue = Tail(amqp.queue) /\ a.again = amqp.again
    BY <1>1, <2>2 DEF AmqpState
  <2> HIDE DEF a
  <2>4. "amqp" \in Feeders
    BY DEF Feeders
  <2> QED BY <1>2, <2>1, <2>2, <2>3, <2>4
<1>3. CASE Redeliver
  <2>1. PICK v \in amqp.again : Handle(v, "redelivery", [amqp EXCEPT !.again = @ \ {v}])
    BY <1>3 DEF Redeliver
  <2> DEFINE a == [amqp EXCEPT !.again = @ \ {v}]
  <2>2. v \in Nat /\ amqp.again \ {v} \in SUBSET Nat
    BY <1>1 DEF AmqpState
  <2>3. a \in AmqpState /\ a.conn = amqp.conn /\ a.queue = amqp.queue /\ a.again = amqp.again \ {v}
    BY <1>1, <2>2 DEF AmqpState
  <2>4. Handle(v, "redelivery", a)
    BY <2>1
  <2> HIDE DEF a
  <2>5. "redelivery" \in Feeders
    BY DEF Feeders
  <2> QED BY <1>3, <2>2, <2>3, <2>4, <2>5
<1> QED BY <1>2, <1>3

\* A publish puts an entry in the stream, or an answer is owed.
LEMMA PublishDoes ==
  ASSUME NEW b, Publish(b)
  PROVE  \/ stream' = Emit(b) /\ spent' = spent
         \/ stream' = stream /\ spent' = Owing
BY DEF Publish

\* A recovery request leaves the connection and its queue, and does not hide a
\* missing flush.
LEMMA AskReplayDoes ==
  ASSUME Types, NEW a \in AmqpState, NEW due \in BOOLEAN, AskReplay(a, due)
  PROVE  /\ amqp' \in AmqpState
         /\ amqp'.conn = a.conn /\ amqp'.queue = a.queue /\ amqp'.again = a.again
         /\ spent' = spent \/ spent' = Fault
         /\ lost' \in {"no", "dark", "skip"} /\ (lost' = "skip" <=> lost = "skip")
<1>1. PICK r \in BOOLEAN : amqp' = [[a EXCEPT !.rewound = @ /\ due] EXCEPT !.replay = r]
  <2> DEFINE b == [a EXCEPT !.rewound = @ /\ due]
  <2>1. amqp' = [b EXCEPT !.replay = TRUE] \/ amqp' = b
    BY DEF AskReplay
  <2>2. b = [b EXCEPT !.replay = b.replay] /\ b.replay \in BOOLEAN
    BY DEF AmqpState
  <2> QED BY <2>1, <2>2
<1>2. amqp' \in AmqpState /\ amqp'.conn = a.conn /\ amqp'.queue = a.queue /\ amqp'.again = a.again
  BY <1>1 DEF AmqpState
<1>3. /\ spent' = spent \/ spent' = Fault
      /\ lost' = Brighter \/ lost' = Darker
  BY DEF AskReplay
<1>4. /\ Brighter \in {"no", "skip"} /\ (Brighter = "skip" <=> lost = "skip")
      /\ Darker \in {"no", "dark", "skip"} /\ (Darker = "skip" <=> lost = "skip")
  BY DEF Brighter, Darker, Types
<1> QED BY <1>2, <1>3, <1>4

-----------------------------------------------------------------------------
(* The first state *)

\* The processes start with an empty queue, an empty stream and nothing offered.
LEMMA InitFInv == Init => FInv
<1> SUFFICES ASSUME Init PROVE FInv
  OBVIOUS
<1>1. control.source \in Sources /\ control.flush = 0 /\ ing = Booted(control.source)
  BY DEF Init
<1>2. amqp.conn = "down" /\ amqp.queue = <<>> /\ stream = <<>> /\ lost = "no" /\ amqp.again = {}
  BY DEF Init
<1>3. /\ bif = NewBif /\ spent.acks = 0 /\ spent.moves = 0 /\ truth = 0
      /\ offer = [bettable |-> FALSE, version |-> None, by |-> "switch"]
  BY DEF Init
<1>4. Types
  <2>1. control \in [source: Sources, flush: Nat, waited: BOOLEAN]
    <3>1. control \in [source: Sources, flush: {0}, waited: {TRUE}]
      BY DEF Init
    <3>2. PICK src \in Sources : control = [source |-> src, flush |-> 0, waited |-> TRUE]
      BY <3>1
    <3> QED BY <3>2
  <2>2. amqp \in AmqpState
    BY EmptySeq DEF Init, AmqpState
  <2>3. ing \in IngState
    BY <1>1 DEF Booted, IngState
  <2>4. bif \in BifState /\ offer \in OfferState
    BY <1>3 DEF BifState, NewBif, OfferState, Flushers
  <2>5. spent \in SpentState
    BY BoundsAssumption DEF Init, SpentState
  <2>6. stream \in Seq(Nat)
    BY <1>2, EmptySeq
  <2>7. stale \in BOOLEAN /\ reported \in BOOLEAN
    BY DEF Init
  <2> QED BY <2>1, <2>2, <2>3, <2>4, <2>5, <2>6, <2>7, <1>2, <1>3 DEF Types
<1>5. Modes
  BY <1>1 DEF Modes, Booted
<1>6. Len(amqp.queue) = 0 /\ Len(stream) = 0
  BY <1>2
<1>7. Carried
  <2>1. bif.snap = None /\ ~ offer.bettable /\ offer.version = None /\ offer.by \notin Feeders
    BY <1>3 DEF NewBif, Feeders
  <2>2. offer.bettable = (offer.version # None)
    BY <1>3
  <2> QED BY <1>2, <1>6, <2>1, <2>2 DEF Carried
<1>8. Acknowledged
  BY <1>1, <1>3 DEF Acknowledged, NewBif
<1>9. Fresh /\ Survivor /\ Refilled
  BY <1>1, <1>2, <1>3 DEF Fresh, Survivor, Refilled
<1> QED BY <1>4, <1>5, <1>7, <1>8, <1>9 DEF FInv

-----------------------------------------------------------------------------
(* The steps *)

\* What may speak to the two processes stays well formed.
LEMMA TypesStep ==
  ASSUME FInv, Next
  PROVE  Types'
<1> USE DEF FInv
<1>1. /\ control \in [source: Sources, flush: Nat, waited: BOOLEAN]
      /\ amqp \in AmqpState /\ ing \in IngState /\ bif \in BifState
      /\ stream \in Seq(Nat) /\ offer \in OfferState /\ spent \in SpentState
      /\ truth = spent.moves /\ truth \in Nat
      /\ stale \in BOOLEAN /\ reported \in BOOLEAN /\ lost \in {"no", "dark", "skip"}
  BY BoundsAssumption DEF Types, SpentState
<1>2. Darker \in {"no", "dark", "skip"} /\ \A who \in Flushers : Suspended(who) \in OfferState
  BY <1>1, SuspendedIs DEF Darker, Carried
<1>3. /\ Fault \in SpentState /\ Fault.moves = spent.moves
      /\ Owing \in SpentState /\ Owing.moves = spent.moves
  BY <1>1, FaultKeeps
<1>4. ASSUME NEW who \in Flushers, Flush(who)
      PROVE  offer' \in OfferState /\ spent' \in SpentState /\ spent'.moves = spent.moves
  BY <1>1, <1>2, <1>3, <1>4, FlushDoes
<1> HIDE DEF FInv
<1>5. ASSUME NEW x \in Nat
      PROVE  Append(stream, x) \in Seq(Nat) /\ Append(amqp.queue, x) \in Seq(Nat)
  BY <1>1, AppendEnds DEF AmqpState
<1>6. \A b \in BifState : Emit(b) \in Seq(Nat)
  BY <1>1, <1>5 DEF Emit, BifState
<1>7. CASE Move
  <2>1. truth' \in Nat /\ truth' = spent'.moves /\ spent' \in SpentState
    BY <1>1, <1>7, BoundsAssumption DEF Move, SpentState
  <2>2. amqp' \in AmqpState
    BY <1>1, <1>5, <1>7, <2>1 DEF Move, AmqpState
  <2> QED BY <1>1, <1>7, <2>1, <2>2 DEF Move, Types
<1>8. CASE Replay
  <2>1. amqp' \in AmqpState
    BY <1>1, <1>5, <1>8 DEF Replay, AmqpState
  <2> QED BY <1>1, <1>2, <1>8, <2>1 DEF Replay, Types
<1>9. CASE Disconnect \/ RestartIngester
  <2>1. amqp' \in AmqpState
    <3>1. <<>> \in Seq(Nat)
      BY EmptySeq
    <3>2. CASE Disconnect
      BY <1>1, <3>1, <3>2 DEF Disconnect, AmqpState
    <3>3. CASE RestartIngester
      BY <1>1, <3>1, <3>3 DEF RestartIngester, AmqpState
    <3> QED BY <1>9, <3>2, <3>3
  <2>2. ing' \in IngState
    <3>1. \A src \in Sources \cup {"auto"} : Booted(src) \in IngState
      BY DEF Booted, IngState
    <3>2. Adopted \subseteq Sources \cup {"auto"}
      BY <1>1 DEF Adopted
    <3> QED BY <1>1, <1>9, <3>1, <3>2 DEF Disconnect, RestartIngester
  <2>3. spent' \in SpentState /\ spent'.moves = spent.moves
    BY <1>3, <1>9 DEF Disconnect, RestartIngester
  <2> QED BY <1>1, <1>9, <2>1, <2>2, <2>3 DEF Disconnect, RestartIngester, Types
<1>10. CASE GoQuiet \/ Stall
  <2>1. amqp' \in AmqpState
    BY <1>1, <1>10 DEF GoQuiet, Stall, AmqpState
  <2>2. spent' \in SpentState /\ spent'.moves = spent.moves /\ lost' \in {"no", "dark", "skip"}
    BY <1>1, <1>2, <1>3, <1>10 DEF GoQuiet, Stall
  <2> QED BY <1>1, <1>10, <2>1, <2>2 DEF GoQuiet, Stall, Types
<1>11. CASE (\E src \in Sources : SwitchSource(src)) \/ FlushWaitOver
  <2>1. control' \in [source: Sources, flush: Nat, waited: BOOLEAN]
    <3>1. ASSUME NEW src \in Sources, SwitchSource(src)
          PROVE  control' \in [source: Sources, flush: Nat, waited: BOOLEAN]
      BY <3>1 DEF SwitchSource
    <3>2. CASE FlushWaitOver
      BY <1>1, <3>2 DEF FlushWaitOver
    <3> QED BY <1>11, <3>1, <3>2
  <2>2. spent' \in SpentState /\ spent'.moves = spent.moves
    BY <1>1, <1>11 DEF SwitchSource, FlushWaitOver, SpentState
  <2> QED BY <1>1, <1>11, <2>1, <2>2 DEF SwitchSource, FlushWaitOver, Types
<1>12. CASE PollSource \/ ResumeOut
  <2>1. ing' \in IngState
    <3>1. CASE PollSource
      <4>1. CASE control.source = "backup"
        BY <1>1, <3>1, <4>1 DEF PollSource, IngState
      <4>2. CASE control.source # "backup" /\ ing.prev = "backup"
        BY <1>1, <3>1, <4>2 DEF PollSource, IngState
      <4>3. CASE control.source # "backup" /\ ing.prev # "backup"
        BY <1>1, <3>1, <4>3 DEF PollSource, IngState
      <4> QED BY <4>1, <4>2, <4>3
    <3> QED BY <1>1, <1>12, <3>1 DEF ResumeOut, Resumed, IngState
  <2> QED BY <1>1, <1>12, <2>1 DEF PollSource, ResumeOut, Types
<1>13. CASE FlushIn \/ FlushOut
  <2>1. /\ offer' \in OfferState /\ spent' \in SpentState /\ spent'.moves = spent.moves
        /\ amqp' \in AmqpState
    <3>1. "switch" \in Flushers
      BY DEF Flushers
    <3>2. CASE FlushIn
      BY <1>1, <1>4, <3>1, <3>2 DEF FlushIn
    <3>3. CASE FlushOut
      BY <1>1, <1>2, <1>3, <3>1, <3>3, RecoverFlushDoes DEF FlushOut
    <3> QED BY <1>13, <3>2, <3>3
  <2>2. ing' \in IngState
    BY <1>1, <1>13 DEF FlushIn, FlushOut, IngState
  <2>3. lost' \in {"no", "dark", "skip"}
    BY <1>1, <1>13 DEF FlushIn, FlushOut
  <2> QED BY <1>1, <1>13, <2>1, <2>2, <2>3 DEF FlushIn, FlushOut, Types
<1>14. CASE AckFlush
  <2>1. control' \in [source: Sources, flush: Nat, waited: BOOLEAN]
    <3>1. spent.acks + 1 \in Nat
      BY <1>1 DEF SpentState
    <3> QED BY <1>1, <1>14, <3>1 DEF AckFlush
  <2>2. ing' \in IngState
    BY <1>1, <1>14 DEF AckFlush, IngState
  <2>3. spent' \in SpentState /\ spent'.moves = spent.moves
    <3>1. /\ [spent EXCEPT !.acks = @ + 1, !.owed = FALSE] \in SpentState
          /\ [spent EXCEPT !.acks = @ + 1, !.owed = FALSE].moves = spent.moves
      <4>1. spent.acks + 1 \in Nat
        BY <1>1 DEF SpentState
      <4> QED BY <1>1, <4>1 DEF SpentState
    <3> QED BY <1>3, <1>14, <3>1 DEF AckFlush
  <2> QED BY <1>1, <1>14, <2>1, <2>2, <2>3 DEF AckFlush, Types
<1>15. CASE RecoverOut
  <2>1. /\ amqp' \in AmqpState
        /\ spent' = spent \/ spent' = Fault
        /\ lost' \in {"no", "dark", "skip"}
    <3>1. Types /\ (amqp.conn = "ask") \in BOOLEAN
      BY DEF FInv
    <3> QED BY <1>1, <1>15, <3>1, AskReplayDoes DEF RecoverOut
  <2>2. ing' \in IngState
    BY <1>1, <1>15 DEF RecoverOut, IngState
  <2> QED BY <1>1, <1>3, <1>15, <2>1, <2>2 DEF RecoverOut, Types
<1>16. CASE Dial
  BY <1>1, <1>16 DEF Dial, Types, AmqpState
<1>17. CASE HookBegin \/ HookFlush
  <2>1. CASE HookBegin
    <3>1. amqp' \in AmqpState /\ ing' \in IngState
      BY <1>1, <2>1 DEF HookBegin, AmqpState, IngState
    <3>2. lost' \in {"no", "dark", "skip"}
      BY <1>1, <2>1 DEF HookBegin
    <3> QED BY <1>1, <2>1, <3>1, <3>2 DEF HookBegin, Types
  <2>2. CASE HookFlush
    <3>1. [amqp EXCEPT !.conn = "ask"] \in AmqpState /\ "hook" \in Flushers
      BY <1>1 DEF AmqpState, Flushers
    <3>2. /\ amqp' \in AmqpState /\ offer' \in OfferState
          /\ spent' \in SpentState /\ spent'.moves = spent.moves
      BY <1>1, <1>2, <1>3, <2>2, <3>1, RecoverFlushDoes DEF HookFlush
    <3>3. lost' \in {"no", "dark", "skip"}
      BY <1>1, <2>2 DEF HookFlush
    <3> QED BY <1>1, <2>2, <3>2, <3>3 DEF HookFlush, Types
  <2> QED BY <1>17, <2>1, <2>2
<1>18. CASE HookRecover
  <2>1. /\ amqp' \in AmqpState
        /\ spent' = spent \/ spent' = Fault
        /\ lost' \in {"no", "dark", "skip"}
    <3>1. CASE ing.isBackup
      BY <1>1, <1>18, <3>1 DEF HookRecover, AmqpState
    <3>2. CASE ~ ing.isBackup
      <4>1. [amqp EXCEPT !.conn = "up"] \in AmqpState
        BY <1>1 DEF AmqpState
      <4>2. Types /\ (ing.pc = "recoverOut") \in BOOLEAN
        BY DEF FInv
      <4> QED BY <1>18, <3>2, <4>1, <4>2, AskReplayDoes DEF HookRecover
    <3> QED BY <3>1, <3>2
  <2> QED BY <1>1, <1>3, <1>18, <2>1 DEF HookRecover, Types
<1>19. CASE Deliver \/ Redeliver
  <2>1. Types
    BY DEF FInv
  <2>2. PICK v \in Nat, by \in Feeders, a \in AmqpState : Handle(v, by, a)
    BY <1>19, <2>1, DeliveryDoes
  <2>3. [bettable |-> TRUE, version |-> v, by |-> by] \in OfferState
    BY DEF OfferState
  <2>4. amqp' \in AmqpState /\ stale' \in BOOLEAN /\ UNCHANGED <<control, truth, ing, bif, reported, stream>>
    BY <2>1, <2>2, HandleDoes
  <2>5. /\ offer' \in OfferState /\ spent' \in SpentState /\ spent'.moves = spent.moves
        /\ lost' \in {"no", "dark", "skip"}
    BY <1>1, <1>2, <1>3, <2>1, <2>2, <2>3, HandleDoes
  <2> QED BY <1>1, <2>4, <2>5 DEF Types
<1>20. CASE Heartbeat
  <2>1. /\ amqp' \in AmqpState
        /\ spent' = spent \/ spent' = Fault
        /\ lost' \in {"no", "dark", "skip"}
    <3>1. CASE AskReplay([amqp EXCEPT !.beat = "ok", !.rewound = FALSE], FALSE)
      <4>1. [amqp EXCEPT !.beat = "ok", !.rewound = FALSE] \in AmqpState
        BY <1>1 DEF AmqpState
      <4>2. Types
        BY DEF FInv
      <4> QED BY <3>1, <4>1, <4>2, AskReplayDoes
    <3> QED BY <1>1, <1>20, <3>1 DEF Heartbeat, AmqpState
  <2> QED BY <1>1, <1>3, <1>20, <2>1 DEF Heartbeat, Types
<1>21. CASE WatchdogStep
  <2>1. /\ offer' \in OfferState /\ spent' \in SpentState /\ spent'.moves = spent.moves
        /\ lost' \in {"no", "dark", "skip"}
    <3>1. "watchdog" \in Flushers
      BY DEF Flushers
    <3> QED BY <1>1, <1>3, <1>4, <1>21, <3>1 DEF WatchdogStep, WatchdogCheck, WatchdogFlush
  <2>2. ing' \in IngState
    <3>1. Verdict \in {"calm", "sick", "flush", "guard"}
      BY DEF Verdict
    <3> QED BY <1>1, <1>21, <3>1 DEF WatchdogStep, WatchdogCheck, WatchdogFlush, IngState
  <2> QED BY <1>1, <1>21, <2>1, <2>2 DEF WatchdogStep, WatchdogCheck, WatchdogFlush, Types
<1>22. CASE ApplyStream
  <2>1. Tail(stream) \in Seq(Nat) /\ Head(stream) \in Nat
    BY <1>1, <1>22, TailEnds DEF ApplyStream
  <2>2. amqp' \in AmqpState /\ offer' \in OfferState
    <3>1. /\ [amqp EXCEPT !.rewound = FALSE] \in AmqpState
          /\ [bettable |-> TRUE, version |-> Head(stream), by |-> "backup"] \in OfferState
      BY <1>1, <2>1 DEF AmqpState, OfferState, Feeders
    <3> QED BY <1>1, <1>22, <3>1 DEF ApplyStream
  <2>3. spent' \in SpentState /\ spent'.moves = spent.moves
    <3>1. /\ [spent EXCEPT !.owed = FALSE] \in SpentState
          /\ [spent EXCEPT !.owed = FALSE].moves = spent.moves
      BY <1>1 DEF SpentState
    <3> QED BY <1>3, <1>22, <3>1 DEF ApplyStream
  <2> QED BY <1>1, <1>22, <2>1, <2>2, <2>3 DEF ApplyStream, Types
<1>23. CASE BifrostStep \/ Resync \/ SocketDown \/ SocketUp \/ RestartBifrost \/ PublishStatus \/ StatusGrowsOld
  <2>1. bif' \in BifState
    <3>1. CASE Evaluate
      <4>1. GateWants \subseteq BOOLEAN
        <5>1. control.waited \in BOOLEAN /\ control.source \in {"auto", "prod", "backup"}
          BY <1>1, SourcesAssumption
        <5>2. bif.active \in BOOLEAN
          BY <1>1 DEF BifState
        <5> QED BY <5>1, <5>2 DEF GateWants
      <4>2. PICK want \in GateWants :
              bif' = [bif EXCEPT !.flush = control.flush, !.active = want,
                                 !.pending = @ \/ want # bif.active]
        BY <3>1 DEF Evaluate
      <4>3. want \in BOOLEAN /\ control.flush \in Nat /\ (bif.pending \/ want # bif.active) \in BOOLEAN
        BY <1>1, <4>1
      <4> QED BY <1>1, <4>2, <4>3 DEF BifState
    <3>2. CASE ProcessFrame \/ WatchGate \/ SocketDown \/ SocketUp
      <4>1. CASE ProcessFrame \/ SocketUp
        BY <1>1, <3>2, <4>1 DEF ProcessFrame, SocketUp, BifState
      <4>2. CASE WatchGate
        <5>1. bif' = [bif EXCEPT !.pending = FALSE, !.lastFlush = bif.flush]
          BY <4>2 DEF WatchGate
        <5> QED BY <1>1, <5>1 DEF BifState
      <4>3. CASE SocketDown
        BY <1>1, <4>3 DEF SocketDown, BifState
      <4> QED BY <3>2, <4>1, <4>2, <4>3
    <3>3. CASE Resync \/ RestartBifrost
      <4>1. NewBif \in BifState
        BY DEF NewBif, BifState
      <4> QED BY <1>1, <3>3, <4>1 DEF Resync, RestartBifrost
    <3>4. CASE PublishStatus \/ StatusGrowsOld
      BY <1>1, <3>4 DEF PublishStatus, StatusGrowsOld
    <3> QED BY <1>23, <3>1, <3>2, <3>3, <3>4 DEF BifrostStep
  <2>2. stream' \in Seq(Nat)
    BY <1>1, <1>6, <1>23, <2>1, PublishDoes
    DEF BifrostStep, Evaluate, ProcessFrame, WatchGate, Resync, SocketDown, SocketUp,
        RestartBifrost, PublishStatus, StatusGrowsOld
  <2>3. spent' \in SpentState /\ spent'.moves = spent.moves
    BY <1>1, <1>3, <1>23, PublishDoes
    DEF BifrostStep, Evaluate, ProcessFrame, WatchGate, Resync, SocketDown, SocketUp,
        RestartBifrost, PublishStatus, StatusGrowsOld
  <2>4. reported' \in BOOLEAN
    BY <1>1, <1>23
    DEF BifrostStep, Evaluate, ProcessFrame, WatchGate, Resync, SocketDown, SocketUp,
        RestartBifrost, PublishStatus, StatusGrowsOld, BifState
  <2>5. UNCHANGED <<control, truth, amqp, ing, stale, offer, lost>>
    BY <1>23
    DEF BifrostStep, Evaluate, ProcessFrame, WatchGate, Resync, SocketDown, SocketUp,
        RestartBifrost, PublishStatus, StatusGrowsOld
  <2> QED BY <1>1, <2>1, <2>2, <2>3, <2>4, <2>5 DEF Types
<1> QED
  BY <1>7, <1>8, <1>9, <1>10, <1>11, <1>12, <1>13, <1>14, <1>15, <1>16, <1>17, <1>18, <1>19,
     <1>20, <1>21, <1>22, <1>23 DEF Next, SwitchStep, ConsumerStep

\* Who writes the ingester's flags, the offer, bifrost-feed's state and the row.
LEMMA Writers ==
  ASSUME Next
  PROVE  /\ \/ PollSource \/ FlushIn \/ AckFlush \/ FlushOut \/ RecoverOut \/ ResumeOut
            \/ RestartIngester \/ HookBegin \/ WatchdogStep \/ ing' = ing
         /\ \/ FlushIn \/ FlushOut \/ HookFlush \/ Deliver \/ Redeliver \/ WatchdogFlush
            \/ ApplyStream \/ offer' = offer
         /\ \/ Evaluate \/ ProcessFrame \/ WatchGate \/ SocketDown \/ SocketUp \/ RestartBifrost
            \/ bif' = bif
         /\ \/ AckFlush \/ FlushWaitOver \/ (\E src \in Sources : SwitchSource(src))
            \/ control' = control
<1>1. \/ SwitchStep \/ RestartIngester \/ HookBegin \/ WatchdogStep \/ ing' = ing
  BY DEF Next, ConsumerStep, BifrostStep, Move, Replay, Disconnect, GoQuiet, Stall,
         SwitchSource, FlushWaitOver, Dial, HookFlush, HookRecover, Deliver, Redeliver, Handle,
         Heartbeat, ApplyStream, Evaluate, ProcessFrame, WatchGate, Resync, SocketDown, SocketUp,
         RestartBifrost, PublishStatus, StatusGrowsOld
<1>2. \/ FlushIn \/ FlushOut \/ HookFlush \/ Deliver \/ Redeliver \/ WatchdogFlush \/ ApplyStream
      \/ offer' = offer
  BY DEF Next, SwitchStep, ConsumerStep, WatchdogStep, BifrostStep, Move, Replay, Disconnect,
         GoQuiet, Stall, SwitchSource, FlushWaitOver, PollSource, AckFlush, RecoverOut, ResumeOut,
         RestartIngester, Dial, HookBegin, HookRecover, Heartbeat, WatchdogCheck, Evaluate,
         ProcessFrame, WatchGate, Resync, SocketDown, SocketUp, RestartBifrost, PublishStatus,
         StatusGrowsOld
<1>3. \/ Evaluate \/ ProcessFrame \/ WatchGate \/ SocketDown \/ SocketUp \/ RestartBifrost \/ bif' = bif
  BY DEF Next, SwitchStep, ConsumerStep, WatchdogStep, BifrostStep, Move, Replay, Disconnect,
         GoQuiet, Stall, SwitchSource, FlushWaitOver, PollSource, FlushIn, AckFlush, FlushOut,
         RecoverOut, ResumeOut, RestartIngester, Dial, HookBegin, HookFlush, HookRecover, Deliver,
         Redeliver, Handle, Heartbeat, WatchdogCheck, WatchdogFlush, ApplyStream, Resync,
         PublishStatus, StatusGrowsOld
<1>4. \/ AckFlush \/ FlushWaitOver \/ (\E src \in Sources : SwitchSource(src)) \/ control' = control
  BY DEF Next, SwitchStep, ConsumerStep, WatchdogStep, BifrostStep, Move, Replay, Disconnect,
         GoQuiet, Stall, PollSource, FlushIn, FlushOut, RecoverOut, ResumeOut, RestartIngester,
         Dial, HookBegin, HookFlush, HookRecover, Deliver, Redeliver, Handle, Heartbeat,
         WatchdogCheck, WatchdogFlush, ApplyStream, Evaluate, ProcessFrame, WatchGate, Resync,
         SocketDown, SocketUp, RestartBifrost, PublishStatus, StatusGrowsOld
<1> QED BY <1>1, <1>2, <1>3, <1>4 DEF SwitchStep

\* A step that leaves what AMQP carries and the odds alone does not close the
\* connection either.
LEMMA QueueWriters ==
  ASSUME FInv, Next
  PROVE  \/ Move \/ Replay \/ Disconnect \/ RestartIngester \/ Deliver \/ Redeliver
         \/ /\ amqp'.queue = amqp.queue /\ amqp'.again = amqp.again /\ truth' = truth
            /\ amqp'.conn = amqp.conn \/ amqp'.conn # "down"
<1> DEFINE Kept == /\ amqp'.queue = amqp.queue /\ amqp'.again = amqp.again /\ truth' = truth
                   /\ amqp'.conn = amqp.conn \/ amqp'.conn # "down"
<1>1. amqp \in AmqpState /\ Types /\ ing \in IngState
  BY DEF FInv, Types
<1>2. CASE amqp' = amqp /\ truth' = truth
  BY <1>2
<1>3. CASE GoQuiet \/ Stall \/ Dial \/ HookBegin \/ ApplyStream
  <2>1. truth' = truth
    BY <1>3 DEF GoQuiet, Stall, Dial, HookBegin, ApplyStream
  <2>2. /\ amqp'.queue = amqp.queue /\ amqp'.again = amqp.again
        /\ amqp'.conn = amqp.conn \/ amqp'.conn # "down"
    BY <1>1, <1>3 DEF GoQuiet, Stall, Dial, HookBegin, ApplyStream, AmqpState
  <2> QED BY <2>1, <2>2
<1>4. CASE RecoverOut \/ FlushOut
  <2>1. amqp'.queue = amqp.queue /\ amqp'.again = amqp.again /\ amqp'.conn = amqp.conn
    BY <1>1, <1>4, AskReplayDoes, RecoverFlushDoes DEF RecoverOut, FlushOut, Flushers
  <2> QED BY <1>4, <2>1 DEF RecoverOut, FlushOut
<1>5. CASE HookRecover \/ HookFlush
  <2>1. CASE HookRecover /\ ing.isBackup
    BY <1>1, <2>1 DEF HookRecover, AmqpState
  <2>2. CASE HookRecover /\ ~ ing.isBackup
    <3> DEFINE a == [amqp EXCEPT !.conn = "up"]
    <3>1. a \in AmqpState /\ a.queue = amqp.queue /\ a.again = amqp.again /\ a.conn = "up"
      BY <1>1 DEF AmqpState
    <3>2. AskReplay(a, ing.pc = "recoverOut")
      BY <2>2 DEF HookRecover
    <3> HIDE DEF a
    <3>3. amqp'.queue = amqp.queue /\ amqp'.again = amqp.again /\ amqp'.conn = "up"
      BY <1>1, <3>1, <3>2, AskReplayDoes
    <3> QED BY <2>2, <3>3 DEF HookRecover
  <2>3. CASE HookFlush
    <3> DEFINE a == [amqp EXCEPT !.conn = "ask"]
    <3>1. a \in AmqpState /\ a.queue = amqp.queue /\ a.again = amqp.again /\ a.conn = "ask"
      BY <1>1 DEF AmqpState
    <3>2. FlushBeforeRecover("hook", a) /\ "hook" \in Flushers
      BY <2>3 DEF HookFlush, Flushers
    <3> HIDE DEF a
    <3>3. amqp'.queue = amqp.queue /\ amqp'.again = amqp.again /\ amqp'.conn = "ask"
      BY <1>1, <3>1, <3>2, RecoverFlushDoes
    <3> QED BY <2>3, <3>3 DEF HookFlush
  <2> QED BY <1>5, <2>1, <2>2, <2>3
<1>6. CASE Heartbeat
  <2> DEFINE a == [amqp EXCEPT !.beat = "ok", !.rewound = FALSE]
  <2>1. a \in AmqpState /\ a.queue = amqp.queue /\ a.again = amqp.again /\ a.conn = amqp.conn
    BY <1>1 DEF AmqpState
  <2>2. CASE AskReplay(a, FALSE)
    <3> HIDE DEF a
    <3>1. amqp'.queue = amqp.queue /\ amqp'.again = amqp.again /\ amqp'.conn = amqp.conn
      BY <1>1, <2>1, <2>2, AskReplayDoes
    <3> QED BY <1>6, <3>1 DEF Heartbeat
  <2>3. CASE amqp' = amqp \/ amqp' = [amqp EXCEPT !.beat = "ok"]
    BY <1>1, <1>6, <2>3 DEF Heartbeat, AmqpState
  <2> QED BY <1>6, <2>2, <2>3 DEF Heartbeat
<1>7. \/ Move \/ Replay \/ Disconnect \/ RestartIngester \/ Deliver \/ Redeliver
      \/ GoQuiet \/ Stall \/ Dial \/ HookBegin \/ HookFlush \/ FlushOut \/ ApplyStream
      \/ RecoverOut \/ HookRecover \/ Heartbeat \/ (amqp' = amqp /\ truth' = truth)
  BY DEF Next, SwitchStep, ConsumerStep, WatchdogStep, BifrostStep, SwitchSource, FlushWaitOver,
         PollSource, FlushIn, AckFlush, ResumeOut, WatchdogCheck, WatchdogFlush, Evaluate,
         ProcessFrame, WatchGate, Resync, SocketDown, SocketUp, RestartBifrost, PublishStatus,
         StatusGrowsOld
<1> QED BY <1>2, <1>3, <1>4, <1>5, <1>6, <1>7

\* The switch goroutine moves the flags with its own program counter.
LEMMA ModesStep ==
  ASSUME FInv, Next
  PROVE  Modes'
<1>1. Modes /\ ing \in IngState /\ control.source \in Sources
  BY DEF FInv, Types
<1>2. CASE ing' = ing
  BY <1>1, <1>2 DEF Modes
<1>3. CASE PollSource
  <2>1. CASE control.source = "backup"
    BY <1>1, <1>3, <2>1 DEF PollSource, Modes, IngState
  <2>2. CASE control.source # "backup" /\ ing.prev = "backup"
    BY <1>1, <1>3, <2>2 DEF PollSource, Modes, IngState
  <2>3. CASE control.source # "backup" /\ ing.prev # "backup"
    BY <1>1, <1>3, <2>3 DEF PollSource, Modes, IngState
  <2> QED BY <2>1, <2>2, <2>3
<1>4. CASE FlushIn \/ AckFlush
  BY <1>1, <1>4 DEF FlushIn, AckFlush, Modes, IngState
<1>5. CASE FlushOut \/ RecoverOut
  BY <1>1, <1>5 DEF FlushOut, RecoverOut, Modes, IngState
<1>6. CASE ResumeOut
  BY <1>1, <1>6 DEF ResumeOut, Resumed, Modes, IngState
<1>7. CASE RestartIngester
  <2>1. PICK src \in Adopted : ing' = Booted(src)
    BY <1>7 DEF RestartIngester
  <2>2. /\ ing'.prev = src /\ (ing'.isBackup <=> src = "backup") /\ (ing'.drop <=> src = "backup")
        /\ ing'.pc = IF src = "backup" THEN "flushIn" ELSE "poll"
    BY <2>1 DEF Booted
  <2> QED BY <2>2 DEF Modes
<1>8. CASE HookBegin \/ WatchdogStep
  <2>1. /\ ing'.prev = ing.prev /\ ing'.isBackup = ing.isBackup /\ ing'.pc = ing.pc
        /\ ing'.drop = ing.drop
    BY <1>1, <1>8 DEF HookBegin, WatchdogStep, WatchdogCheck, WatchdogFlush, IngState
  <2> QED BY <1>1, <2>1 DEF Modes
<1> QED BY <1>2, <1>3, <1>4, <1>5, <1>6, <1>7, <1>8, Writers

\* A queue is fed the newest odds and read from its head.
LEMMA QueueStep ==
  ASSUME FInv, Next
  PROVE  /\ \A i \in 1 .. Len(amqp'.queue) : amqp'.queue[i] <= truth'
         /\ amqp'.queue # <<>> => amqp'.queue[Len(amqp'.queue)] = truth'
         /\ \A v \in amqp'.again : v <= truth'
         /\ amqp'.conn = "down" => amqp'.queue = <<>> /\ amqp'.again = {}
<1> DEFINE q == amqp.queue
           r == amqp'.queue
           Goal == /\ \A i \in 1 .. Len(r) : r[i] <= truth'
                   /\ r # <<>> => r[Len(r)] = truth'
                   /\ \A v \in amqp'.again : v <= truth'
                   /\ amqp'.conn = "down" => r = <<>> /\ amqp'.again = {}
<1>1. /\ amqp \in AmqpState /\ amqp.again \subseteq Nat /\ q \in Seq(Nat) /\ truth \in Nat /\ Len(q) \in Nat
      /\ \A i \in 1 .. Len(q) : q[i] \in Nat
  <2>1. amqp \in AmqpState /\ truth \in Nat
    BY BoundsAssumption DEF FInv, Types, SpentState
  <2> QED BY <2>1 DEF AmqpState
<1>2. /\ \A i \in 1 .. Len(q) : q[i] <= truth
      /\ q # <<>> => q[Len(q)] = truth
      /\ \A v \in amqp.again : v <= truth
      /\ amqp.conn = "down" => q = <<>> /\ amqp.again = {}
  BY DEF FInv, Carried
<1>3. ASSUME NEW x \in Nat, truth <= x, r = Append(q, x), truth' = x, amqp'.conn # "down",
             amqp'.again = amqp.again
      PROVE  Goal
  <2>1. /\ Append(q, x) # <<>> /\ Len(Append(q, x)) = Len(q) + 1 /\ Append(q, x)[Len(q) + 1] = x
        /\ \A i \in 1 .. Len(q) : Append(q, x)[i] = q[i]
    BY <1>1, AppendEnds
  <2>2. ASSUME NEW i \in 1 .. Len(r) PROVE r[i] <= truth'
    <3>1. CASE i = Len(q) + 1
      BY <1>1, <1>3, <2>1, <3>1
    <3>2. CASE i # Len(q) + 1
      <4>1. i \in 1 .. Len(q)
        BY <1>1, <1>3, <2>1, <2>2, <3>2
      <4> QED BY <1>1, <1>2, <1>3, <2>1, <4>1
    <3> QED BY <3>1, <3>2
  <2>3. r[Len(r)] = truth'
    BY <1>3, <2>1
  <2>4. \A v \in amqp'.again : v <= truth'
    BY <1>1, <1>2, <1>3
  <2> QED BY <1>3, <2>2, <2>3, <2>4
<1>4. CASE Move
  <2>1. truth' = truth + 1
    BY <1>4 DEF Move
  <2>2. CASE Bound
    <3>1. r = Append(q, truth') /\ amqp'.conn # "down" /\ amqp'.again = amqp.again
      BY <1>1, <1>4, <2>2 DEF Move, Bound, AmqpState
    <3> QED BY <1>1, <1>3, <2>1, <3>1
  <2>3. CASE ~ Bound
    <3>1. r = <<>> /\ amqp'.again = {}
      BY <1>2, <1>4, <2>3 DEF Move, Bound
    <3> QED BY <3>1
  <2> QED BY <2>2, <2>3
<1>5. CASE Replay
  <2>1. CASE Bound
    <3>1. r = Append(q, truth) /\ truth' = truth /\ amqp'.conn # "down" /\ amqp'.again = amqp.again
      BY <1>1, <1>5, <2>1 DEF Replay, Bound, AmqpState
    <3> QED BY <1>1, <1>3, <3>1
  <2>2. CASE ~ Bound
    <3>1. r = q /\ truth' = truth /\ amqp'.conn = amqp.conn /\ amqp'.again = amqp.again
      BY <1>1, <1>5, <2>2 DEF Replay, AmqpState
    <3> QED BY <1>2, <3>1
  <2> QED BY <2>1, <2>2
<1>6. CASE Disconnect \/ RestartIngester
  <2>1. r = <<>> /\ amqp'.again = {}
    BY <1>1, <1>6 DEF Disconnect, RestartIngester, AmqpState
  <2> QED BY <2>1
<1>7. CASE Deliver \/ Redeliver
  <2>1. Types
    BY DEF FInv
  <2>2. PICK v \in Nat, by \in Feeders, a \in AmqpState :
          /\ Handle(v, by, a) /\ a.conn = amqp.conn
          /\ \/ q # <<>> /\ v = Head(q) /\ a.queue = Tail(q) /\ a.again = amqp.again
             \/ v \in amqp.again /\ a.queue = q /\ a.again = amqp.again \ {v}
    BY <1>7, <2>1, DeliveryDoes
  <2>3. /\ truth' = truth /\ r = a.queue /\ amqp'.conn = "up"
        /\ amqp'.again \subseteq a.again \cup {v}
    BY <2>1, <2>2, HandleDoes
  <2>4. CASE v \in amqp.again /\ a.queue = q /\ a.again = amqp.again \ {v}
    <3>1. amqp'.again \subseteq amqp.again
      BY <2>3, <2>4
    <3> QED BY <1>2, <2>3, <2>4, <3>1
  <2>5. CASE q # <<>> /\ v = Head(q) /\ a.queue = Tail(q) /\ a.again = amqp.again
    <3>1. /\ Len(q) \in Nat /\ Len(q) >= 1 /\ Len(Tail(q)) = Len(q) - 1 /\ Head(q) = q[1]
          /\ \A i \in 1 .. Len(q) - 1 : Tail(q)[i] = q[i + 1]
          /\ Tail(q) # <<>> => Len(q) >= 2
      BY <1>1, <2>5, TailEnds
    <3>2. ASSUME NEW i \in 1 .. Len(r) PROVE r[i] <= truth'
      BY <1>2, <2>3, <2>5, <3>1
    <3>3. ASSUME r # <<>> PROVE r[Len(r)] = truth'
      <4>1. Len(q) - 1 \in 1 .. Len(q) - 1 /\ (Len(q) - 1) + 1 = Len(q)
        BY <2>3, <2>5, <3>1, <3>3
      <4> QED BY <1>2, <2>3, <2>5, <3>1, <4>1
    <3>4. \A w \in amqp'.again : w <= truth'
      <4>1. v <= truth
        BY <1>2, <2>5, <3>1
      <4> QED BY <1>2, <2>3, <2>5, <4>1
    <3> QED BY <2>3, <3>2, <3>3, <3>4
  <2> QED BY <2>2, <2>4, <2>5
<1>8. CASE /\ r = q /\ truth' = truth /\ amqp'.again = amqp.again
           /\ amqp'.conn = amqp.conn \/ amqp'.conn # "down"
  BY <1>2, <1>8
<1> QED BY <1>4, <1>5, <1>6, <1>7, <1>8, QueueWriters

\* bifrost-feed sends what it saw, and a socket that is open has seen something.
LEMMA StreamStep ==
  ASSUME FInv, Next
  PROVE  /\ \A i \in 1 .. Len(stream') : stream'[i] <= truth'
         /\ bif'.snap # None => bif'.snap <= truth'
         /\ bif'.socket => bif'.snap # None
<1>1. /\ stream \in Seq(Nat) /\ truth \in Nat /\ Len(stream) \in Nat /\ bif \in BifState
      /\ \A i \in 1 .. Len(stream) : stream[i] \in Nat
  BY BoundsAssumption DEF FInv, Types, SpentState
<1>2. /\ \A i \in 1 .. Len(stream) : stream[i] <= truth
      /\ bif.snap # None => bif.snap <= truth
      /\ bif.socket => bif.snap # None
  BY DEF FInv, Carried, Acknowledged
<1>3. truth' \in Nat /\ truth <= truth'
  <2>1. truth' = truth + 1 \/ truth' = truth
    BY QueueWriters DEF Move, Replay, Disconnect, RestartIngester, Deliver, Redeliver, Handle
  <2> QED BY <1>1, <2>1
<1>4. /\ bif'.snap # None => bif'.snap <= truth'
      /\ bif'.socket => bif'.snap # None
  <2>1. CASE bif' = bif
    <3>1. bif.snap # None => bif.snap \in Nat
      BY <1>1 DEF BifState
    <3> QED BY <1>1, <1>2, <1>3, <2>1, <3>1
  <2>2. CASE Evaluate \/ WatchGate
    <3>1. bif'.snap = bif.snap /\ bif'.socket = bif.socket /\ truth' = truth
      BY <1>1, <2>2 DEF Evaluate, WatchGate, BifState
    <3> QED BY <1>2, <3>1
  <2>3. CASE ProcessFrame \/ SocketUp
    <3>1. bif'.snap = truth /\ truth' = truth
      BY <1>1, <2>3 DEF ProcessFrame, SocketUp, BifState
    <3> QED BY <1>1, <3>1, NoneAssumption
  <2>4. CASE SocketDown
    <3>1. bif'.snap = bif.snap /\ bif'.socket = FALSE /\ truth' = truth
      BY <1>1, <2>4 DEF SocketDown, BifState
    <3> QED BY <1>2, <3>1
  <2>5. CASE RestartBifrost
    BY <2>5 DEF RestartBifrost, NewBif
  <2> QED BY <2>1, <2>2, <2>3, <2>4, <2>5, Writers
<1>5. \/ stream' = stream \/ ApplyStream
      \/ \E b \in {bif, bif'} : stream' = Emit(b)
  <2>1. CASE ProcessFrame \/ WatchGate \/ Resync \/ SocketUp
    <3>1. PICK b \in {bif, bif'} : Publish(b)
      BY <2>1 DEF ProcessFrame, WatchGate, Resync, SocketUp
    <3> QED BY <3>1, PublishDoes
  <2> QED
    BY <2>1
    DEF Next, SwitchStep, ConsumerStep, WatchdogStep, BifrostStep, Move, Replay, Disconnect,
        GoQuiet, Stall, SwitchSource, FlushWaitOver, PollSource, FlushIn, AckFlush, FlushOut,
        RecoverOut, ResumeOut, RestartIngester, Dial, HookBegin, HookFlush, HookRecover, Deliver,
        Redeliver, Handle, Heartbeat, WatchdogCheck, WatchdogFlush, Evaluate, SocketDown,
        RestartBifrost, PublishStatus, StatusGrowsOld
<1>6. \A i \in 1 .. Len(stream') : stream'[i] <= truth'
  <2>1. CASE stream' = stream
    BY <1>1, <1>2, <1>3, <2>1
  <2>2. CASE ApplyStream
    <3>1. stream' = Tail(stream) /\ stream # <<>>
      BY <2>2 DEF ApplyStream
    <3>2. /\ Len(stream') = Len(stream) - 1
          /\ \A i \in 1 .. Len(stream) - 1 : stream'[i] = stream[i + 1]
      BY <1>1, <3>1, TailEnds
    <3>3. ASSUME NEW i \in 1 .. Len(stream') PROVE stream'[i] <= truth'
      <4>1. stream'[i] = stream[i + 1] /\ i + 1 \in 1 .. Len(stream)
        BY <1>1, <3>2, <3>3
      <4> QED BY <1>1, <1>2, <1>3, <4>1
    <3> QED BY <3>3
  <2>3. ASSUME NEW b \in {bif, bif'}, stream' = Emit(b)
        PROVE  \A i \in 1 .. Len(stream') : stream'[i] <= truth'
    <3>1. bif' \in BifState
      BY TypesStep DEF Types
    <3>2. b.snap # None => b.snap \in Nat /\ b.snap <= truth'
      <4>1. b \in BifState /\ (bif.snap # None => bif.snap \in Nat)
        BY <1>1, <2>3, <3>1 DEF BifState
      <4>2. b.snap # None => b.snap \in Nat
        BY <4>1 DEF BifState
      <4> QED BY <1>1, <1>2, <1>3, <1>4, <2>3, <4>1, <4>2
    <3>3. CASE stream' = stream
      BY <1>1, <1>2, <1>3, <3>3
    <3>4. CASE b.snap # None /\ stream' = Append(stream, b.snap)
      <4>1. /\ Len(stream') = Len(stream) + 1 /\ stream'[Len(stream) + 1] = b.snap
            /\ \A i \in 1 .. Len(stream) : stream'[i] = stream[i]
        BY <1>1, <3>2, <3>4, AppendEnds
      <4>2. ASSUME NEW i \in 1 .. Len(stream') PROVE stream'[i] <= truth'
        <5>1. CASE i = Len(stream) + 1
          BY <3>2, <3>4, <4>1, <5>1
        <5>2. CASE i # Len(stream) + 1
          <6>1. i \in 1 .. Len(stream)
            BY <1>1, <4>1, <4>2, <5>2
          <6> QED BY <1>1, <1>2, <1>3, <4>1, <6>1
        <5> QED BY <5>1, <5>2
      <4> QED BY <4>2
    <3> QED BY <2>3, <3>3, <3>4 DEF Emit
  <2> QED BY <1>5, <2>1, <2>2, <2>3
<1> QED BY <1>4, <1>6

\* An offer is bettable exactly when it has odds.
LEMMA OfferStep ==
  ASSUME FInv, Next
  PROVE  /\ offer'.bettable = (offer'.version # None)
         /\ offer'.by \in Feeders => offer'.bettable
<1> DEFINE Good(o) == o.bettable = (o.version # None) /\ (o.by \in Feeders => o.bettable)
<1>1. Good(offer) /\ Types
  BY DEF FInv, Carried
<1>2. ASSUME NEW who \in Flushers PROVE Good(Suspended(who))
  <2>1. CASE offer.bettable
    BY <2>1 DEF Suspended, Flushers, Feeders
  <2>2. CASE ~ offer.bettable
    BY <1>1, <2>2 DEF Suspended
  <2> QED BY <1>1, <2>1, <2>2 DEF Types, OfferState
<1>3. \A x \in Nat, by \in Feeders : Good([bettable |-> TRUE, version |-> x, by |-> by])
  BY NoneAssumption
<1>4. stream \in Seq(Nat) /\ amqp \in AmqpState
  BY <1>1 DEF Types
<1>5. CASE offer' = offer \/ \E who \in Flushers : offer' = Suspended(who)
  BY <1>1, <1>2, <1>5
<1>6. CASE Deliver \/ Redeliver
  <2>1. PICK v \in Nat, by \in Feeders, a \in AmqpState : Handle(v, by, a)
    BY <1>1, <1>6, DeliveryDoes
  <2>2. offer' = offer \/ offer' = [bettable |-> TRUE, version |-> v, by |-> by]
    BY <1>1, <2>1, HandleDoes
  <2> QED BY <1>1, <1>3, <2>2
<1>7. CASE ApplyStream
  <2>1. Head(stream) \in Nat /\ "backup" \in Feeders
    BY <1>4, <1>7, TailEnds DEF ApplyStream, Feeders
  <2>2. offer' = offer \/ offer' = [bettable |-> TRUE, version |-> Head(stream), by |-> "backup"]
    BY <1>7 DEF ApplyStream
  <2> QED BY <1>1, <1>3, <2>1, <2>2
<1>8. CASE FlushIn \/ FlushOut \/ WatchdogFlush \/ HookFlush
  <2>1. {"switch", "hook", "watchdog"} \subseteq Flushers
    BY DEF Flushers
  <2>2. [amqp EXCEPT !.conn = "ask"] \in AmqpState
    BY <1>4 DEF AmqpState
  <2>3. offer' = offer \/ \E who \in Flushers : offer' = Suspended(who)
    BY <1>4, <1>8, <2>1, <2>2, FlushDoes, RecoverFlushDoes
    DEF FlushIn, FlushOut, WatchdogFlush, HookFlush
  <2> QED BY <1>5, <2>3
<1> QED BY <1>5, <1>6, <1>7, <1>8, Writers

\* Odds on their way, and the odds offered.
LEMMA CarriedStep ==
  ASSUME FInv, Next
  PROVE  Carried'
BY QueueStep, StreamStep, OfferStep DEF Carried

\* bifrost-feed never knows of an acknowledgement before it is given.
LEMMA AcknowledgedStep ==
  ASSUME FInv, Next
  PROVE  Acknowledged'
<1>1. /\ control \in [source: Sources, flush: Nat, waited: BOOLEAN] /\ bif \in BifState
      /\ spent \in SpentState /\ Acknowledged
  BY DEF FInv, Types
<1>2. bif'.socket => bif'.snap # None
  BY StreamStep
<1>3. amqp \in AmqpState /\ [amqp EXCEPT !.conn = "ask"] \in AmqpState /\ Types
  BY DEF FInv, Types, AmqpState
<1>4. spent'.acks = spent.acks \/ AckFlush
  <2>1. Fault.acks = spent.acks /\ Owing.acks = spent.acks
    BY <1>1, FaultKeeps
  <2>2. CASE spent' = spent \/ spent' = Fault \/ spent' = Owing
    BY <2>1, <2>2
  <2>3. CASE Move \/ ApplyStream \/ \E src \in Sources : SwitchSource(src)
    BY <1>1, <2>1, <2>3 DEF Move, ApplyStream, SwitchSource, SpentState
  <2>4. CASE FlushIn \/ FlushOut \/ HookFlush \/ WatchdogStep
    BY <1>3, <2>2, <2>4, FlushDoes, RecoverFlushDoes
    DEF FlushIn, FlushOut, HookFlush, WatchdogStep, WatchdogCheck, WatchdogFlush, Flushers
  <2>5. CASE RecoverOut \/ HookRecover \/ Heartbeat
    BY <2>1, <2>5 DEF RecoverOut, HookRecover, Heartbeat, AskReplay
  <2>6. CASE Deliver \/ Redeliver
    BY <1>3, <2>2, <2>6, DeliveryDoes, HandleDoes
  <2>7. CASE ProcessFrame \/ WatchGate \/ Resync \/ SocketUp
    BY <2>2, <2>7, PublishDoes DEF ProcessFrame, WatchGate, Resync, SocketUp
  <2> QED
    BY <2>2, <2>3, <2>4, <2>5, <2>6, <2>7
    DEF Next, SwitchStep, ConsumerStep, BifrostStep, Replay, Disconnect, GoQuiet, Stall,
        FlushWaitOver, PollSource, ResumeOut, RestartIngester, Dial, HookBegin, Evaluate,
        SocketDown, RestartBifrost, PublishStatus, StatusGrowsOld
<1>5. CASE AckFlush
  <2>1. bif' = bif
    BY <1>5 DEF AckFlush
  <2>2. CASE control' = control /\ spent' = Owing
    <3>1. spent'.acks = spent.acks
      BY <1>1, <2>2, FaultKeeps
    <3> QED BY <1>1, <1>2, <2>1, <2>2, <3>1 DEF Acknowledged
  <2>3. CASE /\ spent' = [spent EXCEPT !.acks = @ + 1, !.owed = FALSE]
             /\ control' = IF control.source = "backup"
                           THEN [control EXCEPT !.flush = spent.acks + 1, !.waited = TRUE] ELSE control
    <3>1. spent'.acks = spent.acks + 1 /\ spent.acks \in Nat
      BY <1>1, <2>3 DEF SpentState
    <3>2. bif.flush \in Nat /\ bif.lastFlush \in Nat /\ control.flush \in Nat
      BY <1>1 DEF BifState
    <3>3. /\ control'.source = control.source
          /\ control'.flush = IF control.source = "backup" THEN spent.acks + 1 ELSE control.flush
      BY <1>1, <2>3
    <3> QED BY <1>1, <2>1, <3>1, <3>2, <3>3 DEF Acknowledged
  <2> QED BY <1>5, <2>2, <2>3 DEF AckFlush
<1>6. CASE ~ AckFlush
  <2>1. /\ control'.flush = control.flush \/ control'.flush = 0
        /\ control'.source # "backup" => control'.flush = 0
    <3>1. ASSUME NEW src \in Sources, SwitchSource(src)
          PROVE  control'.flush = 0
      BY <3>1 DEF SwitchSource
    <3>2. CASE control' = control \/ FlushWaitOver
      BY <1>1, <3>2 DEF FlushWaitOver, Acknowledged
    <3> QED BY <1>6, <3>1, <3>2, Writers
  <2>2. /\ bif'.flush \in {0, bif.flush, control.flush}
        /\ bif'.lastFlush \in {0, bif.flush, bif.lastFlush}
    <3>1. CASE bif' = bif
      BY <3>1
    <3>2. CASE Evaluate
      BY <1>1, <3>2 DEF Evaluate, BifState
    <3>3. CASE ProcessFrame \/ SocketUp \/ SocketDown
      BY <1>1, <3>3 DEF ProcessFrame, SocketUp, SocketDown, BifState
    <3>4. CASE WatchGate
      BY <1>1, <3>4 DEF WatchGate, BifState
    <3>5. CASE RestartBifrost
      BY <3>5 DEF RestartBifrost, NewBif
    <3> QED BY <3>1, <3>2, <3>3, <3>4, <3>5, Writers
  <2>3. spent.acks \in Nat /\ spent'.acks = spent.acks
    BY <1>1, <1>4, <1>6 DEF SpentState
  <2> QED BY <1>1, <1>2, <2>1, <2>2, <2>3 DEF Acknowledged
<1> QED BY <1>5, <1>6

\* Who writes the history of lost replays, and that nobody but a delivery or a
\* flush forgets that AMQP came back without one.
LEMMA LostWriters ==
  ASSUME FInv, Next
  PROVE  \/ FlushIn \/ FlushOut \/ HookBegin \/ HookFlush \/ Deliver \/ Redeliver \/ WatchdogFlush
         \/ (lost' = "skip" <=> lost = "skip")
<1>1. amqp \in AmqpState /\ Types
  BY DEF FInv, Types
<1>2. Darker = "skip" <=> lost = "skip"
  BY DEF Darker
<1>3. Brighter = "skip" <=> lost = "skip"
  BY DEF Brighter
<1>4. CASE lost' = lost \/ lost' = Darker
  BY <1>2, <1>4
<1>5. CASE Replay \/ Stall
  BY <1>4, <1>5 DEF Replay, Stall
<1>6. CASE RecoverOut \/ HookRecover \/ Heartbeat
  BY <1>2, <1>3, <1>6 DEF RecoverOut, HookRecover, Heartbeat, AskReplay
<1> QED
  BY <1>4, <1>5, <1>6
  DEF Next, SwitchStep, ConsumerStep, WatchdogStep, BifrostStep, Move, Disconnect, GoQuiet,
      SwitchSource, FlushWaitOver, PollSource, AckFlush, ResumeOut, RestartIngester, Dial,
      WatchdogCheck, ApplyStream, Evaluate, ProcessFrame, WatchGate, Resync, SocketDown, SocketUp,
      RestartBifrost, PublishStatus, StatusGrowsOld

\* A flush, whoever makes it, leaves no price of AMQP, or fails.
LEMMA FlushedOffer ==
  ASSUME FInv, NEW who \in Flushers
  PROVE  ~ Suspended(who).bettable /\ Suspended(who).by # "amqp"
<1>1. offer \in OfferState /\ (offer.by \in Feeders => offer.bettable)
  BY DEF FInv, Types, Carried
<1>2. ~ Suspended(who).bettable /\ Suspended(who).by \in Flushers
  BY <1>1, SuspendedIs
<1> QED BY <1>2 DEF Flushers

\* A price of AMQP that gets past both flushes is one of the exceptions.
LEMMA SurvivorStep ==
  ASSUME FInv, Next
  PROVE  Survivor'
<1>1. Survivor /\ Modes /\ ing \in IngState /\ amqp \in AmqpState /\ Types
  BY DEF FInv, Types
<1>2. SUFFICES ASSUME ing'.pc \in {"recoverOut", "resumeOut"}, offer'.by = "amqp"
               PROVE  lost' = "skip"
  BY DEF Survivor
<1>3. CASE FlushOut
  <2>1. offer'.bettable
    BY <1>2, OfferStep DEF Feeders
  <2> QED BY <1>2, <1>3, <2>1 DEF FlushOut
<1>4. CASE FlushIn \/ PollSource \/ AckFlush \/ ResumeOut \/ RestartIngester
  <2>1. ing'.pc \in {"poll", "flushIn", "ack", "flushOut"}
    <3>1. CASE FlushIn \/ AckFlush \/ ResumeOut
      BY <1>1, <3>1 DEF FlushIn, AckFlush, ResumeOut, Resumed, IngState
    <3>2. CASE PollSource
      BY <1>1, <3>2 DEF PollSource, IngState
    <3>3. CASE RestartIngester
      BY <3>3 DEF RestartIngester, Booted
    <3> QED BY <1>4, <3>1, <3>2, <3>3
  <2> QED BY <1>2, <2>1
<1>5. ASSUME ing'.pc = ing.pc \/ RecoverOut
      PROVE  ing.pc \in {"recoverOut", "resumeOut"} /\ ing.drop
  BY <1>1, <1>2, <1>5 DEF RecoverOut, Modes
<1>6. CASE HookBegin
  <2>1. ing'.pc = ing.pc /\ offer' = offer
    BY <1>1, <1>6 DEF HookBegin, IngState
  <2>2. offer.bettable
    BY <1>2, <2>1 DEF FInv, Carried, Feeders
  <2>3. lost = "skip"
    BY <1>1, <1>2, <2>1 DEF Survivor
  <2> QED BY <1>6, <2>2, <2>3 DEF HookBegin
<1>7. CASE Deliver \/ Redeliver
  <2>1. PICK v \in Nat, by \in Feeders, a \in AmqpState : Handle(v, by, a)
    BY <1>1, <1>7, DeliveryDoes
  <2>2. ing' = ing
    BY <1>1, <2>1, HandleDoes
  <2>3. ing.drop /\ ing.pc \in {"recoverOut", "resumeOut"}
    BY <1>5, <2>2
  <2>4. offer' = offer /\ lost' = Darker
    BY <1>1, <2>1, <2>3, HandleDoes
  <2> QED BY <1>1, <1>2, <2>3, <2>4 DEF Survivor, Darker
<1>8. CASE WatchdogStep
  <2>1. ing'.pc = ing.pc
    BY <1>1, <1>8 DEF WatchdogStep, WatchdogCheck, WatchdogFlush, IngState
  <2>2. offer' = offer /\ lost' = lost
    <3>1. CASE WatchdogCheck
      BY <3>1 DEF WatchdogCheck
    <3>2. CASE WatchdogFlush
      <4>1. offer' = offer \/ offer' = Suspended("watchdog")
        BY <3>2, FlushDoes DEF WatchdogFlush
      <4>2. "watchdog" \in Flushers
        BY DEF Flushers
      <4>3. offer' = offer
        BY <1>2, <4>1, <4>2, FlushedOffer
      <4> QED BY <3>2, <4>3 DEF WatchdogFlush
    <3> QED BY <1>8, <3>1, <3>2 DEF WatchdogStep
  <2> QED BY <1>1, <1>2, <2>1, <2>2 DEF Survivor
<1>9. CASE ApplyStream
  <2>1. ing' = ing /\ lost' = lost /\ offer' = offer
    BY <1>2, <1>9 DEF ApplyStream
  <2> QED BY <1>1, <1>2, <2>1 DEF Survivor
<1>10. CASE HookFlush
  <2>1. ing' = ing /\ [amqp EXCEPT !.conn = "ask"] \in AmqpState /\ "hook" \in Flushers
    BY <1>1, <1>10 DEF HookFlush, AmqpState, Flushers
  <2>2. offer' = offer /\ spent' = Fault
    BY <1>2, <1>10, <2>1, RecoverFlushDoes, FlushedOffer DEF HookFlush
  <2>3. offer.bettable /\ ing.drop /\ spent' # spent
    <3>1. Fault # spent
      BY <1>1, FaultKeeps DEF Types
    <3> QED BY <1>2, <1>5, <2>1, <2>2, <3>1 DEF FInv, Carried, Feeders
  <2>4. lost' = lost
    BY <1>10, <2>2, <2>3 DEF HookFlush
  <2> QED BY <1>1, <1>2, <2>1, <2>2, <2>4 DEF Survivor
<1>11. CASE RecoverOut \/ ing' = ing
  <2>1. CASE offer' = offer /\ (lost' = "skip" <=> lost = "skip")
    BY <1>1, <1>2, <1>5, <1>11, <2>1 DEF Survivor
  <2> QED BY <1>3, <1>4, <1>6, <1>7, <1>8, <1>9, <1>10, <2>1, LostWriters, Writers DEF WatchdogStep
<1> QED BY <1>3, <1>4, <1>6, <1>8, <1>11, Writers

\* A price of AMQP that deliveries may follow is the newest, or is followed.
LEMMA FreshStep ==
  ASSUME FInv, Next
  PROVE  Fresh'
<1>1. /\ Fresh /\ Survivor /\ Modes /\ Types /\ amqp \in AmqpState /\ ing \in IngState /\ truth \in Nat
      /\ amqp.queue \in Seq(Nat)
  BY BoundsAssumption DEF FInv, Types, SpentState, AmqpState
<1>2. SUFFICES ASSUME amqp'.conn \in {"ask", "up"}, ~ ing'.drop, offer'.by = "amqp", lost' # "skip",
                      amqp'.queue = <<>>, truth' \notin amqp'.again
               PROVE  offer'.version = truth'
  BY DEF Fresh
<1>3. CASE Move \/ Replay
  <2>1. Append(amqp.queue, truth) # <<>> /\ Append(amqp.queue, truth + 1) # <<>>
    BY <1>1, AppendEnds
  <2>2. Bound
    BY <1>1, <1>2, <1>3 DEF Move, Replay, Bound, AmqpState
  <2> QED BY <1>1, <1>2, <1>3, <2>1, <2>2 DEF Move, Replay, AmqpState
<1>4. CASE Disconnect \/ RestartIngester
  BY <1>1, <1>2, <1>4 DEF Disconnect, RestartIngester, AmqpState
<1>5. CASE Deliver
  <2>1. Deliver \/ Redeliver
    BY <1>5
  <2>2. PICK v \in Nat, by \in Feeders, a \in AmqpState :
          /\ Handle(v, by, a) /\ a.conn = amqp.conn
          /\ \/ /\ Deliver /\ amqp.queue # <<>> /\ v = Head(amqp.queue) /\ by = "amqp"
                /\ a.queue = Tail(amqp.queue) /\ a.again = amqp.again
             \/ /\ Redeliver /\ v \in amqp.again /\ by = "redelivery"
                /\ a.queue = amqp.queue /\ a.again = amqp.again \ {v}
    BY <1>1, <2>1, DeliveryDoes
  <2>3. /\ ing' = ing /\ truth' = truth /\ ~ ing.drop /\ amqp'.queue = a.queue
        /\ amqp.conn = "up"
    BY <1>1, <1>2, <2>2, HandleDoes
  <2>4. CASE /\ amqp.queue # <<>> /\ v = Head(amqp.queue) /\ a.queue = Tail(amqp.queue)
             /\ a.again = amqp.again
    <3>1. v = truth
      <4>1. amqp.queue[Len(amqp.queue)] = truth
        BY <2>4 DEF FInv, Carried
      <4>2. Len(amqp.queue) = 1 /\ Head(amqp.queue) = amqp.queue[1]
        BY <1>1, <1>2, <2>3, <2>4, TailEnds
      <4> QED BY <2>4, <4>1, <4>2
    <3>2. \/ offer' = [bettable |-> TRUE, version |-> v, by |-> by]
          \/ amqp'.again = a.again \cup {v}
      BY <1>1, <2>2, <2>3, HandleDoes
    <3> QED BY <1>2, <2>3, <3>1, <3>2
  <2>5. CASE v \in amqp.again /\ by = "redelivery" /\ a.queue = amqp.queue /\ a.again = amqp.again \ {v}
    <3>1. CASE offer' = [bettable |-> TRUE, version |-> v, by |-> by]
      BY <1>2, <2>5, <3>1
    <3>2. CASE offer' = offer /\ lost' = lost /\ amqp'.again = a.again \cup {v}
      BY <1>1, <1>2, <2>3, <2>5, <3>2 DEF Fresh
    <3> QED BY <1>1, <2>2, <2>3, <3>1, <3>2, HandleDoes
  <2> QED BY <2>2, <2>4, <2>5
<1>6. CASE HookBegin
  <2>1. /\ ing'.drop = ing.drop /\ offer' = offer
        /\ amqp'.conn = "up" => ing.done \/ ing.isBackup
    BY <1>1, <1>6 DEF HookBegin, IngState, AmqpState
  <2>2. ing.done /\ offer.bettable
    <3>1. amqp'.conn # "ask" /\ ~ ing.isBackup
      BY <1>1, <1>2, <1>6, <2>1 DEF HookBegin, AmqpState, Modes
    <3> QED BY <1>2, <2>1, <3>1 DEF FInv, Carried, Feeders
  <2> QED BY <1>2, <1>6, <2>2 DEF HookBegin
<1>7. CASE ApplyStream
  <2>1. ing' = ing /\ lost' = lost /\ truth' = truth /\ offer' = offer /\ amqp' = amqp
    BY <1>2, <1>7 DEF ApplyStream
  <2> QED BY <1>1, <1>2, <2>1 DEF Fresh
<1>8. CASE ResumeOut
  <2>1. ing.pc = "resumeOut" /\ offer' = offer /\ lost' = lost
    BY <1>8 DEF ResumeOut
  <2> QED BY <1>1, <1>2, <2>1 DEF Survivor
<1>9. CASE FlushIn \/ FlushOut
  <2>1. ing.drop /\ ing'.drop = ing.drop
    BY <1>1, <1>9 DEF FlushIn, FlushOut, Modes, IngState
  <2> QED BY <1>2, <2>1
<1>10. CASE Redeliver
  <2>1. PICK v \in amqp.again : Handle(v, "redelivery", [amqp EXCEPT !.again = @ \ {v}])
    BY <1>10 DEF Redeliver
  <2>2. PICK w \in Nat, by \in Feeders, a \in AmqpState :
          /\ Handle(w, by, a) /\ a.conn = amqp.conn
          /\ \/ Deliver
             \/ /\ w \in amqp.again /\ by = "redelivery"
                /\ a.queue = amqp.queue /\ a.again = amqp.again \ {w}
    BY <1>1, <1>10, DeliveryDoes
  <2>3. CASE /\ w \in amqp.again /\ by = "redelivery"
             /\ a.queue = amqp.queue /\ a.again = amqp.again \ {w}
    <3>1. /\ ing' = ing /\ truth' = truth /\ ~ ing.drop /\ amqp'.queue = a.queue
          /\ amqp.conn = "up"
      BY <1>1, <1>2, <2>2, HandleDoes
    <3>2. CASE offer' = [bettable |-> TRUE, version |-> w, by |-> by]
      BY <1>2, <2>3, <3>2
    <3>3. CASE offer' = offer /\ lost' = lost /\ amqp'.again = a.again \cup {w}
      BY <1>1, <1>2, <2>3, <3>1, <3>3 DEF Fresh
    <3> QED BY <1>1, <2>2, <3>1, <3>2, <3>3, HandleDoes
  <2> QED BY <1>5, <2>2, <2>3
<1>11. CASE HookFlush
  <2>1. ing' = ing /\ [amqp EXCEPT !.conn = "ask"] \in AmqpState /\ "hook" \in Flushers
    BY <1>1, <1>11 DEF HookFlush, AmqpState, Flushers
  <2>2. offer' = offer /\ spent' = Fault
    BY <1>2, <1>11, <2>1, RecoverFlushDoes, FlushedOffer DEF HookFlush
  <2>3. offer.bettable /\ ~ ing.drop /\ spent' # spent
    <3>1. Fault # spent
      BY <1>1, FaultKeeps DEF Types
    <3> QED BY <1>2, <2>1, <2>2, <3>1 DEF FInv, Carried, Feeders
  <2> QED BY <1>2, <1>11, <2>2, <2>3 DEF HookFlush
<1>12. ASSUME ~ Move, ~ Replay, ~ Disconnect, ~ RestartIngester, ~ Deliver, ~ Redeliver,
              ~ HookBegin, ~ HookFlush, ~ ApplyStream, ~ ResumeOut, ~ FlushIn, ~ FlushOut
       PROVE  offer'.version = truth'
  <2>1. amqp'.queue = amqp.queue /\ amqp'.again = amqp.again /\ truth' = truth
    BY <1>12, QueueWriters
  <2>2. offer' = offer /\ lost # "skip"
    <3>1. CASE WatchdogFlush
      <4>1. offer' = offer \/ offer' = Suspended("watchdog")
        BY <3>1, FlushDoes DEF WatchdogFlush
      <4>2. "watchdog" \in Flushers
        BY DEF Flushers
      <4>3. offer' = offer
        BY <1>2, <4>1, <4>2, FlushedOffer
      <4> QED BY <1>2, <3>1, <4>3 DEF WatchdogFlush
    <3> QED BY <1>2, <1>12, <3>1, Writers, LostWriters
  <2>3. ~ ing.drop
    <3>1. CASE PollSource
      BY <1>1, <1>2, <3>1 DEF PollSource, IngState
    <3>2. CASE AckFlush \/ RecoverOut \/ WatchdogStep \/ ing' = ing
      BY <1>1, <1>2, <3>2 DEF AckFlush, RecoverOut, WatchdogStep, WatchdogCheck, WatchdogFlush, IngState
    <3> QED BY <1>12, <3>1, <3>2, Writers
  <2>4. amqp.conn \in {"ask", "up"}
    <3>1. CASE amqp' = amqp
      BY <1>2, <3>1
    <3>2. CASE GoQuiet \/ Stall \/ Dial
      BY <1>1, <1>2, <3>2 DEF GoQuiet, Stall, Dial, AmqpState
    <3>3. CASE RecoverOut
      BY <1>1, <1>2, <3>3, AskReplayDoes DEF RecoverOut
    <3>4. CASE HookRecover \/ Heartbeat
      BY <3>4 DEF HookRecover, Heartbeat
    <3> QED
      BY <1>12, <3>1, <3>2, <3>3, <3>4
      DEF Next, SwitchStep, ConsumerStep, WatchdogStep, BifrostStep, SwitchSource, FlushWaitOver,
          PollSource, AckFlush, WatchdogCheck, WatchdogFlush, Evaluate, ProcessFrame, WatchGate,
          Resync, SocketDown, SocketUp, RestartBifrost, PublishStatus, StatusGrowsOld
  <2> QED BY <1>1, <1>2, <2>1, <2>2, <2>3, <2>4 DEF Fresh
<1> QED BY <1>3, <1>4, <1>5, <1>6, <1>7, <1>8, <1>9, <1>10, <1>11, <1>12

\* An answer to an acknowledgement is in the stream until it is in the offer.
LEMMA RefilledStep ==
  ASSUME FInv, Next
  PROVE  Refilled'
<1> DEFINE Answered == offer.bettable \/ offer.by \in {"watchdog", "hook"}
<1>1. /\ Refilled /\ Modes /\ Acknowledged /\ Types /\ amqp \in AmqpState /\ ing \in IngState
      /\ bif \in BifState /\ offer \in OfferState /\ (offer.by \in Feeders => offer.bettable)
      /\ control \in [source: Sources, flush: Nat, waited: BOOLEAN] /\ spent \in SpentState
      /\ stream \in Seq(Nat)
  BY DEF FInv, Types, Carried
<1>2. SUFFICES ASSUME ing'.pc = "poll", ing'.isBackup, control'.flush # 0, ~ spent'.owed,
                      control'.flush <= bif'.lastFlush, bif'.active, ~ bif'.pending, bif'.socket,
                      stream' = <<>>
               PROVE  Answered'
  BY DEF Refilled
<1>3. \A b \in {bif, bif'} : b.active /\ b.snap # None => Emit(b) # <<>>
  <2>1. bif' \in BifState
    BY TypesStep DEF Types
  <2>2. ASSUME NEW b \in {bif, bif'}, b.active, b.snap # None PROVE Emit(b) # <<>>
    <3>1. b.snap \in Nat
      BY <1>1, <2>1, <2>2 DEF BifState
    <3> QED BY <1>1, <2>2, <3>1, AppendEnds DEF Emit
  <2> QED BY <2>2
<1>4. bif'.snap # None
  BY <1>2, StreamStep
<1>5. CASE ApplyStream
  <2>1. ~ Owing.owed => FALSE
    BY <1>1, FaultKeeps
  <2> QED BY <1>2, <1>5, <2>1 DEF ApplyStream
<1>6. ASSUME NEW b \in {bif, bif'}, Publish(b), b.active, b.snap # None
      PROVE  FALSE
  <2>1. stream' = Emit(b) \/ spent' = Owing
    BY <1>6, PublishDoes
  <2> QED BY <1>1, <1>2, <1>3, <1>6, <2>1, FaultKeeps
<1>7. CASE ProcessFrame \/ SocketUp
  BY <1>2, <1>4, <1>6, <1>7 DEF ProcessFrame, SocketUp
<1>8. CASE WatchGate \/ Resync
  <2>1. bif.active /\ bif.snap # None
    BY <1>1, <1>2, <1>4, <1>8 DEF WatchGate, Resync, BifState
  <2> QED BY <1>6, <1>8, <2>1 DEF WatchGate, Resync
<1>9. CASE SocketDown \/ RestartBifrost
  <2>1. ~ bif'.socket
    <3>1. CASE SocketDown
      BY <1>1, <3>1 DEF SocketDown, BifState
    <3>2. CASE RestartBifrost
      BY <3>2 DEF RestartBifrost, NewBif
    <3> QED BY <1>9, <3>1, <3>2
  <2> QED BY <1>2, <2>1
<1>10. CASE AckFlush
  <2>1. bif' = bif /\ ing.isBackup
    BY <1>1, <1>2, <1>10 DEF AckFlush, IngState
  <2>2. CASE spent' = Owing
    BY <1>1, <1>2, <2>2, FaultKeeps
  <2>3. CASE control' = IF control.source = "backup"
                        THEN [control EXCEPT !.flush = spent.acks + 1, !.waited = TRUE] ELSE control
    <3>1. CASE control.source = "backup"
      <4>1. control'.flush = spent.acks + 1
        BY <1>1, <2>3, <3>1
      <4>2. bif.lastFlush <= spent.acks /\ bif.lastFlush \in Nat /\ spent.acks \in Nat
        BY <1>1 DEF Acknowledged, BifState, SpentState
      <4> QED BY <1>2, <2>1, <4>1, <4>2
    <3>2. CASE control.source # "backup"
      BY <1>1, <1>2, <2>3, <3>2 DEF Acknowledged
    <3> QED BY <3>1, <3>2
  <2> QED BY <1>10, <2>2, <2>3 DEF AckFlush
<1>11. CASE \E src \in Sources : SwitchSource(src)
  <2>1. control'.flush = 0
    BY <1>11 DEF SwitchSource
  <2> QED BY <1>2, <2>1
<1>12. CASE PollSource
  <2>1. ing'.pc # "poll" \/ (ing'.isBackup = ing.isBackup /\ ~ ing.isBackup)
    <3>1. CASE control.source = "backup"
      BY <1>1, <1>12, <3>1 DEF PollSource, IngState
    <3>2. CASE control.source # "backup" /\ ing.prev = "backup"
      BY <1>1, <1>12, <3>2 DEF PollSource, IngState
    <3>3. CASE control.source # "backup" /\ ing.prev # "backup"
      BY <1>1, <1>12, <3>3 DEF PollSource, IngState, Modes
    <3> QED BY <3>1, <3>2, <3>3
  <2> QED BY <1>2, <2>1
<1>13. CASE FlushIn \/ FlushOut \/ RecoverOut
  BY <1>1, <1>2, <1>13 DEF FlushIn, FlushOut, RecoverOut, IngState
<1>14. CASE ResumeOut
  BY <1>1, <1>2, <1>14 DEF ResumeOut, Resumed, IngState, Modes
<1>15. CASE RestartIngester
  <2>1. PICK src \in Adopted : ing' = Booted(src)
    BY <1>15 DEF RestartIngester
  <2>2. (ing'.isBackup <=> src = "backup") /\ (src = "backup" => ing'.pc = "flushIn")
    BY <2>1 DEF Booted
  <2> QED BY <1>2, <2>2
<1>16. CASE HookBegin \/ WatchdogCheck
  <2>1. /\ ing'.pc = ing.pc /\ ing'.isBackup = ing.isBackup /\ control' = control /\ bif' = bif
        /\ stream' = stream /\ offer' = offer /\ (spent' = spent \/ spent' = Fault)
    BY <1>1, <1>16 DEF HookBegin, WatchdogCheck, IngState
  <2>2. spent'.owed = spent.owed
    BY <1>1, <2>1, FaultKeeps
  <2> QED BY <1>1, <1>2, <2>1, <2>2 DEF Refilled
<1>17. CASE WatchdogFlush \/ HookFlush
  <2>1. /\ ing'.pc = ing.pc /\ ing'.isBackup = ing.isBackup /\ control' = control /\ bif' = bif
        /\ stream' = stream
    BY <1>1, <1>17 DEF WatchdogFlush, HookFlush, IngState
  <2>2. [amqp EXCEPT !.conn = "ask"] \in AmqpState /\ {"watchdog", "hook"} \subseteq Flushers
    BY <1>1 DEF AmqpState, Flushers
  <2>3. /\ spent' = spent \/ spent' = Fault
        /\ offer' = offer \/ \E who \in {"watchdog", "hook"} : offer' = Suspended(who)
    BY <1>17, <2>2, FlushDoes, RecoverFlushDoes DEF WatchdogFlush, HookFlush
  <2>4. CASE offer' = offer
    <3>1. spent'.owed = spent.owed
      BY <1>1, <2>3, FaultKeeps
    <3> QED BY <1>1, <1>2, <2>1, <2>4, <3>1 DEF Refilled
  <2>5. ASSUME NEW who \in {"watchdog", "hook"}, offer' = Suspended(who), offer' # offer
        PROVE  Answered'
    <3>1. Suspended(who).by = who
      BY <1>1, <2>2, <2>5, SuspendedIs
    <3> QED BY <2>5, <3>1
  <2> QED BY <2>3, <2>4, <2>5
<1>18. CASE Evaluate
  <2>1. /\ bif'.lastFlush = bif.lastFlush /\ bif'.socket = bif.socket
        /\ bif.active /\ ~ bif.pending
    <3>1. PICK want \in GateWants :
            bif' = [bif EXCEPT !.flush = control.flush, !.active = want,
                               !.pending = @ \/ want # bif.active]
      BY <1>18 DEF Evaluate
    <3> QED BY <1>1, <1>2, <3>1 DEF BifState
  <2>2. /\ ing' = ing /\ control' = control /\ stream' = stream /\ spent' = spent
        /\ offer' = offer
    BY <1>18 DEF Evaluate
  <2> QED BY <1>1, <1>2, <2>1, <2>2 DEF Refilled
<1>19. CASE Deliver \/ Redeliver
  <2>1. PICK v \in Nat, by \in Feeders, a \in AmqpState : Handle(v, by, a)
    BY <1>1, <1>19, DeliveryDoes
  <2>2. ing' = ing /\ control' = control /\ bif' = bif /\ stream' = stream
    BY <1>1, <2>1, HandleDoes
  <2>3. offer' = offer /\ spent' = spent
    BY <1>1, <1>2, <2>1, <2>2, HandleDoes DEF Modes
  <2> QED BY <1>1, <1>2, <2>2, <2>3 DEF Refilled
<1>20. ASSUME /\ ing' = ing /\ bif' = bif /\ stream' = stream /\ offer' = offer
              /\ control'.flush = control.flush /\ spent'.owed = spent.owed
       PROVE  Answered'
  BY <1>1, <1>2, <1>20 DEF Refilled
<1>21. CASE FlushWaitOver
  BY <1>1, <1>20, <1>21 DEF FlushWaitOver
<1>22. CASE \/ Move \/ Replay \/ Disconnect \/ GoQuiet \/ Stall \/ Dial \/ HookRecover \/ Heartbeat
           \/ PublishStatus \/ StatusGrowsOld
  <2>1. /\ ing' = ing /\ bif' = bif /\ stream' = stream /\ offer' = offer /\ control' = control
    BY <1>22 DEF Move, Replay, Disconnect, GoQuiet, Stall, Dial, HookRecover, Heartbeat,
                 PublishStatus, StatusGrowsOld
  <2>2. spent' = [spent EXCEPT !.moves = @ + 1] \/ spent' = spent \/ spent' = Fault
    BY <1>22 DEF Move, Replay, Disconnect, GoQuiet, Stall, Dial, HookRecover, Heartbeat, AskReplay,
                 PublishStatus, StatusGrowsOld
  <2>3. spent'.owed = spent.owed
    BY <1>1, <2>2, FaultKeeps DEF SpentState
  <2> QED BY <1>20, <2>1, <2>3
<1> QED
  BY <1>5, <1>7, <1>8, <1>9, <1>10, <1>11, <1>12, <1>13, <1>14, <1>15, <1>16, <1>17, <1>18,
     <1>19, <1>21, <1>22 DEF Next, SwitchStep, ConsumerStep, WatchdogStep, BifrostStep

-----------------------------------------------------------------------------
(* What AMQP owes the offer *)

\* AmqpFillsOffer, also while a switch back is under way: once its flush is over
\* a dark offer waits for something.
Awaited ==
  /\ amqp.conn = "up" /\ ~ ing.isBackup /\ ing.pc # "flushOut" /\ lost = "no"
  => offer.bettable \/ amqp.replay \/ amqp.queue # <<>> \/ amqp.again # {}

\* A request that leaves nothing lost has a replay on its way.
LEMMA RequestIsAnswered ==
  ASSUME NEW a \in AmqpState, NEW due \in BOOLEAN, AskReplay(a, due), ~ ing.isBackup, lost' = "no"
  PROVE  amqp'.replay
<1>1. Darker # "no"
  BY DEF Darker
<1>2. amqp' = [[a EXCEPT !.rewound = @ /\ due] EXCEPT !.replay = TRUE]
  BY <1>1 DEF AskReplay
<1> QED BY <1>2 DEF AmqpState

\* Whatever darkens the offer, or ends what it waits for, says so in lost.
LEMMA AwaitedStep ==
  ASSUME FInv, Awaited, Next
  PROVE  Awaited'
<1>1. /\ Types /\ Modes /\ amqp \in AmqpState /\ ing \in IngState /\ truth \in Nat
      /\ amqp.queue \in Seq(Nat) /\ offer \in OfferState
  BY BoundsAssumption DEF FInv, Types, SpentState, AmqpState
<1>2. SUFFICES ASSUME amqp'.conn = "up", ~ ing'.isBackup, ing'.pc # "flushOut", lost' = "no",
                      ~ offer'.bettable, ~ amqp'.replay, amqp'.queue = <<>>, amqp'.again = {}
               PROVE  FALSE
  BY DEF Awaited
<1>3. ASSUME amqp.conn = "up", ~ ing.isBackup, ing.pc # "flushOut", lost = "no", ~ offer.bettable,
             ~ amqp.replay, amqp.queue = <<>>, amqp.again = {}
      PROVE  FALSE
  BY <1>3 DEF Awaited
<1>4. ~ ing.isBackup => Darker # "no"
  BY DEF Darker
<1>5. CASE Move \/ Replay
  <2>1. Append(amqp.queue, truth) # <<>> /\ Append(amqp.queue, truth + 1) # <<>>
    BY <1>1, AppendEnds
  <2>2. Bound
    BY <1>1, <1>2, <1>5 DEF Move, Replay, Bound, AmqpState
  <2> QED BY <1>1, <1>2, <1>5, <2>1, <2>2 DEF Move, Replay, AmqpState
<1>6. CASE Disconnect \/ RestartIngester \/ Dial
  BY <1>1, <1>2, <1>6 DEF Disconnect, RestartIngester, Dial, AmqpState
<1>7. CASE GoQuiet \/ Stall
  <2>1. /\ amqp'.conn = amqp.conn /\ amqp'.queue = amqp.queue /\ amqp'.again = amqp.again
        /\ amqp'.replay = amqp.replay /\ ing' = ing /\ offer' = offer
        /\ lost' = lost \/ lost' = Darker
    BY <1>1, <1>7 DEF GoQuiet, Stall, AmqpState
  <2> QED BY <1>2, <1>3, <1>4, <2>1
<1>8. CASE PollSource
  <2>1. ing.pc = "poll" /\ amqp' = amqp /\ offer' = offer /\ lost' = lost
    BY <1>8 DEF PollSource
  <2>2. ~ ing.isBackup
    BY <1>1, <1>2, <1>8 DEF PollSource, Modes, IngState
  <2> QED BY <1>2, <1>3, <2>1, <2>2
<1>9. CASE FlushIn \/ AckFlush
  <2>1. ing.isBackup /\ ing'.isBackup = ing.isBackup
    BY <1>1, <1>9 DEF FlushIn, AckFlush, Modes, IngState
  <2> QED BY <1>2, <2>1
<1>10. CASE FlushOut
  BY <1>2, <1>10 DEF FlushOut
<1>11. CASE RecoverOut
  <2>1. ~ ing.isBackup
    BY <1>1, <1>11 DEF RecoverOut, Modes
  <2> QED BY <1>1, <1>2, <1>11, <2>1, RequestIsAnswered DEF RecoverOut
<1>12. CASE ResumeOut
  <2>1. /\ ing.pc = "resumeOut" /\ amqp' = amqp /\ offer' = offer /\ lost' = lost
        /\ ing'.isBackup = ing.isBackup
    BY <1>1, <1>12 DEF ResumeOut, Resumed, IngState
  <2> QED BY <1>2, <1>3, <2>1
<1>13. CASE HookBegin
  <2>1. offer' = offer /\ amqp'.replay = amqp.replay /\ amqp'.queue = amqp.queue
    BY <1>1, <1>13 DEF HookBegin, AmqpState
  <2>2. ~ ing.isBackup
    BY <1>1, <1>2, <1>13 DEF HookBegin, IngState
  <2>3. ing.done
    BY <1>1, <1>2, <1>13, <2>2 DEF HookBegin, AmqpState
  <2> QED BY <1>2, <1>13, <2>1, <2>3 DEF HookBegin
<1>14. CASE HookFlush
  <2>1. /\ [amqp EXCEPT !.conn = "ask"] \in AmqpState /\ "hook" \in Flushers
        /\ [amqp EXCEPT !.conn = "ask"].conn = "ask"
    BY <1>1 DEF AmqpState, Flushers
  <2> QED BY <1>2, <1>14, <2>1, RecoverFlushDoes DEF HookFlush
<1>15. CASE HookRecover
  <2>1. [amqp EXCEPT !.conn = "up"] \in AmqpState /\ ~ ing.isBackup
    BY <1>1, <1>2, <1>15 DEF HookRecover, AmqpState
  <2> QED BY <1>2, <1>15, <2>1, RequestIsAnswered DEF HookRecover
<1>16. CASE Deliver \/ Redeliver
  <2>1. PICK v \in Nat, by \in Feeders, a \in AmqpState : Handle(v, by, a)
    BY <1>1, <1>16, DeliveryDoes
  <2>2. ing' = ing
    BY <1>1, <2>1, HandleDoes
  <2>3. ~ (ing.drop /\ ing.pc = "poll")
    BY <1>1, <1>2, <2>2 DEF Modes
  <2>4. ~ ing.isBackup
    BY <1>2, <2>2
  <2>5. \/ /\ ing.drop /\ offer' = offer
           /\ (lost' = lost /\ ing.pc = "poll") \/ lost' = Darker
        \/ offer' = [bettable |-> TRUE, version |-> v, by |-> by]
        \/ amqp'.again = a.again \cup {v}
    BY <1>1, <2>1, HandleDoes
  <2>6. a.again \cup {v} # {} /\ [bettable |-> TRUE, version |-> v, by |-> by].bettable
    OBVIOUS
  <2> QED BY <1>2, <1>4, <2>3, <2>4, <2>5, <2>6
<1>17. CASE Heartbeat
  <2>1. CASE AskReplay([amqp EXCEPT !.beat = "ok", !.rewound = FALSE], FALSE)
    <3>1. [amqp EXCEPT !.beat = "ok", !.rewound = FALSE] \in AmqpState /\ ~ ing.isBackup
      BY <1>1, <1>2, <1>17 DEF Heartbeat, AmqpState
    <3> QED BY <1>2, <2>1, <3>1, RequestIsAnswered
  <2>2. CASE (amqp' = amqp \/ amqp' = [amqp EXCEPT !.beat = "ok"]) /\ lost' = lost
    <3>1. /\ amqp'.conn = amqp.conn /\ amqp'.queue = amqp.queue /\ amqp'.again = amqp.again
          /\ amqp'.replay = amqp.replay /\ ing' = ing /\ offer' = offer
      BY <1>1, <1>17, <2>2 DEF Heartbeat, AmqpState
    <3> QED BY <1>2, <1>3, <2>2, <3>1
  <2> QED BY <1>17, <2>1, <2>2 DEF Heartbeat
<1>18. CASE WatchdogStep
  <2>1. ing'.isBackup = ing.isBackup /\ ing'.pc = ing.pc /\ amqp' = amqp
    BY <1>1, <1>18 DEF WatchdogStep, WatchdogCheck, WatchdogFlush, IngState
  <2>2. offer' = offer /\ lost' = lost
    BY <1>2, <1>18, <2>1 DEF WatchdogStep, WatchdogCheck, WatchdogFlush
  <2> QED BY <1>2, <1>3, <2>1, <2>2
<1>19. CASE ApplyStream
  <2>1. /\ amqp'.conn = amqp.conn /\ amqp'.queue = amqp.queue /\ amqp'.again = amqp.again
        /\ amqp'.replay = amqp.replay /\ ing' = ing /\ lost' = lost
    BY <1>1, <1>19 DEF ApplyStream, AmqpState
  <2>2. offer' = offer
    BY <1>2, <1>19 DEF ApplyStream
  <2> QED BY <1>2, <1>3, <2>1, <2>2
<1>20. CASE amqp' = amqp /\ ing' = ing /\ offer' = offer /\ lost' = lost
  BY <1>2, <1>3, <1>20
<1> QED
  BY <1>5, <1>6, <1>7, <1>8, <1>9, <1>10, <1>11, <1>12, <1>13, <1>14, <1>15, <1>16, <1>17, <1>18,
     <1>19, <1>20
  DEF Next, SwitchStep, ConsumerStep, BifrostStep, SwitchSource, FlushWaitOver, Evaluate,
      ProcessFrame, WatchGate, Resync, SocketDown, SocketUp, RestartBifrost, PublishStatus,
      StatusGrowsOld

-----------------------------------------------------------------------------
(* The theorems *)

\* The invariant that carries the others holds in every state, whatever the
\* order of deliveries, polls, restarts and switches.
THEOREM FeedInductive == Spec => []FInv
<1>1. FInv /\ [Next]_vars => FInv'
  <2> SUFFICES ASSUME FInv, [Next]_vars PROVE FInv'
    OBVIOUS
  <2>1. CASE Next
    <3>1. Types' /\ Modes' /\ Carried'
      BY <2>1, TypesStep, ModesStep, CarriedStep
    <3>2. Acknowledged' /\ Fresh' /\ Survivor' /\ Refilled'
      BY <2>1, AcknowledgedStep, FreshStep, SurvivorStep, RefilledStep
    <3> QED BY <3>1, <3>2 DEF FInv
  <2>2. CASE UNCHANGED vars
    BY <2>2 DEF vars, FInv, Types, Modes, Carried, Acknowledged, Fresh, Survivor, Refilled
  <2> QED BY <2>1, <2>2
<1> QED BY <1>1, InitFInv, PTL DEF Spec

\* The types, that a process serving the backup drops AMQP deliveries, that a
\* queue dies with its connection, and that no message or snapshot carries odds
\* that were never true (main.go loadFeedSource, runSourceSwitch).
THEOREM FeedTypes == Spec => []TypeOK
<1>1. FInv => TypeOK
  <2> SUFFICES ASSUME FInv PROVE TypeOK
    OBVIOUS
  <2>1. /\ control \in [source: Sources, flush: Nat, waited: BOOLEAN]
        /\ amqp \in AmqpState /\ ing \in IngState /\ bif \in BifState
        /\ stream \in Seq(Nat) /\ spent \in SpentState
        /\ truth = spent.moves /\ lost \in {"no", "dark", "skip"} /\ amqp.again \subseteq Nat
    BY DEF FInv, Types, AmqpState
  <2>2. truth \in 0 .. MaxMoves /\ truth \in Nat /\ spent.acks \in Nat
    BY <2>1, BoundsAssumption DEF SpentState
  <2>3. \A s \in Seq(Nat) : DOMAIN s = 1 .. Len(s) /\ \A i \in 1 .. Len(s) : s[i] \in Nat
    OBVIOUS
  <2>4. \A i \in DOMAIN amqp.queue : amqp.queue[i] \in 0 .. truth
    <3>1. amqp.queue \in Seq(Nat)
      BY <2>1 DEF AmqpState
    <3> QED BY <2>2, <2>3, <3>1 DEF FInv, Carried
  <2>5. \A i \in DOMAIN stream : stream[i] \in 0 .. truth
    BY <2>1, <2>2, <2>3 DEF FInv, Carried
  <2>6. /\ amqp.conn = "down" => amqp.queue = <<>> /\ amqp.again = {}
        /\ amqp.again \subseteq 0 .. truth
    BY <2>1, <2>2 DEF FInv, Carried
  <2>7. /\ amqp.conn \in {"down", "hook", "flush", "ask", "up"} /\ amqp.beat \in {"none", "ok", "gap"}
        /\ amqp.replay \in BOOLEAN /\ amqp.rewound \in BOOLEAN
    BY <2>1 DEF AmqpState
  <2>8. /\ ing.pc \in {"poll", "flushIn", "ack", "flushOut", "recoverOut", "resumeOut"}
        /\ ing.prev \in Sources \cup {"auto"} /\ ing.dog \in {"calm", "sick", "flush", "guard"}
    BY <2>1 DEF IngState
  <2>9. ing.isBackup => ing.drop
    BY DEF FInv, Modes
  <2>10. bif.snap = None \/ bif.snap \in 0 .. truth
    <3>1. bif.snap = None \/ bif.snap \in Nat
      BY <2>1 DEF BifState
    <3> QED BY <2>2, <3>1 DEF FInv, Carried
  <2>11. bif.lastFlush \in 0 .. spent.acks
    <3>1. bif.lastFlush \in Nat
      BY <2>1 DEF BifState
    <3> QED BY <2>2, <3>1 DEF FInv, Acknowledged
  <2>12. offer.bettable = (offer.version # None)
    BY DEF FInv, Carried
  <2> QED BY <2>1, <2>2, <2>4, <2>5, <2>6, <2>7, <2>8, <2>9, <2>10, <2>11, <2>12 DEF TypeOK
<1> QED BY <1>1, FeedInductive, PTL

\* After any outages, restarts, switches and failed handlers, a price that a
\* first delivery wrote is the true one, or the true one is queued or to be
\* redelivered, except after the switch's shortcut in OnConnect or failed flushes
\* (main.go: "a single placement at stale odds is a real-money loss").
THEOREM NoStaleAmqpPrice == Spec => []NoStalePrice
<1>1. FInv => NoStalePrice
  <2> SUFFICES ASSUME FInv, amqp.conn \in {"ask", "up"}, ~ ing.drop, offer.by = "amqp",
                      lost # "skip", offer.version # truth, truth \notin amqp.again
               PROVE  \E i \in DOMAIN amqp.queue : amqp.queue[i] = truth
    BY DEF NoStalePrice, Newest
  <2>1. amqp.queue # <<>> /\ amqp.queue \in Seq(Nat)
    BY DEF FInv, Fresh, Types, AmqpState
  <2>2. Len(amqp.queue) \in DOMAIN amqp.queue
    BY <2>1
  <2>3. amqp.queue[Len(amqp.queue)] = truth
    BY <2>1 DEF FInv, Carried
  <2> QED BY <2>2, <2>3
<1> QED BY <1>1, FeedInductive, PTL

\* A forced backup that has seen and said everything has answered the flush of
\* the switch, however late it landed: what is dark was suspended since, by the
\* watchdog or by a hook begun before the switch, or an answer is owed because
\* one of its steps failed (gate.go: "the runner also re-emits whenever a later
\* flush acknowledgement appears").
THEOREM BackupRefills == Spec => []BackupFillsOffer
<1>1. FInv => BackupFillsOffer
  <2> SUFFICES ASSUME FInv, BackupAtRest, control.flush # 0, ~ spent.owed
               PROVE  offer.bettable \/ offer.by \in {"watchdog", "hook"}
    BY DEF BackupFillsOffer
  <2>1. control.flush <= bif.lastFlush
    <3>1. bif.flush \in Nat /\ bif.lastFlush \in Nat
      BY DEF FInv, Types, BifState
    <3> QED BY <3>1 DEF BackupAtRest, FlushMoved
  <2> QED BY <2>1 DEF BackupAtRest, FInv, Refilled
<1> QED BY <1>1, FeedInductive, PTL

\* On an open connection that is applied and drained, the offer is dark only if
\* its replay was lost, failed or narrow: no order of outages, restarts, switches,
\* late flushes and failing handlers leaves it waiting for nothing (main.go
\* flushBeforeRecover, OnConnect, runSourceSwitch).
THEOREM AmqpRefills == Spec => []AmqpFillsOffer
<1>1. Init => Awaited
  BY DEF Init, Awaited
<1>2. FInv /\ Awaited /\ [Next]_vars => Awaited'
  <2>1. ASSUME Awaited, UNCHANGED vars PROVE Awaited'
    BY <2>1 DEF vars, Awaited
  <2> QED BY <2>1, AwaitedStep
<1>3. Awaited => AmqpFillsOffer
  BY DEF Awaited, AmqpFillsOffer
<1> QED BY <1>1, <1>2, <1>3, FeedInductive, PTL DEF Spec
=============================================================================
