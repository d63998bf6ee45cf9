--------------------------- MODULE DepositsProofs ---------------------------
(***************************************************************************)
(* Proofs about Deposits, for every set of transactions, users, amounts    *)
(* and every depth of fork.                                                *)
(***************************************************************************)
EXTENDS Deposits, SumTheorems, SequenceTheorems, TLAPS

-----------------------------------------------------------------------------
(* The inductive invariant *)

Watches ==
  [pc: {"rest", "scan", "alerts", "list", "walk", "verify", "credit"},
   from: Nat, to: Nat, head: Nat, todo: SUBSET Keys, key: Keys \cup {None}, block: Nat, hash: Nat]

AnyBlock == [hash: Nat, tx: Txs \cup {None}, base: Nat, effect: Outcomes]

\* A block is the empty one or holds a transaction at a place it may have.
WellFormed(b) ==
  /\ b.tx = None => b.effect = NoEffect
  /\ b.tx # None => b.base \in Bases /\ b.effect \in Effects[b.tx]

Shapes == watch \in Watches /\ chain \in Seq(AnyBlock) /\ began \in Nat

\* Hashes are counted, and no transaction is in the chain twice.
ChainOK ==
  /\ \A i \in 1..Len(chain) : WellFormed(chain[i]) /\ chain[i].hash <= mined
  /\ \A i, j \in 1..Len(chain) : chain[i].tx = chain[j].tx => chain[i].tx = None \/ i = j

\* The logs of a block, and what it means that a scan dealt with them.
LogAt(b, j) == [key |-> <<b.tx, b.base + j - 1>>, log |-> b.effect.logs[j]]
LogsOf(b, coin) == {l \in {LogAt(b, j) : j \in DOMAIN b.effect.logs} : l.log.coin = coin}

Read(b, rows, out, put) ==
  \/ b.hash \in put
  \/ \A l \in LogsOf(b, "usdc") : rows[l.key].status # "absent" \/ l.key \in out

\* The heights a scan is done with, or past the first eth_getLogs for.
Passed(i) ==
  \/ i \in (began + 1)..cursor
  \/ watch.pc = "alerts" /\ i \in (cursor + 1)..watch.to

\* The range under scan starts after the cursor; past the first eth_getLogs it
\* has been read.
ScanOK ==
  /\ began <= cursor /\ (cursor <= Len(chain) \/ cursor = began)
  /\ watch.pc \in {"scan", "alerts"} => /\ watch.from = cursor + 1
                                        /\ watch.to <= Len(chain) /\ watch.from <= watch.to
  /\ \A i \in 1..Len(chain) : Passed(i) => Read(chain[i], intent, skipped, late)

Matches(b) == b.effect.ok /\ \E j \in DOMAIN b.effect.logs : b.effect.logs[j].coin = "usdc"

\* What the walk remembers of the intent it is about to credit: if the hash is
\* still there, so is the transfer.
VerifyOK ==
  /\ watch.head <= Len(chain)
  /\ watch.pc = "verify" =>
       /\ watch.block \in 1..Len(chain) /\ watch.hash <= mined
       /\ watch.head - watch.block + 1 >= Confirmations
       /\ chain[watch.block].hash = watch.hash =>
            chain[watch.block].tx = watch.key[1] /\ Matches(chain[watch.block])

OwnersOK == \A k \in Keys : intent[k].status # "absent" => intent[k].user \in Users

MoneyOK == IsFiniteSet(ledger) /\ MoneyFollowsLedger

IInv == TypeOK /\ Shapes /\ ChainOK /\ ScanOK /\ VerifyOK /\ OwnersOK /\ MoneyOK

-----------------------------------------------------------------------------
(* Operators *)

\* The greater and the smaller of two numbers.
LEMMA MaxMin ==
  ASSUME NEW a \in Int, NEW b \in Int
  PROVE  /\ Max({a, b}) = IF a >= b THEN a ELSE b
         /\ Min({a, b}) = IF a <= b THEN a ELSE b
  BY DEF Max, Min

\* eth_getLogs over a range returns the logs of its blocks.
LEMMA LogsInRange ==
  ASSUME IInv, NEW from \in Nat, NEW to \in Nat, NEW coin
  PROVE  \A l : l \in LogsIn(from, to, coin)
                  <=> \E i \in 1..Len(chain) : i \in from..to /\ l \in LogsOf(chain[i], coin)
  BY DEF LogsIn, LogsOf, LogAt, Top

\* A log of a block belongs to a transaction of interest and has a place, a
\* sender and an amount.
LEMMA LogShape ==
  ASSUME NEW b \in AnyBlock, WellFormed(b), NEW coin, NEW l \in LogsOf(b, coin)
  PROVE  /\ l.key \in Keys /\ l.key[1] = b.tx
         /\ l.log.from \in Addresses /\ l.log.amount \in Nat /\ l.log.coin = coin
  <1>1. PICK j \in DOMAIN b.effect.logs : l = LogAt(b, j)
    BY DEF LogsOf
  <1>2. b.effect.logs # <<>>
    BY <1>1 DEF AnyBlock, Outcomes
  <1>3. b.tx \in Txs
    BY <1>2 DEF WellFormed, NoEffect, AnyBlock
  <1>4. b.base + j - 1 \in Positions /\ b.effect \in Outcomes
    BY <1>1, <1>3, DepositAssumption DEF WellFormed
  <1>5. b.effect.logs[j] \in [coin: {"usdc", "other"}, from: Addresses, amount: Nat]
    <2> DEFINE Row == [coin: {"usdc", "other"}, from: Addresses, amount: Nat]
    <2>1. b.effect.logs \in Seq(Row)
      BY <1>4 DEF Outcomes
    <2> HIDE DEF Row
    <2>2. b.effect.logs[j] \in Row
      BY <1>1, <2>1
    <2> QED BY <2>2 DEF Row
  <1> QED BY <1>1, <1>3, <1>4, <1>5 DEF LogAt, LogsOf, Keys

-----------------------------------------------------------------------------
(* The chain *)

\* A block the node may add is empty or holds one of the free transactions.
LEMMA BlockShape ==
  ASSUME NEW n \in Nat, NEW free \in SUBSET Txs, NEW b \in Blocks(n, free)
  PROVE  /\ b \in AnyBlock /\ WellFormed(b) /\ b.hash = n
         /\ b.tx = None \/ b.tx \in free
  <1>1. CASE b = Block(n, None, 0, NoEffect)
    <2>1. NoEffect \in Outcomes
      BY DEF NoEffect, Outcomes
    <2> QED BY <1>1, <2>1 DEF Block, AnyBlock, WellFormed, NoEffect
  <1>2. CASE b # Block(n, None, 0, NoEffect)
    <2>0. PICK t \in free : \E x \in Bases, e \in Effects[t] : b = Block(n, t, x, e)
      BY <1>2 DEF Blocks
    <2>1. PICK x \in Bases, e \in Effects[t] : b = Block(n, t, x, e)
      BY <2>0
    <2>2. t \in Txs /\ t # None /\ e \in Outcomes /\ x \in Nat
      BY <2>1, DepositAssumption
    <2> QED BY <2>1, <2>2 DEF Block, AnyBlock, WellFormed
  <1> QED BY <1>1, <1>2

\* The hash of a block of the chain is a number.
LEMMA BlockHash ==
  ASSUME IInv, NEW i \in 1..Len(chain)
  PROVE  chain[i] \in AnyBlock /\ chain[i].hash \in Nat
  <1>1. chain[i] \in AnyBlock
    BY DEF IInv, Shapes
  <1> QED BY <1>1 DEF AnyBlock

\* A new block leaves the ones below as they were.
LEMMA MineChain ==
  ASSUME IInv, MineBlock
  PROVE  /\ chain' \in Seq(AnyBlock) /\ Len(chain') = Len(chain) + 1
         /\ \A i \in 1..Len(chain) : chain'[i] = chain[i]
         /\ ChainOK'
  <1> USE DEF IInv
  <1>1. PICK b \in Blocks(mined + 1, Unmined(chain)) : chain' = Append(chain, b)
    BY DEF MineBlock
  <1>2. mined \in Nat /\ mined' = mined + 1 /\ chain \in Seq(AnyBlock)
    BY DepositAssumption DEF TypeOK, Shapes, MineBlock
  <1>3. Unmined(chain) \in SUBSET Txs
    BY DEF Unmined
  <1>4. b \in AnyBlock /\ WellFormed(b) /\ b.hash = mined + 1
        /\ (b.tx = None \/ b.tx \in Unmined(chain))
    BY <1>2, <1>3, BlockShape
  <1>5. /\ chain' \in Seq(AnyBlock) /\ Len(chain') = Len(chain) + 1
        /\ \A i \in 1..Len(chain) : chain'[i] = chain[i]
        /\ chain'[Len(chain) + 1] = b
    BY <1>1, <1>2, <1>4, AppendProperties
  <1>6. \A i \in 1..Len(chain) : b.tx # None => chain[i].tx # b.tx
    BY <1>2, <1>4 DEF Unmined
  <1>7. Len(chain) \in Nat
    BY <1>2
  <1>8. \A i \in 1..Len(chain) : chain[i].hash \in Nat
    BY BlockHash
  <1>9. \A i \in 1..Len(chain)' : WellFormed(chain'[i]) /\ chain'[i].hash <= mined'
    BY <1>2, <1>4, <1>5, <1>7, <1>8 DEF ChainOK
  <1>10. \A i, j \in 1..Len(chain)' : chain'[i].tx = chain'[j].tx => chain'[i].tx = None \/ i = j
    BY <1>5, <1>6, <1>7 DEF ChainOK
  <1> QED BY <1>5, <1>9, <1>10 DEF ChainOK, WellFormed

\* A fork puts blocks of hashes never used before at the heights it replaces,
\* and the ones at heights already read are recorded as late.
LEMMA ReorgChain ==
  ASSUME IInv, NEW d \in 1..MaxReorg, Reorg(d)
  PROVE  /\ chain' \in Seq(AnyBlock) /\ Len(chain') = Len(chain)
         /\ \A i \in 1..Len(chain) :
              \/ chain'[i] = chain[i]
              \/ chain'[i].hash > mined /\ (i <= ScannedTo => chain'[i].hash \in late')
         /\ late \subseteq late' /\ ChainOK'
  <1> USE DEF IInv
  <1> DEFINE n == Len(chain) - d
             keep == SubSeq(chain, 1, n)
  <1>1. /\ mined \in Nat /\ mined' = mined + d /\ chain \in Seq(AnyBlock) /\ d \in Nat /\ d >= 1
        /\ Len(chain) \in Nat /\ n \in Nat
    <2>1. d \in Nat /\ d >= 1
      BY DepositAssumption
    <2>2. mined \in Nat /\ chain \in Seq(AnyBlock) /\ Len(chain) \in Nat
      BY DEF TypeOK, Shapes
    <2>3. mined' = mined + d /\ d <= Len(chain)
      BY DEF Reorg, Top
    <2> QED BY <2>1, <2>2, <2>3
  <1>2. /\ keep \in Seq(AnyBlock) /\ Len(keep) = n
        /\ \A i \in 1..n : keep[i] = chain[i]
    BY <1>1, SubSeqProperties
  <1> HIDE DEF keep
  <1>3. PICK bs \in [1..d -> UNION {Blocks(mined + j, Unmined(keep)) : j \in 1..d}] :
          /\ \A j \in 1..d : bs[j].hash = mined + j
          /\ \A j, k \in 1..d : j # k => bs[j].tx = None \/ bs[j].tx # bs[k].tx
          /\ chain' = keep \o bs
          /\ late' = late \cup {bs[j].hash : j \in {j \in 1..d : n + j <= ScannedTo}}
    BY DEF Reorg, keep, Top
  <1>4. Unmined(keep) \in SUBSET Txs
    BY DEF Unmined
  <1>5. \A j \in 1..d : /\ bs[j] \in AnyBlock /\ WellFormed(bs[j])
                        /\ bs[j].tx = None \/ bs[j].tx \in Unmined(keep)
    <2> TAKE j \in 1..d
    <2>1. PICK k \in 1..d : bs[j] \in Blocks(mined + k, Unmined(keep))
      BY <1>3
    <2>2. mined + k \in Nat
      BY <1>1
    <2> QED BY <2>1, <2>2, <1>4, BlockShape
  <1>6. bs \in Seq(AnyBlock) /\ Len(bs) = d
    <2>1. bs \in [1..d -> AnyBlock]
      BY <1>3, <1>5
    <2>2. bs \in Seq(AnyBlock)
      BY <2>1, <1>1, SeqDef
    <2> QED BY <2>1, <2>2, <1>1
  <1>7. /\ chain' \in Seq(AnyBlock) /\ Len(chain') = Len(chain)
        /\ \A i \in 1..Len(chain) : chain'[i] = IF i <= n THEN chain[i] ELSE bs[i - n]
    <2> DEFINE c == keep \o bs
    <2>1. /\ c \in Seq(AnyBlock) /\ Len(c) = Len(keep) + Len(bs)
          /\ \A i \in 1..(Len(keep) + Len(bs)) :
               c[i] = IF i <= Len(keep) THEN keep[i] ELSE bs[i - Len(keep)]
      <3>1. keep \in Seq(AnyBlock) /\ bs \in Seq(AnyBlock)
        BY <1>2, <1>6
      <3> QED BY ONLY <3>1, ConcatProperties
    <2>2. chain' = c
      BY <1>3
    <2> HIDE DEF c
    <2> QED BY <2>1, <2>2, <1>1, <1>2, <1>6
  <1> HIDE DEF n
  <1>8. /\ n \in Nat /\ n + d = Len(chain)
        /\ \A i \in 1..Len(chain) : i <= n => i \in 1..n
        /\ \A i \in 1..Len(chain) : ~(i <= n) => i - n \in 1..d
    BY <1>1 DEF n
  <1>9. \A i \in 1..Len(chain) :
          \/ chain'[i] = chain[i]
          \/ chain'[i].hash > mined /\ (i <= ScannedTo => chain'[i].hash \in late')
    <2> SUFFICES ASSUME NEW i \in 1..Len(chain), ~(i <= n)
                 PROVE  chain'[i].hash > mined /\ (i <= ScannedTo => chain'[i].hash \in late')
      BY <1>7
    <2>1. i - n \in 1..d /\ chain'[i] = bs[i - n] /\ n + (i - n) = i
      BY <1>7, <1>8
    <2>2. bs[i - n].hash = mined + (i - n)
      BY <1>3, <2>1
    <2>3. i <= ScannedTo => bs[i - n].hash \in late'
      BY <1>3, <2>1
    <2> QED BY <1>1, <2>1, <2>2, <2>3
  <1>10. \A i \in 1..Len(chain) : chain[i].hash \in Nat
    BY BlockHash
  <1>11. \A i \in 1..Len(chain) : WellFormed(chain'[i]) /\ chain'[i].hash <= mined'
    <2> TAKE i \in 1..Len(chain)
    <2>1. CASE i <= n
      BY <1>1, <1>7, <1>10, <2>1 DEF ChainOK
    <2>2. CASE ~(i <= n)
      <3>1. i - n \in 1..d /\ chain'[i] = bs[i - n]
        BY <1>7, <1>8, <2>2
      <3>2. bs[i - n].hash = mined + (i - n) /\ WellFormed(bs[i - n])
        BY <1>3, <1>5, <3>1
      <3> QED BY <1>1, <3>1, <3>2
    <2> QED BY <2>1, <2>2
  <1>12. \A i \in 1..n, j \in 1..d : chain[i].tx = bs[j].tx => bs[j].tx = None
    BY <1>2, <1>5 DEF Unmined
  <1>13. \A i, j \in 1..Len(chain) : chain'[i].tx = chain'[j].tx => chain'[i].tx = None \/ i = j
    <2> SUFFICES ASSUME NEW i \in 1..Len(chain), NEW j \in 1..Len(chain), i # j,
                        chain'[i].tx = chain'[j].tx
                 PROVE  chain'[i].tx = None
      OBVIOUS
    <2>1. CASE i <= n /\ j <= n
      BY <1>7, <2>1 DEF ChainOK
    <2>2. CASE i <= n /\ ~(j <= n)
      BY <1>7, <1>8, <1>12, <2>2
    <2>3. CASE ~(i <= n) /\ j <= n
      BY <1>7, <1>8, <1>12, <2>3
    <2>4. CASE ~(i <= n) /\ ~(j <= n)
      <3>1. i - n \in 1..d /\ j - n \in 1..d /\ i - n # j - n
        BY <1>8, <2>4
      <3> QED BY <1>3, <1>7, <2>4, <3>1
    <2> QED BY <2>1, <2>2, <2>3, <2>4
  <1>14. late \subseteq late'
    BY <1>3
  <1> QED BY <1>7, <1>9, <1>11, <1>13, <1>14 DEF ChainOK, WellFormed

-----------------------------------------------------------------------------
(* Types *)

Intents ==
  [status: {"absent", "confirming", "credited", "rejected"}, user: Users \cup {None}, amount: Nat,
   reason: {"none", "operator", "tx_reverted", "no_match", "wrong_token", "wrong_token_acked"}]

\* The rows a scan inserts are new, pending, and have an owner.
LEMMA InsertShape ==
  ASSUME IInv, NEW logs,
         \A l \in logs : /\ l.key \in Keys /\ l.log.from \in Addresses /\ l.log.amount \in Nat
                         /\ link[l.log.from] # None
  PROVE  LET new == InsertDiscovered(logs)
         IN  /\ new \in [Keys -> Intents]
             /\ \A k \in Keys : intent[k].status # "absent" => new[k] = intent[k]
             /\ \A k \in Keys : intent[k].status = "absent" /\ new[k].status # "absent"
                                  => new[k].status = "confirming" /\ new[k].user \in Users
             /\ \A l \in logs : new[l.key].status # "absent"
  <1> DEFINE new == InsertDiscovered(logs)
             row(l) == [status |-> "confirming", user |-> link[l.log.from],
                        amount |-> l.log.amount, reason |-> "none"]
  <1>1. intent \in [Keys -> Intents] /\ link \in [Addresses -> Users \cup {None}]
    BY DEF IInv, TypeOK, Intents
  <1>2. \A l \in logs : row(l) \in Intents /\ row(l).user \in Users /\ row(l).status = "confirming"
    BY <1>1 DEF Intents
  <1>3. \A k \in Keys : \/ new[k] = intent[k] /\ ~(intent[k].status = "absent" /\ \E l \in logs : l.key = k)
                        \/ intent[k].status = "absent" /\ \E l \in logs : new[k] = row(l)
    BY DEF InsertDiscovered
  <1>4. new = [k \in Keys |-> new[k]]
    BY DEF InsertDiscovered
  <1> HIDE DEF new, row
  <1>5. new \in [Keys -> Intents]
    BY <1>1, <1>2, <1>3, <1>4
  <1>6. \A l \in logs : new[l.key].status # "absent"
    BY <1>2, <1>3
  <1>7. \A k \in Keys : intent[k].status # "absent" => new[k] = intent[k]
    BY <1>3
  <1>8. \A k \in Keys : intent[k].status = "absent" /\ new[k].status # "absent"
                          => new[k].status = "confirming" /\ new[k].user \in Users
    BY <1>2, <1>3
  <1> QED BY <1>5, <1>6, <1>7, <1>8 DEF new

\* The USDC logs of the range under scan.
LEMMA ScannedLogs ==
  ASSUME IInv, NEW coin, NEW l \in LogsIn(watch.from, watch.to, coin)
  PROVE  /\ l.key \in Keys /\ l.log.from \in Addresses /\ l.log.amount \in Nat
         /\ l.log.coin = coin
  <1>1. watch.from \in Nat /\ watch.to \in Nat
    BY DEF IInv, Shapes, Watches
  <1>2. PICK i \in 1..Len(chain) : l \in LogsOf(chain[i], coin)
    BY <1>1, LogsInRange
  <1>3. chain[i] \in AnyBlock /\ WellFormed(chain[i])
    BY BlockHash DEF IInv, ChainOK
  <1> QED BY <1>2, <1>3, LogShape

\* The types, by the variables they are about.
ChainType == mined \in 0..MaxMined /\ Len(chain) <= mined /\ chain \in Seq(AnyBlock)
OtherType ==
  /\ link \in [Addresses -> Users \cup {None}] /\ cursor \in Nat /\ began \in Nat
  /\ errors \in 0..MaxErrors /\ unattributed \in [Keys -> {"absent", "open", "acked"}]
WatchType ==
  /\ watch \in Watches
  /\ watch.pc \in {"walk", "verify", "credit"} <=> watch.todo # {}
  /\ watch.pc \in {"verify", "credit"} <=> watch.key \in watch.todo
IntentType == intent \in [Keys -> Intents] /\ OwnersOK
MoneyType ==
  /\ bank \in Nat /\ balance \in [Users -> Nat] /\ ledger \subseteq [key: Keys, user: Users, delta: Nat]

\* The parts are the whole.
LEMMA TypeSplit ==
  TypeOK /\ Shapes /\ OwnersOK
    <=> ChainType /\ OtherType /\ WatchType /\ IntentType /\ MoneyType
  <1>1. watch \in Watches => /\ watch.pc \in {"rest", "scan", "alerts", "list", "walk", "verify", "credit"}
                             /\ watch.todo \subseteq Keys /\ watch.key \in Keys \cup {None}
    BY DEF Watches
  <1> QED BY <1>1 DEF TypeOK, Shapes, ChainType, OtherType, WatchType, IntentType, MoneyType, Intents, Top

\* The node alone writes the chain.
LEMMA ChainFrame ==
  ASSUME [Next]_vars
  PROVE  \/ MineBlock \/ \E d \in 1..MaxReorg : Reorg(d)
         \/ UNCHANGED <<chain, mined, late>>
  BY DEF Next, WatcherStep, LinkAddress, UnlinkAddress, DiscoverBegin, ScanUsdc, ScanWrongToken,
     ListPendingIntents, VerifyCanonical, CreditIntent, Inspect, WatcherError, CreditManual, AdminReject,
     AcknowledgeUnattributed, AcknowledgeWrongToken, vars, history

\* The watcher alone writes its own state.
LEMMA WatchFrame ==
  ASSUME [Next]_vars
  PROVE  WatcherStep \/ WatcherError \/ UNCHANGED <<watch, cursor, began, skipped>>
  BY DEF Next, MineBlock, Reorg, LinkAddress, UnlinkAddress, CreditManual, AdminReject,
     AcknowledgeUnattributed, AcknowledgeWrongToken, vars, history

\* An intent and its money are written by a scan, the walk and the operator.
LEMMA IntentFrame ==
  ASSUME [Next]_vars
  PROVE  \/ ScanUsdc \/ CreditIntent \/ \E k \in Keys : Inspect(k)
         \/ \E k \in Keys : \/ AdminReject(k) \/ AcknowledgeWrongToken(k)
                            \/ \E m \in ManualAmounts : CreditManual(k, m)
         \/ UNCHANGED <<intent, moneyVars>>
  BY DEF Next, WatcherStep, MineBlock, Reorg, LinkAddress, UnlinkAddress, DiscoverBegin,
     ScanWrongToken, ListPendingIntents, VerifyCanonical, WatcherError, AcknowledgeUnattributed, vars,
     intentVars, moneyVars

\* The end of an intent's turn in the walk, or of the walk.
LEMMA NextIntentType ==
  ASSUME WatchType, NEW k \in watch.todo
  PROVE  /\ NextIntent(k) \in Watches
         /\ NextIntent(k).pc \in {"walk", "rest"} /\ NextIntent(k).key = None
         /\ NextIntent(k).pc = "walk" <=> NextIntent(k).todo # {}
         /\ NextIntent(k).head \in {0, watch.head}
  BY DEF WatchType, NextIntent, Rest, Watches

\* A credit of a row that has an owner keeps the types.
LEMMA CreditType ==
  ASSUME IntentType, MoneyType, NEW k \in Keys, NEW n \in Nat, intent[k].user \in Users, Credit(k, n)
  PROVE  /\ IntentType' /\ MoneyType'
         /\ intent' = [intent EXCEPT ![k] = [intent[k] EXCEPT !.status = "credited", !.amount = n]]
  <1> DEFINE row == [intent[k] EXCEPT !.status = "credited", !.amount = n]
  <1>1. intent' = [intent EXCEPT ![k] = row]
    BY DEF Credit, IntentType, Intents
  <1>2. row \in Intents /\ row.user = intent[k].user
    BY DEF IntentType, Intents
  <1>3. IntentType'
    <2> HIDE DEF row
    <2> QED BY <1>1, <1>2 DEF IntentType, OwnersOK
  <1>4. MoneyType'
    BY DEF Credit, CreditRow, MoneyType
  <1> QED BY <1>1, <1>3, <1>4

\* A rejection touches the status and the reason of one row.
LEMMA RejectType ==
  ASSUME IntentType, NEW k \in Keys, NEW reason \in {"operator", "tx_reverted", "no_match", "wrong_token"}
  PROVE  LET row == [intent[k] EXCEPT !.status = "rejected", !.reason = reason]
         IN  /\ [intent EXCEPT ![k].status = "rejected", ![k].reason = reason] = [intent EXCEPT ![k] = row]
             /\ row \in Intents /\ row.user = intent[k].user /\ row.amount = intent[k].amount
             /\ row.status = "rejected"
  BY DEF IntentType, Intents

\* Every step keeps the types, and every intent has an owner.
LEMMA TypeStep ==
  ASSUME IInv, [Next]_vars
  PROVE  (TypeOK /\ Shapes /\ OwnersOK)'
  <1>0. ChainType /\ OtherType /\ WatchType /\ IntentType /\ MoneyType
    BY TypeSplit DEF IInv
  <1>a. Rest \in Watches /\ Rest.todo = {} /\ Rest.key = None /\ Rest.pc = "rest"
    BY DEF Rest, Watches
  <1>b. None \notin Keys /\ None \notin Users
    BY DepositAssumption
  <1>1. ChainType'
    <2>1. CASE MineBlock
      BY <1>0, <2>1, MineChain, DepositAssumption DEF MineBlock, ChainType
    <2>2. ASSUME NEW d \in 1..MaxReorg, Reorg(d) PROVE ChainType'
      <3>1. mined' = mined + d /\ mined + d <= MaxMined
        BY <2>2 DEF Reorg
      <3>2. chain' \in Seq(AnyBlock) /\ Len(chain') = Len(chain)
        BY <2>2, ReorgChain
      <3>3. d \in Nat /\ mined \in Nat /\ MaxMined \in Nat /\ Len(chain) \in Nat
        BY <1>0, DepositAssumption DEF ChainType
      <3> QED BY <1>0, <3>1, <3>2, <3>3 DEF ChainType
    <2>3. CASE UNCHANGED <<chain, mined, late>>
      BY <1>0, <2>3 DEF ChainType
    <2> QED BY <2>1, <2>2, <2>3, ChainFrame
  <1>2. WatchType'
    <2>1. CASE DiscoverBegin
      <3>1. cursor \in Nat /\ Top \in Nat /\ Bootstrap \in Nat
        BY <1>0, MaxMin, DepositAssumption DEF OtherType, ChainType, Top, Bootstrap
      <3> DEFINE c == IF cursor = 0 THEN Bootstrap ELSE cursor
                 to == Min({c + MaxBlockRange, Top})
      <3>2. c \in Nat
        BY <3>1
      <3>3. watch' = [Rest EXCEPT !.pc = "list"]
              \/ watch' = [Rest EXCEPT !.pc = "scan", !.from = c + 1, !.to = to]
        BY <2>1 DEF DiscoverBegin
      <3> HIDE DEF c
      <3>4. to \in Nat /\ c + 1 \in Nat
        <4>1. c + MaxBlockRange \in Nat /\ c + 1 \in Nat
          BY <3>2, DepositAssumption
        <4>2. c + MaxBlockRange \in Int /\ Top \in Int
          BY <3>1, <4>1
        <4>3. to = c + MaxBlockRange \/ to = Top
          BY <4>2, MaxMin
        <4> QED BY <3>1, <4>1, <4>3
      <3> HIDE DEF to
      <3>5. CASE watch' = [Rest EXCEPT !.pc = "list"]
        BY <3>5, <1>b DEF WatchType, Watches, Rest
      <3>6. CASE watch' = [Rest EXCEPT !.pc = "scan", !.from = c + 1, !.to = to]
        BY <3>4, <3>6, <1>b DEF WatchType, Watches, Rest
      <3> QED BY <3>3, <3>5, <3>6
    <2>2. CASE ScanUsdc
      BY <1>0, <1>a, <1>b, <2>2 DEF ScanUsdc, AfterScanError, WatchType, Watches
    <2>3. CASE ScanWrongToken
      BY <1>0, <1>a, <1>b, <2>3 DEF ScanWrongToken, WatchType, Watches
    <2>4. CASE ListPendingIntents
      <3>1. Top \in Nat
        BY <1>0 DEF ChainType, Top
      <3> QED BY <1>0, <1>a, <1>b, <2>4, <3>1 DEF ListPendingIntents, WatchType, Watches
    <2>5. CASE VerifyCanonical \/ CreditIntent
      <3>1. watch.key \in watch.todo
        BY <1>0, <2>5 DEF VerifyCanonical, CreditIntent, WatchType
      <3>2. CASE watch' = NextIntent(watch.key)
        BY <1>0, <1>b, <3>1, <3>2, NextIntentType DEF WatchType, Watches
      <3>3. CASE watch' = [watch EXCEPT !.pc = "credit"]
        BY <1>0, <3>1, <3>3 DEF WatchType, Watches
      <3> QED BY <2>5, <3>2, <3>3 DEF VerifyCanonical, CreditIntent
    <2>6. ASSUME NEW k \in Keys, Inspect(k) PROVE WatchType'
      <3>1. k \in watch.todo
        BY <2>6 DEF Inspect
      <3>2. CASE watch' = NextIntent(k)
        BY <1>0, <1>b, <3>1, <3>2, NextIntentType DEF WatchType, Watches
      <3>3. CASE /\ Receipt(k[1]).found = "match"
                 /\ watch' = [watch EXCEPT !.pc = "verify", !.key = k, !.block = Receipt(k[1]).block,
                                           !.hash = chain[Receipt(k[1]).block].hash]
        <4>1. Receipt(k[1]).block \in 1..Len(chain)
          BY <3>3 DEF Receipt, Mined, Top
        <4>2. Receipt(k[1]).block \in Nat /\ chain[Receipt(k[1]).block].hash \in Nat
          BY <4>1, BlockHash
        <4> QED BY <1>0, <3>1, <3>3, <4>2 DEF WatchType, Watches
      <3> QED BY <2>6, <3>2, <3>3 DEF Inspect
    <2>7. CASE WatcherError
      <3>1. CASE watch' = [Rest EXCEPT !.pc = "list"] \/ watch' = Rest
        BY <1>a, <1>b, <3>1 DEF WatchType, Watches
      <3>2. ASSUME NEW k \in watch.todo, watch' = NextIntent(k) PROVE WatchType'
        BY <1>0, <1>b, <3>2, NextIntentType DEF WatchType, Watches
      <3>3. watch.pc \in {"verify", "credit"} => watch.key \in watch.todo
        BY <1>0 DEF WatchType
      <3> QED BY <2>7, <3>1, <3>2, <3>3 DEF WatcherError
    <2>8. CASE UNCHANGED <<watch, cursor, began, skipped>>
      BY <1>0, <2>8 DEF WatchType
    <2> QED BY <2>1, <2>2, <2>3, <2>4, <2>5, <2>6, <2>7, <2>8, WatchFrame DEF WatcherStep
  <1>3. IntentType' /\ MoneyType'
    <2>1. CASE ScanUsdc
      <3>1. ASSUME NEW stored, stored \subseteq {l \in LogsIn(watch.from, watch.to, "usdc") :
                                                   link[l.log.from] # None},
                   intent' = InsertDiscovered(stored)
            PROVE  IntentType'
        <4>1. \A l \in stored : /\ l.key \in Keys /\ l.log.from \in Addresses /\ l.log.amount \in Nat
                                /\ link[l.log.from] # None
          BY <3>1, ScannedLogs
        <4>2. /\ intent' \in [Keys -> Intents]
              /\ \A k \in Keys : intent[k].status # "absent" => intent'[k] = intent[k]
              /\ \A k \in Keys : intent[k].status = "absent" /\ intent'[k].status # "absent"
                                   => intent'[k].user \in Users
          BY <3>1, <4>1, InsertShape
        <4> QED BY <1>0, <4>2 DEF IntentType, OwnersOK
      <3>2. IntentType'
        BY <2>1, <3>1 DEF ScanUsdc
      <3>3. MoneyType'
        BY <1>0, <2>1 DEF ScanUsdc, MoneyType, moneyVars
      <3> QED BY <3>2, <3>3
    <2>2. CASE CreditIntent
      <3>1. watch.key \in Keys
        BY <1>0, <2>2 DEF CreditIntent, WatchType, Watches
      <3>2. CASE UNCHANGED <<intentVars, moneyVars>>
        BY <1>0, <3>2 DEF intentVars, moneyVars, IntentType, OwnersOK, MoneyType
      <3>3. CASE Creditable(watch.key) /\ Credit(watch.key, intent[watch.key].amount)
        <4>1. intent[watch.key].user \in Users /\ intent[watch.key].amount \in Nat
          BY <1>0, <3>1, <3>3 DEF Creditable, Pending, IntentType, OwnersOK, Intents
        <4> QED BY <1>0, <3>1, <3>3, <4>1, CreditType
      <3> QED BY <2>2, <3>2, <3>3 DEF CreditIntent
    <2>3. ASSUME NEW k \in Keys, Inspect(k) PROVE IntentType' /\ MoneyType'
      <3>1. MoneyType'
        BY <1>0, <2>3 DEF Inspect, MoneyType, moneyVars
      <3>2. CASE UNCHANGED intent
        BY <1>0, <3>1, <3>2 DEF IntentType, OwnersOK
      <3>3. ASSUME NEW reason \in {"tx_reverted", "no_match", "wrong_token"},
                   intent' = [intent EXCEPT ![k].status = "rejected", ![k].reason = reason],
                   Pending(intent[k])
            PROVE  IntentType'
        <4> DEFINE row == [intent[k] EXCEPT !.status = "rejected", !.reason = reason]
        <4>1. /\ intent' = [intent EXCEPT ![k] = row]
              /\ row \in Intents /\ row.user = intent[k].user
          BY <1>0, <3>3, RejectType
        <4>2. intent[k].user \in Users
          BY <1>0, <3>3 DEF Pending, IntentType, OwnersOK
        <4> HIDE DEF row
        <4> QED BY <1>0, <4>1, <4>2 DEF IntentType, OwnersOK
      <3> QED BY <2>3, <3>1, <3>2, <3>3 DEF Inspect, RejectIntent, intentVars
    <2>4. ASSUME NEW k \in Keys, AdminReject(k) PROVE IntentType' /\ MoneyType'
      <3> DEFINE row == [intent[k] EXCEPT !.status = "rejected", !.reason = "operator"]
      <3>1. /\ intent' = [intent EXCEPT ![k] = row]
            /\ row \in Intents /\ row.user = intent[k].user
        BY <1>0, <2>4, RejectType DEF AdminReject
      <3>2. intent[k].user \in Users
        BY <1>0, <2>4 DEF AdminReject, Pending, IntentType, OwnersOK
      <3>3. IntentType'
        <4> HIDE DEF row
        <4> QED BY <1>0, <3>1, <3>2 DEF IntentType, OwnersOK
      <3> QED BY <1>0, <2>4, <3>3 DEF AdminReject, MoneyType, moneyVars
    <2>5. ASSUME NEW k \in Keys, AcknowledgeWrongToken(k) PROVE IntentType' /\ MoneyType'
      BY <1>0, <2>5 DEF AcknowledgeWrongToken, IntentType, OwnersOK, Intents, MoneyType, moneyVars
    <2>6. ASSUME NEW k \in Keys, NEW m \in ManualAmounts, CreditManual(k, m)
          PROVE  IntentType' /\ MoneyType'
      <3>1. m \in Nat /\ intent[k].user \in Users /\ Credit(k, m)
        BY <1>0, <2>6, DepositAssumption DEF CreditManual, IntentType, OwnersOK
      <3> QED BY <1>0, <3>1, CreditType
    <2>7. CASE UNCHANGED <<intent, moneyVars>>
      BY <1>0, <2>7 DEF IntentType, OwnersOK, MoneyType, moneyVars
    <2> QED BY <2>1, <2>2, <2>3, <2>4, <2>5, <2>6, <2>7, IntentFrame
  <1>4. OtherType'
    <2>1. CASE MineBlock \/ (\E d \in 1..MaxReorg : Reorg(d))
      BY <1>0, <2>1 DEF MineBlock, Reorg, OtherType, intentVars, history
    <2>2. CASE \E u \in Users, a \in Addresses : LinkAddress(u, a) \/ UnlinkAddress(u, a)
      BY <1>0, <2>2 DEF LinkAddress, UnlinkAddress, OtherType, intentVars, history
    <2>3. CASE DiscoverBegin
      <3>1. cursor \in Nat /\ Top \in Nat /\ Bootstrap \in Nat
        BY <1>0, MaxMin, DepositAssumption DEF OtherType, ChainType, Top, Bootstrap
      <3> QED BY <1>0, <2>3, <3>1, MaxMin DEF DiscoverBegin, OtherType, intentVars
    <2>4. CASE ScanUsdc
      BY <1>0, <2>4, DepositAssumption DEF ScanUsdc, OtherType
    <2>5. CASE ScanWrongToken
      <3>1. cursor' \in Nat
        BY <1>0, <2>5, MaxMin DEF ScanWrongToken, OtherType, WatchType, Watches
      <3>2. unattributed' \in [Keys -> {"absent", "open", "acked"}]
        BY <1>0, <2>5 DEF ScanWrongToken, OtherType
      <3> QED BY <1>0, <2>5, <3>1, <3>2 DEF ScanWrongToken, OtherType, history
    <2>6. CASE ListPendingIntents \/ VerifyCanonical \/ CreditIntent
      BY <1>0, <2>6
      DEF ListPendingIntents, VerifyCanonical, CreditIntent, Credit, OtherType, intentVars, history
    <2>7. ASSUME NEW k \in Keys, Inspect(k) PROVE OtherType'
      BY <1>0, <2>7 DEF Inspect, RejectIntent, OtherType, intentVars, history
    <2>8. CASE WatcherError
      BY <1>0, <2>8, DepositAssumption DEF WatcherError, OtherType, intentVars, history
    <2>9. ASSUME NEW k \in Keys, \/ AdminReject(k) \/ AcknowledgeUnattributed(k) \/ AcknowledgeWrongToken(k)
                                 \/ \E m \in ManualAmounts : CreditManual(k, m)
          PROVE  OtherType'
      BY <1>0, <2>9
      DEF AdminReject, AcknowledgeUnattributed, AcknowledgeWrongToken, CreditManual, Credit, OtherType, history
    <2>10. CASE UNCHANGED vars
      BY <1>0, <2>10 DEF vars, OtherType, intentVars, history
    <2> QED BY <2>1, <2>2, <2>3, <2>4, <2>5, <2>6, <2>7, <2>8, <2>9, <2>10 DEF Next, WatcherStep
  <1>5. (ChainType /\ OtherType /\ WatchType /\ IntentType /\ MoneyType)'
    BY <1>1, <1>2, <1>3, <1>4
  <1> QED BY <1>5, TypeSplit, PTL

-----------------------------------------------------------------------------
(* The scan *)

\* No step removes an intent.
LEMMA IntentsStay ==
  ASSUME IInv, [Next]_vars
  PROVE  \A k \in Keys : intent[k].status # "absent" => intent'[k].status # "absent"
  <1>0. IntentType
    BY TypeSplit DEF IInv
  <1>1. CASE ScanUsdc
    <2>1. PICK stored : /\ stored \subseteq {l \in LogsIn(watch.from, watch.to, "usdc") :
                                              link[l.log.from] # None}
                        /\ intent' = InsertDiscovered(stored)
      BY <1>1 DEF ScanUsdc
    <2>2. \A l \in stored : /\ l.key \in Keys /\ l.log.from \in Addresses /\ l.log.amount \in Nat
                            /\ link[l.log.from] # None
      BY <2>1, ScannedLogs
    <2> QED BY <2>1, <2>2, InsertShape
  <1>2. CASE CreditIntent
    BY <1>0, <1>2 DEF CreditIntent, Credit, IntentType, Intents, intentVars
  <1>3. ASSUME NEW k \in Keys, Inspect(k)
        PROVE  \A x \in Keys : intent[x].status # "absent" => intent'[x].status # "absent"
    BY <1>0, <1>3 DEF Inspect, RejectIntent, IntentType, Intents, intentVars
  <1>4. ASSUME NEW k \in Keys, \/ AdminReject(k) \/ AcknowledgeWrongToken(k)
                               \/ \E m \in ManualAmounts : CreditManual(k, m)
        PROVE  \A x \in Keys : intent[x].status # "absent" => intent'[x].status # "absent"
    BY <1>0, <1>4 DEF AdminReject, AcknowledgeWrongToken, CreditManual, Credit, IntentType, Intents
  <1> QED BY <1>1, <1>2, <1>3, <1>4, IntentFrame

\* A scan never forgets that it left a log out, nor is a late block forgotten.
LEMMA HistoryGrows ==
  ASSUME [Next]_vars
  PROVE  skipped \subseteq skipped' /\ late \subseteq late'
  BY DEF Next, WatcherStep, MineBlock, Reorg, LinkAddress, UnlinkAddress, DiscoverBegin, ScanUsdc,
     ScanWrongToken, ListPendingIntents, VerifyCanonical, CreditIntent, Inspect, WatcherError,
     CreditManual, AdminReject, AcknowledgeUnattributed, AcknowledgeWrongToken, vars, history

\* What a scan has dealt with stays dealt with.
LEMMA ReadStays ==
  ASSUME IInv, [Next]_vars, NEW b \in AnyBlock, WellFormed(b), Read(b, intent, skipped, late)
  PROVE  Read(b, intent', skipped', late')
  <1>1. \A l \in LogsOf(b, "usdc") : l.key \in Keys
    BY LogShape
  <1>2. \A k \in Keys : intent[k].status # "absent" => intent'[k].status # "absent"
    BY IntentsStay
  <1>3. skipped \subseteq skipped' /\ late \subseteq late'
    BY HistoryGrows
  <1> QED BY <1>1, <1>2, <1>3 DEF Read

\* The first eth_getLogs deals with every block of its range.
LEMMA ScanReads ==
  ASSUME IInv, ScanUsdc, watch'.pc = "alerts", NEW i \in watch.from..watch.to, i \in 1..Len(chain)
  PROVE  Read(chain[i], intent', skipped', late')
  <1> DEFINE logs == LogsIn(watch.from, watch.to, "usdc")
             linked == {l \in logs : link[l.log.from] # None}
  <1>1. /\ intent' = InsertDiscovered(linked)
        /\ skipped' = skipped \cup {l.key : l \in logs \ linked}
    BY DEF ScanUsdc, AfterScanError, Rest
  <1>2. watch.from \in Nat /\ watch.to \in Nat
    BY DEF IInv, Shapes, Watches
  <1>3. \A l \in LogsOf(chain[i], "usdc") : l \in logs
    BY <1>2, LogsInRange
  <1>4. \A l \in logs : l.key \in Keys /\ l.log.from \in Addresses /\ l.log.amount \in Nat
    BY ScannedLogs
  <1>5. \A l \in linked : intent'[l.key].status # "absent"
    <2> HIDE DEF logs
    <2> QED BY <1>1, <1>4, InsertShape
  <1>6. \A l \in logs \ linked : l.key \in skipped'
    BY <1>1
  <1> HIDE DEF logs
  <1> QED BY <1>3, <1>5, <1>6 DEF Read

\* Every step keeps what is known of the scan.
LEMMA ScanStep ==
  ASSUME IInv, [Next]_vars
  PROVE  ScanOK'
  <1>0. /\ ChainType /\ OtherType /\ WatchType /\ ScanOK
        /\ Len(chain) \in Nat /\ cursor \in Nat /\ began \in Nat /\ watch \in Watches
        /\ watch.to \in Nat
    BY TypeSplit DEF IInv, ChainType, OtherType, WatchType, Watches
  <1>1. \A i \in 1..Len(chain) :
          Passed(i) /\ chain'[i] = chain[i] => Read(chain'[i], intent', skipped', late')
    <2> SUFFICES ASSUME NEW i \in 1..Len(chain), Passed(i), chain'[i] = chain[i]
                 PROVE  Read(chain[i], intent', skipped', late')
      OBVIOUS
    <2>1. Read(chain[i], intent, skipped, late) /\ WellFormed(chain[i]) /\ chain[i] \in AnyBlock
      BY <1>0, BlockHash DEF ScanOK, IInv, ChainOK
    <2> QED BY <2>1, ReadStays
  <1>2. CASE MineBlock
    <2>1. /\ Len(chain') = Len(chain) + 1
          /\ \A i \in 1..Len(chain) : chain'[i] = chain[i]
      BY <1>2, MineChain
    <2>2. UNCHANGED <<cursor, watch, began>>
      BY <1>2 DEF MineBlock, history
    <2>3. \A i \in 1..Len(chain') : Passed(i)' => Passed(i) /\ i \in 1..Len(chain)
      BY <1>0, <2>1, <2>2 DEF Passed, ScanOK
    <2> QED BY <1>0, <1>1, <2>1, <2>2, <2>3 DEF ScanOK
  <1>3. ASSUME NEW d \in 1..MaxReorg, Reorg(d) PROVE ScanOK'
    <2>1. /\ Len(chain') = Len(chain)
          /\ \A i \in 1..Len(chain) : chain'[i] = chain[i] \/ (i <= ScannedTo => chain'[i].hash \in late')
      BY <1>3, ReorgChain
    <2>2. UNCHANGED <<cursor, watch, began>>
      BY <1>3 DEF Reorg
    <2>3. \A i \in 1..Len(chain) : Passed(i)' => Passed(i) /\ i <= ScannedTo
      BY <1>0, <2>2, MaxMin DEF Passed, ScannedTo
    <2>4. \A i \in 1..Len(chain) : Passed(i)' => Read(chain'[i], intent', skipped', late')
      BY <1>1, <2>1, <2>3 DEF Read
    <2> QED BY <1>0, <2>1, <2>2, <2>4 DEF ScanOK
  <1>4. CASE UNCHANGED <<chain, mined, late>>
    <2>1. CASE DiscoverBegin
      <3>1. Top \in Nat /\ Bootstrap \in Nat /\ Top = Len(chain)
        BY <1>0, MaxMin, DepositAssumption DEF Top, Bootstrap
      <3> DEFINE c == IF cursor = 0 THEN Bootstrap ELSE cursor
                 to == Min({c + MaxBlockRange, Top})
      <3>2. c \in Nat /\ (cursor # 0 => c = cursor)
        BY <1>0, <3>1
      <3>3. /\ cursor' = Max({cursor, c}) /\ began' = IF cursor = 0 THEN c ELSE began
            /\ \/ watch' = [Rest EXCEPT !.pc = "list"]
               \/ c < Top /\ watch' = [Rest EXCEPT !.pc = "scan", !.from = c + 1, !.to = to]
        BY <2>1, <3>1, <3>2 DEF DiscoverBegin
      <3> HIDE DEF c
      <3>4. cursor' = c
        BY <1>0, <3>2, <3>3, MaxMin
      <3>5. c + MaxBlockRange \in Int /\ MaxBlockRange >= 1
        BY <3>2, DepositAssumption
      <3>6. c < Top => to <= Top /\ c + 1 <= to
        <4>1. to = IF c + MaxBlockRange <= Top THEN c + MaxBlockRange ELSE Top
          BY <3>1, <3>5, MaxMin
        <4>2. MaxBlockRange \in Nat
          BY DepositAssumption
        <4> HIDE DEF to
        <4> QED BY <3>1, <3>2, <3>5, <4>1, <4>2
      <3> HIDE DEF to
      <3>7. /\ watch'.pc # "alerts"
            /\ watch'.pc = "scan" => watch'.from = c + 1 /\ watch'.to = to /\ c < Top
        BY <3>3 DEF Rest
      <3>8. \A i \in 1..Len(chain) : Passed(i)' => Passed(i)
        BY <1>0, <3>2, <3>3, <3>4, <3>7 DEF Passed
      <3>9. began' <= cursor' /\ (cursor' <= Len(chain) \/ cursor' = began')
        BY <1>0, <3>2, <3>3, <3>4 DEF ScanOK
      <3> QED BY <1>1, <1>4, <3>1, <3>4, <3>6, <3>7, <3>8, <3>9 DEF ScanOK
    <2>2. CASE ScanUsdc
      <3>1. /\ UNCHANGED <<cursor, began>> /\ watch.pc = "scan"
            /\ watch' = [watch EXCEPT !.pc = "alerts"] \/ watch' = [Rest EXCEPT !.pc = "list"]
        BY <2>2 DEF ScanUsdc, AfterScanError
      <3>2. /\ watch'.pc = "alerts" \/ watch'.pc = "list"
            /\ watch'.pc = "alerts" => watch'.from = watch.from /\ watch'.to = watch.to
        BY <1>0, <3>1 DEF Watches, Rest
      <3>3. \A i \in 1..Len(chain) : Passed(i)' => \/ Passed(i)
                                                   \/ watch'.pc = "alerts" /\ i \in watch.from..watch.to
        BY <1>0, <3>1, <3>2 DEF Passed, ScanOK
      <3>4. \A i \in 1..Len(chain) : Passed(i)' => Read(chain'[i], intent', skipped', late')
        BY <1>1, <1>4, <2>2, <3>3, ScanReads
      <3> QED BY <1>0, <1>4, <3>1, <3>2, <3>4 DEF ScanOK
    <2>3. CASE ScanWrongToken
      <3>1. /\ UNCHANGED began /\ watch.pc = "alerts" /\ cursor' = Max({cursor, watch.to})
            /\ watch' = [Rest EXCEPT !.pc = "list"]
        BY <2>3 DEF ScanWrongToken, history
      <3>2. cursor' = watch.to /\ cursor <= watch.to /\ watch.to <= Len(chain) /\ watch'.pc = "list"
        BY <1>0, <3>1, MaxMin DEF ScanOK, Rest
      <3>3. began' = began /\ watch.pc = "alerts"
        BY <3>1
      <3>4. \A i \in 1..Len(chain) : Passed(i)' => Passed(i)
        BY <1>0, <3>2, <3>3 DEF Passed
      <3>5. began <= cursor
        BY <1>0 DEF ScanOK
      <3> QED BY <1>0, <1>1, <1>4, <3>2, <3>3, <3>4, <3>5 DEF ScanOK
    <2>4. CASE \/ ListPendingIntents \/ VerifyCanonical \/ CreditIntent \/ WatcherError
               \/ \E k \in Keys : Inspect(k)
      <3>1. UNCHANGED <<cursor, began>>
        BY <2>4 DEF ListPendingIntents, VerifyCanonical, CreditIntent, Inspect, WatcherError, history
      <3>2. watch'.pc \notin {"scan", "alerts"}
        <4>1. \A k \in watch.todo : NextIntent(k).pc \in {"walk", "rest"}
          BY <1>0, NextIntentType
        <4>2. watch.pc \in {"verify", "credit"} => watch.key \in watch.todo
          BY <1>0 DEF WatchType
        <4>3. watch \in Watches /\ Rest \in Watches /\ Rest.pc = "rest"
          BY <1>0 DEF Rest, Watches
        <4> QED BY <2>4, <4>1, <4>2, <4>3
                DEF ListPendingIntents, VerifyCanonical, CreditIntent, Inspect, WatcherError, Watches
      <3>3. \A i \in 1..Len(chain) : Passed(i)' => Passed(i)
        BY <3>1, <3>2 DEF Passed
      <3> QED BY <1>0, <1>1, <1>4, <3>1, <3>2, <3>3 DEF ScanOK
    <2>5. CASE UNCHANGED <<watch, cursor, began, skipped>>
      BY <1>0, <1>1, <1>4, <2>5 DEF ScanOK, Passed
    <2> QED BY <2>1, <2>2, <2>3, <2>4, <2>5, WatchFrame DEF WatcherStep
  <1> QED BY <1>2, <1>3, <1>4, ChainFrame

-----------------------------------------------------------------------------
(* The credit *)

\* What a receipt that matches says of the chain.
LEMMA ReceiptMatch ==
  ASSUME IInv, NEW t, Receipt(t).found = "match"
  PROVE  /\ Receipt(t).block \in Mined(t) /\ Receipt(t).block \in 1..Len(chain)
         /\ chain[Receipt(t).block].tx = t /\ Matches(chain[Receipt(t).block])
  <1>1. Mined(t) # {}
    BY DEF Receipt
  <1> DEFINE i == CHOOSE i \in Mined(t) : TRUE
  <1>2. i \in Mined(t) /\ Receipt(t).block = i
    BY <1>1 DEF Receipt
  <1> DEFINE e == chain[i].effect
             coins == {e.logs[j].coin : j \in DOMAIN e.logs}
  <1>3. Receipt(t).found = IF ~ e.ok THEN "tx_reverted"
                           ELSE IF "usdc" \in coins THEN "match"
                           ELSE IF "other" \in coins THEN "wrong_token" ELSE "no_match"
    BY <1>1 DEF Receipt
  <1> HIDE DEF e, coins
  <1>4. e.ok /\ "usdc" \in coins
    BY <1>3
  <1>5. chain[i].effect.ok /\ \E j \in DOMAIN chain[i].effect.logs : chain[i].effect.logs[j].coin = "usdc"
    BY <1>4 DEF e, coins
  <1> HIDE DEF i
  <1> QED BY <1>2, <1>5 DEF Mined, Matches, Top

\* Every step keeps what the walk knows of the intent in hand.
LEMMA VerifyStep ==
  ASSUME IInv, [Next]_vars
  PROVE  VerifyOK'
  <1>0. /\ ChainType /\ WatchType /\ VerifyOK /\ watch \in Watches
        /\ Len(chain) \in Nat /\ mined \in Nat /\ watch.head \in Nat /\ watch.block \in Nat
        /\ watch.hash \in Nat
    BY TypeSplit DEF IInv, ChainType, WatchType, Watches
  <1>1. CASE MineBlock
    <2>1. /\ Len(chain') = Len(chain) + 1
          /\ \A i \in 1..Len(chain) : chain'[i] = chain[i]
      BY <1>1, MineChain
    <2>2. UNCHANGED watch /\ mined' = mined + 1
      BY <1>1 DEF MineBlock
    <2> QED BY <1>0, <2>1, <2>2 DEF VerifyOK, Matches
  <1>2. ASSUME NEW d \in 1..MaxReorg, Reorg(d) PROVE VerifyOK'
    <2>1. /\ Len(chain') = Len(chain)
          /\ \A i \in 1..Len(chain) : chain'[i] = chain[i] \/ chain'[i].hash > mined
      BY <1>2, ReorgChain
    <2>2. UNCHANGED watch /\ mined' = mined + d /\ d \in Nat
      BY <1>2, DepositAssumption DEF Reorg
    <2>3. watch.pc = "verify" /\ chain'[watch.block].hash = watch.hash
            => chain'[watch.block] = chain[watch.block]
      BY <1>0, <2>1 DEF VerifyOK
    <2> QED BY <1>0, <2>1, <2>2, <2>3 DEF VerifyOK, Matches
  <1>3. CASE UNCHANGED <<chain, mined, late>>
    <2>1. CASE UNCHANGED <<watch, cursor, began, skipped>>
      BY <1>0, <1>3, <2>1 DEF VerifyOK, Matches
    <2>2. CASE watch'.pc # "verify" /\ watch'.head <= Len(chain)
      BY <1>0, <1>3, <2>2 DEF VerifyOK
    <2>3. CASE DiscoverBegin \/ ScanUsdc \/ ScanWrongToken \/ ListPendingIntents
      <3>1. watch'.pc # "verify" /\ watch'.head \in {0, watch.head, Len(chain)}
        <4>1. CASE DiscoverBegin
          BY <4>1 DEF DiscoverBegin, Rest
        <4>2. CASE ScanUsdc
          <5>1. watch' = [watch EXCEPT !.pc = "alerts"] \/ watch' = [Rest EXCEPT !.pc = "list"]
            BY <4>2 DEF ScanUsdc, AfterScanError
          <5> QED BY <1>0, <5>1 DEF Watches, Rest
        <4>3. CASE ScanWrongToken
          BY <4>3 DEF ScanWrongToken, Rest
        <4>4. CASE ListPendingIntents
          BY <4>4 DEF ListPendingIntents, Rest, Top
        <4> QED BY <2>3, <4>1, <4>2, <4>3, <4>4
      <3> QED BY <1>0, <2>2, <3>1 DEF VerifyOK
    <2>4. ASSUME NEW k \in watch.todo, watch' = NextIntent(k) PROVE VerifyOK'
      BY <1>0, <2>2, <2>4, NextIntentType DEF VerifyOK
    <2>5. CASE VerifyCanonical \/ CreditIntent
      <3>1. watch.key \in watch.todo
        BY <1>0, <2>5 DEF VerifyCanonical, CreditIntent, WatchType
      <3>2. CASE watch' = [watch EXCEPT !.pc = "credit"]
        BY <1>0, <2>2, <3>2 DEF VerifyOK, Watches
      <3> QED BY <2>4, <2>5, <3>1, <3>2 DEF VerifyCanonical, CreditIntent
    <2>6. ASSUME NEW k \in Keys, Inspect(k) PROVE VerifyOK'
      <3> DEFINE rc == Receipt(k[1])
      <3>1. CASE watch' = NextIntent(k)
        BY <2>4, <2>6, <3>1 DEF Inspect
      <3>2. CASE /\ rc.found = "match" /\ ReachedThreshold(rc)
                 /\ watch' = [watch EXCEPT !.pc = "verify", !.key = k, !.block = rc.block,
                                           !.hash = chain[rc.block].hash]
        <4>1. rc.block \in 1..Len(chain) /\ chain[rc.block].tx = k[1] /\ Matches(chain[rc.block])
          BY <3>2, ReceiptMatch
        <4>2. chain[rc.block].hash <= mined
          BY <4>1 DEF IInv, ChainOK
        <4>3. watch.head - rc.block + 1 >= Confirmations
          BY <3>2 DEF ReachedThreshold
        <4>4. /\ watch'.head = watch.head /\ watch'.block = rc.block /\ watch'.key = k
              /\ watch'.hash = chain[rc.block].hash
          BY <1>0, <3>2 DEF Watches
        <4> HIDE DEF rc
        <4> QED BY <1>0, <1>3, <4>1, <4>2, <4>3, <4>4 DEF VerifyOK, Matches
      <3> QED BY <2>6, <3>1, <3>2 DEF Inspect
    <2>7. CASE WatcherError
      <3>1. CASE watch' = [Rest EXCEPT !.pc = "list"] \/ watch' = Rest
        BY <1>0, <2>2, <3>1 DEF Rest
      <3>2. watch.pc \in {"verify", "credit"} => watch.key \in watch.todo
        BY <1>0 DEF WatchType
      <3> QED BY <2>4, <2>7, <3>1, <3>2 DEF WatcherError
    <2> QED BY <2>1, <2>3, <2>5, <2>6, <2>7, WatchFrame DEF WatcherStep
  <1> QED BY <1>1, <1>2, <1>3, ChainFrame

-----------------------------------------------------------------------------
(* The money *)

\* A row that is written adds its delta.
LEMMA SumOfAdd ==
  ASSUME NEW S, IsFiniteSet(S), NEW row, row \notin S, \A r \in S \cup {row} : r.delta \in Int
  PROVE  SumOf(S \cup {row}) = SumOf(S) + row.delta
  <1> DEFINE T == S \cup {row}
             f == [r \in T |-> r.delta]
             g == [r \in S |-> r.delta]
  <1>1. \A r \in T : f[r] \in Int
    OBVIOUS
  <1>2. SumFunctionOnSet(f, T) = f[row] + SumFunctionOnSet(f, S)
    <2> HIDE DEF f
    <2> QED BY <1>1, SumAdd
  <1>3. SumFunctionOnSet(f, S) = SumFunctionOnSet(g, S)
    <2>1. \A r \in S : f[r] = g[r]
      OBVIOUS
    <2> HIDE DEF f, g
    <2> QED BY <2>1, SumSame
  <1>4. SumFunctionOnSet(g, S) \in Int
    <2>1. \A r \in S : g[r] \in Int
      OBVIOUS
    <2> HIDE DEF g
    <2> QED BY <2>1, SumType
  <1>5. f[row] = row.delta /\ row.delta \in Int
    OBVIOUS
  <1> HIDE DEF f, g
  <1> QED BY <1>2, <1>3, <1>4, <1>5 DEF SumOf, f, g

\* A credit of an intent that was not credited writes its one row, and adds it
\* to the wallet and to the bank.
LEMMA CreditMoney ==
  ASSUME IInv, NEW k \in Keys, NEW n \in Nat, intent[k].status \notin {"absent", "credited"}, Credit(k, n)
  PROVE  MoneyOK'
  <1> DEFINE row == [key |-> k, user |-> intent[k].user, delta |-> n]
             mine(u) == {r \in ledger : r.user = u}
             own(x) == {r \in ledger : r.key = x}
  <1>0. IntentType /\ MoneyType /\ MoneyFollowsLedger /\ IsFiniteSet(ledger) /\ intent[k].user \in Users
    BY TypeSplit DEF IInv, MoneyOK, OwnersOK
  <1>1. \A r \in ledger : r.key # k
    BY <1>0 DEF MoneyFollowsLedger
  <1>2. ledger' = ledger \cup {row} /\ row \notin ledger
    BY <1>1 DEF Credit, CreditRow
  <1>3. balance' = [balance EXCEPT ![intent[k].user] = @ + n] /\ bank' = bank + n
    BY DEF Credit
  <1>4. \A r \in ledger \cup {row} : r.delta \in Int
    BY <1>0 DEF MoneyType
  <1>5. IsFiniteSet(ledger')
    BY <1>0, <1>2, FS_AddElement
  <1>6. bank' = SumOf(ledger')
    BY <1>0, <1>2, <1>3, <1>4, SumOfAdd DEF MoneyFollowsLedger
  <1>7. ASSUME NEW u \in Users PROVE balance'[u] = SumOf({r \in ledger' : r.user = u})
    <2>1. balance[u] = SumOf(mine(u)) /\ balance[u] \in Int
      BY <1>0 DEF MoneyFollowsLedger, MoneyType
    <2>2. CASE u = intent[k].user
      <3>1. {r \in ledger' : r.user = u} = mine(u) \cup {row}
        BY <1>2, <2>2
      <3>2. IsFiniteSet(mine(u)) /\ row \notin mine(u) /\ \A r \in mine(u) \cup {row} : r.delta \in Int
        BY <1>0, <1>2, <1>4, FS_Subset
      <3>3. SumOf(mine(u) \cup {row}) = SumOf(mine(u)) + row.delta
        <4> HIDE DEF mine, row
        <4> QED BY <3>2, SumOfAdd
      <3>4. balance'[u] = balance[u] + n
        BY <1>0, <1>3, <2>2 DEF MoneyType
      <3> HIDE DEF mine
      <3> QED BY <2>1, <3>1, <3>3, <3>4
    <2>3. CASE u # intent[k].user
      <3>1. {r \in ledger' : r.user = u} = mine(u)
        BY <1>2, <2>3
      <3>2. balance'[u] = balance[u]
        BY <1>0, <1>3, <2>3 DEF MoneyType
      <3> HIDE DEF mine
      <3> QED BY <2>1, <3>1, <3>2
    <2> QED BY <2>2, <2>3
  <1>8. intent' = [intent EXCEPT ![k] = [intent[k] EXCEPT !.status = "credited", !.amount = n]]
    BY <1>0, CreditType
  <1>9. ASSUME NEW x \in Keys
        PROVE  LET rows == {r \in ledger' : r.key = x}
               IN IF intent'[x].status = "credited"
                  THEN \E r \in rows : rows = {r} /\ r.delta = intent'[x].amount
                  ELSE rows = {}
    <2>1. CASE x = k
      <3> DEFINE rows == {r \in ledger' : r.key = x}
      <3>1. rows = {row} /\ row.delta = n
        BY <1>1, <1>2, <2>1
      <3>2. intent'[x].status = "credited" /\ intent'[x].amount = n
        BY <1>0, <1>8, <2>1 DEF IntentType, Intents
      <3> HIDE DEF rows, row
      <3>3. row \in rows /\ rows = {row} /\ row.delta = intent'[x].amount
        BY <3>1, <3>2
      <3>4. \E r \in rows : rows = {r} /\ r.delta = intent'[x].amount
        BY <3>3
      <3> QED BY <3>2, <3>4 DEF rows
    <2>2. CASE x # k
      <3>1. {r \in ledger' : r.key = x} = {r \in ledger : r.key = x}
        BY <1>2, <2>2
      <3>2. intent'[x] = intent[x]
        BY <1>0, <1>8, <2>2 DEF IntentType
      <3> QED BY <1>0, <3>1, <3>2 DEF MoneyFollowsLedger
    <2> QED BY <2>1, <2>2
  <1> QED BY <1>5, <1>6, <1>7, <1>9 DEF MoneyOK, MoneyFollowsLedger

\* A step that writes no money and leaves credited intents alone.
LEMMA MoneyFrame ==
  ASSUME IInv, UNCHANGED moneyVars,
         \A k \in Keys : /\ intent'[k].status = "credited" <=> intent[k].status = "credited"
                         /\ intent[k].status = "credited" => intent'[k].amount = intent[k].amount
  PROVE  MoneyOK'
  <1>1. MoneyFollowsLedger /\ IsFiniteSet(ledger) /\ UNCHANGED <<balance, ledger, bank>>
    BY DEF IInv, MoneyOK, moneyVars
  <1>2. \A k \in Keys : LET rows == {r \in ledger : r.key = k}
                        IN IF intent'[k].status = "credited"
                           THEN \E r \in rows : rows = {r} /\ r.delta = intent'[k].amount
                           ELSE rows = {}
    BY <1>1 DEF MoneyFollowsLedger
  <1> QED BY <1>1, <1>2 DEF MoneyFollowsLedger, MoneyOK, SumOf

\* Every step keeps the books.
LEMMA MoneyStep ==
  ASSUME IInv, [Next]_vars
  PROVE  MoneyOK'
  <1>0. IntentType /\ WatchType
    BY TypeSplit DEF IInv
  <1>1. CASE ScanUsdc
    <2>1. PICK stored : /\ stored \subseteq {l \in LogsIn(watch.from, watch.to, "usdc") :
                                              link[l.log.from] # None}
                        /\ intent' = InsertDiscovered(stored)
      BY <1>1 DEF ScanUsdc
    <2>2. \A l \in stored : /\ l.key \in Keys /\ l.log.from \in Addresses /\ l.log.amount \in Nat
                            /\ link[l.log.from] # None
      BY <2>1, ScannedLogs
    <2>3. /\ \A k \in Keys : intent[k].status # "absent" => intent'[k] = intent[k]
          /\ \A k \in Keys : intent[k].status = "absent" => intent'[k].status # "credited"
      BY <2>1, <2>2, InsertShape
    <2>4. UNCHANGED moneyVars
      BY <1>1 DEF ScanUsdc
    <2> QED BY <2>3, <2>4, MoneyFrame
  <1>2. CASE CreditIntent
    <2>1. watch.key \in Keys
      BY <1>0, <1>2 DEF CreditIntent, WatchType, Watches
    <2>2. CASE UNCHANGED <<intentVars, moneyVars>>
      BY <2>2, MoneyFrame DEF intentVars
    <2>3. CASE Creditable(watch.key) /\ Credit(watch.key, intent[watch.key].amount)
      <3>1. intent[watch.key].status = "confirming" /\ intent[watch.key].amount \in Nat
        BY <1>0, <2>1, <2>3 DEF Creditable, Pending, IntentType, Intents
      <3> QED BY <2>1, <2>3, <3>1, CreditMoney
    <2> QED BY <1>2, <2>2, <2>3 DEF CreditIntent
  <1>3. ASSUME NEW k \in Keys, Inspect(k) PROVE MoneyOK'
    <2>1. UNCHANGED moneyVars
      BY <1>3 DEF Inspect
    <2>2. \A x \in Keys : /\ intent'[x].status = "credited" <=> intent[x].status = "credited"
                          /\ intent[x].status = "credited" => intent'[x].amount = intent[x].amount
      BY <1>0, <1>3 DEF Inspect, RejectIntent, Pending, IntentType, Intents, intentVars
    <2> QED BY <2>1, <2>2, MoneyFrame
  <1>4. ASSUME NEW k \in Keys, AdminReject(k) \/ AcknowledgeWrongToken(k) PROVE MoneyOK'
    <2>1. UNCHANGED moneyVars
      BY <1>4 DEF AdminReject, AcknowledgeWrongToken
    <2>2. \A x \in Keys : /\ intent'[x].status = "credited" <=> intent[x].status = "credited"
                          /\ intent[x].status = "credited" => intent'[x].amount = intent[x].amount
      BY <1>0, <1>4 DEF AdminReject, AcknowledgeWrongToken, Pending, IntentType, Intents
    <2> QED BY <2>1, <2>2, MoneyFrame
  <1>5. ASSUME NEW k \in Keys, NEW m \in ManualAmounts, CreditManual(k, m) PROVE MoneyOK'
    BY <1>5, CreditMoney, DepositAssumption DEF CreditManual
  <1>6. CASE UNCHANGED <<intent, moneyVars>>
    BY <1>6, MoneyFrame
  <1> QED BY <1>1, <1>2, <1>3, <1>4, <1>5, <1>6, IntentFrame

-----------------------------------------------------------------------------
(* The theorems *)

\* A fork or a new block keeps the chain well formed; nobody else writes it.
LEMMA ChainStep ==
  ASSUME IInv, [Next]_vars
  PROVE  ChainOK'
  <1>1. CASE UNCHANGED <<chain, mined, late>>
    BY <1>1 DEF IInv, ChainOK, WellFormed
  <1> QED BY <1>1, MineChain, ReorgChain, ChainFrame

\* The invariant holds at the start.
LEMMA InitInv == Init => IInv
  <1> SUFFICES ASSUME Init PROVE IInv
    OBVIOUS
  <1>1. chain = <<>> /\ chain \in Seq(AnyBlock) /\ Len(chain) = 0
    BY DEF Init
  <1>2. ChainType /\ OtherType /\ IntentType /\ MoneyType
    BY <1>1, DepositAssumption
    DEF Init, ChainType, OtherType, IntentType, MoneyType, OwnersOK, Intents, Absent
  <1>3. WatchType
    BY DepositAssumption DEF Init, WatchType, Watches, Rest
  <1>4. TypeOK /\ Shapes /\ OwnersOK
    BY <1>2, <1>3, TypeSplit
  <1>5. ChainOK /\ ScanOK /\ VerifyOK
    BY <1>1, DepositAssumption DEF Init, ChainOK, ScanOK, VerifyOK, Rest
  <1>6. IsFiniteSet(ledger) /\ SumOf({}) = 0
    BY FS_EmptySet, SumEmpty DEF Init, SumOf
  <1>7. MoneyFollowsLedger
    <2>1. \A u \in Users : {r \in ledger : r.user = u} = {} /\ balance[u] = 0
      BY DEF Init
    <2>2. ledger = {} /\ bank = 0
      BY DEF Init
    <2>3. \A k \in Keys : {r \in ledger : r.key = k} = {} /\ intent[k].status = "absent"
      BY DEF Init, Absent
    <2> QED BY <1>6, <2>1, <2>2, <2>3 DEF MoneyFollowsLedger
  <1> QED BY <1>4, <1>5, <1>6, <1>7 DEF IInv, MoneyOK

\* The invariant is inductive.
THEOREM Inductive == Spec => []IInv
  <1>1. IInv /\ [Next]_vars => IInv'
    <2> SUFFICES ASSUME IInv, [Next]_vars PROVE IInv'
      OBVIOUS
    <2>1. (TypeOK /\ Shapes /\ OwnersOK)'
      BY TypeStep
    <2>2. ChainOK' /\ ScanOK' /\ VerifyOK' /\ MoneyOK'
      BY ChainStep, ScanStep, VerifyStep, MoneyStep
    <2> QED BY <2>1, <2>2 DEF IInv
  <1> QED BY <1>1, InitInv, PTL DEF Spec

\* The tick's worklist, head and cursor, the intents and the books are well
\* formed at every step (processor.go Tick).
THEOREM TypeCorrect == Spec => []TypeOK
  <1>1. IInv => TypeOK
    BY DEF IInv
  <1> QED BY <1>1, Inductive, PTL

\* Wallets, bank and ledger agree and a credited intent has its one row, however
\* the watcher, its restarts and the operator interleave (store.go
\* CreditIntent, deposits.ts credit-manual).
THEOREM BooksBalance == Spec => []MoneyFollowsLedger
  <1>1. IInv => MoneyFollowsLedger
    BY DEF IInv, MoneyOK
  <1> QED BY <1>1, Inductive, PTL

\* No transfer the cursor passed is lost (scanner.go DiscoverIncoming).
THEOREM ScanComplete == Spec => []ScanIsComplete
  <1>1. IInv => ScanIsComplete
    <2> SUFFICES ASSUME IInv, NEW i \in (began + 1)..Min({cursor, Top})
                 PROVE  \/ chain[i].hash \in late
                        \/ \A l \in LogsIn(i, i, "usdc") :
                             intent[l.key].status # "absent" \/ l.key \in skipped
      BY DEF ScanIsComplete
    <2>1. cursor \in Nat /\ began \in Nat /\ Len(chain) \in Nat
      BY TypeSplit DEF IInv, OtherType, ChainType
    <2>2. i \in Nat /\ i \in 1..Len(chain) /\ i \in (began + 1)..cursor
      <3>1. Min({cursor, Len(chain)}) = IF cursor <= Len(chain) THEN cursor ELSE Len(chain)
        <4>1. cursor \in Int /\ Len(chain) \in Int
          BY <2>1
        <4> QED BY <4>1, MaxMin
      <3> QED BY <2>1, <3>1 DEF Top
    <2>3. Read(chain[i], intent, skipped, late)
      BY <2>2 DEF IInv, ScanOK, Passed
    <2>4. \A l : l \in LogsIn(i, i, "usdc") => l \in LogsOf(chain[i], "usdc")
      BY <2>2, LogsInRange
    <2> QED BY <2>3, <2>4 DEF Read
  <1> QED BY <1>1, Inductive, PTL

\* A walk that goes on to credit an intent has just been told that the block of
\* its receipt is still there.
LEMMA CreditBegins ==
  ASSUME IInv, [Next]_vars, watch' # watch, watch'.pc = "credit"
  PROVE  watch.pc = "verify" /\ StillCanonical /\ watch'.key = watch.key
  <1>0. WatchType
    BY TypeSplit DEF IInv
  <1>1. \A k \in watch.todo : NextIntent(k).pc # "credit"
    BY <1>0, NextIntentType
  <1>2. watch.pc \in {"verify", "credit"} => watch.key \in watch.todo
    BY <1>0 DEF WatchType
  <1>3. watch \in Watches /\ Rest \in Watches /\ Rest.pc = "rest"
    BY <1>0 DEF WatchType, Rest, Watches
  <1>4. ~ DiscoverBegin /\ ~ ScanWrongToken /\ ~ ListPendingIntents
    BY <1>3 DEF DiscoverBegin, ScanWrongToken, ListPendingIntents, Watches
  <1>5. ~ ScanUsdc
    BY <1>3 DEF ScanUsdc, AfterScanError, Watches
  <1>6. ~ CreditIntent /\ ~ WatcherError
    BY <1>1, <1>2, <1>3 DEF CreditIntent, WatcherError, Watches
  <1>7. \A k \in Keys : ~ Inspect(k)
    BY <1>1, <1>3 DEF Inspect, Watches
  <1>8. VerifyCanonical
    BY <1>4, <1>5, <1>6, <1>7, WatchFrame DEF WatcherStep
  <1> QED BY <1>1, <1>2, <1>3, <1>8 DEF VerifyCanonical, Watches

\* The watcher credits only what was confirmed on the canonical chain at the
\* last answer of the node it asked for (processor.go handleOne).
THEOREM OnlyConfirmedCredited == Spec => CreditIsConfirmed
  <1> DEFINE A == \A k \in Keys :
       /\ intent[k].status # "credited" /\ intent'[k].status = "credited" /\ watch' # watch
            => watch.pc = "credit" /\ watch.key = k
       /\ watch'.pc = "credit" /\ watch'.key = k /\ watch' # watch => Confirmed(k[1])
  <1>1. ASSUME IInv, [Next]_vars, NEW k \in Keys, intent[k].status # "credited",
               intent'[k].status = "credited", watch' # watch
        PROVE  watch.pc = "credit" /\ watch.key = k
    <2>0. IntentType /\ WatchType
      BY <1>1, TypeSplit DEF IInv
    <2>1. ~ ScanUsdc
      <3> SUFFICES ASSUME ScanUsdc PROVE FALSE
        OBVIOUS
      <3>1. PICK stored : /\ stored \subseteq {l \in LogsIn(watch.from, watch.to, "usdc") :
                                                 link[l.log.from] # None}
                          /\ intent' = InsertDiscovered(stored)
        BY DEF ScanUsdc
      <3>2. \A l \in stored : /\ l.key \in Keys /\ l.log.from \in Addresses /\ l.log.amount \in Nat
                              /\ link[l.log.from] # None
        BY <1>1, <3>1, ScannedLogs
      <3> QED BY <1>1, <3>1, <3>2, InsertShape
    <2>2. \A x \in Keys : ~ Inspect(x)
      BY <1>1, <2>0 DEF Inspect, RejectIntent, IntentType, Intents, intentVars
    <2>3. \A x \in Keys : /\ ~ AdminReject(x) /\ ~ AcknowledgeWrongToken(x)
                          /\ \A m \in ManualAmounts : ~ CreditManual(x, m)
      BY <1>1 DEF AdminReject, AcknowledgeWrongToken, CreditManual
    <2>4. CreditIntent
      BY <1>1, <2>1, <2>2, <2>3, IntentFrame
    <2>5. Credit(watch.key, intent[watch.key].amount) /\ watch.pc = "credit"
      BY <1>1, <2>4 DEF CreditIntent, intentVars
    <2> QED BY <1>1, <2>0, <2>5 DEF Credit, IntentType, Intents
  <1>2. ASSUME IInv, [Next]_vars, NEW k \in Keys, watch'.pc = "credit", watch'.key = k,
               watch' # watch
        PROVE  Confirmed(k[1])
    <2>0. WatchType /\ ChainType
      BY <1>2, TypeSplit DEF IInv
    <2>1. watch.pc = "verify" /\ StillCanonical /\ k = watch.key
      BY <1>2, CreditBegins
    <2> DEFINE b == watch.block
    <2>2. /\ b \in 1..Len(chain) /\ chain[b].tx = k[1] /\ Matches(chain[b])
          /\ watch.head - b + 1 >= Confirmations /\ watch.head <= Len(chain)
      BY <1>2, <2>1 DEF IInv, VerifyOK, StillCanonical
    <2>3. k[1] \in Txs
      BY DEF Keys
    <2>4. Mined(k[1]) = {b}
      BY <1>2, <2>2, <2>3, DepositAssumption DEF Mined, Top, IInv, ChainOK
    <2>5. Receipt(k[1]).found = "match"
      BY <2>2, <2>4 DEF Receipt, Matches
    <2>6. Top - b + 1 >= Confirmations
      <3>1. watch.head \in Nat /\ Len(chain) \in Nat /\ b \in Nat /\ Confirmations \in Nat
        BY <2>0, DepositAssumption DEF WatchType, Watches, ChainType
      <3> QED BY <2>2, <3>1 DEF Top
    <2> QED BY <2>4, <2>5, <2>6 DEF Confirmed
  <1>3. IInv /\ [Next]_vars => A
    BY <1>1, <1>2
  <1> QED BY <1>3, Inductive, PTL DEF Spec, CreditIsConfirmed
=============================================================================
