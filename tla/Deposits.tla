------------------------------ MODULE Deposits ------------------------------
(***************************************************************************)
(* USDC deposits: the wallet-watcher that finds transfers to the receive   *)
(* address, records them as deposit_intents and credits them once they are *)
(* confirmed, and the operator who credits or rejects an intent by hand.   *)
(*                                                                         *)
(* The watcher is one process. Every call to the Ethereum node is a step   *)
(* of its own, because blocks arrive and forks are replaced between two of *)
(* them; a database statement goes with the call whose answer it stores.   *)
(* The chain is external: it is modelled from what the node's answers may  *)
(* be. A transaction that a fork drops can be mined again, its logs at      *)
(* other positions of the new block (logIndex counts in the block) and     *)
(* with another outcome; the node never moves to a shorter chain.          *)
(***************************************************************************)
EXTENDS Integers, Sequences, FiniteSets, FiniteSetsExt

CONSTANTS
  Txs,            \* transactions that may call a token contract
  Effects,        \* tx -> the outcomes its execution may have
  Addresses,      \* senders
  Users,          \* bettors, each with a USDC wallet
  None,           \* no transaction, no user, no row
  Bases,          \* log positions a transaction may start at in its block
  Positions,      \* log indexes
  ManualAmounts,  \* amounts an operator may type
  Confirmations,  \* ETH_CONFIRMATIONS
  StartBlock,     \* ETH_DISCOVERY_START_BLOCK, 0 when unset
  StartLookback,  \* blocks looked back at bootstrap when StartBlock is unset
  MaxBlockRange,  \* discoveryMaxBlockRange
  MaxReorg,       \* deepest fork the node replaces
  MaxMined,       \* bound: blocks ever mined
  MaxErrors       \* bound: failed calls and restarts of the watcher

Keys == Txs \X Positions  \* UNIQUE (network, tx_hash, log_index)

\* What a call of a token contract may come to: it went through or reverted,
\* with the Transfer logs it left.
Outcomes ==
  [ok: BOOLEAN, logs: Seq([coin: {"usdc", "other"}, from: Addresses, amount: Nat])]

ASSUME DepositAssumption ==
  /\ IsFiniteSet(Txs) /\ IsFiniteSet(Users)
  /\ \A t \in Txs : \A e \in Effects[t] :
       e \in Outcomes /\ \A b \in Bases, j \in DOMAIN e.logs : b + j - 1 \in Positions
  /\ Positions \subseteq Nat /\ Bases \subseteq Positions
  /\ ManualAmounts \subseteq Nat \ {0}
  /\ Confirmations \in Nat \ {0} /\ MaxBlockRange \in Nat \ {0}
  /\ {StartBlock, StartLookback, MaxReorg, MaxMined, MaxErrors} \subseteq Nat
  /\ None \notin Txs \cup Users \cup Keys

VARIABLES
  chain,        \* the canonical chain as the node answers, blocks 1..Len(chain)
  mined,        \* blocks ever mined; a block's hash is its number in this count
  link,         \* user_wallet_addresses: the user an address belongs to
  cursor,       \* chain_scanner_state.last_block_number, 0 before bootstrap
  watch,        \* where the watcher is in its tick
  intent,       \* deposit_intents
  unattributed, \* unattributed_deposits: wrong-token alerts
  balance,      \* wallets.balance_micro (USDC), moved by deposits alone here
  ledger,       \* wallet_ledger and riskzilla_bank_ledger rows of type deposit
  bank,         \* riskzilla_bank_state.bank_limit_micro
  errors,       \* faults spent
  skipped,      \* history: logs a scan read whose sender was not linked
  late,         \* history: blocks put at a height the scan had already read
  began         \* history: the cursor discovery began with; earlier blocks are never read

intentVars == <<intent, unattributed>>
moneyVars == <<balance, ledger, bank>>
history == <<skipped, late, began>>
vars == <<chain, mined, link, cursor, watch, intentVars, moneyVars, errors, history>>

-----------------------------------------------------------------------------
(* The chain *)

\* eth_blockNumber
Top == Len(chain)
Mined(t) == {i \in 1..Top : chain[i].tx = t}

\* Logs of the transactions of blocks from..to, as eth_getLogs returns them.
LogsIn(from, to, coin) ==
  {l \in UNION {{[key |-> <<chain[i].tx, chain[i].base + j - 1>>, log |-> chain[i].effect.logs[j]] :
                   j \in DOMAIN chain[i].effect.logs} : i \in from..to \cap 1..Top} :
     l.log.coin = coin}

\* What eth_getTransactionReceipt and the two passes over its logs say of t.
Receipt(t) ==
  IF Mined(t) = {} THEN [found |-> "no", block |-> 0]
  ELSE LET i == CHOOSE i \in Mined(t) : TRUE
           e == chain[i].effect
           coins == {e.logs[j].coin : j \in DOMAIN e.logs}
       IN [found |-> IF ~ e.ok THEN "tx_reverted"
                     ELSE IF "usdc" \in coins THEN "match"
                     ELSE IF "other" \in coins THEN "wrong_token" ELSE "no_match",
           block |-> i]

\* A block with t, or with no transaction of interest, under the next hash.
Block(n, t, base, e) == [hash |-> n, tx |-> t, base |-> base, effect |-> e]
NoEffect == [ok |-> TRUE, logs |-> <<>>]

Blocks(n, free) ==
  {Block(n, None, 0, NoEffect)}
    \cup UNION {{Block(n, t, b, e) : b \in Bases, e \in Effects[t]} : t \in free}

Unmined(c) == Txs \ {c[i].tx : i \in DOMAIN c}

MineBlock ==
  /\ mined < MaxMined
  /\ \E b \in Blocks(mined + 1, Unmined(chain)) : chain' = Append(chain, b)
  /\ mined' = mined + 1
  /\ UNCHANGED <<link, cursor, watch, intentVars, moneyVars, errors, history>>

\* Heights the scan has read: up to the cursor, and up to the end of the range
\* of a scan that is past its first eth_getLogs.
ScannedTo == IF watch.pc = "alerts" THEN Max({cursor, watch.to}) ELSE cursor

\* The last d blocks are replaced by d others.
Reorg(d) ==
  /\ d <= Top /\ mined + d <= MaxMined
  /\ LET keep == SubSeq(chain, 1, Top - d)
     IN \E bs \in [1..d -> UNION {Blocks(mined + j, Unmined(keep)) : j \in 1..d}] :
          /\ \A j \in 1..d : bs[j].hash = mined + j
          /\ \A j, k \in 1..d : j # k => bs[j].tx = None \/ bs[j].tx # bs[k].tx
          /\ chain' = keep \o bs
          /\ late' = late \cup {bs[j].hash : j \in {j \in 1..d : Top - d + j <= ScannedTo}}
  /\ mined' = mined + d
  /\ UNCHANGED <<link, cursor, watch, intentVars, moneyVars, errors, skipped, began>>

-----------------------------------------------------------------------------
(* Linked sender addresses *)

\* A conflict when the address is linked already; the signature that proves
\* control of it is checked before the insert.
LinkAddress(u, a) ==
  /\ link[a] = None
  /\ link' = [link EXCEPT ![a] = u]
  /\ UNCHANGED <<chain, mined, cursor, watch, intentVars, moneyVars, errors, history>>

UnlinkAddress(u, a) ==
  /\ link[a] = u
  /\ link' = [link EXCEPT ![a] = None]
  /\ UNCHANGED <<chain, mined, cursor, watch, intentVars, moneyVars, errors, history>>

-----------------------------------------------------------------------------
(* The watcher: discovery *)

Rest == [pc |-> "rest", from |-> 0, to |-> 0, head |-> 0, todo |-> {}, key |-> None,
         block |-> 0, hash |-> 0]

Absent == [status |-> "absent", user |-> None, amount |-> 0, reason |-> "none"]
Pending(r) == r.status = "confirming"

Bootstrap == IF StartBlock > 0 THEN StartBlock - 1 ELSE Max({Top - StartLookback, 0})

\* The head and the cursor are read; caught up, discovery ends here.
DiscoverBegin ==
  LET c == IF cursor = 0 THEN Bootstrap ELSE cursor
  IN /\ watch.pc = "rest"
     /\ cursor' = Max({cursor, c})
     /\ watch' = IF Top <= c THEN [Rest EXCEPT !.pc = "list"]
                 ELSE [Rest EXCEPT !.pc = "scan", !.from = c + 1,
                                   !.to = Min({c + MaxBlockRange, Top})]
     /\ began' = IF cursor = 0 THEN c ELSE began
     /\ UNCHANGED <<chain, mined, link, intentVars, moneyVars, errors, skipped, late>>

\* ON CONFLICT (network, tx_hash, log_index) DO NOTHING
InsertDiscovered(logs) ==
  [k \in Keys |->
     IF intent[k].status = "absent" /\ \E l \in logs : l.key = k
     THEN LET l == CHOOSE l \in logs : l.key = k
          IN [status |-> "confirming", user |-> link[l.log.from], amount |-> l.log.amount,
              reason |-> "none"]
     ELSE intent[k]]

\* Wrong: the error is logged and the scan goes on to move the cursor.
AfterScanErrorContinue == [watch EXCEPT !.pc = "alerts"]

\* An error ends discovery and the walk goes on.
AfterScanError == [Rest EXCEPT !.pc = "list"]

\* Scan 1, the USDC logs of the range. It stops at the first failed statement,
\* with the logs before it stored.
ScanUsdc ==
  LET logs == LogsIn(watch.from, watch.to, "usdc")
      linked == {l \in logs : link[l.log.from] # None}
  IN /\ watch.pc = "scan"
     /\ \/ /\ intent' = InsertDiscovered(linked)
           /\ skipped' = skipped \cup {l.key : l \in logs \ linked}
           /\ watch' = [watch EXCEPT !.pc = "alerts"]
           /\ UNCHANGED errors
        \/ /\ errors < MaxErrors
           /\ \E stored \in SUBSET linked : /\ stored # linked
                                            /\ intent' = InsertDiscovered(stored)
           /\ watch' = AfterScanError
           /\ errors' = errors + 1
           /\ UNCHANGED skipped
     /\ UNCHANGED <<chain, mined, link, cursor, unattributed, moneyVars, late, began>>

\* Scan 2, the logs of every other token, then the cursor moves.
ScanWrongToken ==
  /\ watch.pc = "alerts"
  /\ LET alerts == {l.key : l \in {l \in LogsIn(watch.from, watch.to, "other") :
                                     \A p \in Positions : intent[<<l.key[1], p>>].status = "absent"}}
     IN unattributed' = [k \in Keys |-> IF k \in alerts /\ unattributed[k] = "absent" THEN "open"
                                        ELSE unattributed[k]]
  /\ cursor' = Max({cursor, watch.to})
  /\ watch' = [Rest EXCEPT !.pc = "list"]
  /\ UNCHANGED <<chain, mined, link, intent, moneyVars, errors, history>>

-----------------------------------------------------------------------------
(* The watcher: the walk over pending intents *)

\* The head is read once for the whole walk. An intent is listed with the
\* status it has now.
ListPendingIntents ==
  /\ watch.pc = "list"
  /\ LET todo == {k \in Keys : Pending(intent[k])}
     IN watch' = IF todo = {} THEN Rest
                 ELSE [Rest EXCEPT !.pc = "walk", !.head = Top, !.todo = todo]
  /\ UNCHANGED <<chain, mined, link, cursor, intentVars, moneyVars, errors, history>>

\* Wrong: the walk does not end after its last intent.
NextIntentForever(k) ==
  [watch EXCEPT !.pc = "walk", !.todo = @ \ {k}, !.key = None, !.block = 0, !.hash = 0]

NextIntent(k) ==
  IF watch.todo = {k} THEN Rest
  ELSE [watch EXCEPT !.pc = "walk", !.todo = @ \ {k}, !.key = None, !.block = 0, !.hash = 0]

\* RejectIntent and RejectIntentWrongToken; the latter closes the alert the
\* wider scan may have raised for the same transaction.
RejectIntent(k, reason) ==
  /\ intent' = IF Pending(intent[k])
               THEN [intent EXCEPT ![k].status = "rejected", ![k].reason = reason] ELSE intent
  /\ unattributed' =
       IF Pending(intent[k]) /\ reason = "wrong_token"
       THEN [x \in Keys |-> IF x[1] = k[1] /\ unattributed[x] = "open" THEN "acked"
                            ELSE unattributed[x]]
       ELSE unattributed

\* Wrong: a walk that misses the very block of the threshold never credits.
ReachedThresholdExactly(r) == watch.head - r.block + 1 = Confirmations

ReachedThreshold(r) == watch.head - r.block + 1 >= Confirmations

\* handleOne up to the threshold: the receipt decides what happens.
Inspect(k) ==
  LET r == Receipt(k[1])
  IN /\ watch.pc = "walk" /\ k \in watch.todo
     /\ \/ /\ r.found \in {"tx_reverted", "wrong_token", "no_match"}
           /\ RejectIntent(k, r.found)
           /\ watch' = NextIntent(k)
        \/ /\ r.found = "no" \/ (r.found = "match" /\ ~ ReachedThreshold(r))
           /\ watch' = NextIntent(k)
           /\ UNCHANGED intentVars
        \/ /\ r.found = "match" /\ ReachedThreshold(r)
           /\ watch' = [watch EXCEPT !.pc = "verify", !.key = k, !.block = r.block,
                                     !.hash = chain[r.block].hash]
           /\ UNCHANGED intentVars
     /\ UNCHANGED <<chain, mined, link, cursor, moneyVars, errors, history>>

\* The row of an intent is written once: (type, ref_type, ref_id) is unique.
CreditRow(k, amount) ==
  {r \in {[key |-> k, user |-> intent[k].user, delta |-> amount]} : ~ \E x \in ledger : x.key = k}

\* Wrong: the update without its status guard.
CreditableAlways(k) == intent[k].status # "absent"

\* The status guard of CreditIntent; a row another writer closed is a no-op.
Creditable(k) == Pending(intent[k])

Credit(k, amount) ==
  /\ intent' = [intent EXCEPT ![k].status = "credited", ![k].amount = amount]
  /\ balance' = [balance EXCEPT ![intent[k].user] = @ + amount]
  /\ ledger' = ledger \cup CreditRow(k, amount)
  /\ bank' = bank + amount
  /\ UNCHANGED unattributed

\* Wrong: the hash is not looked at again.
StillCanonicalUnchecked == watch.block <= Top

\* BlockHashAt: is the block of the receipt still on the canonical chain?
StillCanonical == watch.block <= Top /\ chain[watch.block].hash = watch.hash

\* handleOne goes on to the credit, or holds the intent for a later tick.
VerifyCanonical ==
  /\ watch.pc = "verify"
  /\ watch' = IF StillCanonical THEN [watch EXCEPT !.pc = "credit"] ELSE NextIntent(watch.key)
  /\ UNCHANGED <<chain, mined, link, cursor, intentVars, moneyVars, errors, history>>

\* The transaction of the credit; nothing is asked of the node any more.
CreditIntent ==
  /\ watch.pc = "credit"
  /\ watch' = NextIntent(watch.key)
  /\ \/ Creditable(watch.key) /\ Credit(watch.key, intent[watch.key].amount)
     \/ ~ Creditable(watch.key) /\ UNCHANGED <<intentVars, moneyVars>>
  /\ UNCHANGED <<chain, mined, link, cursor, errors, history>>

\* A failed call: discovery gives way to the walk, the walk skips the intent or
\* waits for the next tick. A restart begins a new tick.
WatcherError ==
  /\ errors < MaxErrors /\ watch.pc # "scan"
  /\ errors' = errors + 1
  /\ \/ watch.pc \in {"rest", "alerts"} /\ watch' = [Rest EXCEPT !.pc = "list"]
     \/ watch.pc = "walk" /\ \E k \in watch.todo : watch' = NextIntent(k)
     \/ watch.pc \in {"verify", "credit"} /\ watch' = NextIntent(watch.key)
     \/ watch.pc # "rest" /\ watch' = Rest
  /\ UNCHANGED <<chain, mined, link, cursor, intentVars, moneyVars, history>>

-----------------------------------------------------------------------------
(* The operator *)

\* A rejected intent may still be credited; only a credited one may not.
CreditManual(k, amount) ==
  /\ intent[k].status \notin {"absent", "credited"}
  /\ Credit(k, amount)
  /\ UNCHANGED <<chain, mined, link, cursor, watch, errors, history>>

AdminReject(k) ==
  /\ Pending(intent[k])
  /\ intent' = [intent EXCEPT ![k].status = "rejected", ![k].reason = "operator"]
  /\ UNCHANGED <<chain, mined, link, cursor, watch, unattributed, moneyVars, errors, history>>

\* The alert stamp is set or taken back.
AcknowledgeUnattributed(k) ==
  /\ unattributed[k] # "absent"
  /\ unattributed' = [unattributed EXCEPT ![k] = IF @ = "open" THEN "acked" ELSE "open"]
  /\ UNCHANGED <<chain, mined, link, cursor, watch, intent, moneyVars, errors, history>>

AcknowledgeWrongToken(k) ==
  /\ intent[k].reason \in {"wrong_token", "wrong_token_acked"}
  /\ intent' = [intent EXCEPT ![k].reason = IF @ = "wrong_token" THEN "wrong_token_acked"
                                            ELSE "wrong_token"]
  /\ UNCHANGED <<chain, mined, link, cursor, watch, unattributed, moneyVars, errors, history>>

-----------------------------------------------------------------------------
Init ==
  /\ chain = <<>> /\ mined = 0
  /\ link = [a \in Addresses |-> None]
  /\ cursor = 0 /\ watch = Rest
  /\ intent = [k \in Keys |-> Absent]
  /\ unattributed = [k \in Keys |-> "absent"]
  /\ balance = [u \in Users |-> 0] /\ ledger = {} /\ bank = 0
  /\ errors = 0 /\ skipped = {} /\ late = {} /\ began = 0

WatcherStep ==
  \/ DiscoverBegin \/ ScanUsdc \/ ScanWrongToken \/ ListPendingIntents
  \/ VerifyCanonical \/ CreditIntent
  \/ \E k \in Keys : Inspect(k)

Next ==
  \/ MineBlock \/ \E d \in 1..MaxReorg : Reorg(d)
  \/ \E u \in Users, a \in Addresses : LinkAddress(u, a) \/ UnlinkAddress(u, a)
  \/ WatcherStep \/ WatcherError
  \/ \E k \in Keys : \/ AdminReject(k) \/ AcknowledgeUnattributed(k) \/ AcknowledgeWrongToken(k)
                     \/ \E m \in ManualAmounts : CreditManual(k, m)

Spec == Init /\ [][Next]_vars

\* The ticker of runLoop drives the watcher for the life of the process, and
\* blocks keep coming. Nothing is assumed of bettors and operators.
FairSpec == Spec /\ WF_vars(WatcherStep) /\ WF_vars(MineBlock)

-----------------------------------------------------------------------------
(* Properties *)

\* Types; a credited or rejected intent, the walk's worklist and the head it
\* counts from are well formed at every step of a tick (processor.go Tick).
TypeOK ==
  /\ mined \in 0..MaxMined /\ Top <= mined
  /\ link \in [Addresses -> Users \cup {None}]
  /\ cursor \in Nat /\ bank \in Nat /\ errors \in 0..MaxErrors
  /\ watch.pc \in {"rest", "scan", "alerts", "list", "walk", "verify", "credit"}
  /\ watch.todo \subseteq Keys /\ watch.key \in Keys \cup {None}
  /\ watch.pc \in {"walk", "verify", "credit"} <=> watch.todo # {}
  /\ watch.pc \in {"verify", "credit"} <=> watch.key \in watch.todo
  /\ intent \in [Keys -> [status: {"absent", "confirming", "credited", "rejected"},
                          user: Users \cup {None}, amount: Nat,
                          reason: {"none", "operator", "tx_reverted", "no_match", "wrong_token",
                                   "wrong_token_acked"}]]
  /\ unattributed \in [Keys -> {"absent", "open", "acked"}]
  /\ balance \in [Users -> Nat]
  /\ ledger \subseteq [key: Keys, user: Users, delta: Nat]

SumOf(rows) == SumFunctionOnSet([r \in rows |-> r.delta], rows)

\* Wallets, the operator's bank and the ledger agree, and every credited intent
\* has its one row, whoever credited it: the watcher's tick racing the operator,
\* a second tick after a restart, a manual credit of a rejected intent
\* (store.go CreditIntent, deposits.ts credit-manual).
MoneyFollowsLedger ==
  /\ \A u \in Users : balance[u] = SumOf({r \in ledger : r.user = u})
  /\ bank = SumOf(ledger)
  /\ \A k \in Keys : LET rows == {r \in ledger : r.key = k}
                      IN IF intent[k].status = "credited"
                         THEN \E r \in rows : rows = {r} /\ r.delta = intent[k].amount
                         ELSE rows = {}

Confirmed(t) ==
  \E i \in Mined(t) : Receipt(t).found = "match" /\ Top - i + 1 >= Confirmations

\* The watcher credits an intent only on an answer of the node at which its
\* transfer was on the canonical chain under the required confirmations, although
\* the head it counts from was read before the walk, the receipt in the middle of
\* it and the hash last (processor.go handleOne). What a fork does between that
\* answer and the transaction it asks nobody.
CreditIsConfirmed ==
  [][\A k \in Keys :
       /\ intent[k].status # "credited" /\ intent'[k].status = "credited" /\ watch' # watch
            => watch.pc = "credit" /\ watch.key = k
       /\ watch'.pc = "credit" /\ watch'.key = k /\ watch' # watch => Confirmed(k[1])]_vars

\* Every USDC transfer the cursor has passed since discovery began has an
\* intent, or its sender was not linked when it was read, or its block took the
\* place of one that had been read: failed scans and restarts lose nothing
\* (scanner.go DiscoverIncoming: "it only advances after both succeed").
ScanIsComplete ==
  \A i \in (began + 1)..Min({cursor, Top}) :
    \/ chain[i].hash \in late
    \/ \A l \in LogsIn(i, i, "usdc") : intent[l.key].status # "absent" \/ l.key \in skipped

\* An intent never waits forever on a transfer that stays confirmed: a tick
\* credits it or the operator closes it (processor.go Tick).
ConfirmedIntentsEnd ==
  \A k \in Keys : []<>~(Pending(intent[k]) /\ Confirmed(k[1]))

\* No more is credited for a transaction than its USDC transfers on the
\* canonical chain, manual credits aside.
CreditedAtMostSent ==
  \A t \in Txs : \A i \in Mined(t) :
    SumOf({r \in ledger : r.key[1] = t /\ r.delta \notin ManualAmounts})
      <= MapThenSumSet(LAMBDA l : l.log.amount, LogsIn(i, i, "usdc"))
=============================================================================
