-------------------------- MODULE SettlementProofs --------------------------
(***************************************************************************)
(* Settlement for every set of tickets, wallets, markets, settlers and     *)
(* payloads. First the types are kept, and so is the discipline of the     *)
(* ledger that no credit of a ticket is ever live twice (OneLiveCredit).   *)
(* Then the sums: what a wallet locks is the stakes that are open          *)
(* (LockedIsOpenStakes), the exposure counter is exact                     *)
(* (OpenLiabilityExact), what a bettor can spend is what the ledger says   *)
(* (LedgerReconciles), and no wallet is overdrawn although a placement     *)
(* checks the balance before it writes.                                    *)
(*                                                                         *)
(* A step is described by how much it changes: MoneyStep relates the       *)
(* wallet before and after to the sums before and after, so the            *)
(* compositions with cashouts and withdrawals use it as it stands.         *)
(***************************************************************************)
EXTENDS Settlement, SumTheorems, FiniteSetTheorems, TLAPS

-----------------------------------------------------------------------------
(* One ticket's rows *)

\* Rows of other tickets or other types do not touch a ticket's books.
LEMMA SameRowsSameBooks ==
  ASSUME NEW L, NEW M, NEW t, NEW st, NEW pay,
         CreditRows(M, t) = CreditRows(L, t),
         Adjustments(M, t) = Adjustments(L, t)
  PROVE  /\ UnreversedCredits(M, t) = UnreversedCredits(L, t)
         /\ TicketBooks(L, t, st, pay) => TicketBooks(M, t, st, pay)
<1>1. \A r \in CreditRows(L, t) : Reversed(M, r) <=> Reversed(L, r)
  BY DEF Reversed, Adjustments, CreditRows
<1>2. UnreversedCredits(M, t) = UnreversedCredits(L, t)
  BY <1>1 DEF UnreversedCredits
<1> QED BY <1>2 DEF TicketBooks

\* nextPayoutRefID: the generation counted from the rows is not in use, so the
\* apply-once insert never drops a settle's credit.
LEMMA NextGenIsFresh ==
  ASSUME NEW L \in SUBSET LedgerRow, NEW t \in Tickets, NEW st, NEW pay,
         NEW type \in CreditTypes, NEW delta \in Int,
         NEW row, row = Row(type, t, NextPayoutGen(L, t, type), delta),
         TicketBooks(L, t, st, pay)
  PROVE  /\ row \in LedgerRow
         /\ InsertUnlessExists(L, row) = {row}
         /\ \A c \in CreditRows(L, t) : c.gen < row.gen
         /\ ~ Reversed(L, row)
<1> DEFINE n == Cardinality(CreditRows(L, t))
<1>1. n \in Nat
  BY FS_CardinalityType DEF TicketBooks
<1>2. row.gen = n + 1 /\ row.ticket = t /\ row.type = type /\ row.delta = delta
  BY DEF Row, NextPayoutGen
<1>3. row \in LedgerRow
  BY <1>1 DEF Row, NextPayoutGen, LedgerRow
<1>4. \A c \in CreditRows(L, t) : c.gen \in Nat /\ c.gen < row.gen
  <2>1. \A c \in CreditRows(L, t) : c.gen \in Nat /\ c.gen <= n
    BY DEF TicketBooks, CreditRows, LedgerRow
  <2> QED BY <2>1, <1>1, <1>2
<1>5. InsertUnlessExists(L, row) = {row}
  <2>1. ASSUME NEW x \in L, x.type = row.type, x.ticket = row.ticket, x.gen = row.gen
        PROVE  FALSE
    <3>1. x \in CreditRows(L, t)
      BY <2>1, <1>2 DEF CreditRows
    <3> QED BY <3>1, <2>1, <1>4
  <2> QED BY <2>1 DEF InsertUnlessExists
<1>6. ~ Reversed(L, row)
  <2>1. ASSUME NEW a \in L, a.type = "adjustment", a.ticket = row.ticket, a.gen = row.gen
        PROVE  FALSE
    <3>1. a \in Adjustments(L, t)
      BY <2>1, <1>2 DEF Adjustments
    <3>2. PICK c \in CreditRows(L, t) : c.gen = a.gen
      BY <3>1 DEF TicketBooks
    <3> QED BY <3>2, <2>1, <1>4
  <2> QED BY <2>1 DEF Reversed
<1> QED BY <1>3, <1>4, <1>5, <1>6

\* A settle of an open ticket that pays leaves exactly the new credit live.
LEMMA CreditKeepsBooks ==
  ASSUME NEW L \in SUBSET LedgerRow, NEW t \in Tickets, NEW pay,
         NEW type \in CreditTypes, NEW delta \in Nat \ {0},
         NEW row, row = Row(type, t, NextPayoutGen(L, t, type), delta),
         TicketBooks(L, t, "accepted", pay)
  PROVE  TicketBooks(L \cup {row}, t, "settled", delta)
<1> DEFINE M == L \cup {row}
           n == Cardinality(CreditRows(L, t))
<1>1. /\ row \in LedgerRow
      /\ \A c \in CreditRows(L, t) : c.gen < row.gen
      /\ ~ Reversed(L, row)
  <2>1. delta \in Int
    OBVIOUS
  <2> QED BY <2>1, NextGenIsFresh
<1>2. row.gen = n + 1 /\ row.ticket = t /\ row.type = type /\ row.delta = delta
  BY DEF Row, NextPayoutGen
<1>3. CreditRows(M, t) = CreditRows(L, t) \cup {row}
  BY <1>2 DEF CreditRows
<1>4. Adjustments(M, t) = Adjustments(L, t)
  BY <1>2 DEF Adjustments, CreditTypes
<1>5. row \notin CreditRows(L, t) /\ \A c \in CreditRows(L, t) : c.gen \in Nat
  BY <1>1 DEF CreditRows, LedgerRow
<1>6. IsFiniteSet(CreditRows(L, t)) /\ n \in Nat
  BY FS_CardinalityType DEF TicketBooks
<1>7. IsFiniteSet(CreditRows(M, t)) /\ Cardinality(CreditRows(M, t)) = n + 1
  <2>1. /\ IsFiniteSet(CreditRows(L, t) \cup {row})
        /\ Cardinality(CreditRows(L, t) \cup {row}) = n + 1
    BY <1>5, <1>6, FS_AddElement
  <2> QED BY <2>1, <1>3
<1>8. \A r \in CreditRows(M, t) : Reversed(M, r) <=> Reversed(L, r)
  BY <1>4 DEF Reversed, Adjustments, CreditRows
<1>9. UnreversedCredits(M, t) = {row}
  <2>1. UnreversedCredits(L, t) = {}
    BY DEF TicketBooks
  <2> QED BY <2>1, <1>1, <1>3, <1>8 DEF UnreversedCredits
<1> HIDE DEF M
<1>10. \A c, d \in CreditRows(M, t) : c.gen = d.gen => c = d
  BY <1>1, <1>2, <1>3, <1>5, <1>6 DEF TicketBooks
<1>11. \A c \in CreditRows(M, t) : c.gen <= Cardinality(CreditRows(M, t))
  <2>1. \A c \in CreditRows(L, t) : c.gen <= n
    BY DEF TicketBooks
  <2> HIDE DEF n
  <2> QED BY <2>1, <1>2, <1>3, <1>5, <1>6, <1>7
<1>12. \A a \in Adjustments(M, t) :
          \E c \in CreditRows(M, t) : c.gen = a.gen /\ c.delta = - a.delta
  BY <1>3, <1>4 DEF TicketBooks
<1>13. TicketBooks(M, t, "settled", delta)
  BY <1>2, <1>7, <1>9, <1>10, <1>11, <1>12 DEF TicketBooks
<1> QED BY <1>13 DEF M

\* LatestUnreversedPayoutRefID and ReverseSettledTicket: the reversal of a
\* settled ticket compensates its one live credit, under that credit's
\* generation, and leaves none live.
LEMMA ReversalKeepsBooks ==
  ASSUME NEW L \in SUBSET LedgerRow, NEW t \in Tickets, NEW pay \in Nat,
         TicketBooks(L, t, "settled", pay)
  PROVE  LET row == Row("adjustment", t, LatestUnreversedGen(L, t), - pay)
             rows == IF pay > 0 /\ UnreversedCredits(L, t) # {}
                     THEN InsertUnlessExists(L, row) ELSE {}
         IN  /\ rows \subseteq LedgerRow
             /\ \A r \in rows : r.type = "adjustment" /\ r.ticket = t
             /\ TicketBooks(L \cup rows, t, "accepted", 0)
<1> DEFINE row == Row("adjustment", t, LatestUnreversedGen(L, t), - pay)
           rows == IF pay > 0 /\ UnreversedCredits(L, t) # {}
                   THEN InsertUnlessExists(L, row) ELSE {}
           M == L \cup rows
<1>1. CASE pay = 0
  <2>1. rows = {} /\ M = L
    BY <1>1
  <2> QED BY <2>1, <1>1 DEF TicketBooks
<1>2. CASE pay # 0
  <2>1. PICK c \in UnreversedCredits(L, t) : UnreversedCredits(L, t) = {c} /\ c.delta = pay
    BY <1>2 DEF TicketBooks
  <2>2. c \in CreditRows(L, t) /\ ~ Reversed(L, c) /\ c \in LedgerRow /\ c.ticket = t
    BY <2>1 DEF UnreversedCredits, CreditRows
  <2>3. c.gen \in Nat \ {0}
    BY <2>2 DEF LedgerRow
  <2>4. LatestUnreversedGen(L, t) = c.gen
    <3>1. {r.gen : r \in UnreversedCredits(L, t)} = {c.gen}
      BY <2>1
    <3>2. \E g \in {r.gen : r \in UnreversedCredits(L, t)} :
             \A r \in UnreversedCredits(L, t) : r.gen <= g
      BY <2>1, <2>3
    <3> QED BY <3>1, <3>2 DEF LatestUnreversedGen
  <2>5. /\ row.type = "adjustment" /\ row.ticket = t
        /\ row.gen = c.gen /\ row.delta = - pay
    BY <2>4 DEF Row
  <2>6. row \in LedgerRow
    BY <2>3, <2>4 DEF Row, LedgerRow
  <2> HIDE DEF row
  <2>7. rows = {row}
    <3>1. ~ \E x \in L : x.type = row.type /\ x.ticket = row.ticket /\ x.gen = row.gen
      BY <2>2, <2>5 DEF Reversed
    <3>2. InsertUnlessExists(L, row) = {row}
      BY <3>1 DEF InsertUnlessExists
    <3> QED BY <3>2, <2>1, <1>2
  <2>8. M = L \cup {row}
    BY <2>7
  <2> HIDE DEF rows, M
  <2>9. CreditRows(M, t) = CreditRows(L, t)
    BY <2>5, <2>8 DEF CreditRows, CreditTypes
  <2>10. Adjustments(M, t) = Adjustments(L, t) \cup {row}
    BY <2>5, <2>8 DEF Adjustments
  <2>11. UnreversedCredits(M, t) = {}
    <3>1. \A r \in CreditRows(L, t) : Reversed(L, r) => Reversed(M, r)
      BY <2>8 DEF Reversed
    <3>2. Reversed(M, c)
      BY <2>2, <2>5, <2>8 DEF Reversed
    <3> QED BY <3>1, <3>2, <2>1, <2>9 DEF UnreversedCredits
  <2>12. \A a \in Adjustments(M, t) :
           \E d \in CreditRows(M, t) : d.gen = a.gen /\ d.delta = - a.delta
    <3>1. c.delta = - row.delta
      BY <2>1, <2>5
    <3> QED BY <3>1, <2>2, <2>5, <2>9, <2>10 DEF TicketBooks
  <2>13. TicketBooks(M, t, "accepted", 0)
    BY <2>9, <2>11, <2>12 DEF TicketBooks
  <2>14. /\ rows \subseteq LedgerRow
         /\ \A r \in rows : r.type = "adjustment" /\ r.ticket = t
    BY <2>5, <2>6, <2>7
  <2> QED BY <2>13, <2>14 DEF M, rows, row
<1> QED BY <1>1, <1>2

-----------------------------------------------------------------------------
(* One settlement transaction *)

\* The rows SettleTicket inserts for one ticket.
LEMMA SettleRowsShape ==
  ASSUME NEW t \in Tickets, NEW p \in Payouts, NEW st, NEW pay,
         ledger \subseteq LedgerRow, TicketBooks(ledger, t, st, pay)
  PROVE  /\ SettleRows(t, p) \subseteq LedgerRow
         /\ \A r \in SettleRows(t, p) : r.ticket = t /\ r.type \in CreditTypes
         /\ p.payout > 0 =>
              SettleRows(t, p) = {Row(p.type, t, NextPayoutGen(ledger, t, p.type), p.payout)}
         /\ p.payout = 0 => SettleRows(t, p) = {}
<1> DEFINE row == Row(p.type, t, NextPayoutGen(ledger, t, p.type), p.payout)
<1>1. p.payout \in Nat /\ p.type \in CreditTypes
  BY DEF Payouts
<1>2. row \in LedgerRow /\ InsertUnlessExists(ledger, row) = {row}
  <2>1. p.payout \in Int /\ ledger \in SUBSET LedgerRow
    BY <1>1
  <2>2. row = Row(p.type, t, NextPayoutGen(ledger, t, p.type), p.payout)
    OBVIOUS
  <2> HIDE DEF row
  <2> QED BY <2>1, <2>2, <1>1, NextGenIsFresh
<1>3. row.ticket = t /\ row.type = p.type
  BY DEF Row
<1> HIDE DEF row
<1>4. CASE p.payout > 0
  <2>1. SettleRows(t, p) = {row}
    BY <1>2, <1>4 DEF SettleRows, row
  <2> QED BY <2>1, <1>1, <1>2, <1>3, <1>4 DEF row
<1>5. CASE p.payout = 0
  <2>1. SettleRows(t, p) = {}
    BY <1>5 DEF SettleRows
  <2> QED BY <2>1, <1>5
<1> QED BY <1>1, <1>4, <1>5

\* A transaction that reverses settled tickets and settles open ones, or ones
\* it has just reversed, keeps every ticket's books.
LEMMA PostingKeepsBooks ==
  ASSUME BooksInOrder, status \in [Tickets -> Statuses], payout \in [Tickets -> Nat],
         NEW R \in SUBSET Tickets, \A t \in R : status[t] = "settled",
         NEW P, P \in [DOMAIN P -> Payouts], DOMAIN P \subseteq Tickets,
         \A t \in DOMAIN P : status[t] = "accepted" \/ t \in R,
         PostTickets(R, P), ledger' = PostLedger(R, P)
  PROVE  BooksInOrder'
<1> DEFINE Rev(t) == IF t \in R THEN ReverseRows(t) ELSE {}
           Set(t) == IF t \in DOMAIN P THEN SettleRows(t, P[t]) ELSE {}
<1>1. ledger \in SUBSET LedgerRow
  BY DEF BooksInOrder
<1>2. ASSUME NEW t \in R
      PROVE  /\ ReverseRows(t) \subseteq LedgerRow
             /\ \A r \in ReverseRows(t) : r.type = "adjustment" /\ r.ticket = t
             /\ TicketBooks(ledger \cup ReverseRows(t), t, "accepted", 0)
  <2>1. TicketBooks(ledger, t, "settled", payout[t]) /\ payout[t] \in Nat
    BY DEF BooksInOrder
  <2> QED BY <1>1, <2>1, ReversalKeepsBooks DEF ReverseRows
<1>3. ASSUME NEW t \in DOMAIN P
      PROVE  /\ t \in Tickets /\ P[t] \in Payouts
             /\ status[t] # "voided" /\ TicketBooks(ledger, t, status[t], payout[t])
             /\ SettleRows(t, P[t]) \subseteq LedgerRow
             /\ \A r \in SettleRows(t, P[t]) : r.ticket = t /\ r.type \in CreditTypes
  <2>1. t \in Tickets /\ P[t] \in Payouts /\ status[t] # "voided"
    OBVIOUS
  <2>2. TicketBooks(ledger, t, status[t], payout[t])
    BY <2>1 DEF BooksInOrder
  <2> QED BY <1>1, <2>1, <2>2, SettleRowsShape
<1>rows. \A r : r \in ledger' <=>
                \/ r \in ledger
                \/ \E t \in R : r \in ReverseRows(t)
                \/ \E t \in DOMAIN P : r \in SettleRows(t, P[t])
  BY DEF PostLedger
<1>4. ledger' \subseteq LedgerRow
  BY <1>rows, <1>1, <1>2, <1>3
<1>5. ASSUME NEW t \in Tickets, status'[t] # "voided"
      PROVE  TicketBooks(ledger', t, status'[t], payout'[t])
  <2> DEFINE L == ledger \cup Rev(t)
             M == L \cup Set(t)
  <2>1. /\ CreditRows(ledger', t) = CreditRows(M, t)
        /\ Adjustments(ledger', t) = Adjustments(M, t)
    <3>1. ASSUME NEW r \in ledger', r.ticket = t
          PROVE  r \in M
      <4>1. CASE r \in ledger
        BY <4>1
      <4>2. ASSUME NEW u \in R, r \in ReverseRows(u)
            PROVE  r \in M
        <5>1. u = t
          BY <1>2, <3>1, <4>2
        <5> QED BY <5>1, <4>2
      <4>3. ASSUME NEW u \in DOMAIN P, r \in SettleRows(u, P[u])
            PROVE  r \in M
        <5>1. u = t
          BY <1>3, <3>1, <4>3
        <5> QED BY <5>1, <4>3
      <4> QED BY <1>rows, <4>1, <4>2, <4>3
    <3>2. M \subseteq ledger'
      BY <1>rows
    <3> QED BY <3>1, <3>2 DEF CreditRows, Adjustments
  <2>2. SUFFICES TicketBooks(M, t, status'[t], payout'[t])
    <3> HIDE DEF M
    <3> QED BY <2>1, SameRowsSameBooks
  <2>3. L \in SUBSET LedgerRow
    BY <1>1, <1>2
  <2>4. CreditRows(L, t) = CreditRows(ledger, t)
    BY <1>2 DEF CreditRows, CreditTypes
  <2>5. CASE t \in DOMAIN P
    <3>1. status'[t] = "settled" /\ payout'[t] = P[t].payout
      BY <2>5 DEF PostTickets
    <3>2. PICK pay : TicketBooks(L, t, "accepted", pay)
      <4>1. CASE t \in R
        BY <4>1, <1>2
      <4>2. CASE t \notin R
        <5>1. L = ledger /\ status[t] = "accepted"
          BY <4>2, <2>5
        <5>2. TicketBooks(L, t, "accepted", payout[t])
          <6> HIDE DEF L
          <6> QED BY <5>1, <1>3, <2>5
        <5> QED BY <5>2
      <4> QED BY <4>1, <4>2
    <3>3. P[t].payout \in Nat /\ P[t].type \in CreditTypes
      BY <1>3, <2>5 DEF Payouts
    <3>4. CASE P[t].payout > 0
      <4> DEFINE row == Row(P[t].type, t, NextPayoutGen(L, t, P[t].type), P[t].payout)
      <4>1. row = Row(P[t].type, t, NextPayoutGen(ledger, t, P[t].type), P[t].payout)
        BY <2>4 DEF NextPayoutGen
      <4>2. SettleRows(t, P[t]) = {row}
        BY <1>1, <1>3, <2>5, <3>4, <4>1, SettleRowsShape
      <4>3. M = L \cup {row}
        BY <2>5, <4>2
      <4>4. TicketBooks(L \cup {row}, t, "settled", P[t].payout)
        <5>1. P[t].payout \in Nat \ {0}
          BY <3>3, <3>4
        <5> HIDE DEF L
        <5> QED BY <2>3, <3>2, <3>3, <5>1, CreditKeepsBooks
      <4> HIDE DEF L, M, row
      <4> QED BY <3>1, <4>3, <4>4
    <3>5. CASE P[t].payout = 0
      <4>1. SettleRows(t, P[t]) = {}
        BY <1>1, <1>3, <2>5, <3>5, SettleRowsShape
      <4>2. M = L
        BY <2>5, <4>1
      <4> HIDE DEF L, M
      <4> QED BY <3>1, <3>2, <3>5, <4>2 DEF TicketBooks
    <3> QED BY <3>3, <3>4, <3>5
  <2>6. CASE t \notin DOMAIN P /\ t \in R
    <3>1. status'[t] = "accepted" /\ payout'[t] = 0
      BY <2>6 DEF PostTickets
    <3>2. M = ledger \cup ReverseRows(t)
      BY <2>6
    <3> HIDE DEF M
    <3> QED BY <3>1, <3>2, <2>6, <1>2
  <2>7. CASE t \notin DOMAIN P /\ t \notin R
    <3>1. status'[t] = status[t] /\ payout'[t] = payout[t] /\ M = ledger
      BY <2>7 DEF PostTickets
    <3> HIDE DEF M
    <3> QED BY <3>1, <1>5 DEF BooksInOrder
  <2> QED BY <2>5, <2>6, <2>7
<1> QED BY <1>4, <1>5 DEF BooksInOrder

\* A step that writes rows of one ticket only leaves the other books alone.
LEMMA OneTicketKeepsBooks ==
  ASSUME BooksInOrder, NEW t \in Tickets, NEW N \in SUBSET LedgerRow,
         \A r \in N : r.ticket = t,
         ledger' = ledger \cup N,
         \A u \in Tickets \ {t} : status'[u] = status[u] /\ payout'[u] = payout[u],
         status'[t] # "voided" => TicketBooks(ledger', t, status'[t], payout'[t])
  PROVE  BooksInOrder'
<1>1. ASSUME NEW u \in Tickets \ {t}, status'[u] # "voided"
      PROVE  TicketBooks(ledger', u, status'[u], payout'[u])
  <2>1. CreditRows(ledger', u) = CreditRows(ledger, u)
    BY DEF CreditRows
  <2>2. Adjustments(ledger', u) = Adjustments(ledger, u)
    BY DEF Adjustments
  <2>3. TicketBooks(ledger, u, status[u], payout[u])
    BY <1>1 DEF BooksInOrder
  <2>4. TicketBooks(ledger', u, status[u], payout[u])
    BY <2>1, <2>2, <2>3, SameRowsSameBooks
  <2> QED BY <2>4
<1>2. ledger' \subseteq LedgerRow
  BY DEF BooksInOrder
<1> QED BY <1>1, <1>2 DEF BooksInOrder

\* A step that posts no row and changes no settled or voided ticket.
LEMMA NoPostingKeepsBooks ==
  ASSUME BooksInOrder, ledger' = ledger, payout' = payout,
         \A t \in Tickets : \/ status'[t] = status[t]
                            \/ status[t] = "absent" /\ status'[t] = "placing"
                            \/ status[t] = "pending_delay" /\ status'[t] = "accepted"
  PROVE  BooksInOrder'
BY DEF BooksInOrder, TicketBooks

-----------------------------------------------------------------------------
(* Jobs and plans *)

\* Ticket steps leave the rows of open chunks alone.
LEMMA TicketStepKeepsPlans ==
  ASSUME PlansOwned, job' = job, plan' = plan,
         \A s \in Settlers : \A t \in job[s].held :
           /\ status[t] = "accepted" => status'[t] = "accepted"
           /\ hold'[t].by = "nobody"
  PROVE  PlansOwned'
<1>1. ASSUME NEW s \in Settlers, NEW t \in DOMAIN plan[s]
      PROVE  status'[t] = "accepted"
  BY DEF PlansOwned
<1> QED BY <1>1 DEF PlansOwned

\* A step on a ticket that no chunk holds.
LEMMA FreeTicketKeepsPlans ==
  ASSUME PlansOwned, status \in [Tickets -> Statuses], DOMAIN hold = Tickets, job' = job, plan' = plan,
         NEW t \in Tickets, t \notin LockedRows \/ hold[t].by # "nobody",
         \A u \in Tickets \ {t} : status'[u] = status[u] /\ hold'[u] = hold[u]
  PROVE  PlansOwned'
<1>1. ASSUME NEW s \in Settlers, NEW u \in job[s].held
      PROVE  u \in Tickets \ {t}
  BY DEF PlansOwned, Jobs, LockedRows
<1>2. \A s \in Settlers : \A u \in job[s].held :
        /\ status[u] = "accepted" => status'[u] = "accepted"
        /\ hold'[u].by = "nobody"
  BY <1>1 DEF PlansOwned
<1> QED BY <1>2, TicketStepKeepsPlans

\* No transaction takes or lets go of a row, and the taken ones keep their status.
LEMMA SameHoldsKept ==
  ASSUME HoldsOwned, hold' = hold, passedBy' \subseteq Tickets,
         \A t \in Tickets : hold[t].by # "nobody" => status'[t] = status[t]
  PROVE  HoldsOwned'
BY DEF HoldsOwned, Decisions

\* The row of one ticket is taken, or let go.
LEMMA OneHoldKept ==
  ASSUME HoldsOwned, passedBy' = passedBy, NEW t \in Tickets,
         NEW h \in [by: Holders, odds: Odds(t), promise: Nat],
         hold' = [hold EXCEPT ![t] = h],
         \A u \in Tickets \ {t} : status'[u] = status[u],
         h.by # "nobody" => status'[t] \notin {"absent", "placing"},
         h.by \in Decisions => status'[t] = "pending_delay",
         h.by = "reprice" => h.promise = Reprice(t, h.odds)
  PROVE  HoldsOwned'
<1>1. hold'[t] = h /\ DOMAIN hold' = Tickets /\ \A u \in Tickets \ {t} : hold'[u] = hold[u]
  BY DEF HoldsOwned
<1> QED BY <1>1 DEF HoldsOwned

\* A row nobody has.
LEMMA NoHoldTyped ==
  ASSUME NEW t \in Tickets
  PROVE  NoHold(t) \in [by: Holders, odds: Odds(t), promise: Nat] /\ NoHold(t).by = "nobody"
BY TicketAssumption DEF NoHold, Holders, Odds

\* A transaction ends and releases its row.
LEMMA ReleaseKept ==
  ASSUME HoldsOwned, passedBy' = passedBy, NEW t \in Tickets, ReleaseRow(t),
         \A u \in Tickets \ {t} : status'[u] = status[u]
  PROVE  HoldsOwned'
<1>1. NoHold(t).by # "reprice" /\ NoHold(t).by \notin Decisions
  BY DEF NoHold, Decisions
<1> QED BY <1>1, NoHoldTyped, OneHoldKept DEF ReleaseRow

\* A settler that ends or begins a job without holding rows.
LEMMA JobStepKeepsPlans ==
  ASSUME PlansOwned, NEW s \in Settlers, NEW j \in Jobs, j.held = {},
         job' = [job EXCEPT ![s] = j],
         \/ plan' = [plan EXCEPT ![s] = NoSettles]
         \/ plan' = plan /\ job[s].pc # "chunk",
         hold' = hold,
         \A x \in Settlers \ {s} : \A t \in job[x].held :
           status[t] = "accepted" => status'[t] = "accepted"
  PROVE  PlansOwned'
<1>1. job' \in [Settlers -> Jobs] /\ DOMAIN plan' = Settlers
  BY DEF PlansOwned
<1>2. DOMAIN plan'[s] = {} /\ plan'[s] \in [DOMAIN plan'[s] -> Payouts]
  <2>1. NoSettles \in [DOMAIN NoSettles -> Payouts] /\ DOMAIN NoSettles = {}
    BY DEF NoSettles
  <2>2. CASE plan' = [plan EXCEPT ![s] = NoSettles]
    BY <2>1, <2>2 DEF PlansOwned
  <2>3. CASE plan' = plan /\ job[s].pc # "chunk"
    BY <2>3 DEF PlansOwned
  <2> QED BY <2>2, <2>3
<1>3. /\ job'[s] = j
      /\ \A x \in Settlers \ {s} : job'[x] = job[x] /\ plan'[x] = plan[x]
  BY DEF PlansOwned
<1>4. ASSUME NEW x \in Settlers \ {s}
      PROVE  /\ plan'[x] \in [DOMAIN plan'[x] -> Payouts]
             /\ DOMAIN plan'[x] \subseteq job'[x].held
             /\ job'[x].pc # "chunk" => job'[x].held = {}
             /\ \A t \in DOMAIN plan'[x] : status'[t] = "accepted"
             /\ \A t \in job'[x].held : hold'[t].by = "nobody"
             /\ \A y \in Settlers \ {x} : job'[x].held \cap job'[y].held = {}
  BY <1>3 DEF PlansOwned
<1>5. /\ DOMAIN plan'[s] \subseteq job'[s].held
      /\ \A t \in job'[s].held : hold'[t].by = "nobody"
      /\ job'[s].pc # "chunk" => job'[s].held = {}
      /\ \A t \in DOMAIN plan'[s] : status'[t] = "accepted"
      /\ \A y \in Settlers \ {s} : job'[s].held \cap job'[y].held = {}
  BY <1>2, <1>3
<1> QED BY <1>1, <1>2, <1>4, <1>5 DEF PlansOwned

-----------------------------------------------------------------------------
(* Payouts, initial states, ticket steps *)

\* The settle of a committed ticket with resolved legs pays a natural number
\* under one of the two credit types (computePayout).
LEMMA SettleTyped ==
  ASSUME TicketsTyped, NEW t \in Tickets, status[t] \notin {"absent", "placing"},
         NEW legs \in [LegsOf(t) -> Results \cup {Unresolved}], Resolved(t, legs)
  PROVE  Settle(t, legs) \in Payouts
<1>1. legs \in [LegsOf(t) -> Results]
  BY DEF Resolved
<1>2. odds[t] \in Odds(t) /\ potential[t] \in Potentials(t)
  BY DEF TicketsTyped
<1> QED BY <1>1, <1>2, PayoutAssumption DEF Settle, Payouts

\* The empty book satisfies the invariant.
LEMMA InitIInv == Init => IInv
<1> SUFFICES ASSUME Init PROVE IInv
  OBVIOUS
<1>1. marketStatus \in [Markets -> MarketStatuses] /\ matchClosed \in [Matches -> BOOLEAN]
  BY DEF Init, MarketStatuses
<1>2. TicketsTyped
  <2>1. OpeningPrice \in Prices
    BY TicketAssumption
  <2> QED BY <2>1 DEF Init, TicketsTyped, Statuses, Odds
<1>3. PlansOwned
  BY DEF Init, PlansOwned, NoSettles, Idle, Jobs, NoHold
<1>5. HoldsOwned
  <2>1. passedBy = {} /\ hold = [t \in Tickets |-> NoHold(t)]
    BY DEF Init
  <2>2. \A t \in Tickets : hold[t] \in [by: Holders, odds: Odds(t), promise: Nat]
                           /\ hold[t].by = "nobody"
    BY <2>1, NoHoldTyped
  <2> QED BY <2>1, <2>2 DEF HoldsOwned, Decisions
<1>4. BooksInOrder
  <2>1. \A t \in Tickets : CreditRows(ledger, t) = {} /\ Adjustments(ledger, t) = {}
    BY DEF Init, CreditRows, Adjustments
  <2>2. \A t \in Tickets : UnreversedCredits(ledger, t) = {}
    BY <2>1 DEF UnreversedCredits
  <2>3. \A t \in Tickets : status[t] = "absent"
    BY DEF Init
  <2> QED BY <2>1, <2>2, <2>3, FS_EmptySet DEF Init, BooksInOrder, TicketBooks
<1> QED BY <1>1, <1>2, <1>3, <1>4, <1>5 DEF IInv

\* What the bet-delay worker decides: an outcome, and for a re-price the odds it
\* will store with the payout they promise.
LEMMA DecisionTyped ==
  ASSUME TicketsTyped, NEW t \in Tickets
  PROVE  /\ Decision(t) \in [by: Holders, odds: Odds(t), promise: Nat]
         /\ Decision(t).by \in Decisions
         /\ Decision(t).by = "reprice" => Decision(t).promise = Reprice(t, Decision(t).odds)
<1>1. /\ RepricedLegs(t) \in Odds(t)
      /\ [m \in LegsOf(t) |-> OpeningPrice] \in Odds(t)
  BY TicketAssumption DEF TicketsTyped, RepricedLegs, Odds
<1>2. NewPotential(t) \in Nat /\ NewPotential(t) = Reprice(t, RepricedLegs(t))
  BY <1>1, PayoutAssumption DEF NewPotential, Potentials
<1> DEFINE p == [by |-> "reprice", odds |-> RepricedLegs(t), promise |-> NewPotential(t)]
<1>3. \/ Decision(t) = [NoHold(t) EXCEPT !.by = "accept"]
      \/ Decision(t) = [NoHold(t) EXCEPT !.by = "reject"]
      \/ Decision(t) = p
  BY DEF Decision
<1>4. p \in [by: Holders, odds: Odds(t), promise: Nat] /\ p.by = "reprice"
      /\ p.promise = Reprice(t, p.odds)
  BY <1>1, <1>2 DEF Holders
<1> HIDE DEF p
<1> QED BY <1>1, <1>3, <1>4 DEF NoHold, Holders, Decisions

\* The steps of bettors, of the bet-delay worker and of the operator.
LEMMA TicketStepIInv ==
  ASSUME IInv, TicketNext
  PROVE  IInv'
<1> USE DEF IInv
<1>1. ASSUME NEW t \in Tickets, PlaceValidate(t)
      PROVE  IInv'
  <2>1. /\ status[t] = "absent" /\ status' = [status EXCEPT ![t] = "placing"]
        /\ odds' = [odds EXCEPT ![t] = [m \in LegsOf(t) |-> price[m]]]
        /\ UNCHANGED <<marketStatus, outcomeResult, price, matchClosed, payout, leg, potential,
                       ledger, job, plan, hold, passedBy>>
    BY <1>1 DEF PlaceValidate, marketVars, moneyVars, lockVars
  <2>2. TicketsTyped'
    <3>1. [m \in LegsOf(t) |-> price[m]] \in Odds(t)
      BY TicketAssumption DEF TicketsTyped, Odds
    <3> QED BY <2>1, <3>1 DEF TicketsTyped, Statuses
  <2>3. PlansOwned' /\ HoldsOwned'
    <3>1. \A s \in Settlers : \A u \in job[s].held : u \in Tickets /\ hold'[u].by = "nobody"
      BY <2>1 DEF PlansOwned, Jobs
    <3>2. \A u \in Tickets : \/ status'[u] = status[u]
                            \/ status[u] \in {"absent", "placing"}
      BY <2>1 DEF TicketsTyped
    <3>3. \A u \in Tickets : hold[u].by # "nobody" => status'[u] = status[u]
      BY <3>2 DEF HoldsOwned
    <3>4. passedBy' \subseteq Tickets
      BY <2>1 DEF HoldsOwned
    <3>5. PlansOwned'
      BY <2>1, <3>1, <3>2, TicketStepKeepsPlans
    <3> QED BY <2>1, <3>3, <3>4, <3>5, SameHoldsKept
  <2>4. BooksInOrder'
    BY <2>1, NoPostingKeepsBooks DEF TicketsTyped
  <2> QED BY <2>1, <2>2, <2>3, <2>4
<1>2. ASSUME NEW t \in Tickets, NEW st \in OpenStatuses, PlaceCommit(t, st)
      PROVE  IInv'
  <2> DEFINE N == InsertUnlessExists(ledger, Row("bet_stake", t, 1, - Stake[t]))
  <2>1. /\ status[t] = "placing" /\ status' = [status EXCEPT ![t] = st]
        /\ potential' = [potential EXCEPT ![t] = Potential(t, odds[t])]
        /\ ledger' = ledger \cup N
        /\ UNCHANGED <<marketStatus, outcomeResult, price, matchClosed, payout, leg, odds,
                       job, plan, hold, passedBy>>
    BY <1>2 DEF PlaceCommit, marketVars, lockVars
  <2>2. TicketsTyped'
    <3>1. Potential(t, odds[t]) \in Potentials(t) /\ Potentials(t) \subseteq Nat
      BY PayoutAssumption DEF TicketsTyped, Potentials
    <3> QED BY <2>1, <3>1 DEF TicketsTyped, Statuses, OpenStatuses
  <2>3. PlansOwned' /\ HoldsOwned'
    <3>1. \A s \in Settlers : \A u \in job[s].held : u \in Tickets /\ hold'[u].by = "nobody"
      BY <2>1 DEF PlansOwned, Jobs
    <3>2. \A u \in Tickets : \/ status'[u] = status[u]
                            \/ status[u] \in {"absent", "placing"}
      BY <2>1 DEF TicketsTyped
    <3>3. \A u \in Tickets : hold[u].by # "nobody" => status'[u] = status[u]
      BY <3>2 DEF HoldsOwned
    <3>4. passedBy' \subseteq Tickets
      BY <2>1 DEF HoldsOwned
    <3>5. PlansOwned'
      BY <2>1, <3>1, <3>2, TicketStepKeepsPlans
    <3> QED BY <2>1, <3>3, <3>4, <3>5, SameHoldsKept
  <2>4. BooksInOrder'
    <3>1. N \in SUBSET LedgerRow /\ \A r \in N : r.ticket = t /\ r.type = "bet_stake"
      BY TicketAssumption DEF InsertUnlessExists, Row, LedgerRow
    <3>2. CreditRows(ledger', t) = CreditRows(ledger, t)
      BY <2>1, <3>1 DEF CreditRows, CreditTypes
    <3>3. Adjustments(ledger', t) = Adjustments(ledger, t)
      BY <2>1, <3>1 DEF Adjustments
    <3>4. TicketBooks(ledger, t, "placing", payout[t])
      BY <2>1 DEF BooksInOrder
    <3>5. TicketBooks(ledger', t, "placing", payout[t])
      BY <3>2, <3>3, <3>4, SameRowsSameBooks
    <3>6. TicketBooks(ledger', t, st, payout[t])
      BY <3>5 DEF TicketBooks, OpenStatuses
    <3>7. status'[t] = st
      BY <2>1 DEF TicketsTyped
    <3>8. \A u \in Tickets \ {t} : status'[u] = status[u] /\ payout'[u] = payout[u]
      BY <2>1 DEF TicketsTyped
    <3> HIDE DEF N
    <3> QED BY <2>1, <3>1, <3>6, <3>7, <3>8, OneTicketKeepsBooks
  <2> QED BY <2>1, <2>2, <2>3, <2>4
<1>3. ASSUME NEW t \in Tickets, BetDelayAccept(t)
      PROVE  IInv'
  <2>0. status[t] = "pending_delay" /\ hold[t].by # "nobody"
    BY <1>3 DEF HoldsOwned, Decisions, BetDelayAccept
  <2>1. /\ status[t] = "pending_delay" /\ hold[t].by # "nobody" /\ ReleaseRow(t)
        /\ status' = [status EXCEPT ![t] = "accepted"]
        /\ UNCHANGED <<marketStatus, outcomeResult, price, matchClosed, payout, leg, odds,
                       potential, ledger, job, plan, passedBy>>
    BY <1>3, <2>0 DEF BetDelayAccept, marketVars, moneyVars
  <2>2. TicketsTyped'
    BY <2>1 DEF TicketsTyped, Statuses
  <2>3. PlansOwned' /\ HoldsOwned'
    <3>1. /\ status \in [Tickets -> Statuses] /\ DOMAIN hold = Tickets
          /\ hold' = [hold EXCEPT ![t] = NoHold(t)] /\ hold[t].by # "nobody"
          /\ passedBy' = passedBy
      BY <2>1 DEF TicketsTyped, HoldsOwned, ReleaseRow
    <3>2. \A u \in Tickets \ {t} : status'[u] = status[u] /\ hold'[u] = hold[u]
      BY <2>1, <3>1
    <3> QED BY <2>1, <3>1, <3>2, FreeTicketKeepsPlans, ReleaseKept
  <2>4. BooksInOrder'
    BY <2>1, NoPostingKeepsBooks DEF TicketsTyped
  <2> QED BY <2>1, <2>2, <2>3, <2>4
<1>4. ASSUME NEW t \in Tickets, BetDelayReprice(t)
      PROVE  IInv'
  <2>0. status[t] = "pending_delay" /\ hold[t].by # "nobody"
    BY <1>4 DEF HoldsOwned, Decisions, BetDelayReprice
  <2>1. /\ status[t] = "pending_delay" /\ hold[t].by # "nobody" /\ ReleaseRow(t)
        /\ status' = [status EXCEPT ![t] = "accepted"]
        /\ odds' = [odds EXCEPT ![t] = hold[t].odds]
        /\ potential' = [potential EXCEPT ![t] = hold[t].promise]
        /\ UNCHANGED <<marketStatus, outcomeResult, price, matchClosed, payout, leg,
                       ledger, job, plan, passedBy>>
        /\ hold[t].promise = Reprice(t, hold[t].odds)
    BY <1>4, <2>0 DEF BetDelayReprice, marketVars, HoldsOwned
  <2>2. TicketsTyped'
    <3>1. hold[t].odds \in Odds(t)
      BY DEF HoldsOwned
    <3>2. hold[t].promise \in Potentials(t) /\ Potentials(t) \subseteq Nat
      BY <2>1, <3>1, PayoutAssumption DEF Potentials
    <3> QED BY <2>1, <3>1, <3>2 DEF TicketsTyped, Statuses
  <2>3. PlansOwned' /\ HoldsOwned'
    <3>1. /\ status \in [Tickets -> Statuses] /\ DOMAIN hold = Tickets
          /\ hold' = [hold EXCEPT ![t] = NoHold(t)] /\ hold[t].by # "nobody"
          /\ passedBy' = passedBy
      BY <2>1 DEF TicketsTyped, HoldsOwned, ReleaseRow
    <3>2. \A u \in Tickets \ {t} : status'[u] = status[u] /\ hold'[u] = hold[u]
      BY <2>1, <3>1
    <3> QED BY <2>1, <3>1, <3>2, FreeTicketKeepsPlans, ReleaseKept
  <2>4. BooksInOrder'
    BY <2>1, NoPostingKeepsBooks DEF TicketsTyped
  <2> QED BY <2>1, <2>2, <2>3, <2>4
<1>5. ASSUME NEW t \in Tickets, BetDelayReject(t)
      PROVE  IInv'
  <2> DEFINE row == Row("bet_refund", t, 1, Stake[t])
             N == InsertUnlessExists(ledger, row)
  <2>0. status[t] = "pending_delay" /\ hold[t].by # "nobody"
    BY <1>5 DEF HoldsOwned, Decisions, BetDelayReject
  <2>1. /\ status[t] = "pending_delay" /\ hold[t].by # "nobody" /\ ReleaseRow(t)
        /\ status' = [status EXCEPT ![t] = "rejected"]
        /\ ledger' = ledger \cup N
        /\ UNCHANGED <<marketStatus, outcomeResult, price, matchClosed, payout, leg, odds,
                       potential, job, plan, passedBy>>
    BY <1>5, <2>0 DEF BetDelayReject, RefundStake, marketVars
  <2>2. TicketsTyped'
    BY <2>1 DEF TicketsTyped, Statuses
  <2>3. PlansOwned' /\ HoldsOwned'
    <3>1. /\ status \in [Tickets -> Statuses] /\ DOMAIN hold = Tickets
          /\ hold' = [hold EXCEPT ![t] = NoHold(t)] /\ hold[t].by # "nobody"
          /\ passedBy' = passedBy
      BY <2>1 DEF TicketsTyped, HoldsOwned, ReleaseRow
    <3>2. \A u \in Tickets \ {t} : status'[u] = status[u] /\ hold'[u] = hold[u]
      BY <2>1, <3>1
    <3> QED BY <2>1, <3>1, <3>2, FreeTicketKeepsPlans, ReleaseKept
  <2>4. BooksInOrder'
    <3>1. row \in LedgerRow /\ row.ticket = t /\ row.gen = 1 /\ row.type = "bet_refund"
      BY TicketAssumption DEF Row, LedgerRow, CreditTypes
    <3> HIDE DEF row
    <3>2. TicketBooks(ledger, t, "pending_delay", payout[t])
      BY <2>1 DEF BooksInOrder
    <3>3. CreditRows(ledger, t) = {} /\ Adjustments(ledger, t) = {}
      BY <3>2 DEF TicketBooks
    <3>4. N = {row}
      BY <3>1, <3>3 DEF InsertUnlessExists, CreditRows, CreditTypes
    <3>5. CreditRows(ledger', t) = {row}
      BY <2>1, <3>1, <3>3, <3>4 DEF CreditRows, CreditTypes
    <3>6. Adjustments(ledger', t) = {}
      BY <2>1, <3>1, <3>3, <3>4 DEF Adjustments
    <3>7. IsFiniteSet({row}) /\ Cardinality({row}) = 1
      BY FS_Singleton
    <3>8. TicketBooks(ledger', t, "rejected", payout[t])
      BY <3>1, <3>5, <3>6, <3>7 DEF TicketBooks
    <3>9. /\ status'[t] = "rejected" /\ payout'[t] = payout[t]
          /\ \A u \in Tickets \ {t} : status'[u] = status[u] /\ payout'[u] = payout[u]
      BY <2>1 DEF TicketsTyped
    <3>10. N \in SUBSET LedgerRow /\ \A r \in N : r.ticket = t
      BY <3>1, <3>4
    <3>11. TicketBooks(ledger', t, status'[t], payout'[t])
      BY <3>8, <3>9
    <3> HIDE DEF N
    <3> QED BY <2>1, <3>9, <3>10, <3>11, OneTicketKeepsBooks
  <2> QED BY <2>1, <2>2, <2>3, <2>4
<1>6. ASSUME NEW t \in Tickets, AdminVoid(t)
      PROVE  IInv'
  <2> DEFINE N == InsertUnlessExists(ledger, Row("bet_refund", t, 1, Stake[t]))
  <2>1. /\ hold[t].by # "nobody" /\ ReleaseRow(t)
        /\ status[t] = "accepted" /\ status' = [status EXCEPT ![t] = "voided"]
        /\ payout' = [payout EXCEPT ![t] = Stake[t]]
        /\ ledger' = ledger \cup N
        /\ UNCHANGED <<marketStatus, outcomeResult, price, matchClosed, leg, odds,
                       potential, job, plan, passedBy>>
    BY <1>6 DEF AdminVoid, RefundStake, marketVars
  <2>2. TicketsTyped'
    BY <2>1, TicketAssumption DEF TicketsTyped, Statuses
  <2>3. PlansOwned' /\ HoldsOwned'
    <3>1. /\ status \in [Tickets -> Statuses] /\ DOMAIN hold = Tickets
          /\ hold' = [hold EXCEPT ![t] = NoHold(t)] /\ hold[t].by # "nobody"
          /\ passedBy' = passedBy
      BY <2>1 DEF TicketsTyped, HoldsOwned, ReleaseRow
    <3>2. \A u \in Tickets \ {t} : status'[u] = status[u] /\ hold'[u] = hold[u]
      BY <2>1, <3>1
    <3> QED BY <2>1, <3>1, <3>2, FreeTicketKeepsPlans, ReleaseKept
  <2>4. BooksInOrder'
    <3>1. N \in SUBSET LedgerRow /\ \A r \in N : r.ticket = t
      BY TicketAssumption DEF InsertUnlessExists, Row, LedgerRow, CreditTypes
    <3>2. /\ status'[t] = "voided"
          /\ \A u \in Tickets \ {t} : status'[u] = status[u] /\ payout'[u] = payout[u]
      BY <2>1 DEF TicketsTyped
    <3> HIDE DEF N
    <3> QED BY <2>1, <3>1, <3>2, OneTicketKeepsBooks
  <2> QED BY <2>1, <2>2, <2>3, <2>4
<1>7. ASSUME NEW t \in Tickets, NEW h \in [by: Holders, odds: Odds(t), promise: Nat],
             hold' = [hold EXCEPT ![t] = h], passedBy' = passedBy,
             t \notin LockedRows \/ hold[t].by # "nobody",
             h.by # "nobody" => status[t] \notin {"absent", "placing"},
             h.by \in Decisions => status[t] = "pending_delay",
             h.by = "reprice" => h.promise = Reprice(t, h.odds),
             UNCHANGED <<marketStatus, outcomeResult, price, matchClosed, status, payout, leg, odds,
                         potential, ledger, job, plan>>
      PROVE  IInv'
  <2>1. TicketsTyped'
    BY <1>7 DEF TicketsTyped
  <2>2. PlansOwned'
    <3>1. /\ status \in [Tickets -> Statuses] /\ DOMAIN hold = Tickets
          /\ \A u \in Tickets \ {t} : status'[u] = status[u] /\ hold'[u] = hold[u]
      BY <1>7 DEF TicketsTyped, HoldsOwned
    <3> QED BY <1>7, <3>1, FreeTicketKeepsPlans
  <2>3. HoldsOwned'
    BY <1>7, OneHoldKept
  <2>4. BooksInOrder'
    BY <1>7, NoPostingKeepsBooks
  <2> QED BY <1>7, <2>1, <2>2, <2>3, <2>4
<1>8. ASSUME NEW t \in Tickets, BetDelayTake(t)
      PROVE  IInv'
  <2>1. /\ status[t] = "pending_delay" /\ t \notin LockedRows
        /\ hold' = [hold EXCEPT ![t] = Decision(t)] /\ passedBy' = passedBy
        /\ UNCHANGED <<marketStatus, outcomeResult, price, matchClosed, status, payout, leg, odds,
                       potential, ledger, job, plan>>
    BY <1>8 DEF BetDelayTake, marketVars, ticketVars, moneyVars
  <2>2. /\ Decision(t) \in [by: Holders, odds: Odds(t), promise: Nat]
        /\ Decision(t).by = "reprice" => Decision(t).promise = Reprice(t, Decision(t).odds)
    BY DecisionTyped
  <2> QED BY <2>1, <2>2, <1>7
<1>9. ASSUME NEW t \in Tickets, VoidTake(t)
      PROVE  IInv'
  <2> DEFINE h == [hold[t] EXCEPT !.by = "void"]
  <2>1. /\ status[t] \in OpenStatuses \cup {"settled"} /\ t \notin LockedRows
        /\ hold' = [hold EXCEPT ![t] = h] /\ passedBy' = passedBy
        /\ UNCHANGED <<marketStatus, outcomeResult, price, matchClosed, status, payout, leg, odds,
                       potential, ledger, job, plan>>
    BY <1>9 DEF VoidTake, marketVars, ticketVars, moneyVars
  <2>2. h \in [by: Holders, odds: Odds(t), promise: Nat] /\ h.by = "void"
    BY DEF HoldsOwned, Holders
  <2> HIDE DEF h
  <2> QED BY <2>1, <2>2, <1>7 DEF OpenStatuses, Decisions
<1>10. ASSUME NEW t \in Tickets, VoidRefused(t) \/ HoldFails(t)
       PROVE  IInv'
  <2>1. /\ hold[t].by # "nobody"
        /\ hold' = [hold EXCEPT ![t] = NoHold(t)] /\ passedBy' = passedBy
        /\ UNCHANGED <<marketStatus, outcomeResult, price, matchClosed, status, payout, leg, odds,
                       potential, ledger, job, plan>>
    BY <1>10 DEF VoidRefused, HoldFails, ReleaseRow, Decisions, marketVars, ticketVars, moneyVars
  <2>2. NoHold(t).by # "reprice" /\ NoHold(t).by \notin Decisions
    BY DEF NoHold, Decisions
  <2> QED BY <2>1, <2>2, <1>7, NoHoldTyped
<1> QED BY <1>1, <1>2, <1>3, <1>4, <1>5, <1>6, <1>8, <1>9, <1>10 DEF TicketNext

-----------------------------------------------------------------------------
(* Settler steps *)

\* StartChunks is a job that holds no row.
LEMMA StartChunksIsJob ==
  ASSUME NEW s, NEW S \in SUBSET Tickets, NEW m \in Markets \cup {None}
  PROVE  StartChunks(s, S, m) \in Jobs /\ StartChunks(s, S, m).held = {}
BY DEF StartChunks, Jobs

\* So is the job a cancel leaves behind, the match check.
LEMMA CloseIsJob ==
  ASSUME NEW m \in Markets
  PROVE  LET j == [Idle EXCEPT !.pc = "close", !.market = m]
         IN  j \in Jobs /\ j.held = {}
BY DEF Idle, Jobs

\* And so is a settler at rest.
LEMMA IdleIsJob == Idle \in Jobs /\ Idle.held = {}
BY DEF Idle, Jobs

\* The types after a posting: a settle pays a natural number of micro-units.
LEMMA PostingKeepsTypes ==
  ASSUME status \in [Tickets -> Statuses], payout \in [Tickets -> Nat],
         NEW R \in SUBSET Tickets,
         NEW P, P \in [DOMAIN P -> Payouts], DOMAIN P \subseteq Tickets,
         PostTickets(R, P)
  PROVE  status' \in [Tickets -> Statuses] /\ payout' \in [Tickets -> Nat]
<1>1. \A t \in DOMAIN P : P[t].payout \in Nat
  BY DEF Payouts
<1> QED BY <1>1 DEF PostTickets, Statuses

\* Taking a bet_settlement: the cascade of phase 1.
LEMMA SettlePhase1IInv ==
  ASSUME IInv, NEW s \in Settlers, NEW m \in Markets, NEW res \in SettlePayloads,
         SettlePhase1(s, m, res)
  PROVE  IInv'
<1> USE DEF IInv
<1>1. /\ job[s].pc = "idle"
      /\ job' = [job EXCEPT ![s] = StartChunks(s, AffectedTickets(m), m)]
      /\ UNCHANGED <<price, matchClosed, status, payout, odds, potential, ledger, plan, hold, passedBy>>
  BY DEF SettlePhase1, moneyVars, lockVars
<1>2. res \in [Outcomes -> Results] /\ \A t \in Tickets : Picks[t] \in [LegsOf(t) -> Outcomes]
  BY TicketAssumption
<1>3. /\ marketStatus' \in [Markets -> MarketStatuses]
      /\ outcomeResult' \in [Markets -> [Outcomes -> Results \cup {Unresolved}]]
      /\ DOMAIN leg' = Tickets
      /\ \A t \in Tickets : leg'[t] \in [LegsOf(t) -> Results \cup {Unresolved}]
  <2>1. CASE <<m, res>> \in settlements.settle
    BY <2>1 DEF SettlePhase1, TicketsTyped
  <2>2. CASE <<m, res>> \notin settlements.settle
    <3>1. SettleCascade(m, res)
      BY <2>2 DEF SettlePhase1
    <3>2. marketStatus' \in [Markets -> MarketStatuses]
      BY <3>1 DEF SettleCascade, MarketStatuses
    <3>3. outcomeResult' \in [Markets -> [Outcomes -> Results \cup {Unresolved}]]
      BY <3>1, <1>2 DEF SettleCascade, TicketsTyped
    <3>4. DOMAIN leg' = Tickets
      BY <3>1 DEF SettleCascade
    <3>5. ASSUME NEW t \in Tickets
          PROVE  leg'[t] \in [LegsOf(t) -> Results \cup {Unresolved}]
      BY <3>1, <1>2 DEF SettleCascade, TicketsTyped
    <3> QED BY <3>2, <3>3, <3>4, <3>5
  <2> QED BY <2>1, <2>2
<1>4. TicketsTyped'
  BY <1>1, <1>3 DEF TicketsTyped
<1>5. PlansOwned'
  <2>1. AffectedTickets(m) \in SUBSET Tickets
    BY DEF AffectedTickets
  <2>2. /\ StartChunks(s, AffectedTickets(m), m) \in Jobs
        /\ StartChunks(s, AffectedTickets(m), m).held = {}
    BY <2>1, StartChunksIsJob
  <2> QED BY <1>1, <2>2, JobStepKeepsPlans
<1>6. BooksInOrder'
  BY <1>1, NoPostingKeepsBooks
<1>7. HoldsOwned'
  BY <1>1, SameHoldsKept DEF HoldsOwned
<1> QED BY <1>1, <1>3, <1>4, <1>5, <1>6, <1>7

\* Opening a chunk transaction: rows of other chunks are skipped, and what is
\* planned was open and resolved when the row was locked.
LEMMA ChunkBeginIInv ==
  ASSUME IInv, NEW s \in Settlers, NEW C \in SUBSET Tickets, ChunkBegin(s, C)
  PROVE  IInv'
<1> USE DEF IInv
<1> DEFINE G == GrabRows(s, C)
           ready == {u \in G : status[u] = "accepted" /\ Resolved(u, leg[u])}
           j == [pc |-> "chunk", todo |-> job[s].todo \ C, held |-> G, market |-> job[s].market]
           p == [t \in ready |-> Settle(t, leg[t])]
<1>1. /\ job' = [job EXCEPT ![s] = j] /\ plan' = [plan EXCEPT ![s] = p]
      /\ UNCHANGED <<marketStatus, outcomeResult, price, matchClosed, status, payout, leg, odds,
                     potential, ledger, hold>>
      /\ passedBy' \subseteq passedBy
  BY DEF ChunkBegin, marketVars, ticketVars, moneyVars
<1>2. /\ G \subseteq Tickets /\ \A x \in Settlers \ {s} : G \cap job[x].held = {}
      /\ \A t \in G : hold[t].by = "nobody"
  BY DEF GrabRows, HeldRows
<1>3. j \in Jobs /\ j.held = G /\ j.pc = "chunk"
  <2>1. job[s] \in Jobs
    BY DEF PlansOwned
  <2> QED BY <2>1, <1>2 DEF Jobs
<1>4. p \in [DOMAIN p -> Payouts] /\ DOMAIN p = ready
  <2>1. ASSUME NEW t \in ready
        PROVE  Settle(t, leg[t]) \in Payouts
    BY <1>2, SettleTyped DEF TicketsTyped
  <2> QED BY <2>1
<1>5. ready \subseteq G /\ \A t \in ready : status[t] = "accepted"
  OBVIOUS
<1> HIDE DEF G, ready, j, p
<1>6. PlansOwned'
  <2>1. job' \in [Settlers -> Jobs] /\ DOMAIN plan' = Settlers
    BY <1>1, <1>3 DEF PlansOwned
  <2>2. /\ job'[s] = j /\ plan'[s] = p
        /\ \A x \in Settlers \ {s} : job'[x] = job[x] /\ plan'[x] = plan[x]
    BY <1>1 DEF PlansOwned
  <2>3. /\ plan'[s] \in [DOMAIN plan'[s] -> Payouts]
        /\ DOMAIN plan'[s] \subseteq job'[s].held
        /\ job'[s].pc # "chunk" => job'[s].held = {}
        /\ \A t \in DOMAIN plan'[s] : status'[t] = "accepted"
        /\ \A t \in job'[s].held : hold'[t].by = "nobody"
        /\ \A y \in Settlers \ {s} : job'[s].held \cap job'[y].held = {}
    BY <1>1, <1>2, <1>3, <1>4, <1>5, <2>2
  <2>4. ASSUME NEW x \in Settlers \ {s}
        PROVE  /\ plan'[x] \in [DOMAIN plan'[x] -> Payouts]
               /\ DOMAIN plan'[x] \subseteq job'[x].held
               /\ job'[x].pc # "chunk" => job'[x].held = {}
               /\ \A t \in DOMAIN plan'[x] : status'[t] = "accepted"
               /\ \A t \in job'[x].held : hold'[t].by = "nobody"
               /\ \A y \in Settlers \ {x} : job'[x].held \cap job'[y].held = {}
    BY <1>1, <1>2, <1>3, <2>2 DEF PlansOwned
  <2> QED BY <2>1, <2>3, <2>4 DEF PlansOwned
<1>7. TicketsTyped'
  BY <1>1 DEF TicketsTyped
<1>8. BooksInOrder'
  BY <1>1, NoPostingKeepsBooks
<1>9. HoldsOwned'
  BY <1>1, SameHoldsKept DEF HoldsOwned
<1> QED BY <1>1, <1>6, <1>7, <1>8, <1>9

\* Committing the chunk: its tickets are still the ones that were planned.
LEMMA ChunkCommitIInv ==
  ASSUME IInv, NEW s \in Settlers, ChunkCommit(s)
  PROVE  IInv'
<1> USE DEF IInv
<1>1. /\ PostTickets({}, plan[s]) /\ ledger' = PostLedger({}, plan[s])
      /\ job' = [job EXCEPT ![s] = StartChunks(s, job[s].todo, job[s].market)]
      /\ plan' = [plan EXCEPT ![s] = NoSettles]
      /\ UNCHANGED <<marketStatus, outcomeResult, price, matchClosed, leg, odds, potential, hold,
                     passedBy>>
  BY DEF ChunkCommit, PostSettlement, marketVars, lockVars
<1>2. /\ plan[s] \in [DOMAIN plan[s] -> Payouts] /\ DOMAIN plan[s] \subseteq Tickets
      /\ \A t \in DOMAIN plan[s] : status[t] = "accepted"
      /\ job[s] \in Jobs
  BY DEF PlansOwned, Jobs
<1>3. status \in [Tickets -> Statuses] /\ payout \in [Tickets -> Nat]
  BY DEF TicketsTyped
<1>4. BooksInOrder'
  BY <1>1, <1>2, <1>3, PostingKeepsBooks
<1>5. status' \in [Tickets -> Statuses] /\ payout' \in [Tickets -> Nat]
  BY <1>1, <1>2, <1>3, PostingKeepsTypes
<1>6. \A t \in Tickets : status'[t] \notin {"absent", "placing"} =>
                           status[t] \notin {"absent", "placing"}
  BY <1>1, <1>2 DEF PostTickets
<1>7. TicketsTyped'
  BY <1>1, <1>5, <1>6 DEF TicketsTyped
<1>8. PlansOwned'
  <2>1. /\ StartChunks(s, job[s].todo, job[s].market) \in Jobs
        /\ StartChunks(s, job[s].todo, job[s].market).held = {}
    BY <1>2, StartChunksIsJob DEF Jobs
  <2>2. ASSUME NEW x \in Settlers \ {s}, NEW t \in job[x].held, status[t] = "accepted"
        PROVE  status'[t] = "accepted"
    <3>1. t \in Tickets /\ t \notin DOMAIN plan[s]
      BY DEF PlansOwned, Jobs
    <3> QED BY <1>1, <2>2, <3>1 DEF PostTickets
  <2> QED BY <1>1, <2>1, <2>2, JobStepKeepsPlans
<1>9. HoldsOwned'
  <2>1. \A t \in Tickets : hold[t].by # "nobody" => t \notin DOMAIN plan[s]
    BY DEF PlansOwned
  <2> QED BY <1>1, <2>1, SameHoldsKept DEF HoldsOwned, PostTickets
<1> QED BY <1>1, <1>4, <1>7, <1>8, <1>9

\* bet_cancel: the settled tickets it can lock are reversed, and those whose
\* legs are then all resolved are settled again in the same transaction.
LEMMA MarketCancelIInv ==
  ASSUME IInv, NEW s \in Settlers, NEW m \in Markets, NEW win \in CancelWindows,
         MarketCancel(s, m, win)
  PROVE  IInv'
<1> USE DEF IInv
<1> DEFINE hit == {t \in AffectedTickets(m) : InWindow(t, win)}
           legs == VoidLegs(hit, m)
           undo == {t \in hit : status[t] = "settled" /\ t \notin LockedRows}
           redo == {t \in hit : /\ t \notin LockedRows
                                /\ status[t] \in {"accepted", "settled"}
                                /\ Resolved(t, legs[t])}
           P == [t \in redo |-> Settle(t, legs[t])]
           j == [Idle EXCEPT !.pc = "close", !.market = m]
<1>1. /\ job[s].pc = "idle" /\ leg' = legs
      /\ PostTickets(undo, P) /\ ledger' = PostLedger(undo, P)
      /\ marketStatus' = [marketStatus EXCEPT ![m] = IF win.end = None THEN -4 ELSE @]
      /\ job' = [job EXCEPT ![s] = j]
      /\ passedBy' = PassedBy(hit, legs, undo \cup redo)
      /\ UNCHANGED <<outcomeResult, price, matchClosed, odds, potential, plan, hold>>
  BY DEF MarketCancel, PostSettlement
<1>2. hit \subseteq Tickets /\ \A t \in hit : m \in LegsOf(t)
  BY DEF AffectedTickets
<1>3. /\ DOMAIN legs = Tickets
      /\ \A t \in Tickets : legs[t] \in [LegsOf(t) -> Results \cup {Unresolved}]
  <2>1. DOMAIN legs = Tickets
    BY DEF VoidLegs
  <2>2. ASSUME NEW t \in Tickets
        PROVE  legs[t] \in [LegsOf(t) -> Results \cup {Unresolved}]
    <3>1. leg[t] \in [LegsOf(t) -> Results \cup {Unresolved}]
      BY DEF TicketsTyped
    <3>2. legs[t] = IF t \in hit THEN [leg[t] EXCEPT ![m] = "void"] ELSE leg[t]
      BY DEF VoidLegs
    <3> HIDE DEF legs, hit
    <3> QED BY <3>1, <3>2 DEF Results
  <2> QED BY <2>1, <2>2
<1>4. /\ undo \in SUBSET Tickets /\ redo \subseteq Tickets
      /\ \A t \in undo : status[t] = "settled" /\ t \notin LockedRows
      /\ \A t \in redo : /\ status[t] = "accepted" \/ t \in undo
                         /\ t \notin LockedRows
                         /\ status[t] \notin {"absent", "placing"}
                         /\ Resolved(t, legs[t])
  BY <1>2
<1> HIDE DEF undo, redo, legs, hit
<1>5. DOMAIN P = redo /\ P \in [DOMAIN P -> Payouts]
  <2>1. ASSUME NEW t \in redo
        PROVE  Settle(t, legs[t]) \in Payouts
    BY <1>3, <1>4, SettleTyped
  <2> QED BY <2>1
<1>6. status \in [Tickets -> Statuses] /\ payout \in [Tickets -> Nat]
  BY DEF TicketsTyped
<1> HIDE DEF P
<1>7. BooksInOrder'
  BY <1>1, <1>4, <1>5, <1>6, PostingKeepsBooks
<1>8. status' \in [Tickets -> Statuses] /\ payout' \in [Tickets -> Nat]
  BY <1>1, <1>4, <1>5, <1>6, PostingKeepsTypes
<1>9. \A t \in Tickets : status'[t] \notin {"absent", "placing"} =>
                           status[t] \notin {"absent", "placing"}
  BY <1>1, <1>4, <1>5 DEF PostTickets
<1>10. TicketsTyped'
  BY <1>1, <1>3, <1>8, <1>9 DEF TicketsTyped
<1>11. PlansOwned'
  <2>1. j \in Jobs /\ j.held = {}
    BY CloseIsJob
  <2>2. ASSUME NEW x \in Settlers \ {s}, NEW t \in job[x].held, status[t] = "accepted"
        PROVE  status'[t] = "accepted"
    <3>1. t \in Tickets /\ t \in LockedRows
      BY DEF PlansOwned, Jobs, LockedRows
    <3>2. t \notin undo /\ t \notin DOMAIN P
      BY <1>4, <1>5, <3>1
    <3> QED BY <1>1, <2>2, <3>1, <3>2 DEF PostTickets
  <2> HIDE DEF j
  <2> QED BY <1>1, <2>1, <2>2, JobStepKeepsPlans
<1>12. marketStatus' \in [Markets -> MarketStatuses]
  BY <1>1 DEF MarketStatuses
<1>13. HoldsOwned'
  <2>1. \A t \in Tickets : hold[t].by # "nobody" => t \in LockedRows
    BY DEF LockedRows, HeldRows
  <2>2. \A t \in Tickets : hold[t].by # "nobody" => status'[t] = status[t]
    BY <1>1, <1>4, <1>5, <2>1 DEF PostTickets
  <2>3. passedBy' \subseteq Tickets
    BY <1>1, <1>2 DEF PassedBy, HoldsOwned
  <2> QED BY <1>1, <2>2, <2>3, SameHoldsKept
<1> QED BY <1>1, <1>7, <1>10, <1>11, <1>12, <1>13

\* A rollback message: settled tickets it can lock are reversed to open.
LEMMA MarketRollbackIInv ==
  ASSUME IInv, NEW s \in Settlers, NEW m \in Markets, NEW type, MarketRollback(s, m, type)
  PROVE  IInv'
<1> USE DEF IInv
<1> DEFINE undo == {t \in AffectedTickets(m) : status[t] = "settled" /\ t \notin LockedRows}
<1>1. /\ leg' = [t \in Tickets |-> IF t \in AffectedTickets(m)
                                   THEN [leg[t] EXCEPT ![m] = Unresolved] ELSE leg[t]]
      /\ PostTickets(undo, NoSettles) /\ ledger' = PostLedger(undo, NoSettles)
      /\ marketStatus' = [marketStatus EXCEPT ![m] = 1]
      /\ passedBy' = PassedBy(AffectedTickets(m), OpenLegs(m), undo)
      /\ UNCHANGED <<outcomeResult, price, matchClosed, odds, potential, job, plan, hold>>
  BY DEF MarketRollback, PostSettlement, OpenLegs
<1>2. /\ undo \in SUBSET Tickets
      /\ \A t \in undo : status[t] = "settled" /\ t \notin LockedRows
  BY DEF AffectedTickets
<1> HIDE DEF undo
<1>3. /\ DOMAIN leg' = Tickets
      /\ \A t \in Tickets : leg'[t] \in [LegsOf(t) -> Results \cup {Unresolved}]
  BY <1>1 DEF TicketsTyped
<1>4. NoSettles \in [DOMAIN NoSettles -> Payouts] /\ DOMAIN NoSettles = {}
  BY DEF NoSettles
<1>5. status \in [Tickets -> Statuses] /\ payout \in [Tickets -> Nat]
  BY DEF TicketsTyped
<1>6. BooksInOrder'
  BY <1>1, <1>2, <1>4, <1>5, PostingKeepsBooks
<1>7. status' \in [Tickets -> Statuses] /\ payout' \in [Tickets -> Nat]
  BY <1>1, <1>2, <1>4, <1>5, PostingKeepsTypes
<1>8. \A t \in Tickets : status'[t] \notin {"absent", "placing"} =>
                           status[t] \notin {"absent", "placing"}
  BY <1>1, <1>2, <1>4 DEF PostTickets
<1>9. TicketsTyped'
  BY <1>1, <1>3, <1>7, <1>8 DEF TicketsTyped
<1>10. PlansOwned'
  <2>1. \A x \in Settlers : job[x].held \subseteq Tickets
    BY DEF PlansOwned, Jobs
  <2>2. \A x \in Settlers : \A t \in job[x].held :
          /\ status[t] = "accepted" => status'[t] = "accepted"
          /\ hold'[t].by = "nobody"
    BY <1>1, <1>2, <1>4, <2>1 DEF PostTickets, PlansOwned
  <2> QED BY <1>1, <2>2, TicketStepKeepsPlans
<1>11. marketStatus' \in [Markets -> MarketStatuses]
  BY <1>1 DEF MarketStatuses
<1>12. HoldsOwned'
  <2>1. \A t \in Tickets : hold[t].by # "nobody" => t \in LockedRows
    BY DEF LockedRows, HeldRows
  <2>2. \A t \in Tickets : hold[t].by # "nobody" => status'[t] = status[t]
    BY <1>1, <1>2, <1>4, <2>1 DEF PostTickets
  <2>3. passedBy' \subseteq Tickets
    BY <1>1 DEF PassedBy, HoldsOwned, AffectedTickets
  <2> QED BY <1>1, <2>2, <2>3, SameHoldsKept
<1> QED BY <1>1, <1>6, <1>9, <1>10, <1>11, <1>12

\* Steps that touch neither tickets nor money: a job ends or moves on.
LEMMA JobOnlyIInv ==
  ASSUME IInv, NEW s \in Settlers, NEW j \in Jobs, j.held = {},
         job' = [job EXCEPT ![s] = j],
         \/ plan' = [plan EXCEPT ![s] = NoSettles]
         \/ plan' = plan /\ job[s].pc # "chunk",
         UNCHANGED <<marketStatus, outcomeResult, price, status, payout, leg, odds, potential,
                     ledger, hold, passedBy>>,
         matchClosed' \in [Matches -> BOOLEAN]
  PROVE  IInv'
<1> USE DEF IInv
<1>1. TicketsTyped'
  BY DEF TicketsTyped
<1>2. PlansOwned'
  BY JobStepKeepsPlans
<1>3. BooksInOrder'
  BY NoPostingKeepsBooks
<1>4. HoldsOwned'
  BY SameHoldsKept DEF HoldsOwned
<1> QED BY <1>1, <1>2, <1>3, <1>4

\* The sweep's repair of open legs on terminal markets.
LEMMA ReconcileStrandedIInv ==
  ASSUME IInv, NEW s \in Settlers, ReconcileStranded(s)
  PROVE  IInv'
<1> USE DEF IInv
<1> DEFINE ready == {t \in Tickets : status[t] = "accepted" /\ Resolved(t, HealedLegs[t])}
<1>1. /\ job[s].pc = "idle" /\ leg' = HealedLegs
      /\ job' = [job EXCEPT ![s] = StartChunks(s, ready, None)]
      /\ UNCHANGED <<marketStatus, outcomeResult, price, matchClosed, status, payout, odds,
                     potential, ledger, plan, hold, passedBy>>
  BY DEF ReconcileStranded, marketVars, moneyVars, lockVars
<1>2. ready \in SUBSET Tickets
  OBVIOUS
<1> HIDE DEF ready
<1>3. /\ DOMAIN leg' = Tickets
      /\ \A t \in Tickets : leg'[t] \in [LegsOf(t) -> Results \cup {Unresolved}]
  <2>1. ASSUME NEW t \in Tickets, NEW m \in LegsOf(t)
        PROVE  outcomeResult[m][Picks[t][m]] \in Results \cup {Unresolved}
    BY TicketAssumption DEF TicketsTyped
  <2> QED BY <1>1, <2>1 DEF HealedLegs, TicketsTyped
<1>4. TicketsTyped'
  BY <1>1, <1>3 DEF TicketsTyped
<1>5. PlansOwned'
  <2>1. StartChunks(s, ready, None) \in Jobs /\ StartChunks(s, ready, None).held = {}
    BY <1>2, StartChunksIsJob
  <2> QED BY <1>1, <2>1, JobStepKeepsPlans
<1>6. BooksInOrder'
  BY <1>1, NoPostingKeepsBooks
<1>7. HoldsOwned'
  BY <1>1, SameHoldsKept DEF HoldsOwned
<1> QED BY <1>1, <1>4, <1>5, <1>6, <1>7

\* The steps of the settlement service keep the invariant.
LEMMA SettlerStepIInv ==
  ASSUME IInv, SettlerNext
  PROVE  IInv'
<1>1. PICK s \in Settlers :
        \/ \E m \in Markets, res \in SettlePayloads : SettlePhase1(s, m, res)
        \/ \E C \in SUBSET Tickets : ChunkBegin(s, C)
        \/ ChunkCommit(s)
        \/ CloseMatch(s)
        \/ TxError(s)
        \/ \E m \in Markets, win \in CancelWindows : MarketCancel(s, m, win)
        \/ \E m \in Markets, win \in CancelWindows : MarketCancelSkip(s, m, win)
        \/ \E m \in Markets, type \in {"rollback_settle", "rollback_cancel"} :
             MarketRollback(s, m, type)
        \/ ReconcileStranded(s)
        \/ \E due \in SUBSET Matches : ReconcileMatchLifecycle(s, due)
  BY DEF SettlerNext
<1>2. matchClosed \in [Matches -> BOOLEAN] /\ job[s] \in Jobs
  BY DEF IInv, PlansOwned
<1>3. CASE CloseMatch(s)
  <2>1. /\ job[s].pc = "close" /\ job' = [job EXCEPT ![s] = Idle] /\ plan' = plan
        /\ UNCHANGED <<marketStatus, outcomeResult, price, status, payout, leg, odds, potential,
                       ledger, hold, passedBy>>
        /\ matchClosed' = [matchClosed EXCEPT ![MatchOf[job[s].market]] =
                             @ \/ BookTerminal(MatchOf[job[s].market])]
    BY <1>3 DEF CloseMatch, ticketVars, moneyVars, lockVars
  <2>2. matchClosed' \in [Matches -> BOOLEAN]
    BY <1>2, <2>1, Zenon
  <2> QED BY <2>1, <2>2, IdleIsJob, JobOnlyIInv
<1>4. CASE TxError(s)
  <2> DEFINE j == IF s \in Consumers THEN StartChunks(s, {}, job[s].market) ELSE Idle
  <2>1. /\ job' = [job EXCEPT ![s] = j] /\ plan' = [plan EXCEPT ![s] = NoSettles]
        /\ UNCHANGED <<marketStatus, outcomeResult, price, status, payout, leg, odds, potential,
                       ledger, hold, passedBy>>
        /\ matchClosed' = matchClosed
    BY <1>4 DEF TxError, marketVars, ticketVars, moneyVars, lockVars
  <2>2. j \in Jobs /\ j.held = {}
    <3>1. {} \in SUBSET Tickets /\ job[s].market \in Markets \cup {None}
      BY <1>2 DEF Jobs
    <3> QED BY <3>1, IdleIsJob, StartChunksIsJob
  <2> HIDE DEF j
  <2> QED BY <1>2, <2>1, <2>2, JobOnlyIInv
<1>5. ASSUME NEW m \in Markets, NEW win \in CancelWindows, MarketCancelSkip(s, m, win)
      PROVE  IInv'
  <2> DEFINE j == [Idle EXCEPT !.pc = "close", !.market = m]
  <2>1. /\ job[s].pc = "idle" /\ job' = [job EXCEPT ![s] = j] /\ plan' = plan
        /\ UNCHANGED <<marketStatus, outcomeResult, price, status, payout, leg, odds, potential,
                       ledger, hold, passedBy>>
        /\ matchClosed' = matchClosed
    BY <1>5 DEF MarketCancelSkip, marketVars, ticketVars, moneyVars, lockVars
  <2>2. j \in Jobs /\ j.held = {}
    BY CloseIsJob
  <2> HIDE DEF j
  <2> QED BY <1>2, <2>1, <2>2, JobOnlyIInv
<1>6. ASSUME NEW due \in SUBSET Matches, ReconcileMatchLifecycle(s, due)
      PROVE  IInv'
  <2>1. /\ job[s].pc = "close" /\ job' = [job EXCEPT ![s] = Idle] /\ plan' = plan
        /\ UNCHANGED <<marketStatus, outcomeResult, price, status, payout, leg, odds, potential,
                       ledger, hold, passedBy>>
    BY <1>6 DEF ReconcileMatchLifecycle, ticketVars, moneyVars, lockVars
  <2>2. matchClosed' \in [Matches -> BOOLEAN]
    BY <1>6 DEF ReconcileMatchLifecycle
  <2> QED BY <2>1, <2>2, IdleIsJob, JobOnlyIInv
<1> QED
  BY <1>1, <1>3, <1>4, <1>5, <1>6, SettlePhase1IInv, ChunkBeginIInv, ChunkCommitIInv,
     MarketCancelIInv, MarketRollbackIInv, ReconcileStrandedIInv

\* Every step keeps the inductive invariant.
LEMMA NextIInv == IInv /\ [Next]_vars => IInv'
<1> SUFFICES ASSUME IInv, [Next]_vars PROVE IInv'
  OBVIOUS
<1>1. ASSUME NEW m \in Markets, NEW st \in {1, 0}, NEW p \in Prices, FeedOddsChange(m, st, p)
      PROVE  IInv'
  <2>1. /\ marketStatus' = [marketStatus EXCEPT ![m] = IF @ \in Terminal THEN @ ELSE st]
        /\ price' = [price EXCEPT ![m] = p]
        /\ UNCHANGED <<outcomeResult, matchClosed, status, payout, leg, odds, potential, ledger,
                       job, plan, hold, passedBy>>
    BY <1>1 DEF FeedOddsChange, ticketVars, moneyVars, lockVars
  <2>2. marketStatus' \in [Markets -> MarketStatuses]
    BY <2>1 DEF IInv, MarketStatuses
  <2>3. TicketsTyped'
    BY <2>1 DEF IInv, TicketsTyped
  <2>4. PlansOwned'
    <3>1. \A s \in Settlers : \A t \in job[s].held : hold'[t].by = "nobody"
      BY <2>1 DEF IInv, PlansOwned
    <3> QED BY <2>1, <3>1, TicketStepKeepsPlans DEF IInv
  <2>5. BooksInOrder'
    BY <2>1, NoPostingKeepsBooks DEF IInv
  <2>6. HoldsOwned'
    BY <2>1, SameHoldsKept DEF IInv, HoldsOwned
  <2> QED BY <2>1, <2>2, <2>3, <2>4, <2>5, <2>6 DEF IInv
<1>2. CASE Crash
  <2>1. /\ job' = [s \in Settlers |-> Idle] /\ plan' = [s \in Settlers |-> NoSettles]
        /\ UNCHANGED <<marketStatus, outcomeResult, price, matchClosed, status, payout, leg, odds,
                       potential, ledger, hold, passedBy>>
    BY <1>2 DEF Crash, marketVars, ticketVars, moneyVars, lockVars
  <2>2. PlansOwned'
    <3>1. NoSettles \in [DOMAIN NoSettles -> Payouts] /\ DOMAIN NoSettles = {}
      BY DEF NoSettles
    <3> QED BY <2>1, <3>1, IdleIsJob DEF PlansOwned
  <2>3. TicketsTyped'
    BY <2>1 DEF IInv, TicketsTyped
  <2>4. BooksInOrder'
    BY <2>1, NoPostingKeepsBooks DEF IInv
  <2>5. HoldsOwned'
    BY <2>1, SameHoldsKept DEF IInv, HoldsOwned
  <2> QED BY <2>1, <2>2, <2>3, <2>4, <2>5 DEF IInv
<1>3. CASE Tick \/ UNCHANGED vars
  <2>1. UNCHANGED <<marketStatus, outcomeResult, price, matchClosed, status, payout, leg, odds,
                    potential, ledger, job, plan, hold, passedBy>>
    BY <1>3 DEF Tick, vars, marketVars, ticketVars, moneyVars, lockVars
  <2>2. TicketsTyped'
    BY <2>1 DEF IInv, TicketsTyped
  <2>3. PlansOwned'
    <3>1. \A s \in Settlers : \A t \in job[s].held : hold'[t].by = "nobody"
      BY <2>1 DEF IInv, PlansOwned
    <3> QED BY <2>1, <3>1, TicketStepKeepsPlans DEF IInv
  <2>4. BooksInOrder'
    BY <2>1, NoPostingKeepsBooks DEF IInv
  <2>5. HoldsOwned'
    BY <2>1, SameHoldsKept DEF IInv, HoldsOwned
  <2> QED BY <2>1, <2>2, <2>3, <2>4, <2>5 DEF IInv
<1> QED BY <1>1, <1>2, <1>3, TicketStepIInv, SettlerStepIInv DEF Next

-----------------------------------------------------------------------------
(* What a step may do to a ticket *)

\* The transaction that has the row of t ends, and it is not a chunk.
HoldEnds(t) == hold[t].by # "nobody" /\ hold'[t].by = "nobody"

\* The moves of tickets.status, and who may make them while a transaction has
\* the row: only that transaction.
TicketMove(t) ==
  \/ status'[t] = status[t]
  \/ status[t] = "absent" /\ status'[t] = "placing"
  \/ status[t] = "placing" /\ status'[t] \in OpenStatuses
  \/ status[t] = "pending_delay" /\ status'[t] \in {"accepted", "rejected"} /\ HoldEnds(t)
  \/ status[t] = "accepted" /\ status'[t] = "voided" /\ HoldEnds(t)
  \/ /\ status[t] = "accepted" /\ status'[t] = "settled"
     /\ t \notin LockedRows \/ \E s \in Settlers : t \in DOMAIN plan[s] /\ job'[s] # job[s]
  \/ status[t] = "settled" /\ status'[t] = "accepted" /\ payout'[t] = 0 /\ t \notin LockedRows

\* A step that only takes a row or lets go of it.
LockStep == UNCHANGED <<ticketVars, moneyVars, plan, passedBy>>

\* The steps of bettors, of the bet-delay worker and of the operator, one by one:
\* what the worker decided is about a ticket that is still pending.
LEMMA TicketCases ==
  ASSUME IInv, TicketNext
  PROVE  \E t \in Tickets :
           \/ PlaceValidate(t)
           \/ \E st \in OpenStatuses : PlaceCommit(t, st)
           \/ BetDelayAccept(t) /\ status[t] = "pending_delay"
           \/ BetDelayReprice(t) /\ status[t] = "pending_delay"
           \/ BetDelayReject(t) /\ status[t] = "pending_delay"
           \/ AdminVoid(t)
           \/ LockStep
<1>1. PICK t \in Tickets : \/ PlaceValidate(t)
                           \/ \E st \in OpenStatuses : PlaceCommit(t, st)
                           \/ BetDelayAccept(t)
                           \/ BetDelayReprice(t)
                           \/ BetDelayReject(t)
                           \/ AdminVoid(t)
                           \/ LockStep
  BY DEF TicketNext, BetDelayTake, VoidTake, VoidRefused, HoldFails, LockStep
<1>2. BetDelayAccept(t) \/ BetDelayReprice(t) \/ BetDelayReject(t) => status[t] = "pending_delay"
  BY DEF IInv, HoldsOwned, Decisions, BetDelayAccept, BetDelayReprice, BetDelayReject
<1> QED BY <1>1, <1>2

\* Bettors, the bet-delay worker and the operator make only these moves.
LEMMA TicketStepMoves ==
  ASSUME IInv, TicketNext, NEW t \in Tickets
  PROVE  TicketMove(t)
<1>1. status \in [Tickets -> Statuses]
  BY DEF IInv, TicketsTyped
<1>2. PICK u \in Tickets : \/ PlaceValidate(u)
                           \/ \E st \in OpenStatuses : PlaceCommit(u, st)
                           \/ BetDelayAccept(u)
                           \/ BetDelayReprice(u)
                           \/ BetDelayReject(u)
                           \/ AdminVoid(u)
                           \/ status' = status
  BY DEF TicketNext, BetDelayTake, VoidTake, VoidRefused, HoldFails, ticketVars
<1>6. CASE status' = status
  BY <1>6 DEF TicketMove
<1>7. /\ DOMAIN hold = Tickets /\ NoHold(u).by = "nobody"
      /\ hold[u].by \in Decisions => status[u] = "pending_delay"
  BY NoHoldTyped DEF IInv, HoldsOwned
<1>3. ASSUME status' # status
      PROVE  \E st \in Statuses :
        /\ status' = [status EXCEPT ![u] = st]
        /\ \/ status[u] = "absent" /\ st = "placing"
           \/ status[u] = "placing" /\ st \in OpenStatuses
           \/ status[u] = "pending_delay" /\ st \in {"accepted", "rejected"} /\ HoldEnds(u)
           \/ status[u] = "accepted" /\ st = "voided" /\ HoldEnds(u)
  BY <1>2, <1>3, <1>7 DEF PlaceValidate, PlaceCommit, BetDelayAccept, BetDelayReprice,
       BetDelayReject, AdminVoid, Decisions, HoldEnds, ReleaseRow, Statuses, OpenStatuses
<1>4. CASE t = u /\ status' # status
  BY <1>1, <1>3, <1>4 DEF TicketMove
<1>5. CASE t # u /\ status' # status
  BY <1>1, <1>3, <1>5 DEF TicketMove
<1> QED BY <1>4, <1>5, <1>6

\* A posting of unlocked rows.
LEMMA PostingMoves ==
  ASSUME NEW R \in SUBSET Tickets, NEW P, DOMAIN P \subseteq Tickets,
         \A t \in R : status[t] = "settled" /\ t \notin LockedRows,
         \A t \in DOMAIN P : (status[t] = "accepted" /\ t \notin LockedRows) \/ t \in R,
         PostTickets(R, P), NEW t \in Tickets
  PROVE  TicketMove(t)
<1>1. CASE t \in DOMAIN P
  BY <1>1 DEF PostTickets, TicketMove
<1>2. CASE t \notin DOMAIN P /\ t \in R
  BY <1>2 DEF PostTickets, TicketMove
<1>3. CASE t \notin DOMAIN P /\ t \notin R
  BY <1>3 DEF PostTickets, TicketMove
<1> QED BY <1>1, <1>2, <1>3

\* So does the settlement service.
LEMMA SettlerStepMoves ==
  ASSUME IInv, SettlerNext, NEW t \in Tickets
  PROVE  TicketMove(t)
<1>1. PICK s \in Settlers :
        \/ ChunkCommit(s)
        \/ \E m \in Markets, win \in CancelWindows : MarketCancel(s, m, win)
        \/ \E m \in Markets, type \in {"rollback_settle", "rollback_cancel"} :
             MarketRollback(s, m, type)
        \/ status' = status
  BY DEF SettlerNext, SettlePhase1, ChunkBegin, CloseMatch, TxError, MarketCancelSkip,
         ReconcileStranded, ReconcileMatchLifecycle, ticketVars
<1>2. CASE status' = status
  BY <1>2 DEF TicketMove
<1>3. CASE ChunkCommit(s)
  <2>1. PostTickets({}, plan[s]) /\ job[s].pc = "chunk"
    BY <1>3 DEF ChunkCommit, PostSettlement
  <2>2. job'[s].pc # "chunk"
    BY <1>3 DEF ChunkCommit, StartChunks, IInv, PlansOwned
  <2>3. \A u \in DOMAIN plan[s] : status[u] = "accepted"
    BY DEF IInv, PlansOwned
  <2>4. CASE t \in DOMAIN plan[s]
    BY <2>1, <2>2, <2>3, <2>4 DEF PostTickets, TicketMove
  <2>5. CASE t \notin DOMAIN plan[s]
    BY <2>1, <2>5 DEF PostTickets, TicketMove
  <2> QED BY <2>4, <2>5
<1>4. ASSUME NEW m \in Markets, NEW win \in CancelWindows, MarketCancel(s, m, win)
      PROVE  TicketMove(t)
  <2> DEFINE hit == {u \in AffectedTickets(m) : InWindow(u, win)}
             legs == VoidLegs(hit, m)
             undo == {u \in hit : status[u] = "settled" /\ u \notin LockedRows}
             redo == {u \in hit : /\ u \notin LockedRows
                                  /\ status[u] \in {"accepted", "settled"}
                                  /\ Resolved(u, legs[u])}
             P == [u \in redo |-> Settle(u, legs[u])]
  <2>1. PostTickets(undo, P)
    BY <1>4 DEF MarketCancel, PostSettlement
  <2>2. /\ undo \in SUBSET Tickets /\ DOMAIN P \subseteq Tickets
        /\ \A u \in undo : status[u] = "settled" /\ u \notin LockedRows
        /\ \A u \in DOMAIN P : (status[u] = "accepted" /\ u \notin LockedRows) \/ u \in undo
    BY DEF AffectedTickets
  <2> HIDE DEF undo, P
  <2> QED BY <2>1, <2>2, PostingMoves
<1>5. ASSUME NEW m \in Markets, NEW type, MarketRollback(s, m, type)
      PROVE  TicketMove(t)
  <2> DEFINE undo == {u \in AffectedTickets(m) : status[u] = "settled" /\ u \notin LockedRows}
  <2>1. PostTickets(undo, NoSettles)
    BY <1>5 DEF MarketRollback, PostSettlement
  <2>2. /\ undo \in SUBSET Tickets /\ DOMAIN NoSettles = {}
        /\ \A u \in undo : status[u] = "settled" /\ u \notin LockedRows
    BY DEF AffectedTickets, NoSettles
  <2> HIDE DEF undo
  <2> QED BY <2>1, <2>2, PostingMoves
<1> QED BY <1>1, <1>2, <1>3, <1>4, <1>5

\* And with them every step.
LEMMA StepMoves ==
  ASSUME IInv, [Next]_vars, NEW t \in Tickets
  PROVE  TicketMove(t)
<1>1. CASE TicketNext
  BY <1>1, TicketStepMoves
<1>2. CASE SettlerNext
  BY <1>2, SettlerStepMoves
<1>3. CASE ~ TicketNext /\ ~ SettlerNext
  <2>1. status' = status
    BY <1>3 DEF Next, FeedOddsChange, Crash, Tick, vars, ticketVars
  <2> QED BY <2>1 DEF TicketMove
<1> QED BY <1>1, <1>2, <1>3

-----------------------------------------------------------------------------
(* Theorems *)

\* The inductive invariant holds in every reachable state.
THEOREM Inductive == Spec => []IInv
<1> QED BY InitIInv, NextIInv, PTL DEF Spec

\* Types: in particular the payout of a settle is a natural number, plans pay
\* only rows their transaction holds, and no ledger row has generation 0.
THEOREM TypeCorrect == Spec => []TypeOK
<1>1. IInv => TypeOK
  BY DEF IInv, TicketsTyped, PlansOwned, HoldsOwned, BooksInOrder, TypeOK, Jobs, Payouts
<1> QED BY <1>1, Inductive, PTL

\* For any number of settlers, chunks, cancels, rollbacks and re-settles, every
\* adjustment compensates one credit of its ticket and at most one credit is
\* live, the one the ticket's status and payout call for.
THEOREM NoDoubleCredit == Spec => []OneLiveCredit
<1>1. IInv => OneLiveCredit
  BY DEF IInv, BooksInOrder, TicketBooks, OneLiveCredit
<1> QED BY <1>1, Inductive, PTL

\* A rejected, voided or cashed-out ticket is final, and a settled one goes back
\* to the book only with its payout cleared.
THEOREM Lifecycle == Spec => LifecycleOnlyForward
<1> DEFINE A == \A t \in Tickets :
         /\ status[t] \in {"rejected", "voided", "cashed_out"} => status'[t] = status[t]
         /\ status[t] = "settled" => status'[t] \in {"settled", "accepted"}
         /\ status[t] = "accepted" =>
              status'[t] \notin {"absent", "placing", "pending_delay", "rejected"}
         /\ status'[t] = "accepted" /\ status[t] = "settled" => payout'[t] = 0
<1>1. IInv /\ [Next]_vars => [A]_vars
  <2> SUFFICES ASSUME IInv, [Next]_vars, NEW t \in Tickets
               PROVE  /\ status[t] \in {"rejected", "voided", "cashed_out"} => status'[t] = status[t]
                      /\ status[t] = "settled" => status'[t] \in {"settled", "accepted"}
                      /\ status[t] = "accepted" =>
                           status'[t] \notin {"absent", "placing", "pending_delay", "rejected"}
                      /\ status'[t] = "accepted" /\ status[t] = "settled" => payout'[t] = 0
    OBVIOUS
  <2> QED BY StepMoves DEF TicketMove
<1> QED BY <1>1, Inductive, PTL DEF Spec, LifecycleOnlyForward

\* A settler works only on tickets that are committed.
JobsCommitted ==
  \A s \in Settlers : \A t \in job[s].todo \cup job[s].held :
    t \in Tickets /\ status[t] \notin {"absent", "placing"}

\* Tickets on a settler's list were committed when they were listed, and a
\* committed ticket stays so.
LEMMA NextJobsCommitted == IInv /\ JobsCommitted /\ [Next]_vars => JobsCommitted'
<1> SUFFICES ASSUME IInv, JobsCommitted, [Next]_vars, NEW s \in Settlers,
                    NEW t \in job'[s].todo \cup job'[s].held
             PROVE  t \in Tickets /\ status'[t] \notin {"absent", "placing"}
  BY DEF JobsCommitted
<1>1. SUFFICES t \in Tickets /\ status[t] \notin {"absent", "placing"}
  BY <1>1, StepMoves DEF TicketMove, OpenStatuses
<1>2. job \in [Settlers -> Jobs]
  BY DEF IInv, PlansOwned
<1>3. CASE job' = job
  BY <1>3 DEF JobsCommitted
<1>4. CASE job' # job
  <2>1. CASE Crash
    BY <2>1 DEF Crash, Idle
  <2>2. ASSUME NEW x \in Settlers, NEW j, job' = [job EXCEPT ![x] = j],
               j.todo \cup j.held \subseteq
                 {u \in Tickets : status[u] \notin {"absent", "placing"}}
        PROVE  t \in Tickets /\ status[t] \notin {"absent", "placing"}
    BY <1>2, <2>2 DEF JobsCommitted
  <2>3. ASSUME NEW x \in Settlers, NEW m \in Markets, NEW res, SettlePhase1(x, m, res)
        PROVE  t \in Tickets /\ status[t] \notin {"absent", "placing"}
    <3> DEFINE j == StartChunks(x, AffectedTickets(m), m)
    <3>1. job' = [job EXCEPT ![x] = j]
      BY <2>3 DEF SettlePhase1
    <3>2. j.todo = AffectedTickets(m) /\ j.held = {}
      BY DEF StartChunks
    <3> HIDE DEF j
    <3> QED BY <2>2, <3>1, <3>2 DEF AffectedTickets
  <2>4. ASSUME NEW x \in Settlers, NEW C, ChunkBegin(x, C)
        PROVE  t \in Tickets /\ status[t] \notin {"absent", "placing"}
    BY <2>2, <2>4 DEF ChunkBegin, GrabRows, JobsCommitted
  <2>5. ASSUME NEW x \in Settlers, ChunkCommit(x) \/ TxError(x)
        PROVE  t \in Tickets /\ status[t] \notin {"absent", "placing"}
    BY <2>2, <2>5 DEF ChunkCommit, TxError, StartChunks, Idle, JobsCommitted
  <2>6. ASSUME NEW x \in Settlers, NEW due, CloseMatch(x) \/ ReconcileMatchLifecycle(x, due)
        PROVE  t \in Tickets /\ status[t] \notin {"absent", "placing"}
    BY <2>2, <2>6 DEF CloseMatch, ReconcileMatchLifecycle, Idle
  <2>7. ASSUME NEW x \in Settlers, NEW m \in Markets, NEW win,
               MarketCancel(x, m, win) \/ MarketCancelSkip(x, m, win)
        PROVE  t \in Tickets /\ status[t] \notin {"absent", "placing"}
    <3> DEFINE j == [Idle EXCEPT !.pc = "close", !.market = m]
    <3>1. j.todo = {} /\ j.held = {}
      BY DEF Idle
    <3>2. job' = [job EXCEPT ![x] = j]
      BY <2>7 DEF MarketCancel, MarketCancelSkip
    <3> HIDE DEF j
    <3> QED BY <2>2, <3>1, <3>2
  <2>8. ASSUME NEW x \in Settlers, ReconcileStranded(x)
        PROVE  t \in Tickets /\ status[t] \notin {"absent", "placing"}
    <3> DEFINE ready == {u \in Tickets : status[u] = "accepted" /\ Resolved(u, HealedLegs[u])}
               j == StartChunks(x, ready, None)
    <3>1. job' = [job EXCEPT ![x] = j]
      BY <2>8 DEF ReconcileStranded
    <3>2. j.todo = ready /\ j.held = {}
      BY DEF StartChunks
    <3> HIDE DEF j
    <3> QED BY <2>2, <3>1, <3>2
  <2>9. CASE SettlerNext
    <3>1. \A x \in Settlers, m \in Markets :
            \A type \in {"rollback_settle", "rollback_cancel"} : ~ MarketRollback(x, m, type)
      BY <1>4 DEF MarketRollback
    <3> QED BY <2>9, <3>1, <2>3, <2>4, <2>5, <2>6, <2>7, <2>8 DEF SettlerNext
  <2>10. CASE TicketNext
    BY <2>10, <1>4 DEF TicketNext, PlaceValidate, PlaceCommit, BetDelayTake, BetDelayAccept,
                       BetDelayReprice, BetDelayReject, VoidTake, AdminVoid, VoidRefused, HoldFails
  <2> QED BY <1>4, <2>1, <2>9, <2>10 DEF Next, FeedOddsChange, Tick, vars
<1> QED BY <1>3, <1>4

\* Odds and promise of a ticket change only in the transaction that places it or
\* that has its row.
LEMMA StepKeepsTerms ==
  ASSUME IInv, [Next]_vars, NEW t \in Tickets, hold[t].by # "nobody", hold'[t] = hold[t]
  PROVE  odds'[t] = odds[t] /\ potential'[t] = potential[t]
<1>1. /\ DOMAIN odds = Tickets /\ DOMAIN potential = Tickets /\ DOMAIN hold = Tickets
      /\ status[t] \notin {"absent", "placing"}
  BY DEF IInv, TicketsTyped, HoldsOwned
<1>2. CASE TicketNext
  <2>1. PICK u \in Tickets : \/ PlaceValidate(u)
                             \/ \E st \in OpenStatuses : PlaceCommit(u, st)
                             \/ BetDelayReprice(u)
                             \/ odds' = odds /\ potential' = potential
    BY <1>2 DEF TicketNext, BetDelayTake, BetDelayAccept, BetDelayReject, VoidTake, AdminVoid,
                VoidRefused, HoldFails, ticketVars
  <2>2. CASE PlaceValidate(u) \/ \E st \in OpenStatuses : PlaceCommit(u, st)
    BY <1>1, <2>2 DEF PlaceValidate, PlaceCommit
  <2>3. CASE BetDelayReprice(u)
    <3>1. hold' = [hold EXCEPT ![u] = NoHold(u)] /\ NoHold(u).by = "nobody"
      BY <2>3, NoHoldTyped DEF BetDelayReprice, ReleaseRow
    <3>2. u # t
      BY <1>1, <3>1
    <3> QED BY <1>1, <2>3, <3>2 DEF BetDelayReprice
  <2> QED BY <2>1, <2>2, <2>3
<1>3. CASE SettlerNext
  <2>1. PICK s \in Settlers :
          \/ ChunkCommit(s)
          \/ \E m \in Markets, win \in CancelWindows : MarketCancel(s, m, win)
          \/ \E m \in Markets, type \in {"rollback_settle", "rollback_cancel"} :
               MarketRollback(s, m, type)
          \/ odds' = odds /\ potential' = potential
    BY <1>3 DEF SettlerNext, SettlePhase1, ChunkBegin, CloseMatch, TxError, MarketCancelSkip,
                ReconcileStranded, ReconcileMatchLifecycle, ticketVars
  <2> QED BY <2>1 DEF ChunkCommit, MarketCancel, MarketRollback
<1>4. CASE ~ TicketNext /\ ~ SettlerNext
  BY <1>4 DEF Next, FeedOddsChange, Crash, Tick, vars, ticketVars
<1> QED BY <1>2, <1>3, <1>4

\* While a transaction has a row, no other step changes what it read there, nor
\* takes the row: what it planned or decided from is still there when it commits.
THEOREM HeldRowsStay == Spec => HeldRowsAreStable
<1> DEFINE A == /\ \A s \in Settlers : job'[s] = job[s] =>
                     \A t \in job[s].held :
                       /\ status'[t] = status[t] /\ hold'[t].by = "nobody"
                       /\ \A x \in Settlers \ {s} : t \notin job'[x].held
                /\ \A t \in HeldRows : hold'[t] = hold[t] =>
                     /\ status'[t] = status[t] /\ odds'[t] = odds[t] /\ potential'[t] = potential[t]
                     /\ \A s \in Settlers : t \notin job'[s].held
<1>1. Init => JobsCommitted
  BY DEF Init, Idle, JobsCommitted
<1>2. IInv /\ IInv' /\ JobsCommitted /\ [Next]_vars => [A]_vars
  <2> SUFFICES ASSUME IInv, IInv', JobsCommitted, [Next]_vars PROVE A
    OBVIOUS
  <2>1. ASSUME NEW s \in Settlers, job'[s] = job[s], NEW t \in job[s].held
        PROVE  /\ status'[t] = status[t] /\ hold'[t].by = "nobody"
               /\ \A x \in Settlers \ {s} : t \notin job'[x].held
    <3>1. t \in Tickets /\ t \in LockedRows /\ status[t] \notin {"absent", "placing"}
      BY <2>1 DEF JobsCommitted, LockedRows
    <3>2. /\ \A x \in Settlers : t \in DOMAIN plan[x] => x = s
          /\ hold[t].by = "nobody"
      BY <2>1 DEF IInv, PlansOwned
    <3>3. status'[t] = status[t]
      BY <2>1, <3>1, <3>2, StepMoves DEF TicketMove, HoldEnds
    <3>4. hold'[t].by = "nobody" /\ \A x \in Settlers \ {s} : t \notin job'[x].held
      BY <2>1 DEF IInv, PlansOwned
    <3> QED BY <3>3, <3>4
  <2>2. ASSUME NEW t \in HeldRows, hold'[t] = hold[t]
        PROVE  /\ status'[t] = status[t] /\ odds'[t] = odds[t] /\ potential'[t] = potential[t]
               /\ \A s \in Settlers : t \notin job'[s].held
    <3>1. t \in Tickets /\ t \in LockedRows /\ hold[t].by # "nobody"
      BY DEF HeldRows, LockedRows
    <3>2. /\ status[t] \notin {"absent", "placing"}
          /\ \A s \in Settlers : t \notin DOMAIN plan[s]
          /\ \A s \in Settlers : t \notin job'[s].held
      BY <2>2, <3>1 DEF IInv, HoldsOwned, PlansOwned
    <3>3. status'[t] = status[t]
      BY <2>2, <3>1, <3>2, StepMoves DEF TicketMove, HoldEnds
    <3> QED BY <2>2, <3>1, <3>2, <3>3, StepKeepsTerms
  <2> QED BY <2>1, <2>2
<1> QED BY <1>1, <1>2, NextJobsCommitted, Inductive, PTL DEF Spec, HeldRowsAreStable

-----------------------------------------------------------------------------
(* The sums *)

OpenOf(w) == {t \in Tickets : WalletOf[t] = w /\ status[t] \in OpenStatuses}
RowsOf(w) == {r \in ledger : WalletOf[r.ticket] = w}
UnbookedOf(w) == {t \in Tickets : WalletOf[t] = w /\ VoidUnbooked(t)}

\* What the sums range over: the ledger is finite, wallets hold whole
\* micro-units, and a ticket has rows only once it is committed, so its
\* bet_stake row is new when it commits.
Countable ==
  /\ IsFiniteSet(ledger)
  /\ wallet \in [Wallets -> [balance: Int, locked: Int]]
  /\ \A r \in ledger : status[r.ticket] \notin {"absent", "placing"}

\* A step moves a wallet by what it moves the open stakes and the books.
WalletStep(w) ==
  /\ wallet'[w].locked = wallet[w].locked + (Stakes(OpenOf(w)') - Stakes(OpenOf(w)))
  /\ Available(w)' = Available(w) + ((RowSum(RowsOf(w)') + Stakes(UnbookedOf(w)'))
                                      - (RowSum(RowsOf(w)) + Stakes(UnbookedOf(w))))
MoneyStep == \A w \in Wallets : WalletStep(w)

-----------------------------------------------------------------------------
(* Sums of stakes and of rows *)

\* Stakes of any set of tickets are a natural number.
LEMMA StakesType ==
  ASSUME NEW S \in SUBSET Tickets
  PROVE  IsFiniteSet(S) /\ Stakes(S) \in Nat
<1>1. IsFiniteSet(S) /\ \A t \in S : Stake[t] \in Nat
  BY TicketAssumption, FS_Subset
<1> QED BY <1>1, SumNat DEF Stakes

\* Some tickets come to a set and some leave it.
LEMMA StakesMove ==
  ASSUME NEW A \in SUBSET Tickets, NEW B \in SUBSET Tickets, A \cap B = {},
         NEW C \in SUBSET (A \cup B)
  PROVE  Stakes((A \cup B) \ C) = (Stakes(A) + Stakes(B)) - Stakes(C)
<1>1. IsFiniteSet(A) /\ IsFiniteSet(B)
  BY StakesType
<1>2. \A t \in A \cup B : Stake[t] \in Int
  BY TicketAssumption
<1> QED BY <1>1, <1>2, SumMove DEF Stakes

\* The stakes of one ticket, and of none.
LEMMA StakesOne ==
  ASSUME NEW t \in Tickets
  PROVE  Stakes({t}) = Stake[t] /\ Stakes({}) = 0
<1>1. Stake[t] \in Int /\ \A y \in {} \cup {t} : Stake[y] \in Int
  BY TicketAssumption
<1>2. Stakes({}) = 0
  BY SumEmpty DEF Stakes
<1>3. SumFunctionOnSet(Stake, {} \cup {t}) = Stake[t] + SumFunctionOnSet(Stake, {})
  BY <1>1, SumAdd, FS_EmptySet
<1>4. {} \cup {t} = {t}
  OBVIOUS
<1> QED BY <1>1, <1>2, <1>3, <1>4 DEF Stakes

\* A set of rows adds up to a whole number.
LEMMA RowSumType ==
  ASSUME NEW S, IsFiniteSet(S), \A r \in S : r.delta \in Int
  PROVE  RowSum(S) \in Int
BY SumType DEF RowSum

\* New rows add what they hold.
LEMMA RowSumUnion ==
  ASSUME NEW S, NEW N, IsFiniteSet(S), IsFiniteSet(N), S \cap N = {},
         \A r \in S \cup N : r.delta \in Int
  PROVE  RowSum(S \cup N) = RowSum(S) + RowSum(N)
<1> DEFINE f == [r \in S \cup N |-> r.delta]
           g == [r \in S |-> r.delta]
           h == [r \in N |-> r.delta]
<1>1. SumFunctionOnSet(f, S \cup N) = SumFunctionOnSet(f, S) + SumFunctionOnSet(f, N)
  <2>1. \A r \in S \cup N : f[r] \in Int
    OBVIOUS
  <2> HIDE DEF f
  <2> QED BY <2>1, SumDisjoint
<1>2. SumFunctionOnSet(f, S) = SumFunctionOnSet(g, S)
  <2>1. \A r \in S : f[r] = g[r]
    OBVIOUS
  <2> HIDE DEF f, g
  <2> QED BY <2>1, SumSame
<1>3. SumFunctionOnSet(f, N) = SumFunctionOnSet(h, N)
  <2>1. \A r \in N : f[r] = h[r]
    OBVIOUS
  <2> HIDE DEF f, h
  <2> QED BY <2>1, SumSame
<1> QED BY <1>1, <1>2, <1>3 DEF RowSum

\* One row, and none.
LEMMA RowSumOne ==
  ASSUME NEW r, r.delta \in Int
  PROVE  RowSum({r}) = r.delta /\ RowSum({}) = 0
<1> DEFINE f == [x \in {r} |-> x.delta]
<1>1. RowSum({}) = 0
  BY SumEmpty DEF RowSum
<1>2. SumFunctionOnSet(f, {} \cup {r}) = f[r] + SumFunctionOnSet(f, {})
  <2>1. \A y \in {} \cup {r} : f[y] \in Int
    OBVIOUS
  <2> HIDE DEF f
  <2> QED BY <2>1, SumAdd, FS_EmptySet
<1>3. SumFunctionOnSet(f, {}) = 0 /\ {} \cup {r} = {r} /\ f[r] = r.delta
  BY SumEmpty
<1> HIDE DEF f
<1>4. SumFunctionOnSet(f, {r}) = r.delta
  BY <1>2, <1>3
<1> QED BY <1>1, <1>4 DEF RowSum, f

\* A row that the apply-once insert adds was not there.
LEMMA InsertIsNew ==
  ASSUME NEW L, NEW row
  PROVE  /\ InsertUnlessExists(L, row) \subseteq {row}
         /\ InsertUnlessExists(L, row) \cap L = {}
         /\ IsFiniteSet(InsertUnlessExists(L, row))
<1>1. /\ InsertUnlessExists(L, row) \subseteq {row}
      /\ InsertUnlessExists(L, row) \cap L = {}
  BY DEF InsertUnlessExists
<1>2. IsFiniteSet({row})
  BY FS_Singleton
<1> QED BY <1>1, <1>2, FS_Subset

-----------------------------------------------------------------------------
(* Frames *)

\* Types that every sum rests on.
LEMMA SumTypes ==
  ASSUME IInv, Countable, NEW w \in Wallets
  PROVE  /\ OpenOf(w) \in SUBSET Tickets /\ UnbookedOf(w) \in SUBSET Tickets
         /\ IsFiniteSet(RowsOf(w)) /\ RowsOf(w) \subseteq LedgerRow
         /\ RowSum(RowsOf(w)) \in Int
         /\ Stakes(OpenOf(w)) \in Nat /\ Stakes(UnbookedOf(w)) \in Nat
         /\ wallet[w].balance \in Int /\ wallet[w].locked \in Int /\ Available(w) \in Int
<1>1. OpenOf(w) \in SUBSET Tickets /\ UnbookedOf(w) \in SUBSET Tickets
  BY DEF OpenOf, UnbookedOf
<1>2. IsFiniteSet(RowsOf(w)) /\ RowsOf(w) \subseteq LedgerRow
  <2>1. RowsOf(w) \in SUBSET ledger
    BY DEF RowsOf
  <2> QED BY <2>1, FS_Subset DEF Countable, IInv, BooksInOrder
<1>3. RowSum(RowsOf(w)) \in Int
  <2>1. \A r \in RowsOf(w) : r.delta \in Int
    BY <1>2 DEF LedgerRow
  <2> QED BY <2>1, <1>2, RowSumType
<1>4. wallet[w].balance \in Int /\ wallet[w].locked \in Int /\ Available(w) \in Int
  BY DEF Countable, Available
<1> QED BY <1>1, <1>2, <1>3, <1>4, StakesType

\* A void that was booked stays booked, and one that was not stays so.
LEMMA UnbookedStays ==
  ASSUME NEW t, (status'[t] = "voided") <=> (status[t] = "voided"),
         status[t] = "voided" => /\ CreditRows(ledger', t) = CreditRows(ledger, t)
                                 /\ Adjustments(ledger', t) = Adjustments(ledger, t)
  PROVE  VoidUnbooked(t)' <=> VoidUnbooked(t)
BY DEF VoidUnbooked

\* A wallet whose tickets, rows and record stay put.
LEMMA StillWallet ==
  ASSUME IInv, Countable, NEW w \in Wallets, wallet'[w] = wallet[w],
         RowsOf(w)' = RowsOf(w), OpenOf(w)' = OpenOf(w), UnbookedOf(w)' = UnbookedOf(w)
  PROVE  WalletStep(w)
<1>1. Available(w)' = Available(w)
  BY DEF Available
<1> QED BY <1>1, SumTypes DEF WalletStep

\* A step that posts no row, moves no money and opens, ends and voids no ticket.
LEMMA QuietStep ==
  ASSUME IInv, Countable, wallet' = wallet, ledger' = ledger,
         \A t \in Tickets : /\ status'[t] \in OpenStatuses <=> status[t] \in OpenStatuses
                            /\ (status'[t] = "voided") <=> (status[t] = "voided")
                            /\ status[t] \notin {"absent", "placing"} =>
                                 status'[t] \notin {"absent", "placing"}
  PROVE  Countable' /\ MoneyStep
<1>1. Countable'
  <2>1. \A r \in ledger : r.ticket \in Tickets
    BY DEF IInv, BooksInOrder, LedgerRow
  <2> QED BY <2>1 DEF Countable
<1>2. ASSUME NEW w \in Wallets
      PROVE  WalletStep(w)
  <2>1. RowsOf(w)' = RowsOf(w)
    BY DEF RowsOf
  <2>2. OpenOf(w)' = OpenOf(w)
    BY DEF OpenOf
  <2>3. UnbookedOf(w)' = UnbookedOf(w)
    <3>1. \A t \in Tickets : VoidUnbooked(t)' <=> VoidUnbooked(t)
      BY UnbookedStays
    <3> QED BY <3>1 DEF UnbookedOf
  <2> QED BY <2>1, <2>2, <2>3, StillWallet
<1> QED BY <1>1, <1>2 DEF MoneyStep

\* The rows of every wallet after new ones were posted.
LEMMA RowsGrow ==
  ASSUME IInv, Countable, NEW N \in SUBSET LedgerRow, IsFiniteSet(N), N \cap ledger = {},
         ledger' = ledger \cup N, NEW w \in Wallets
  PROVE  LET mine == {r \in N : WalletOf[r.ticket] = w}
         IN  /\ IsFiniteSet(ledger') /\ IsFiniteSet(mine) /\ RowSum(mine) \in Int
             /\ RowSum(RowsOf(w)') = RowSum(RowsOf(w)) + RowSum(mine)
<1> DEFINE mine == {r \in N : WalletOf[r.ticket] = w}
<1>1. IsFiniteSet(ledger')
  BY FS_Union DEF Countable
<1>2. mine \in SUBSET N /\ IsFiniteSet(mine)
  BY FS_Subset
<1>3. RowsOf(w)' = RowsOf(w) \cup mine /\ RowsOf(w) \cap mine = {}
  BY DEF RowsOf
<1>4. \A r \in RowsOf(w) \cup mine : r.delta \in Int
  <2>1. RowsOf(w) \cup mine \subseteq LedgerRow
    BY <1>2, SumTypes
  <2> QED BY <2>1 DEF LedgerRow
<1>5. IsFiniteSet(RowsOf(w))
  BY SumTypes
<1> HIDE DEF mine
<1>6. RowSum(mine) \in Int
  BY <1>2, <1>4, RowSumType
<1>7. RowSum(RowsOf(w) \cup mine) = RowSum(RowsOf(w)) + RowSum(mine)
  BY <1>2, <1>3, <1>4, <1>5, RowSumUnion
<1> QED BY <1>1, <1>2, <1>3, <1>6, <1>7 DEF mine

-----------------------------------------------------------------------------
(* Steps that write one ticket *)

\* Rows of one ticket leave the rows of the others alone.
LEMMA OtherTicketsUnbooked ==
  ASSUME NEW t \in Tickets, NEW u \in Tickets, u # t, status'[u] = status[u],
         NEW N, \A r \in N : r.ticket = t, ledger' = ledger \cup N
  PROVE  VoidUnbooked(u)' <=> VoidUnbooked(u)
<1>1. CreditRows(ledger', u) = CreditRows(ledger, u)
  BY DEF CreditRows
<1>2. Adjustments(ledger', u) = Adjustments(ledger, u)
  BY DEF Adjustments
<1> QED BY <1>1, <1>2, UnbookedStays

\* A step that writes a ticket, its wallet and rows of its own: what is left to
\* show is that its wallet moves by the books.
LEMMA OneTicketStep ==
  ASSUME IInv, Countable, NEW t \in Tickets, NEW st \in Statuses \ {"absent", "placing"},
         status' = [status EXCEPT ![t] = st],
         NEW N \in SUBSET LedgerRow, IsFiniteSet(N), \A r \in N : r.ticket = t,
         ledger' = ledger \cup N,
         wallet' \in [Wallets -> [balance: Int, locked: Int]],
         \A w \in Wallets \ {WalletOf[t]} : wallet'[w] = wallet[w],
         WalletStep(WalletOf[t])
  PROVE  Countable' /\ MoneyStep
<1>1. status \in [Tickets -> Statuses] /\ \A r \in ledger : r.ticket \in Tickets
  BY DEF IInv, TicketsTyped, BooksInOrder, LedgerRow
<1>2. Countable'
  <2>1. IsFiniteSet(ledger')
    BY FS_Union DEF Countable
  <2>2. \A r \in ledger' : status'[r.ticket] \notin {"absent", "placing"}
    BY <1>1 DEF Countable
  <2> QED BY <2>1, <2>2 DEF Countable
<1>3. ASSUME NEW w \in Wallets, w # WalletOf[t]
      PROVE  WalletStep(w)
  <2>1. RowsOf(w)' = RowsOf(w)
    BY <1>3 DEF RowsOf
  <2>2. OpenOf(w)' = OpenOf(w)
    BY <1>1, <1>3 DEF OpenOf
  <2>3. UnbookedOf(w)' = UnbookedOf(w)
    <3>1. ASSUME NEW u \in Tickets, WalletOf[u] = w
          PROVE  VoidUnbooked(u)' <=> VoidUnbooked(u)
      <4>1. u # t /\ status'[u] = status[u]
        BY <1>1, <1>3, <3>1
      <4> QED BY <4>1, OtherTicketsUnbooked
    <3> QED BY <3>1 DEF UnbookedOf
  <2> QED BY <1>3, <2>1, <2>2, <2>3, StillWallet
<1> QED BY <1>2, <1>3 DEF MoneyStep

\* The open stakes of a wallet when one of its tickets opens or ends.
LEMMA OpenStakesMove ==
  ASSUME IInv, NEW t \in Tickets, NEW st \in Statuses, status' = [status EXCEPT ![t] = st],
         NEW w, w = WalletOf[t]
  PROVE  /\ status[t] \notin OpenStatuses /\ st \in OpenStatuses =>
              Stakes(OpenOf(w)') = Stakes(OpenOf(w)) + Stake[t]
         /\ status[t] \in OpenStatuses /\ st \notin OpenStatuses =>
              Stakes(OpenOf(w)') = Stakes(OpenOf(w)) - Stake[t]
<1>1. status \in [Tickets -> Statuses] /\ OpenOf(w) \in SUBSET Tickets
  BY DEF IInv, TicketsTyped, OpenOf
<1>2. Stakes({t}) = Stake[t] /\ Stakes({}) = 0 /\ Stake[t] \in Int /\ Stakes(OpenOf(w)) \in Int
  BY <1>1, StakesOne, StakesType, TicketAssumption
<1>3. ASSUME status[t] \notin OpenStatuses, st \in OpenStatuses
      PROVE  Stakes(OpenOf(w)') = Stakes(OpenOf(w)) + Stake[t]
  <2>1. OpenOf(w)' = (OpenOf(w) \cup {t}) \ {} /\ OpenOf(w) \cap {t} = {}
    BY <1>1, <1>3 DEF OpenOf
  <2>2. Stakes((OpenOf(w) \cup {t}) \ {}) = (Stakes(OpenOf(w)) + Stakes({t})) - Stakes({})
    BY <1>1, <2>1, StakesMove
  <2> QED BY <1>2, <2>1, <2>2
<1>4. ASSUME status[t] \in OpenStatuses, st \notin OpenStatuses
      PROVE  Stakes(OpenOf(w)') = Stakes(OpenOf(w)) - Stake[t]
  <2>1. OpenOf(w)' = (OpenOf(w) \cup {}) \ {t} /\ {t} \in SUBSET (OpenOf(w) \cup {})
    BY <1>1, <1>4 DEF OpenOf
  <2>2. Stakes((OpenOf(w) \cup {}) \ {t}) = (Stakes(OpenOf(w)) + Stakes({})) - Stakes({t})
    BY <1>1, <2>1, StakesMove
  <2> QED BY <1>2, <2>1, <2>2
<1> QED BY <1>3, <1>4

\* The second half of POST /bets: the stake is locked and booked once.
LEMMA PlaceCommitMoney ==
  ASSUME IInv, Countable, NEW t \in Tickets, NEW st \in OpenStatuses, PlaceCommit(t, st)
  PROVE  Countable' /\ MoneyStep
<1> DEFINE w == WalletOf[t]
           row == Row("bet_stake", t, 1, - Stake[t])
           N == InsertUnlessExists(ledger, row)
<1>1. /\ status[t] = "placing" /\ status' = [status EXCEPT ![t] = st]
      /\ wallet' = [wallet EXCEPT ![w].locked = @ + Stake[t]]
      /\ ledger' = ledger \cup N
  BY DEF PlaceCommit
<1>2. w \in Wallets /\ Stake[t] \in Int /\ wallet \in [Wallets -> [balance: Int, locked: Int]]
  BY TicketAssumption DEF Countable
<1>3. row \in LedgerRow /\ row.ticket = t /\ row.delta = - Stake[t]
  BY <1>2 DEF Row, LedgerRow
<1>4. N = {row}
  <2>1. \A x \in ledger : x.ticket # t
    BY <1>1 DEF Countable
  <2> HIDE DEF row
  <2> QED BY <2>1, <1>3 DEF InsertUnlessExists
<1>5. N \in SUBSET LedgerRow /\ IsFiniteSet(N) /\ N \cap ledger = {} /\ \A r \in N : r.ticket = t
  BY <1>3, <1>4, InsertIsNew
<1>6. st \in Statuses \ {"absent", "placing"} /\ st # "voided"
  BY DEF Statuses, OpenStatuses
<1> HIDE DEF row, N
<1>7. /\ wallet' \in [Wallets -> [balance: Int, locked: Int]]
      /\ \A v \in Wallets \ {w} : wallet'[v] = wallet[v]
      /\ wallet'[w].locked = wallet[w].locked + Stake[t]
      /\ wallet'[w].balance = wallet[w].balance
  BY <1>1, <1>2
<1>8. Available(w)' = Available(w) - Stake[t]
  BY <1>2, <1>7 DEF Available
<1>9. Stakes(OpenOf(w)') = Stakes(OpenOf(w)) + Stake[t]
  BY <1>1, <1>6, OpenStakesMove DEF OpenStatuses
<1>10. RowSum(RowsOf(w)') = RowSum(RowsOf(w)) - Stake[t]
  <2>1. {r \in N : WalletOf[r.ticket] = w} = {row}
    BY <1>3, <1>4
  <2>2. RowSum({row}) = - Stake[t]
    BY <1>2, <1>3, RowSumOne
  <2>3. RowSum(RowsOf(w)') = RowSum(RowsOf(w)) + RowSum({row})
    BY <1>1, <1>2, <1>5, <2>1, RowsGrow
  <2> QED BY <1>2, <2>2, <2>3, SumTypes
<1>11. UnbookedOf(w)' = UnbookedOf(w)
  <2>1. ASSUME NEW u \in Tickets
        PROVE  VoidUnbooked(u)' <=> VoidUnbooked(u)
    <3>1. status \in [Tickets -> Statuses]
      BY DEF IInv, TicketsTyped
    <3>2. CASE u = t
      BY <1>1, <1>6, <3>1, <3>2 DEF VoidUnbooked
    <3>3. CASE u # t
      BY <1>1, <1>5, <3>1, <3>3, OtherTicketsUnbooked
    <3> QED BY <3>2, <3>3
  <2> QED BY <2>1 DEF UnbookedOf
<1>12. WalletStep(w)
  BY <1>2, <1>7, <1>8, <1>9, <1>10, <1>11, SumTypes DEF WalletStep
<1> QED BY <1>1, <1>5, <1>6, <1>7, <1>12, OneTicketStep

\* Generations are counted without a gap, so a ticket that was ever credited
\* has a credit under its bare id.
LEMMA FirstGeneration ==
  ASSUME NEW L \in SUBSET LedgerRow, NEW t, NEW st, NEW pay, TicketBooks(L, t, st, pay),
         CreditRows(L, t) # {}
  PROVE  \E c \in CreditRows(L, t) : c.gen = 1
<1> DEFINE C == CreditRows(L, t)
           n == Cardinality(C)
           f == [c \in C |-> c.gen]
<1>1. IsFiniteSet(C) /\ n \in Nat /\ n # 0
  BY FS_CardinalityType, FS_EmptySet DEF TicketBooks
<1>2. IsFiniteSet(1 .. n) /\ Cardinality(1 .. n) = n
  <2> HIDE DEF n
  <2> QED BY <1>1, FS_Interval
<1>3. f \in Injection(C, 1 .. n)
  <2>1. \A c \in C : c.gen \in Nat \ {0}
    BY DEF CreditRows, LedgerRow
  <2>2. \A c \in C : c.gen <= n
    BY DEF TicketBooks
  <2>3. \A c, d \in C : c.gen = d.gen => c = d
    BY DEF TicketBooks
  <2> HIDE DEF n, C
  <2> QED BY <1>1, <2>1, <2>2, <2>3 DEF Injection, IsInjective
<1> HIDE DEF f
<1>4. f \in Surjection(C, 1 .. n)
  BY <1>2, <1>3, FS_Injection
<1>5. 1 \in 1 .. n
  <2> HIDE DEF n
  <2> QED BY <1>1
<1>6. \E c \in C : f[c] = 1
  <2> HIDE DEF C, n
  <2> QED BY <1>4, <1>5 DEF Surjection
<1> QED BY <1>6 DEF f

\* The refund of an open ticket is booked, or the void is one the ledger does
\* not show: its bet_refund row under the bare id is an older one that was
\* reversed.
LEMMA RefundBookedOrUnbooked ==
  ASSUME IInv, NEW t \in Tickets, NEW st,
         \/ status[t] = "pending_delay" /\ st = "rejected"
         \/ status[t] = "accepted" /\ st = "voided",
         status' = [status EXCEPT ![t] = st],
         NEW row, row = Row("bet_refund", t, 1, Stake[t]),
         ledger' = ledger \cup InsertUnlessExists(ledger, row)
  PROVE  \/ InsertUnlessExists(ledger, row) = {row} /\ ~ VoidUnbooked(t)'
         \/ InsertUnlessExists(ledger, row) = {} /\ VoidUnbooked(t)'
<1> DEFINE N == InsertUnlessExists(ledger, row)
<1>1. /\ status \in [Tickets -> Statuses] /\ status'[t] = st
      /\ ledger \in SUBSET LedgerRow /\ TicketBooks(ledger, t, status[t], payout[t])
  BY DEF IInv, TicketsTyped, BooksInOrder
<1>2. row.type = "bet_refund" /\ row.ticket = t /\ row.gen = 1
  BY DEF Row
<1>3. \A a \in Adjustments(ledger, t) : \E c \in CreditRows(ledger, t) : TRUE
  BY <1>1 DEF TicketBooks
<1>4. CASE \E x \in CreditRows(ledger, t) : x.type = "bet_refund" /\ x.gen = 1
  <2>1. PICK x \in CreditRows(ledger, t) : x.type = "bet_refund" /\ x.gen = 1
    BY <1>4
  <2>2. N = {}
    BY <1>2, <2>1 DEF InsertUnlessExists, CreditRows
  <2>3. ledger' = ledger
    BY <2>2
  <2>4. status[t] = "accepted" /\ st = "voided"
    BY <1>1, <2>1 DEF TicketBooks
  <2>5. Reversed(ledger, x)
    BY <1>1, <2>1, <2>4 DEF TicketBooks, UnreversedCredits
  <2>6. Adjustments(ledger, t) # {}
    BY <2>1, <2>5 DEF Reversed, Adjustments, CreditRows
  <2>7. \A r \in CreditRows(ledger, t) : r.gen = 1 => r.type = "bet_refund"
    BY <1>1, <2>1 DEF TicketBooks
  <2> QED BY <1>1, <2>2, <2>3, <2>4, <2>6, <2>7 DEF VoidUnbooked
<1>5. CASE ~ \E x \in CreditRows(ledger, t) : x.type = "bet_refund" /\ x.gen = 1
  <2>1. N = {row}
    BY <1>2, <1>5 DEF InsertUnlessExists, CreditRows, CreditTypes
  <2>2. ASSUME VoidUnbooked(t)'
        PROVE  FALSE
    <3>1. Adjustments(ledger', t) = Adjustments(ledger, t)
      BY <1>2, <2>1 DEF Adjustments
    <3>2. CreditRows(ledger, t) # {}
      BY <1>3, <2>2, <3>1 DEF VoidUnbooked
    <3>3. PICK c \in CreditRows(ledger, t) : c.gen = 1
      BY <1>1, <3>2, FirstGeneration
    <3>4. c \in CreditRows(ledger', t)
      BY DEF CreditRows
    <3> QED BY <1>5, <2>2, <3>3, <3>4 DEF VoidUnbooked
  <2> QED BY <2>1, <2>2
<1> QED BY <1>4, <1>5

\* The refund of a rejected or voided ticket: the stake is released, and what
\* the ledger misses is counted as unbooked.
LEMMA RefundMoney ==
  ASSUME IInv, Countable, NEW t \in Tickets, NEW st,
         \/ status[t] = "pending_delay" /\ st = "rejected"
         \/ status[t] = "accepted" /\ st = "voided",
         status' = [status EXCEPT ![t] = st], RefundStake(t)
  PROVE  Countable' /\ MoneyStep
<1> DEFINE w == WalletOf[t]
           row == Row("bet_refund", t, 1, Stake[t])
           N == InsertUnlessExists(ledger, row)
<1>1. /\ wallet' = [wallet EXCEPT ![w].locked = @ - Stake[t]]
      /\ ledger' = ledger \cup N
  BY DEF RefundStake
<1>2. /\ w \in Wallets /\ Stake[t] \in Int /\ status \in [Tickets -> Statuses]
      /\ wallet \in [Wallets -> [balance: Int, locked: Int]]
  <2>1. w \in Wallets /\ Stake[t] \in Int
    BY TicketAssumption
  <2>2. wallet \in [Wallets -> [balance: Int, locked: Int]]
    BY DEF Countable
  <2> QED BY <2>1, <2>2 DEF IInv, TicketsTyped
<1>3. row \in LedgerRow /\ row.ticket = t /\ row.delta = Stake[t]
  BY <1>2 DEF Row, LedgerRow, CreditTypes
<1>4. N \in SUBSET {row} /\ IsFiniteSet(N) /\ N \cap ledger = {}
  BY InsertIsNew
<1>5. N \in SUBSET LedgerRow /\ \A r \in N : r.ticket = t
  BY <1>3, <1>4
<1>6. st \in Statuses \ {"absent", "placing"}
  BY DEF Statuses
<1>7. \/ N = {row} /\ ~ VoidUnbooked(t)'
      \/ N = {} /\ VoidUnbooked(t)'
  <2> HIDE DEF row
  <2> QED BY <1>1, RefundBookedOrUnbooked DEF row
<1> HIDE DEF row, N
<1>8. /\ wallet' \in [Wallets -> [balance: Int, locked: Int]]
      /\ \A v \in Wallets \ {w} : wallet'[v] = wallet[v]
      /\ wallet'[w].locked = wallet[w].locked - Stake[t]
      /\ wallet'[w].balance = wallet[w].balance
  BY <1>1, <1>2
<1>9. Available(w)' = Available(w) + Stake[t]
  BY <1>2, <1>8 DEF Available
<1>10. Stakes(OpenOf(w)') = Stakes(OpenOf(w)) - Stake[t]
  BY <1>6, OpenStakesMove DEF OpenStatuses
<1>11. RowSum(RowsOf(w)') = RowSum(RowsOf(w)) + RowSum(N)
  <2>1. {r \in N : WalletOf[r.ticket] = w} = N
    BY <1>5
  <2> QED BY <1>1, <1>2, <1>4, <1>5, <2>1, RowsGrow
<1>12. \A u \in Tickets \ {t} : VoidUnbooked(u)' <=> VoidUnbooked(u)
  BY <1>1, <1>2, <1>5, OtherTicketsUnbooked
<1>13. ~ VoidUnbooked(t)
  BY DEF VoidUnbooked
<1>14. RowSum(N) + Stakes(UnbookedOf(w)') = Stakes(UnbookedOf(w)) + Stake[t]
  <2>1. /\ RowSum({row}) = Stake[t] /\ RowSum({}) = 0
        /\ Stakes({t}) = Stake[t] /\ Stakes({}) = 0
    BY <1>2, <1>3, RowSumOne, StakesOne
  <2>2. UnbookedOf(w) \in SUBSET Tickets /\ Stakes(UnbookedOf(w)) \in Int
    BY <1>2, SumTypes
  <2>3. CASE N = {row} /\ ~ VoidUnbooked(t)'
    <3>1. UnbookedOf(w)' = UnbookedOf(w)
      BY <2>3, <1>12, <1>13 DEF UnbookedOf
    <3> QED BY <1>2, <2>1, <2>2, <2>3, <3>1
  <2>4. CASE N = {} /\ VoidUnbooked(t)'
    <3>1. UnbookedOf(w)' = (UnbookedOf(w) \cup {t}) \ {} /\ UnbookedOf(w) \cap {t} = {}
      BY <2>4, <1>12, <1>13 DEF UnbookedOf
    <3>2. Stakes((UnbookedOf(w) \cup {t}) \ {}) = (Stakes(UnbookedOf(w)) + Stakes({t})) - Stakes({})
      BY <2>2, <3>1, StakesMove
    <3> QED BY <1>2, <2>1, <2>2, <2>4, <3>1, <3>2
  <2> QED BY <1>7, <2>3, <2>4
<1>15. WalletStep(w)
  <2>1. Stakes(UnbookedOf(w)') \in Int
    <3>1. UnbookedOf(w)' \in SUBSET Tickets
      BY DEF UnbookedOf
    <3> QED BY <3>1, StakesType
  <2>2. RowSum(N) \in Int
    <3>1. \A r \in N : r.delta \in Int
      BY <1>2, <1>3, <1>4
    <3> QED BY <3>1, <1>4, RowSumType
  <2> QED BY <1>2, <1>8, <1>9, <1>10, <1>11, <1>14, <2>1, <2>2, SumTypes DEF WalletStep
<1> QED BY <1>1, <1>4, <1>5, <1>6, <1>8, <1>15, OneTicketStep

-----------------------------------------------------------------------------
(* Settlement transactions *)

\* A posting of the settlement service: settled tickets are reversed, open or
\* just reversed ones are settled.
Posting(R, P) ==
  /\ R \subseteq Tickets /\ \A t \in R : status[t] = "settled"
  /\ P \in [DOMAIN P -> Payouts] /\ DOMAIN P \subseteq Tickets
  /\ \A t \in DOMAIN P : status[t] = "accepted" \/ t \in R

\* The reversal of a ticket posts its payout with the opposite sign.
LEMMA ReverseRowsSum ==
  ASSUME IInv, NEW t \in Tickets, status[t] = "settled"
  PROVE  /\ ReverseRows(t) \subseteq LedgerRow /\ IsFiniteSet(ReverseRows(t))
         /\ \A r \in ReverseRows(t) : r.ticket = t /\ r.type = "adjustment" /\ r \notin ledger
         /\ RowSum(ReverseRows(t)) = - payout[t]
<1>1. /\ payout[t] \in Nat /\ ledger \in SUBSET LedgerRow
      /\ TicketBooks(ledger, t, "settled", payout[t])
  BY DEF IInv, TicketsTyped, BooksInOrder
<1>2. CASE payout[t] = 0
  <2>1. ReverseRows(t) = {}
    BY <1>2 DEF ReverseRows
  <2>2. RowSum({}) = 0
    BY SumEmpty DEF RowSum
  <2> QED BY <1>2, <2>1, <2>2, FS_EmptySet
<1>3. CASE payout[t] > 0
  <2>1. PICK c \in UnreversedCredits(ledger, t) : UnreversedCredits(ledger, t) = {c}
    BY <1>3, <1>1 DEF TicketBooks
  <2>2. c \in ledger /\ c.ticket = t /\ ~ Reversed(ledger, c)
    BY <2>1 DEF UnreversedCredits, CreditRows
  <2>3. c.gen \in Nat \ {0}
    BY <1>1, <2>2 DEF LedgerRow
  <2>4. LatestUnreversedGen(ledger, t) = c.gen
    <3>1. {r.gen : r \in UnreversedCredits(ledger, t)} = {c.gen}
      BY <2>1
    <3>2. \E g \in {r.gen : r \in UnreversedCredits(ledger, t)} :
             \A r \in UnreversedCredits(ledger, t) : r.gen <= g
      BY <2>1, <2>3
    <3> QED BY <3>1, <3>2 DEF LatestUnreversedGen
  <2> DEFINE row == Row("adjustment", t, c.gen, - payout[t])
  <2>5. /\ row \in LedgerRow /\ row.ticket = t /\ row.type = "adjustment" /\ row.gen = c.gen
        /\ row.delta = - payout[t] /\ row.delta \in Int
    BY <1>1, <2>3 DEF Row, LedgerRow
  <2>6. ReverseRows(t) = InsertUnlessExists(ledger, row)
    BY <1>3, <2>1, <2>4 DEF ReverseRows
  <2> HIDE DEF row
  <2>7. InsertUnlessExists(ledger, row) = {row}
    BY <2>2, <2>5 DEF InsertUnlessExists, Reversed
  <2>8. row \notin ledger
    BY <2>7, InsertIsNew
  <2>9. RowSum({row}) = row.delta
    BY <2>5, RowSumOne
  <2>10. ReverseRows(t) = {row} /\ IsFiniteSet({row})
    BY <2>6, <2>7, FS_Singleton
  <2> QED BY <2>5, <2>8, <2>9, <2>10
<1> QED BY <1>1, <1>2, <1>3

\* A settle posts what the ticket pays.
LEMMA SettleRowsSum ==
  ASSUME IInv, NEW t \in Tickets, NEW p \in Payouts, status[t] \in {"accepted", "settled"}
  PROVE  /\ SettleRows(t, p) \subseteq LedgerRow /\ IsFiniteSet(SettleRows(t, p))
         /\ \A r \in SettleRows(t, p) :
              r.ticket = t /\ r.type \in CreditTypes /\ r \notin ledger
         /\ RowSum(SettleRows(t, p)) = p.payout
<1>1. ledger \in SUBSET LedgerRow /\ TicketBooks(ledger, t, status[t], payout[t])
  BY DEF IInv, BooksInOrder
<1>2. p.payout \in Nat
  BY DEF Payouts
<1> DEFINE row == Row(p.type, t, NextPayoutGen(ledger, t, p.type), p.payout)
<1>3. /\ SettleRows(t, p) \subseteq LedgerRow
      /\ \A r \in SettleRows(t, p) : r.ticket = t /\ r.type \in CreditTypes
      /\ p.payout > 0 => SettleRows(t, p) = {row}
      /\ p.payout = 0 => SettleRows(t, p) = {}
  BY <1>1, SettleRowsShape
<1>4. \A r \in SettleRows(t, p) : r \notin ledger
  <2>1. SettleRows(t, p) \subseteq InsertUnlessExists(ledger, row)
    BY DEF SettleRows
  <2> HIDE DEF row
  <2> QED BY <2>1, InsertIsNew
<1>5. row.delta = p.payout
  BY DEF Row
<1> HIDE DEF row
<1>6. CASE p.payout = 0
  <2>1. RowSum({}) = 0
    BY SumEmpty DEF RowSum
  <2> QED BY <1>3, <1>6, <2>1, FS_EmptySet
<1>7. CASE p.payout > 0
  <2>1. RowSum({row}) = p.payout
    BY <1>2, <1>5, RowSumOne
  <2> QED BY <1>3, <1>4, <1>7, <2>1, FS_Singleton
<1> QED BY <1>2, <1>6, <1>7

\* U holds the rows F[t] of the tickets in S, which add up to g[t].
RowsByTicket(U, F, S, g) ==
  /\ \A t \in S : /\ IsFiniteSet(F[t]) /\ F[t] \subseteq LedgerRow
                  /\ \A r \in F[t] : r.ticket = t
                  /\ RowSum(F[t]) = g[t]
  /\ \A r : r \in U <=> \E t \in S : r \in F[t]

\* The rows of a family of tickets, each ticket with rows of its own.
LEMMA FamilySum ==
  ASSUME NEW S \in SUBSET Tickets, NEW F, NEW g, NEW U, RowsByTicket(U, F, S, g)
  PROVE  IsFiniteSet(U) /\ RowSum(U) = SumFunctionOnSet(g, S)
<1> USE DEF RowsByTicket
<1> DEFINE f == [r \in U |-> r.delta]
<1>1. IsFiniteSet(S)
  BY StakesType
<1>2. ASSUME NEW t \in S
      PROVE  /\ \A x \in F[t] : f[x] \in Int
             /\ g[t] = SumFunctionOnSet(f, F[t])
  <2>1. \A x \in F[t] : x \in U /\ x.delta \in Int
    BY DEF LedgerRow
  <2>2. \A x \in F[t] : f[x] = x.delta
    BY <2>1
  <2> DEFINE h == [r \in F[t] |-> r.delta]
  <2>3. \A x \in F[t] : h[x] = f[x]
    BY <2>2
  <2>4. RowSum(F[t]) = SumFunctionOnSet(h, F[t])
    BY DEF RowSum
  <2> HIDE DEF f, h
  <2>5. SumFunctionOnSet(h, F[t]) = SumFunctionOnSet(f, F[t])
    BY <2>3, SumSame
  <2> QED BY <2>1, <2>2, <2>4, <2>5
<1>3. \A t, u \in S : t # u => F[t] \cap F[u] = {}
  OBVIOUS
<1>4. RowSum(U) = SumFunctionOnSet(f, U)
  BY DEF RowSum
<1>5. IsFamily(U, F, S, f, g)
  <2> HIDE DEF f
  <2> QED BY <1>2, <1>3 DEF IsFamily
<1> HIDE DEF f
<1>6. IsFiniteSet(U) /\ SumFunctionOnSet(f, U) = SumFunctionOnSet(g, S)
  BY <1>1, <1>5, SumFamily
<1> QED BY <1>4, <1>6

\* What a posting pays for each ticket.
Won(P) == [t \in DOMAIN P |-> P[t].payout]

BackOf(R, w) == {t \in R : WalletOf[t] = w}
PaidOf(P, w) == {t \in DOMAIN P : WalletOf[t] = w}

\* The sums over the tickets of a posting are whole numbers.
LEMMA PostingTypes ==
  ASSUME IInv, NEW R, NEW P, Posting(R, P), NEW w
  PROVE  /\ BackOf(R, w) \in SUBSET Tickets /\ PaidOf(P, w) \in SUBSET Tickets
         /\ IsFiniteSet(BackOf(R, w)) /\ IsFiniteSet(PaidOf(P, w))
         /\ \A t \in BackOf(R, w) : payout[t] \in Int /\ Stake[t] \in Int
         /\ \A t \in PaidOf(P, w) : Won(P)[t] \in Int /\ Stake[t] \in Int
         /\ SumFunctionOnSet(payout, BackOf(R, w)) \in Int
         /\ SumFunctionOnSet(Won(P), PaidOf(P, w)) \in Int
         /\ Stakes(BackOf(R, w)) \in Nat /\ Stakes(PaidOf(P, w)) \in Nat
<1>1. BackOf(R, w) \in SUBSET Tickets /\ PaidOf(P, w) \in SUBSET Tickets
  BY DEF Posting, BackOf, PaidOf
<1>2. /\ IsFiniteSet(BackOf(R, w)) /\ IsFiniteSet(PaidOf(P, w))
      /\ Stakes(BackOf(R, w)) \in Nat /\ Stakes(PaidOf(P, w)) \in Nat
  BY <1>1, StakesType
<1>3. \A t \in Tickets : Stake[t] \in Int
  BY TicketAssumption
<1>4. \A t \in BackOf(R, w) : payout[t] \in Int /\ Stake[t] \in Int
  BY <1>1, <1>3 DEF IInv, TicketsTyped
<1>5. \A t \in PaidOf(P, w) : Won(P)[t] \in Int /\ Stake[t] \in Int
  BY <1>1, <1>3 DEF Posting, PaidOf, Won, Payouts
<1> QED BY <1>1, <1>2, <1>4, <1>5, SumType

\* The rows of a posting.
LEMMA PostingRows ==
  ASSUME IInv, Countable, NEW R, NEW P, Posting(R, P), ledger' = PostLedger(R, P),
         NEW w \in Wallets
  PROVE  /\ IsFiniteSet(ledger')
         /\ \A r \in ledger' : r \in ledger \/ r.ticket \in R \cup DOMAIN P
         /\ RowSum(RowsOf(w)')
              = (RowSum(RowsOf(w)) - SumFunctionOnSet(payout, BackOf(R, w)))
                  + SumFunctionOnSet(Won(P), PaidOf(P, w))
<1> DEFINE Rev == [t \in R |-> ReverseRows(t)]
           Set == [t \in DOMAIN P |-> SettleRows(t, P[t])]
           neg == [t \in R |-> - payout[t]]
           won == Won(P)
           back == BackOf(R, w)
           paid == PaidOf(P, w)
           A(S) == UNION {ReverseRows(t) : t \in S}
           B(S) == UNION {SettleRows(t, P[t]) : t \in S}
<1>1. ASSUME NEW t \in R
      PROVE  /\ IsFiniteSet(Rev[t]) /\ Rev[t] \subseteq LedgerRow
             /\ \A r \in Rev[t] : r.ticket = t /\ r.type = "adjustment" /\ r \notin ledger
             /\ RowSum(Rev[t]) = neg[t]
  BY ReverseRowsSum DEF Posting
<1>2. ASSUME NEW t \in DOMAIN P
      PROVE  /\ IsFiniteSet(Set[t]) /\ Set[t] \subseteq LedgerRow
             /\ \A r \in Set[t] : r.ticket = t /\ r.type \in CreditTypes /\ r \notin ledger
             /\ RowSum(Set[t]) = won[t]
  <2>1. t \in Tickets /\ P[t] \in Payouts /\ status[t] \in {"accepted", "settled"}
    BY DEF Posting
  <2> QED BY <2>1, SettleRowsSum DEF Won
<1>3. ASSUME NEW S \in SUBSET R
      PROVE  IsFiniteSet(A(S)) /\ RowSum(A(S)) = SumFunctionOnSet(neg, S)
  <2>1. \A r : r \in A(S) <=> \E t \in S : r \in Rev[t]
    OBVIOUS
  <2>2. S \in SUBSET Tickets
    BY DEF Posting
  <2> HIDE DEF A, Rev, neg
  <2>3. RowsByTicket(A(S), Rev, S, neg)
    BY <1>1, <2>1 DEF RowsByTicket
  <2> QED BY <2>2, <2>3, FamilySum
<1>4. ASSUME NEW S \in SUBSET DOMAIN P
      PROVE  IsFiniteSet(B(S)) /\ RowSum(B(S)) = SumFunctionOnSet(won, S)
  <2>1. \A r : r \in B(S) <=> \E t \in S : r \in Set[t]
    OBVIOUS
  <2>2. S \in SUBSET Tickets
    BY DEF Posting
  <2> HIDE DEF B, Set, won
  <2>3. RowsByTicket(B(S), Set, S, won)
    BY <1>2, <2>1 DEF RowsByTicket
  <2> QED BY <2>2, <2>3, FamilySum
<1>5. /\ A(R) \subseteq LedgerRow /\ A(R) \cap ledger = {}
      /\ \A r \in A(R) : r.ticket \in R /\ r.type = "adjustment"
  BY <1>1
<1>6. /\ B(DOMAIN P) \subseteq LedgerRow /\ B(DOMAIN P) \cap ledger = {}
      /\ \A r \in B(DOMAIN P) : r.ticket \in DOMAIN P /\ r.type \in CreditTypes
  BY <1>2
<1>7. ledger' = ledger \cup (A(R) \cup B(DOMAIN P))
  BY DEF PostLedger
<1>8. {r \in A(R) \cup B(DOMAIN P) : WalletOf[r.ticket] = w} = A(back) \cup B(paid)
  BY <1>1, <1>2 DEF BackOf, PaidOf
<1>9. A(back) \cap B(paid) = {} /\ A(back) \subseteq A(R) /\ B(paid) \subseteq B(DOMAIN P)
  BY <1>1, <1>2 DEF CreditTypes, BackOf, PaidOf
<1>10. back \in SUBSET R /\ paid \in SUBSET DOMAIN P
  BY DEF BackOf, PaidOf
<1>11. SumFunctionOnSet(neg, back) = - SumFunctionOnSet(payout, back)
  <2>1. \A t \in back : payout[t] \in Int /\ neg[t] = - payout[t]
    BY <1>10, PostingTypes
  <2>2. IsFiniteSet(back)
    BY PostingTypes
  <2> HIDE DEF neg, back
  <2> QED BY <2>1, <2>2, SumNegate
<1>types. SumFunctionOnSet(payout, back) \in Int /\ SumFunctionOnSet(won, paid) \in Int
  BY PostingTypes
<1> HIDE DEF A, B, neg, won, back, paid, Rev, Set
<1>12. /\ IsFiniteSet(A(R) \cup B(DOMAIN P)) /\ A(R) \cup B(DOMAIN P) \in SUBSET LedgerRow
       /\ (A(R) \cup B(DOMAIN P)) \cap ledger = {}
  <2>1. IsFiniteSet(A(R)) /\ IsFiniteSet(B(DOMAIN P))
    BY <1>3, <1>4
  <2> QED BY <2>1, <1>5, <1>6, FS_Union
<1>13. /\ IsFiniteSet(ledger')
       /\ RowSum(RowsOf(w)') = RowSum(RowsOf(w)) + RowSum(A(back) \cup B(paid))
  BY <1>7, <1>8, <1>12, RowsGrow
<1>14. RowSum(A(back) \cup B(paid)) = RowSum(A(back)) + RowSum(B(paid))
  <2>1. \A r \in A(back) \cup B(paid) : r.delta \in Int
    BY <1>5, <1>6, <1>9 DEF LedgerRow
  <2>2. IsFiniteSet(A(back)) /\ IsFiniteSet(B(paid))
    BY <1>3, <1>4, <1>10
  <2> QED BY <1>9, <2>1, <2>2, RowSumUnion
<1>15. /\ RowSum(A(back)) = - SumFunctionOnSet(payout, back)
       /\ RowSum(B(paid)) = SumFunctionOnSet(won, paid)
  BY <1>3, <1>4, <1>10, <1>11
<1>16. \A r \in ledger' : r \in ledger \/ r.ticket \in R \cup DOMAIN P
  BY <1>5, <1>6, <1>7
<1>17. RowSum(RowsOf(w)') = (RowSum(RowsOf(w)) - SumFunctionOnSet(payout, back))
                              + SumFunctionOnSet(won, paid)
  BY <1>types, <1>13, <1>14, <1>15, SumTypes
<1> QED BY <1>13, <1>16, <1>17 DEF won, back, paid

\* The wallet of a posting: the payouts of the reversed tickets are taken back
\* with their stakes locked again, the settled ones are paid and unlocked.
LEMMA PostingWallet ==
  ASSUME IInv, Countable, NEW R, NEW P, Posting(R, P), NEW w \in Wallets,
         wallet' = [v \in Wallets |-> PostWallet(v, R, P)]
  PROVE  /\ wallet'[w] \in [balance: Int, locked: Int]
         /\ wallet'[w].locked
              = (wallet[w].locked + Stakes(BackOf(R, w))) - Stakes(PaidOf(P, w))
         /\ Available(w)' = (Available(w) - SumFunctionOnSet(payout, BackOf(R, w)))
                              + SumFunctionOnSet(Won(P), PaidOf(P, w))
<1> DEFINE back == BackOf(R, w)
           paid == PaidOf(P, w)
           gone == [t \in back |-> payout[t] - Stake[t]]
           net == [t \in paid |-> P[t].payout - Stake[t]]
<1>1. SumFunctionOnSet(gone, back) = SumFunctionOnSet(payout, back) - Stakes(back)
  <2>1. \A t \in back : payout[t] \in Int /\ Stake[t] \in Int /\ gone[t] = payout[t] - Stake[t]
    BY PostingTypes
  <2>2. IsFiniteSet(back)
    BY PostingTypes
  <2> HIDE DEF gone, back
  <2> QED BY <2>1, <2>2, SumMinus DEF Stakes
<1>2. SumFunctionOnSet(net, paid) = SumFunctionOnSet(Won(P), paid) - Stakes(paid)
  <2>1. \A t \in paid : Won(P)[t] \in Int /\ Stake[t] \in Int /\ net[t] = Won(P)[t] - Stake[t]
    <3>1. \A t \in paid : Won(P)[t] = P[t].payout
      BY DEF Won, PaidOf
    <3> QED BY <3>1, PostingTypes
  <2>2. IsFiniteSet(paid)
    BY PostingTypes
  <2> HIDE DEF net, paid
  <2> QED BY <2>1, <2>2, SumMinus DEF Stakes
<1>3. wallet'[w] = [balance |-> (wallet[w].balance - SumFunctionOnSet(gone, back))
                                  + SumFunctionOnSet(net, paid),
                    locked |-> (wallet[w].locked + Stakes(back)) - Stakes(paid)]
  BY DEF PostWallet, BackOf, PaidOf
<1>4. /\ SumFunctionOnSet(payout, back) \in Int /\ SumFunctionOnSet(Won(P), paid) \in Int
      /\ Stakes(back) \in Int /\ Stakes(paid) \in Int
  BY PostingTypes
<1>5. wallet[w].balance \in Int /\ wallet[w].locked \in Int
  BY SumTypes
<1> HIDE DEF gone, net, back, paid
<1>6. /\ wallet'[w].balance = (wallet[w].balance - (SumFunctionOnSet(payout, back) - Stakes(back)))
                                + (SumFunctionOnSet(Won(P), paid) - Stakes(paid))
      /\ wallet'[w].locked = (wallet[w].locked + Stakes(back)) - Stakes(paid)
      /\ DOMAIN wallet'[w] = {"balance", "locked"}
  BY <1>1, <1>2, <1>3
<1>7. wallet'[w] \in [balance: Int, locked: Int]
  BY <1>1, <1>2, <1>3, <1>4, <1>5
<1>8. Available(w)' = (Available(w) - SumFunctionOnSet(payout, back))
                        + SumFunctionOnSet(Won(P), paid)
  BY <1>4, <1>5, <1>6 DEF Available
<1> QED BY <1>6, <1>7, <1>8 DEF back, paid

\* One settlement transaction moves every wallet by the books.
LEMMA PostingMoney ==
  ASSUME IInv, Countable, NEW R, NEW P, Posting(R, P), PostTickets(R, P),
         wallet' = [v \in Wallets |-> PostWallet(v, R, P)], ledger' = PostLedger(R, P)
  PROVE  Countable' /\ MoneyStep
<1>1. status \in [Tickets -> Statuses] /\ \A r \in ledger : r.ticket \in Tickets
  BY DEF IInv, TicketsTyped, BooksInOrder, LedgerRow
<1>2. \A t \in Tickets :
        status'[t] = IF t \in DOMAIN P THEN "settled" ELSE IF t \in R THEN "accepted" ELSE status[t]
  BY DEF PostTickets
<1>3. ASSUME NEW w \in Wallets
      PROVE  WalletStep(w)
  <2> DEFINE back == BackOf(R, w)
             paid == PaidOf(P, w)
  <2>1. OpenOf(w)' = (OpenOf(w) \cup back) \ paid
    BY <1>1, <1>2 DEF OpenOf, Posting, BackOf, PaidOf, OpenStatuses
  <2>2. OpenOf(w) \cap back = {} /\ paid \in SUBSET (OpenOf(w) \cup back)
    BY <1>1 DEF OpenOf, Posting, BackOf, PaidOf, OpenStatuses
  <2>3. UnbookedOf(w)' = UnbookedOf(w)
    <3>1. ASSUME NEW u \in Tickets
          PROVE  VoidUnbooked(u)' <=> VoidUnbooked(u)
      <4>1. CASE u \in R \cup DOMAIN P
        BY <1>2, <4>1 DEF Posting, VoidUnbooked
      <4>2. CASE u \notin R \cup DOMAIN P
        <5>1. status'[u] = status[u]
          BY <1>2, <4>2
        <5>2. \A r : r.ticket = u => (r \in ledger' <=> r \in ledger)
          <6>1. \A r \in ledger' : r \in ledger \/ r.ticket \in R \cup DOMAIN P
            BY PostingRows
          <6>2. ledger \subseteq ledger'
            BY DEF PostLedger
          <6> QED BY <4>2, <6>1, <6>2
        <5>3. /\ CreditRows(ledger', u) = CreditRows(ledger, u)
              /\ Adjustments(ledger', u) = Adjustments(ledger, u)
          BY <5>2 DEF CreditRows, Adjustments
        <5> QED BY <5>1, <5>3, UnbookedStays
      <4> QED BY <4>1, <4>2
    <3> QED BY <3>1 DEF UnbookedOf
  <2>4. Stakes((OpenOf(w) \cup back) \ paid) = (Stakes(OpenOf(w)) + Stakes(back)) - Stakes(paid)
    <3>1. OpenOf(w) \in SUBSET Tickets /\ back \in SUBSET Tickets
      BY SumTypes, PostingTypes
    <3> HIDE DEF back, paid
    <3> QED BY <2>2, <3>1, StakesMove
  <2>5. /\ Stakes(back) \in Int /\ Stakes(paid) \in Int
        /\ SumFunctionOnSet(payout, back) \in Int /\ SumFunctionOnSet(Won(P), paid) \in Int
    BY PostingTypes
  <2>6. /\ wallet'[w].locked = (wallet[w].locked + Stakes(back)) - Stakes(paid)
        /\ Available(w)' = (Available(w) - SumFunctionOnSet(payout, back))
                             + SumFunctionOnSet(Won(P), paid)
        /\ RowSum(RowsOf(w)') = (RowSum(RowsOf(w)) - SumFunctionOnSet(payout, back))
                                  + SumFunctionOnSet(Won(P), paid)
    BY PostingWallet, PostingRows
  <2> HIDE DEF back, paid
  <2> QED BY <2>1, <2>3, <2>4, <2>5, <2>6, SumTypes DEF WalletStep
<1>4. Countable'
  <2>1. wallet' \in [Wallets -> [balance: Int, locked: Int]]
    <3>1. \A w \in Wallets : wallet'[w] \in [balance: Int, locked: Int]
      BY PostingWallet
    <3> QED BY <3>1
  <2>2. CASE Wallets = {}
    <3>1. Tickets = {}
      BY <2>2, TicketAssumption
    <3>2. ledger' = ledger
      BY <3>1 DEF Posting, PostLedger
    <3> QED BY <1>1, <2>1, <3>1, <3>2 DEF Countable
  <2>3. CASE Wallets # {}
    <3>1. PICK w \in Wallets : TRUE
      BY <2>3
    <3>2. IsFiniteSet(ledger') /\ \A r \in ledger' : r \in ledger \/ r.ticket \in R \cup DOMAIN P
      BY <3>1, PostingRows
    <3>3. ASSUME NEW r \in ledger'
          PROVE  status'[r.ticket] \notin {"absent", "placing"}
      <4>1. r.ticket \in Tickets
        BY <1>1, <3>2 DEF Posting
      <4> QED BY <1>2, <3>2, <4>1 DEF Posting, Countable
    <3> QED BY <2>1, <3>2, <3>3 DEF Countable
  <2> QED BY <2>2, <2>3
<1> QED BY <1>3, <1>4 DEF MoneyStep

\* A step of the settlement service is a posting, or moves no money.
LEMMA SettlerPosts ==
  ASSUME IInv, SettlerNext
  PROVE  /\ potential' = potential
         /\ \/ \E R, P : Posting(R, P) /\ PostSettlement(R, P)
            \/ UNCHANGED <<status, payout, wallet, ledger, openLiability>>
<1>1. PICK s \in Settlers :
        \/ ChunkCommit(s)
        \/ \E m \in Markets, win \in CancelWindows : MarketCancel(s, m, win)
        \/ \E m \in Markets, type \in {"rollback_settle", "rollback_cancel"} :
             MarketRollback(s, m, type)
        \/ UNCHANGED <<status, payout, potential, wallet, ledger, openLiability>>
  BY DEF SettlerNext, SettlePhase1, ChunkBegin, CloseMatch, TxError, MarketCancelSkip,
         ReconcileStranded, ReconcileMatchLifecycle, ticketVars, moneyVars
<1>2. CASE ChunkCommit(s)
  <2>1. PostSettlement({}, plan[s]) /\ potential' = potential
    BY <1>2 DEF ChunkCommit
  <2>2. Posting({}, plan[s])
    BY DEF IInv, PlansOwned, Jobs, Posting
  <2> QED BY <2>1, <2>2
<1>3. ASSUME NEW m \in Markets, NEW win \in CancelWindows, MarketCancel(s, m, win)
      PROVE  potential' = potential /\ \E R, P : Posting(R, P) /\ PostSettlement(R, P)
  <2> DEFINE hit == {u \in AffectedTickets(m) : InWindow(u, win)}
             legs == VoidLegs(hit, m)
             undo == {u \in hit : status[u] = "settled" /\ u \notin LockedRows}
             redo == {u \in hit : /\ u \notin LockedRows
                                  /\ status[u] \in {"accepted", "settled"}
                                  /\ Resolved(u, legs[u])}
             P == [u \in redo |-> Settle(u, legs[u])]
  <2>1. PostSettlement(undo, P) /\ potential' = potential
    BY <1>3 DEF MarketCancel
  <2>2. hit \subseteq Tickets /\ \A u \in hit : m \in LegsOf(u)
    BY DEF AffectedTickets
  <2>3. ASSUME NEW u \in redo
        PROVE  Settle(u, legs[u]) \in Payouts
    <3>1. leg[u] \in [LegsOf(u) -> Results \cup {Unresolved}] /\ u \in Tickets
      BY <2>2 DEF IInv, TicketsTyped
    <3>2. legs[u] = [leg[u] EXCEPT ![m] = "void"]
      BY <2>2, <2>3 DEF VoidLegs
    <3>3. legs[u] \in [LegsOf(u) -> Results \cup {Unresolved}]
      <4> HIDE DEF legs
      <4> QED BY <3>1, <3>2 DEF Results
    <3>4. Resolved(u, legs[u]) /\ status[u] \notin {"absent", "placing"}
      OBVIOUS
    <3> HIDE DEF legs
    <3> QED BY <3>1, <3>3, <3>4, SettleTyped DEF IInv
  <2>4. /\ undo \subseteq Tickets /\ \A u \in undo : status[u] = "settled"
        /\ redo \subseteq Tickets /\ \A u \in redo : status[u] = "accepted" \/ u \in undo
    BY <2>2
  <2> HIDE DEF undo, redo, legs, hit
  <2>5. DOMAIN P = redo /\ P \in [redo -> Payouts]
    BY <2>3
  <2> HIDE DEF P
  <2>6. Posting(undo, P)
    BY <2>4, <2>5 DEF Posting
  <2> QED BY <2>1, <2>6
<1>4. ASSUME NEW m \in Markets, NEW type, MarketRollback(s, m, type)
      PROVE  potential' = potential /\ \E R, P : Posting(R, P) /\ PostSettlement(R, P)
  <2> DEFINE undo == {u \in AffectedTickets(m) : status[u] = "settled" /\ u \notin LockedRows}
  <2>1. PostSettlement(undo, NoSettles) /\ potential' = potential
    BY <1>4 DEF MarketRollback
  <2>2. Posting(undo, NoSettles)
    BY DEF AffectedTickets, NoSettles, Posting
  <2> HIDE DEF undo
  <2> QED BY <2>1, <2>2
<1> QED BY <1>1, <1>2, <1>3, <1>4

\* Every step moves the wallets by the books.
LEMMA StepMoney ==
  ASSUME IInv, Countable, [Next]_vars
  PROVE  Countable' /\ MoneyStep
<1>1. status \in [Tickets -> Statuses]
  BY DEF IInv, TicketsTyped
<1>2. CASE TicketNext
  <2>1. PICK t \in Tickets : \/ PlaceValidate(t)
                             \/ \E st \in OpenStatuses : PlaceCommit(t, st)
                             \/ BetDelayAccept(t) /\ status[t] = "pending_delay"
                             \/ BetDelayReprice(t) /\ status[t] = "pending_delay"
                             \/ BetDelayReject(t) /\ status[t] = "pending_delay"
                             \/ AdminVoid(t)
                             \/ LockStep
    BY <1>2, TicketCases
  <2>2. ASSUME NEW st \in OpenStatuses, PlaceCommit(t, st)
        PROVE  Countable' /\ MoneyStep
    BY <2>2, PlaceCommitMoney
  <2>3. CASE PlaceValidate(t)
    <3>1. /\ status[t] = "absent" /\ status' = [status EXCEPT ![t] = "placing"]
          /\ wallet' = wallet /\ ledger' = ledger
      BY <2>3 DEF PlaceValidate, moneyVars
    <3> QED BY <1>1, <3>1, QuietStep DEF OpenStatuses
  <2>4. CASE (BetDelayAccept(t) \/ BetDelayReprice(t)) /\ status[t] = "pending_delay"
    <3>1. /\ status[t] = "pending_delay" /\ status' = [status EXCEPT ![t] = "accepted"]
          /\ wallet' = wallet /\ ledger' = ledger
      BY <2>4 DEF BetDelayAccept, BetDelayReprice, moneyVars
    <3> QED BY <1>1, <3>1, QuietStep DEF OpenStatuses
  <2>5. CASE BetDelayReject(t) /\ status[t] = "pending_delay"
    BY <2>5, RefundMoney DEF BetDelayReject
  <2>6. CASE AdminVoid(t)
    BY <2>6, RefundMoney DEF AdminVoid
  <2>7. CASE LockStep
    <3>1. status' = status /\ wallet' = wallet /\ ledger' = ledger
      BY <2>7 DEF LockStep, ticketVars, moneyVars
    <3> QED BY <3>1, QuietStep
  <2> QED BY <2>1, <2>2, <2>3, <2>4, <2>5, <2>6, <2>7
<1>3. CASE SettlerNext
  <2>1. CASE UNCHANGED <<status, wallet, ledger, openLiability>>
    BY <2>1, QuietStep
  <2>2. ASSUME NEW R, NEW P, Posting(R, P), PostSettlement(R, P)
        PROVE  Countable' /\ MoneyStep
    BY <2>2, PostingMoney DEF PostSettlement
  <2> QED BY <1>3, <2>1, <2>2, SettlerPosts
<1>4. CASE ~ TicketNext /\ ~ SettlerNext
  <2>1. status' = status /\ wallet' = wallet /\ ledger' = ledger
    BY <1>4 DEF Next, FeedOddsChange, Crash, Tick, vars, ticketVars, moneyVars
  <2> QED BY <2>1, QuietStep
<1> QED BY <1>2, <1>3, <1>4

-----------------------------------------------------------------------------
(* The exposure counter *)

\* The tickets riskzilla_bank_state counts.
Exposed == {t \in Tickets : status[t] \in OpenStatuses} \cap UsdcTickets

\* Exposure of a set of tickets is a natural number.
LEMMA ExposureType ==
  ASSUME IInv, NEW S \in SUBSET Tickets
  PROVE  IsFiniteSet(S) /\ SumFunctionOnSet(potential, S) \in Nat
<1>1. IsFiniteSet(S) /\ \A t \in S : potential[t] \in Nat
  BY StakesType DEF IInv, TicketsTyped
<1> QED BY <1>1, SumNat

\* The counter releases one open ticket; its floor at 0 is never reached.
LEMMA ReleaseOne ==
  ASSUME IInv, OpenLiabilityExact, NEW t \in Tickets, NEW st \in Statuses \ OpenStatuses,
         status[t] \in OpenStatuses, status' = [status EXCEPT ![t] = st], potential' = potential,
         openLiability' = Floor0(openLiability - Liability({t}))
  PROVE  OpenLiabilityExact'
<1>1. openLiability = SumFunctionOnSet(potential, Exposed)
  BY DEF OpenLiabilityExact, Liability, Exposed
<1>2. Exposed \in SUBSET Tickets /\ status \in [Tickets -> Statuses]
  BY DEF Exposed, IInv, TicketsTyped
<1>3. SUFFICES openLiability' = SumFunctionOnSet(potential, Exposed')
  BY DEF OpenLiabilityExact, Liability, Exposed
<1>4. Exposed' = Exposed \ {t}
  BY <1>2 DEF Exposed
<1>5. IsFiniteSet(Exposed) /\ SumFunctionOnSet(potential, Exposed) \in Nat
  BY <1>2, ExposureType
<1>6. SumFunctionOnSet(potential, Exposed \ {t}) \in Nat
  BY <1>2, ExposureType
<1>7. CASE t \in UsdcTickets
  <2>1. {t} \cap UsdcTickets = {t} /\ t \in Exposed
    BY <1>7 DEF Exposed
  <2>2. \A u \in Exposed : potential[u] \in Int
    BY <1>2 DEF IInv, TicketsTyped
  <2>3. SumFunctionOnSet(potential, Exposed)
          = potential[t] + SumFunctionOnSet(potential, Exposed \ {t})
    BY <1>5, <2>1, <2>2, SumRemove
  <2>4. SumFunctionOnSet(potential, {t}) = potential[t]
    <3>1. SumFunctionOnSet(potential, {t}) = potential[t] + SumFunctionOnSet(potential, {t} \ {t})
      BY <2>1, <2>2, FS_Singleton, SumRemove
    <3>2. {t} \ {t} = {}
      OBVIOUS
    <3>3. SumFunctionOnSet(potential, {t} \ {t}) = 0
      BY <3>2, SumEmpty
    <3>4. potential[t] \in Int
      BY <2>1, <2>2
    <3> QED BY <3>1, <3>3, <3>4
  <2>5. openLiability' = Floor0(openLiability - potential[t])
    BY <2>1, <2>4 DEF Liability
  <2>6. potential[t] \in Int
    BY <2>1, <2>2
  <2> QED BY <1>1, <1>4, <1>5, <1>6, <2>3, <2>5, <2>6 DEF Floor0
<1>8. CASE t \notin UsdcTickets
  <2>1. {t} \cap UsdcTickets = {} /\ Exposed' = Exposed
    BY <1>4, <1>8 DEF Exposed
  <2>2. openLiability' = Floor0(openLiability - 0)
    BY <2>1, SumEmpty DEF Liability
  <2> QED BY <1>1, <1>5, <2>1, <2>2 DEF Floor0
<1> QED BY <1>7, <1>8

\* Placement and the bet-delay worker keep the counter exact.
LEMMA TicketStepLiability ==
  ASSUME IInv, OpenLiabilityExact, TicketNext
  PROVE  OpenLiabilityExact'
<1>1. openLiability = SumFunctionOnSet(potential, Exposed)
  BY DEF OpenLiabilityExact, Liability, Exposed
<1>2. Exposed \in SUBSET Tickets
  BY DEF Exposed
<1>3. /\ status \in [Tickets -> Statuses] /\ potential \in [Tickets -> Nat]
      /\ IsFiniteSet(Exposed) /\ SumFunctionOnSet(potential, Exposed) \in Nat
  BY <1>2, ExposureType DEF IInv, TicketsTyped
<1>4. openLiability' = SumFunctionOnSet(potential', Exposed') => OpenLiabilityExact'
  BY DEF OpenLiabilityExact, Liability, Exposed
<1>5. PICK t \in Tickets : \/ PlaceValidate(t)
                           \/ \E st \in OpenStatuses : PlaceCommit(t, st)
                           \/ BetDelayAccept(t) /\ status[t] = "pending_delay"
                           \/ BetDelayReprice(t) /\ status[t] = "pending_delay"
                           \/ BetDelayReject(t) /\ status[t] = "pending_delay"
                           \/ AdminVoid(t)
                           \/ LockStep
  BY TicketCases
<1>6. CASE PlaceValidate(t) \/ (BetDelayAccept(t) /\ status[t] = "pending_delay")
  <2>1. /\ openLiability' = openLiability /\ potential' = potential
        /\ \/ status[t] = "absent" /\ status' = [status EXCEPT ![t] = "placing"]
           \/ status[t] = "pending_delay" /\ status' = [status EXCEPT ![t] = "accepted"]
    BY <1>6 DEF PlaceValidate, BetDelayAccept, moneyVars
  <2>2. Exposed' = Exposed
    BY <1>3, <2>1 DEF Exposed, OpenStatuses
  <2> QED BY <1>1, <1>4, <2>1, <2>2
<1>7. ASSUME NEW st \in OpenStatuses, PlaceCommit(t, st)
      PROVE  OpenLiabilityExact'
  <2> DEFINE p == Potential(t, odds[t])
  <2>1. /\ status[t] = "placing" /\ status' = [status EXCEPT ![t] = st]
        /\ potential' = [potential EXCEPT ![t] = p]
        /\ openLiability' = IF t \in UsdcTickets THEN openLiability + p ELSE openLiability
    BY <1>7 DEF PlaceCommit
  <2>2. p \in Nat
    <3>1. odds[t] \in Odds(t)
      BY DEF IInv, TicketsTyped
    <3> QED BY <3>1, PayoutAssumption DEF Potentials
  <2> HIDE DEF p
  <2>3. t \notin Exposed
    BY <2>1 DEF Exposed, OpenStatuses
  <2>4. SumFunctionOnSet(potential', Exposed) = SumFunctionOnSet(potential, Exposed)
    <3>1. \A u \in Exposed : potential'[u] = potential[u]
      BY <1>2, <1>3, <2>1, <2>3
    <3> QED BY <1>3, <3>1, SumSame
  <2>5. CASE t \in UsdcTickets
    <3>1. Exposed' = Exposed \cup {t}
      BY <1>3, <2>1, <2>5 DEF Exposed
    <3>2. potential'[t] = p /\ \A u \in Exposed \cup {t} : potential'[u] \in Int
      BY <1>2, <1>3, <2>1, <2>2
    <3>3. SumFunctionOnSet(potential', Exposed \cup {t})
            = potential'[t] + SumFunctionOnSet(potential', Exposed)
      BY <1>3, <2>3, <3>2, SumAdd
    <3> QED BY <1>1, <1>3, <1>4, <2>1, <2>2, <2>4, <2>5, <3>1, <3>2, <3>3
  <2>6. CASE t \notin UsdcTickets
    <3>1. Exposed' = Exposed
      BY <1>3, <2>1, <2>6 DEF Exposed
    <3> QED BY <1>1, <1>4, <2>1, <2>4, <2>6, <3>1
  <2> QED BY <2>5, <2>6
<1>8. CASE BetDelayReprice(t) /\ status[t] = "pending_delay"
  <2> DEFINE p == hold[t].promise
  <2>1. /\ status[t] = "pending_delay" /\ status' = [status EXCEPT ![t] = "accepted"]
        /\ potential' = [potential EXCEPT ![t] = p]
        /\ openLiability' = openLiability + LiabilityDelta(t)
    BY <1>8 DEF BetDelayReprice
  <2>2. p \in Nat
    BY DEF IInv, HoldsOwned
  <2>3. LiabilityDelta(t) = IF t \in UsdcTickets THEN p - potential[t] ELSE 0
    BY DEF LiabilityDelta
  <2> HIDE DEF p
  <2>4. Exposed' = Exposed
    BY <1>3, <2>1 DEF Exposed, OpenStatuses
  <2>5. CASE t \in UsdcTickets
    <3>1. t \in Exposed
      BY <2>1, <2>5 DEF Exposed, OpenStatuses
    <3>2. \A u \in Exposed : potential[u] \in Int /\ potential'[u] \in Int
      BY <1>2, <1>3, <2>1, <2>2
    <3>3. potential'[t] = p /\ \A u \in Exposed : u # t => potential[u] = potential'[u]
      BY <1>2, <1>3, <2>1
    <3>4. SumFunctionOnSet(potential', Exposed)
            = SumFunctionOnSet(potential, Exposed) - potential[t] + potential'[t]
      BY <1>3, <3>1, <3>2, <3>3, SumChange
    <3>5. potential[t] \in Int
      BY <3>1, <3>2
    <3>6. openLiability' = SumFunctionOnSet(potential', Exposed)
      BY <1>1, <1>3, <2>1, <2>2, <2>3, <2>5, <3>3, <3>4, <3>5
    <3> QED BY <1>4, <2>4, <3>6
  <2>6. CASE t \notin UsdcTickets
    <3>1. \A u \in Exposed : potential[u] = potential'[u]
      BY <1>2, <1>3, <2>1, <2>6 DEF Exposed
    <3>2. SumFunctionOnSet(potential, Exposed) = SumFunctionOnSet(potential', Exposed)
      BY <1>3, <3>1, SumSame
    <3> QED BY <1>1, <1>3, <1>4, <2>1, <2>3, <2>4, <2>6, <3>2
  <2> QED BY <2>5, <2>6
<1>9. CASE (BetDelayReject(t) /\ status[t] = "pending_delay") \/ AdminVoid(t)
  <2>1. PICK st \in Statuses \ OpenStatuses :
          /\ status[t] \in OpenStatuses /\ status' = [status EXCEPT ![t] = st]
          /\ potential' = potential /\ openLiability' = Floor0(openLiability - Liability({t}))
    BY <1>9 DEF BetDelayReject, AdminVoid, RefundStake, OpenStatuses, Statuses
  <2> QED BY <2>1, ReleaseOne
<1>10. CASE LockStep
  BY <1>10 DEF LockStep, ticketVars, moneyVars, OpenLiabilityExact, Liability
<1> QED BY <1>5, <1>6, <1>7, <1>8, <1>9, <1>10

\* So does every step: a settle releases what the ticket reserved, a reversal
\* reserves it again.
LEMMA StepLiability ==
  ASSUME IInv, OpenLiabilityExact, [Next]_vars
  PROVE  OpenLiabilityExact'
<1>1. openLiability = SumFunctionOnSet(potential, Exposed)
  BY DEF OpenLiabilityExact, Liability, Exposed
<1>2. Exposed \in SUBSET Tickets
  BY DEF Exposed
<1>3. IsFiniteSet(Exposed) /\ SumFunctionOnSet(potential, Exposed) \in Nat
  BY <1>2, ExposureType
<1>4. openLiability' = SumFunctionOnSet(potential', Exposed') => OpenLiabilityExact'
  BY DEF OpenLiabilityExact, Liability, Exposed
<1>5. CASE UNCHANGED <<status, potential, openLiability>>
  BY <1>5 DEF OpenLiabilityExact, Liability
<1>6. CASE SettlerNext
  <2>1. ASSUME NEW R, NEW P, Posting(R, P), PostSettlement(R, P), potential' = potential
        PROVE  OpenLiabilityExact'
    <3> DEFINE A == Exposed
               B == R \cap UsdcTickets
               C == DOMAIN P \cap UsdcTickets
    <3>1. /\ PostTickets(R, P)
          /\ openLiability' = Floor0(openLiability + Liability(R) - Liability(DOMAIN P))
      BY <2>1 DEF PostSettlement
    <3>2. Exposed' = (A \cup B) \ C
      BY <2>1, <3>1 DEF Exposed, Posting, PostTickets, OpenStatuses
    <3>3. A \cap B = {} /\ C \in SUBSET (A \cup B)
      BY <2>1 DEF Exposed, Posting, OpenStatuses
    <3>4. B \in SUBSET Tickets /\ C \in SUBSET Tickets /\ (A \cup B) \ C \in SUBSET Tickets
      BY <1>2, <2>1 DEF Posting
    <3>5. Liability(R) = SumFunctionOnSet(potential, B)
      BY DEF Liability
    <3>6. Liability(DOMAIN P) = SumFunctionOnSet(potential, C)
      BY DEF Liability
    <3>7. \A t \in A \cup B : potential[t] \in Int
      BY <1>2, <3>4 DEF IInv, TicketsTyped
    <3> HIDE DEF A, B, C
    <3>8. /\ IsFiniteSet(B) /\ SumFunctionOnSet(potential, B) \in Nat
          /\ SumFunctionOnSet(potential, C) \in Nat
          /\ SumFunctionOnSet(potential, (A \cup B) \ C) \in Nat
      BY <3>4, ExposureType
    <3>9. IsFiniteSet(A) /\ openLiability = SumFunctionOnSet(potential, A)
      BY <1>1, <1>3 DEF A
    <3>10. SumFunctionOnSet(potential, A) \in Nat
      BY <1>3 DEF A
    <3>11. SumFunctionOnSet(potential, (A \cup B) \ C)
             = (SumFunctionOnSet(potential, A) + SumFunctionOnSet(potential, B))
                 - SumFunctionOnSet(potential, C)
      BY <3>3, <3>7, <3>8, <3>9, SumMove
    <3>12. openLiability' = SumFunctionOnSet(potential, (A \cup B) \ C)
      <4>1. \A a, b, c \in Int : a + b - c = (a + b) - c
        OBVIOUS
      <4>2. openLiability + Liability(R) - Liability(DOMAIN P)
              = SumFunctionOnSet(potential, (A \cup B) \ C)
        BY <3>5, <3>6, <3>8, <3>9, <3>10, <3>11, <4>1
      <4> QED BY <3>1, <3>8, <4>2 DEF Floor0
    <3> QED BY <1>4, <2>1, <3>2, <3>12
  <2> QED BY <1>5, <1>6, <2>1, SettlerPosts
<1>7. CASE ~ TicketNext /\ ~ SettlerNext
  <2>1. UNCHANGED <<status, potential, openLiability>>
    BY <1>7 DEF Next, FeedOddsChange, Crash, Tick, vars, ticketVars, moneyVars
  <2> QED BY <2>1, <1>5
<1> QED BY <1>6, <1>7, TicketStepLiability

-----------------------------------------------------------------------------
(* What is available *)

\* No wallet is overdrawn, and the stake a placement is about to lock is still
\* available: the placement alone holds the wallet row since it read it.
Covered ==
  /\ \A w \in Wallets : Available(w) >= 0
  /\ \A t \in Tickets :
       status[t] = "placing" =>
         /\ Stake[t] <= Available(WalletOf[t])
         /\ \A u \in Tickets : status[u] = "placing" /\ WalletOf[u] = WalletOf[t] => u = t

\* A step that starts no placement, and takes money only from a wallet without
\* one.
LEMMA CoverStays ==
  ASSUME Countable, Covered,
         \A t \in Tickets : status'[t] = "placing" => status[t] = "placing",
         \A w \in Wallets :
           /\ Available(w)' \in Int /\ Available(w)' >= 0
           /\ \/ Available(w)' >= Available(w)
              \/ \A t \in Tickets : WalletOf[t] = w => status'[t] # "placing"
  PROVE  Covered'
<1>1. WalletOf \in [Tickets -> Wallets] /\ \A t \in Tickets : Stake[t] \in Int
  BY TicketAssumption
<1>2. \A w \in Wallets : Available(w) \in Int
  BY DEF Countable, Available
<1>3. ASSUME NEW t \in Tickets, status'[t] = "placing"
      PROVE  Stake[t] <= Available(WalletOf[t])'
  <2>1. WalletOf[t] \in Wallets /\ Stake[t] \in Int
    BY <1>1
  <2>2. Stake[t] <= Available(WalletOf[t])
    BY <1>3 DEF Covered
  <2>3. Available(WalletOf[t])' >= Available(WalletOf[t])
    BY <1>3, <2>1
  <2> QED BY <1>2, <2>1, <2>2, <2>3
<1> QED BY <1>3 DEF Covered

\* The last ticket of a wallet that a settlement transaction walks.
LEMMA LastWalked ==
  ASSUME NEW S, NEW n \in Nat, NEW rank \in [S -> 1..n], NEW T \in SUBSET S, T # {}
  PROVE  \E t \in T : \A u \in T : rank[u] <= rank[t]
<1> DEFINE gaps == {n - rank[t] : t \in T}
<1>1. \A t \in T : rank[t] \in 1..n
  OBVIOUS
<1>2. gaps \in SUBSET Nat /\ gaps # {}
  BY <1>1
<1>3. PICK g \in gaps : \A h \in gaps : g <= h
  <2> HIDE DEF gaps
  <2> QED BY <1>2, NatLeast
<1>4. PICK t \in T : g = n - rank[t]
  BY <1>3
<1>5. ASSUME NEW u \in T PROVE rank[u] <= rank[t]
  <2>1. n - rank[u] \in gaps
    OBVIOUS
  <2>2. n - rank[t] <= n - rank[u]
    <3> HIDE DEF gaps
    <3> QED BY <1>3, <1>4, <2>1
  <2> QED BY <1>1, <2>2
<1> QED BY <1>5

\* What a settlement transaction takes from and brings to a ticket.
TakenBack(R, P) == [t \in R \cup DOMAIN P |-> IF t \in R THEN payout[t] ELSE 0]
BroughtIn(R, P) == [t \in R \cup DOMAIN P |-> IF t \in DOMAIN P THEN P[t].payout ELSE 0]

\* A transaction that passes the CHECK after every statement leaves nothing
\* overdrawn: after the last ticket of the wallet only its credit is to come.
LEMMA PostingCovers ==
  ASSUME IInv, Countable, NEW R, NEW P, Posting(R, P), WalletCheck(R, P),
         NEW w \in Wallets, BackOf(R, w) \cup PaidOf(P, w) # {}
  PROVE  (Available(w) - SumFunctionOnSet(payout, BackOf(R, w)))
            + SumFunctionOnSet(Won(P), PaidOf(P, w)) >= 0
<1> DEFINE S == R \cup DOMAIN P
           T == BackOf(R, w) \cup PaidOf(P, w)
           out == TakenBack(R, P)
           in == BroughtIn(R, P)
           net == [u \in T |-> in[u] - out[u]]
<1>1. S \in SUBSET Tickets /\ T = {t \in S : WalletOf[t] = w}
  BY DEF Posting, BackOf, PaidOf
<1>2. /\ \A t \in R : payout[t] \in Nat
      /\ \A t \in DOMAIN P : P[t].payout \in Nat
  BY DEF Posting, IInv, TicketsTyped, Payouts
<1>3. \A t \in S : out[t] \in Nat /\ in[t] \in Nat
  BY <1>2 DEF TakenBack, BroughtIn
<1>4. IsFiniteSet(S) /\ IsFiniteSet(T) /\ Cardinality(S) \in Nat
  <2>1. T \in SUBSET Tickets
    BY <1>1
  <2> QED BY <1>1, <2>1, StakesType, FS_CardinalityType
<1>5. PICK rank \in [S -> 1..Cardinality(S)] :
        /\ \A t, u \in S : t # u => rank[t] # rank[u]
        /\ \A t \in S :
             (Available(WalletOf[t]) - (IF t \in R THEN payout[t] ELSE 0))
               + SumFunctionOnSet(
                   [u \in {v \in S : WalletOf[v] = WalletOf[t] /\ rank[v] < rank[t]} |->
                      (IF u \in DOMAIN P THEN P[u].payout ELSE 0)
                        - (IF u \in R THEN payout[u] ELSE 0)],
                   {v \in S : WalletOf[v] = WalletOf[t] /\ rank[v] < rank[t]}) >= 0
  BY DEF WalletCheck
<1>6. PICK last \in T : \A u \in T : rank[u] <= rank[last]
  <2>1. T \in SUBSET S /\ T # {}
    BY <1>1
  <2> HIDE DEF T, S
  <2> QED BY <1>4, <2>1, LastWalked
<1> DEFINE before == T \ {last}
           walked == [u \in before |-> (IF u \in DOMAIN P THEN P[u].payout ELSE 0)
                                          - (IF u \in R THEN payout[u] ELSE 0)]
<1>7. {v \in S : WalletOf[v] = WalletOf[last] /\ rank[v] < rank[last]} = before
  <2>1. last \in S /\ WalletOf[last] = w
    BY <1>1, <1>6
  <2>2. \A u \in S : rank[u] \in Int
    BY <1>4, <1>5
  <2>3. \A u \in T : u # last => rank[u] < rank[last]
    BY <1>1, <1>5, <1>6, <2>1, <2>2
  <2> HIDE DEF S
  <2> QED BY <1>1, <2>1, <2>2, <2>3
<1>8. last \in S /\ WalletOf[last] = w
  BY <1>1, <1>6
<1>9. (Available(w) - out[last]) + SumFunctionOnSet(walked, before) >= 0
  <2>1. out[last] = IF last \in R THEN payout[last] ELSE 0
    BY <1>8 DEF TakenBack
  <2>2. (Available(WalletOf[last]) - (IF last \in R THEN payout[last] ELSE 0))
               + SumFunctionOnSet(
                   [u \in {v \in S : WalletOf[v] = WalletOf[last] /\ rank[v] < rank[last]} |->
                      (IF u \in DOMAIN P THEN P[u].payout ELSE 0)
                        - (IF u \in R THEN payout[u] ELSE 0)],
                   {v \in S : WalletOf[v] = WalletOf[last] /\ rank[v] < rank[last]}) >= 0
    BY <1>5, <1>8
  <2>3. (Available(w) - (IF last \in R THEN payout[last] ELSE 0))
           + SumFunctionOnSet(walked, before) >= 0
    BY <1>7, <1>8, <2>2
  <2> HIDE DEF walked, before
  <2> QED BY <2>1, <2>3
<1>10. IsFiniteSet(before) /\ \A u \in before : walked[u] = net[u]
  <2>1. before \in SUBSET T /\ T \in SUBSET S
    BY <1>1
  <2>2. ASSUME NEW u \in before PROVE walked[u] = net[u]
    <3>1. u \in S /\ u \in T
      BY <2>1
    <3>2. /\ in[u] = IF u \in DOMAIN P THEN P[u].payout ELSE 0
          /\ out[u] = IF u \in R THEN payout[u] ELSE 0
      BY <3>1 DEF TakenBack, BroughtIn
    <3> HIDE DEF in, out, T, S
    <3> QED BY <3>1, <3>2
  <2>3. IsFiniteSet(before)
    BY <1>4, <2>1, FS_Subset
  <2> QED BY <2>2, <2>3
<1>11. \A u \in T : u \in S /\ net[u] = in[u] - out[u]
  BY <1>1
<1> HIDE DEF walked, net, in, out, S
<1>12. SumFunctionOnSet(walked, before) = SumFunctionOnSet(net, before)
  <2> HIDE DEF before
  <2> QED BY <1>10, SumSame
<1>13. \A u \in T : in[u] \in Int /\ out[u] \in Int /\ net[u] \in Int /\ net[u] = in[u] - out[u]
  BY <1>3, <1>11
<1> HIDE DEF T
<1>14. SumFunctionOnSet(net, T) = net[last] + SumFunctionOnSet(net, before)
  BY <1>4, <1>6, <1>13, SumRemove
<1>15. SumFunctionOnSet(net, T) = SumFunctionOnSet(in, T) - SumFunctionOnSet(out, T)
  BY <1>4, <1>13, SumMinus
<1>16. SumFunctionOnSet(in, T) = SumFunctionOnSet(Won(P), PaidOf(P, w))
  <2>1. /\ PaidOf(P, w) \in SUBSET T /\ \A u \in T \ PaidOf(P, w) : in[u] = 0
        /\ \A u \in PaidOf(P, w) : in[u] = Won(P)[u]
    BY DEF in, T, BroughtIn, BackOf, PaidOf, Won
  <2>2. SumFunctionOnSet(in, T) = SumFunctionOnSet(in, PaidOf(P, w))
    BY <1>4, <1>13, <2>1, SumSupport
  <2>3. IsFiniteSet(PaidOf(P, w))
    BY PostingTypes
  <2>4. SumFunctionOnSet(in, PaidOf(P, w)) = SumFunctionOnSet(Won(P), PaidOf(P, w))
    BY <2>1, <2>3, SumSame
  <2> QED BY <2>2, <2>4
<1>17. SumFunctionOnSet(out, T) = SumFunctionOnSet(payout, BackOf(R, w))
  <2>1. /\ BackOf(R, w) \in SUBSET T /\ \A u \in T \ BackOf(R, w) : out[u] = 0
        /\ \A u \in BackOf(R, w) : out[u] = payout[u]
    BY DEF out, T, TakenBack, BackOf, PaidOf
  <2>2. SumFunctionOnSet(out, T) = SumFunctionOnSet(out, BackOf(R, w))
    BY <1>4, <1>13, <2>1, SumSupport
  <2>3. IsFiniteSet(BackOf(R, w))
    BY PostingTypes
  <2>4. SumFunctionOnSet(out, BackOf(R, w)) = SumFunctionOnSet(payout, BackOf(R, w))
    BY <2>1, <2>3, SumSame
  <2> QED BY <2>2, <2>4
<1>18. /\ SumFunctionOnSet(payout, BackOf(R, w)) \in Int
       /\ SumFunctionOnSet(Won(P), PaidOf(P, w)) \in Int
  BY PostingTypes
<1>19. Available(w) \in Int
  BY SumTypes
<1>20. in[last] \in Nat /\ out[last] \in Nat /\ net[last] = in[last] - out[last]
  BY <1>3, <1>6, <1>8, <1>13
<1>21. SumFunctionOnSet(net, before) \in Int
  <2>1. \A u \in before : net[u] \in Int
    BY <1>13
  <2> HIDE DEF before
  <2> QED BY <1>10, <2>1, SumType
<1> HIDE DEF before
<1> QED BY <1>9, <1>12, <1>14, <1>15, <1>16, <1>17, <1>18, <1>19, <1>20, <1>21

\* A settlement transaction waits for placements of the wallets it writes.
LEMMA PostingStaysCovered ==
  ASSUME IInv, Countable, Covered, NEW R, NEW P, Posting(R, P), PostSettlement(R, P)
  PROVE  Covered'
<1>1. /\ wallet' = [v \in Wallets |-> PostWallet(v, R, P)]
      /\ WalletCheck(R, P) /\ PostTickets(R, P)
      /\ \A t \in R \cup DOMAIN P : WalletFree(WalletOf[t])
  BY DEF PostSettlement
<1>2. \A t \in Tickets : status'[t] = "placing" => status[t] = "placing"
  BY <1>1 DEF PostTickets
<1>3. ASSUME NEW w \in Wallets
      PROVE  /\ Available(w)' \in Int /\ Available(w)' >= 0
             /\ \/ Available(w)' >= Available(w)
                \/ \A t \in Tickets : WalletOf[t] = w => status'[t] # "placing"
  <2>1. Available(w)' = (Available(w) - SumFunctionOnSet(payout, BackOf(R, w)))
                          + SumFunctionOnSet(Won(P), PaidOf(P, w))
    BY <1>1, PostingWallet
  <2>2. /\ SumFunctionOnSet(payout, BackOf(R, w)) \in Int
        /\ SumFunctionOnSet(Won(P), PaidOf(P, w)) \in Int
    BY PostingTypes
  <2>3. Available(w) \in Int /\ Available(w) >= 0
    BY SumTypes DEF Covered
  <2>4. Available(w)' \in Int
    BY <2>1, <2>2, <2>3
  <2>5. CASE BackOf(R, w) \cup PaidOf(P, w) = {}
    <3>1. BackOf(R, w) = {} /\ PaidOf(P, w) = {}
      BY <2>5
    <3>2. /\ SumFunctionOnSet(payout, BackOf(R, w)) = 0
          /\ SumFunctionOnSet(Won(P), PaidOf(P, w)) = 0
      BY <3>1, SumEmpty
    <3> QED BY <2>1, <2>3, <2>4, <3>2
  <2>6. CASE BackOf(R, w) \cup PaidOf(P, w) # {}
    <3>1. Available(w)' >= 0
      BY <1>1, <2>1, <2>6, PostingCovers
    <3>2. WalletFree(w)
      BY <1>1, <2>6 DEF BackOf, PaidOf
    <3> QED BY <1>2, <2>4, <3>1, <3>2 DEF WalletFree
  <2> QED BY <2>5, <2>6
<1> QED BY <1>2, <1>3, CoverStays

\* What a step of one ticket may do to what is available.
LEMMA TicketStepCovered ==
  ASSUME IInv, Countable, Covered, TicketNext
  PROVE  Covered'
<1>1. /\ status \in [Tickets -> Statuses]
      /\ wallet \in [Wallets -> [balance: Int, locked: Int]]
  BY DEF IInv, TicketsTyped, Countable
<1>2. WalletOf \in [Tickets -> Wallets] /\ \A t \in Tickets : Stake[t] \in Nat
  BY TicketAssumption
<1>3. \A w \in Wallets : Available(w) \in Int /\ Available(w) >= 0
  BY <1>1 DEF Available, Covered
<1>4. PICK t \in Tickets : \/ PlaceValidate(t)
                           \/ \E st \in OpenStatuses : PlaceCommit(t, st)
                           \/ BetDelayAccept(t) /\ status[t] = "pending_delay"
                           \/ BetDelayReprice(t) /\ status[t] = "pending_delay"
                           \/ BetDelayReject(t) /\ status[t] = "pending_delay"
                           \/ AdminVoid(t)
                           \/ LockStep
  BY TicketCases
<1>5. CASE PlaceValidate(t)
  <2>1. /\ status' = [status EXCEPT ![t] = "placing"] /\ wallet' = wallet
        /\ WalletFree(WalletOf[t]) /\ Available(WalletOf[t]) >= Stake[t]
    BY <1>5 DEF PlaceValidate, moneyVars
  <2>2. \A w \in Wallets : Available(w)' = Available(w)
    BY <2>1 DEF Available
  <2>3. Stake[t] <= Available(WalletOf[t])
    BY <1>2, <1>3, <2>1
  <2>4. ASSUME NEW u \in Tickets, status'[u] = "placing"
        PROVE  /\ Stake[u] <= Available(WalletOf[u])
               /\ \A v \in Tickets : status'[v] = "placing" /\ WalletOf[v] = WalletOf[u] => v = u
    BY <1>1, <2>1, <2>3, <2>4 DEF Covered, WalletFree
  <2>5. \A u \in Tickets : Available(WalletOf[u])' = Available(WalletOf[u])
    BY <2>1 DEF Available
  <2> QED BY <1>3, <2>2, <2>4, <2>5 DEF Covered
<1>6. ASSUME NEW st \in OpenStatuses, PlaceCommit(t, st)
      PROVE  Covered'
  <2>1. /\ status[t] = "placing" /\ status' = [status EXCEPT ![t] = st]
        /\ wallet' = [wallet EXCEPT ![WalletOf[t]].locked = @ + Stake[t]]
    BY <1>6 DEF PlaceCommit
  <2>2. st # "placing"
    BY DEF OpenStatuses
  <2>3. \A u \in Tickets : status'[u] = "placing" => status[u] = "placing"
    BY <1>1, <2>1, <2>2
  <2>4. \A u \in Tickets : WalletOf[u] = WalletOf[t] => status'[u] # "placing"
    BY <1>1, <2>1, <2>2 DEF Covered
  <2>5. Stake[t] <= Available(WalletOf[t]) /\ WalletOf[t] \in Wallets /\ Stake[t] \in Nat
    BY <1>2, <2>1 DEF Covered
  <2>6. ASSUME NEW w \in Wallets
        PROVE  Available(w)' = IF w = WalletOf[t] THEN Available(w) - Stake[t] ELSE Available(w)
    BY <1>1, <2>1, <2>5 DEF Available
  <2>7. ASSUME NEW w \in Wallets
        PROVE  /\ Available(w)' \in Int /\ Available(w)' >= 0
               /\ \/ Available(w)' >= Available(w)
                  \/ \A u \in Tickets : WalletOf[u] = w => status'[u] # "placing"
    <3>1. CASE w = WalletOf[t]
      BY <1>3, <2>4, <2>5, <2>6, <3>1
    <3>2. CASE w # WalletOf[t]
      BY <1>3, <2>6, <3>2
    <3> QED BY <3>1, <3>2
  <2> QED BY <2>3, <2>7, CoverStays
<1>7. CASE BetDelayAccept(t) \/ BetDelayReprice(t)
  <2>1. status' = [status EXCEPT ![t] = "accepted"] /\ wallet' = wallet
    BY <1>7 DEF BetDelayAccept, BetDelayReprice, moneyVars
  <2>2. \A w \in Wallets : Available(w)' = Available(w)
    BY <2>1 DEF Available
  <2>3. \A u \in Tickets : status'[u] = "placing" => status[u] = "placing"
    BY <1>1, <2>1
  <2>4. \A w \in Wallets : /\ Available(w)' \in Int /\ Available(w)' >= 0
                           /\ Available(w)' >= Available(w)
    BY <1>3, <2>2
  <2> QED BY <2>3, <2>4, CoverStays
<1>8. CASE BetDelayReject(t) \/ AdminVoid(t)
  <2>1. PICK st \in {"rejected", "voided"} : status' = [status EXCEPT ![t] = st]
    BY <1>8 DEF BetDelayReject, AdminVoid
  <2>2. wallet' = [wallet EXCEPT ![WalletOf[t]].locked = @ - Stake[t]]
    BY <1>8 DEF BetDelayReject, AdminVoid, RefundStake
  <2>3. \A u \in Tickets : status'[u] = "placing" => status[u] = "placing"
    BY <1>1, <2>1
  <2>4. WalletOf[t] \in Wallets /\ Stake[t] \in Nat
    BY <1>2
  <2>5. ASSUME NEW w \in Wallets
        PROVE  Available(w)' = IF w = WalletOf[t] THEN Available(w) + Stake[t] ELSE Available(w)
    BY <1>1, <2>2, <2>4 DEF Available
  <2>6. \A w \in Wallets : /\ Available(w)' \in Int /\ Available(w)' >= 0
                           /\ Available(w)' >= Available(w)
    BY <1>3, <2>4, <2>5
  <2> QED BY <2>3, <2>6, CoverStays
<1>9. CASE LockStep
  <2>1. status' = status /\ wallet' = wallet
    BY <1>9 DEF LockStep, ticketVars, moneyVars
  <2>2. \A w \in Wallets : /\ Available(w)' \in Int /\ Available(w)' >= 0
                           /\ Available(w)' >= Available(w)
    BY <1>3, <2>1 DEF Available
  <2> QED BY <2>1, <2>2, CoverStays
<1> QED BY <1>4, <1>5, <1>6, <1>7, <1>8, <1>9

\* Every step keeps every wallet covered.
LEMMA StepCovered ==
  ASSUME IInv, Countable, Covered, [Next]_vars
  PROVE  Covered'
<1>1. CASE UNCHANGED <<status, wallet>>
  <2>1. \A w \in Wallets : Available(w)' = Available(w)
    BY <1>1 DEF Available
  <2>2. \A w \in Wallets : Available(w) \in Int /\ Available(w) >= 0
    BY DEF Countable, Available, Covered
  <2>3. \A w \in Wallets : /\ Available(w)' \in Int /\ Available(w)' >= 0
                           /\ Available(w)' >= Available(w)
    BY <2>1, <2>2
  <2> QED BY <1>1, <2>3, CoverStays
<1>2. CASE SettlerNext
  BY <1>1, <1>2, SettlerPosts, PostingStaysCovered
<1>3. CASE ~ TicketNext /\ ~ SettlerNext
  <2>1. UNCHANGED <<status, wallet>>
    BY <1>3 DEF Next, FeedOddsChange, Crash, Tick, vars, ticketVars, moneyVars
  <2> QED BY <1>1, <2>1
<1> QED BY <1>2, <1>3, TicketStepCovered

-----------------------------------------------------------------------------
(* The sums are exact *)

\* The inductive invariant of the money: the books of SettlementProofs, what
\* the sums range over, that every wallet is covered, and the three sums
\* themselves.
MoneyInv ==
  /\ IInv /\ Countable /\ Covered
  /\ OpenLiabilityExact /\ LockedIsOpenStakes /\ LedgerReconciles

\* An empty book has no sums.
LEMMA InitMoney == Init => MoneyInv
<1> SUFFICES ASSUME Init PROVE MoneyInv
  OBVIOUS
<1>1. Countable
  BY FS_EmptySet, TicketAssumption DEF Init, Countable
<1>2. OpenLiabilityExact
  <2>1. {t \in Tickets : status[t] \in OpenStatuses} \cap UsdcTickets = {}
    BY DEF Init, OpenStatuses
  <2> QED BY <2>1, SumEmpty DEF Init, OpenLiabilityExact, Liability
<1>3. ASSUME NEW w \in Wallets
      PROVE  /\ OpenOf(w) = {} /\ RowsOf(w) = {} /\ UnbookedOf(w) = {}
             /\ wallet[w].locked = 0 /\ Available(w) = Opening
  <2>1. OpenOf(w) = {} /\ RowsOf(w) = {}
    BY DEF Init, OpenOf, RowsOf, OpenStatuses
  <2>2. UnbookedOf(w) = {}
    BY DEF Init, UnbookedOf, VoidUnbooked
  <2>3. wallet[w].locked = 0 /\ wallet[w].balance = Opening
    BY DEF Init
  <2> QED BY <2>1, <2>2, <2>3, TicketAssumption DEF Available
<1>4. Stakes({}) = 0 /\ RowSum({}) = 0
  BY SumEmpty DEF Stakes, RowSum
<1>5. LockedIsOpenStakes
  BY <1>3, <1>4 DEF LockedIsOpenStakes, OpenOf
<1>6. LedgerReconciles
  <2>1. Opening \in Int
    BY TicketAssumption
  <2>2. ASSUME NEW w \in Wallets
        PROVE  Available(w) = Opening + RowSum(RowsOf(w)) + Stakes(UnbookedOf(w))
    <3>1. RowSum(RowsOf(w)) = 0 /\ Stakes(UnbookedOf(w)) = 0 /\ Available(w) = Opening
      BY <1>3, <1>4
    <3> QED BY <2>1, <3>1
  <2> QED BY <2>2 DEF LedgerReconciles, RowsOf, UnbookedOf
<1>7. Covered
  <2>1. \A w \in Wallets : Available(w) >= 0
    BY <1>3, TicketAssumption
  <2> QED BY <2>1 DEF Init, Covered
<1> QED BY <1>1, <1>2, <1>5, <1>6, <1>7, InitIInv DEF MoneyInv

\* Every step keeps the sums: it moves wallet and books together.
LEMMA NextMoney == MoneyInv /\ [Next]_vars => MoneyInv'
<1> SUFFICES ASSUME MoneyInv, [Next]_vars PROVE MoneyInv'
  OBVIOUS
<1> USE DEF MoneyInv
<1>1. IInv' /\ Countable' /\ Covered' /\ MoneyStep /\ OpenLiabilityExact'
  BY NextIInv, StepMoney, StepCovered, StepLiability
<1>2. ASSUME NEW w \in Wallets
      PROVE  /\ wallet'[w].locked = Stakes(OpenOf(w)')
             /\ Available(w)' = Opening + RowSum(RowsOf(w)') + Stakes(UnbookedOf(w)')
  <2>1. /\ wallet[w].locked = Stakes(OpenOf(w))
        /\ Available(w) = Opening + RowSum(RowsOf(w)) + Stakes(UnbookedOf(w))
    BY DEF LockedIsOpenStakes, LedgerReconciles, OpenOf, RowsOf, UnbookedOf
  <2>2. /\ RowSum(RowsOf(w)) \in Int /\ Stakes(UnbookedOf(w)) \in Int
        /\ Stakes(OpenOf(w)) \in Int
    BY SumTypes
  <2>3. /\ RowSum(RowsOf(w)') \in Int /\ Stakes(UnbookedOf(w)') \in Int
        /\ Stakes(OpenOf(w)') \in Int
    <3>1. UnbookedOf(w)' \in SUBSET Tickets /\ OpenOf(w)' \in SUBSET Tickets
      BY DEF UnbookedOf, OpenOf
    <3>2. RowsOf(w)' \in SUBSET ledger'
      BY DEF RowsOf
    <3>3. IsFiniteSet(ledger') /\ \A r \in ledger' : r.delta \in Int
      BY <1>1 DEF Countable, IInv, BooksInOrder, LedgerRow
    <3>4. IsFiniteSet(RowsOf(w)') /\ \A r \in RowsOf(w)' : r.delta \in Int
      BY <3>2, <3>3, FS_Subset
    <3> QED BY <3>1, <3>4, StakesType, RowSumType
  <2>4. WalletStep(w)
    BY <1>1 DEF MoneyStep
  <2>5. Opening \in Int
    BY TicketAssumption
  <2> QED BY <2>1, <2>2, <2>3, <2>4, <2>5 DEF WalletStep
<1>3. LockedIsOpenStakes'
  BY <1>2 DEF LockedIsOpenStakes, OpenOf
<1>4. LedgerReconciles'
  BY <1>2 DEF LedgerReconciles, RowsOf, UnbookedOf
<1> QED BY <1>1, <1>3, <1>4

\* The books balance in every reachable state.
THEOREM MoneyInductive == Spec => []MoneyInv
<1> QED BY InitMoney, NextMoney, PTL DEF Spec

\* locked_micro is the stakes of the open tickets, for any interleaving of
\* placements, bet-delay, chunks, cancels, rollbacks and voids.
THEOREM LockedExact == Spec => []LockedIsOpenStakes
<1>1. MoneyInv => LockedIsOpenStakes
  BY DEF MoneyInv
<1> QED BY <1>1, MoneyInductive, PTL

\* What a bettor can spend is the opening balance and the ledger rows posted;
\* the stakes of unbooked voids are the only gap.
THEOREM LedgerExact == Spec => []LedgerReconciles
<1>1. MoneyInv => LedgerReconciles
  BY DEF MoneyInv
<1> QED BY <1>1, MoneyInductive, PTL

\* open_liability_micro is the exposure of the open USDC tickets, so the floor
\* at 0 of its updates never hides an error.
THEOREM LiabilityExact == Spec => []OpenLiabilityExact
<1>1. MoneyInv => OpenLiabilityExact
  BY DEF MoneyInv
<1> QED BY <1>1, MoneyInductive, PTL

\* No wallet is overdrawn, for any interleaving of placements, which lock the
\* stake after they checked it, with settles, cancels and rollbacks.
THEOREM Solvent == Spec => []NeverOverdrawn
<1>1. MoneyInv => NeverOverdrawn
  <2> SUFFICES ASSUME MoneyInv, NEW w \in Wallets
               PROVE  0 <= wallet[w].locked /\ wallet[w].locked <= wallet[w].balance
    BY DEF NeverOverdrawn
  <2> USE DEF MoneyInv
  <2>1. wallet[w].locked = Stakes(OpenOf(w))
    BY DEF LockedIsOpenStakes, OpenOf
  <2>2. Available(w) >= 0
    BY DEF Covered
  <2>3. /\ Stakes(OpenOf(w)) \in Nat
        /\ wallet[w].balance \in Int /\ wallet[w].locked \in Int
    BY SumTypes
  <2> QED BY <2>1, <2>2, <2>3 DEF Available
<1> QED BY <1>1, MoneyInductive, PTL

-----------------------------------------------------------------------------
(* The odds a ticket is paid from *)

\* The settlement service leaves a placement that is not committed alone.
LEMMA SettlerKeepsPlacing ==
  ASSUME IInv, SettlerNext, NEW t \in Tickets, status[t] = "placing"
  PROVE  status'[t] = "placing"
<1>1. ASSUME NEW R, NEW P, Posting(R, P), PostSettlement(R, P)
      PROVE  status'[t] = "placing"
  BY <1>1 DEF Posting, PostSettlement, PostTickets
<1> QED BY <1>1, SettlerPosts

\* What a step does to the odds and the potential payout of a ticket that was
\* committed or is being committed.
LEMMA StepPotential ==
  ASSUME IInv, PotentialMatchesLegs, [Next]_vars
  PROVE  PotentialMatchesLegs'
<1> SUFFICES ASSUME NEW t \in Tickets, status'[t] \in OpenStatuses \cup {"settled"}
             PROVE  potential'[t] \in {Potential(t, odds'[t]), Reprice(t, odds'[t])}
  BY DEF PotentialMatchesLegs
<1>1. /\ status \in [Tickets -> Statuses] /\ potential \in [Tickets -> Nat]
      /\ DOMAIN odds = Tickets
  BY DEF IInv, TicketsTyped
<1>2. CASE odds'[t] = odds[t] /\ potential'[t] = potential[t] /\ status[t] # "placing"
  BY <1>2, StepMoves DEF TicketMove, PotentialMatchesLegs, OpenStatuses
<1>3. CASE TicketNext
  <2>1. PICK u \in Tickets : \/ PlaceValidate(u)
                             \/ \E st \in OpenStatuses : PlaceCommit(u, st)
                             \/ BetDelayAccept(u) /\ status[u] = "pending_delay"
                             \/ BetDelayReprice(u) /\ status[u] = "pending_delay"
                             \/ BetDelayReject(u) /\ status[u] = "pending_delay"
                             \/ AdminVoid(u)
                             \/ LockStep
    BY <1>3, TicketCases
  <2>2. CASE t # u
    <3>1. odds'[t] = odds[t] /\ potential'[t] = potential[t] /\ status'[t] = status[t]
      BY <1>1, <2>1, <2>2 DEF PlaceValidate, PlaceCommit, BetDelayAccept, BetDelayReprice,
                              BetDelayReject, AdminVoid, LockStep, ticketVars
    <3> QED BY <3>1 DEF PotentialMatchesLegs
  <2>3. CASE t = u /\ PlaceValidate(u)
    BY <1>1, <2>3 DEF PlaceValidate, OpenStatuses
  <2>4. ASSUME t = u, NEW st \in OpenStatuses, PlaceCommit(u, st)
        PROVE  potential'[t] = Potential(t, odds'[t])
    BY <1>1, <2>4 DEF PlaceCommit
  <2>5. CASE t = u /\ BetDelayReprice(u)
    <3>1. odds'[t] = hold[t].odds /\ potential'[t] = hold[t].promise
      BY <1>1, <2>5 DEF BetDelayReprice
    <3>2. hold[t].promise = Reprice(t, hold[t].odds)
      BY <2>5 DEF BetDelayReprice, IInv, HoldsOwned
    <3> QED BY <3>1, <3>2
  <2>6. CASE /\ t = u /\ status[u] \in OpenStatuses
             /\ BetDelayAccept(u) \/ BetDelayReject(u) \/ AdminVoid(u)
    <3>1. odds'[t] = odds[t] /\ potential'[t] = potential[t] /\ status[t] # "placing"
      BY <2>6 DEF BetDelayAccept, BetDelayReject, AdminVoid, OpenStatuses
    <3> QED BY <1>2, <3>1
  <2>7. CASE LockStep
    <3>1. odds' = odds /\ potential' = potential /\ status' = status
      BY <2>7 DEF LockStep, ticketVars
    <3> QED BY <3>1 DEF PotentialMatchesLegs
  <2>8. AdminVoid(u) => status[u] = "accepted"
    BY DEF AdminVoid
  <2> QED BY <2>1, <2>2, <2>3, <2>4, <2>5, <2>6, <2>7, <2>8 DEF OpenStatuses
<1>4. CASE SettlerNext
  <2>1. odds' = odds /\ potential' = potential
    <3>1. PICK s \in Settlers :
            \/ ChunkCommit(s)
            \/ \E m \in Markets, win \in CancelWindows : MarketCancel(s, m, win)
            \/ \E m \in Markets, type \in {"rollback_settle", "rollback_cancel"} :
                 MarketRollback(s, m, type)
            \/ odds' = odds /\ potential' = potential
      BY <1>4 DEF SettlerNext, SettlePhase1, ChunkBegin, CloseMatch, TxError, MarketCancelSkip,
                  ReconcileStranded, ReconcileMatchLifecycle, ticketVars
    <3> QED BY <3>1 DEF ChunkCommit, MarketCancel, MarketRollback
  <2>2. status[t] # "placing"
    BY <1>4, SettlerKeepsPlacing DEF OpenStatuses
  <2> QED BY <1>2, <2>1, <2>2
<1>5. CASE ~ TicketNext /\ ~ SettlerNext
  <2>1. odds' = odds /\ potential' = potential /\ status' = status
    BY <1>5 DEF Next, FeedOddsChange, Crash, Tick, vars, ticketVars
  <2> QED BY <2>1 DEF PotentialMatchesLegs
<1> QED BY <1>3, <1>4, <1>5

\* A ticket is paid from the leg odds it stores: placement and the bet-delay
\* re-price build its potential payout from exactly those, and nothing else
\* writes either.
THEOREM PaidFromStoredOdds == Spec => []PotentialMatchesLegs
<1>1. Init => PotentialMatchesLegs
  BY DEF Init, PotentialMatchesLegs, OpenStatuses
<1>2. IInv /\ PotentialMatchesLegs /\ [Next]_vars => PotentialMatchesLegs'
  BY StepPotential
<1> QED BY <1>1, <1>2, Inductive, PTL DEF Spec

-----------------------------------------------------------------------------
(* What a settled ticket paid *)

\* What an open chunk will pay is what the legs of its tickets say, unless a
\* cancel or a rollback has graded them again since it locked their rows.
PlansCurrent ==
  \A s \in Settlers : \A t \in DOMAIN plan[s] \ passedBy :
    Resolved(t, leg[t]) /\ plan[s][t] = Settle(t, leg[t])

LegsInv == PlansCurrent /\ SettledMatchesLegs

\* The step leaves what a ticket is paid from.
SamePay(t) == leg'[t] = leg[t] /\ odds'[t] = odds[t] /\ potential'[t] = potential[t]

\* A ticket is mispaid or not by its row and its legs.
LEMMA PaidRight ==
  ASSUME NEW t
  PROVE  /\ ~ Mispaid(t) <=> (status[t] = "settled" =>
              Resolved(t, leg[t]) /\ payout[t] = Settle(t, leg[t]).payout)
         /\ ~ Mispaid(t)' <=> (status'[t] = "settled" =>
              Resolved(t, leg'[t]) /\ payout'[t] = (Settle(t, leg[t]).payout)')
BY DEF Mispaid, Resolved

\* A step that plans and settles nothing and grades no ticket that is planned or
\* settled, but for the ones it passes by.
LEMMA NothingGraded ==
  ASSUME LegsInv, passedBy \subseteq passedBy',
         \A s \in Settlers : DOMAIN plan'[s] # {} => plan'[s] = plan[s],
         \A s \in Settlers : \A t \in DOMAIN plan'[s] \ passedBy' : SamePay(t),
         \A t \in Tickets \ passedBy' : status'[t] = "settled" =>
           status[t] = "settled" /\ payout'[t] = payout[t] /\ SamePay(t)
  PROVE  LegsInv'
<1>1. PlansCurrent'
  <2> SUFFICES ASSUME NEW s \in Settlers, NEW t \in DOMAIN plan'[s] \ passedBy'
               PROVE  Resolved(t, leg'[t]) /\ plan'[s][t] = Settle(t, leg[t])'
    BY DEF PlansCurrent, Resolved
  <2>1. plan'[s] = plan[s] /\ t \in DOMAIN plan[s] \ passedBy /\ SamePay(t)
    OBVIOUS
  <2>2. Resolved(t, leg[t]) /\ plan[s][t] = Settle(t, leg[t])
    BY <2>1 DEF LegsInv, PlansCurrent
  <2> QED BY <2>1, <2>2 DEF SamePay, Settle
<1>2. SettledMatchesLegs'
  <2> SUFFICES ASSUME NEW t \in Tickets \ passedBy', status'[t] = "settled"
               PROVE  Resolved(t, leg'[t]) /\ payout'[t] = (Settle(t, leg[t]).payout)'
    BY PaidRight DEF SettledMatchesLegs
  <2>1. t \in Tickets \ passedBy /\ status[t] = "settled" /\ payout'[t] = payout[t] /\ SamePay(t)
    OBVIOUS
  <2>2. Resolved(t, leg[t]) /\ payout[t] = Settle(t, leg[t]).payout
    BY <2>1, PaidRight DEF LegsInv, SettledMatchesLegs
  <2> QED BY <2>1, <2>2 DEF SamePay, Settle
<1> QED BY <1>1, <1>2 DEF LegsInv

\* Bettors, the bet-delay worker and the operator re-price no ticket that is
\* accepted.
LEMMA TicketStepLegs ==
  ASSUME IInv, LegsInv, TicketNext
  PROVE  LegsInv'
<1>1. PICK u \in Tickets : \/ PlaceValidate(u)
                           \/ \E st \in OpenStatuses : PlaceCommit(u, st)
                           \/ BetDelayAccept(u) /\ status[u] = "pending_delay"
                           \/ BetDelayReprice(u) /\ status[u] = "pending_delay"
                           \/ BetDelayReject(u) /\ status[u] = "pending_delay"
                           \/ AdminVoid(u)
                           \/ LockStep
  BY TicketCases
<1>2. /\ status \in [Tickets -> Statuses] /\ potential \in [Tickets -> Nat]
      /\ payout \in [Tickets -> Nat] /\ DOMAIN odds = Tickets
  BY DEF IInv, TicketsTyped
<1>3. plan' = plan /\ leg' = leg /\ passedBy' = passedBy
  BY <1>1 DEF PlaceValidate, PlaceCommit, BetDelayAccept, BetDelayReprice, BetDelayReject,
              AdminVoid, LockStep, ticketVars, lockVars
<1>4. ASSUME NEW t \in Tickets, status[t] \in {"accepted", "settled"}
      PROVE  SamePay(t)
  BY <1>1, <1>2, <1>3, <1>4 DEF PlaceValidate, PlaceCommit, BetDelayAccept, BetDelayReprice,
              BetDelayReject, AdminVoid, LockStep, ticketVars, SamePay
<1>5. ASSUME NEW t \in Tickets, status'[t] = "settled"
      PROVE  status[t] = "settled" /\ payout'[t] = payout[t]
  BY <1>1, <1>2, <1>5 DEF PlaceValidate, PlaceCommit, BetDelayAccept, BetDelayReprice,
              BetDelayReject, AdminVoid, LockStep, ticketVars, OpenStatuses
<1>6. ASSUME NEW s \in Settlers, NEW t \in DOMAIN plan'[s]
      PROVE  SamePay(t)
  <2>1. t \in Tickets /\ status[t] = "accepted"
    BY <1>3 DEF IInv, PlansOwned, Jobs
  <2> QED BY <1>4, <2>1
<1> QED BY <1>3, <1>4, <1>5, <1>6, NothingGraded

\* A settle message and the sweep grade open legs only, and a ticket that is
\* settled, or about to be, has none.
LEMMA GradingLegs ==
  ASSUME IInv, LegsInv, NEW s \in Settlers,
         \/ \E m \in Markets, res \in SettlePayloads : SettlePhase1(s, m, res)
         \/ ReconcileStranded(s)
  PROVE  LegsInv'
<1>1. UNCHANGED <<status, payout, odds, potential, plan, passedBy>>
  BY DEF SettlePhase1, ReconcileStranded, lockVars
<1>2. ASSUME NEW t \in Tickets, Resolved(t, leg[t])
      PROVE  leg'[t] = leg[t]
  <2>1. leg[t] \in [LegsOf(t) -> Results \cup {Unresolved}]
    BY DEF IInv, TicketsTyped
  <2>2. \A k \in LegsOf(t) : leg[t][k] # Unresolved
    BY <1>2 DEF Resolved
  <2>3. ASSUME NEW m \in Markets, NEW res \in SettlePayloads, SettlePhase1(s, m, res)
        PROVE  leg'[t] = leg[t]
    <3>1. CASE UNCHANGED leg
      BY <3>1
    <3>2. CASE SettleCascade(m, res)
      <4>1. leg'[t] = [k \in LegsOf(t) |->
                         IF k = m /\ t \in AffectedTickets(m) /\ leg[t][m] = Unresolved
                         THEN res[Picks[t][m]] ELSE leg[t][k]]
        BY <3>2 DEF SettleCascade
      <4>2. \A k \in LegsOf(t) : leg'[t][k] = leg[t][k]
        BY <2>2, <4>1
      <4> QED BY <2>1, <4>1, <4>2
    <3> QED BY <2>3, <3>1, <3>2 DEF SettlePhase1
  <2>4. CASE ReconcileStranded(s)
    <3>1. leg'[t] = [m \in LegsOf(t) |->
                       IF /\ status[t] = "accepted"
                          /\ leg[t][m] = Unresolved
                          /\ marketStatus[m] \in Terminal
                          /\ outcomeResult[m][Picks[t][m]] # Unresolved
                       THEN outcomeResult[m][Picks[t][m]] ELSE leg[t][m]]
      BY <2>4 DEF ReconcileStranded, HealedLegs
    <3>2. leg'[t] = [m \in LegsOf(t) |-> leg[t][m]]
      BY <2>2, <3>1
    <3> QED BY <2>1, <3>2
  <2> QED BY <2>3, <2>4
<1>3. ASSUME NEW x \in Settlers, NEW t \in DOMAIN plan'[x] \ passedBy'
      PROVE  SamePay(t)
  <2>1. t \in Tickets /\ Resolved(t, leg[t])
    BY <1>1 DEF IInv, PlansOwned, Jobs, LegsInv, PlansCurrent
  <2> QED BY <1>1, <1>2, <2>1 DEF SamePay
<1>4. ASSUME NEW t \in Tickets \ passedBy', status'[t] = "settled"
      PROVE  status[t] = "settled" /\ payout'[t] = payout[t] /\ SamePay(t)
  <2>1. Resolved(t, leg[t])
    BY <1>1, <1>4, PaidRight DEF LegsInv, SettledMatchesLegs
  <2> QED BY <1>1, <1>2, <1>4, <2>1 DEF SamePay
<1> QED BY <1>1, <1>3, <1>4, NothingGraded

\* A chunk is planned from the legs as they are, and pays what it planned.
LEMMA ChunkLegs ==
  ASSUME IInv, LegsInv, NEW s \in Settlers,
         (\E C \in SUBSET Tickets : ChunkBegin(s, C)) \/ ChunkCommit(s)
  PROVE  LegsInv'
<1>1. DOMAIN plan = Settlers
  BY DEF IInv, PlansOwned
<1>2. leg' = leg /\ odds' = odds /\ potential' = potential
  BY DEF ChunkBegin, ChunkCommit, ticketVars
<1>3. ASSUME NEW C \in SUBSET Tickets, ChunkBegin(s, C)
      PROVE  LegsInv'
  <2> DEFINE S == {u \in GrabRows(s, C) : status[u] = "accepted" /\ Resolved(u, leg[u])}
             p == [t \in S |-> Settle(t, leg[t])]
  <2>1. /\ plan' = [plan EXCEPT ![s] = p]
        /\ passedBy' = passedBy \ DOMAIN plan'[s] /\ status' = status /\ payout' = payout
    BY <1>3 DEF ChunkBegin, ticketVars
  <2>2. /\ \A t \in DOMAIN p : p[t] = Settle(t, leg[t]) /\ Resolved(t, leg[t])
        /\ \A t \in DOMAIN p : status[t] = "accepted"
        /\ \A x \in Settlers \ {s} : \A t \in DOMAIN p : t \notin job[x].held
    BY DEF GrabRows
  <2> HIDE DEF p
  <2>3. plan'[s] = p /\ \A x \in Settlers \ {s} : plan'[x] = plan[x]
    BY <1>1, <2>1
  <2>4. PlansCurrent'
    <3> SUFFICES ASSUME NEW x \in Settlers, NEW t \in DOMAIN plan'[x] \ passedBy'
                 PROVE  Resolved(t, leg'[t]) /\ plan'[x][t] = Settle(t, leg[t])'
      BY DEF PlansCurrent, Resolved
    <3>1. CASE x = s
      BY <1>2, <2>2, <2>3, <3>1 DEF Settle
    <3>2. CASE x # s
      <4>1. t \in DOMAIN plan[x] /\ plan'[x] = plan[x] /\ t \notin DOMAIN p
        BY <2>2, <2>3, <3>2 DEF IInv, PlansOwned
      <4>2. t \notin passedBy
        BY <2>1, <2>3, <4>1
      <4>3. Resolved(t, leg[t]) /\ plan[x][t] = Settle(t, leg[t])
        BY <4>1, <4>2 DEF LegsInv, PlansCurrent
      <4> QED BY <1>2, <4>1, <4>3 DEF Settle
    <3> QED BY <3>1, <3>2
  <2>5. SettledMatchesLegs'
    <3> SUFFICES ASSUME NEW t \in Tickets \ passedBy', status'[t] = "settled"
                 PROVE  Resolved(t, leg'[t]) /\ payout'[t] = (Settle(t, leg[t]).payout)'
      BY PaidRight DEF SettledMatchesLegs
    <3>1. status[t] = "settled" /\ t \notin passedBy
      BY <2>1, <2>2, <2>3
    <3>2. Resolved(t, leg[t]) /\ payout[t] = Settle(t, leg[t]).payout
      BY <3>1, PaidRight DEF LegsInv, SettledMatchesLegs
    <3> QED BY <1>2, <2>1, <3>2 DEF Settle
  <2> QED BY <2>4, <2>5 DEF LegsInv
<1>4. CASE ChunkCommit(s)
  <2>1. /\ PostTickets({}, plan[s]) /\ plan' = [plan EXCEPT ![s] = NoSettles]
        /\ passedBy' = passedBy
    BY <1>4 DEF ChunkCommit, PostSettlement, lockVars
  <2>2. PlansCurrent'
    <3> SUFFICES ASSUME NEW x \in Settlers, NEW t \in DOMAIN plan'[x] \ passedBy'
                 PROVE  Resolved(t, leg'[t]) /\ plan'[x][t] = Settle(t, leg[t])'
      BY DEF PlansCurrent, Resolved
    <3>1. t \in DOMAIN plan[x] \ passedBy /\ plan'[x] = plan[x]
      BY <1>1, <2>1 DEF NoSettles
    <3>2. Resolved(t, leg[t]) /\ plan[x][t] = Settle(t, leg[t])
      BY <3>1 DEF LegsInv, PlansCurrent
    <3> QED BY <1>2, <3>1, <3>2 DEF Settle
  <2>3. ASSUME NEW t \in Tickets \ passedBy, status'[t] = "settled"
        PROVE  Resolved(t, leg'[t]) /\ payout'[t] = Settle(t, leg[t]).payout
    <3>1. CASE t \in DOMAIN plan[s]
      <4>1. payout'[t] = plan[s][t].payout
        BY <2>1, <3>1 DEF PostTickets
      <4> QED BY <1>2, <3>1, <4>1 DEF LegsInv, PlansCurrent
    <3>2. CASE t \notin DOMAIN plan[s]
      <4>1. status[t] = "settled" /\ payout'[t] = payout[t]
        BY <2>1, <2>3, <3>2 DEF PostTickets
      <4> QED BY <1>2, <4>1, PaidRight DEF LegsInv, SettledMatchesLegs
    <3> QED BY <3>1, <3>2
  <2>4. SettledMatchesLegs'
    <3> SUFFICES ASSUME NEW t \in Tickets \ passedBy', status'[t] = "settled"
                 PROVE  Resolved(t, leg'[t]) /\ payout'[t] = (Settle(t, leg[t]).payout)'
      BY PaidRight DEF SettledMatchesLegs
    <3> QED BY <1>2, <2>1, <2>3 DEF Settle
  <2> QED BY <2>2, <2>4 DEF LegsInv
<1> QED BY <1>3, <1>4

\* A cancel and a rollback settle again, or open again, every settled ticket
\* whose legs they change and whose row they can lock; the others they pass by.
LEMMA RegradeLegs ==
  ASSUME IInv, LegsInv, NEW s \in Settlers, NEW m \in Markets,
         \/ \E win \in CancelWindows : MarketCancel(s, m, win)
         \/ \E type \in {"rollback_settle", "rollback_cancel"} : MarketRollback(s, m, type)
  PROVE  LegsInv'
<1>1. plan' = plan /\ odds' = odds /\ potential' = potential
  BY DEF MarketCancel, MarketRollback
<1>2. PICK S, legs, undo, P :
        /\ S \subseteq Tickets /\ leg' = legs /\ \A t \in Tickets \ S : legs[t] = leg[t]
        /\ undo = {t \in S : status[t] = "settled" /\ t \notin LockedRows}
        /\ DOMAIN P \cap LockedRows = {}
        /\ \A t \in DOMAIN P : Resolved(t, legs[t]) /\ P[t] = Settle(t, legs[t])
        /\ PostTickets(undo, P)
        /\ passedBy' = PassedBy(S, legs, undo \cup DOMAIN P)
  <2>1. ASSUME NEW win \in CancelWindows, MarketCancel(s, m, win)
        PROVE  \E S, legs, undo, P :
                 /\ S \subseteq Tickets /\ leg' = legs /\ \A t \in Tickets \ S : legs[t] = leg[t]
                 /\ undo = {t \in S : status[t] = "settled" /\ t \notin LockedRows}
                 /\ DOMAIN P \cap LockedRows = {}
                 /\ \A t \in DOMAIN P : Resolved(t, legs[t]) /\ P[t] = Settle(t, legs[t])
                 /\ PostTickets(undo, P)
                 /\ passedBy' = PassedBy(S, legs, undo \cup DOMAIN P)
    <3> DEFINE hit == {u \in AffectedTickets(m) : InWindow(u, win)}
               legs == VoidLegs(hit, m)
               undo == {u \in hit : status[u] = "settled" /\ u \notin LockedRows}
               redo == {u \in hit : /\ u \notin LockedRows
                                    /\ status[u] \in {"accepted", "settled"}
                                    /\ Resolved(u, legs[u])}
               P == [u \in redo |-> Settle(u, legs[u])]
    <3>1. /\ PostTickets(undo, P) /\ leg' = legs
          /\ passedBy' = PassedBy(hit, legs, undo \cup redo)
      BY <2>1 DEF MarketCancel, PostSettlement
    <3>2. hit \subseteq Tickets /\ \A t \in Tickets \ hit : legs[t] = leg[t]
      BY DEF AffectedTickets, VoidLegs
    <3>3. /\ DOMAIN P = redo /\ redo \cap LockedRows = {}
          /\ \A t \in redo : Resolved(t, legs[t]) /\ P[t] = Settle(t, legs[t])
      OBVIOUS
    <3>4. undo = {t \in hit : status[t] = "settled" /\ t \notin LockedRows}
      OBVIOUS
    <3> HIDE DEF hit, legs, undo, redo, P
    <3> QED BY <3>1, <3>2, <3>3, <3>4
  <2>2. ASSUME NEW type, MarketRollback(s, m, type)
        PROVE  \E S, legs, undo, P :
                 /\ S \subseteq Tickets /\ leg' = legs /\ \A t \in Tickets \ S : legs[t] = leg[t]
                 /\ undo = {t \in S : status[t] = "settled" /\ t \notin LockedRows}
                 /\ DOMAIN P \cap LockedRows = {}
                 /\ \A t \in DOMAIN P : Resolved(t, legs[t]) /\ P[t] = Settle(t, legs[t])
                 /\ PostTickets(undo, P)
                 /\ passedBy' = PassedBy(S, legs, undo \cup DOMAIN P)
    <3> DEFINE S == AffectedTickets(m)
               undo == {t \in S : status[t] = "settled" /\ t \notin LockedRows}
    <3>1. /\ PostTickets(undo, NoSettles) /\ leg' = OpenLegs(m)
          /\ passedBy' = PassedBy(S, OpenLegs(m), undo)
      BY <2>2 DEF MarketRollback, PostSettlement
    <3>2. S \subseteq Tickets /\ \A t \in Tickets \ S : OpenLegs(m)[t] = leg[t]
      BY DEF AffectedTickets, OpenLegs
    <3>3. DOMAIN NoSettles = {} /\ undo \cup {} = undo
      BY DEF NoSettles
    <3>4. undo = {t \in S : status[t] = "settled" /\ t \notin LockedRows}
      OBVIOUS
    <3> HIDE DEF S, undo
    <3>5. /\ S \subseteq Tickets /\ leg' = OpenLegs(m) /\ \A t \in Tickets \ S : OpenLegs(m)[t] = leg[t]
          /\ undo = {t \in S : status[t] = "settled" /\ t \notin LockedRows}
          /\ DOMAIN NoSettles \cap LockedRows = {}
          /\ \A t \in DOMAIN NoSettles :
               Resolved(t, OpenLegs(m)[t]) /\ NoSettles[t] = Settle(t, OpenLegs(m)[t])
          /\ PostTickets(undo, NoSettles)
          /\ passedBy' = PassedBy(S, OpenLegs(m), undo \cup DOMAIN NoSettles)
      BY <3>1, <3>2, <3>3, <3>4
    <3> QED BY <3>5
  <2> QED BY <2>1, <2>2
<1>3. ASSUME NEW t \in Tickets \ passedBy', t \notin undo \cup DOMAIN P,
             status[t] = "settled" \/ t \in LockedRows
      PROVE  t \notin passedBy /\ leg'[t] = leg[t]
  BY <1>2, <1>3 DEF PassedBy
<1>4. PlansCurrent'
  <2> SUFFICES ASSUME NEW x \in Settlers, NEW t \in DOMAIN plan'[x] \ passedBy'
               PROVE  Resolved(t, leg'[t]) /\ plan'[x][t] = Settle(t, leg[t])'
    BY DEF PlansCurrent, Resolved
  <2>1. t \in Tickets /\ t \in LockedRows /\ t \in DOMAIN plan[x]
    BY <1>1 DEF IInv, PlansOwned, Jobs, LockedRows
  <2>2. t \notin passedBy /\ leg'[t] = leg[t]
    BY <1>2, <1>3, <2>1
  <2>3. Resolved(t, leg[t]) /\ plan[x][t] = Settle(t, leg[t])
    BY <2>1, <2>2 DEF LegsInv, PlansCurrent
  <2> QED BY <1>1, <2>2, <2>3 DEF Settle
<1>5. SettledMatchesLegs'
  <2> SUFFICES ASSUME NEW t \in Tickets \ passedBy', status'[t] = "settled"
               PROVE  Resolved(t, leg'[t]) /\ payout'[t] = (Settle(t, leg[t]).payout)'
    BY PaidRight DEF SettledMatchesLegs
  <2>1. CASE t \in DOMAIN P
    <3>1. payout'[t] = P[t].payout /\ P[t] = Settle(t, leg'[t]) /\ Resolved(t, leg'[t])
      BY <1>2, <2>1 DEF PostTickets
    <3> QED BY <1>1, <3>1 DEF Settle
  <2>2. CASE t \notin DOMAIN P
    <3>1. t \notin undo /\ status[t] = "settled" /\ payout'[t] = payout[t]
      BY <1>2, <2>2 DEF PostTickets
    <3>2. t \notin passedBy /\ leg'[t] = leg[t]
      BY <1>3, <2>2, <3>1
    <3>3. Resolved(t, leg[t]) /\ payout[t] = Settle(t, leg[t]).payout
      BY <3>1, <3>2, PaidRight DEF LegsInv, SettledMatchesLegs
    <3> QED BY <1>1, <3>1, <3>2, <3>3 DEF Settle
  <2> QED BY <2>1, <2>2
<1> QED BY <1>4, <1>5 DEF LegsInv

\* Every step.
LEMMA StepLegs ==
  ASSUME IInv, LegsInv, [Next]_vars
  PROVE  LegsInv'
<1>1. CASE TicketNext
  BY <1>1, TicketStepLegs
<1>2. ASSUME UNCHANGED ticketVars, passedBy' = passedBy,
             \A s \in Settlers : plan'[s] = plan[s] \/ DOMAIN plan'[s] = {}
      PROVE  LegsInv'
  BY <1>2, NothingGraded DEF ticketVars, SamePay
<1>3. CASE SettlerNext
  <2>1. PICK s \in Settlers :
          \/ \E m \in Markets, res \in SettlePayloads : SettlePhase1(s, m, res)
          \/ \E C \in SUBSET Tickets : ChunkBegin(s, C)
          \/ ChunkCommit(s)
          \/ \E m \in Markets, win \in CancelWindows : MarketCancel(s, m, win)
          \/ \E m \in Markets, type \in {"rollback_settle", "rollback_cancel"} :
               MarketRollback(s, m, type)
          \/ ReconcileStranded(s)
          \/ /\ UNCHANGED ticketVars /\ passedBy' = passedBy
             /\ plan' = plan \/ plan' = [plan EXCEPT ![s] = NoSettles]
    BY <1>3 DEF SettlerNext, CloseMatch, TxError, MarketCancelSkip, ReconcileMatchLifecycle, lockVars
  <2>2. CASE /\ UNCHANGED ticketVars /\ passedBy' = passedBy
             /\ plan' = plan \/ plan' = [plan EXCEPT ![s] = NoSettles]
    <3>1. \A x \in Settlers : plan'[x] = plan[x] \/ DOMAIN plan'[x] = {}
      BY <2>2 DEF IInv, PlansOwned, NoSettles
    <3> QED BY <1>2, <2>2, <3>1
  <2> QED BY <2>1, <2>2, GradingLegs, ChunkLegs, RegradeLegs
<1>4. CASE ~ TicketNext /\ ~ SettlerNext
  <2>1. /\ UNCHANGED ticketVars /\ passedBy' = passedBy
        /\ plan' = plan \/ plan' = [s \in Settlers |-> NoSettles]
    BY <1>4 DEF Next, FeedOddsChange, Crash, Tick, vars, lockVars
  <2>2. \A x \in Settlers : plan'[x] = plan[x] \/ DOMAIN plan'[x] = {}
    BY <2>1 DEF NoSettles
  <2> QED BY <1>2, <2>1, <2>2
<1> QED BY <1>1, <1>3, <1>4

\* A settled ticket has paid what its legs say, through every sequence of
\* settles, cancels with any window, rollbacks, failed transactions and crashes
\* of any number of settlers, the sweep among them, with the operator's void in
\* between. The only ones that may not have are those whose row was locked when
\* a cancel or a rollback changed their legs.
THEOREM PaidWhatLegsSay == Spec => []SettledMatchesLegs
<1>1. Init => LegsInv
  BY DEF Init, LegsInv, PlansCurrent, SettledMatchesLegs, Mispaid, NoSettles
<1>2. IInv /\ LegsInv /\ [Next]_vars => LegsInv'
  BY StepLegs
<1>3. LegsInv => SettledMatchesLegs
  BY DEF LegsInv
<1> QED BY <1>1, <1>2, <1>3, Inductive, PTL DEF Spec

-----------------------------------------------------------------------------
(* The account of every ticket *)

Net(t) == RowSum(TicketRows(t))

\* What an open and a settled ticket stand at.
AccountExact(t) ==
  /\ status[t] \in OpenStatuses => Net(t) = - Stake[t]
  /\ status[t] = "settled" => Net(t) = payout[t] - Stake[t]

AccountInv == IInv /\ Countable /\ \A t \in Tickets : AccountExact(t)

AccountStill(t) == UNCHANGED <<Phase(t), payout[t], RowSum(TicketRows(t)), FirstCredit(t)>>

\* The phase of a status, before a step and after it.
LEMMA PhaseOf ==
  ASSUME NEW t
  PROVE  /\ status[t] \in {"absent", "placing"} => Phase(t) = "none"
         /\ status[t] \in OpenStatuses => Phase(t) = "open"
         /\ status[t] = "settled" => Phase(t) = "paid"
         /\ status[t] \in {"rejected", "voided", "cashed_out"} => Phase(t) = "ended"
         /\ status'[t] \in {"absent", "placing"} => Phase(t)' = "none"
         /\ status'[t] \in OpenStatuses => Phase(t)' = "open"
         /\ status'[t] = "settled" => Phase(t)' = "paid"
         /\ status'[t] \in {"rejected", "voided", "cashed_out"} => Phase(t)' = "ended"
BY DEF Phase, OpenStatuses

\* Rows of a ticket's own move its account by what they hold.
LEMMA NetGrows ==
  ASSUME IInv, Countable, NEW t \in Tickets, NEW N \in SUBSET LedgerRow, IsFiniteSet(N),
         N \cap ledger = {}, TicketRows(t)' = TicketRows(t) \cup N
  PROVE  /\ Net(t) \in Int /\ RowSum(N) \in Int
         /\ RowSum(TicketRows(t)') = Net(t) + RowSum(N)
<1>1. TicketRows(t) \in SUBSET ledger /\ ledger \subseteq LedgerRow
  BY DEF TicketRows, IInv, BooksInOrder
<1>2. IsFiniteSet(TicketRows(t)) /\ TicketRows(t) \cap N = {}
  BY <1>1, FS_Subset DEF Countable
<1>3. \A r \in TicketRows(t) \cup N : r.delta \in Int
  BY <1>1 DEF LedgerRow
<1> QED BY <1>2, <1>3, RowSumUnion, RowSumType DEF Net

\* A step that posts no row of a ticket and leaves its phase and its payout.
LEMMA StillAccount ==
  ASSUME NEW t, Phase(t)' = Phase(t), payout'[t] = payout[t],
         \A r : r.ticket = t => (r \in ledger' <=> r \in ledger)
  PROVE  AccountStill(t)
<1>1. TicketRows(t)' = TicketRows(t)
  BY DEF TicketRows
<1>2. CreditRows(ledger', t) = CreditRows(ledger, t)
  BY DEF CreditRows
<1>3. FirstCredit(t)' = FirstCredit(t)
  BY <1>2 DEF FirstCredit, BareCredit
<1> QED BY <1>1, <1>3 DEF AccountStill

\* The second half of POST /bets: the first row of the ticket is its stake.
LEMMA EnterAccount ==
  ASSUME IInv, Countable, NEW t \in Tickets, NEW st \in OpenStatuses, PlaceCommit(t, st)
  PROVE  Account(t)!Next
<1> DEFINE row == Row("bet_stake", t, 1, - Stake[t])
<1>1. /\ status[t] = "placing" /\ status' = [status EXCEPT ![t] = st] /\ payout' = payout
      /\ ledger' = ledger \cup InsertUnlessExists(ledger, row)
  BY DEF PlaceCommit
<1>2. /\ row \in LedgerRow /\ row.ticket = t /\ row.delta = - Stake[t] /\ row.delta \in Int
      /\ row.type = "bet_stake"
  BY TicketAssumption DEF Row, LedgerRow
<1>3. \A r \in ledger : r.ticket # t
  BY <1>1 DEF Countable
<1> HIDE DEF row
<1>4. InsertUnlessExists(ledger, row) = {row}
  BY <1>2, <1>3 DEF InsertUnlessExists
<1>5. TicketRows(t)' = {row}
  BY <1>1, <1>2, <1>3, <1>4 DEF TicketRows
<1>6. RowSum(TicketRows(t)') = - Stake[t]
  BY <1>2, <1>5, RowSumOne
<1>7. CreditRows(ledger', t) = CreditRows(ledger, t)
  BY <1>1, <1>2, <1>4 DEF CreditRows, CreditTypes
<1>8. FirstCredit(t)' = FirstCredit(t)
  BY <1>7 DEF FirstCredit, BareCredit
<1>9. Phase(t) = "none" /\ Phase(t)' = "open"
  <2>1. status'[t] = st
    BY <1>1 DEF IInv, TicketsTyped
  <2> QED BY <1>1, <2>1, PhaseOf
<1> QED BY <1>1, <1>6, <1>8, <1>9 DEF Account!Next, Account!Enter

\* A rejected or voided ticket: the stake goes back under the bare ticket id,
\* or is lost to a refund that was taken back.
LEMMA ReturnAccount ==
  ASSUME IInv, Countable, NEW t \in Tickets, AccountExact(t), NEW st,
         \/ status[t] = "pending_delay" /\ st = "rejected"
         \/ status[t] = "accepted" /\ st = "voided",
         status' = [status EXCEPT ![t] = st], RefundStake(t),
         payout'[t] \in {payout[t], Stake[t]}
  PROVE  Account(t)!Next
<1> DEFINE row == Row("bet_refund", t, 1, Stake[t])
           N == InsertUnlessExists(ledger, row)
<1>1. ledger' = ledger \cup N
  BY DEF RefundStake
<1>2. /\ row \in LedgerRow /\ row.ticket = t /\ row.delta = Stake[t] /\ row.delta \in Int
      /\ row.type = "bet_refund" /\ row.gen = 1
  BY TicketAssumption DEF Row, LedgerRow, CreditTypes
<1>3. /\ TicketBooks(ledger, t, status[t], payout[t]) /\ status \in [Tickets -> Statuses]
  BY DEF IInv, BooksInOrder, TicketsTyped
<1>4. Phase(t) = "open" /\ Phase(t)' = "ended"
  BY <1>3, PhaseOf DEF OpenStatuses
<1>5. Net(t) = - Stake[t] /\ Stake[t] \in Int
  BY TicketAssumption DEF AccountExact, OpenStatuses
<1>6. N \subseteq {row} /\ N \cap ledger = {} /\ IsFiniteSet(N)
  BY InsertIsNew
<1> HIDE DEF row
<1>7. N \in SUBSET LedgerRow /\ TicketRows(t)' = TicketRows(t) \cup N
  BY <1>1, <1>2, <1>6 DEF TicketRows
<1>8. CASE BareCredit(t, "bet_refund")
  <2>1. N = {}
    BY <1>2, <1>8 DEF InsertUnlessExists, BareCredit, CreditRows
  <2>2. ledger' = ledger
    BY <1>1, <2>1
  <2>3. ~ BareCredit(t, "bet_payout")
    BY <1>3, <1>8 DEF BareCredit, TicketBooks
  <2>4. FirstCredit(t) = "bet_refund" /\ FirstCredit(t)' = FirstCredit(t)
    BY <1>8, <2>2, <2>3 DEF FirstCredit, BareCredit
  <2>5. RowSum(TicketRows(t)') = - Stake[t]
    BY <1>5, <2>2 DEF Net, TicketRows
  <2> QED BY <1>4, <2>4, <2>5 DEF Account!Next, Account!Return
<1>9. CASE ~ BareCredit(t, "bet_refund")
  <2>1. N = {row}
    BY <1>2, <1>9 DEF InsertUnlessExists, BareCredit, CreditRows, CreditTypes
  <2>2. CreditRows(ledger', t) = CreditRows(ledger, t) \cup {row}
    BY <1>1, <1>2, <2>1 DEF CreditRows, CreditTypes
  <2>3. BareCredit(t, "bet_refund")' /\ (BareCredit(t, "bet_payout")' <=> BareCredit(t, "bet_payout"))
    BY <1>2, <2>2 DEF BareCredit
  <2>4. /\ FirstCredit(t) # "bet_refund"
        /\ FirstCredit(t)' = IF FirstCredit(t) = "none" THEN "bet_refund" ELSE FirstCredit(t)
    BY <1>9, <2>3 DEF FirstCredit
  <2>5. RowSum(N) = Stake[t]
    BY <1>2, <2>1, RowSumOne
  <2>6. RowSum(TicketRows(t)') = Net(t) + RowSum(N)
    <3> HIDE DEF N
    <3> QED BY <1>6, <1>7, NetGrows
  <2>7. RowSum(TicketRows(t)') = 0
    BY <1>5, <2>5, <2>6
  <2> QED BY <1>4, <2>4, <2>7 DEF Account!Next, Account!Return
<1> QED BY <1>8, <1>9

\* A reversal leaves the credits alone, and a settle takes the bare ticket id
\* only if no credit holds it.
LEMMA SettleFirst ==
  ASSUME IInv, NEW t \in Tickets, NEW p \in Payouts, status[t] \in {"accepted", "settled"},
         CreditRows(ledger', t) = CreditRows(ledger, t) \cup SettleRows(t, p)
  PROVE  FirstCredit(t)' = IF FirstCredit(t) = "none" /\ p.payout > 0 THEN p.type ELSE FirstCredit(t)
<1> DEFINE row == Row(p.type, t, NextPayoutGen(ledger, t, p.type), p.payout)
<1>1. ledger \in SUBSET LedgerRow /\ TicketBooks(ledger, t, status[t], payout[t])
  BY DEF IInv, BooksInOrder
<1>2. p.payout \in Nat /\ p.type \in CreditTypes
  BY DEF Payouts
<1>3. /\ p.payout > 0 => SettleRows(t, p) = {row}
      /\ p.payout = 0 => SettleRows(t, p) = {}
  BY <1>1, SettleRowsShape
<1>4. row.type = p.type /\ row.gen = Cardinality(CreditRows(ledger, t)) + 1
  BY DEF Row, NextPayoutGen
<1>5. FirstCredit(t) = "none" <=> CreditRows(ledger, t) = {}
  <2>1. ASSUME CreditRows(ledger, t) # {} PROVE FirstCredit(t) # "none"
    <3>1. PICK c \in CreditRows(ledger, t) : c.gen = 1
      BY <1>1, <2>1, FirstGeneration
    <3>2. c.type \in {"bet_payout", "bet_refund"}
      BY <3>1 DEF CreditRows, CreditTypes
    <3> QED BY <3>1, <3>2 DEF FirstCredit, BareCredit
  <2>2. ASSUME CreditRows(ledger, t) = {} PROVE FirstCredit(t) = "none"
    BY <2>2 DEF FirstCredit, BareCredit
  <2> QED BY <2>1, <2>2
<1> HIDE DEF row
<1>6. CASE p.payout = 0
  <2>1. CreditRows(ledger', t) = CreditRows(ledger, t)
    BY <1>3, <1>6
  <2>2. FirstCredit(t)' = FirstCredit(t)
    BY <2>1 DEF FirstCredit, BareCredit
  <2> QED BY <1>6, <2>2
<1>7. CASE p.payout > 0 /\ CreditRows(ledger, t) = {}
  <2>1. CreditRows(ledger', t) = {row} /\ row.gen = 1
    BY <1>3, <1>4, <1>7, FS_EmptySet
  <2>2. FirstCredit(t)' = p.type
    BY <1>2, <1>4, <2>1 DEF FirstCredit, BareCredit, CreditTypes
  <2> QED BY <1>5, <1>7, <2>2
<1>8. CASE p.payout > 0 /\ CreditRows(ledger, t) # {}
  <2>1. Cardinality(CreditRows(ledger, t)) \in Nat /\ Cardinality(CreditRows(ledger, t)) # 0
    BY <1>1, <1>8, FS_CardinalityType, FS_EmptySet DEF TicketBooks
  <2>2. row.gen # 1 /\ CreditRows(ledger', t) = CreditRows(ledger, t) \cup {row}
    BY <1>3, <1>4, <1>8, <2>1
  <2>3. FirstCredit(t)' = FirstCredit(t)
    BY <2>2 DEF FirstCredit, BareCredit
  <2> QED BY <1>5, <1>8, <2>3
<1> QED BY <1>2, <1>6, <1>7, <1>8

\* What a settlement transaction posts of one ticket.
LEMMA PostedRows ==
  ASSUME IInv, NEW R, NEW P, Posting(R, P), ledger' = PostLedger(R, P), NEW t \in Tickets
  PROVE  TicketRows(t)' = TicketRows(t) \cup ((IF t \in R THEN ReverseRows(t) ELSE {})
                                   \cup (IF t \in DOMAIN P THEN SettleRows(t, P[t]) ELSE {}))
<1>1. \A u \in R : \A r \in ReverseRows(u) : r.ticket = u
  BY ReverseRowsSum DEF Posting
<1>2. \A u \in DOMAIN P : \A r \in SettleRows(u, P[u]) : r.ticket = u
  <2> SUFFICES ASSUME NEW u \in DOMAIN P PROVE \A r \in SettleRows(u, P[u]) : r.ticket = u
    OBVIOUS
  <2>1. u \in Tickets /\ P[u] \in Payouts /\ status[u] \in {"accepted", "settled"}
    BY DEF Posting
  <2> QED BY <2>1, SettleRowsSum
<1>3. ASSUME NEW r, r.ticket = t
      PROVE  r \in ledger' <=> \/ r \in ledger
                               \/ t \in R /\ r \in ReverseRows(t)
                               \/ t \in DOMAIN P /\ r \in SettleRows(t, P[t])
  BY <1>1, <1>2, <1>3 DEF PostLedger
<1> QED BY <1>1, <1>2, <1>3 DEF TicketRows

\* A settlement transaction takes a ticket's payout back, pays it, or both; the
\* tickets it does not name keep their accounts.
LEMMA PostingAccount ==
  ASSUME IInv, Countable, NEW R, NEW P, Posting(R, P), PostTickets(R, P),
         ledger' = PostLedger(R, P), NEW t \in Tickets, AccountExact(t)
  PROVE  Account(t)!Next \/ AccountStill(t)
<1> DEFINE A == IF t \in R THEN ReverseRows(t) ELSE {}
           B == IF t \in DOMAIN P THEN SettleRows(t, P[t]) ELSE {}
           won == IF t \in DOMAIN P THEN P[t].payout ELSE 0
           back == IF t \in R THEN payout[t] ELSE 0
<1>1. /\ status'[t] = IF t \in DOMAIN P THEN "settled" ELSE IF t \in R THEN "accepted" ELSE status[t]
      /\ payout'[t] = IF t \in DOMAIN P THEN P[t].payout ELSE IF t \in R THEN 0 ELSE payout[t]
  BY DEF PostTickets
<1>2. TicketRows(t)' = TicketRows(t) \cup (A \cup B)
  BY PostedRows
<1>3. payout[t] \in Nat /\ Stake[t] \in Int /\ RowSum({}) = 0 /\ IsFiniteSet({})
  BY TicketAssumption, SumEmpty, FS_EmptySet DEF IInv, TicketsTyped, RowSum
<1>4. t \in DOMAIN P => P[t] \in Payouts /\ P[t].payout \in Nat /\ P[t].type \in CreditTypes
  BY DEF Posting, Payouts
<1>5. /\ A \subseteq LedgerRow /\ IsFiniteSet(A) /\ A \cap ledger = {} /\ RowSum(A) = - back
      /\ \A r \in A : r.type = "adjustment" /\ r.ticket = t
  <2>1. CASE t \in R
    BY <2>1, ReverseRowsSum DEF Posting
  <2>2. CASE t \notin R
    BY <1>3, <2>2
  <2> QED BY <2>1, <2>2
<1>6. /\ B \subseteq LedgerRow /\ IsFiniteSet(B) /\ B \cap ledger = {} /\ RowSum(B) = won
      /\ \A r \in B : r.type \in CreditTypes /\ r.ticket = t
  <2>1. CASE t \in DOMAIN P
    <3>1. status[t] \in {"accepted", "settled"}
      BY <2>1 DEF Posting
    <3> QED BY <1>4, <2>1, <3>1, SettleRowsSum
  <2>2. CASE t \notin DOMAIN P
    BY <1>3, <2>2
  <2> QED BY <2>1, <2>2
<1>7. back \in Int /\ won \in Int
  BY <1>3, <1>4
<1>8. CreditRows(ledger', t) = CreditRows(ledger, t) \cup B
  <2> HIDE DEF A, B
  <2>1. \A r : r \in TicketRows(t)' <=> r \in ledger' /\ r.ticket = t
    BY DEF TicketRows
  <2>2. \A r : r \in TicketRows(t) <=> r \in ledger /\ r.ticket = t
    BY DEF TicketRows
  <2> QED BY <1>2, <1>5, <1>6, <2>1, <2>2 DEF CreditRows, CreditTypes
<1> HIDE DEF A, B, back, won
<1>9. RowSum(A \cup B) = won - back
  <2>1. A \cap B = {} /\ \A r \in A \cup B : r.delta \in Int
    BY <1>5, <1>6 DEF CreditTypes, LedgerRow
  <2>2. RowSum(A \cup B) = RowSum(A) + RowSum(B)
    BY <1>5, <1>6, <2>1, RowSumUnion
  <2> QED BY <1>5, <1>6, <1>7, <2>2
<1>10. Net(t) \in Int /\ RowSum(TicketRows(t)') = Net(t) + (won - back)
  <2>1. /\ A \cup B \in SUBSET LedgerRow /\ IsFiniteSet(A \cup B)
        /\ (A \cup B) \cap ledger = {}
    BY <1>5, <1>6, FS_Union
  <2>2. RowSum(TicketRows(t)') = Net(t) + RowSum(A \cup B) /\ Net(t) \in Int
    BY <1>2, <2>1, NetGrows
  <2> QED BY <1>9, <2>2
<1>11. t \in R \cup DOMAIN P => Net(t) = back - Stake[t]
  <2>1. CASE t \in R
    BY <1>3, <2>1 DEF Posting, AccountExact, back
  <2>2. CASE t \in DOMAIN P /\ t \notin R
    BY <1>3, <2>2 DEF Posting, AccountExact, back, OpenStatuses
  <2> QED BY <2>1, <2>2
<1>12. t \in R \cup DOMAIN P => RowSum(TicketRows(t)') = won - Stake[t]
  BY <1>3, <1>7, <1>10, <1>11
<1>13. CASE t \in DOMAIN P
  <2>1. status[t] \in {"accepted", "settled"}
    BY <1>13 DEF Posting
  <2>2. Phase(t) \in {"open", "paid"} /\ Phase(t)' = "paid"
    BY <1>1, <1>13, <2>1, PhaseOf DEF OpenStatuses
  <2>3. FirstCredit(t)' = IF FirstCredit(t) = "none" /\ P[t].payout > 0 THEN P[t].type ELSE FirstCredit(t)
    <3>1. CreditRows(ledger', t) = CreditRows(ledger, t) \cup SettleRows(t, P[t])
      BY <1>8, <1>13 DEF B
    <3> QED BY <1>4, <1>13, <2>1, <3>1, SettleFirst
  <2>4. payout'[t] = P[t].payout /\ RowSum(TicketRows(t)') = payout'[t] - Stake[t]
    BY <1>1, <1>12, <1>13 DEF won
  <2>5. Account(t)!Pay(P[t].type)
    BY <1>4, <1>13, <2>2, <2>3, <2>4 DEF Account!Pay
  <2> QED BY <1>4, <1>13, <2>5 DEF Account!Next, CreditTypes
<1>14. CASE t \in R /\ t \notin DOMAIN P
  <2>1. Phase(t) = "paid" /\ Phase(t)' = "open"
    BY <1>1, <1>14, PhaseOf DEF Posting, OpenStatuses
  <2>2. CreditRows(ledger', t) = CreditRows(ledger, t)
    BY <1>8, <1>14 DEF B
  <2>3. FirstCredit(t)' = FirstCredit(t)
    BY <2>2 DEF FirstCredit, BareCredit
  <2>4. payout'[t] = 0 /\ RowSum(TicketRows(t)') = - Stake[t]
    BY <1>1, <1>3, <1>12, <1>14 DEF won
  <2> QED BY <2>1, <2>3, <2>4 DEF Account!Next, Account!TakeBack
<1>15. CASE t \notin R /\ t \notin DOMAIN P
  <2>1. TicketRows(t)' = TicketRows(t)
    BY <1>2, <1>15 DEF A, B
  <2>2. Phase(t)' = Phase(t)
    BY <1>1, <1>15 DEF Phase
  <2>3. \A r : r.ticket = t => (r \in ledger' <=> r \in ledger)
    BY <2>1 DEF TicketRows
  <2> QED BY <1>1, <1>15, <2>2, <2>3, StillAccount
<1> QED BY <1>13, <1>14, <1>15

\* A step of a bettor, the bet-delay worker or the operator.
LEMMA TicketStepAccount ==
  ASSUME AccountInv, TicketNext, NEW t \in Tickets
  PROVE  Account(t)!Next \/ AccountStill(t)
<1> USE DEF AccountInv
<1>1. status \in [Tickets -> Statuses] /\ payout \in [Tickets -> Nat]
  BY DEF IInv, TicketsTyped
<1>2. PICK u \in Tickets : \/ PlaceValidate(u)
                           \/ \E st \in OpenStatuses : PlaceCommit(u, st)
                           \/ BetDelayAccept(u) /\ status[u] = "pending_delay"
                           \/ BetDelayReprice(u) /\ status[u] = "pending_delay"
                           \/ BetDelayReject(u) /\ status[u] = "pending_delay"
                           \/ AdminVoid(u)
                           \/ LockStep
  BY TicketCases
<1>3. CASE t # u
  <2>1. status'[t] = status[t] /\ payout'[t] = payout[t]
    BY <1>1, <1>2, <1>3 DEF PlaceValidate, PlaceCommit, BetDelayAccept, BetDelayReprice,
                            BetDelayReject, AdminVoid, LockStep, ticketVars
  <2>2. \A r : r.ticket = t => (r \in ledger' <=> r \in ledger)
    BY <1>2, <1>3 DEF PlaceValidate, PlaceCommit, BetDelayAccept, BetDelayReprice,
                      BetDelayReject, AdminVoid, LockStep, RefundStake, moneyVars,
                      InsertUnlessExists, Row
  <2>3. Phase(t)' = Phase(t)
    BY <2>1 DEF Phase
  <2> QED BY <2>1, <2>2, <2>3, StillAccount
<1>4. CASE /\ t = u
           /\ \/ PlaceValidate(u)
              \/ (BetDelayAccept(u) \/ BetDelayReprice(u)) /\ status[u] = "pending_delay"
  <2>1. /\ payout' = payout /\ ledger' = ledger
        /\ \/ status[t] = "absent" /\ status'[t] = "placing"
           \/ status[t] = "pending_delay" /\ status'[t] = "accepted"
    BY <1>1, <1>4 DEF PlaceValidate, BetDelayAccept, BetDelayReprice, moneyVars
  <2>2. Phase(t)' = Phase(t)
    BY <2>1 DEF Phase, OpenStatuses
  <2> QED BY <2>1, <2>2, StillAccount
<1>5. ASSUME t = u, NEW st \in OpenStatuses, PlaceCommit(u, st)
      PROVE  Account(t)!Next
  BY <1>5, EnterAccount
<1>6. CASE t = u /\ BetDelayReject(u) /\ status[u] = "pending_delay"
  <2>1. /\ status[t] = "pending_delay" /\ status' = [status EXCEPT ![t] = "rejected"]
        /\ RefundStake(t) /\ payout'[t] = payout[t]
    BY <1>6 DEF BetDelayReject
  <2> QED BY <2>1, ReturnAccount
<1>7. CASE t = u /\ AdminVoid(u)
  <2>1. /\ status[t] = "accepted" /\ status' = [status EXCEPT ![t] = "voided"]
        /\ RefundStake(t) /\ payout'[t] = Stake[t]
    BY <1>1, <1>7 DEF AdminVoid
  <2> QED BY <2>1, ReturnAccount
<1>8. CASE LockStep
  <2>1. status' = status /\ payout' = payout /\ ledger' = ledger
    BY <1>8 DEF LockStep, ticketVars, moneyVars
  <2>2. Phase(t)' = Phase(t)
    BY <2>1 DEF Phase
  <2> QED BY <2>1, <2>2, StillAccount
<1> QED BY <1>2, <1>3, <1>4, <1>5, <1>6, <1>7, <1>8

\* Every step is a step of each ticket's account, or none.
LEMMA StepAccount ==
  ASSUME AccountInv, [Next]_vars, NEW t \in Tickets
  PROVE  Account(t)!Next \/ AccountStill(t)
<1>1. CASE TicketNext
  BY <1>1, TicketStepAccount
<1>2. ASSUME UNCHANGED <<status, payout, ledger>>
      PROVE  AccountStill(t)
  <2>1. Phase(t)' = Phase(t)
    BY <1>2 DEF Phase
  <2> QED BY <1>2, <2>1, StillAccount
<1>3. CASE SettlerNext
  <2>1. ASSUME NEW R, NEW P, Posting(R, P), PostSettlement(R, P)
        PROVE  Account(t)!Next \/ AccountStill(t)
    BY <2>1, PostingAccount DEF AccountInv, PostSettlement
  <2> QED BY <1>2, <1>3, <2>1, SettlerPosts DEF AccountInv
<1>4. CASE ~ TicketNext /\ ~ SettlerNext
  <2>1. UNCHANGED <<status, payout, ledger>>
    BY <1>4 DEF Next, FeedOddsChange, Crash, Tick, vars, ticketVars, moneyVars
  <2> QED BY <1>2, <2>1
<1> QED BY <1>1, <1>3, <1>4

\* A step of the account leaves an open or settled ticket where its row says.
LEMMA AccountKept ==
  ASSUME AccountInv, [Next]_vars
  PROVE  AccountInv'
<1>1. IInv' /\ Countable' /\ status' \in [Tickets -> Statuses]
  <2>1. IInv' /\ Countable'
    BY NextIInv, StepMoney DEF AccountInv
  <2> QED BY <2>1 DEF IInv, TicketsTyped
<1>2. ASSUME NEW t \in Tickets
      PROVE  AccountExact(t)'
  <2>1. /\ status'[t] \in OpenStatuses <=> Phase(t)' = "open"
        /\ status'[t] = "settled" <=> Phase(t)' = "paid"
        /\ status[t] \in OpenStatuses <=> Phase(t) = "open"
        /\ status[t] = "settled" <=> Phase(t) = "paid"
    BY DEF Phase, OpenStatuses
  <2>2. CASE AccountStill(t)
    BY <2>1, <2>2 DEF AccountStill, AccountInv, AccountExact, Net
  <2>3. CASE Account(t)!Next
    <3>1. /\ Phase(t)' = "open" => RowSum(TicketRows(t)') = - Stake[t]
          /\ Phase(t)' = "paid" => RowSum(TicketRows(t)') = payout'[t] - Stake[t]
      BY <2>3 DEF Account!Next, Account!Enter, Account!Pay, Account!TakeBack, Account!Return
    <3> QED BY <2>1, <3>1 DEF AccountExact, Net
  <2> QED BY <2>2, <2>3, StepAccount
<1> QED BY <1>1, <1>2 DEF AccountInv

\* A ticket that was not placed has an empty account.
LEMMA InitAccount ==
  ASSUME Init
  PROVE  AccountInv /\ \A t \in Tickets : Account(t)!Init
<1>1. IInv /\ Countable
  BY InitIInv, InitMoney DEF MoneyInv
<1>2. \A t \in Tickets : AccountExact(t)
  BY DEF Init, AccountExact, OpenStatuses
<1>3. ASSUME NEW t \in Tickets
      PROVE  Account(t)!Init
  <2>1. TicketRows(t) = {} /\ CreditRows(ledger, t) = {}
    BY DEF Init, TicketRows, CreditRows
  <2>2. RowSum(TicketRows(t)) = 0
    BY <2>1, SumEmpty DEF RowSum
  <2>3. FirstCredit(t) = "none"
    BY <2>1 DEF FirstCredit, BareCredit
  <2>4. status[t] = "absent" /\ payout[t] = 0
    BY DEF Init
  <2>5. Phase(t) = "none"
    BY <2>4, PhaseOf
  <2> QED BY <2>2, <2>3, <2>4, <2>5 DEF Account!Init
<1> QED BY <1>1, <1>2, <1>3 DEF AccountInv

\* The invariant of the accounts: an open ticket stands at its stake, a settled
\* one at what it paid less its stake, in every reachable state.
THEOREM AccountInductive == Spec => []AccountInv
<1>1. Init => AccountInv
  BY InitAccount
<1>2. AccountInv /\ [Next]_vars => AccountInv'
  BY AccountKept
<1> QED BY <1>1, <1>2, PTL DEF Spec

\* Settlement implements TicketAccount for each of its tickets: whoever writes
\* its rows, and however often it is settled, cancelled and rolled back, they
\* add up to what the ticket's row says.
THEOREM EveryTicketIsAccount ==
  ASSUME NEW t \in Tickets
  PROVE  Spec => Account(t)!Spec
<1>1. Init => Account(t)!Init
  BY InitAccount
<1>2. AccountInv /\ [Next]_vars =>
        [Account(t)!Next]_<<Phase(t), payout[t], RowSum(TicketRows(t)), FirstCredit(t)>>
  BY StepAccount DEF AccountStill
<1> QED BY <1>1, <1>2, AccountInductive, PTL DEF Spec, Account!Spec

\* The same of all tickets together, as the run states it.
THEOREM AccountsKept == Spec => TicketsAreAccounts
<1>1. Init => \A t \in Tickets : Account(t)!Init
  BY InitAccount
<1>2. AccountInv /\ [Next]_vars =>
        \A t \in Tickets :
          \/ UNCHANGED <<Phase(t), payout[t], RowSum(TicketRows(t)), FirstCredit(t)>>
          \/ Account(t)!Next
  BY StepAccount DEF AccountStill
<1> QED BY <1>1, <1>2, AccountInductive, PTL DEF Spec, TicketsAreAccounts
=============================================================================
