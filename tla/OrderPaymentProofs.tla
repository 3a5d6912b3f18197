------------------------- MODULE OrderPaymentProofs -------------------------
(***************************************************************************)
(* OrderPayment's safety for any number of customers, orders, listings,    *)
(* transactions, requests and crashes.                                     *)
(*                                                                         *)
(* ChargedAtMostOnce and the others are not inductive: that an order is    *)
(* not debited twice rests on who holds its claim while a request stands   *)
(* before its debit, its rollback or its side effects.  Inv says who.      *)
(***************************************************************************)
EXTENDS OrderPayment, CommonLemmas

(* A request that has not begun has picked up no transaction, and one that *)
(* works on an order knows which.                                          *)
RequestsInv ==
    \A r \in Requests :
        /\ pc[r] = "idle" => tx[r] = NULL
        /\ pc[r] \in {"debit", "rollback"} => tx[r] = NULL
        /\ pc[r] \in {"debit", "rollback", "effects", "cancel"} => target[r] \in Orders

(* Before its debit or its rollback, a wallet payment holds the claim it   *)
(* wrote, and the order has no debit but those nobody was told of.         *)
ClaimInv ==
    \A r \in Requests : pc[r] \in {"debit", "rollback"} =>
        OwnsClaim(r, target[r]) /\ ~Debited(target[r])

(* The claim on an order names its holder: nobody for an unpaid order, a   *)
(* request that is working on this order and has debited it if it is past  *)
(* its debit, or a collected transaction of this order.                    *)
ReferenceInv ==
    \A o \in Orders :
        /\ payment_status[o] = "unpaid" <=> payment_reference[o] = NULL
        /\ payment_reference[o] \in Requests =>
             LET r == payment_reference[o] IN
             /\ target[r] = o
             /\ pc[r] \in {"debit", "rollback", "effects", "done"}
             /\ pc[r] \in {"effects", "done"} => Debited(o)
        /\ payment_reference[o] \in TxRefs =>
             LET t == payment_reference[o] IN
             /\ tx_order[t] = o
             /\ tx_status[t] = "success"
             /\ charge[t] # "none"
             /\ ~Debited(o)

(* A request that has claimed a transaction. *)
HoldsTx(r, t) == tx[r] = t /\ pc[r] \in {"confirm", "credit", "effects"}

(* A transaction is collected before a request picks it up, and claimed by *)
(* one request only, which finds its money not yet used.                   *)
TransactionsInv ==
    \A r \in Requests :
        /\ pc[r] \in ClaimLocations \union {"confirm", "credit"} =>
             tx[r] \in TxRefs /\ charge[tx[r]] # "none"
        /\ pc[r] = "confirm" => target[r] = tx_order[tx[r]]
        /\ pc[r] \in {"confirm", "credit"} => ~Spent(tx[r]) /\ tx[r] \notin unapplied
        /\ \A t \in TxRefs : HoldsTx(r, t) =>
             /\ tx_status[t] = "success"
             /\ \A q \in Requests : HoldsTx(q, t) => q = r

(* Before its side effects, a request holds the order, which is paid and   *)
(* has not had them; once an order has had them its holder is done.        *)
EffectsInv ==
    /\ \A r \in Requests : pc[r] = "effects" =>
         /\ side_effect_runs[target[r]] = 0
         /\ payment_reference[target[r]] = IF tx[r] = NULL THEN r ELSE tx[r]
    /\ \A o \in Orders :
         /\ side_effect_runs[o] <= 1
         /\ side_effect_runs[o] = 1 =>
              /\ payment_status[o] = "escrow_held"
              /\ payment_reference[o] \in Requests => pc[payment_reference[o]] = "done"
              /\ \A r \in Requests : ~HoldsTx(r, payment_reference[o])

(* A debit whose balance was not read back is one of the order's debits.   *)
UnreadInv ==
    \A o \in Orders : unread[o] \subseteq OrderDebits(o) /\ IsFiniteSet(unread[o])

Inv ==
    /\ TypeOK
    /\ LedgerChained
    /\ UnreadInv
    /\ ChargedAtMostOnce
    /\ MoneyTakenMeansPaid
    /\ TransactionSpentOnce
    /\ RequestsInv
    /\ ClaimInv
    /\ ReferenceInv
    /\ TransactionsInv
    /\ EffectsInv

-----------------------------------------------------------------------------
(* The wallet. *)

(* A credit keeps the ledger chained and shows up as one more row under    *)
(* its reference.                                                          *)
LEMMA CreditWalletLemma ==
    ASSUME WalletTypeOK, LedgerChained, NEW u \in Users, NEW amt \in Nat,
           NEW type \in ReferenceTypes, NEW id \in ReferenceIds,
           CreditWallet(u, amt, type, id)
    PROVE  /\ WalletTypeOK'
           /\ LedgerChained'
           /\ \A v \in Users, t \in ReferenceTypes, i \in ReferenceIds :
                EntriesFor(v, t, i)' =
                  IF v = u /\ type = t /\ id = i
                  THEN EntriesFor(v, t, i) \union {Len(wallet_ledger[u]) + 1}
                  ELSE EntriesFor(v, t, i)
<1> DEFINE row == LedgerEntry("credit", amt, cached_balance[u] + amt, type, id)
<1>1. /\ row \in LedgerRowOf(ReferenceIds)
      /\ row.balance_after = cached_balance[u] + SignedAmount(row)
      /\ row.balance_after \in Nat
      /\ row.reference_type = type /\ row.reference_id = id
    BY DEF CreditWallet, WalletTypeOK, LedgerEntry, LedgerRowOf, EntryTypes, SignedAmount
<1>2. /\ wallet_ledger' = [wallet_ledger EXCEPT ![u] = Append(@, row)]
      /\ cached_balance' = [cached_balance EXCEPT ![u] = row.balance_after]
    BY DEF CreditWallet, LedgerEntry
<1>3. /\ wallet_ledger[u] \in Seq(LedgerRowOf(ReferenceIds))
      /\ cached_balance[u] \in Nat
      /\ Chained(cached_balance[u], wallet_ledger[u])
    BY DEF WalletTypeOK, LedgerRow, LedgerChained
<1> HIDE DEF row
<1>4. WalletTypeOK'
    BY <1>1, <1>2 DEF WalletTypeOK, LedgerRow
<1>5. \A v \in Users :
        /\ wallet_ledger'[v] = (IF v = u THEN Append(wallet_ledger[u], row)
                                         ELSE wallet_ledger[v])
        /\ cached_balance'[v] = (IF v = u THEN row.balance_after ELSE cached_balance[v])
    BY <1>2 DEF WalletTypeOK
<1>6. Chained(row.balance_after, Append(wallet_ledger[u], row))
    BY <1>1, <1>3, ChainedAfterAppend
<1>7. LedgerChained'
    BY <1>5, <1>6 DEF LedgerChained
<1>8. ASSUME NEW t, NEW i
      PROVE  RowsWith(Append(wallet_ledger[u], row), t, i) =
               IF row.reference_type = t /\ row.reference_id = i
               THEN RowsWith(wallet_ledger[u], t, i) \union {Len(wallet_ledger[u]) + 1}
               ELSE RowsWith(wallet_ledger[u], t, i)
    <2> DEFINE rows == wallet_ledger[u]
    <2>1. rows \in Seq(LedgerRowOf(ReferenceIds)) /\ row \in LedgerRowOf(ReferenceIds)
        BY <1>1, <1>3
    <2> HIDE DEF rows
    <2>2. RowsWith(Append(rows, row), t, i) =
            IF row.reference_type = t /\ row.reference_id = i
            THEN RowsWith(rows, t, i) \union {Len(rows) + 1}
            ELSE RowsWith(rows, t, i)
        BY <2>1, RowsAfterAppend
    <2>. QED
        BY <2>2 DEF rows
<1>. QED
    BY <1>1, <1>4, <1>5, <1>7, <1>8 DEF EntriesFor

(* A debit, which only happens when the balance covers it, likewise.       *)
LEMMA DebitWalletLemma ==
    ASSUME WalletTypeOK, LedgerChained, NEW u \in Users, NEW amt \in Nat,
           NEW type \in ReferenceTypes, NEW id \in ReferenceIds,
           DebitWallet(u, amt, type, id)
    PROVE  /\ WalletTypeOK'
           /\ LedgerChained'
           /\ \A v \in Users, t \in ReferenceTypes, i \in ReferenceIds :
                EntriesFor(v, t, i)' =
                  IF v = u /\ type = t /\ id = i
                  THEN EntriesFor(v, t, i) \union {Len(wallet_ledger[u]) + 1}
                  ELSE EntriesFor(v, t, i)
<1> DEFINE row == LedgerEntry("debit", amt, cached_balance[u] - amt, type, id)
<1>1. /\ row \in LedgerRowOf(ReferenceIds)
      /\ row.balance_after = cached_balance[u] + SignedAmount(row)
      /\ row.balance_after \in Nat
      /\ row.reference_type = type /\ row.reference_id = id
    BY DEF DebitWallet, CanDebit, WalletTypeOK, LedgerEntry, LedgerRowOf, EntryTypes,
       SignedAmount
<1>2. /\ wallet_ledger' = [wallet_ledger EXCEPT ![u] = Append(@, row)]
      /\ cached_balance' = [cached_balance EXCEPT ![u] = row.balance_after]
    BY DEF DebitWallet, LedgerEntry
<1>3. /\ wallet_ledger[u] \in Seq(LedgerRowOf(ReferenceIds))
      /\ cached_balance[u] \in Nat
      /\ Chained(cached_balance[u], wallet_ledger[u])
    BY DEF WalletTypeOK, LedgerRow, LedgerChained
<1> HIDE DEF row
<1>4. WalletTypeOK'
    BY <1>1, <1>2 DEF WalletTypeOK, LedgerRow
<1>5. \A v \in Users :
        /\ wallet_ledger'[v] = (IF v = u THEN Append(wallet_ledger[u], row)
                                         ELSE wallet_ledger[v])
        /\ cached_balance'[v] = (IF v = u THEN row.balance_after ELSE cached_balance[v])
    BY <1>2 DEF WalletTypeOK
<1>6. Chained(row.balance_after, Append(wallet_ledger[u], row))
    BY <1>1, <1>3, ChainedAfterAppend
<1>7. LedgerChained'
    BY <1>5, <1>6 DEF LedgerChained
<1>8. ASSUME NEW t, NEW i
      PROVE  RowsWith(Append(wallet_ledger[u], row), t, i) =
               IF row.reference_type = t /\ row.reference_id = i
               THEN RowsWith(wallet_ledger[u], t, i) \union {Len(wallet_ledger[u]) + 1}
               ELSE RowsWith(wallet_ledger[u], t, i)
    <2> DEFINE rows == wallet_ledger[u]
    <2>1. rows \in Seq(LedgerRowOf(ReferenceIds)) /\ row \in LedgerRowOf(ReferenceIds)
        BY <1>1, <1>3
    <2> HIDE DEF rows
    <2>2. RowsWith(Append(rows, row), t, i) =
            IF row.reference_type = t /\ row.reference_id = i
            THEN RowsWith(rows, t, i) \union {Len(rows) + 1}
            ELSE RowsWith(rows, t, i)
        BY <2>1, RowsAfterAppend
    <2>. QED
        BY <2>2 DEF rows
<1>. QED
    BY <1>1, <1>4, <1>5, <1>7, <1>8 DEF EntriesFor

(* The wallet starts typed and chained, with no row of a modelled caller.  *)
LEMMA WalletInitLemma ==
    ASSUME WalletInit
    PROVE  /\ WalletTypeOK
           /\ LedgerChained
           /\ \A u \in Users, type \in ReferenceTypes \ {"opening"}, id \in ReferenceIds :
                EntriesFor(u, type, id) = {}
<1>1. \A u \in Users : /\ wallet_ledger[u] = OpeningRows(OpeningBalance[u], NULL)
                       /\ cached_balance[u] = OpeningBalance[u]
                       /\ OpeningBalance[u] \in Nat
    BY WalletAssumption DEF WalletInit
<1>2. \A u \in Users :
        /\ OpeningRows(OpeningBalance[u], NULL) \in Seq(LedgerRow)
        /\ Chained(OpeningBalance[u], OpeningRows(OpeningBalance[u], NULL))
        /\ \A type \in ReferenceTypes \ {"opening"} : \A id :
             RowsWith(OpeningRows(OpeningBalance[u], NULL), type, id) = {}
    BY <1>1, WalletAssumption, OpeningRowsLemma DEF LedgerRow
<1>3. WalletTypeOK
    BY <1>2, WalletAssumption DEF WalletInit, WalletTypeOK
<1>. QED
    BY <1>1, <1>2, <1>3 DEF LedgerChained, EntriesFor

-----------------------------------------------------------------------------
(* A step that leaves the wallet alone leaves every lookup in it alone. *)
LEMMA WalletFrame ==
    ASSUME UNCHANGED ledgerVars
    PROVE  /\ unread' = unread
           /\ WalletTypeOK => WalletTypeOK'
           /\ LedgerChained => LedgerChained'
           /\ UnreadInv => UnreadInv'
           /\ \A o \in Orders : Charges(o)' = Charges(o)
           /\ \A o \in Orders : OrderDebits(o)' = OrderDebits(o)
           /\ \A o \in Orders : Debited(o)' = Debited(o)
           /\ \A t \in TxRefs : TopUpCredits(t)' = TopUpCredits(t)
           /\ \A t \in TxRefs : Credited(t)' = Credited(t)
<1>1. cached_balance' = cached_balance /\ wallet_ledger' = wallet_ledger /\ unread' = unread
    BY DEF ledgerVars, walletVars
<1>2. WalletTypeOK => WalletTypeOK'
    BY <1>1 DEF WalletTypeOK
<1>3. LedgerChained => LedgerChained'
    BY <1>1 DEF LedgerChained
<1>4. \A o \in Orders : OrderDebits(o)' = OrderDebits(o)
    BY <1>1 DEF OrderDebits, EntriesFor
<1>5. \A t \in TxRefs : TopUpCredits(t)' = TopUpCredits(t)
    BY <1>1 DEF TopUpCredits, EntriesFor
<1>6. \A o \in Orders : Charges(o)' = Charges(o) /\ Debited(o)' = Debited(o)
    BY <1>1 DEF Debited, Charges, OrderDebits, EntriesFor
<1>7. \A t \in TxRefs : Credited(t)' = Credited(t)
    BY <1>1 DEF Credited, TopUpCredits, EntriesFor
<1>8. UnreadInv => UnreadInv'
    BY <1>1, <1>4 DEF UnreadInv
<1>. QED
    BY <1>1, <1>2, <1>3, <1>4, <1>5, <1>6, <1>7, <1>8

(* What a transaction was used for shows in the ledger and in the orders'  *)
(* payment references, and nowhere else.                                   *)
LEMMA SpentFrame ==
    ASSUME \A t \in TxRefs : TopUpCredits(t)' = TopUpCredits(t),
           \A o \in Orders, t \in TxRefs : payment_reference'[o] = t <=> payment_reference[o] = t
    PROVE  \A t \in TxRefs : /\ Credited(t)' <=> Credited(t)
                             /\ PaysAnOrder(t)' <=> PaysAnOrder(t)
                             /\ Spent(t)' <=> Spent(t)
<1>1. \A t \in TxRefs : Credited(t)' <=> Credited(t)
    BY DEF Credited
<1>2. \A t \in TxRefs : PaysAnOrder(t)' <=> PaysAnOrder(t)
    BY DEF PaysAnOrder
<1>. QED
    BY <1>1, <1>2 DEF Spent

(* A step that uses no transaction's money and moves no request that has   *)
(* claimed one keeps what is known of the transactions.                    *)
LEMMA TransactionsFrame ==
    ASSUME Inv,
           \A t \in TxRefs : TopUpCredits(t)' = TopUpCredits(t),
           \A o \in Orders, t \in TxRefs : payment_reference'[o] = t <=> payment_reference[o] = t,
           UNCHANGED <<tx_status, unapplied>>,
           \A t \in TxRefs : charge[t] # "none" => charge'[t] # "none",
           \A q \in Requests :
             \/ pc'[q] = pc[q] /\ tx'[q] = tx[q] /\ target'[q] = target[q]
             \/ /\ pc[q] \notin {"confirm", "credit"} /\ pc'[q] \notin {"confirm", "credit"}
                /\ pc'[q] = "effects" => tx'[q] \notin TxRefs
                /\ pc'[q] \in ClaimLocations => tx'[q] \in TxRefs /\ charge'[tx'[q]] # "none"
    PROVE  TransactionSpentOnce' /\ TransactionsInv'
<1> USE DEF Inv
<1>1. \A t \in TxRefs : /\ Credited(t)' <=> Credited(t)
                        /\ PaysAnOrder(t)' <=> PaysAnOrder(t)
                        /\ Spent(t)' <=> Spent(t)
    BY SpentFrame
<1>2. \A q \in Requests : pc[q] \in {"confirm", "credit"} => pc'[q] = pc[q] /\ tx'[q] = tx[q]
    OBVIOUS
<1>3. \A q \in Requests : pc'[q] \in {"confirm", "credit"} =>
        pc[q] = pc'[q] /\ tx'[q] = tx[q] /\ target'[q] = target[q]
    OBVIOUS
<1>4. \A q \in Requests, t \in TxRefs : HoldsTx(q, t)' => HoldsTx(q, t)
    BY <1>3 DEF HoldsTx
<1>5. TransactionSpentOnce'
    <2> SUFFICES ASSUME NEW t \in TxRefs
                 PROVE  /\ \A i, j \in TopUpCredits(t)' : i = j
                        /\ ~(Credited(t)' /\ PaysAnOrder(t)')
                        /\ ~(Spent(t)' /\ t \in unapplied')
                        /\ Spent(t)' \/ t \in unapplied' =>
                              tx_status'[t] = "success" /\ charge'[t] # "none"
                        /\ tx_status'[t] = "success" =>
                              \/ Spent(t)'
                              \/ t \in unapplied'
                              \/ \E r \in Requests : pc'[r] \in {"confirm", "credit"} /\ tx'[r] = t
        BY DEF TransactionSpentOnce
    <2>. QED
        BY <1>1, <1>2 DEF TransactionSpentOnce
<1>6. TransactionsInv'
    <2> SUFFICES ASSUME NEW r \in Requests
                 PROVE  /\ pc'[r] \in ClaimLocations \union {"confirm", "credit"} =>
                             tx'[r] \in TxRefs /\ charge'[tx'[r]] # "none"
                        /\ pc'[r] = "confirm" => target'[r] = tx_order[tx'[r]]
                        /\ pc'[r] \in {"confirm", "credit"} =>
                             ~Spent(tx[r])' /\ tx'[r] \notin unapplied'
                        /\ \A t \in TxRefs : HoldsTx(r, t)' =>
                             /\ tx_status'[t] = "success"
                             /\ \A q \in Requests : HoldsTx(q, t)' => q = r
        BY DEF TransactionsInv
    <2>1. pc'[r] \in ClaimLocations \union {"confirm", "credit"} =>
            tx'[r] \in TxRefs /\ charge'[tx'[r]] # "none"
        BY DEF TransactionsInv
    <2>2. pc'[r] = "confirm" => target'[r] = tx_order[tx'[r]]
        BY <1>3 DEF TransactionsInv
    <2>3. ASSUME pc'[r] \in {"confirm", "credit"}
          PROVE  ~Spent(tx[r])' /\ tx'[r] \notin unapplied'
        <3> DEFINE t == tx[r]
        <3>1. tx'[r] = t /\ t \in TxRefs /\ ~Spent(t) /\ t \notin unapplied
            BY <1>3, <2>3 DEF TransactionsInv
        <3> HIDE DEF t
        <3>2. ~Spent(t) /\ ~Spent(tx[r])'
            BY <1>1, <3>1 DEF Spent, Credited, PaysAnOrder, TopUpCredits
        <3>. QED
            BY <3>1, <3>2
    <2>4. \A t \in TxRefs : HoldsTx(r, t)' =>
             /\ tx_status'[t] = "success"
             /\ \A q \in Requests : HoldsTx(q, t)' => q = r
        BY <1>4 DEF TransactionsInv
    <2>. QED
        BY <2>1, <2>2, <2>3, <2>4
<1>. QED
    BY <1>5, <1>6

(* A step in which the request that has claimed a transaction is done with *)
(* it: its money is used, in one of the two ways, or it is unapplied.      *)
LEMMA TransactionEnds ==
    ASSUME Inv, NEW r \in Requests, NEW t \in TxRefs, t = tx[r],
           pc[r] \in {"confirm", "credit"},
           UNCHANGED <<tx, target, tx_status, charge>>,
           NEW next \in {"effects", "done"}, pc' = [pc EXCEPT ![r] = next],
           \A x \in TxRefs \ {t} : /\ TopUpCredits(x)' = TopUpCredits(x)
                                   /\ PaysAnOrder(x)' <=> PaysAnOrder(x)
                                   /\ x \in unapplied' <=> x \in unapplied,
           \A i, j \in TopUpCredits(t)' : i = j,
           ~(Credited(t)' /\ PaysAnOrder(t)'),
           ~(Spent(t)' /\ t \in unapplied'),
           Spent(t)' \/ t \in unapplied'
    PROVE  TransactionSpentOnce' /\ TransactionsInv'
<1> USE DEF Inv
<1>1. tx_status[t] = "success" /\ charge[t] # "none" /\ HoldsTx(r, t)
    BY DEF TransactionsInv, HoldsTx
<1>2. \A q \in Requests, x \in TxRefs : HoldsTx(q, x)' => HoldsTx(q, x)
    BY DEF HoldsTx, TypeOK
<1>3. \A q \in Requests : q # r => pc'[q] = pc[q]
    OBVIOUS
<1>4. \A x \in TxRefs \ {t} : /\ Credited(x)' <=> Credited(x)
                              /\ Spent(x)' <=> Spent(x)
    BY DEF Credited, Spent
<1>5. TransactionSpentOnce'
    <2> SUFFICES ASSUME NEW x \in TxRefs
                 PROVE  /\ \A i, j \in TopUpCredits(x)' : i = j
                        /\ ~(Credited(x)' /\ PaysAnOrder(x)')
                        /\ ~(Spent(x)' /\ x \in unapplied')
                        /\ Spent(x)' \/ x \in unapplied' =>
                              tx_status'[x] = "success" /\ charge'[x] # "none"
                        /\ tx_status'[x] = "success" =>
                              \/ Spent(x)'
                              \/ x \in unapplied'
                              \/ \E q \in Requests : pc'[q] \in {"confirm", "credit"} /\ tx'[q] = x
        BY DEF TransactionSpentOnce
    <2>1. CASE x = t
        BY <1>1, <2>1
    <2>2. CASE x # t
        BY <1>3, <1>4, <2>2 DEF TransactionSpentOnce
    <2>. QED
        BY <2>1, <2>2
<1>6. TransactionsInv'
    <2> SUFFICES ASSUME NEW q \in Requests
                 PROVE  /\ pc'[q] \in ClaimLocations \union {"confirm", "credit"} =>
                             tx'[q] \in TxRefs /\ charge'[tx'[q]] # "none"
                        /\ pc'[q] = "confirm" => target'[q] = tx_order[tx'[q]]
                        /\ pc'[q] \in {"confirm", "credit"} =>
                             ~Spent(tx[q])' /\ tx'[q] \notin unapplied'
                        /\ \A x \in TxRefs : HoldsTx(q, x)' =>
                             /\ tx_status'[x] = "success"
                             /\ \A p \in Requests : HoldsTx(p, x)' => p = q
        BY DEF TransactionsInv
    <2>1. pc'[r] \notin ClaimLocations \union {"confirm", "credit"}
        BY DEF ClaimLocations, TypeOK
    <2>2. pc'[q] \in ClaimLocations \union {"confirm", "credit"} =>
             tx'[q] \in TxRefs /\ charge'[tx'[q]] # "none"
        BY <1>3, <2>1 DEF TransactionsInv
    <2>3. pc'[q] = "confirm" => target'[q] = tx_order[tx'[q]]
        BY <1>3, <2>1 DEF TransactionsInv
    <2>4. ASSUME pc'[q] \in {"confirm", "credit"}
          PROVE  ~Spent(tx[q])' /\ tx'[q] \notin unapplied'
        <3> DEFINE x == tx[q]
        <3>1. x \in TxRefs /\ ~Spent(x) /\ x \notin unapplied /\ HoldsTx(q, x) /\ q # r
            BY <1>3, <2>1, <2>4 DEF TransactionsInv, HoldsTx
        <3>2. tx'[q] = x /\ x # t
            BY <1>1, <3>1 DEF TransactionsInv
        <3> HIDE DEF x
        <3>3. ~Spent(tx[q])'
            BY <1>4, <3>1, <3>2 DEF Spent, Credited, PaysAnOrder, TopUpCredits
        <3>. QED
            BY <3>1, <3>2, <3>3
    <2>5. \A x \in TxRefs : HoldsTx(q, x)' =>
             /\ tx_status'[x] = "success"
             /\ \A p \in Requests : HoldsTx(p, x)' => p = q
        BY <1>2 DEF TransactionsInv
    <2>. QED
        BY <2>2, <2>3, <2>4, <2>5
<1>. QED
    BY <1>5, <1>6

(* The order variables, apart from the rest of TypeOK. *)
OrdersTyped ==
    /\ order_status \in [Orders -> OrderStatuses]
    /\ payment_status \in [Orders -> {"unpaid", "escrow_held"}]
    /\ payment_reference \in [Orders -> Requests \union TxRefs \union {NULL}]

(* A won claim writes well-typed order columns. *)
LEMMA ClaimTyped ==
    ASSUME TypeOK, NEW o \in Orders, NEW ref \in Requests \union TxRefs,
           ClaimOrderForPayment(o, ref)
    PROVE  OrdersTyped'
<1>1. order_status' \in [Orders -> OrderStatuses]
    BY DEF ClaimOrderForPayment, OrderStatuses, TypeOK
<1>2. payment_status' \in [Orders -> {"unpaid", "escrow_held"}]
    BY DEF ClaimOrderForPayment, TypeOK
<1>3. payment_reference' \in [Orders -> Requests \union TxRefs \union {NULL}]
    BY DEF ClaimOrderForPayment, TypeOK
<1>. QED
    BY <1>1, <1>2, <1>3 DEF OrdersTyped

(* Order columns left alone stay well-typed. *)
LEMMA UnchangedTyped ==
    ASSUME TypeOK, UNCHANGED orderVars
    PROVE  OrdersTyped'
BY DEF orderVars, OrdersTyped, TypeOK

(* The claim of payOrderFromWallet, won or lost, keeps the invariant.      *)
LEMMA WalletClaimKeeps ==
    ASSUME Inv, NEW r \in Requests, NEW o \in Orders, WalletClaim(r, o)
    PROVE  Inv'
<1> USE OrderPaymentAssumption DEF Inv
<1>1. UNCHANGED ledgerVars
    BY DEF WalletClaim
<1>2. TypeOK'
    <2>1. OrdersTyped'
        BY ClaimTyped, UnchangedTyped DEF WalletClaim
    <2>2. pc' \in [Requests -> Locations] /\ target' \in [Requests -> Orders \union {NULL}]
        BY DEF WalletClaim, Goto, Locations, ClaimLocations, TypeOK
    <2>. QED
        BY <1>1, <2>1, <2>2, WalletFrame DEF WalletClaim, stockVars, txVars, OrdersTyped, TypeOK
<1>3. LedgerChained'
    BY <1>1, WalletFrame DEF WalletClaim, ClaimOrderForPayment, CanClaimOrder,
       At, Goto, stockVars, txVars, orderVars, TypeOK, LedgerChained
<1>4. ChargedAtMostOnce'
    BY <1>1, WalletFrame DEF WalletClaim, ClaimOrderForPayment, CanClaimOrder,
       At, Goto, stockVars, txVars, orderVars, TypeOK, ChargedAtMostOnce
<1>5. MoneyTakenMeansPaid'
    BY <1>1, WalletFrame DEF WalletClaim, ClaimOrderForPayment, CanClaimOrder,
       At, Goto, stockVars, txVars, orderVars, TypeOK, MoneyTakenMeansPaid,
       ClaimInv, OwnsClaim, RequestsInv
<1>6. TransactionSpentOnce' /\ TransactionsInv'
    <2>1. UNCHANGED <<tx_status, unapplied>>
        BY DEF WalletClaim, txVars
    <2>2. \A t \in TxRefs : charge[t] # "none" => charge'[t] # "none"
        BY DEF WalletClaim, txVars, TypeOK
    <2>3. \A p \in Orders, t \in TxRefs : payment_reference'[p] = t <=> payment_reference[p] = t
        BY DEF WalletClaim, ClaimOrderForPayment, CanClaimOrder, ReferenceInv, orderVars, TypeOK
    <2>4. \A q \in Requests :
            \/ pc'[q] = pc[q] /\ tx'[q] = tx[q] /\ target'[q] = target[q]
            \/ /\ pc[q] \notin {"confirm", "credit"} /\ pc'[q] \notin {"confirm", "credit"}
               /\ pc'[q] = "effects" => tx'[q] \notin TxRefs
               /\ pc'[q] \in ClaimLocations => tx'[q] \in TxRefs /\ charge'[tx'[q]] # "none"
        BY DEF WalletClaim, ClaimOrderForPayment, CanClaimOrder, At, Goto, ClaimLocations, localVars, txVars, TypeOK
    <2>5. \A t \in TxRefs : TopUpCredits(t)' = TopUpCredits(t)
        BY <1>1, WalletFrame
    <2>. QED
        BY <2>1, <2>2, <2>3, <2>4, <2>5, TransactionsFrame
<1>7. RequestsInv'
    BY <1>1, WalletFrame DEF WalletClaim, ClaimOrderForPayment, CanClaimOrder,
       At, Goto, stockVars, txVars, orderVars, TypeOK, RequestsInv,
       TransactionsInv
<1>8. ClaimInv'
    BY <1>1, WalletFrame DEF WalletClaim, ClaimOrderForPayment, CanClaimOrder,
       At, Goto, stockVars, txVars, orderVars, TypeOK, ClaimInv, OwnsClaim,
       MoneyTakenMeansPaid, ReferenceInv, RequestsInv
<1>9. ReferenceInv'
    <2>1. CASE CanClaimOrder(o)
        <3>1. /\ pc' = [pc EXCEPT ![r] = "debit"] /\ target' = [target EXCEPT ![r] = o]
              /\ payment_status' = [payment_status EXCEPT ![o] = "escrow_held"]
              /\ payment_reference' = [payment_reference EXCEPT ![o] = r]
              /\ pc[r] = "idle" /\ UNCHANGED <<tx_status, charge>>
            BY <2>1 DEF WalletClaim, ClaimOrderForPayment, At, Goto, txVars
        <3>. QED
            BY <1>1, <3>1, WalletFrame DEF ReferenceInv, TypeOK
    <2>2. CASE ~CanClaimOrder(o)
        <3>1. /\ pc' = [pc EXCEPT ![r] = "done"] /\ target' = [target EXCEPT ![r] = o]
              /\ pc[r] = "idle" /\ UNCHANGED <<payment_status, payment_reference, tx_status, charge>>
            BY <2>2 DEF WalletClaim, ClaimOrderForPayment, At, Goto, txVars, orderVars
        <3>. QED
            BY <1>1, <3>1, WalletFrame DEF ReferenceInv, TypeOK
    <2>. QED
        BY <2>1, <2>2
<1>11. EffectsInv'
    BY <1>1, WalletFrame DEF WalletClaim, ClaimOrderForPayment, CanClaimOrder,
       At, Goto, stockVars, txVars, orderVars, TypeOK, EffectsInv, HoldsTx,
       RequestsInv, ReferenceInv, ClaimInv, OwnsClaim, TransactionsInv
<1>12. UnreadInv'
    BY <1>1, WalletFrame
<1>. QED
    BY <1>2, <1>3, <1>4, <1>5, <1>6, <1>7, <1>8, <1>9, <1>11, <1>12 DEF Inv

(* cancelOrder's read keeps the invariant.                                 *)
LEMMA CancelReadKeeps ==
    ASSUME Inv, NEW r \in Requests, NEW o \in Orders, CancelRead(r, o)
    PROVE  Inv'
<1> USE OrderPaymentAssumption DEF Inv
<1>1. UNCHANGED ledgerVars
    BY DEF CancelRead
<1>2. TypeOK'
    BY <1>1, WalletFrame DEF CancelRead, At, Goto, stockVars, txVars, orderVars,
       TypeOK, Locations, ClaimLocations, OrderStatuses
<1>3. LedgerChained'
    BY <1>1, WalletFrame DEF CancelRead, At, Goto, stockVars, txVars, orderVars,
       TypeOK, LedgerChained
<1>4. ChargedAtMostOnce'
    BY <1>1, WalletFrame DEF CancelRead, At, Goto, stockVars, txVars, orderVars,
       TypeOK, ChargedAtMostOnce
<1>5. MoneyTakenMeansPaid'
    BY <1>1, WalletFrame DEF CancelRead, At, Goto, stockVars, txVars, orderVars,
       TypeOK, MoneyTakenMeansPaid, ClaimInv, OwnsClaim, RequestsInv
<1>6. TransactionSpentOnce' /\ TransactionsInv'
    <2>1. UNCHANGED <<tx_status, unapplied>>
        BY DEF CancelRead, txVars
    <2>2. \A t \in TxRefs : charge[t] # "none" => charge'[t] # "none"
        BY DEF CancelRead, txVars, TypeOK
    <2>3. \A p \in Orders, t \in TxRefs : payment_reference'[p] = t <=> payment_reference[p] = t
        BY DEF CancelRead, orderVars, TypeOK
    <2>4. \A q \in Requests :
            \/ pc'[q] = pc[q] /\ tx'[q] = tx[q] /\ target'[q] = target[q]
            \/ /\ pc[q] \notin {"confirm", "credit"} /\ pc'[q] \notin {"confirm", "credit"}
               /\ pc'[q] = "effects" => tx'[q] \notin TxRefs
               /\ pc'[q] \in ClaimLocations => tx'[q] \in TxRefs /\ charge'[tx'[q]] # "none"
        BY DEF CancelRead, At, Goto, ClaimLocations, localVars, txVars, TypeOK
    <2>5. \A t \in TxRefs : TopUpCredits(t)' = TopUpCredits(t)
        BY <1>1, WalletFrame
    <2>. QED
        BY <2>1, <2>2, <2>3, <2>4, <2>5, TransactionsFrame
<1>7. RequestsInv'
    BY <1>1, WalletFrame DEF CancelRead, At, Goto, stockVars, txVars, orderVars,
       TypeOK, RequestsInv, TransactionsInv
<1>8. ClaimInv'
    BY <1>1, WalletFrame DEF CancelRead, At, Goto, stockVars, txVars, orderVars,
       TypeOK, ClaimInv, OwnsClaim, MoneyTakenMeansPaid, ReferenceInv,
       RequestsInv
<1>9. ReferenceInv'
    BY <1>1, WalletFrame DEF CancelRead, At, Goto, stockVars, txVars, orderVars,
       TypeOK, ReferenceInv, MoneyTakenMeansPaid, ClaimInv, OwnsClaim,
       RequestsInv, TransactionsInv
<1>11. EffectsInv'
    BY <1>1, WalletFrame DEF CancelRead, At, Goto, stockVars, txVars, orderVars,
       TypeOK, EffectsInv, HoldsTx, RequestsInv, ReferenceInv, ClaimInv,
       OwnsClaim, TransactionsInv
<1>12. UnreadInv'
    BY <1>1, WalletFrame
<1>. QED
    BY <1>2, <1>3, <1>4, <1>5, <1>6, <1>7, <1>8, <1>9, <1>11, <1>12 DEF Inv

(* The arrival of a webhook or of a verify call keeps the invariant.       *)
LEMMA PickUpTxKeeps ==
    ASSUME Inv, NEW r \in Requests, NEW t \in TxRefs, NEW route \in ClaimLocations,
           NEW accepted \in BOOLEAN, accepted => charge[t] # "none",
           PickUpTx(r, t, route, accepted)
    PROVE  Inv'
<1> USE OrderPaymentAssumption DEF Inv
<1>1. UNCHANGED ledgerVars
    BY DEF PickUpTx
<1>13. /\ UNCHANGED <<payment_status, payment_reference, side_effect_runs, target>>
       /\ pc[r] = "idle" /\ pc'[r] \in ClaimLocations \union {"done"}
       /\ \A q \in Requests : q # r => pc'[q] = pc[q] /\ tx'[q] = tx[q]
    BY DEF PickUpTx, At, Goto, orderVars, stockVars, TypeOK
<1>14. /\ pc'[r] \notin {"idle", "debit", "rollback", "effects", "confirm", "credit", "cancel"}
       /\ \A q \in Requests : pc'[q] # pc[q] => q = r
    BY <1>13 DEF ClaimLocations
<1>2. TypeOK'
    <2>1. pc' \in [Requests -> Locations]
        BY ZenonT(60) DEF PickUpTx, Goto, Locations, ClaimLocations, TypeOK
    <2>2. tx' \in [Requests -> TxRefs \union {NULL}]
        BY SMTT(30) DEF PickUpTx, TypeOK
    <2>. QED
        BY <1>1, <2>1, <2>2, WalletFrame DEF PickUpTx, orderVars, stockVars, txVars, TypeOK
<1>3. LedgerChained'
    BY <1>1, WalletFrame DEF PickUpTx, At, Goto, stockVars, txVars, orderVars,
       TypeOK, LedgerChained
<1>4. ChargedAtMostOnce'
    BY <1>1, WalletFrame DEF PickUpTx, At, Goto, stockVars, txVars, orderVars,
       TypeOK, ChargedAtMostOnce
<1>5. MoneyTakenMeansPaid'
    BY <1>1, WalletFrame DEF PickUpTx, At, Goto, stockVars, txVars, orderVars,
       TypeOK, MoneyTakenMeansPaid, ClaimInv, OwnsClaim, RequestsInv
<1>6. TransactionSpentOnce' /\ TransactionsInv'
    <2>1. UNCHANGED <<tx_status, unapplied>>
        BY DEF PickUpTx, txVars
    <2>2. \A x \in TxRefs : charge[x] # "none" => charge'[x] # "none"
        BY DEF PickUpTx, txVars, TypeOK
    <2>3. \A p \in Orders, x \in TxRefs : payment_reference'[p] = x <=> payment_reference[p] = x
        BY DEF PickUpTx, orderVars, TypeOK
    <2>4. \A q \in Requests :
            \/ pc'[q] = pc[q] /\ tx'[q] = tx[q] /\ target'[q] = target[q]
            \/ /\ pc[q] \notin {"confirm", "credit"} /\ pc'[q] \notin {"confirm", "credit"}
               /\ pc'[q] = "effects" => tx'[q] \notin TxRefs
               /\ pc'[q] \in ClaimLocations => tx'[q] \in TxRefs /\ charge'[tx'[q]] # "none"
        BY DEF PickUpTx, At, Goto, ClaimLocations, localVars, txVars, TypeOK
    <2>5. \A x \in TxRefs : TopUpCredits(x)' = TopUpCredits(x)
        BY <1>1, WalletFrame
    <2>. QED
        BY <2>1, <2>2, <2>3, <2>4, <2>5, TransactionsFrame
<1>7. RequestsInv'
    BY <1>13, <1>14 DEF RequestsInv
<1>8. ClaimInv'
    <2>1. \A q \in Requests : pc'[q] \in {"debit", "rollback"} => pc[q] \in {"debit", "rollback"}
        BY <1>13, <1>14
    <2>2. \A q \in Requests : pc[q] \in {"debit", "rollback"} => target[q] \in Orders
        BY DEF RequestsInv
    <2>. QED
        BY <1>1, <1>13, <2>1, <2>2, WalletFrame DEF ClaimInv, OwnsClaim
<1>9. ReferenceInv'
    BY SMTT(30), <1>1, WalletFrame DEF PickUpTx, At, Goto, stockVars, txVars, orderVars,
       TypeOK, ReferenceInv, MoneyTakenMeansPaid, ClaimInv, OwnsClaim,
       RequestsInv, TransactionsInv
<1>11. EffectsInv'
    <2>1. /\ \A q \in Requests : pc'[q] = "effects" => pc[q] = "effects" /\ tx'[q] = tx[q]
          /\ \A q \in Requests : pc[q] = "done" => pc'[q] = "done"
          /\ UNCHANGED <<side_effect_runs, payment_status, payment_reference, target>>
        BY <1>13, <1>14
    <2>2. \A q \in Requests, x \in Requests \union TxRefs \union {NULL} : HoldsTx(q, x)' => HoldsTx(q, x)
        BY <1>13, <1>14 DEF HoldsTx
    <2>3. ASSUME NEW p \in Orders, side_effect_runs[p] = 1
          PROVE  /\ payment_status'[p] = "escrow_held"
                 /\ payment_reference'[p] \in Requests => pc'[payment_reference'[p]] = "done"
                 /\ \A q \in Requests : ~HoldsTx(q, payment_reference[p])'
        BY <2>1, <2>2, <2>3 DEF EffectsInv, TypeOK, HoldsTx
    <2>. QED
        BY <2>1, <2>3 DEF EffectsInv, HoldsTx
<1>12. UnreadInv'
    BY <1>1, WalletFrame
<1>. QED
    BY <1>2, <1>3, <1>4, <1>5, <1>6, <1>7, <1>8, <1>9, <1>11, <1>12 DEF Inv

(* A charge Paystack collects keeps the invariant.                         *)
LEMMA PaystackChargeKeeps ==
    ASSUME Inv, NEW t \in TxRefs, PaystackCharge(t)
    PROVE  Inv'
<1> USE OrderPaymentAssumption DEF Inv
<1>1. UNCHANGED ledgerVars
    BY DEF PaystackCharge
<1>2. TypeOK'
    BY <1>1, WalletFrame DEF PaystackCharge, stockVars, orderVars, localVars,
       TypeOK, Locations, ClaimLocations, OrderStatuses
<1>3. LedgerChained'
    BY <1>1, WalletFrame DEF PaystackCharge, stockVars, orderVars, localVars,
       TypeOK, LedgerChained
<1>4. ChargedAtMostOnce'
    BY <1>1, WalletFrame DEF PaystackCharge, stockVars, orderVars, localVars,
       TypeOK, ChargedAtMostOnce
<1>5. MoneyTakenMeansPaid'
    BY <1>1, WalletFrame DEF PaystackCharge, stockVars, orderVars, localVars,
       TypeOK, MoneyTakenMeansPaid, ClaimInv, OwnsClaim, RequestsInv
<1>6. TransactionSpentOnce' /\ TransactionsInv'
    <2>1. UNCHANGED <<tx_status, unapplied>>
        BY DEF PaystackCharge, txVars
    <2>2. \A x \in TxRefs : charge[x] # "none" => charge'[x] # "none"
        BY DEF PaystackCharge, txVars, TypeOK
    <2>3. \A p \in Orders, x \in TxRefs : payment_reference'[p] = x <=> payment_reference[p] = x
        BY DEF PaystackCharge, orderVars, TypeOK
    <2>4. \A q \in Requests :
            \/ pc'[q] = pc[q] /\ tx'[q] = tx[q] /\ target'[q] = target[q]
            \/ /\ pc[q] \notin {"confirm", "credit"} /\ pc'[q] \notin {"confirm", "credit"}
               /\ pc'[q] = "effects" => tx'[q] \notin TxRefs
               /\ pc'[q] \in ClaimLocations => tx'[q] \in TxRefs /\ charge'[tx'[q]] # "none"
        BY DEF PaystackCharge, At, Goto, ClaimLocations, localVars, txVars, TypeOK
    <2>5. \A x \in TxRefs : TopUpCredits(x)' = TopUpCredits(x)
        BY <1>1, WalletFrame
    <2>. QED
        BY <2>1, <2>2, <2>3, <2>4, <2>5, TransactionsFrame
<1>7. RequestsInv'
    BY <1>1, WalletFrame DEF PaystackCharge, stockVars, orderVars, localVars,
       TypeOK, RequestsInv, TransactionsInv
<1>8. ClaimInv'
    BY <1>1, WalletFrame DEF PaystackCharge, stockVars, orderVars, localVars,
       TypeOK, ClaimInv, OwnsClaim, MoneyTakenMeansPaid, ReferenceInv,
       RequestsInv
<1>9. ReferenceInv'
    BY <1>1, WalletFrame DEF PaystackCharge, stockVars, orderVars, localVars,
       TypeOK, ReferenceInv, MoneyTakenMeansPaid, ClaimInv, OwnsClaim,
       RequestsInv, TransactionsInv
<1>11. EffectsInv'
    BY <1>1, WalletFrame DEF PaystackCharge, stockVars, orderVars, localVars,
       TypeOK, EffectsInv, HoldsTx, RequestsInv, ReferenceInv, ClaimInv,
       OwnsClaim, TransactionsInv
<1>12. UnreadInv'
    BY <1>1, WalletFrame
<1>. QED
    BY <1>2, <1>3, <1>4, <1>5, <1>6, <1>7, <1>8, <1>9, <1>11, <1>12 DEF Inv

(* A refused debit keeps the invariant.                                    *)
LEMMA WalletDebitRefusedKeeps ==
    ASSUME Inv, NEW r \in Requests, WalletDebitRefused(r)
    PROVE  Inv'
<1> USE OrderPaymentAssumption DEF Inv
<1>1. UNCHANGED ledgerVars
    BY DEF WalletDebitRefused
<1>2. TypeOK'
    BY <1>1, WalletFrame DEF WalletDebitRefused, At, Goto, stockVars, txVars,
       orderVars, localVars, TypeOK, Locations, ClaimLocations, OrderStatuses
<1>3. LedgerChained'
    BY <1>1, WalletFrame DEF WalletDebitRefused, At, Goto, stockVars, txVars,
       orderVars, localVars, TypeOK, LedgerChained
<1>4. ChargedAtMostOnce'
    BY <1>1, WalletFrame DEF WalletDebitRefused, At, Goto, stockVars, txVars,
       orderVars, localVars, TypeOK, ChargedAtMostOnce
<1>5. MoneyTakenMeansPaid'
    BY <1>1, WalletFrame DEF WalletDebitRefused, At, Goto, stockVars, txVars,
       orderVars, localVars, TypeOK, MoneyTakenMeansPaid, ClaimInv, OwnsClaim,
       RequestsInv
<1>6. TransactionSpentOnce' /\ TransactionsInv'
    <2>1. UNCHANGED <<tx_status, unapplied>>
        BY DEF WalletDebitRefused, txVars
    <2>2. \A t \in TxRefs : charge[t] # "none" => charge'[t] # "none"
        BY DEF WalletDebitRefused, txVars, TypeOK
    <2>3. \A p \in Orders, t \in TxRefs : payment_reference'[p] = t <=> payment_reference[p] = t
        BY DEF WalletDebitRefused, orderVars, TypeOK
    <2>4. \A q \in Requests :
            \/ pc'[q] = pc[q] /\ tx'[q] = tx[q] /\ target'[q] = target[q]
            \/ /\ pc[q] \notin {"confirm", "credit"} /\ pc'[q] \notin {"confirm", "credit"}
               /\ pc'[q] = "effects" => tx'[q] \notin TxRefs
               /\ pc'[q] \in ClaimLocations => tx'[q] \in TxRefs /\ charge'[tx'[q]] # "none"
        BY DEF WalletDebitRefused, At, Goto, ClaimLocations, localVars, txVars, TypeOK
    <2>5. \A t \in TxRefs : TopUpCredits(t)' = TopUpCredits(t)
        BY <1>1, WalletFrame
    <2>. QED
        BY <2>1, <2>2, <2>3, <2>4, <2>5, TransactionsFrame
<1>7. RequestsInv'
    BY <1>1, WalletFrame DEF WalletDebitRefused, At, Goto, stockVars, txVars,
       orderVars, localVars, TypeOK, RequestsInv, TransactionsInv
<1>8. ClaimInv'
    BY <1>1, WalletFrame DEF WalletDebitRefused, At, Goto, stockVars, txVars,
       orderVars, localVars, TypeOK, ClaimInv, OwnsClaim, MoneyTakenMeansPaid,
       ReferenceInv, RequestsInv
<1>9. ReferenceInv'
    BY <1>1, WalletFrame DEF WalletDebitRefused, At, Goto, stockVars, txVars,
       orderVars, localVars, TypeOK, ReferenceInv, MoneyTakenMeansPaid,
       ClaimInv, OwnsClaim, RequestsInv, TransactionsInv
<1>11. EffectsInv'
    BY <1>1, WalletFrame DEF WalletDebitRefused, At, Goto, stockVars, txVars,
       orderVars, localVars, TypeOK, EffectsInv, HoldsTx, RequestsInv,
       ReferenceInv, ClaimInv, OwnsClaim, TransactionsInv
<1>12. UnreadInv'
    BY <1>1, WalletFrame
<1>. QED
    BY <1>2, <1>3, <1>4, <1>5, <1>6, <1>7, <1>8, <1>9, <1>11, <1>12 DEF Inv

(* The rollback of payOrderFromWallet, of its own claim or of none, keeps  *)
(* the invariant.                                                          *)
LEMMA WalletRollbackKeeps ==
    ASSUME Inv, NEW r \in Requests, WalletRollback(r)
    PROVE  Inv'
<1> USE OrderPaymentAssumption DEF Inv
<1>1. UNCHANGED ledgerVars
    BY DEF WalletRollback
<1>2. TypeOK'
    BY ZenonT(60), <1>1, WalletFrame DEF WalletRollback, At, Goto, stockVars, txVars,
       orderVars, localVars, TypeOK, Locations, ClaimLocations, OrderStatuses
<1>3. LedgerChained'
    BY <1>1, WalletFrame DEF WalletRollback, At, Goto, stockVars, txVars,
       orderVars, localVars, TypeOK, LedgerChained
<1>4. ChargedAtMostOnce'
    BY <1>1, WalletFrame DEF WalletRollback, At, Goto, stockVars, txVars,
       orderVars, localVars, TypeOK, ChargedAtMostOnce
<1>5. MoneyTakenMeansPaid'
    <2> DEFINE o == target[r]
    <2>1. /\ o \in Orders /\ ~Debited(o) /\ OwnsClaim(r, o) /\ pc[r] = "rollback"
        BY DEF WalletRollback, At, ClaimInv, RequestsInv
    <2>2. /\ payment_status' = [payment_status EXCEPT ![o] = "unpaid"]
          /\ payment_reference' = [payment_reference EXCEPT ![o] = NULL]
          /\ pc' = [pc EXCEPT ![r] = "done"] /\ UNCHANGED <<target, tx, tx_status, charge>>
        BY <2>1 DEF WalletRollback, Goto, localVars, txVars
    <2> HIDE DEF o
    <2>. QED
        BY <1>1, <2>1, <2>2, WalletFrame DEF MoneyTakenMeansPaid, TypeOK
<1>6. TransactionSpentOnce' /\ TransactionsInv'
    <2>6. target[r] \in Orders
        BY DEF WalletRollback, At, RequestsInv
    <2>1. UNCHANGED <<tx_status, unapplied>>
        BY DEF WalletRollback, txVars
    <2>2. \A t \in TxRefs : charge[t] # "none" => charge'[t] # "none"
        BY DEF WalletRollback, txVars, TypeOK
    <2>3. \A p \in Orders, t \in TxRefs : payment_reference'[p] = t <=> payment_reference[p] = t
        BY <2>6 DEF WalletRollback, OwnsClaim, orderVars, TypeOK
    <2>4. \A q \in Requests :
            \/ pc'[q] = pc[q] /\ tx'[q] = tx[q] /\ target'[q] = target[q]
            \/ /\ pc[q] \notin {"confirm", "credit"} /\ pc'[q] \notin {"confirm", "credit"}
               /\ pc'[q] = "effects" => tx'[q] \notin TxRefs
               /\ pc'[q] \in ClaimLocations => tx'[q] \in TxRefs /\ charge'[tx'[q]] # "none"
        BY DEF WalletRollback, OwnsClaim, At, Goto, ClaimLocations, localVars, txVars, TypeOK
    <2>5. \A t \in TxRefs : TopUpCredits(t)' = TopUpCredits(t)
        BY <1>1, WalletFrame
    <2>. QED
        BY <2>1, <2>2, <2>3, <2>4, <2>5, TransactionsFrame
<1>7. RequestsInv'
    BY <1>1, WalletFrame DEF WalletRollback, At, Goto, stockVars, txVars,
       orderVars, localVars, TypeOK, RequestsInv, TransactionsInv
<1>8. ClaimInv'
    BY <1>1, WalletFrame DEF WalletRollback, At, Goto, stockVars, txVars,
       orderVars, localVars, TypeOK, ClaimInv, OwnsClaim, MoneyTakenMeansPaid,
       ReferenceInv, RequestsInv
<1>9. ReferenceInv'
    <2> DEFINE o == target[r]
    <2>1. /\ o \in Orders /\ ~Debited(o) /\ OwnsClaim(r, o) /\ pc[r] = "rollback"
        BY DEF WalletRollback, At, ClaimInv, RequestsInv
    <2>2. /\ payment_status' = [payment_status EXCEPT ![o] = "unpaid"]
          /\ payment_reference' = [payment_reference EXCEPT ![o] = NULL]
          /\ pc' = [pc EXCEPT ![r] = "done"] /\ UNCHANGED <<target, tx, tx_status, charge>>
        BY <2>1 DEF WalletRollback, Goto, localVars, txVars
    <2> HIDE DEF o
    <2>3. \A p \in Orders : payment_reference[p] = r => p = o
        BY DEF ReferenceInv, o
    <2>. QED
        BY <1>1, <2>1, <2>2, <2>3, WalletFrame DEF ReferenceInv, TypeOK
<1>11. EffectsInv'
    <2> DEFINE o == target[r]
    <2>1. /\ o \in Orders /\ OwnsClaim(r, o) /\ pc[r] = "rollback"
        BY DEF WalletRollback, At, ClaimInv, RequestsInv
    <2>2. /\ payment_status' = [payment_status EXCEPT ![o] = "unpaid"]
          /\ payment_reference' = [payment_reference EXCEPT ![o] = NULL]
          /\ pc' = [pc EXCEPT ![r] = "done"]
          /\ UNCHANGED <<target, tx, side_effect_runs>>
        BY <2>1 DEF WalletRollback, Goto, localVars, stockVars
    <2> HIDE DEF o
    <2>3. side_effect_runs[o] # 1
        BY <2>1 DEF EffectsInv, OwnsClaim
    <2>4. ASSUME NEW q \in Requests, pc[q] = "effects"
          PROVE  q # r /\ target[q] # o /\ target[q] \in Orders
        BY <2>1, <2>4 DEF EffectsInv, RequestsInv, OwnsClaim, TypeOK
    <2>5. \A q \in Requests : pc'[q] = "effects" <=> pc[q] = "effects"
        BY <2>1, <2>2 DEF TypeOK
    <2>6. \A p \in Orders \ {o} : payment_status'[p] = payment_status[p]
                                  /\ payment_reference'[p] = payment_reference[p]
        BY <2>2
    <2>7. \A q \in Requests : pc[q] = "effects" =>
            /\ side_effect_runs'[target'[q]] = 0
            /\ payment_reference'[target'[q]] = IF tx'[q] = NULL THEN q ELSE tx'[q]
        BY <2>2, <2>4, <2>6 DEF EffectsInv
    <2>8. ASSUME NEW q \in Requests, NEW t, HoldsTx(q, t)'
          PROVE  HoldsTx(q, t)
        BY <2>1, <2>2, <2>8 DEF HoldsTx, TypeOK
    <2>9. ASSUME NEW p \in Orders, side_effect_runs'[p] = 1
          PROVE  /\ payment_status'[p] = "escrow_held"
                 /\ payment_reference'[p] \in Requests => pc'[payment_reference'[p]] = "done"
                 /\ \A q \in Requests : ~HoldsTx(q, payment_reference[p])'
        <3>1. p # o /\ side_effect_runs[p] = 1
            BY <2>2, <2>3, <2>9
        <3>2. payment_status'[p] = payment_status[p]
              /\ payment_reference'[p] = payment_reference[p]
            BY <2>6, <3>1
        <3>. QED
            BY <2>2, <2>8, <3>1, <3>2 DEF EffectsInv, TypeOK, HoldsTx
    <2>10. \A p \in Orders : side_effect_runs'[p] <= 1
        BY <2>2 DEF EffectsInv
    <2>. QED
        BY <2>5, <2>7, <2>9, <2>10 DEF EffectsInv
<1>12. UnreadInv'
    BY <1>1, WalletFrame
<1>. QED
    BY <1>2, <1>3, <1>4, <1>5, <1>6, <1>7, <1>8, <1>9, <1>11, <1>12 DEF Inv

(* The side effects of a paid order keep the invariant.                    *)
LEMMA RunSideEffectsKeeps ==
    ASSUME Inv, NEW r \in Requests, RunSideEffects(r)
    PROVE  Inv'
<1> USE OrderPaymentAssumption DEF Inv
<1>1. UNCHANGED ledgerVars
    BY DEF RunSideEffects
<1>2. TypeOK'
    <2>1. target[r] \in Orders
        BY DEF RunSideEffects, At, RequestsInv
    <2>2. \A l \in Listings : stock[l] \in Nat /\ quantity[target[r]][l] \in Nat
        BY <2>1 DEF TypeOK
    <2>3. stock' \in [Listings -> Nat]
        BY <2>2 DEF RunSideEffects, Shelve
    <2>4. side_effect_runs' \in [Orders -> Nat] /\ pc' \in [Requests -> Locations]
        BY <2>1 DEF RunSideEffects, Goto, Locations, ClaimLocations, TypeOK
    <2>. QED
        BY <1>1, <2>3, <2>4, WalletFrame DEF RunSideEffects, orderVars, txVars, localVars, TypeOK
<1>3. LedgerChained'
    BY <1>1, WalletFrame DEF RunSideEffects, At, Goto, txVars, orderVars,
       localVars, TypeOK, LedgerChained
<1>4. ChargedAtMostOnce'
    BY <1>1, WalletFrame DEF RunSideEffects, At, Goto, txVars, orderVars,
       localVars, TypeOK, ChargedAtMostOnce
<1>5. MoneyTakenMeansPaid'
    BY <1>1, WalletFrame DEF RunSideEffects, At, Goto, txVars, orderVars,
       localVars, TypeOK, MoneyTakenMeansPaid, ClaimInv, OwnsClaim, RequestsInv
<1>6. TransactionSpentOnce' /\ TransactionsInv'
    <2>1. UNCHANGED <<tx_status, unapplied>>
        BY DEF RunSideEffects, txVars
    <2>2. \A t \in TxRefs : charge[t] # "none" => charge'[t] # "none"
        BY DEF RunSideEffects, txVars, TypeOK
    <2>3. \A p \in Orders, t \in TxRefs : payment_reference'[p] = t <=> payment_reference[p] = t
        BY DEF RunSideEffects, orderVars, TypeOK
    <2>4. \A q \in Requests :
            \/ pc'[q] = pc[q] /\ tx'[q] = tx[q] /\ target'[q] = target[q]
            \/ /\ pc[q] \notin {"confirm", "credit"} /\ pc'[q] \notin {"confirm", "credit"}
               /\ pc'[q] = "effects" => tx'[q] \notin TxRefs
               /\ pc'[q] \in ClaimLocations => tx'[q] \in TxRefs /\ charge'[tx'[q]] # "none"
        BY DEF RunSideEffects, At, Goto, ClaimLocations, localVars, txVars, TypeOK
    <2>5. \A t \in TxRefs : TopUpCredits(t)' = TopUpCredits(t)
        BY <1>1, WalletFrame
    <2>. QED
        BY <2>1, <2>2, <2>3, <2>4, <2>5, TransactionsFrame
<1>7. RequestsInv'
    BY <1>1, WalletFrame DEF RunSideEffects, At, Goto, txVars, orderVars,
       localVars, TypeOK, RequestsInv, TransactionsInv
<1>8. ClaimInv'
    BY <1>1, WalletFrame DEF RunSideEffects, At, Goto, txVars, orderVars,
       localVars, TypeOK, ClaimInv, OwnsClaim, MoneyTakenMeansPaid,
       ReferenceInv, RequestsInv
<1>9. ReferenceInv'
    BY <1>1, WalletFrame DEF RunSideEffects, At, Goto, txVars, orderVars,
       localVars, TypeOK, ReferenceInv, MoneyTakenMeansPaid, ClaimInv,
       OwnsClaim, RequestsInv, TransactionsInv
<1>11. EffectsInv'
    BY <1>1, WalletFrame DEF RunSideEffects, At, Goto, txVars, orderVars,
       localVars, TypeOK, EffectsInv, HoldsTx, RequestsInv, ReferenceInv,
       ClaimInv, OwnsClaim, TransactionsInv
<1>12. UnreadInv'
    BY <1>1, WalletFrame
<1>. QED
    BY <1>2, <1>3, <1>4, <1>5, <1>6, <1>7, <1>8, <1>9, <1>11, <1>12 DEF Inv

(* The claim of a Paystack transaction, won or lost, keeps the invariant.  *)
LEMMA ClaimTxKeeps ==
    ASSUME Inv, NEW r \in Requests, NEW route \in ClaimLocations,
           NEW next \in {"confirm", "credit"}, ClaimTx(r, route, next)
    PROVE  Inv'
<1> USE OrderPaymentAssumption DEF Inv
<1>1. UNCHANGED ledgerVars
    BY DEF ClaimTx
<1>2. TypeOK'
    <2>1. tx[r] \in TxRefs
        BY DEF ClaimTx, At, TransactionsInv, ClaimLocations
    <2>2. pc' \in [Requests -> Locations]
        BY DEF ClaimTx, Goto, Locations, ClaimLocations, TypeOK
    <2>3. tx_status' \in [TxRefs -> {"initiated", "success"}]
        BY DEF ClaimTx, TypeOK
    <2>4. target' \in [Requests -> Orders \union {NULL}]
        <3>1. tx_order[tx[r]] \in Orders \union {NULL}
            BY <2>1
        <3>2. \/ target' = [target EXCEPT ![r] = tx_order[tx[r]]]
              \/ target' = target
            BY DEF ClaimTx
        <3>. QED
            BY <3>1, <3>2 DEF TypeOK
    <2>. QED
        BY <1>1, <2>2, <2>3, <2>4, WalletFrame DEF ClaimTx, orderVars, stockVars, TypeOK
<1>3. LedgerChained'
    BY <1>1, WalletFrame DEF ClaimTx, CanClaimTx, At, Goto, ClaimLocations, stockVars,
       orderVars, TypeOK, LedgerChained
<1>4. ChargedAtMostOnce'
    BY <1>1, WalletFrame DEF ClaimTx, CanClaimTx, At, Goto, ClaimLocations, stockVars,
       orderVars, TypeOK, ChargedAtMostOnce
<1>5. MoneyTakenMeansPaid'
    BY <1>1, WalletFrame DEF ClaimTx, CanClaimTx, At, Goto, ClaimLocations, stockVars,
       orderVars, TypeOK, MoneyTakenMeansPaid, ClaimInv, OwnsClaim, RequestsInv
<1>7. RequestsInv'
    BY <1>1, WalletFrame DEF ClaimTx, CanClaimTx, At, Goto, ClaimLocations, stockVars,
       orderVars, TypeOK, RequestsInv, TransactionsInv
<1>8. ClaimInv'
    BY <1>1, WalletFrame DEF ClaimTx, CanClaimTx, At, Goto, ClaimLocations, stockVars,
       orderVars, TypeOK, ClaimInv, OwnsClaim, MoneyTakenMeansPaid,
       ReferenceInv, RequestsInv
<1>9. ReferenceInv'
    BY <1>1, WalletFrame DEF ClaimTx, CanClaimTx, At, Goto, ClaimLocations, stockVars,
       orderVars, TypeOK, ReferenceInv, MoneyTakenMeansPaid, ClaimInv,
       OwnsClaim, RequestsInv, TransactionsInv
<1>10. TransactionSpentOnce' /\ TransactionsInv'
    <2> DEFINE t == tx[r]
    <2>1. /\ t \in TxRefs /\ charge[t] # "none" /\ pc[r] = route
          /\ UNCHANGED <<payment_reference, charge, unapplied, tx>>
        BY DEF ClaimTx, At, TransactionsInv, orderVars
    <2>2. \A x \in TxRefs : TopUpCredits(x)' = TopUpCredits(x)
        BY <1>1, WalletFrame
    <2>3. \A x \in TxRefs : /\ Credited(x)' <=> Credited(x)
                            /\ PaysAnOrder(x)' <=> PaysAnOrder(x)
                            /\ Spent(x)' <=> Spent(x)
        BY <2>1, <2>2, SpentFrame
    <2>4. CASE CanClaimTx(t)
        <3>1. /\ tx_status' = [tx_status EXCEPT ![t] = "success"]
              /\ target' = [target EXCEPT ![r] = tx_order[t]]
              /\ pc' = [pc EXCEPT ![r] = next]
              /\ tx_status[t] = "initiated"
            BY <2>4 DEF ClaimTx, CanClaimTx, Goto
        <3>2. ~Spent(t) /\ t \notin unapplied /\ \A q \in Requests : ~HoldsTx(q, t)
            BY <2>1, <3>1 DEF TransactionSpentOnce, TransactionsInv
        <3> HIDE DEF t
        <3>3. \A q \in Requests, x \in TxRefs :
                HoldsTx(q, x)' => HoldsTx(q, x) \/ (q = r /\ x = t)
            BY <2>1, <3>1 DEF HoldsTx, TypeOK, t
        <3>4. TransactionSpentOnce'
            <4>1. \A q \in Requests, x \in TxRefs :
                    x # t /\ pc[q] \in {"confirm", "credit"} /\ tx[q] = x =>
                      pc'[q] = pc[q] /\ tx'[q] = x
                BY <2>1, <3>1 DEF t, TypeOK
            <4>2. pc'[r] \in {"confirm", "credit"} /\ tx'[r] = t
                BY <2>1, <3>1 DEF TypeOK, t
            <4>3. \A x \in TxRefs : x # t => tx_status'[x] = tx_status[x]
                BY <3>1
            <4>4. tx_status'[t] = "success"
                BY <2>1, <3>1 DEF TypeOK
            <4> SUFFICES ASSUME NEW x \in TxRefs
                         PROVE  /\ \A i, j \in TopUpCredits(x)' : i = j
                                /\ ~(Credited(x)' /\ PaysAnOrder(x)')
                                /\ ~(Spent(x)' /\ x \in unapplied')
                                /\ Spent(x)' \/ x \in unapplied' =>
                                      tx_status'[x] = "success" /\ charge'[x] # "none"
                                /\ tx_status'[x] = "success" =>
                                      \/ Spent(x)'
                                      \/ x \in unapplied'
                                      \/ \E q \in Requests : pc'[q] \in {"confirm", "credit"} /\ tx'[q] = x
                BY DEF TransactionSpentOnce
            <4>5. CASE x = t
                <5>1. /\ ~Spent(x) /\ x \notin unapplied /\ charge[x] # "none"
                      /\ tx_status'[x] = "success"
                    BY <2>1, <3>2, <4>4, <4>5
                <5>2. ~Spent(x)' /\ ~Credited(x)' /\ x \notin unapplied' /\ charge'[x] # "none"
                    BY <2>1, <2>3, <5>1 DEF Spent
                <5>3. \A i, j \in TopUpCredits(x)' : i = j
                    BY <2>2 DEF TransactionSpentOnce
                <5>4. \E q \in Requests : pc'[q] \in {"confirm", "credit"} /\ tx'[q] = x
                    BY <4>2, <4>5
                <5>. QED
                    BY <5>1, <5>2, <5>3, <5>4
            <4>6. CASE x # t
                <5>1. /\ \A i, j \in TopUpCredits(x) : i = j
                      /\ ~(Credited(x) /\ PaysAnOrder(x))
                      /\ ~(Spent(x) /\ x \in unapplied)
                      /\ Spent(x) \/ x \in unapplied =>
                            tx_status[x] = "success" /\ charge[x] # "none"
                      /\ tx_status[x] = "success" =>
                            \/ Spent(x)
                            \/ x \in unapplied
                            \/ \E q \in Requests : pc[q] \in {"confirm", "credit"} /\ tx[q] = x
                    BY DEF TransactionSpentOnce
                <5>2. /\ tx_status'[x] = tx_status[x] /\ charge'[x] = charge[x]
                      /\ unapplied' = unapplied
                    BY <2>1, <4>3, <4>6
                <5>3. (\E q \in Requests : pc[q] \in {"confirm", "credit"} /\ tx[q] = x) =>
                        \E q \in Requests : pc'[q] \in {"confirm", "credit"} /\ tx'[q] = x
                    BY <4>1, <4>6
                <5>4. \A i, j \in TopUpCredits(x)' : i = j
                    BY <2>2, <5>1
                <5>5. /\ Credited(x)' <=> Credited(x)
                      /\ PaysAnOrder(x)' <=> PaysAnOrder(x)
                      /\ Spent(x)' <=> Spent(x)
                    BY <2>3
                <5>. QED
                    BY <5>1, <5>2, <5>3, <5>4, <5>5
            <4>. QED
                BY <4>5, <4>6
        <3>5. TransactionsInv'
            <4> SUFFICES ASSUME NEW q \in Requests
                         PROVE  /\ pc'[q] \in ClaimLocations \union {"confirm", "credit"} =>
                                     tx'[q] \in TxRefs /\ charge'[tx'[q]] # "none"
                                /\ pc'[q] = "confirm" => target'[q] = tx_order[tx'[q]]
                                /\ pc'[q] \in {"confirm", "credit"} =>
                                     ~Spent(tx[q])' /\ tx'[q] \notin unapplied'
                                /\ \A x \in TxRefs : HoldsTx(q, x)' =>
                                     /\ tx_status'[x] = "success"
                                     /\ \A p \in Requests : HoldsTx(p, x)' => p = q
                BY DEF TransactionsInv
            <4>1. q # r => pc'[q] = pc[q] /\ target'[q] = target[q]
                BY <3>1
            <4>2. pc'[q] \in ClaimLocations \union {"confirm", "credit"} =>
                     tx'[q] \in TxRefs /\ charge'[tx'[q]] # "none"
                BY <2>1, <4>1 DEF TransactionsInv, t
            <4>3. pc'[q] = "confirm" => target'[q] = tx_order[tx'[q]]
                BY <2>1, <3>1, <4>1 DEF TransactionsInv, TypeOK, t
            <4>4. ASSUME pc'[q] \in {"confirm", "credit"}
                  PROVE  ~Spent(tx[q])' /\ tx'[q] \notin unapplied'
                <5> DEFINE x == tx[q]
                <5>1. x \in TxRefs /\ ~Spent(x) /\ x \notin unapplied
                    BY <2>1, <3>2, <4>1, <4>4 DEF TransactionsInv, t
                <5>2. tx'[q] = x
                    BY <2>1
                <5> HIDE DEF x
                <5>3. ~Spent(tx[q])'
                    BY <2>3, <5>1, <5>2 DEF Spent, Credited, PaysAnOrder, TopUpCredits
                <5>. QED
                    BY <2>1, <5>1, <5>2, <5>3
            <4>5. \A x \in TxRefs : HoldsTx(q, x)' =>
                     /\ tx_status'[x] = "success"
                     /\ \A p \in Requests : HoldsTx(p, x)' => p = q
                BY <2>1, <3>1, <3>2, <3>3 DEF TransactionsInv, TypeOK
            <4>. QED
                BY <4>2, <4>3, <4>4, <4>5
        <3>. QED
            BY <3>4, <3>5
    <2>5. CASE ~CanClaimTx(t)
        <3>1. /\ UNCHANGED <<tx_status, target>>
              /\ pc' = [pc EXCEPT ![r] = "done"]
            BY <2>5 DEF ClaimTx, Goto
        <3>2. \A q \in Requests :
                \/ pc'[q] = pc[q] /\ tx'[q] = tx[q] /\ target'[q] = target[q]
                \/ /\ pc[q] \notin {"confirm", "credit"} /\ pc'[q] \notin {"confirm", "credit"}
                   /\ pc'[q] = "effects" => tx'[q] \notin TxRefs
                   /\ pc'[q] \in ClaimLocations => tx'[q] \in TxRefs /\ charge'[tx'[q]] # "none"
            BY <2>1, <3>1 DEF ClaimLocations, TypeOK
        <3>. QED
            BY <2>1, <2>2, <3>1, <3>2, TransactionsFrame
    <2>. QED
        BY <2>4, <2>5
<1>11. EffectsInv'
    <2>1. UNCHANGED <<payment_status, payment_reference, side_effect_runs, tx>>
        BY DEF ClaimTx, orderVars, stockVars
    <2>2. ASSUME NEW q \in Requests, pc'[q] = "effects"
          PROVE  pc[q] = "effects" /\ target'[q] = target[q]
        BY <2>2 DEF ClaimTx, At, Goto, ClaimLocations, TypeOK
    <2>3. ASSUME NEW q \in Requests, pc[q] = "done"
          PROVE  pc'[q] = "done"
        BY <2>3 DEF ClaimTx, At, Goto, ClaimLocations, TypeOK
    <2>4. ASSUME NEW q \in Requests, NEW t, HoldsTx(q, t)', ~HoldsTx(q, t)
          PROVE  q = r /\ t = tx[r] /\ CanClaimTx(t)
        BY <2>1, <2>4 DEF ClaimTx, At, Goto, ClaimLocations, HoldsTx, TypeOK
    <2>5. ASSUME NEW p \in Orders, CanClaimTx(tx[r])
          PROVE  payment_reference[p] # tx[r]
        <3>1. tx[r] \in TxRefs
            BY DEF ClaimTx, At, TransactionsInv, ClaimLocations
        <3>. QED
            BY <2>5, <3>1 DEF ReferenceInv, CanClaimTx
    <2>6. \A q \in Requests : pc'[q] = "effects" =>
            /\ side_effect_runs'[target'[q]] = 0
            /\ payment_reference'[target'[q]] = IF tx'[q] = NULL THEN q ELSE tx'[q]
        BY <2>1, <2>2 DEF EffectsInv
    <2>7. ASSUME NEW p \in Orders, side_effect_runs'[p] = 1
          PROVE  /\ payment_status'[p] = "escrow_held"
                 /\ payment_reference'[p] \in Requests => pc'[payment_reference'[p]] = "done"
                 /\ \A q \in Requests : ~HoldsTx(q, payment_reference[p])'
        <3>1. /\ payment_status[p] = "escrow_held"
              /\ payment_reference[p] \in Requests => pc[payment_reference[p]] = "done"
              /\ \A q \in Requests : ~HoldsTx(q, payment_reference[p])
            BY <2>1, <2>7 DEF EffectsInv
        <3>2. \A q \in Requests : ~HoldsTx(q, payment_reference[p])'
            <4>1. ASSUME NEW q \in Requests, NEW t, t = payment_reference[p], HoldsTx(q, t)'
                  PROVE  FALSE
                <5>1. t = tx[r] /\ CanClaimTx(t)
                    BY <2>4, <3>1, <4>1
                <5>. QED
                    BY <2>5, <4>1, <5>1
            <4>2. payment_reference'[p] = payment_reference[p]
                BY <2>1
            <4>. QED
                BY <4>1, <4>2 DEF HoldsTx
        <3>. QED
            BY <2>1, <2>3, <3>1, <3>2
    <2>8. \A p \in Orders : side_effect_runs'[p] <= 1
        BY <2>1 DEF EffectsInv
    <2>. QED
        BY <2>1, <2>6, <2>7, <2>8 DEF EffectsInv
<1>12. UnreadInv'
    BY <1>1, WalletFrame
<1>. QED
    BY <1>2, <1>3, <1>4, <1>5, <1>7, <1>8, <1>9, <1>10, <1>11, <1>12 DEF Inv

(* confirmOrderPayment, whether it wins the order or not, keeps the        *)
(* invariant.                                                              *)
LEMMA ConfirmOrderPaymentKeeps ==
    ASSUME Inv, NEW r \in Requests, ConfirmOrderPayment(r)
    PROVE  Inv'
<1> USE OrderPaymentAssumption DEF Inv
<1>1. UNCHANGED ledgerVars
    BY DEF ConfirmOrderPayment
<1>2. TypeOK'
    <2>1. target[r] \in Orders /\ tx[r] \in Requests \union TxRefs
        BY DEF ConfirmOrderPayment, At, TransactionsInv, TypeOK
    <2>2. OrdersTyped'
        BY <2>1, ClaimTyped, UnchangedTyped DEF ConfirmOrderPayment
    <2>3. pc' \in [Requests -> Locations]
        BY DEF ConfirmOrderPayment, Goto, Locations, ClaimLocations, TypeOK
    <2>4. unapplied' \in SUBSET TxRefs
        BY DEF ConfirmOrderPayment, At, TransactionsInv, TypeOK
    <2>. QED
        BY <1>1, <2>2, <2>3, <2>4, WalletFrame DEF ConfirmOrderPayment, stockVars, localVars,
           OrdersTyped, TypeOK
<1>3. LedgerChained'
    BY <1>1, WalletFrame DEF ConfirmOrderPayment, ClaimOrderForPayment,
       CanClaimOrder, At, Goto, stockVars, txVars, orderVars, localVars, TypeOK,
       LedgerChained
<1>4. ChargedAtMostOnce'
    BY <1>1, WalletFrame DEF ConfirmOrderPayment, ClaimOrderForPayment,
       CanClaimOrder, At, Goto, stockVars, txVars, orderVars, localVars, TypeOK,
       ChargedAtMostOnce
<1>5. MoneyTakenMeansPaid'
    <2>1. \A p \in Orders : Debited(p)' = Debited(p)
        BY <1>1, WalletFrame
    <2>2. \A p \in Orders : Debited(p) => payment_status[p] = "escrow_held"
                                          /\ payment_reference[p] \in Requests
        BY DEF MoneyTakenMeansPaid
    <2>3. ASSUME NEW p \in Orders, payment_status[p] = "escrow_held"
          PROVE  /\ payment_status'[p] = payment_status[p]
                 /\ payment_reference'[p] = payment_reference[p]
        BY <2>3 DEF ConfirmOrderPayment, ClaimOrderForPayment, CanClaimOrder, orderVars, TypeOK
    <2>. QED
        BY <2>1, <2>2, <2>3 DEF MoneyTakenMeansPaid
<1>7. RequestsInv'
    BY <1>1, WalletFrame DEF ConfirmOrderPayment, ClaimOrderForPayment,
       CanClaimOrder, At, Goto, stockVars, txVars, orderVars, localVars, TypeOK,
       RequestsInv, TransactionsInv
<1>8. ClaimInv'
    BY <1>1, WalletFrame DEF ConfirmOrderPayment, ClaimOrderForPayment,
       CanClaimOrder, At, Goto, stockVars, txVars, orderVars, localVars, TypeOK,
       ClaimInv, OwnsClaim, MoneyTakenMeansPaid, ReferenceInv, RequestsInv
<1>9. ReferenceInv'
    <2> DEFINE o == target[r]
               t == tx[r]
    <2>1. /\ o \in Orders /\ t \in TxRefs /\ pc[r] = "confirm" /\ tx_order[t] = o
          /\ charge[t] # "none" /\ tx_status[t] = "success"
          /\ \A q \in Requests : HoldsTx(q, t) => q = r
          /\ \A p \in Orders : payment_reference[p] # t
        BY DEF ConfirmOrderPayment, At, TransactionsInv, HoldsTx, Spent, PaysAnOrder, TypeOK
    <2>2. UNCHANGED <<target, tx, tx_status, charge, side_effect_runs>>
        BY DEF ConfirmOrderPayment, localVars, stockVars
    <2> HIDE DEF o, t
    <2>3. CASE CanClaimOrder(o)
        <3>1. /\ payment_status' = [payment_status EXCEPT ![o] = "escrow_held"]
              /\ payment_reference' = [payment_reference EXCEPT ![o] = t]
              /\ pc' = [pc EXCEPT ![r] = "effects"]
              /\ payment_status[o] = "unpaid" /\ ~Debited(o) /\ side_effect_runs[o] # 1
            BY <2>1, <2>3 DEF ConfirmOrderPayment, ClaimOrderForPayment, CanClaimOrder, Goto, o, t,
                         MoneyTakenMeansPaid, EffectsInv
        <3>. QED
            BY <1>1, <2>1, <2>2, <3>1, WalletFrame DEF ReferenceInv, TypeOK
    <2>4. CASE ~CanClaimOrder(o)
        <3>1. /\ UNCHANGED <<payment_status, payment_reference>>
              /\ pc' = [pc EXCEPT ![r] = "done"]
            BY <2>4 DEF ConfirmOrderPayment, ClaimOrderForPayment, Goto, orderVars, o
        <3>. QED
            BY <1>1, <2>1, <2>2, <3>1, WalletFrame DEF ReferenceInv, TypeOK
    <2>. QED
        BY <2>3, <2>4
<1>10. TransactionSpentOnce' /\ TransactionsInv'
    <2> DEFINE o == target[r]
    <2>1. /\ o \in Orders /\ tx[r] \in TxRefs /\ pc[r] = "confirm"
          /\ ~Spent(tx[r]) /\ tx[r] \notin unapplied
          /\ UNCHANGED <<tx, target, tx_status, charge>>
        BY DEF ConfirmOrderPayment, At, TransactionsInv, localVars, TypeOK
    <2>2. PICK t \in TxRefs : t = tx[r]
        BY <2>1
    <2>3. ~Spent(t) /\ t \notin unapplied /\ TopUpCredits(t) = {} /\ ~PaysAnOrder(t)
        BY <2>1, <2>2 DEF Spent, Credited
    <2>4. \A x \in TxRefs : TopUpCredits(x)' = TopUpCredits(x)
        BY <1>1, WalletFrame
    <2>5. TopUpCredits(t)' = {} /\ ~Credited(t)'
        BY <2>3, <2>4 DEF Credited
    <2>6. CASE CanClaimOrder(o)
        <3>1. /\ payment_reference' = [payment_reference EXCEPT ![o] = t]
              /\ pc' = [pc EXCEPT ![r] = "effects"] /\ unapplied' = unapplied
              /\ payment_reference[o] = NULL
            BY <2>1, <2>2, <2>6 DEF ConfirmOrderPayment, ClaimOrderForPayment, CanClaimOrder,
               Goto, ReferenceInv
        <3> HIDE DEF o
        <3>2. \A x \in TxRefs \ {t} : PaysAnOrder(x)' <=> PaysAnOrder(x)
            BY <2>1, <3>1 DEF PaysAnOrder, TypeOK
        <3>3. PaysAnOrder(t)'
            BY <2>1, <3>1 DEF PaysAnOrder, TypeOK
        <3>4. Spent(t)' /\ t \notin unapplied'
            BY <2>3, <3>1, <3>3 DEF Spent
        <3>. QED
            BY <2>1, <2>2, <2>4, <2>5, <3>1, <3>2, <3>4, TransactionEnds
    <2>7. CASE ~CanClaimOrder(o)
        <3>1. /\ UNCHANGED payment_reference
              /\ unapplied' = unapplied \union {t}
              /\ pc' = [pc EXCEPT ![r] = "done"]
            BY <2>2, <2>7 DEF ConfirmOrderPayment, ClaimOrderForPayment, Goto, orderVars
        <3>2. \A x \in TxRefs : PaysAnOrder(x)' <=> PaysAnOrder(x)
            BY <3>1 DEF PaysAnOrder
        <3>3. ~Spent(t)' /\ t \in unapplied'
            BY <2>3, <2>5, <3>1, <3>2 DEF Spent
        <3>. QED
            BY <2>1, <2>2, <2>4, <2>5, <3>1, <3>2, <3>3, TransactionEnds
    <2>. QED
        BY <2>6, <2>7
<1>11. EffectsInv'
    <2> DEFINE o == target[r]
               t == tx[r]
    <2>1. /\ o \in Orders /\ t \in TxRefs /\ pc[r] = "confirm"
          /\ \A q \in Requests : HoldsTx(q, t) => q = r
          /\ \A p \in Orders : payment_reference[p] # t
        BY DEF ConfirmOrderPayment, At, TransactionsInv, HoldsTx, Spent, PaysAnOrder, TypeOK
    <2>2. UNCHANGED <<target, tx, side_effect_runs>>
        BY DEF ConfirmOrderPayment, localVars, stockVars
    <2>3. CASE CanClaimOrder(o)
        <3>1. /\ payment_status' = [payment_status EXCEPT ![o] = "escrow_held"]
              /\ payment_reference' = [payment_reference EXCEPT ![o] = t]
              /\ pc' = [pc EXCEPT ![r] = "effects"]
              /\ payment_status[o] = "unpaid" /\ payment_reference[o] = NULL
            BY <2>1, <2>3 DEF ConfirmOrderPayment, ClaimOrderForPayment, CanClaimOrder, Goto,
               ReferenceInv
        <3>2. side_effect_runs[o] = 0
            <4>1. side_effect_runs[o] \in Nat /\ side_effect_runs[o] <= 1
                BY <2>1 DEF EffectsInv, TypeOK
            <4>2. side_effect_runs[o] = 1 => payment_status[o] = "escrow_held"
                BY <2>1 DEF EffectsInv
            <4>3. side_effect_runs[o] # 1
                BY <3>1, <4>2
            <4>4. \A n \in Nat : n <= 1 /\ n # 1 => n = 0
                OBVIOUS
            <4>. QED
                BY <4>1, <4>3, <4>4
        <3>3. ASSUME NEW q \in Requests, pc'[q] = "effects"
              PROVE  /\ side_effect_runs'[target'[q]] = 0
                     /\ payment_reference'[target'[q]] = IF tx'[q] = NULL THEN q ELSE tx'[q]
            BY <2>1, <2>2, <3>1, <3>2, <3>3 DEF EffectsInv, RequestsInv, TypeOK
        <3>4. ASSUME NEW p \in Orders, side_effect_runs'[p] = 1
              PROVE  /\ payment_status'[p] = "escrow_held"
                     /\ payment_reference'[p] \in Requests => pc'[payment_reference'[p]] = "done"
                     /\ \A q \in Requests : ~HoldsTx(q, payment_reference[p])'
            BY <2>1, <2>2, <3>1, <3>2, <3>4 DEF EffectsInv, HoldsTx, TypeOK
        <3>. QED
            BY <2>2, <3>3, <3>4 DEF EffectsInv, HoldsTx
    <2>4. CASE ~CanClaimOrder(o)
        <3>1. /\ UNCHANGED <<payment_status, payment_reference>>
              /\ pc' = [pc EXCEPT ![r] = "done"]
            BY <2>4 DEF ConfirmOrderPayment, ClaimOrderForPayment, Goto, orderVars
        <3>. QED
            BY <2>1, <2>2, <3>1 DEF EffectsInv, HoldsTx, RequestsInv, TypeOK
    <2>. QED
        BY <2>3, <2>4
<1>12. UnreadInv'
    BY <1>1, WalletFrame
<1>. QED
    BY <1>2, <1>3, <1>4, <1>5, <1>7, <1>8, <1>9, <1>10, <1>11, <1>12 DEF Inv

(* A top-up that was taken to the orders' route is left unapplied, and     *)
(* keeps the invariant.                                                    *)
LEMMA OrderNotFoundKeeps ==
    ASSUME Inv, NEW r \in Requests, OrderNotFound(r)
    PROVE  Inv'
<1> USE OrderPaymentAssumption DEF Inv
<1> DEFINE t == tx[r]
<1>1. /\ UNCHANGED ledgerVars
      /\ UNCHANGED <<order_status, payment_status, payment_reference, stock, restocks,
                     side_effect_runs, tx_status, charge, target, tx, was_paid, crashed>>
      /\ pc' = [pc EXCEPT ![r] = "done"] /\ unapplied' = unapplied \union {t}
    BY DEF OrderNotFound, Goto, orderVars, stockVars, localVars
<1>2. /\ t \in TxRefs /\ pc[r] = "confirm"
      /\ ~Spent(t) /\ t \notin unapplied
    BY DEF OrderNotFound, At, TransactionsInv
<1>3. TypeOK'
    <2>1. pc' \in [Requests -> Locations] /\ unapplied' \in SUBSET TxRefs
        BY <1>1, <1>2 DEF Locations, ClaimLocations, TypeOK
    <2>. QED
        BY <1>1, <2>1, WalletFrame DEF TypeOK
<1>4. LedgerChained' /\ UnreadInv' /\ ChargedAtMostOnce' /\ MoneyTakenMeansPaid'
    BY <1>1, WalletFrame DEF ChargedAtMostOnce, MoneyTakenMeansPaid
<1>5. \A q \in Requests : pc'[q] = pc[q] \/ (q = r /\ pc'[q] = "done" /\ pc[q] = "confirm")
    BY <1>1, <1>2 DEF TypeOK
<1>6. RequestsInv' /\ ClaimInv'
    BY <1>1, <1>5, WalletFrame DEF RequestsInv, ClaimInv, OwnsClaim
<1>7. ReferenceInv'
    BY <1>1, <1>5, WalletFrame DEF ReferenceInv
<1>8. EffectsInv'
    BY <1>1, <1>5 DEF EffectsInv, HoldsTx
<1>9. TransactionSpentOnce' /\ TransactionsInv'
    <2>1. PICK x \in TxRefs : x = tx[r]
        BY <1>2
    <2>2. \A y \in TxRefs : TopUpCredits(y)' = TopUpCredits(y)
        BY <1>1, WalletFrame
    <2>3. \A y \in TxRefs : PaysAnOrder(y)' <=> PaysAnOrder(y)
        BY <1>1 DEF PaysAnOrder
    <2>4. TopUpCredits(x) = {} /\ ~PaysAnOrder(x)
        BY <1>2, <2>1 DEF Spent, Credited
    <2>5. TopUpCredits(x)' = {} /\ ~Credited(x)' /\ ~Spent(x)' /\ x \in unapplied'
        BY <1>1, <2>1, <2>2, <2>3, <2>4 DEF Spent, Credited
    <2>. QED
        BY <1>1, <1>2, <2>1, <2>2, <2>3, <2>5, TransactionEnds
<1>. QED
    BY <1>3, <1>4, <1>6, <1>7, <1>8, <1>9

(* cancelOrder's batch keeps the invariant.                                *)
LEMMA CancelWriteKeeps ==
    ASSUME Inv, NEW r \in Requests, CancelWrite(r)
    PROVE  Inv'
<1> USE OrderPaymentAssumption DEF Inv
<1>1. UNCHANGED ledgerVars
    BY DEF CancelWrite
<1>2. TypeOK'
    <2>1. target[r] \in Orders
        BY DEF CancelWrite, At, RequestsInv
    <2>2. \A l \in Listings : stock[l] \in Nat /\ quantity[target[r]][l] \in Nat
        BY <2>1 DEF TypeOK
    <2>3. stock' \in [Listings -> Nat]
        <3>1. CASE was_paid[r]
            BY <2>2, <3>1 DEF CancelWrite
        <3>2. CASE ~was_paid[r]
            BY <3>2 DEF CancelWrite, TypeOK
        <3>. QED
            BY <3>1, <3>2
    <2>4. restocks' \in [Orders -> Nat]
        <3>1. CASE was_paid[r]
            <4>1. restocks' = [restocks EXCEPT ![target[r]] = @ + 1]
                BY <3>1 DEF CancelWrite
            <4>. QED
                BY <2>1, <4>1 DEF TypeOK
        <3>2. CASE ~was_paid[r]
            BY <3>2 DEF CancelWrite, TypeOK
        <3>. QED
            BY <3>1, <3>2
    <2>5. pc' \in [Requests -> Locations] /\ order_status' \in [Orders -> OrderStatuses]
        BY DEF CancelWrite, Goto, Locations, ClaimLocations, OrderStatuses, TypeOK
    <2>. QED
        BY <1>1, <2>3, <2>4, <2>5, WalletFrame DEF CancelWrite, txVars, localVars, TypeOK
<1>3. LedgerChained'
    BY <1>1, WalletFrame DEF CancelWrite, At, Goto, txVars, localVars, TypeOK,
       LedgerChained
<1>4. ChargedAtMostOnce'
    BY <1>1, WalletFrame DEF CancelWrite, At, Goto, txVars, localVars, TypeOK,
       ChargedAtMostOnce
<1>5. MoneyTakenMeansPaid'
    BY <1>1, WalletFrame DEF CancelWrite, At, Goto, txVars, localVars, TypeOK,
       MoneyTakenMeansPaid, ClaimInv, OwnsClaim, RequestsInv
<1>6. TransactionSpentOnce' /\ TransactionsInv'
    <2>1. UNCHANGED <<tx_status, unapplied>>
        BY DEF CancelWrite, txVars
    <2>2. \A t \in TxRefs : charge[t] # "none" => charge'[t] # "none"
        BY DEF CancelWrite, txVars, TypeOK
    <2>3. \A p \in Orders, t \in TxRefs : payment_reference'[p] = t <=> payment_reference[p] = t
        BY DEF CancelWrite, orderVars, TypeOK
    <2>4. \A q \in Requests :
            \/ pc'[q] = pc[q] /\ tx'[q] = tx[q] /\ target'[q] = target[q]
            \/ /\ pc[q] \notin {"confirm", "credit"} /\ pc'[q] \notin {"confirm", "credit"}
               /\ pc'[q] = "effects" => tx'[q] \notin TxRefs
               /\ pc'[q] \in ClaimLocations => tx'[q] \in TxRefs /\ charge'[tx'[q]] # "none"
        BY DEF CancelWrite, At, Goto, ClaimLocations, localVars, txVars, TypeOK
    <2>5. \A t \in TxRefs : TopUpCredits(t)' = TopUpCredits(t)
        BY <1>1, WalletFrame
    <2>. QED
        BY <2>1, <2>2, <2>3, <2>4, <2>5, TransactionsFrame
<1>7. RequestsInv'
    BY <1>1, WalletFrame DEF CancelWrite, At, Goto, txVars, localVars, TypeOK,
       RequestsInv, TransactionsInv
<1>8. ClaimInv'
    BY <1>1, WalletFrame DEF CancelWrite, At, Goto, txVars, localVars, TypeOK,
       ClaimInv, OwnsClaim, MoneyTakenMeansPaid, ReferenceInv, RequestsInv
<1>9. ReferenceInv'
    BY <1>1, WalletFrame DEF CancelWrite, At, Goto, txVars, localVars, TypeOK,
       ReferenceInv, MoneyTakenMeansPaid, ClaimInv, OwnsClaim, RequestsInv,
       TransactionsInv
<1>11. EffectsInv'
    BY <1>1, WalletFrame DEF CancelWrite, At, Goto, txVars, localVars, TypeOK,
       EffectsInv, HoldsTx, RequestsInv, ReferenceInv, ClaimInv, OwnsClaim,
       TransactionsInv
<1>12. UnreadInv'
    BY <1>1, WalletFrame
<1>. QED
    BY <1>2, <1>3, <1>4, <1>5, <1>6, <1>7, <1>8, <1>9, <1>11, <1>12 DEF Inv

(* A Worker that dies keeps the invariant.                                 *)
LEMMA CrashKeeps ==
    ASSUME Inv, NEW r \in Requests, Crash(r)
    PROVE  Inv'
<1> USE OrderPaymentAssumption DEF Inv
<1>1. UNCHANGED ledgerVars
    BY DEF Crash
<1>2. TypeOK'
    BY <1>1, WalletFrame DEF Crash, stockVars, txVars, orderVars, localVars,
       TypeOK, Locations, ClaimLocations, OrderStatuses
<1>3. LedgerChained'
    BY <1>1, WalletFrame DEF Crash, stockVars, txVars, orderVars, localVars,
       TypeOK, LedgerChained
<1>4. ChargedAtMostOnce'
    BY <1>1, WalletFrame DEF Crash, stockVars, txVars, orderVars, localVars,
       TypeOK, ChargedAtMostOnce
<1>5. MoneyTakenMeansPaid'
    BY <1>1, WalletFrame DEF Crash, stockVars, txVars, orderVars, localVars,
       TypeOK, MoneyTakenMeansPaid, ClaimInv, OwnsClaim, RequestsInv
<1>6. TransactionSpentOnce' /\ TransactionsInv'
    <2>1. UNCHANGED <<tx_status, unapplied>>
        BY DEF Crash, txVars
    <2>2. \A t \in TxRefs : charge[t] # "none" => charge'[t] # "none"
        BY DEF Crash, txVars, TypeOK
    <2>3. \A p \in Orders, t \in TxRefs : payment_reference'[p] = t <=> payment_reference[p] = t
        BY DEF Crash, orderVars, TypeOK
    <2>4. \A q \in Requests :
            \/ pc'[q] = pc[q] /\ tx'[q] = tx[q] /\ target'[q] = target[q]
            \/ /\ pc[q] \notin {"confirm", "credit"} /\ pc'[q] \notin {"confirm", "credit"}
               /\ pc'[q] = "effects" => tx'[q] \notin TxRefs
               /\ pc'[q] \in ClaimLocations => tx'[q] \in TxRefs /\ charge'[tx'[q]] # "none"
        BY DEF Crash, At, Goto, ClaimLocations, localVars, txVars, TypeOK
    <2>5. \A t \in TxRefs : TopUpCredits(t)' = TopUpCredits(t)
        BY <1>1, WalletFrame
    <2>. QED
        BY <2>1, <2>2, <2>3, <2>4, <2>5, TransactionsFrame
<1>7. RequestsInv'
    BY <1>1, WalletFrame DEF Crash, stockVars, txVars, orderVars, localVars,
       TypeOK, RequestsInv, TransactionsInv
<1>8. ClaimInv'
    BY <1>1, WalletFrame DEF Crash, stockVars, txVars, orderVars, localVars,
       TypeOK, ClaimInv, OwnsClaim, MoneyTakenMeansPaid, ReferenceInv,
       RequestsInv
<1>9. ReferenceInv'
    BY <1>1, WalletFrame DEF Crash, stockVars, txVars, orderVars, localVars,
       TypeOK, ReferenceInv, MoneyTakenMeansPaid, ClaimInv, OwnsClaim,
       RequestsInv, TransactionsInv
<1>11. EffectsInv'
    BY <1>1, WalletFrame DEF Crash, stockVars, txVars, orderVars, localVars,
       TypeOK, EffectsInv, HoldsTx, RequestsInv, ReferenceInv, ClaimInv,
       OwnsClaim, TransactionsInv
<1>12. UnreadInv'
    BY <1>1, WalletFrame
<1>. QED
    BY <1>2, <1>3, <1>4, <1>5, <1>6, <1>7, <1>8, <1>9, <1>11, <1>12 DEF Inv

-----------------------------------------------------------------------------
(* What a debit finds and does: the order was claimed by this request and  *)
(* not charged, and gets the one new row of the ledger.                    *)
LEMMA DebitFacts ==
    ASSUME Inv, NEW r \in Requests, WalletDebit(r)
    PROVE  LET o == target[r]
               n == Len(wallet_ledger[owner[o]]) + 1
           IN
           /\ pc[r] = "debit" /\ o \in Orders /\ tx[r] = NULL
           /\ payment_status[o] = "escrow_held" /\ payment_reference[o] = r
           /\ ~Debited(o)
           /\ n \in Nat
           /\ n \notin OrderDebits(o)
           /\ WalletTypeOK'
           /\ LedgerChained'
           /\ \A p \in Orders :
                OrderDebits(p)' = IF p = o THEN OrderDebits(p) \union {n} ELSE OrderDebits(p)
           /\ \A t \in TxRefs : TopUpCredits(t)' = TopUpCredits(t)
<1> USE OrderPaymentAssumption DEF Inv
<1> DEFINE o == target[r]
           n == Len(wallet_ledger[owner[o]]) + 1
<1>1. /\ pc[r] = "debit" /\ o \in Orders /\ tx[r] = NULL
      /\ payment_status[o] = "escrow_held" /\ payment_reference[o] = r
      /\ ~Debited(o)
    BY DEF WalletDebit, At, RequestsInv, ClaimInv, OwnsClaim
<1>2. Len(wallet_ledger[owner[o]]) \in Nat
    BY <1>1 DEF TypeOK, WalletTypeOK
<1>3. /\ WalletTypeOK'
      /\ LedgerChained'
      /\ \A v \in Users, t \in ReferenceTypes, i \in ReferenceIds :
           EntriesFor(v, t, i)' =
             IF v = owner[o] /\ "order_payment" = t /\ o = i
             THEN EntriesFor(v, t, i) \union {n}
             ELSE EntriesFor(v, t, i)
    <2>1. /\ WalletTypeOK /\ LedgerChained
          /\ owner[o] \in Users /\ total[o] \in Nat /\ o \in ReferenceIds
          /\ "order_payment" \in ReferenceTypes
        BY <1>1 DEF TypeOK, ReferenceTypes
    <2>2. DebitWallet(owner[o], total[o], "order_payment", o)
        BY DEF WalletDebit
    <2> HIDE DEF o
    <2>. QED
        BY <2>1, <2>2, DebitWalletLemma
<1>4. n \notin OrderDebits(o)
    BY <1>2 DEF OrderDebits, EntriesFor, RowsWith
<1>5. ASSUME NEW p \in Orders
      PROVE  OrderDebits(p)' = IF p = o THEN OrderDebits(p) \union {n} ELSE OrderDebits(p)
    <2>1. owner[p] \in Users /\ p \in ReferenceIds /\ "order_payment" \in ReferenceTypes
        BY DEF ReferenceTypes
    <2>. QED
        BY <1>3, <2>1 DEF OrderDebits
<1>6. ASSUME NEW t \in TxRefs
      PROVE  TopUpCredits(t)' = TopUpCredits(t)
    <2>1. tx_user[t] \in Users /\ t \in ReferenceIds /\ "topup" \in ReferenceTypes
        BY DEF ReferenceTypes
    <2>. QED
        BY <1>3, <2>1 DEF TopUpCredits
<1>. QED
    BY <1>1, <1>2, <1>3, <1>4, <1>5, <1>6

(* The two outcomes of a debit: its balance is read back, or it is not.    *)
DebitTold(r) ==
    /\ WalletDebit(r)
    /\ pc' = [pc EXCEPT ![r] = "effects"]
    /\ unread' = unread

DebitUntold(r) ==
    /\ WalletDebit(r)
    /\ pc' = [pc EXCEPT ![r] = "rollback"]
    /\ unread' = [unread EXCEPT ![target[r]] =
                    @ \union {Len(wallet_ledger[owner[target[r]]]) + 1}]

LEMMA DebitOutcomes ==
    ASSUME NEW r \in Requests, WalletDebit(r)
    PROVE  DebitTold(r) \/ DebitUntold(r)
BY DEF WalletDebit, DebitTold, DebitUntold, Goto

(* A debit whose caller is told is the order's one charge; one whose       *)
(* caller is not told is none.                                             *)
LEMMA ToldCharges ==
    ASSUME Inv, NEW r \in Requests, DebitTold(r)
    PROVE  LET o == target[r]
               n == Len(wallet_ledger[owner[o]]) + 1
           IN
           /\ \A p \in Orders : Charges(p)' = IF p = o THEN {n} ELSE Charges(p)
           /\ UnreadInv'
<1> DEFINE o == target[r]
           n == Len(wallet_ledger[owner[o]]) + 1
<1>1. /\ o \in Orders
      /\ ~Debited(o)
      /\ n \notin OrderDebits(o)
      /\ \A p \in Orders :
           OrderDebits(p)' = IF p = o THEN OrderDebits(p) \union {n} ELSE OrderDebits(p)
    BY DebitFacts DEF DebitTold
<1>2. unread' = unread
    BY DEF DebitTold
<1>3. \A p \in Orders : unread[p] \subseteq OrderDebits(p) /\ IsFiniteSet(unread[p])
    BY DEF Inv, UnreadInv
<1> HIDE DEF o, n
<1>4. \A p \in Orders : p # o => Charges(p)' = Charges(p)
    BY <1>1, <1>2 DEF Charges
<1>5. \A p \in Orders : p = o => Charges(p)' = {n}
    BY <1>1, <1>2, <1>3 DEF Charges, Debited
<1>6. UnreadInv'
    BY <1>1, <1>2, <1>3 DEF UnreadInv
<1>. QED
    BY <1>4, <1>5, <1>6 DEF o, n

LEMMA UntoldCharges ==
    ASSUME Inv, NEW r \in Requests, DebitUntold(r)
    PROVE  /\ \A p \in Orders : Charges(p)' = Charges(p)
           /\ \A p \in Orders : Cardinality(unread[p])' =
                IF p = target[r] THEN Cardinality(unread[p]) + 1 ELSE Cardinality(unread[p])
           /\ unread' \in [Orders -> SUBSET Nat]
           /\ UnreadInv'
<1> DEFINE o == target[r]
           n == Len(wallet_ledger[owner[o]]) + 1
<1>1. /\ o \in Orders
      /\ ~Debited(o)
      /\ n \in Nat
      /\ n \notin OrderDebits(o)
      /\ \A p \in Orders :
           OrderDebits(p)' = IF p = o THEN OrderDebits(p) \union {n} ELSE OrderDebits(p)
    BY DebitFacts DEF DebitUntold
<1>2. unread' = [unread EXCEPT ![o] = @ \union {n}] /\ unread \in [Orders -> SUBSET Nat]
    BY DEF DebitUntold, Inv, TypeOK
<1>3. \A p \in Orders : unread[p] \subseteq OrderDebits(p) /\ IsFiniteSet(unread[p])
    BY DEF Inv, UnreadInv
<1> HIDE DEF o, n
<1>4. \A p \in Orders : unread'[p] = IF p = o THEN unread[p] \union {n} ELSE unread[p]
    BY <1>2
<1>5. \A p \in Orders : Charges(p)' = Charges(p)
    BY <1>1, <1>4 DEF Charges, Debited
<1>6. /\ IsFiniteSet(unread[o] \union {n})
      /\ Cardinality(unread[o] \union {n}) = Cardinality(unread[o]) + 1
    BY <1>1, <1>3, FS_AddElement
<1>7. UnreadInv'
    BY ZenonT(60), <1>1, <1>3, <1>4, <1>6 DEF UnreadInv
<1>8. \A p \in Orders : Cardinality(unread'[p]) =
        IF p = o THEN Cardinality(unread[p]) + 1 ELSE Cardinality(unread[p])
    BY <1>4, <1>6
<1>9. unread' \in [Orders -> SUBSET Nat]
    BY <1>1, <1>2
<1>. QED
    BY <1>5, <1>7, <1>8, <1>9 DEF o

(* A debit whose caller is told keeps the invariant. *)
LEMMA DebitToldKeeps ==
    ASSUME Inv, NEW r \in Requests, DebitTold(r)
    PROVE  Inv'
<1> USE OrderPaymentAssumption DEF Inv
<1> DEFINE o == target[r]
           n == Len(wallet_ledger[owner[o]]) + 1
<1>1. /\ pc[r] = "debit" /\ o \in Orders /\ tx[r] = NULL
      /\ payment_status[o] = "escrow_held" /\ payment_reference[o] = r
      /\ ~Debited(o)
    BY DebitFacts DEF DebitTold
<1>2. /\ pc' = [pc EXCEPT ![r] = "effects"] /\ unread' = unread
      /\ UNCHANGED <<orderVars, stockVars, txVars, localVars, crashed>>
    BY DEF DebitTold, WalletDebit
<1>3. WalletTypeOK' /\ LedgerChained'
    BY DebitFacts DEF DebitTold
<1>4. UnreadInv' /\ \A p \in Orders : Charges(p)' = IF p = o THEN {n} ELSE Charges(p)
    BY ToldCharges
<1>5. \A t \in TxRefs : TopUpCredits(t)' = TopUpCredits(t)
    BY DebitFacts DEF DebitTold
<1>6. /\ \A p \in Orders : Debited(p)' <=> Debited(p) \/ p = o
      /\ \A t \in TxRefs : Credited(t)' <=> Credited(t)
    BY <1>4, <1>5 DEF Debited, Credited
<1> HIDE DEF o, n
<1>7. TypeOK'
    <2>1. pc' \in [Requests -> Locations]
        BY <1>2 DEF Locations, ClaimLocations, TypeOK
    <2>. QED
        BY <1>2, <1>3, <2>1 DEF orderVars, stockVars, txVars, localVars, TypeOK
<1>8. ChargedAtMostOnce'
    BY <1>4 DEF ChargedAtMostOnce
<1>9. MoneyTakenMeansPaid'
    BY <1>1, <1>2, <1>6 DEF MoneyTakenMeansPaid, orderVars
<1>10. TransactionSpentOnce' /\ TransactionsInv'
    <2>1. UNCHANGED <<tx_status, unapplied, charge, payment_reference>>
        BY <1>2 DEF txVars, orderVars
    <2>2. \A q \in Requests :
            \/ pc'[q] = pc[q] /\ tx'[q] = tx[q] /\ target'[q] = target[q]
            \/ /\ pc[q] \notin {"confirm", "credit"} /\ pc'[q] \notin {"confirm", "credit"}
               /\ pc'[q] = "effects" => tx'[q] \notin TxRefs
               /\ pc'[q] \in ClaimLocations => tx'[q] \in TxRefs /\ charge'[tx'[q]] # "none"
        BY <1>1, <1>2 DEF ClaimLocations, localVars, TypeOK
    <2>. QED
        BY <1>5, <2>1, <2>2, TransactionsFrame
<1>11. RequestsInv'
    BY <1>1, <1>2 DEF RequestsInv, localVars, TypeOK
<1>12. ClaimInv'
    BY <1>1, <1>2, <1>6 DEF ClaimInv, OwnsClaim, ReferenceInv, RequestsInv, orderVars, localVars, TypeOK
<1>13. ReferenceInv'
    BY <1>1, <1>2, <1>6 DEF ReferenceInv, orderVars, txVars, localVars, TypeOK, o
<1>15. EffectsInv'
    <2>1. side_effect_runs[o] = 0
        <3>1. side_effect_runs[o] \in Nat /\ side_effect_runs[o] <= 1
            BY <1>1 DEF EffectsInv, TypeOK
        <3>2. side_effect_runs[o] # 1
            BY <1>1 DEF EffectsInv
        <3>3. \A k \in Nat : k <= 1 /\ k # 1 => k = 0
            OBVIOUS
        <3>. QED
            BY <3>1, <3>2, <3>3
    <2>2. UNCHANGED <<payment_status, payment_reference, target, tx, side_effect_runs>>
        BY <1>2 DEF orderVars, stockVars, localVars
    <2>3. ASSUME NEW q \in Requests, pc'[q] = "effects"
          PROVE  /\ side_effect_runs'[target'[q]] = 0
                 /\ payment_reference'[target'[q]] = IF tx'[q] = NULL THEN q ELSE tx'[q]
        <3>1. CASE q = r
            BY <1>1, <2>1, <2>2, <3>1 DEF o
        <3>2. CASE q # r
            <4>1. pc[q] = "effects"
                BY <1>2, <2>3, <3>2 DEF TypeOK
            <4>. QED
                BY <2>2, <4>1 DEF EffectsInv
        <3>. QED
            BY <3>1, <3>2
    <2>4. ASSUME NEW p \in Orders, side_effect_runs[p] = 1
          PROVE  /\ payment_status[p] = "escrow_held"
                 /\ payment_reference[p] \in Requests => pc'[payment_reference[p]] = "done"
                 /\ \A q \in Requests : ~HoldsTx(q, payment_reference[p])'
        <3>1. /\ payment_status[p] = "escrow_held"
              /\ payment_reference[p] \in Requests => pc[payment_reference[p]] = "done"
              /\ \A q \in Requests : ~HoldsTx(q, payment_reference[p])
            BY <2>4 DEF EffectsInv
        <3>2. payment_reference[p] \in Requests => pc'[payment_reference[p]] = "done"
            BY <1>1, <1>2, <3>1 DEF TypeOK
        <3>3. ASSUME NEW q \in Requests
              PROVE  ~HoldsTx(q, payment_reference[p])'
            <4>1. CASE q = r
                <5>1. tx'[q] = NULL
                    BY <1>1, <2>2, <4>1
                <5>2. payment_reference[p] # NULL
                    BY <3>1 DEF ReferenceInv
                <5>. QED
                    BY <2>2, <5>1, <5>2 DEF HoldsTx
            <4>2. CASE q # r
                <5>1. pc'[q] = pc[q]
                    BY <1>2, <4>2 DEF TypeOK
                <5>. QED
                    BY <2>2, <3>1, <5>1 DEF HoldsTx
            <4>. QED
                BY <4>1, <4>2
        <3>. QED
            BY <3>1, <3>2, <3>3
    <2>5. \A p \in Orders : side_effect_runs[p] <= 1
        BY DEF EffectsInv
    <2>. QED
        BY <2>2, <2>3, <2>4, <2>5 DEF EffectsInv, HoldsTx
<1>. QED
    BY <1>3, <1>4, <1>7, <1>8, <1>9, <1>10, <1>11, <1>12, <1>13, <1>15

(* A debit whose caller is not told keeps it: it counts as no charge, and  *)
(* the request still holds the claim it is about to give back.             *)
LEMMA DebitUntoldKeeps ==
    ASSUME Inv, NEW r \in Requests, DebitUntold(r)
    PROVE  Inv'
<1> USE OrderPaymentAssumption DEF Inv
<1>1. /\ pc[r] = "debit" /\ target[r] \in Orders /\ tx[r] = NULL
      /\ payment_reference[target[r]] = r
    BY DebitFacts DEF DebitUntold
<1>2. /\ pc' = [pc EXCEPT ![r] = "rollback"]
      /\ UNCHANGED <<orderVars, stockVars, txVars, localVars, crashed>>
    BY DEF DebitUntold, WalletDebit
<1>3. WalletTypeOK' /\ LedgerChained'
    BY DebitFacts DEF DebitUntold
<1>4. /\ UnreadInv' /\ unread' \in [Orders -> SUBSET Nat]
      /\ \A p \in Orders : Charges(p)' = Charges(p)
    BY UntoldCharges
<1>5. \A t \in TxRefs : TopUpCredits(t)' = TopUpCredits(t)
    BY DebitFacts DEF DebitUntold
<1>6. /\ \A p \in Orders : Debited(p)' <=> Debited(p)
      /\ \A t \in TxRefs : Credited(t)' <=> Credited(t)
    BY <1>4, <1>5 DEF Debited, Credited
<1>7. TypeOK'
    <2>1. pc' \in [Requests -> Locations]
        BY <1>2 DEF Locations, ClaimLocations, TypeOK
    <2>. QED
        BY <1>2, <1>3, <1>4, <2>1 DEF orderVars, stockVars, txVars, localVars, TypeOK
<1>8. ChargedAtMostOnce'
    BY <1>4 DEF ChargedAtMostOnce
<1>9. MoneyTakenMeansPaid'
    BY <1>2, <1>6 DEF MoneyTakenMeansPaid, orderVars
<1>10. TransactionSpentOnce' /\ TransactionsInv'
    <2>1. UNCHANGED <<tx_status, unapplied, charge, payment_reference>>
        BY <1>2 DEF txVars, orderVars
    <2>2. \A q \in Requests :
            \/ pc'[q] = pc[q] /\ tx'[q] = tx[q] /\ target'[q] = target[q]
            \/ /\ pc[q] \notin {"confirm", "credit"} /\ pc'[q] \notin {"confirm", "credit"}
               /\ pc'[q] = "effects" => tx'[q] \notin TxRefs
               /\ pc'[q] \in ClaimLocations => tx'[q] \in TxRefs /\ charge'[tx'[q]] # "none"
        BY <1>1, <1>2 DEF ClaimLocations, localVars, TypeOK
    <2>. QED
        BY <1>5, <2>1, <2>2, TransactionsFrame
<1>11. RequestsInv'
    BY <1>1, <1>2 DEF RequestsInv, localVars, TypeOK
<1>12. ClaimInv'
    <2>1. \A q \in Requests : pc'[q] \in {"debit", "rollback"} =>
                                pc[q] \in {"debit", "rollback"}
        BY <1>1, <1>2 DEF TypeOK
    <2>2. UNCHANGED <<payment_status, payment_reference, target>>
        BY <1>2 DEF orderVars, localVars
    <2>3. \A q \in Requests : pc[q] \in {"debit", "rollback"} => target[q] \in Orders
        BY DEF RequestsInv
    <2>. QED
        BY <1>6, <2>1, <2>2, <2>3 DEF ClaimInv, OwnsClaim
<1>13. ReferenceInv'
    BY <1>1, <1>2, <1>6 DEF ReferenceInv, orderVars, txVars, localVars, TypeOK
<1>15. EffectsInv'
    BY <1>1, <1>2 DEF EffectsInv, HoldsTx, orderVars, stockVars, localVars, TypeOK
<1>. QED
    BY <1>3, <1>4, <1>7, <1>8, <1>9, <1>10, <1>11, <1>12, <1>13, <1>15

(* The debit of a claimed order keeps the invariant, whatever its caller   *)
(* is told.                                                                *)
LEMMA WalletDebitKeeps ==
    ASSUME Inv, NEW r \in Requests, WalletDebit(r)
    PROVE  Inv'
BY DebitOutcomes, DebitToldKeeps, DebitUntoldKeeps

(* The credit of a claimed top-up keeps the invariant. *)
LEMMA CreditTopUpKeeps ==
    ASSUME Inv, NEW r \in Requests, CreditTopUp(r)
    PROVE  Inv'
<1> USE OrderPaymentAssumption DEF Inv
<1> DEFINE t == tx[r]
           n == Len(wallet_ledger[tx_user[t]]) + 1
<1>1. /\ pc[r] = "credit" /\ t \in TxRefs /\ charge[t] # "none"
      /\ ~Credited(t) /\ ~PaysAnOrder(t) /\ t \notin unapplied
    BY DEF CreditTopUp, At, TransactionsInv, Spent
<1>2. /\ pc' = [pc EXCEPT ![r] = "done"]
      /\ UNCHANGED <<unread, orderVars, stockVars, txVars, localVars, crashed>>
    BY DEF CreditTopUp, Goto
<1>3. /\ WalletTypeOK'
      /\ LedgerChained'
      /\ \A v \in Users, type \in ReferenceTypes, i \in ReferenceIds :
           EntriesFor(v, type, i)' =
             IF v = tx_user[t] /\ "topup" = type /\ t = i
             THEN EntriesFor(v, type, i) \union {n}
             ELSE EntriesFor(v, type, i)
    <2>1. /\ WalletTypeOK /\ LedgerChained
          /\ tx_user[t] \in Users /\ tx_amount[t] \in Nat /\ t \in ReferenceIds
          /\ "topup" \in ReferenceTypes
        BY <1>1 DEF TypeOK, ReferenceTypes
    <2>2. CreditWallet(tx_user[t], tx_amount[t], "topup", t)
        BY DEF CreditTopUp
    <2> HIDE DEF t
    <2>. QED
        BY <2>1, <2>2, CreditWalletLemma
<1>4. ASSUME NEW p \in Orders
      PROVE  OrderDebits(p)' = OrderDebits(p)
    <2>1. owner[p] \in Users /\ p \in ReferenceIds /\ "order_payment" \in ReferenceTypes
        BY DEF ReferenceTypes
    <2>. QED
        BY <1>3, <2>1 DEF OrderDebits
<1>5. ASSUME NEW q \in TxRefs
      PROVE  TopUpCredits(q)' = IF q = t THEN {n} ELSE TopUpCredits(q)
    <2>1. tx_user[q] \in Users /\ q \in ReferenceIds /\ "topup" \in ReferenceTypes
        BY DEF ReferenceTypes
    <2>2. q = t => TopUpCredits(q) = {}
        BY <1>1 DEF Credited
    <2>. QED
        BY <1>3, <2>1, <2>2 DEF TopUpCredits
<1>6. /\ \A p \in Orders : Charges(p)' = Charges(p)
      /\ \A p \in Orders : Debited(p)' <=> Debited(p)
      /\ \A q \in TxRefs : Credited(q)' <=> Credited(q) \/ q = t
    BY <1>2, <1>4, <1>5 DEF Debited, Charges, Credited
<1> HIDE DEF t, n
<1>7. TypeOK'
    <2>1. pc' \in [Requests -> Locations]
        BY <1>2 DEF Locations, ClaimLocations, TypeOK
    <2>. QED
        BY <1>2, <1>3, <2>1 DEF orderVars, stockVars, txVars, localVars, TypeOK
<1>8. ChargedAtMostOnce'
    BY <1>6 DEF ChargedAtMostOnce
<1>9. MoneyTakenMeansPaid'
    BY <1>2, <1>6 DEF MoneyTakenMeansPaid, orderVars
<1>10. TransactionSpentOnce' /\ TransactionsInv'
    <2>1. PICK x \in TxRefs : x = t
        BY <1>1
    <2>2. \A y \in TxRefs : PaysAnOrder(y)' <=> PaysAnOrder(y)
        BY <1>2 DEF PaysAnOrder, orderVars
    <2>3. Credited(x)' /\ ~PaysAnOrder(x)' /\ x \notin unapplied
        BY <1>1, <1>6, <2>1, <2>2
    <2>4. UNCHANGED <<tx, target, tx_status, charge, unapplied>>
        BY <1>2 DEF localVars, txVars
    <2>5. \A i, j \in TopUpCredits(x)' : i = j
        BY <1>5, <2>1
    <2>. QED
        BY <1>1, <1>2, <1>5, <2>1, <2>2, <2>3, <2>4, <2>5, TransactionEnds DEF Spent, t
<1>11. RequestsInv'
    BY <1>1, <1>2 DEF RequestsInv, localVars, TypeOK
<1>12. ClaimInv'
    <2>1. \A q \in Requests : pc'[q] \in {"debit", "rollback"} => pc'[q] = pc[q]
        BY <1>1, <1>2 DEF TypeOK
    <2>2. UNCHANGED <<payment_status, payment_reference, target>>
        BY <1>2 DEF orderVars, localVars
    <2>3. \A q \in Requests : pc[q] \in {"debit", "rollback"} => target[q] \in Orders
        BY DEF RequestsInv
    <2>. QED
        BY <1>6, <2>1, <2>2, <2>3 DEF ClaimInv, OwnsClaim
<1>13. ReferenceInv'
    BY <1>1, <1>2, <1>6 DEF ReferenceInv, orderVars, txVars, localVars, TypeOK
<1>15. EffectsInv'
    BY <1>1, <1>2 DEF EffectsInv, HoldsTx, orderVars, stockVars, localVars, TypeOK
<1>16. UnreadInv'
    BY <1>2, <1>4 DEF UnreadInv
<1>. QED
    BY <1>3, <1>16, <1>7, <1>8, <1>9, <1>10, <1>11, <1>12, <1>13, <1>15

-----------------------------------------------------------------------------
(* The invariant holds when every order is unpaid and every wallet open. *)
LEMMA InitEstablishesInv ==
    ASSUME Init
    PROVE  Inv
<1> USE OrderPaymentAssumption DEF Init
<1>1. /\ WalletTypeOK
      /\ LedgerChained
      /\ \A u \in Users, type \in ReferenceTypes \ {"opening"}, id \in ReferenceIds :
           EntriesFor(u, type, id) = {}
    BY WalletInitLemma
<1>2. \A o \in Orders : OrderDebits(o) = {} /\ Charges(o) = {} /\ ~Debited(o)
    <2> SUFFICES ASSUME NEW o \in Orders
                 PROVE  OrderDebits(o) = {}
        BY DEF Debited, Charges
    <2>1. /\ owner[o] \in Users /\ o \in ReferenceIds
          /\ "order_payment" \in ReferenceTypes \ {"opening"}
        BY DEF ReferenceTypes
    <2>. QED
        BY <1>1, <2>1 DEF OrderDebits
<1>3. \A t \in TxRefs : TopUpCredits(t) = {} /\ ~Credited(t)
    <2> SUFFICES ASSUME NEW t \in TxRefs
                 PROVE  TopUpCredits(t) = {}
        BY DEF Credited
    <2>1. /\ tx_user[t] \in Users /\ t \in ReferenceIds
          /\ "topup" \in ReferenceTypes \ {"opening"}
        BY DEF ReferenceTypes
    <2>. QED
        BY <1>1, <2>1 DEF TopUpCredits
<1>4. TypeOK /\ UnreadInv
    BY <1>1, FS_EmptySet DEF TypeOK, OrderStatuses, Locations, ClaimLocations, UnreadInv
<1>5. ChargedAtMostOnce /\ MoneyTakenMeansPaid
    BY <1>2 DEF ChargedAtMostOnce, MoneyTakenMeansPaid
<1>9. TransactionSpentOnce
    <2>1. \A t \in TxRefs : ~PaysAnOrder(t) /\ t \notin unapplied
        BY DEF PaysAnOrder
    <2>. QED
        BY <1>3, <2>1 DEF TransactionSpentOnce, Spent
<1>6. RequestsInv /\ ClaimInv
    BY DEF RequestsInv, ClaimInv
<1>7. ReferenceInv
    BY DEF ReferenceInv
<1>8. TransactionsInv /\ EffectsInv
    BY DEF TransactionsInv, EffectsInv, HoldsTx, ClaimLocations
<1>. QED
    BY <1>1, <1>9, <1>4, <1>5, <1>6, <1>7, <1>8 DEF Inv

(* A step of somebody else keeps the invariant. *)
LEMMA StutteringKeepsInv ==
    ASSUME Inv, UNCHANGED vars
    PROVE  Inv'
<1> USE DEF Inv
<1>1. UNCHANGED ledgerVars
    BY DEF vars
<1>2. UNCHANGED <<order_status, payment_status, payment_reference, stock, restocks,
                  side_effect_runs, tx_status, charge, unapplied, target, tx, was_paid,
                  pc, crashed>>
    BY DEF vars, orderVars, stockVars, txVars, localVars
<1>3. TypeOK'
    BY <1>1, <1>2, WalletFrame DEF TypeOK
<1>4. LedgerChained' /\ UnreadInv' /\ ChargedAtMostOnce' /\ MoneyTakenMeansPaid'
    BY <1>1, <1>2, WalletFrame DEF ChargedAtMostOnce, MoneyTakenMeansPaid
<1>5. RequestsInv' /\ ClaimInv' /\ ReferenceInv'
    BY <1>1, <1>2, WalletFrame DEF RequestsInv, ClaimInv, OwnsClaim, ReferenceInv
<1>6. EffectsInv'
    BY <1>1, <1>2 DEF EffectsInv, HoldsTx
<1>7. TransactionSpentOnce' /\ TransactionsInv'
    BY <1>1, <1>2, WalletFrame, TransactionsFrame
<1>. QED
    BY <1>3, <1>4, <1>5, <1>6, <1>7

(* Every step of every request keeps the invariant. *)
LEMMA NextKeepsInv ==
    ASSUME Inv, [Next]_vars
    PROVE  Inv'
<1>1. CASE \E r \in Requests, o \in Orders : WalletClaim(r, o) \/ CancelRead(r, o)
    BY <1>1, WalletClaimKeeps, CancelReadKeeps
<1>2. CASE \E r \in Requests, t \in TxRefs :
             Webhook(r, t) \/ VerifyOrderPayment(r, t) \/ VerifyTopUp(r, t)
    <2>1. \A t \in TxRefs : (charge[t] = "exact") \in BOOLEAN /\ (charge[t] # "none") \in BOOLEAN
        OBVIOUS
    <2>2. {"webhook", "verify_order", "verify_topup"} \subseteq ClaimLocations
        BY DEF ClaimLocations
    <2>. QED
        BY <1>2, <2>1, <2>2, PickUpTxKeeps DEF Webhook, VerifyOrderPayment, VerifyTopUp
<1>3. CASE \E t \in TxRefs : PaystackCharge(t)
    BY <1>3, PaystackChargeKeeps
<1>4. CASE \E r \in Requests : Continue(r) \/ Crash(r)
    <2>1. PICK r \in Requests : Continue(r) \/ Crash(r)
        BY <1>4
    <2>2. CASE WalletDebit(r) \/ WalletDebitRefused(r) \/ WalletRollback(r)
        BY <2>2, WalletDebitKeeps, WalletDebitRefusedKeeps, WalletRollbackKeeps
    <2>3. CASE RunSideEffects(r) \/ ConfirmOrderPayment(r) \/ OrderNotFound(r)
        BY <2>3, RunSideEffectsKeeps, ConfirmOrderPaymentKeeps, OrderNotFoundKeeps
    <2>5. CASE ClaimInWebhook(r) \/ ClaimInVerifyOrder(r) \/ ClaimInVerifyTopUp(r)
        BY <2>5, ClaimTxKeeps DEF ClaimInWebhook, ClaimInVerifyOrder, ClaimInVerifyTopUp,
           ClaimLocations
    <2>4. CASE CreditTopUp(r) \/ CancelWrite(r) \/ Crash(r)
        BY <2>4, CreditTopUpKeeps, CancelWriteKeeps, CrashKeeps
    <2>. QED
        BY <2>1, <2>2, <2>3, <2>4, <2>5 DEF Continue
<1>5. CASE UNCHANGED vars
    BY <1>5, StutteringKeepsInv
<1>. QED
    BY <1>1, <1>2, <1>3, <1>4, <1>5 DEF Next

-----------------------------------------------------------------------------
(* The invariant holds in every reachable state of every instance. *)
THEOREM Invariance == Spec => []Inv
<1>1. Init => Inv
    BY InitEstablishesInv
<1>2. Inv /\ [Next]_vars => Inv'
    BY NextKeepsInv
<1>. QED
    BY <1>1, <1>2, PTL DEF Spec

(* What is held in escrow is backed by money: by its debit, by a collected *)
(* transaction, or the claiming call has yet to get past its debit.        *)
LEMMA InvImpliesEscrowBacked ==
    ASSUME Inv
    PROVE  EscrowBacked
<1> SUFFICES ASSUME NEW o \in Orders, payment_status[o] = "escrow_held"
             PROVE  LET ref == payment_reference[o] IN
                    \/ Debited(o)
                    \/ /\ ref \in TxRefs
                       /\ tx_order[ref] = o
                       /\ tx_status[ref] = "success"
                       /\ charge[ref] # "none"
                    \/ /\ ref \in Requests
                       /\ target[ref] = o
                       /\ pc[ref] \in {"debit", "rollback"}
    BY DEF EscrowBacked
<1>1. payment_reference[o] \in Requests \/ payment_reference[o] \in TxRefs
    BY DEF Inv, ReferenceInv, TypeOK
<1>2. CASE payment_reference[o] \in Requests
    BY <1>2 DEF Inv, ReferenceInv
<1>3. CASE payment_reference[o] \in TxRefs
    BY <1>3 DEF Inv, ReferenceInv
<1>. QED
    BY <1>1, <1>2, <1>3

(* Type correctness. *)
THEOREM TypeCorrectness == Spec => []TypeOK
<1>1. Inv => TypeOK
    BY DEF Inv
<1>. QED
    BY <1>1, Invariance, PTL

(* No order is charged twice by calls that know of their debit, and an     *)
(* order so charged stays paid: payOrderFromWallet's claim-before-debit    *)
(* with its rollback.                                                      *)
THEOREM NeverChargedTwice ==
    Spec => [](ChargedAtMostOnce /\ MoneyTakenMeansPaid)
<1>1. Inv => ChargedAtMostOnce /\ MoneyTakenMeansPaid
    BY DEF Inv
<1>. QED
    BY <1>1, Invariance, PTL

(* Goods are never promised against a payment that did not happen, no      *)
(* money is taken for an order that does not show it, and no balance is    *)
(* other than its ledger says.                                             *)
THEOREM MoneyAndOrderAlwaysAgree == Spec => []MoneyAndOrderAgree
<1>1. Inv => MoneyAndOrderAgree
    BY InvImpliesEscrowBacked DEF Inv, MoneyAndOrderAgree
<1>. QED
    BY <1>1, Invariance, PTL

(* runOrderPaymentSideEffects runs at most once per order, and the money   *)
(* of a Paystack transaction is used once, for the wallet or for its own   *)
(* order, by whichever of the three routes claims it: a claimed one that   *)
(* is not used has its claimer still at work, or found no order to pay.    *)
THEOREM EffectsAlwaysApplyOnce == Spec => []EffectsApplyOnce
<1>1. Inv => SideEffectsAtMostOnce
    BY DEF Inv, EffectsInv, SideEffectsAtMostOnce
<1>2. Inv => TransactionSpentOnce
    BY DEF Inv
<1>3. Inv => EffectsApplyOnce
    BY <1>1, <1>2 DEF EffectsApplyOnce
<1>. QED
    BY <1>3, Invariance, PTL

(* The cached balances always agree with the ledger, and never go below 0. *)
THEOREM LedgerStaysChained == Spec => []LedgerChained
<1>1. Inv => LedgerChained
    BY DEF Inv
<1>. QED
    BY <1>1, Invariance, PTL

-----------------------------------------------------------------------------
(* The refinement: seen through who paid an order, the balances and the    *)
(* transactions that were used, every step is one of AtomicPayment or none. *)
PaidByMap == [o \in Orders |-> PaidBy(o)]
SpentSet == {t \in TxRefs : Spent(t)}
InVainMap == [o \in Orders |-> Cardinality(unread[o])]
abstractVars == <<PaidByMap, cached_balance, InVainMap, SpentSet>>

(* A step that leaves the wallet alone, and moves no Paystack transaction  *)
(* into or out of an order's payment_reference, is not seen.               *)
LEMMA InvisibleStep ==
    ASSUME UNCHANGED ledgerVars,
           \A o \in Orders, t \in TxRefs :
             payment_reference'[o] = t <=> payment_reference[o] = t
    PROVE  UNCHANGED abstractVars
<1>1. cached_balance' = cached_balance
    BY DEF ledgerVars, walletVars
<1>2. /\ \A o \in Orders : Debited(o)' = Debited(o)
      /\ \A t \in TxRefs : Spent(t)' <=> Spent(t)
    BY WalletFrame, SpentFrame
<1>3. \A o \in Orders : PaidBy(o)' = PaidBy(o)
    <2>1. \A o \in Orders : payment_reference'[o] \in TxRefs <=> payment_reference[o] \in TxRefs
        OBVIOUS
    <2>. QED
        BY <1>2, <2>1 DEF PaidBy
<1>4. PaidByMap' = PaidByMap
    BY <1>3 DEF PaidByMap
<1>5. SpentSet' = SpentSet
    BY <1>2 DEF SpentSet
<1>6. InVainMap' = InVainMap
    BY WalletFrame DEF InVainMap
<1>. QED
    BY <1>1, <1>4, <1>5, <1>6 DEF abstractVars

(* In particular a step that leaves the order columns alone as well. *)
LEMMA InvisibleElsewhere ==
    ASSUME UNCHANGED ledgerVars, UNCHANGED payment_reference
    PROVE  UNCHANGED abstractVars
BY InvisibleStep

(* The claim of payOrderFromWallet moves no money: the order is reserved,  *)
(* and nobody has paid it yet.                                             *)
LEMMA WalletClaimInvisible ==
    ASSUME Inv, NEW r \in Requests, NEW o \in Orders, WalletClaim(r, o)
    PROVE  UNCHANGED abstractVars
<1> USE OrderPaymentAssumption
<1>1. UNCHANGED ledgerVars
    BY DEF WalletClaim
<1>2. CASE CanClaimOrder(o)
    <2>1. payment_reference' = [payment_reference EXCEPT ![o] = r]
        BY <1>2 DEF WalletClaim, ClaimOrderForPayment
    <2>2. payment_reference[o] = NULL /\ payment_reference \in [Orders -> Requests \union TxRefs \union {NULL}]
        BY <1>2 DEF Inv, TypeOK, ReferenceInv, CanClaimOrder
    <2>3. \A p \in Orders, t \in TxRefs : payment_reference'[p] = t <=> payment_reference[p] = t
        BY <2>1, <2>2
    <2>. QED
        BY <1>1, <2>3, InvisibleStep
<1>3. CASE ~CanClaimOrder(o)
    BY <1>1, <1>3, InvisibleElsewhere DEF WalletClaim, ClaimOrderForPayment, orderVars
<1>. QED
    BY <1>2, <1>3

(* Its rollback gives back a claim that moved no money either. *)
LEMMA WalletRollbackInvisible ==
    ASSUME Inv, NEW r \in Requests, WalletRollback(r)
    PROVE  UNCHANGED abstractVars
<1> USE OrderPaymentAssumption
<1> DEFINE o == target[r]
<1>1. UNCHANGED ledgerVars /\ o \in Orders
    BY DEF WalletRollback, At, Inv, RequestsInv
<1>2. CASE OwnsClaim(r, o)
    <2>1. payment_reference' = [payment_reference EXCEPT ![o] = NULL]
        BY <1>2 DEF WalletRollback
    <2>2. payment_reference[o] = r /\ payment_reference \in [Orders -> Requests \union TxRefs \union {NULL}]
        BY <1>2 DEF Inv, TypeOK, OwnsClaim
    <2>3. \A p \in Orders, t \in TxRefs : payment_reference'[p] = t <=> payment_reference[p] = t
        BY <1>1, <2>1, <2>2
    <2>. QED
        BY <1>1, <2>3, InvisibleStep
<1>3. CASE ~OwnsClaim(r, o)
    BY <1>1, <1>3, InvisibleElsewhere DEF WalletRollback, orderVars
<1>. QED
    BY <1>2, <1>3

(* A debit takes the order's money from its owner's balance. *)
LEMMA WalletDebitTakesMoney ==
    ASSUME Inv, NEW r \in Requests, WalletDebit(r)
    PROVE  Atomic!TakeMoney(target[r])
<1> USE OrderPaymentAssumption
<1> DEFINE o == target[r]
<1>1. o \in Orders /\ payment_reference[o] = r /\ ~Debited(o)
    BY DebitFacts
<1>2. /\ cached_balance[owner[o]] >= total[o]
      /\ cached_balance' = [cached_balance EXCEPT ![owner[o]] = @ - total[o]]
    BY DEF WalletDebit, DebitWallet, CanDebit
<1>3. \A t \in TxRefs : Spent(t)' <=> Spent(t)
    <2>1. payment_reference' = payment_reference
        BY DEF WalletDebit, orderVars
    <2>2. \A t \in TxRefs : TopUpCredits(t)' = TopUpCredits(t)
        BY DebitFacts
    <2>. QED
        BY <2>1, <2>2, SpentFrame
<1> HIDE DEF o
<1>4. PaidByMap[o] = "nobody"
    BY <1>1 DEF PaidByMap, PaidBy
<1>5. SpentSet' = SpentSet
    BY <1>3 DEF SpentSet
<1>. QED
    BY <1>2, <1>4, <1>5 DEF Atomic!TakeMoney, PaidByMap, SpentSet, o

(* When its caller is told, it is the step in which the wallet pays the    *)
(* order.                                                                  *)
LEMMA DebitToldPays ==
    ASSUME Inv, NEW r \in Requests, DebitTold(r)
    PROVE  Atomic!PayByWallet(target[r])
<1> USE OrderPaymentAssumption
<1> DEFINE o == target[r]
<1>1. o \in Orders /\ payment_reference[o] = r
    BY DebitFacts DEF DebitTold
<1>2. payment_reference' = payment_reference /\ unread' = unread
    BY DEF DebitTold, WalletDebit, orderVars
<1>3. \A p \in Orders : Debited(p)' <=> Debited(p) \/ p = o
    BY <1>1, ToldCharges DEF Debited
<1>4. Atomic!TakeMoney(o)
    BY WalletDebitTakesMoney DEF DebitTold
<1> HIDE DEF o
<1>5. \A p \in Orders : PaidBy(p)' = IF p = o THEN "wallet" ELSE PaidBy(p)
    <2>1. \A p \in Orders : p = o => PaidBy(p)' = "wallet"
        BY <1>1, <1>2, <1>3 DEF PaidBy
    <2>2. \A p \in Orders : p # o => PaidBy(p)' = PaidBy(p)
        BY <1>2, <1>3 DEF PaidBy
    <2>. QED
        BY <2>1, <2>2
<1>6. PaidByMap' = [PaidByMap EXCEPT ![o] = "wallet"]
    BY <1>5 DEF PaidByMap
<1>7. InVainMap' = InVainMap
    BY <1>2 DEF InVainMap
<1>. QED
    BY <1>4, <1>6, <1>7 DEF Atomic!PayByWallet, PaidByMap, InVainMap, o

(* When it is not told, the money is taken in vain. *)
LEMMA DebitUntoldPaysInVain ==
    ASSUME Inv, NEW r \in Requests, DebitUntold(r)
    PROVE  Atomic!PayInVain(target[r])
<1> USE OrderPaymentAssumption
<1> DEFINE o == target[r]
<1>1. o \in Orders
    BY DebitFacts DEF DebitUntold
<1>2. payment_reference' = payment_reference
    BY DEF DebitUntold, WalletDebit, orderVars
<1>3. /\ \A p \in Orders : Charges(p)' = Charges(p)
      /\ \A p \in Orders : Cardinality(unread[p])' =
           IF p = o THEN Cardinality(unread[p]) + 1 ELSE Cardinality(unread[p])
    BY UntoldCharges
<1>4. Atomic!TakeMoney(o)
    BY WalletDebitTakesMoney DEF DebitUntold
<1> HIDE DEF o
<1>5. \A p \in Orders : PaidBy(p)' = PaidBy(p)
    BY <1>2, <1>3 DEF PaidBy, Debited
<1>6. PaidByMap' = PaidByMap
    BY <1>5 DEF PaidByMap
<1>7. InVainMap' = [InVainMap EXCEPT ![o] = @ + 1]
    BY <1>1, <1>3 DEF InVainMap
<1>. QED
    BY <1>4, <1>6, <1>7 DEF Atomic!PayInVain, PaidByMap, InVainMap, o

(* confirmOrderPayment is the step in which a charge pays it, or none. *)
LEMMA ConfirmPays ==
    ASSUME Inv, NEW r \in Requests, ConfirmOrderPayment(r)
    PROVE  Atomic!PayByCharge(target[r], tx[r]) \/ UNCHANGED abstractVars
<1> USE OrderPaymentAssumption DEF Inv
<1> DEFINE o == target[r]
           t == tx[r]
<1>1. /\ UNCHANGED ledgerVars /\ o \in Orders /\ t \in TxRefs
      /\ tx_order[t] = o /\ ~Spent(t)
    BY DEF ConfirmOrderPayment, At, TransactionsInv, TypeOK
<1>2. CASE CanClaimOrder(o)
    <2>1. payment_reference' = [payment_reference EXCEPT ![o] = t]
        BY <1>2 DEF ConfirmOrderPayment, ClaimOrderForPayment
    <2>2. /\ payment_reference \in [Orders -> Requests \union TxRefs \union {NULL}]
          /\ payment_reference[o] = NULL
          /\ ~Debited(o)
        BY <1>1, <1>2 DEF TypeOK, ReferenceInv, CanClaimOrder, MoneyTakenMeansPaid
    <2>3. /\ \A p \in Orders : Debited(p)' = Debited(p)
          /\ \A x \in TxRefs : Credited(x)' = Credited(x)
          /\ cached_balance' = cached_balance /\ InVainMap' = InVainMap
        BY <1>1, WalletFrame DEF ledgerVars, walletVars, InVainMap
    <2> HIDE DEF o, t
    <2>4. PaidByMap[o] = "nobody"
        BY <1>1, <2>2 DEF PaidByMap, PaidBy
    <2>5. \A p \in Orders : PaidBy(p)' = IF p = o THEN "paystack" ELSE PaidBy(p)
        BY <1>1, <2>1, <2>2, <2>3 DEF PaidBy
    <2>6. PaidByMap' = [PaidByMap EXCEPT ![o] = "paystack"]
        BY <2>5 DEF PaidByMap
    <2>7. \A x \in TxRefs : PaysAnOrder(x)' <=> PaysAnOrder(x) \/ x = t
        BY <1>1, <2>1, <2>2 DEF PaysAnOrder
    <2>8. \A x \in TxRefs : Spent(x)' <=> Spent(x) \/ x = t
        BY <2>3, <2>7 DEF Spent
    <2>9. SpentSet' = SpentSet \union {t} /\ t \notin SpentSet
        BY <1>1, <2>8 DEF SpentSet
    <2>10. Atomic!Spend(t)
        BY <2>9 DEF Atomic!Spend, SpentSet
    <2>11. Atomic!PayByCharge(o, t)
        BY <1>1, <2>3, <2>4, <2>6, <2>10 DEF Atomic!PayByCharge, PaidByMap, InVainMap
    <2>. QED
        BY <2>11 DEF o, t
<1>3. CASE ~CanClaimOrder(o)
    BY <1>1, <1>3, InvisibleElsewhere DEF ConfirmOrderPayment, ClaimOrderForPayment, orderVars
<1>. QED
    BY <1>2, <1>3

(* The credit is the step in which a charge reaches the wallet, unspent.   *)
LEMMA CreditArrives ==
    ASSUME Inv, NEW r \in Requests, CreditTopUp(r)
    PROVE  tx[r] \in TxRefs /\ Atomic!CreditCharge(tx[r])
<1> USE OrderPaymentAssumption DEF Inv
<1> DEFINE t == tx[r]
           n == Len(wallet_ledger[tx_user[t]]) + 1
<1>1. t \in TxRefs /\ ~Spent(t)
    BY DEF CreditTopUp, At, TransactionsInv
<1>2. /\ payment_reference' = payment_reference /\ unread' = unread
      /\ cached_balance' = [cached_balance EXCEPT ![tx_user[t]] = @ + tx_amount[t]]
    BY DEF CreditTopUp, CreditWallet, orderVars
<1>3. \A v \in Users, type \in ReferenceTypes, i \in ReferenceIds :
        EntriesFor(v, type, i)' =
          IF v = tx_user[t] /\ "topup" = type /\ t = i
          THEN EntriesFor(v, type, i) \union {n}
          ELSE EntriesFor(v, type, i)
    <2>1. /\ WalletTypeOK /\ LedgerChained
          /\ tx_user[t] \in Users /\ tx_amount[t] \in Nat /\ t \in ReferenceIds
          /\ "topup" \in ReferenceTypes
        BY <1>1 DEF TypeOK, ReferenceTypes
    <2>2. CreditWallet(tx_user[t], tx_amount[t], "topup", t)
        BY DEF CreditTopUp
    <2> HIDE DEF t
    <2>. QED
        BY <2>1, <2>2, CreditWalletLemma
<1>4. \A p \in Orders : Debited(p)' <=> Debited(p)
    <2>1. \A p \in Orders : /\ owner[p] \in Users /\ p \in ReferenceIds
                            /\ "order_payment" \in ReferenceTypes
        BY DEF ReferenceTypes
    <2>. QED
        BY <1>2, <1>3, <2>1 DEF Debited, Charges, OrderDebits
<1>5. \A q \in TxRefs : Credited(q)' <=> Credited(q) \/ q = t
    <2>1. \A q \in TxRefs : /\ tx_user[q] \in Users /\ q \in ReferenceIds
                            /\ "topup" \in ReferenceTypes
        BY DEF ReferenceTypes
    <2>2. \A q \in TxRefs : TopUpCredits(q)' = IF q = t THEN TopUpCredits(q) \union {n}
                                                        ELSE TopUpCredits(q)
        BY <1>3, <2>1 DEF TopUpCredits
    <2>. QED
        BY <2>2 DEF Credited
<1> HIDE DEF t, n
<1>6. t \notin SpentSet
    BY <1>1 DEF SpentSet
<1>12. \A q \in TxRefs : Spent(q)' <=> Spent(q) \/ q = t
    <2>1. \A q \in TxRefs : PaysAnOrder(q)' <=> PaysAnOrder(q)
        BY <1>2 DEF PaysAnOrder
    <2>. QED
        BY <1>5, <2>1 DEF Spent
<1>7. SpentSet' = SpentSet \union {t}
    BY <1>1, <1>12 DEF SpentSet
<1>8. \A p \in Orders : PaidBy(p)' = PaidBy(p)
    BY <1>2, <1>4 DEF PaidBy
<1>9. PaidByMap' = PaidByMap
    BY <1>8 DEF PaidByMap
<1>10. InVainMap' = InVainMap
    BY <1>2 DEF InVainMap
<1>11. Atomic!CreditCharge(t)
    BY <1>2, <1>6, <1>7, <1>9, <1>10 DEF Atomic!CreditCharge, Atomic!Spend, PaidByMap,
       InVainMap, SpentSet
<1>. QED
    BY <1>1, <1>11 DEF t

(* Nobody has paid and no transaction is used when the behaviour starts. *)
LEMMA InitImplementsAtomic ==
    ASSUME Init
    PROVE  Atomic!Init
<1> USE OrderPaymentAssumption
<1>1. cached_balance = OpeningBalance /\ payment_reference = [o \in Orders |-> NULL]
    BY DEF Init, WalletInit
<1>2. \A u \in Users, type \in ReferenceTypes \ {"opening"}, id \in ReferenceIds :
        EntriesFor(u, type, id) = {}
    BY WalletInitLemma DEF Init
<1>3. \A o \in Orders : ~Debited(o)
    BY <1>2 DEF Debited, Charges, OrderDebits, ReferenceTypes
<1>4. \A t \in TxRefs : ~Spent(t)
    BY <1>1, <1>2 DEF Spent, PaysAnOrder, Credited, TopUpCredits, ReferenceTypes
<1>5. \A o \in Orders : PaidBy(o) = "nobody"
    BY <1>1, <1>3 DEF PaidBy
<1>6. \A o \in Orders : Cardinality(unread[o]) = 0
    BY FS_EmptySet DEF Init
<1>. QED
    BY <1>1, <1>4, <1>5, <1>6 DEF Atomic!Init

(* Every step of a handler is a step of the promise, or is not seen.       *)
LEMMA StepImplementsAtomic ==
    ASSUME Inv, [Next]_vars
    PROVE  Atomic!Next \/ UNCHANGED abstractVars
<1>1. CASE \E r \in Requests, o \in Orders : WalletClaim(r, o) \/ CancelRead(r, o)
    BY <1>1, WalletClaimInvisible, InvisibleElsewhere DEF CancelRead, orderVars
<1>2. CASE \E r \in Requests, t \in TxRefs :
             Webhook(r, t) \/ VerifyOrderPayment(r, t) \/ VerifyTopUp(r, t)
    BY <1>2, InvisibleElsewhere DEF Webhook, VerifyOrderPayment, VerifyTopUp, PickUpTx, orderVars
<1>3. CASE \E t \in TxRefs : PaystackCharge(t)
    BY <1>3, InvisibleElsewhere DEF PaystackCharge, orderVars
<1>4. CASE \E r \in Requests : Continue(r) \/ Crash(r)
    <2>1. PICK r \in Requests : Continue(r) \/ Crash(r)
        BY <1>4
    <2>2. CASE WalletDebit(r)
        <3>1. target[r] \in Orders
            BY <2>2 DEF WalletDebit, At, Inv, RequestsInv
        <3>. QED
            BY <2>2, <3>1, DebitOutcomes, DebitToldPays, DebitUntoldPaysInVain DEF Atomic!Next
    <2>3. CASE ConfirmOrderPayment(r)
        <3>1. target[r] \in Orders /\ tx[r] \in TxRefs
            BY <2>3 DEF ConfirmOrderPayment, At, Inv, TransactionsInv, TypeOK
        <3>. QED
            BY <2>3, <3>1, ConfirmPays DEF Atomic!Next
    <2>4. CASE CreditTopUp(r)
        BY <2>4, CreditArrives DEF Atomic!Next
    <2>5. CASE WalletRollback(r)
        BY <2>5, WalletRollbackInvisible
    <2>6. CASE WalletDebitRefused(r) \/ RunSideEffects(r) \/ OrderNotFound(r)
        BY <2>6, InvisibleElsewhere DEF WalletDebitRefused, RunSideEffects, OrderNotFound, orderVars
    <2>8. CASE ClaimInWebhook(r) \/ ClaimInVerifyOrder(r) \/ ClaimInVerifyTopUp(r)
        BY <2>8, InvisibleElsewhere DEF ClaimInWebhook, ClaimInVerifyOrder, ClaimInVerifyTopUp,
           ClaimTx, orderVars
    <2>7. CASE CancelWrite(r) \/ Crash(r)
        BY <2>7, InvisibleElsewhere DEF CancelWrite, Crash, orderVars
    <2>. QED
        BY <2>1, <2>2, <2>3, <2>4, <2>5, <2>6, <2>7, <2>8 DEF Continue
<1>5. CASE UNCHANGED vars
    BY <1>5, InvisibleElsewhere DEF vars, orderVars
<1>. QED
    BY <1>1, <1>2, <1>3, <1>4, <1>5 DEF Next

(* payOrderFromWallet, confirmOrderPayment and the Paystack handlers       *)
(* together implement AtomicPayment: an order is paid once, in the step    *)
(* that moves its money, its money is taken in vain only while it is not   *)
(* paid, and a card charge is spent once, on its order or on the wallet,   *)
(* whatever races, repeats or dies and whichever route picks it up.        *)
THEOREM PaymentIsAtomic == Spec => ImplementsAtomicPayment
<1>1. Spec => []Inv
    BY Invariance
<1>2. Init => Atomic!Init
    BY InitImplementsAtomic
<1>3. Inv /\ [Next]_vars => [Atomic!Next]_<<[o \in Orders |-> PaidBy(o)], cached_balance,
                                           [o \in Orders |-> Cardinality(unread[o])],
                                           {t \in TxRefs : Spent(t)}>>
    BY StepImplementsAtomic DEF abstractVars, PaidByMap, InVainMap, SpentSet
<1>. QED
    BY <1>1, <1>2, <1>3, PTL DEF Spec, ImplementsAtomicPayment, Atomic!Spec
=============================================================================
