----------------------------- MODULE LedgerRows -----------------------------
(***************************************************************************)
(* The rows of one user's wallet_ledger, oldest first: what is in a row,   *)
(* how rows are found again, and how each follows from the one before.     *)
(***************************************************************************)
EXTENDS Integers, Sequences

EntryTypes == {"credit", "debit"}

(* reference_type of the rows the modelled callers write *)
ReferenceTypes == {"opening", "topup", "order_payment", "order_refund",
                   "order_additional_charge", "booking_payment",
                   "booking_refund"}

LedgerEntry(type, amount, after, refType, refId) ==
    [entry_type |-> type, amount |-> amount, balance_after |-> after,
     reference_type |-> refType, reference_id |-> refId]

LedgerRowOf(referenceIds) ==
    [entry_type : EntryTypes, amount : Nat \ {0}, balance_after : Int,
     reference_type : ReferenceTypes, reference_id : referenceIds]

(* The rows of a user who starts with this balance. *)
OpeningRows(balance, refId) ==
    IF balance = 0 THEN <<>>
    ELSE <<LedgerEntry("credit", balance, balance, "opening", refId)>>

(* The rows a caller looks for by (reference_type, reference_id). *)
RowsWith(rows, refType, refId) ==
    {i \in 1..Len(rows) : /\ rows[i].reference_type = refType
                          /\ rows[i].reference_id = refId}

(* The change a row makes to the balance. *)
SignedAmount(entry) ==
    IF entry.entry_type = "credit" THEN entry.amount ELSE -entry.amount

(* The balance recorded by the row before the i-th. *)
BalanceBefore(rows, i) == IF i = 1 THEN 0 ELSE rows[i - 1].balance_after

LastBalance(rows) == BalanceBefore(rows, Len(rows) + 1)

(* Every row's balance_after is the previous row's plus its own signed     *)
(* amount and not negative, and the balance is the last row's.             *)
Chained(balance, rows) ==
    /\ balance = LastBalance(rows)
    /\ \A i \in 1..Len(rows) :
         /\ rows[i].balance_after = BalanceBefore(rows, i) + SignedAmount(rows[i])
         /\ rows[i].balance_after >= 0
=============================================================================
