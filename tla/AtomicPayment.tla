---------------------------- MODULE AtomicPayment ---------------------------
(***************************************************************************)
(* What paying promises, with no requests, claims or rollbacks in sight:   *)
(* an order is paid for once, by the wallet or by a card charge; a wallet  *)
(* payment takes its money in the same step, or takes it in vain, which    *)
(* leaves the order to be paid; a card charge is spent once, on its order  *)
(* or on its user's wallet.  OrderPayment is shown to implement it.        *)
(***************************************************************************)
EXTENDS Integers

CONSTANTS
    Users, Orders, owner, total, OpeningBalance,
    CardCharges,     \* card charges
    chargeUser,      \* charge -> whose wallet it may be credited to
    chargeAmount,    \* charge -> what is credited
    chargeOrder      \* charge -> the order it may pay, if it was made for one

VARIABLES
    paid_by,    \* who the money of an order came from
    balance,    \* spendable money of a user
    in_vain,    \* how often an order's money was taken without paying it
    spent       \* charges that have paid an order or reached a wallet

Init ==
    /\ paid_by = [o \in Orders |-> "nobody"]
    /\ balance = OpeningBalance
    /\ in_vain = [o \in Orders |-> 0]
    /\ spent = {}

TakeMoney(o) ==
    /\ paid_by[o] = "nobody"
    /\ balance[owner[o]] >= total[o]
    /\ balance' = [balance EXCEPT ![owner[o]] = @ - total[o]]
    /\ UNCHANGED spent

PayByWallet(o) ==
    /\ TakeMoney(o)
    /\ paid_by' = [paid_by EXCEPT ![o] = "wallet"]
    /\ UNCHANGED in_vain

PayInVain(o) ==
    /\ TakeMoney(o)
    /\ in_vain' = [in_vain EXCEPT ![o] = @ + 1]
    /\ UNCHANGED paid_by

Spend(c) ==
    /\ c \notin spent
    /\ spent' = spent \union {c}

PayByCharge(o, c) ==
    /\ Spend(c)
    /\ chargeOrder[c] = o
    /\ paid_by[o] = "nobody"
    /\ paid_by' = [paid_by EXCEPT ![o] = "paystack"]
    /\ UNCHANGED <<balance, in_vain>>

CreditCharge(c) ==
    /\ Spend(c)
    /\ balance' = [balance EXCEPT ![chargeUser[c]] = @ + chargeAmount[c]]
    /\ UNCHANGED <<paid_by, in_vain>>

Next ==
    \/ \E o \in Orders : PayByWallet(o) \/ PayInVain(o)
    \/ \E o \in Orders, c \in CardCharges : PayByCharge(o, c)
    \/ \E c \in CardCharges : CreditCharge(c)

Spec == Init /\ [][Next]_<<paid_by, balance, in_vain, spent>>
=============================================================================
