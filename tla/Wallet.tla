------------------------------- MODULE Wallet -------------------------------
(***************************************************************************)
(* The NaijaPay wallet of src/src/lib/wallet.ts: one append-only ledger    *)
(* (wallet_ledger) and one cached balance (wallet_accounts) per user.      *)
(*                                                                         *)
(* Both statements of a credit or a debit go to D1 in one db.batch(),      *)
(* which is one transaction: each is one action here.  A module that       *)
(* moves money EXTENDS this one and conjoins CreditWallet or DebitWallet   *)
(* to the action of its own handler.                                       *)
(*                                                                         *)
(* wallet_ledger is kept per user, in the order of its autoincrement id.   *)
(* A user without a wallet_accounts row reads as balance 0, which is also  *)
(* what ensureWalletAccount inserts, so the row's existence is not state.  *)
(***************************************************************************)
EXTENDS LedgerRows

CONSTANTS
    Users,           \* wallet owners (users.id)
    ReferenceIds,    \* what a row's reference_id may name, or NULL
    NULL,            \* SQL NULL
    OpeningBalance   \* money each user topped up before the behaviour starts

ASSUME WalletAssumption ==
    /\ OpeningBalance \in [Users -> Nat]
    /\ NULL \in ReferenceIds

VARIABLES
    cached_balance,  \* wallet_accounts.cached_balance_kobo, by user
    wallet_ledger    \* wallet_ledger rows, by user, oldest first

walletVars == <<cached_balance, wallet_ledger>>

LedgerRow == LedgerRowOf(ReferenceIds)

WalletTypeOK ==
    /\ cached_balance \in [Users -> Nat]
    /\ wallet_ledger \in [Users -> Seq(LedgerRow)]

WalletInit ==
    /\ cached_balance = OpeningBalance
    /\ wallet_ledger =
         [u \in Users |-> OpeningRows(OpeningBalance[u], NULL)]

(* creditWallet: throws unless the amount is positive; then the ledger row *)
(* with the balance it leads to, and the cached balance, in one batch.     *)
CreditWallet(u, amount, refType, refId) ==
    /\ amount > 0
    /\ wallet_ledger' =
         [wallet_ledger EXCEPT ![u] =
            Append(@, LedgerEntry("credit", amount,
                                  cached_balance[u] + amount, refType, refId))]
    /\ cached_balance' = [cached_balance EXCEPT ![u] = @ + amount]

(* The guard both statements of a debit repeat: without it rows_written is *)
(* 0 and the caller gets InsufficientFundsError.                           *)
CanDebit(u, amount) ==
    /\ amount > 0
    /\ cached_balance[u] >= amount

(* A deliberate fault, for the mutation runs. *)
DebitWalletCacheOnly(u, amount, refType, refId) ==
    /\ CanDebit(u, amount)
    /\ cached_balance' = [cached_balance EXCEPT ![u] = @ - amount]
    /\ UNCHANGED wallet_ledger

DebitWallet(u, amount, refType, refId) ==
    /\ CanDebit(u, amount)
    /\ wallet_ledger' =
         [wallet_ledger EXCEPT ![u] =
            Append(@, LedgerEntry("debit", amount,
                                  cached_balance[u] - amount, refType, refId))]
    /\ cached_balance' = [cached_balance EXCEPT ![u] = @ - amount]

-----------------------------------------------------------------------------
(* The rows a caller looks for in a user's ledger. *)
EntriesFor(u, refType, refId) == RowsWith(wallet_ledger[u], refType, refId)

(* The cached balance is what the ledger says: every row's balance_after   *)
(* is the previous row's plus its own signed amount, the cached balance is *)
(* the last row's, and no row was ever written below zero.  (0001_initial_ *)
(* schema.sql:197 "MUST always equal SUM of wallet_ledger for that user".) *)
LedgerChained ==
    \A u \in Users : Chained(cached_balance[u], wallet_ledger[u])
=============================================================================
