------------------------------ MODULE Affiliate ------------------------------
(***************************************************************************)
(* The affiliate program (src/src/lib/affiliate.ts, api-affiliate.ts):     *)
(* joining, clicks on referral links and whom they are attributed to, the  *)
(* commissions of a paid order, the affiliate's ledger, payout requests.   *)
(*                                                                         *)
(* Unlike wallet.ts, which it says it mirrors, the ledger writes a balance *)
(* computed from an earlier read.  One SQL statement or batch is one       *)
(* action; a call that has returned may begin again.                       *)
(***************************************************************************)
EXTENDS Integers, Sequences, FiniteSets, Sums, OrderItems

CONSTANTS
    Affiliates,       \* affiliate_profiles.id
    Customers,        \* users who buy
    owner,            \* order -> customer
    line_total,       \* item -> line_total_kobo
    rate_bps,         \* default_commission_bps
    payout_threshold, \* payout_threshold_kobo
    MaxClicks,        \* bound: clicks on referral links
    MaxPayouts,       \* bound: payout requests
    MaxCrashes,       \* bound: calls that end between two statements
    Calls             \* concurrent HTTP requests

AttributionIds == 1 .. MaxClicks

ASSUME AffiliateAssumption ==
    /\ owner \in [Orders -> Customers]
    /\ order_of \in [Items -> Orders]
    /\ line_total \in [Items -> Nat]
    /\ {rate_bps, payout_threshold, MaxClicks, MaxPayouts, MaxCrashes} \subseteq Nat
    /\ IsFiniteSet(Items)
    /\ NULL \notin Affiliates \union Customers \union Orders \union Nat

VARIABLES
    referral_code,     \* affiliate -> "none" (has not joined), "missing", "active"
    attributions,      \* rows in order of id: affiliate, customer, status
    expired,           \* the first so many of them have expired
    commissions,       \* item -> the attribution it earned on, or NULL
    affiliate_ledger,  \* affiliate -> its rows, oldest first
    cached_available,  \* affiliate -> cached_available_kobo, NULL without a row
    affiliate_payouts, \* rows in order of id: affiliate, amount
    confirmed,         \* orders whose payment was confirmed
    call,              \* where each call stands, and what it holds
    crashes,
    overtaken,         \* history: affiliates whose balance somebody wrote on
                       \* an outdated read, or whose payout found it spent
    contested          \* history: attributions a call began to convert while
                       \* another was at work on them, or had died there

clickVars == <<referral_code, attributions, expired>>
earningVars == <<commissions, confirmed, contested>>
ledgerVars == <<affiliate_ledger, cached_available, overtaken>>
affiliateVars == <<clickVars, earningVars, ledgerVars, affiliate_payouts, call, crashes>>

AffiliateLocations == {"idle", "code", "attach", "attribution", "commission", "payout",
              "balance", "write", "dead"}

(* A call holds the affiliate it works for, the attribution it found and   *)
(* the user it attaches to it, the order it confirms and the items it has  *)
(* not come to, what it credits or (for a payout) debits, and the balance  *)
(* it read.                                                                *)
Idle == [pc |-> "idle", affiliate |-> NULL, attribution |-> NULL, customer |-> NULL,
         order |-> NULL, todo |-> {}, amount |-> 0, payout |-> NULL, current |-> 0]

AffiliateInit ==
    /\ referral_code = [f \in Affiliates |-> "none"]
    /\ attributions = <<>>
    /\ expired = 0
    /\ commissions = [i \in Items |-> NULL]
    /\ affiliate_ledger = [f \in Affiliates |-> <<>>]
    /\ cached_available = [f \in Affiliates |-> NULL]
    /\ affiliate_payouts = <<>>
    /\ confirmed = {}
    /\ call = [c \in Calls |-> Idle]
    /\ crashes = 0
    /\ overtaken = {}
    /\ contested = {}

-----------------------------------------------------------------------------
At(c, here) == call[c].pc = here

Becomes(c, state) == call' = [call EXCEPT ![c] = state]

(* The call ends and forgets. *)
Return(c) == Becomes(c, Idle)

-----------------------------------------------------------------------------
(* Joining. *)

(* enrollAffiliate.  Who has a profile gets it back; a second INSERT for a *)
(* user fails on UNIQUE(user_id).  Neither writes anything.                *)
EnrollAffiliate(c, f) ==
    /\ At(c, "idle")
    /\ referral_code[f] = "none"
    /\ referral_code' = [referral_code EXCEPT ![f] = "missing"]
    /\ Becomes(c, [call[c] EXCEPT !.pc = "code", !.affiliate = f])
    /\ UNCHANGED <<attributions, expired, earningVars, ledgerVars, affiliate_payouts,
                   crashes>>

InsertReferralCode(c) ==
    /\ At(c, "code")
    /\ referral_code' = [referral_code EXCEPT ![call[c].affiliate] = "active"]
    /\ Return(c)
    /\ UNCHANGED <<attributions, expired, earningVars, ledgerVars, affiliate_payouts,
                   crashes>>

-----------------------------------------------------------------------------
(* Clicks. *)

IsActive(a) == attributions[a].status = "pending" /\ a > expired

(* recordClick, for a visitor who is logged in as u or (NULL) is not: the  *)
(* click and its attribution, and the look-up by the new token.            *)
RecordClick(c, f, u) ==
    /\ At(c, "idle")
    /\ referral_code[f] = "active"
    /\ Len(attributions) < MaxClicks
    /\ attributions' = Append(attributions,
          [affiliate |-> f, customer |-> NULL, status |-> "pending"])
    /\ IF u = NULL THEN UNCHANGED call
       ELSE Becomes(c, [call[c] EXCEPT !.pc = "attach", !.customer = u,
                                       !.attribution = Len(attributions')])
    /\ UNCHANGED <<referral_code, expired, earningVars, ledgerVars, affiliate_payouts,
                   crashes>>

(* The middleware's other branch: the visitor comes back, logged in, with  *)
(* the cookie of an earlier click that has no customer yet.                *)
FindClick(c, a, u) ==
    /\ At(c, "idle")
    /\ IsActive(a)
    /\ attributions[a].customer = NULL
    /\ Becomes(c, [call[c] EXCEPT !.pc = "attach", !.customer = u, !.attribution = a])
    /\ UNCHANGED <<clickVars, earningVars, ledgerVars, affiliate_payouts, crashes>>

AttachCustomer(c) ==
    /\ At(c, "attach")
    /\ attributions' =
          [attributions EXCEPT ![call[c].attribution].customer = call[c].customer]
    /\ Return(c)
    /\ UNCHANGED <<referral_code, expired, earningVars, ledgerVars, affiliate_payouts,
                   crashes>>

(* Thirty days go by: attributions expire in the order they were made.     *)
Expire ==
    /\ expired < Len(attributions)
    /\ expired' = expired + 1
    /\ UNCHANGED <<referral_code, attributions, earningVars, ledgerVars,
                   affiliate_payouts, call, crashes>>

-----------------------------------------------------------------------------
(* Commissions. *)

CalculateCommission(gross) == (gross * rate_bps) \div 10000

ActiveFor(u) == {a \in DOMAIN attributions : IsActive(a) /\ attributions[a].customer = u}

(* getLatestPendingAttributionForCustomer, once the order's payment is     *)
(* confirmed, which happens once.                                          *)
ConfirmOrder(c, o) ==
    LET found == ActiveFor(owner[o]) IN
    /\ At(c, "idle")
    /\ o \notin confirmed
    /\ confirmed' = confirmed \union {o}
    /\ IF found = {} THEN UNCHANGED call
       ELSE Becomes(c, [call[c] EXCEPT !.pc = "attribution", !.order = o,
                                       !.attribution = Max(found)])
    /\ UNCHANGED <<clickVars, commissions, contested, ledgerVars, affiliate_payouts,
                   crashes>>

Converting(a) ==
    \E c \in Calls : /\ call[c].attribution = a
                     /\ call[c].affiliate # NULL

(* confirmCommissionsForOrder reads the attribution again, and the items.  *)
ReadAttribution(c) ==
    LET a == call[c].attribution IN
    /\ At(c, "attribution")
    /\ \/ /\ attributions[a].status = "pending"
          /\ Becomes(c, [call[c] EXCEPT !.pc = "commission",
                                          !.affiliate = attributions[a].affiliate,
                                          !.todo = ItemsOf(call[c].order)])
          /\ contested' = IF Converting(a) THEN contested \union {a} ELSE contested
       \/ /\ attributions[a].status # "pending"
          /\ Return(c)
          /\ UNCHANGED contested
    /\ UNCHANGED <<clickVars, commissions, confirmed, ledgerVars, affiliate_payouts,
                   crashes>>

(* An item that has a commission, or would earn nothing, is passed over.   *)
IsEarned(i) == commissions[i] = NULL /\ CalculateCommission(line_total[i]) > 0

InsertCommission(c, i) ==
    /\ At(c, "commission")
    /\ i \in call[c].todo
    /\ \/ /\ IsEarned(i)
          /\ commissions' = [commissions EXCEPT ![i] = call[c].attribution]
          /\ Becomes(c, [call[c] EXCEPT !.pc = "balance", !.todo = @ \ {i},
                                          !.amount = CalculateCommission(line_total[i])])
       \/ /\ ~IsEarned(i)
          /\ Becomes(c, [call[c] EXCEPT !.todo = @ \ {i}])
          /\ UNCHANGED commissions
    /\ UNCHANGED <<clickVars, confirmed, contested, ledgerVars, affiliate_payouts,
                   crashes>>

(* A deliberate fault, for the mutation runs. *)
LeavePending(a) == attributions

(* The last UPDATE of confirmCommissionsForOrder, whatever the status is.  *)
Convert(a) == [attributions EXCEPT ![a].status = "converted"]

MarkConverted(c) ==
    /\ At(c, "commission")
    /\ call[c].todo = {}
    /\ attributions' = Convert(call[c].attribution)
    /\ Return(c)
    /\ UNCHANGED <<referral_code, expired, earningVars, ledgerVars, affiliate_payouts,
                   crashes>>

-----------------------------------------------------------------------------
(* Payout requests. *)

Balance(f) == IF cached_available[f] = NULL THEN 0 ELSE cached_available[f]

Requesting == {c \in Calls : At(c, "payout")}

Requested == Len(affiliate_payouts) + Cardinality(Requesting)

(* requestAffiliatePayout: the whole balance, if it is enough.             *)
RequestPayout(c, f) ==
    /\ At(c, "idle")
    /\ Requested < MaxPayouts
    /\ Balance(f) > 0 /\ Balance(f) >= payout_threshold
    /\ Becomes(c, [call[c] EXCEPT !.pc = "payout", !.affiliate = f, !.amount = Balance(f)])
    /\ UNCHANGED <<clickVars, earningVars, ledgerVars, affiliate_payouts, crashes>>

InsertPayout(c) ==
    /\ At(c, "payout")
    /\ affiliate_payouts' = Append(affiliate_payouts,
          [affiliate |-> call[c].affiliate, amount |-> call[c].amount])
    /\ Becomes(c, [call[c] EXCEPT !.pc = "balance", !.payout = Len(affiliate_payouts')])
    /\ UNCHANGED <<clickVars, earningVars, ledgerVars, crashes>>

-----------------------------------------------------------------------------
(* The ledger. *)

IsDebit(c) == call[c].payout # NULL

(* A deliberate fault, for the mutation runs. *)
CanDebitAnything(c) == TRUE

(* current < amountKobo, in debitAffiliateLedger only. *)
CanDebit(c) == IsDebit(c) => Balance(call[c].affiliate) >= call[c].amount

(* creditAffiliateLedger and debitAffiliateLedger: INSERT OR IGNORE of the *)
(* account, then its balance is read; a debit of more than that throws.    *)
ReadBalance(c) ==
    LET f == call[c].affiliate IN
    /\ At(c, "balance")
    /\ cached_available' = [cached_available EXCEPT ![f] = Balance(f)]
    /\ \/ /\ CanDebit(c)
          /\ Becomes(c, [call[c] EXCEPT !.pc = "write", !.current = Balance(f)])
          /\ UNCHANGED overtaken
       \/ /\ ~CanDebit(c)
          /\ Return(c)
          /\ overtaken' = overtaken \union {f}
    /\ UNCHANGED <<clickVars, earningVars, affiliate_ledger, affiliate_payouts, crashes>>

NewBalance(c) == IF IsDebit(c) THEN call[c].current - call[c].amount
                               ELSE call[c].current + call[c].amount

NewRow(c) == [entry_type |-> IF IsDebit(c) THEN "debit" ELSE "credit",
              amount |-> call[c].amount,
              balance_after |-> NewBalance(c),
              reference |-> IF IsDebit(c) THEN call[c].payout ELSE call[c].order]

(* The batch: the ledger row, and the balance as computed from the read.   *)
WriteLedger(c) ==
    LET f == call[c].affiliate IN
    /\ At(c, "write")
    /\ affiliate_ledger' = [affiliate_ledger EXCEPT ![f] = Append(@, NewRow(c))]
    /\ cached_available' = [cached_available EXCEPT ![f] = NewBalance(c)]
    /\ overtaken' = IF Balance(f) # call[c].current THEN overtaken \union {f} ELSE overtaken
    /\ IF IsDebit(c) THEN Return(c)
                     ELSE Becomes(c, [call[c] EXCEPT !.pc = "commission"])
    /\ UNCHANGED <<clickVars, earningVars, affiliate_payouts, crashes>>

(* A statement throws, or the Worker dies, between two statements.         *)
AffiliateCrash(c) ==
    /\ call[c].pc \notin {"idle", "dead"}
    /\ crashes < MaxCrashes
    /\ crashes' = crashes + 1
    /\ Becomes(c, [call[c] EXCEPT !.pc = "dead"])
    /\ UNCHANGED <<clickVars, earningVars, ledgerVars, affiliate_payouts>>

Request(c) ==
    \/ \E f \in Affiliates :
       \/ EnrollAffiliate(c, f)
       \/ RequestPayout(c, f)
       \/ \E u \in Customers \union {NULL} : RecordClick(c, f, u)
    \/ \E a \in DOMAIN attributions, u \in Customers : FindClick(c, a, u)
    \/ \E o \in Orders : ConfirmOrder(c, o)
    \/ \E i \in Items : InsertCommission(c, i)
    \/ InsertReferralCode(c)
    \/ AttachCustomer(c)
    \/ ReadAttribution(c)
    \/ MarkConverted(c)
    \/ InsertPayout(c)
    \/ ReadBalance(c)
    \/ WriteLedger(c)
    \/ AffiliateCrash(c)

AffiliateNext == Expire \/ \E c \in Calls : Request(c)

AffiliateSpec == AffiliateInit /\ [][AffiliateNext]_affiliateVars

-----------------------------------------------------------------------------
(* Properties. *)

AttributionRows == [affiliate : Affiliates, customer : Customers \union {NULL},
                    status : {"pending", "converted"}]
AffiliateLedgerRows == [entry_type : {"credit", "debit"}, amount : Nat \ {0},
               balance_after : Nat, reference : Orders \union (1 .. MaxPayouts)]
PayoutRows == [affiliate : Affiliates, amount : Nat \ {0}]
CallStates == [pc : AffiliateLocations, affiliate : Affiliates \union {NULL},
               attribution : AttributionIds \union {NULL},
               customer : Customers \union {NULL}, order : Orders \union {NULL},
               todo : SUBSET Items, amount : Nat, payout : (1 .. MaxPayouts) \union {NULL},
               current : Nat]

(* Types; and, whoever overtook whom, a balance is never below zero and is *)
(* the balance_after of the last row of the ledger.                        *)
AffiliateTypeOK ==
    /\ \A f \in Affiliates :
          LET rows == affiliate_ledger[f] IN
          IF rows = <<>> THEN Balance(f) = 0
                         ELSE Balance(f) = rows[Len(rows)].balance_after
    /\ referral_code \in [Affiliates -> {"none", "missing", "active"}]
    /\ attributions \in Seq(AttributionRows)
    /\ expired \in 0 .. Len(attributions)
    /\ commissions \in [Items -> (DOMAIN attributions) \union {NULL}]
    /\ affiliate_ledger \in [Affiliates -> Seq(AffiliateLedgerRows)]
    /\ cached_available \in [Affiliates -> Nat \union {NULL}]
    /\ affiliate_payouts \in Seq(PayoutRows)
    /\ confirmed \subseteq Orders
    /\ call \in [Calls -> CallStates]
    /\ crashes \in 0 .. MaxCrashes
    /\ overtaken \subseteq Affiliates
    /\ contested \subseteq DOMAIN attributions

RowsOf(f, type) ==
    {n \in DOMAIN affiliate_ledger[f] : affiliate_ledger[f][n].entry_type = type}

RowsFor(f, type, ref) == {n \in RowsOf(f, type) : affiliate_ledger[f][n].reference = ref}

Amounts(f) == [n \in DOMAIN affiliate_ledger[f] |-> affiliate_ledger[f][n].amount]

Total(f, rows) == SumOver(Amounts(f), rows)

CommissionOf == [i \in Items |-> CalculateCommission(line_total[i])]

EarningItems(f, o) == {i \in ItemsOf(o) : /\ commissions[i] # NULL
                                          /\ attributions[commissions[i]].affiliate = f}

Earned(f, o) == SumOver(CommissionOf, EarningItems(f, o))

(* An attribution earns on one order, although every order looks for one,  *)
(* unless two were paid for at the same time or a conversion broke off.    *)
AttributionServesOneOrder ==
    \A i, j \in Items :
        /\ commissions[i] # NULL
        /\ commissions[i] = commissions[j]
        /\ commissions[i] \notin contested
        => order_of[i] = order_of[j]

(* What an order earned is credited, to the affiliate whose link it was    *)
(* and never twice, unless the call that confirms it is still at work or   *)
(* has broken off.                                                         *)
EarningsAreCredited ==
    \A f \in Affiliates, o \in Orders :
        LET credited == Total(f, RowsFor(f, "credit", o)) IN
        /\ credited <= Earned(f, o)
        /\ (\A c \in Calls : call[c].order # o) => credited = Earned(f, o)

(* A payout is debited once, with what it asks for; one that is not is     *)
(* still at work, broke off, or found the balance spent.                   *)
PayoutsAreDebited ==
    \A p \in DOMAIN affiliate_payouts :
        LET f == affiliate_payouts[p].affiliate
            rows == RowsFor(f, "debit", p) IN
        /\ Cardinality(rows) <= 1
        /\ \A n \in rows : affiliate_ledger[f][n].amount = affiliate_payouts[p].amount
        /\ rows = {} => f \in overtaken \/ \E c \in Calls : call[c].payout = p

(* The balance of an affiliate nobody overtook is what was earned on       *)
(* orders less what was asked for, and both are in the ledger: through     *)
(* clicks, log-ins, expiry, further orders of a customer and calls that    *)
(* break off between two statements.                                       *)
UndisturbedAffiliateAddsUp ==
    /\ AttributionServesOneOrder
    /\ EarningsAreCredited
    /\ PayoutsAreDebited
    /\ \A f \in Affiliates \ overtaken :
          Balance(f) = Total(f, RowsOf(f, "credit")) - Total(f, RowsOf(f, "debit"))

(* affiliate.ts:22-26 of every balance; two credits that read the same     *)
(* balance, or a credit and a payout, break it.                            *)
BalanceIsTheLedger ==
    \A f \in Affiliates :
        Balance(f) = Total(f, RowsOf(f, "credit")) - Total(f, RowsOf(f, "debit"))

(* affiliate.ts:470-471 "Debits the ledger immediately"; of two requests   *)
(* at a time the slower leaves a 'requested' payout that nothing debits.   *)
EveryPayoutIsDebited ==
    \A p \in DOMAIN affiliate_payouts :
        \/ RowsFor(affiliate_payouts[p].affiliate, "debit", p) # {}
        \/ \E c \in Calls : call[c].payout = p
=============================================================================
