---------------------------- MODULE ServiceQuotes ----------------------------
(***************************************************************************)
(* Services on demand: providers quote on a customer's service request     *)
(* (src/src/lib/service-requests.ts), the customer accepts a quote and it  *)
(* becomes a service order, which provider and customer then move along    *)
(* (src/src/lib/service-orders.ts), from api-service-requests.ts and       *)
(* api-provider.ts.                                                        *)
(*                                                                         *)
(* A call is an HTTP request being served; when it ends the next one may   *)
(* begin.  One SQL statement or batch is one action.  A quote's id is its  *)
(* place in the table, and the order made of a quote goes by its id.       *)
(***************************************************************************)
EXTENDS Integers, FiniteSets, HttpCalls

CONSTANTS
    Requests,      \* service_requests.id
    Providers,     \* provider_profiles.id
    MaxQuotes,     \* bound: rows of service_quotes
    price,         \* quote -> price_kobo + travel_fee_kobo it asks
    fee,           \* quote -> platform_fee_kobo, a tenth of price_kobo, rounded
    Charges,       \* additional charges a customer may confirm
    MaxCalls,      \* bound: calls that begin
    MaxCrashes     \* bound: Workers that die

Quotes == 1 .. MaxQuotes

ASSUME ServiceQuotesAssumption ==
    /\ MaxQuotes \in Nat
    /\ price \in [Quotes -> Nat]
    /\ fee \in [Quotes -> Nat]
    /\ Charges \subseteq Nat
    /\ MaxCalls \in Nat
    /\ MaxCrashes \in Nat
    /\ NULL \notin Quotes \union Providers \union Requests

VARIABLES
    request_status,  \* service_requests.status
    quote_status,    \* service_quotes.status, "absent" before the INSERT
    request_of,      \* service_quotes.service_request_id
    provider_of,     \* service_quotes.provider_profile_id
    version,         \* service_quotes.version
    supersedes,      \* service_quotes.supersedes_quote_id
    past_expiry,     \* quotes whose expires_at lies behind
    order_status,    \* service_orders.status, "absent" before the INSERT
    payment_status,  \* service_orders.payment_status
    charges,         \* service_orders.additional_charges_kobo
    total,           \* service_orders.total_kobo
    request,         \* the service request a call works on
    quote,           \* the quote (or its order) it works on
    provider,        \* the provider who calls createQuote
    seen,            \* the status its last read returned
    to,              \* the order status it writes
    amount,          \* the charge it writes
    begun,           \* calls begun so far
    crashes,         \* Workers that died so far
    was_accepted,    \* history: quotes a batch of acceptQuote accepted
    visited          \* history: the statuses an order ever had

quoteVars == <<quote_status, request_of, provider_of, version, supersedes>>
orderVars == <<order_status, payment_status, charges, total>>
localVars == <<request, quote, provider, seen, to, amount>>
historyVars == <<was_accepted, visited>>
vars == <<request_status, quoteVars, past_expiry, orderVars, pc, localVars,
          begun, crashes, historyVars>>

RequestStatuses == {"submitted", "matching", "quoted", "accepted"}
QuoteStatuses == {"absent", "sent", "accepted", "rejected", "expired", "withdrawn"}
OrderStatuses == {"absent", "accepted", "scheduled", "declined", "provider_arriving",
                  "cancelled", "no_show", "in_progress", "completed",
                  "customer_confirmed", "disputed"}
Locations == {"idle", "previous", "insert_quote", "withdraw", "quoted", "expire",
              "request", "accept", "existing", "insert_order", "reject",
              "provider_move", "customer_move", "charge", "dead"}

(* Requests just submitted, some already quoted on by one provider each. *)
Init ==
    \E n \in 0 .. MaxQuotes, p \in [Quotes -> Providers], r \in [Quotes -> Requests] :
        /\ \A q1, q2 \in 1 .. n : q1 # q2 => <<p[q1], r[q1]>> # <<p[q2], r[q2]>>
        /\ quote_status = [q \in Quotes |-> IF q <= n THEN "sent" ELSE "absent"]
        /\ request_of = [q \in Quotes |-> IF q <= n THEN r[q] ELSE NULL]
        /\ provider_of = [q \in Quotes |-> IF q <= n THEN p[q] ELSE NULL]
        /\ version = [q \in Quotes |-> 1]
        /\ supersedes = [q \in Quotes |-> NULL]
        /\ request_status = [x \in Requests |->
                IF \E q \in 1 .. n : r[q] = x THEN "quoted" ELSE "submitted"]
        /\ past_expiry = {}
        /\ order_status = [q \in Quotes |-> "absent"]
        /\ payment_status = [q \in Quotes |-> "unpaid"]
        /\ charges = [q \in Quotes |-> 0]
        /\ total = [q \in Quotes |-> 0]
        /\ pc = [c \in Calls |-> "idle"]
        /\ request = [c \in Calls |-> NULL]
        /\ quote = [c \in Calls |-> NULL]
        /\ provider = [c \in Calls |-> NULL]
        /\ seen = [c \in Calls |-> NULL]
        /\ to = [c \in Calls |-> NULL]
        /\ amount = [c \in Calls |-> 0]
        /\ begun = 0
        /\ crashes = 0
        /\ was_accepted = {}
        /\ visited = [q \in Quotes |-> {}]

-----------------------------------------------------------------------------
Begin(c, there) ==
    /\ begun < MaxCalls
    /\ begun' = begun + 1
    /\ Step(c, "idle", there)

(* The call ends and forgets. *)
Forget(c) ==
    /\ request' = [request EXCEPT ![c] = NULL]
    /\ quote' = [quote EXCEPT ![c] = NULL]
    /\ provider' = [provider EXCEPT ![c] = NULL]
    /\ seen' = [seen EXCEPT ![c] = NULL]
    /\ to' = [to EXCEPT ![c] = NULL]
    /\ amount' = [amount EXCEPT ![c] = 0]

Return(c, here) == Step(c, here, "idle") /\ Forget(c)

Open(q) == quote_status[q] = "sent"

-----------------------------------------------------------------------------
(* findMatchingProviders, for the customer's GET of matches: it writes     *)
(* 'matching' over whatever the status was.                                *)
FindMatchingProviders(c) ==
    /\ Begin(c, "idle")
    /\ \E r \in Requests :
          request_status' = [request_status EXCEPT ![r] = "matching"]
    /\ UNCHANGED <<quoteVars, past_expiry, orderVars, localVars, crashes, historyVars>>

(* createQuote.  A request is never 'completed', 'cancelled' or 'disputed' *)
(* in this code, so its first check always passes.                         *)
CreateQuote(c) ==
    \E r \in Requests, p \in Providers :
        /\ Begin(c, "previous")
        /\ request' = [request EXCEPT ![c] = r]
        /\ provider' = [provider EXCEPT ![c] = p]
        /\ seen' = [seen EXCEPT ![c] = request_status[r]]
        /\ UNCHANGED <<request_status, quoteVars, past_expiry, orderVars, quote, to,
                       amount, crashes, historyVars>>

(* A deliberate fault, for the mutation runs. *)
OpenQuotesOfAnyone(p, r) == {q \in Quotes : Open(q) /\ request_of[q] = r}

OpenQuotesOf(p, r) ==
    {q \in Quotes : Open(q) /\ provider_of[q] = p /\ request_of[q] = r}

(* The newest open quote of this provider, if any. *)
ReadPreviousQuote(c) ==
    LET mine == OpenQuotesOf(provider[c], request[c]) IN
    /\ Step(c, "previous", "insert_quote")
    /\ \/ mine = {} /\ UNCHANGED quote
       \/ \E q \in mine :
             /\ \A other \in mine : version[other] <= version[q]
             /\ quote' = [quote EXCEPT ![c] = q]
    /\ UNCHANGED <<request_status, quoteVars, past_expiry, orderVars, request, provider,
                   seen, to, amount, begun, crashes, historyVars>>

InsertQuote(c) ==
    \E q \in Quotes :
        /\ quote_status[q] = "absent"
        /\ \A earlier \in 1 .. q - 1 : quote_status[earlier] # "absent"
        /\ Step(c, "insert_quote", IF quote[c] = NULL THEN "quoted" ELSE "withdraw")
        /\ quote_status' = [quote_status EXCEPT ![q] = "sent"]
        /\ request_of' = [request_of EXCEPT ![q] = request[c]]
        /\ provider_of' = [provider_of EXCEPT ![q] = provider[c]]
        /\ version' = [version EXCEPT
                          ![q] = IF quote[c] = NULL THEN 1 ELSE version[quote[c]] + 1]
        /\ supersedes' = [supersedes EXCEPT ![q] = quote[c]]
        /\ UNCHANGED <<request_status, past_expiry, orderVars, localVars, begun, crashes,
                       historyVars>>

(* The UPDATE asks for no status: a quote accepted since is withdrawn too. *)
WithdrawPrevious(c) ==
    /\ Step(c, "withdraw", "quoted")
    /\ quote_status' = [quote_status EXCEPT ![quote[c]] = "withdrawn"]
    /\ UNCHANGED <<request_status, request_of, provider_of, version, supersedes,
                   past_expiry, orderVars, localVars, begun, crashes, historyVars>>

MarkQuoted(c) ==
    /\ Return(c, "quoted")
    /\ request_status' = IF seen[c] \in {"submitted", "matching"}
                         THEN [request_status EXCEPT ![request[c]] = "quoted"]
                         ELSE request_status
    /\ UNCHANGED <<quoteVars, past_expiry, orderVars, begun, crashes, historyVars>>

(* withdrawQuote: a compare-and-swap. *)
WithdrawQuote(c) ==
    /\ Begin(c, "idle")
    /\ \E q \in Quotes :
          /\ Open(q)
          /\ quote_status' = [quote_status EXCEPT ![q] = "withdrawn"]
    /\ UNCHANGED <<request_status, request_of, provider_of, version, supersedes,
                   past_expiry, orderVars, localVars, crashes, historyVars>>

-----------------------------------------------------------------------------
(* The customer reads a quote to look at it, accept it or reject it. *)
ExpiryPasses ==
    \E q \in Quotes \ past_expiry :
        /\ quote_status[q] # "absent"
        /\ past_expiry' = past_expiry \union {q}
        /\ UNCHANGED <<request_status, quoteVars, orderVars, pc, localVars, begun, crashes,
                       historyVars>>

ReadQuote(c, q, there) ==
    /\ Begin(c, there)
    /\ quote' = [quote EXCEPT ![c] = q]
    /\ UNCHANGED <<request_status, quoteVars, past_expiry, orderVars, request, provider,
                   seen, to, amount, crashes, historyVars>>

(* expireQuoteIfNeeded, for the routes that show quotes and for acceptQuote*)
(* itself, which then refuses.                                             *)
NoticeExpiry(c) ==
    \E q \in past_expiry : Open(q) /\ ReadQuote(c, q, "expire")

ExpireQuote(c) ==
    /\ Return(c, "expire")
    /\ quote_status' = [quote_status EXCEPT ![quote[c]] = "expired"]
    /\ UNCHANGED <<request_status, request_of, provider_of, version, supersedes,
                   past_expiry, orderVars, begun, crashes, historyVars>>

CanAccept(q) == Open(q) /\ q \notin past_expiry

AcceptQuote(c) ==
    \E q \in Quotes : CanAccept(q) /\ ReadQuote(c, q, "request")

(* acceptQuote's second read: "This request already has an accepted quote".*)
ReadRequest(c) ==
    \/ /\ Return(c, "request")
       /\ request_status[request_of[quote[c]]] = "accepted"
       /\ UNCHANGED <<request_status, quoteVars, past_expiry, orderVars, begun, crashes,
                      historyVars>>
    \/ /\ Step(c, "request", "accept")
       /\ request_status[request_of[quote[c]]] # "accepted"
       /\ UNCHANGED <<request_status, quoteVars, past_expiry, orderVars, localVars,
                      begun, crashes, historyVars>>

(* A deliberate fault, for the mutation runs. *)
AfterAcceptReturns == "idle"

AfterAccept == "existing"

AcceptBatch(c) ==
    LET q == quote[c] IN
    /\ Step(c, "accept", AfterAccept)
    /\ quote_status' = [quote_status EXCEPT ![q] = "accepted"]
    /\ request_status' = [request_status EXCEPT ![request_of[q]] = "accepted"]
    /\ was_accepted' = was_accepted \union {q}
    /\ UNCHANGED <<request_of, provider_of, version, supersedes, past_expiry, orderVars,
                   localVars, begun, crashes, visited>>

RejectQuote(c) == \E q \in Quotes : Open(q) /\ ReadQuote(c, q, "reject")

WriteRejection(c) ==
    /\ Return(c, "reject")
    /\ quote_status' = [quote_status EXCEPT ![quote[c]] = "rejected"]
    /\ UNCHANGED <<request_status, request_of, provider_of, version, supersedes,
                   past_expiry, orderVars, begun, crashes, historyVars>>

-----------------------------------------------------------------------------
(* createServiceOrderFromQuote, called with the quote acceptQuote returned.*)
HasOrder(q) == order_status[q] # "absent"

ReadExistingOrder(c) ==
    \/ /\ Return(c, "existing")
       /\ HasOrder(quote[c])
       /\ UNCHANGED <<request_status, quoteVars, past_expiry, orderVars, begun, crashes,
                      historyVars>>
    \/ /\ Step(c, "existing", "insert_order")
       /\ ~HasOrder(quote[c])
       /\ UNCHANGED <<request_status, quoteVars, past_expiry, orderVars, localVars,
                      begun, crashes, historyVars>>

(* The UNIQUE index on service_orders.service_quote_id. *)
IsFirstOrder(q) == ~HasOrder(q)

(* computeTotalKobo. *)
Total(q, additional) == price[q] + additional + fee[q]

InsertOrder(c) ==
    LET q == quote[c] IN
    /\ Return(c, "insert_order")
    /\ \/ /\ IsFirstOrder(q)
          /\ order_status' = [order_status EXCEPT ![q] = "accepted"]
          /\ payment_status' = [payment_status EXCEPT ![q] = "unpaid"]
          /\ charges' = [charges EXCEPT ![q] = 0]
          /\ total' = [total EXCEPT ![q] = Total(q, 0)]
          /\ visited' = [visited EXCEPT ![q] = @ \union {"accepted"}]
       \/ /\ ~IsFirstOrder(q)
          /\ UNCHANGED <<orderVars, visited>>
    /\ UNCHANGED <<request_status, quoteVars, past_expiry, begun, crashes, was_accepted>>

-----------------------------------------------------------------------------
(* The order's life. *)

(* PROVIDER_TRANSITIONS and CUSTOMER_TRANSITIONS. *)
ProviderTransitions ==
    {<<"accepted", "scheduled">>, <<"accepted", "declined">>,
     <<"scheduled", "provider_arriving">>, <<"scheduled", "cancelled">>,
     <<"scheduled", "no_show">>, <<"provider_arriving", "in_progress">>,
     <<"provider_arriving", "cancelled">>, <<"in_progress", "completed">>}

(* A deliberate fault, for the mutation runs. *)
CustomerTransitionsEarly ==
    {<<"accepted", "cancelled">>, <<"scheduled", "cancelled">>,
     <<"in_progress", "customer_confirmed">>, <<"completed", "disputed">>}

CustomerTransitions ==
    {<<"accepted", "cancelled">>, <<"scheduled", "cancelled">>,
     <<"completed", "customer_confirmed">>, <<"completed", "disputed">>}

ReadOrder(c, q, there) ==
    /\ Begin(c, there)
    /\ quote' = [quote EXCEPT ![c] = q]
    /\ UNCHANGED <<request_status, quoteVars, past_expiry, orderVars, request, provider,
                   seen, crashes, historyVars>>

ProviderTransition(c) ==
    \E q \in Quotes, s \in OrderStatuses :
        /\ <<order_status[q], s>> \in ProviderTransitions
        /\ ReadOrder(c, q, "provider_move")
        /\ to' = [to EXCEPT ![c] = s]
        /\ UNCHANGED amount

CustomerTransition(c) ==
    \E q \in Quotes, s \in OrderStatuses :
        /\ <<order_status[q], s>> \in CustomerTransitions
        /\ ReadOrder(c, q, "customer_move")
        /\ to' = [to EXCEPT ![c] = s]
        /\ UNCHANGED amount

(* The UPDATE asks for no status. *)
WriteOrderStatus(c) ==
    LET q == quote[c] IN
    /\ pc[c] \in {"provider_move", "customer_move"}
    /\ Return(c, pc[c])
    /\ order_status' = [order_status EXCEPT ![q] = to[c]]
    /\ payment_status' = [payment_status EXCEPT
                             ![q] = IF to[c] = "customer_confirmed" THEN "released" ELSE @]
    /\ visited' = [visited EXCEPT ![q] = @ \union {to[c]}]
    /\ UNCHANGED <<request_status, quoteVars, past_expiry, charges, total, begun, crashes,
                   was_accepted>>

(* confirmAdditionalCharge. *)
ConfirmAdditionalCharge(c) ==
    \E q \in Quotes, charge \in Charges :
        /\ order_status[q] \notin {"absent", "cancelled"}
        /\ ReadOrder(c, q, "charge")
        /\ amount' = [amount EXCEPT ![c] = charge]
        /\ UNCHANGED to

WriteCharge(c) ==
    LET q == quote[c] IN
    /\ Return(c, "charge")
    /\ charges' = [charges EXCEPT ![q] = amount[c]]
    /\ total' = [total EXCEPT ![q] = Total(q, amount[c])]
    /\ UNCHANGED <<request_status, quoteVars, past_expiry, order_status, payment_status,
                   begun, crashes, historyVars>>

-----------------------------------------------------------------------------
Crash(c) ==
    /\ crashes < MaxCrashes
    /\ pc[c] \notin {"idle", "dead"}
    /\ pc' = [pc EXCEPT ![c] = "dead"]
    /\ crashes' = crashes + 1
    /\ UNCHANGED <<request_status, quoteVars, past_expiry, orderVars, localVars,
                   begun, historyVars>>

Handler(c) ==
    \/ ReadPreviousQuote(c)
    \/ InsertQuote(c)
    \/ WithdrawPrevious(c)
    \/ MarkQuoted(c)
    \/ ExpireQuote(c)
    \/ ReadRequest(c)
    \/ AcceptBatch(c)
    \/ WriteRejection(c)
    \/ ReadExistingOrder(c)
    \/ InsertOrder(c)
    \/ WriteOrderStatus(c)
    \/ WriteCharge(c)

Next ==
    \/ \E c \in Calls :
          \/ FindMatchingProviders(c)
          \/ CreateQuote(c)
          \/ WithdrawQuote(c)
          \/ NoticeExpiry(c)
          \/ AcceptQuote(c)
          \/ RejectQuote(c)
          \/ ProviderTransition(c)
          \/ CustomerTransition(c)
          \/ ConfirmAdditionalCharge(c)
          \/ Handler(c)
          \/ Crash(c)
    \/ ExpiryPasses

(* A Worker that is not killed runs its handler to the end. *)
Fairness == \A c \in Calls : WF_vars(Handler(c))

Spec == Init /\ [][Next]_vars /\ Fairness

-----------------------------------------------------------------------------
(* Properties. *)

(* A quote is superseded by the next version of the same provider's offer  *)
(* on the same request, never by a stranger's.                             *)
SupersededByItsProvider ==
    \A q \in Quotes : supersedes[q] # NULL =>
        LET old == supersedes[q] IN
        /\ provider_of[old] = provider_of[q]
        /\ request_of[old] = request_of[q]
        /\ version[q] = version[old] + 1

Types ==
    /\ request_status \in [Requests -> RequestStatuses]
    /\ quote_status \in [Quotes -> QuoteStatuses]
    /\ request_of \in [Quotes -> Requests \union {NULL}]
    /\ provider_of \in [Quotes -> Providers \union {NULL}]
    /\ version \in [Quotes -> 1 .. MaxQuotes]
    /\ supersedes \in [Quotes -> Quotes \union {NULL}]
    /\ past_expiry \subseteq Quotes
    /\ order_status \in [Quotes -> OrderStatuses]
    /\ payment_status \in [Quotes -> {"unpaid", "released"}]
    /\ charges \in [Quotes -> Nat]
    /\ total \in [Quotes -> Nat]
    /\ pc \in [Calls -> Locations]
    /\ request \in [Calls -> Requests \union {NULL}]
    /\ quote \in [Calls -> Quotes \union {NULL}]
    /\ provider \in [Calls -> Providers \union {NULL}]
    /\ seen \in [Calls -> RequestStatuses \union {NULL}]
    /\ to \in [Calls -> OrderStatuses \union {NULL}]
    /\ amount \in [Calls -> Nat]
    /\ begun \in 0 .. MaxCalls
    /\ crashes \in 0 .. MaxCrashes
    /\ was_accepted \subseteq Quotes
    /\ visited \in [Quotes -> SUBSET OrderStatuses]

(* Types, and the keys that tie a quote to the quote it supersedes. *)
TypeOK == Types /\ SupersededByItsProvider

(* "A provider can never jump straight to 'completed'" and "a customer can *)
(* NEVER force a transition to 'completed'", nor release the payment       *)
(* before: however the two sides' requests overlap, the work went through  *)
(* every stage.  The bill is the quote, the fee and the charge confirmed.  *)
PaidOutForWorkDone ==
    \A q \in Quotes :
        /\ payment_status[q] = "released" => "customer_confirmed" \in visited[q]
        /\ visited[q] \intersect {"customer_confirmed", "disputed"} # {} =>
              {"scheduled", "provider_arriving", "in_progress", "completed"}
                  \subseteq visited[q]
        /\ "completed" \in visited[q] => "in_progress" \in visited[q]
        /\ HasOrder(q) => total[q] = price[q] + fee[q] + charges[q]

(* An accepted quote can never be accepted again, so its order must come   *)
(* from the call that accepted it: the order is there, or a call is about  *)
(* to insert it, or a Worker died in between.                              *)
AcceptedQuoteIsServed ==
    \A q \in was_accepted :
        \/ HasOrder(q)
        \/ \E c \in Calls : quote[c] = q /\ pc[c] \in {"existing", "insert_order"}
        \/ crashes > 0

(* A second acceptance of the same quote never starts its order over. *)
OrderStartsOnce ==
    \A q \in Quotes :
        order_status'[q] = "accepted" => order_status[q] \in {"absent", "accepted"}

(* "The UNIQUE index makes a duplicate order for the same quote a hard     *)
(* DB-level impossibility" (service-orders.ts:47-49): the acceptance of a  *)
(* quote makes its order, exactly one, and nothing else makes one.         *)
AcceptanceMakesOneOrder ==
    /\ [](AcceptedQuoteIsServed /\ \A q \in Quotes : HasOrder(q) => q \in was_accepted)
    /\ [][OrderStartsOnce]_vars

(* "A request may only ever produce ONE accepted quote"                    *)
(* (service-requests.ts:346-348).                                          *)
OneAcceptedQuote ==
    \A q1, q2 \in was_accepted : q1 # q2 => request_of[q1] # request_of[q2]
=============================================================================
