-------------------------- MODULE FulfilmentProofs --------------------------
(***************************************************************************)
(* Safety of what is delivered after the money is settled: the quotes and  *)
(* orders of services on demand (ServiceQuotes), then the dispatch and     *)
(* delivery of shipments (Shipments), for any requests, providers, quotes, *)
(* shipments, drivers and calls.                                           *)
(*                                                                         *)
(* The two parts of the system do not meet and no theorem speaks of both:  *)
(* they have the calls of HttpCalls in common, each in its own             *)
(* specification.                                                          *)
(***************************************************************************)
EXTENDS ServiceQuotes, Shipments, TLAPS

-----------------------------------------------------------------------------
(* Quotes and service orders.                                              *)
(*                                                                         *)
(* A status is written on an old read, so what an order's status is says   *)
(* little; what it has been says enough.  A move starts from a status the  *)
(* order once had, hence every stage an order reached has the ones before  *)
(* it in its past, whoever overtook whom (OrderInv).                       *)

Moves == ProviderTransitions \union CustomerTransitions

Serves(c, q) == quote[c] = q /\ pc[c] \in {"existing", "insert_order"}

(* The table of quotes: filled from the first row on, each row with its    *)
(* request, its provider and the quote it supersedes, which came before.   *)
QuoteInv ==
    \A q \in Quotes :
        /\ version[q] <= q
        /\ quote_status[q] # "absent" =>
              /\ request_of[q] \in Requests
              /\ provider_of[q] \in Providers
              /\ \A earlier \in 1 .. q - 1 : quote_status[earlier] # "absent"
        /\ supersedes[q] # NULL =>
              /\ quote_status[q] # "absent"
              /\ quote_status[supersedes[q]] # "absent"

(* What an order went through, and its bill. *)
OrderOK(q) ==
    /\ HasOrder(q) =>
          /\ quote_status[q] # "absent"
          /\ q \in was_accepted
          /\ order_status[q] \in visited[q]
          /\ total[q] = price[q] + fee[q] + charges[q]
    /\ payment_status[q] = "released" => "customer_confirmed" \in visited[q]
    /\ visited[q] \intersect {"customer_confirmed", "disputed"} # {} =>
          "completed" \in visited[q]
    /\ "completed" \in visited[q] => "in_progress" \in visited[q]
    /\ "in_progress" \in visited[q] => "provider_arriving" \in visited[q]
    /\ "provider_arriving" \in visited[q] => "scheduled" \in visited[q]

OrderInv == \A q \in Quotes : OrderOK(q)

(* What a call works on, where it stands. *)
CallOK(c) ==
    /\ pc[c] \in {"idle", "previous"} => quote[c] = NULL
    /\ pc[c] \in {"previous", "insert_quote"} =>
          request[c] \in Requests /\ provider[c] \in Providers
    /\ pc[c] \notin {"idle", "previous", "insert_quote", "quoted", "dead"} =>
          quote[c] \in Quotes
    /\ quote[c] # NULL => quote_status[quote[c]] # "absent"
    /\ pc[c] = "insert_quote" /\ quote[c] # NULL =>
          /\ provider_of[quote[c]] = provider[c]
          /\ request_of[quote[c]] = request[c]
    /\ pc[c] \in {"existing", "insert_order"} => quote[c] \in was_accepted
    /\ pc[c] \in {"provider_move", "customer_move"} =>
          \E s \in visited[quote[c]] : <<s, to[c]>> \in Moves
    /\ pc[c] \in {"provider_move", "customer_move", "charge"} => HasOrder(quote[c])

CallInv == \A c \in Calls : CallOK(c)

Inv ==
    /\ TypeOK
    /\ QuoteInv
    /\ OrderInv
    /\ CallInv
    /\ AcceptedQuoteIsServed

-----------------------------------------------------------------------------
(* A step is one call's: the others stand where they stood, and the tables *)
(* only grow.                                                              *)
Others(c) ==
    \A d \in Calls : d # c =>
        /\ pc'[d] = pc[d]
        /\ request'[d] = request[d]
        /\ quote'[d] = quote[d]
        /\ provider'[d] = provider[d]
        /\ to'[d] = to[d]

Grows ==
    /\ \A q \in Quotes :
          /\ quote_status[q] # "absent" =>
                /\ quote_status'[q] # "absent"
                /\ request_of'[q] = request_of[q]
                /\ provider_of'[q] = provider_of[q]
          /\ HasOrder(q) => HasOrder(q)'
          /\ visited[q] \subseteq visited'[q]
    /\ was_accepted \subseteq was_accepted'

(* What is known of the other calls still holds after a step of one.       *)
LEMMA OtherCalls ==
    ASSUME Inv, NEW c \in Calls, Others(c), Grows, CallOK(c)'
    PROVE  CallInv'
<1> SUFFICES ASSUME NEW d \in Calls, d # c PROVE CallOK(d)'
    BY DEF CallInv
<1>1. CallOK(d) /\ quote[d] \in Quotes \union {NULL}
    BY DEF Inv, CallInv, TypeOK, Types
<1>2. /\ pc'[d] = pc[d]
      /\ request'[d] = request[d]
      /\ quote'[d] = quote[d]
      /\ provider'[d] = provider[d]
      /\ to'[d] = to[d]
    BY DEF Others
<1>3. CASE quote[d] = NULL
    BY <1>1, <1>2, <1>3, ServiceQuotesAssumption DEF CallOK, Quotes
<1>4. CASE quote[d] \in Quotes
    BY <1>1, <1>2, <1>4 DEF CallOK, Grows
<1>. QED
    BY <1>1, <1>3, <1>4

(* An accepted quote is still served if the call that served it still      *)
(* does, made the order or died.                                           *)
LEMMA StillServed ==
    ASSUME Inv, NEW c \in Calls, Others(c), Grows,
           crashes' = crashes \/ crashes' = crashes + 1,
           \A q \in Quotes : Serves(c, q) => Serves(c, q)' \/ HasOrder(q)' \/ crashes' > 0,
           \A q \in was_accepted' : q \in was_accepted \/ Serves(c, q)',
           was_accepted' \subseteq Quotes
    PROVE  AcceptedQuoteIsServed'
<1> SUFFICES ASSUME NEW q \in was_accepted', ~HasOrder(q)', ~(crashes' > 0)
             PROVE  \E d \in Calls : Serves(d, q)'
    BY DEF AcceptedQuoteIsServed, Serves
<1>1. q \in Quotes /\ crashes \in Nat
    BY DEF Inv, TypeOK, Types
<1>2. CASE q \in was_accepted
    <2>1. PICK d \in Calls : Serves(d, q)
        BY <1>1, <1>2 DEF Inv, AcceptedQuoteIsServed, Serves, Grows
    <2>. QED
        BY <1>1, <2>1 DEF Others, Serves
<1>. QED
    BY <1>2

(* A step that writes no table of quotes or orders keeps what they say. *)
LEMMA UnchangedTables ==
    ASSUME Inv, UNCHANGED <<quoteVars, orderVars, historyVars>>
    PROVE  SupersededByItsProvider' /\ QuoteInv' /\ OrderInv' /\ Grows
BY DEF Inv, TypeOK, SupersededByItsProvider, QuoteInv, OrderInv, OrderOK, HasOrder,
   Grows, quoteVars, orderVars, historyVars

(* Nor does another status of a quote that is there. *)
LEMMA RestatedQuote ==
    ASSUME Inv, NEW q \in Quotes, NEW s, s # "absent", quote_status[q] # "absent",
           quote_status' = [quote_status EXCEPT ![q] = s],
           UNCHANGED <<request_of, provider_of, version, supersedes, orderVars, visited>>,
           was_accepted \subseteq was_accepted'
    PROVE  SupersededByItsProvider' /\ QuoteInv' /\ OrderInv' /\ Grows
<1>1. \A x \in Quotes : quote_status'[x] # "absent" <=> quote_status[x] # "absent"
    BY DEF Inv, TypeOK, Types
<1>2. SupersededByItsProvider' /\ QuoteInv'
    <2>1. SupersededByItsProvider'
        BY <1>1 DEF Inv, TypeOK, Types, SupersededByItsProvider
    <2>2. QuoteInv'
        BY <1>1 DEF Inv, TypeOK, Types, QuoteInv, Quotes
    <2>. QED
        BY <2>1, <2>2
<1>3. OrderInv' /\ Grows
    BY <1>1 DEF Inv, OrderInv, OrderOK, HasOrder, Grows, orderVars
<1>. QED
    BY <1>2, <1>3

(* A request is looked at by its customer. *)
LEMMA FindMatchingProvidersKeeps ==
    ASSUME Inv, NEW c \in Calls, FindMatchingProviders(c)
    PROVE  Inv' /\ OrderStartsOnce
<1> USE ServiceQuotesAssumption
<1> USE DEF Inv, TypeOK, FindMatchingProviders, Types, Step, Begin, Forget, Return,
       quoteVars, orderVars, localVars, historyVars, RequestStatuses, QuoteStatuses,
       OrderStatuses, Locations
<1>1. Types'
    OBVIOUS
<1>2. Others(c)
    BY DEF Others
<1>3. SupersededByItsProvider' /\ QuoteInv' /\ OrderInv' /\ Grows /\ OrderStartsOnce
    <2>1. UNCHANGED <<quoteVars, orderVars, historyVars>>
        OBVIOUS
    <2>. QED
        BY <2>1, UnchangedTables DEF OrderStartsOnce
<1>4. CallOK(c)'
    BY DEF CallInv, CallOK, HasOrder
<1>5. AcceptedQuoteIsServed'
    <2>1. /\ crashes' = crashes \/ crashes' = crashes + 1
          /\ \A q \in Quotes : Serves(c, q) => Serves(c, q)' \/ HasOrder(q)' \/ crashes' > 0
          /\ \A q \in was_accepted' : q \in was_accepted \/ Serves(c, q)'
          /\ was_accepted' \subseteq Quotes
        BY DEF CallInv, CallOK, Serves, HasOrder
    <2>. QED
        BY <1>2, <1>3, <2>1, StillServed
<1>. QED
    BY <1>1, <1>2, <1>3, <1>4, <1>5, OtherCalls

(* A provider starts a quote. *)
LEMMA CreateQuoteKeeps ==
    ASSUME Inv, NEW c \in Calls, CreateQuote(c)
    PROVE  Inv' /\ OrderStartsOnce
<1> USE ServiceQuotesAssumption
<1> USE DEF Inv, TypeOK, CreateQuote, Types, Step, Begin, Forget, Return, quoteVars,
       orderVars, localVars, historyVars, RequestStatuses, QuoteStatuses, OrderStatuses,
       Locations
<1>1. Types'
    OBVIOUS
<1>2. Others(c)
    BY DEF Others
<1>3. SupersededByItsProvider' /\ QuoteInv' /\ OrderInv' /\ Grows /\ OrderStartsOnce
    <2>1. UNCHANGED <<quoteVars, orderVars, historyVars>>
        OBVIOUS
    <2>. QED
        BY <2>1, UnchangedTables DEF OrderStartsOnce
<1>4. CallOK(c)'
    BY DEF CallInv, CallOK, HasOrder
<1>5. AcceptedQuoteIsServed'
    <2>1. /\ crashes' = crashes \/ crashes' = crashes + 1
          /\ \A q \in Quotes : Serves(c, q) => Serves(c, q)' \/ HasOrder(q)' \/ crashes' > 0
          /\ \A q \in was_accepted' : q \in was_accepted \/ Serves(c, q)'
          /\ was_accepted' \subseteq Quotes
        BY DEF CallInv, CallOK, Serves, HasOrder
    <2>. QED
        BY <1>2, <1>3, <2>1, StillServed
<1>. QED
    BY <1>1, <1>2, <1>3, <1>4, <1>5, OtherCalls

(* A quote is read, to be shown, accepted or rejected. *)
LEMMA ReadQuoteKeeps ==
    ASSUME Inv, NEW c \in Calls, NEW q \in Quotes,
           NEW there \in {"expire", "request", "reject"}, quote_status[q] # "absent",
           ReadQuote(c, q, there)
    PROVE  Inv' /\ OrderStartsOnce
<1> USE ServiceQuotesAssumption
<1> USE DEF Inv, TypeOK, ReadQuote, Types, Step, Begin, Forget, Return, quoteVars,
       orderVars, localVars, historyVars, RequestStatuses, QuoteStatuses, OrderStatuses,
       Locations
<1>1. Types'
    OBVIOUS
<1>2. Others(c)
    BY DEF Others
<1>3. SupersededByItsProvider' /\ QuoteInv' /\ OrderInv' /\ Grows /\ OrderStartsOnce
    <2>1. UNCHANGED <<quoteVars, orderVars, historyVars>>
        OBVIOUS
    <2>. QED
        BY <2>1, UnchangedTables DEF OrderStartsOnce
<1>4. CallOK(c)'
    BY DEF CallInv, CallOK, HasOrder
<1>5. AcceptedQuoteIsServed'
    <2>1. /\ crashes' = crashes \/ crashes' = crashes + 1
          /\ \A p \in Quotes : Serves(c, p) => Serves(c, p)' \/ HasOrder(p)' \/ crashes' > 0
          /\ \A p \in was_accepted' : p \in was_accepted \/ Serves(c, p)'
          /\ was_accepted' \subseteq Quotes
        BY DEF CallInv, CallOK, Serves, HasOrder
    <2>. QED
        BY <1>2, <1>3, <2>1, StillServed
<1>. QED
    BY <1>1, <1>2, <1>3, <1>4, <1>5, OtherCalls

(* An order is read, to be moved or charged. *)
LEMMA ReadOrderKeeps ==
    ASSUME Inv, NEW c \in Calls, NEW q \in Quotes,
           NEW there \in {"provider_move", "customer_move", "charge"}, HasOrder(q),
           ReadOrder(c, q, there),
           to' \in [Calls -> OrderStatuses \union {NULL}],
           \A d \in Calls : d # c => to'[d] = to[d],
           there # "charge" => <<order_status[q], to'[c]>> \in Moves,
           amount' \in [Calls -> Nat]
    PROVE  Inv' /\ OrderStartsOnce
<1> USE ServiceQuotesAssumption
<1> USE DEF Inv, TypeOK, Types, ReadOrder
<1>1. Types'
    <2>1. /\ pc' \in [Calls -> Locations]
          /\ quote' \in [Calls -> Quotes \union {NULL}]
          /\ begun' \in 0 .. MaxCalls
        BY DEF Begin, Step, Locations
    <2>. QED
        BY <2>1 DEF quoteVars, orderVars, historyVars
<1>2. Others(c)
    BY DEF Step, Begin, Forget, Return, quoteVars, orderVars, localVars, historyVars,
       RequestStatuses, QuoteStatuses, OrderStatuses, Locations, Others
<1>3. SupersededByItsProvider' /\ QuoteInv' /\ OrderInv' /\ Grows /\ OrderStartsOnce
    <2>1. UNCHANGED <<quoteVars, orderVars, historyVars>>
        BY DEF quoteVars, orderVars, historyVars
    <2>. QED
        BY <2>1, UnchangedTables DEF OrderStartsOnce, orderVars
<1>4. CallOK(c)'
    <2>1. pc'[c] = there /\ quote'[c] = q
        BY DEF Begin, Step
    <2>2. quote_status[q] # "absent" /\ order_status[q] \in visited[q]
        BY DEF OrderInv, OrderOK
    <2>3. UNCHANGED <<quoteVars, orderVars, historyVars>>
        BY DEF quoteVars, orderVars, historyVars
    <2>. QED
        BY <2>1, <2>2, <2>3 DEF CallOK, HasOrder, quoteVars, orderVars, historyVars
<1>5. AcceptedQuoteIsServed'
    <2>1. /\ crashes' = crashes \/ crashes' = crashes + 1
          /\ \A p \in Quotes : Serves(c, p) => Serves(c, p)' \/ HasOrder(p)' \/ crashes' > 0
          /\ \A p \in was_accepted' : p \in was_accepted \/ Serves(c, p)'
          /\ was_accepted' \subseteq Quotes
        BY DEF CallInv, CallOK, Step, Begin, Forget, Return, quoteVars, orderVars,
           localVars, historyVars, RequestStatuses, QuoteStatuses, OrderStatuses,
           Locations, Serves, HasOrder
    <2>. QED
        BY <1>2, <1>3, <2>1, StillServed
<1>. QED
    BY <1>1, <1>2, <1>3, <1>4, <1>5, OtherCalls

(* createQuote looks for the quote it supersedes. *)
LEMMA ReadPreviousQuoteKeeps ==
    ASSUME Inv, NEW c \in Calls, ReadPreviousQuote(c)
    PROVE  Inv' /\ OrderStartsOnce
<1> USE ServiceQuotesAssumption
<1> USE DEF Inv, TypeOK, ReadPreviousQuote, OpenQuotesOf, Open, Types, Step, Begin,
       Forget, Return, quoteVars, orderVars, localVars, historyVars, RequestStatuses,
       QuoteStatuses, OrderStatuses, Locations
<1>1. Types'
    OBVIOUS
<1>2. Others(c)
    BY DEF Others
<1>3. SupersededByItsProvider' /\ QuoteInv' /\ OrderInv' /\ Grows /\ OrderStartsOnce
    <2>1. UNCHANGED <<quoteVars, orderVars, historyVars>>
        OBVIOUS
    <2>. QED
        BY <2>1, UnchangedTables DEF OrderStartsOnce
<1>4. CallOK(c)'
    BY DEF CallInv, CallOK, HasOrder
<1>5. AcceptedQuoteIsServed'
    <2>1. /\ crashes' = crashes \/ crashes' = crashes + 1
          /\ \A q \in Quotes : Serves(c, q) => Serves(c, q)' \/ HasOrder(q)' \/ crashes' > 0
          /\ \A q \in was_accepted' : q \in was_accepted \/ Serves(c, q)'
          /\ was_accepted' \subseteq Quotes
        BY DEF CallInv, CallOK, Serves, HasOrder
    <2>. QED
        BY <1>2, <1>3, <2>1, StillServed
<1>. QED
    BY <1>1, <1>2, <1>3, <1>4, <1>5, OtherCalls

(* The request is marked quoted. *)
LEMMA MarkQuotedKeeps ==
    ASSUME Inv, NEW c \in Calls, MarkQuoted(c)
    PROVE  Inv' /\ OrderStartsOnce
<1> USE ServiceQuotesAssumption
<1> USE DEF Inv, TypeOK, MarkQuoted, Types, Step, Begin, Forget, Return, quoteVars,
       orderVars, localVars, historyVars, RequestStatuses, QuoteStatuses, OrderStatuses,
       Locations
<1>1. Types'
    OBVIOUS
<1>2. Others(c)
    BY DEF Others
<1>3. SupersededByItsProvider' /\ QuoteInv' /\ OrderInv' /\ Grows /\ OrderStartsOnce
    <2>1. UNCHANGED <<quoteVars, orderVars, historyVars>>
        OBVIOUS
    <2>. QED
        BY <2>1, UnchangedTables DEF OrderStartsOnce
<1>4. CallOK(c)'
    BY DEF CallInv, CallOK, HasOrder
<1>5. AcceptedQuoteIsServed'
    <2>1. /\ crashes' = crashes \/ crashes' = crashes + 1
          /\ \A q \in Quotes : Serves(c, q) => Serves(c, q)' \/ HasOrder(q)' \/ crashes' > 0
          /\ \A q \in was_accepted' : q \in was_accepted \/ Serves(c, q)'
          /\ was_accepted' \subseteq Quotes
        BY DEF CallInv, CallOK, Serves, HasOrder
    <2>. QED
        BY <1>2, <1>3, <2>1, StillServed
<1>. QED
    BY <1>1, <1>2, <1>3, <1>4, <1>5, OtherCalls

(* acceptQuote looks at the request. *)
LEMMA ReadRequestKeeps ==
    ASSUME Inv, NEW c \in Calls, ReadRequest(c)
    PROVE  Inv' /\ OrderStartsOnce
<1> USE ServiceQuotesAssumption
<1> USE DEF Inv, TypeOK, Types, Step, Locations, quoteVars, orderVars, historyVars
<1>1. Types'
    <2>1. UNCHANGED <<request_status, quoteVars, past_expiry, orderVars, begun, crashes,
                      historyVars>>
        BY DEF ReadRequest
    <2>2. CASE Return(c, "request")
        BY <2>1, <2>2 DEF Return, Forget
    <2>3. CASE Step(c, "request", "accept") /\ UNCHANGED localVars
        BY <2>1, <2>3 DEF localVars
    <2>. QED
        BY <2>2, <2>3 DEF ReadRequest
<1>2. Others(c)
    BY DEF ReadRequest, Begin, Forget, Return, localVars, RequestStatuses,
       QuoteStatuses, OrderStatuses, Others
<1>3. SupersededByItsProvider' /\ QuoteInv' /\ OrderInv' /\ Grows /\ OrderStartsOnce
    <2>1. UNCHANGED <<quoteVars, orderVars, historyVars>>
        BY DEF ReadRequest
    <2>. QED
        BY <2>1, UnchangedTables DEF OrderStartsOnce
<1>4. CallOK(c)'
    BY DEF CallInv, ReadRequest, Begin, Forget, Return, localVars, RequestStatuses,
       QuoteStatuses, OrderStatuses, CallOK, HasOrder
<1>5. AcceptedQuoteIsServed'
    <2>1. /\ crashes' = crashes \/ crashes' = crashes + 1
          /\ \A q \in Quotes : Serves(c, q) => Serves(c, q)' \/ HasOrder(q)' \/ crashes' > 0
          /\ \A q \in was_accepted' : q \in was_accepted \/ Serves(c, q)'
          /\ was_accepted' \subseteq Quotes
        BY DEF CallInv, CallOK, ReadRequest, Begin, Forget, Return, localVars,
           RequestStatuses, QuoteStatuses, OrderStatuses, Serves, HasOrder
    <2>. QED
        BY <1>2, <1>3, <2>1, StillServed
<1>. QED
    BY <1>1, <1>2, <1>3, <1>4, <1>5, OtherCalls

(* createServiceOrderFromQuote looks for the order. *)
LEMMA ReadExistingOrderKeeps ==
    ASSUME Inv, NEW c \in Calls, ReadExistingOrder(c)
    PROVE  Inv' /\ OrderStartsOnce
<1> USE ServiceQuotesAssumption
<1> USE DEF Inv, TypeOK, ReadExistingOrder, Types, Step, Begin, Forget, Return,
       quoteVars, orderVars, localVars, historyVars, RequestStatuses, QuoteStatuses,
       OrderStatuses, Locations
<1>1. Types'
    <2>1. CASE Return(c, "existing")
        BY <2>1
    <2>2. CASE Step(c, "existing", "insert_order") /\ UNCHANGED localVars
        BY <2>2
    <2>. QED
        BY <2>1, <2>2
<1>2. Others(c)
    BY DEF Others
<1>3. SupersededByItsProvider' /\ QuoteInv' /\ OrderInv' /\ Grows /\ OrderStartsOnce
    <2>1. UNCHANGED <<quoteVars, orderVars, historyVars>>
        OBVIOUS
    <2>. QED
        BY <2>1, UnchangedTables DEF OrderStartsOnce
<1>4. CallOK(c)'
    BY DEF CallInv, CallOK, HasOrder
<1>5. AcceptedQuoteIsServed'
    <2>1. /\ crashes' = crashes \/ crashes' = crashes + 1
          /\ \A q \in Quotes : Serves(c, q) => Serves(c, q)' \/ HasOrder(q)' \/ crashes' > 0
          /\ \A q \in was_accepted' : q \in was_accepted \/ Serves(c, q)'
          /\ was_accepted' \subseteq Quotes
        BY DEF CallInv, CallOK, Serves, HasOrder
    <2>. QED
        BY <1>2, <1>3, <2>1, StillServed
<1>. QED
    BY <1>1, <1>2, <1>3, <1>4, <1>5, OtherCalls

(* A Worker dies. *)
LEMMA CrashKeeps ==
    ASSUME Inv, NEW c \in Calls, Crash(c)
    PROVE  Inv' /\ OrderStartsOnce
<1> USE ServiceQuotesAssumption
<1> USE DEF Inv, TypeOK, Crash, Types, Step, Begin, Forget, Return, quoteVars,
       orderVars, localVars, historyVars, RequestStatuses, QuoteStatuses, OrderStatuses,
       Locations
<1>1. Types'
    OBVIOUS
<1>2. Others(c)
    BY DEF Others
<1>3. SupersededByItsProvider' /\ QuoteInv' /\ OrderInv' /\ Grows /\ OrderStartsOnce
    <2>1. UNCHANGED <<quoteVars, orderVars, historyVars>>
        OBVIOUS
    <2>. QED
        BY <2>1, UnchangedTables DEF OrderStartsOnce
<1>4. CallOK(c)'
    BY DEF CallInv, CallOK, HasOrder
<1>5. AcceptedQuoteIsServed'
    <2>1. /\ crashes' = crashes \/ crashes' = crashes + 1
          /\ \A q \in Quotes : Serves(c, q) => Serves(c, q)' \/ HasOrder(q)' \/ crashes' > 0
          /\ \A q \in was_accepted' : q \in was_accepted \/ Serves(c, q)'
          /\ was_accepted' \subseteq Quotes
        BY DEF CallInv, CallOK, Serves, HasOrder
    <2>. QED
        BY <1>2, <1>3, <2>1, StillServed
<1>. QED
    BY <1>1, <1>2, <1>3, <1>4, <1>5, OtherCalls

(* A provider withdraws a quote. *)
LEMMA WithdrawQuoteKeeps ==
    ASSUME Inv, NEW c \in Calls, WithdrawQuote(c)
    PROVE  Inv' /\ OrderStartsOnce
<1> USE ServiceQuotesAssumption
<1> USE DEF Inv, WithdrawQuote, Open, Step, Return
<1>1. Types'
    BY DEF TypeOK, Types, Begin, Forget, quoteVars, orderVars, localVars, historyVars,
       RequestStatuses, QuoteStatuses, OrderStatuses, Locations
<1>2. Others(c)
    BY DEF TypeOK, Types, Begin, Forget, quoteVars, orderVars, localVars, historyVars,
       RequestStatuses, QuoteStatuses, OrderStatuses, Locations, Others
<1>3. SupersededByItsProvider' /\ QuoteInv' /\ OrderInv' /\ Grows /\ OrderStartsOnce
    <2>1. PICK q \in Quotes : /\ quote_status[q] # "absent"
                             /\ quote_status' = [quote_status EXCEPT ![q] = "withdrawn"]
        BY DEF CallInv, CallOK
    <2>2. /\ UNCHANGED <<request_of, provider_of, version, supersedes, orderVars, visited>>
          /\ was_accepted \subseteq was_accepted'
        BY DEF historyVars
    <2>. QED
        BY <2>1, <2>2, RestatedQuote DEF OrderStartsOnce, orderVars
<1>4. CallOK(c)'
    BY DEF TypeOK, CallInv, Types, Begin, Forget, quoteVars, orderVars, localVars,
       historyVars, RequestStatuses, QuoteStatuses, OrderStatuses, Locations, CallOK,
       HasOrder
<1>5. AcceptedQuoteIsServed'
    <2>1. /\ crashes' = crashes \/ crashes' = crashes + 1
          /\ \A q \in Quotes : Serves(c, q) => Serves(c, q)' \/ HasOrder(q)' \/ crashes' > 0
          /\ \A q \in was_accepted' : q \in was_accepted \/ Serves(c, q)'
          /\ was_accepted' \subseteq Quotes
        BY DEF TypeOK, CallInv, CallOK, Types, Begin, Forget, quoteVars, orderVars,
           localVars, historyVars, RequestStatuses, QuoteStatuses, OrderStatuses,
           Locations, Serves, HasOrder
    <2>. QED
        BY <1>2, <1>3, <2>1, StillServed
<1>. QED
    BY <1>1, <1>2, <1>3, <1>4, <1>5, OtherCalls DEF TypeOK

(* The quote superseded is withdrawn. *)
LEMMA WithdrawPreviousKeeps ==
    ASSUME Inv, NEW c \in Calls, WithdrawPrevious(c)
    PROVE  Inv' /\ OrderStartsOnce
<1> USE ServiceQuotesAssumption
<1> USE DEF Inv, WithdrawPrevious, Step, Return
<1>1. Types'
    BY DEF TypeOK, Types, Begin, Forget, quoteVars, orderVars, localVars, historyVars,
       RequestStatuses, QuoteStatuses, OrderStatuses, Locations
<1>2. Others(c)
    BY DEF TypeOK, Types, Begin, Forget, quoteVars, orderVars, localVars, historyVars,
       RequestStatuses, QuoteStatuses, OrderStatuses, Locations, Others
<1>3. SupersededByItsProvider' /\ QuoteInv' /\ OrderInv' /\ Grows /\ OrderStartsOnce
    <2>1. PICK q \in Quotes : /\ quote_status[q] # "absent"
                             /\ quote_status' = [quote_status EXCEPT ![q] = "withdrawn"]
        BY DEF CallInv, CallOK, Open
    <2>2. /\ UNCHANGED <<request_of, provider_of, version, supersedes, orderVars, visited>>
          /\ was_accepted \subseteq was_accepted'
        BY DEF historyVars
    <2>. QED
        BY <2>1, <2>2, RestatedQuote DEF OrderStartsOnce, orderVars
<1>4. CallOK(c)'
    BY DEF TypeOK, CallInv, Types, Begin, Forget, quoteVars, orderVars, localVars,
       historyVars, RequestStatuses, QuoteStatuses, OrderStatuses, Locations, CallOK,
       HasOrder
<1>5. AcceptedQuoteIsServed'
    <2>1. /\ crashes' = crashes \/ crashes' = crashes + 1
          /\ \A q \in Quotes : Serves(c, q) => Serves(c, q)' \/ HasOrder(q)' \/ crashes' > 0
          /\ \A q \in was_accepted' : q \in was_accepted \/ Serves(c, q)'
          /\ was_accepted' \subseteq Quotes
        BY DEF TypeOK, CallInv, CallOK, Types, Begin, Forget, quoteVars, orderVars,
           localVars, historyVars, RequestStatuses, QuoteStatuses, OrderStatuses,
           Locations, Serves, HasOrder
    <2>. QED
        BY <1>2, <1>3, <2>1, StillServed
<1>. QED
    BY <1>1, <1>2, <1>3, <1>4, <1>5, OtherCalls DEF TypeOK

(* A quote is found expired. *)
LEMMA ExpireQuoteKeeps ==
    ASSUME Inv, NEW c \in Calls, ExpireQuote(c)
    PROVE  Inv' /\ OrderStartsOnce
<1> USE ServiceQuotesAssumption
<1> USE DEF Inv, ExpireQuote, Step, Return
<1>1. Types'
    BY DEF TypeOK, Types, Begin, Forget, quoteVars, orderVars, localVars, historyVars,
       RequestStatuses, QuoteStatuses, OrderStatuses, Locations
<1>2. Others(c)
    BY DEF TypeOK, Types, Begin, Forget, quoteVars, orderVars, localVars, historyVars,
       RequestStatuses, QuoteStatuses, OrderStatuses, Locations, Others
<1>3. SupersededByItsProvider' /\ QuoteInv' /\ OrderInv' /\ Grows /\ OrderStartsOnce
    <2>1. PICK q \in Quotes : /\ quote_status[q] # "absent"
                             /\ quote_status' = [quote_status EXCEPT ![q] = "expired"]
        BY DEF CallInv, CallOK, Open
    <2>2. /\ UNCHANGED <<request_of, provider_of, version, supersedes, orderVars, visited>>
          /\ was_accepted \subseteq was_accepted'
        BY DEF historyVars
    <2>. QED
        BY <2>1, <2>2, RestatedQuote DEF OrderStartsOnce, orderVars
<1>4. CallOK(c)'
    BY DEF TypeOK, CallInv, Types, Begin, Forget, quoteVars, orderVars, localVars,
       historyVars, RequestStatuses, QuoteStatuses, OrderStatuses, Locations, CallOK,
       HasOrder
<1>5. AcceptedQuoteIsServed'
    <2>1. /\ crashes' = crashes \/ crashes' = crashes + 1
          /\ \A q \in Quotes : Serves(c, q) => Serves(c, q)' \/ HasOrder(q)' \/ crashes' > 0
          /\ \A q \in was_accepted' : q \in was_accepted \/ Serves(c, q)'
          /\ was_accepted' \subseteq Quotes
        BY DEF TypeOK, CallInv, CallOK, Types, Begin, Forget, quoteVars, orderVars,
           localVars, historyVars, RequestStatuses, QuoteStatuses, OrderStatuses,
           Locations, Serves, HasOrder
    <2>. QED
        BY <1>2, <1>3, <2>1, StillServed
<1>. QED
    BY <1>1, <1>2, <1>3, <1>4, <1>5, OtherCalls DEF TypeOK

(* A quote is rejected. *)
LEMMA WriteRejectionKeeps ==
    ASSUME Inv, NEW c \in Calls, WriteRejection(c)
    PROVE  Inv' /\ OrderStartsOnce
<1> USE ServiceQuotesAssumption
<1> USE DEF Inv, WriteRejection, Step, Return
<1>1. Types'
    BY DEF TypeOK, Types, Begin, Forget, quoteVars, orderVars, localVars, historyVars,
       RequestStatuses, QuoteStatuses, OrderStatuses, Locations
<1>2. Others(c)
    BY DEF TypeOK, Types, Begin, Forget, quoteVars, orderVars, localVars, historyVars,
       RequestStatuses, QuoteStatuses, OrderStatuses, Locations, Others
<1>3. SupersededByItsProvider' /\ QuoteInv' /\ OrderInv' /\ Grows /\ OrderStartsOnce
    <2>1. PICK q \in Quotes : /\ quote_status[q] # "absent"
                             /\ quote_status' = [quote_status EXCEPT ![q] = "rejected"]
        BY DEF CallInv, CallOK, Open
    <2>2. /\ UNCHANGED <<request_of, provider_of, version, supersedes, orderVars, visited>>
          /\ was_accepted \subseteq was_accepted'
        BY DEF historyVars
    <2>. QED
        BY <2>1, <2>2, RestatedQuote DEF OrderStartsOnce, orderVars
<1>4. CallOK(c)'
    BY DEF TypeOK, CallInv, Types, Begin, Forget, quoteVars, orderVars, localVars,
       historyVars, RequestStatuses, QuoteStatuses, OrderStatuses, Locations, CallOK,
       HasOrder
<1>5. AcceptedQuoteIsServed'
    <2>1. /\ crashes' = crashes \/ crashes' = crashes + 1
          /\ \A q \in Quotes : Serves(c, q) => Serves(c, q)' \/ HasOrder(q)' \/ crashes' > 0
          /\ \A q \in was_accepted' : q \in was_accepted \/ Serves(c, q)'
          /\ was_accepted' \subseteq Quotes
        BY DEF TypeOK, CallInv, CallOK, Types, Begin, Forget, quoteVars, orderVars,
           localVars, historyVars, RequestStatuses, QuoteStatuses, OrderStatuses,
           Locations, Serves, HasOrder
    <2>. QED
        BY <1>2, <1>3, <2>1, StillServed
<1>. QED
    BY <1>1, <1>2, <1>3, <1>4, <1>5, OtherCalls DEF TypeOK

(* A quote is accepted. *)
LEMMA AcceptBatchKeeps ==
    ASSUME Inv, NEW c \in Calls, AcceptBatch(c)
    PROVE  Inv' /\ OrderStartsOnce
<1> USE ServiceQuotesAssumption
<1> USE DEF Inv, AcceptBatch, Step, Return
<1>1. Types'
    <2>1. quote[c] \in Quotes
        BY DEF CallInv, CallOK
    <2>2. /\ request_status' \in [Requests -> RequestStatuses]
          /\ quote_status' \in [Quotes -> QuoteStatuses]
          /\ was_accepted' \subseteq Quotes
        BY <2>1 DEF TypeOK, Types, RequestStatuses, QuoteStatuses
    <2>3. pc' \in [Calls -> Locations]
        BY DEF TypeOK, Types, AfterAccept, Locations
    <2>. QED
        BY <2>2, <2>3 DEF TypeOK, Types, orderVars, localVars
<1>2. Others(c)
    BY DEF TypeOK, AfterAccept, Types, Begin, Forget, quoteVars, orderVars, localVars,
       historyVars, RequestStatuses, QuoteStatuses, OrderStatuses, Locations, Others
<1>3. SupersededByItsProvider' /\ QuoteInv' /\ OrderInv' /\ Grows /\ OrderStartsOnce
    <2>1. PICK q \in Quotes : /\ quote_status[q] # "absent"
                             /\ quote_status' = [quote_status EXCEPT ![q] = "accepted"]
        BY DEF CallInv, CallOK, Open
    <2>2. /\ UNCHANGED <<request_of, provider_of, version, supersedes, orderVars, visited>>
          /\ was_accepted \subseteq was_accepted'
        BY DEF historyVars
    <2>. QED
        BY <2>1, <2>2, RestatedQuote DEF OrderStartsOnce, orderVars
<1>4. CallOK(c)'
    BY DEF TypeOK, CallInv, AfterAccept, Types, Begin, Forget, quoteVars, orderVars,
       localVars, historyVars, RequestStatuses, QuoteStatuses, OrderStatuses, Locations,
       CallOK, HasOrder
<1>5. AcceptedQuoteIsServed'
    <2>1. /\ crashes' = crashes \/ crashes' = crashes + 1
          /\ \A q \in Quotes : Serves(c, q) => Serves(c, q)' \/ HasOrder(q)' \/ crashes' > 0
          /\ \A q \in was_accepted' : q \in was_accepted \/ Serves(c, q)'
          /\ was_accepted' \subseteq Quotes
        BY DEF TypeOK, CallInv, CallOK, AfterAccept, Types, Begin, Forget, quoteVars,
           orderVars, localVars, historyVars, RequestStatuses, QuoteStatuses,
           OrderStatuses, Locations, Serves, HasOrder
    <2>. QED
        BY <1>2, <1>3, <2>1, StillServed
<1>. QED
    BY <1>1, <1>2, <1>3, <1>4, <1>5, OtherCalls DEF TypeOK

(* The next row is a quote of the provider who calls, on his request. *)
LEMMA InsertQuoteKeeps ==
    ASSUME Inv, NEW c \in Calls, InsertQuote(c)
    PROVE  Inv' /\ OrderStartsOnce
<1> USE ServiceQuotesAssumption
<1>0. PICK q \in Quotes :
         /\ quote_status[q] = "absent"
         /\ \A earlier \in 1 .. q - 1 : quote_status[earlier] # "absent"
         /\ Step(c, "insert_quote", IF quote[c] = NULL THEN "quoted" ELSE "withdraw")
         /\ quote_status' = [quote_status EXCEPT ![q] = "sent"]
         /\ request_of' = [request_of EXCEPT ![q] = request[c]]
         /\ provider_of' = [provider_of EXCEPT ![q] = provider[c]]
         /\ version' = [version EXCEPT
                           ![q] = IF quote[c] = NULL THEN 1 ELSE version[quote[c]] + 1]
         /\ supersedes' = [supersedes EXCEPT ![q] = quote[c]]
    BY DEF InsertQuote
<1>0a. UNCHANGED <<request_status, past_expiry, orderVars, localVars, begun, crashes,
                  historyVars>>
    BY DEF InsertQuote
<1>0b. /\ request[c] \in Requests
       /\ provider[c] \in Providers
       /\ quote[c] # NULL =>
             /\ quote[c] \in Quotes
             /\ quote_status[quote[c]] # "absent"
             /\ provider_of[quote[c]] = provider[c]
             /\ request_of[quote[c]] = request[c]
             /\ version[quote[c]] <= quote[c]
             /\ quote[c] < q
    <2>1. CallOK(c) /\ pc[c] = "insert_quote" /\ quote[c] \in Quotes \union {NULL}
        BY <1>0 DEF Inv, TypeOK, Types, CallInv, Step
    <2>2. ASSUME quote[c] # NULL PROVE version[quote[c]] <= quote[c] /\ quote[c] < q
        <3>1. quote[c] \in Quotes /\ quote_status[quote[c]] # "absent"
            BY <2>1, <2>2 DEF CallOK
        <3>2. /\ version[quote[c]] <= quote[c]
              /\ \A earlier \in 1 .. quote[c] - 1 : quote_status[earlier] # "absent"
            BY <3>1 DEF Inv, QuoteInv
        <3>. QED
            BY <1>0, <3>1, <3>2 DEF Quotes
    <2>. QED
        BY <2>1, <2>2 DEF CallOK
<1>0c. PICK v \in 1 .. MaxQuotes :
          /\ version' = [version EXCEPT ![q] = v]
          /\ v <= q
          /\ quote[c] # NULL => v = version[quote[c]] + 1
    <2> DEFINE w == IF quote[c] = NULL THEN 1 ELSE version[quote[c]] + 1
    <2>1. w \in 1 .. MaxQuotes /\ w <= q
        <3>1. CASE quote[c] = NULL
            BY <3>1 DEF Quotes
        <3>2. CASE quote[c] # NULL
            <4>1. version[quote[c]] \in 1 .. MaxQuotes
                BY <1>0b, <3>2 DEF Inv, TypeOK, Types
            <4>2. /\ version[quote[c]] <= quote[c]
                  /\ quote[c] < q
                  /\ quote[c] \in 1 .. MaxQuotes
                  /\ q \in 1 .. MaxQuotes
                BY <1>0b, <3>2 DEF Quotes
            <4>3. version[quote[c]] + 1 \in 1 .. MaxQuotes /\ version[quote[c]] + 1 <= q
                BY <4>1, <4>2
            <4>. QED
                BY <3>2, <4>3
        <3>. QED
            BY <3>1, <3>2
    <2>2. version' = [version EXCEPT ![q] = w]
        BY <1>0
    <2>3. quote[c] # NULL => w = version[quote[c]] + 1
        OBVIOUS
    <2> HIDE DEF w
    <2>. QED
        BY <2>1, <2>2, <2>3
<1>0d. \A x \in Quotes :
          /\ x # q => /\ quote_status'[x] = quote_status[x]
                      /\ request_of'[x] = request_of[x]
                      /\ provider_of'[x] = provider_of[x]
                      /\ version'[x] = version[x]
                      /\ supersedes'[x] = supersedes[x]
          /\ x = q => /\ quote_status'[x] = "sent"
                      /\ request_of'[x] = request[c]
                      /\ provider_of'[x] = provider[c]
                      /\ version'[x] = v
                      /\ supersedes'[x] = quote[c]
    BY <1>0, <1>0c DEF Inv, TypeOK, Types
<1>1. Types'
    <2>1. version' \in [Quotes -> 1 .. MaxQuotes]
        BY <1>0c DEF Inv, TypeOK, Types
    <2>. QED
        BY <1>0, <1>0a, <1>0b, <2>1 DEF Inv, TypeOK, Types, QuoteStatuses, Locations,
           Step, orderVars, localVars, historyVars
<1>2. Others(c)
    BY <1>0, <1>0a DEF Inv, TypeOK, Types, Step, Others, localVars
<1>3. SupersededByItsProvider' /\ QuoteInv' /\ OrderInv' /\ Grows /\ OrderStartsOnce
    <2>1. SupersededByItsProvider'
        <3>1. \A x \in Quotes : supersedes[x] # NULL =>
                 supersedes[x] \in Quotes /\ supersedes[x] # q /\ x # q
            BY <1>0 DEF Inv, TypeOK, Types, QuoteInv
        <3>2. quote[c] # NULL => quote[c] # q
            BY <1>0, <1>0b
        <3>. SUFFICES ASSUME NEW x \in Quotes, supersedes'[x] # NULL
                      PROVE  /\ provider_of'[supersedes'[x]] = provider_of'[x]
                             /\ request_of'[supersedes'[x]] = request_of'[x]
                             /\ version'[x] = version'[supersedes'[x]] + 1
            BY DEF SupersededByItsProvider
        <3>3. CASE x = q
            BY <1>0b, <1>0c, <1>0d, <3>2, <3>3
        <3>4. CASE x # q
            BY <1>0d, <3>1, <3>4 DEF Inv, TypeOK, SupersededByItsProvider
        <3>. QED
            BY <3>3, <3>4
    <2>2. QuoteInv'
        <3>. SUFFICES ASSUME NEW x \in Quotes
                      PROVE  /\ version'[x] <= x
                             /\ quote_status'[x] # "absent" =>
                                   /\ request_of'[x] \in Requests
                                   /\ provider_of'[x] \in Providers
                                   /\ \A earlier \in 1 .. x - 1 :
                                         quote_status'[earlier] # "absent"
                             /\ supersedes'[x] # NULL =>
                                   /\ quote_status'[x] # "absent"
                                   /\ quote_status'[supersedes'[x]] # "absent"
            BY DEF QuoteInv
        <3>1. \A y \in Quotes : quote_status[y] # "absent" => quote_status'[y] # "absent"
            BY <1>0d
        <3>2. \A earlier \in 1 .. x - 1 : earlier \in Quotes
            BY DEF Quotes
        <3>3. CASE x = q
            BY <1>0, <1>0b, <1>0c, <1>0d, <3>1, <3>2, <3>3
        <3>4. CASE x # q
            <4>1. supersedes[x] \in Quotes \union {NULL}
                BY DEF Inv, TypeOK, Types
            <4>. QED
                BY <1>0d, <3>1, <3>2, <3>4, <4>1 DEF Inv, QuoteInv
        <3>. QED
            BY <3>3, <3>4
    <2>3. OrderInv' /\ Grows /\ OrderStartsOnce
        BY <1>0, <1>0a, <1>0d DEF Inv, TypeOK, Types, OrderInv, OrderOK, HasOrder,
           Grows, OrderStartsOnce, orderVars, historyVars
    <2>. QED
        BY <2>1, <2>2, <2>3
<1>4. CallOK(c)'
    <2>1. pc'[c] = (IF quote[c] = NULL THEN "quoted" ELSE "withdraw") /\ quote'[c] = quote[c]
        BY <1>0, <1>0a DEF Inv, TypeOK, Types, Step, localVars
    <2>2. CASE quote[c] = NULL
        BY <2>1, <2>2 DEF CallOK
    <2>3. CASE quote[c] # NULL
        <3>1. quote[c] \in Quotes /\ quote_status'[quote[c]] # "absent"
            BY <1>0b, <1>0d, <2>3
        <3>. QED
            BY <2>1, <2>3, <3>1 DEF CallOK
    <2>. QED
        BY <2>2, <2>3
<1>5. AcceptedQuoteIsServed'
    <2>1. /\ UNCHANGED <<crashes, was_accepted>>
          /\ \A x \in Quotes : ~Serves(c, x)
          /\ was_accepted \subseteq Quotes
        BY <1>0, <1>0a DEF Inv, TypeOK, Types, Step, Serves, historyVars
    <2>. QED
        BY <1>2, <1>3, <2>1, StillServed
<1>. QED
    BY <1>1, <1>2, <1>3, <1>4, <1>5, OtherCalls DEF Inv, TypeOK

(* The order of an accepted quote is made, unless it is there. *)
LEMMA InsertOrderKeeps ==
    ASSUME Inv, NEW c \in Calls, InsertOrder(c)
    PROVE  Inv' /\ OrderStartsOnce
<1> USE ServiceQuotesAssumption
<1> USE DEF Inv, TypeOK, Types, InsertOrder, Step, Return, quoteVars
<1>1. Types'
    <2>1. total' \in [Quotes -> Nat]
        BY DEF Total, orderVars
    <2>2. /\ order_status' \in [Quotes -> OrderStatuses]
          /\ payment_status' \in [Quotes -> {"unpaid", "released"}]
        BY DEF OrderStatuses, orderVars
    <2>3. charges' \in [Quotes -> Nat]
        BY DEF orderVars
    <2>4. visited' \in [Quotes -> SUBSET OrderStatuses]
        BY DEF OrderStatuses
    <2>. QED
        BY <2>1, <2>2, <2>3, <2>4 DEF Forget, Locations
<1>2. Others(c)
    BY DEF Total, IsFirstOrder, Moves, ProviderTransitions, CustomerTransitions, Begin,
       Forget, orderVars, localVars, historyVars, RequestStatuses, QuoteStatuses,
       OrderStatuses, Locations, Others
<1>3. SupersededByItsProvider' /\ QuoteInv' /\ OrderInv' /\ Grows /\ OrderStartsOnce
    <2>1. UNCHANGED <<quoteVars, was_accepted>>
        BY DEF historyVars
    <2>2. SupersededByItsProvider' /\ QuoteInv'
        BY <2>1 DEF SupersededByItsProvider, QuoteInv
    <2>3. OrderInv'
        <3>1. ASSUME NEW q \in Quotes, q # quote[c] PROVE OrderOK(q)'
            BY <2>1, <3>1 DEF OrderInv, OrderOK, HasOrder, orderVars
        <3>2. PICK q \in Quotes : /\ q = quote[c]
                                 /\ OrderOK(q)
                                 /\ q \in was_accepted
                                 /\ quote_status[q] # "absent"
            BY DEF CallInv, CallOK, OrderInv
        <3>3. OrderOK(q)'
            BY <2>1, <3>2 DEF OrderOK, HasOrder, Total, IsFirstOrder, orderVars
        <3>. QED
            BY <3>1, <3>2, <3>3 DEF OrderInv
    <2>4. Grows /\ OrderStartsOnce
        BY <2>1 DEF CallInv, CallOK, Grows, OrderStartsOnce, HasOrder, IsFirstOrder,
           orderVars
    <2>. QED
        BY <2>2, <2>3, <2>4
<1>4. CallOK(c)'
    BY DEF CallInv, Total, IsFirstOrder, Moves, ProviderTransitions,
       CustomerTransitions, Begin, Forget, orderVars, localVars, historyVars,
       RequestStatuses, QuoteStatuses, OrderStatuses, Locations, CallOK, HasOrder
<1>5. AcceptedQuoteIsServed'
    <2>1. /\ crashes' = crashes \/ crashes' = crashes + 1
          /\ \A q \in Quotes : Serves(c, q) => Serves(c, q)' \/ HasOrder(q)' \/ crashes' > 0
          /\ \A q \in was_accepted' : q \in was_accepted \/ Serves(c, q)'
          /\ was_accepted' \subseteq Quotes
        BY DEF CallInv, CallOK, Total, IsFirstOrder, Moves, ProviderTransitions,
           CustomerTransitions, Begin, Forget, orderVars, localVars, historyVars,
           RequestStatuses, QuoteStatuses, OrderStatuses, Locations, Serves, HasOrder
    <2>. QED
        BY <1>2, <1>3, <2>1, StillServed
<1>. QED
    BY <1>1, <1>2, <1>3, <1>4, <1>5, OtherCalls

(* An order's status is written. *)
LEMMA WriteOrderStatusKeeps ==
    ASSUME Inv, NEW c \in Calls, WriteOrderStatus(c)
    PROVE  Inv' /\ OrderStartsOnce
<1> USE ServiceQuotesAssumption
<1> USE DEF Inv, TypeOK, Types, WriteOrderStatus
<1>1. Types'
    <2>1. to[c] \in OrderStatuses
        BY DEF CallInv, CallOK, Moves, ProviderTransitions, CustomerTransitions,
           OrderStatuses
    <2>2. /\ order_status' \in [Quotes -> OrderStatuses]
          /\ payment_status' \in [Quotes -> {"unpaid", "released"}]
          /\ visited' \in [Quotes -> SUBSET OrderStatuses]
        BY <2>1
    <2>. QED
        BY <2>2 DEF Step, Return, Forget, quoteVars, Locations
<1>2. Others(c)
    BY DEF Total, IsFirstOrder, Moves, ProviderTransitions, CustomerTransitions, Step,
       Begin, Forget, Return, quoteVars, orderVars, localVars, historyVars,
       RequestStatuses, QuoteStatuses, OrderStatuses, Locations, Others
<1>3. SupersededByItsProvider' /\ QuoteInv' /\ OrderInv' /\ Grows /\ OrderStartsOnce
    <2>1. UNCHANGED <<quoteVars, was_accepted>>
        BY DEF historyVars
    <2>2. SupersededByItsProvider' /\ QuoteInv'
        BY <2>1 DEF SupersededByItsProvider, QuoteInv, quoteVars
    <2>3. OrderInv'
        BY SMTT(30), <2>1 DEF CallInv, CallOK, OrderInv, OrderOK, HasOrder, Return, Step, Moves,
           ProviderTransitions, CustomerTransitions, Total, IsFirstOrder, orderVars,
           quoteVars
    <2>4. Grows /\ OrderStartsOnce
        BY <2>1 DEF CallInv, CallOK, Grows, OrderStartsOnce, HasOrder, Return, Step,
           Moves, ProviderTransitions, CustomerTransitions, IsFirstOrder, orderVars,
           quoteVars
    <2>. QED
        BY <2>2, <2>3, <2>4
<1>4. CallOK(c)'
    BY DEF CallInv, Total, IsFirstOrder, Moves, ProviderTransitions,
       CustomerTransitions, Step, Begin, Forget, Return, quoteVars, orderVars,
       localVars, historyVars, RequestStatuses, QuoteStatuses, OrderStatuses, Locations,
       CallOK, HasOrder
<1>5. AcceptedQuoteIsServed'
    <2>1. /\ crashes' = crashes \/ crashes' = crashes + 1
          /\ \A q \in Quotes : Serves(c, q) => Serves(c, q)' \/ HasOrder(q)' \/ crashes' > 0
          /\ \A q \in was_accepted' : q \in was_accepted \/ Serves(c, q)'
          /\ was_accepted' \subseteq Quotes
        BY DEF CallInv, CallOK, Total, IsFirstOrder, Moves, ProviderTransitions,
           CustomerTransitions, Step, Begin, Forget, Return, quoteVars, orderVars,
           localVars, historyVars, RequestStatuses, QuoteStatuses, OrderStatuses,
           Locations, Serves, HasOrder
    <2>. QED
        BY <1>2, <1>3, <2>1, StillServed
<1>. QED
    BY <1>1, <1>2, <1>3, <1>4, <1>5, OtherCalls

(* An additional charge is confirmed. *)
LEMMA WriteChargeKeeps ==
    ASSUME Inv, NEW c \in Calls, WriteCharge(c)
    PROVE  Inv' /\ OrderStartsOnce
<1> USE ServiceQuotesAssumption
<1> USE DEF Inv, TypeOK, Types, WriteCharge, Step, Return, Forget, quoteVars,
       historyVars, Locations
<1>0. /\ quote[c] \in Quotes
      /\ HasOrder(quote[c])
      /\ amount[c] \in Nat
      /\ Total(quote[c], amount[c]) = price[quote[c]] + fee[quote[c]] + amount[c]
      /\ Total(quote[c], amount[c]) \in Nat
    <2>1. pc[c] = "charge"
        OBVIOUS
    <2>2. quote[c] \in Quotes /\ HasOrder(quote[c]) /\ amount[c] \in Nat
        BY <2>1 DEF CallInv, CallOK
    <2>3. price[quote[c]] \in Nat /\ fee[quote[c]] \in Nat
        BY <2>2
    <2>. QED
        BY <2>2, <2>3 DEF Total
<1>1. Types'
    <2>1. /\ total' \in [Quotes -> Nat]
          /\ charges' \in [Quotes -> Nat]
        BY <1>0
    <2>. QED
        BY <2>1
<1>2. Others(c)
    BY DEF Total, IsFirstOrder, Moves, ProviderTransitions, CustomerTransitions, Begin,
       orderVars, localVars, RequestStatuses, QuoteStatuses, OrderStatuses, Others
<1>3. SupersededByItsProvider' /\ QuoteInv' /\ OrderInv' /\ Grows /\ OrderStartsOnce
    <2>1. UNCHANGED <<quoteVars, order_status, payment_status, was_accepted, visited>>
        OBVIOUS
    <2>2. SupersededByItsProvider' /\ QuoteInv'
        BY <2>1 DEF SupersededByItsProvider, QuoteInv
    <2>3. \A q \in Quotes :
             /\ q # quote[c] => total'[q] = total[q] /\ charges'[q] = charges[q]
             /\ q = quote[c] => total'[q] = price[q] + fee[q] + charges'[q]
        BY <1>0
    <2>4. OrderInv'
        BY <2>1, <2>3 DEF OrderInv, OrderOK, HasOrder
    <2>5. Grows /\ OrderStartsOnce
        BY <2>1 DEF Grows, OrderStartsOnce, HasOrder
    <2>. QED
        BY <2>2, <2>4, <2>5
<1>4. CallOK(c)'
    BY DEF CallInv, Total, IsFirstOrder, Moves, ProviderTransitions,
       CustomerTransitions, Begin, orderVars, localVars, RequestStatuses, QuoteStatuses,
       OrderStatuses, CallOK, HasOrder
<1>5. AcceptedQuoteIsServed'
    <2>1. /\ crashes' = crashes \/ crashes' = crashes + 1
          /\ \A q \in Quotes : Serves(c, q) => Serves(c, q)' \/ HasOrder(q)' \/ crashes' > 0
          /\ \A q \in was_accepted' : q \in was_accepted \/ Serves(c, q)'
          /\ was_accepted' \subseteq Quotes
        BY DEF CallInv, CallOK, Total, IsFirstOrder, Moves, ProviderTransitions,
           CustomerTransitions, Begin, orderVars, localVars, RequestStatuses,
           QuoteStatuses, OrderStatuses, Serves, HasOrder
    <2>. QED
        BY <1>2, <1>3, <2>1, StillServed
<1>. QED
    BY <1>1, <1>2, <1>3, <1>4, <1>5, OtherCalls

(* Time passes for a quote. *)
LEMMA ExpiryPassesKeeps ==
    ASSUME Inv, ExpiryPasses
    PROVE  Inv' /\ OrderStartsOnce
<1>1. UNCHANGED <<request_status, quoteVars, orderVars, pc, localVars, begun, crashes,
                  historyVars>>
    BY DEF ExpiryPasses
<1>2. Types'
    <2>1. past_expiry' \subseteq Quotes
        BY DEF Inv, TypeOK, Types, ExpiryPasses
    <2>. QED
        BY <1>1, <2>1 DEF Inv, TypeOK, Types, quoteVars, orderVars, localVars,
           historyVars
<1>3. SupersededByItsProvider' /\ QuoteInv' /\ OrderInv'
    BY <1>1, UnchangedTables
<1>4. CallInv' /\ AcceptedQuoteIsServed' /\ OrderStartsOnce
    BY <1>1 DEF Inv, CallInv, CallOK, AcceptedQuoteIsServed, OrderStartsOnce, HasOrder,
       quoteVars, orderVars, localVars, historyVars
<1>. QED
    BY <1>2, <1>3, <1>4 DEF Inv, TypeOK

(* The first rows satisfy the invariant. *)
LEMMA InitInv == Init => Inv
<1> SUFFICES ASSUME Init PROVE Inv
    OBVIOUS
<1> USE ServiceQuotesAssumption
<1>1. PICK n \in 0 .. MaxQuotes, p \in [Quotes -> Providers],
r \in [Quotes -> Requests] :
         /\ quote_status = [q \in Quotes |-> IF q <= n THEN "sent" ELSE "absent"]
         /\ request_of = [q \in Quotes |-> IF q <= n THEN r[q] ELSE NULL]
         /\ provider_of = [q \in Quotes |-> IF q <= n THEN p[q] ELSE NULL]
         /\ version = [q \in Quotes |-> 1]
         /\ supersedes = [q \in Quotes |-> NULL]
         /\ request_status = [x \in Requests |->
               IF \E q \in 1 .. n : r[q] = x THEN "quoted" ELSE "submitted"]
    BY SMTT(60) DEF Init
<1>2. request_status \in [Requests -> RequestStatuses]
    BY <1>1 DEF RequestStatuses
<1>3. /\ past_expiry = {}
      /\ order_status = [q \in Quotes |-> "absent"]
      /\ payment_status = [q \in Quotes |-> "unpaid"]
      /\ charges = [q \in Quotes |-> 0]
      /\ total = [q \in Quotes |-> 0]
      /\ pc = [c \in Calls |-> "idle"]
      /\ request = [c \in Calls |-> NULL]
      /\ quote = [c \in Calls |-> NULL]
      /\ provider = [c \in Calls |-> NULL]
      /\ seen = [c \in Calls |-> NULL]
      /\ to = [c \in Calls |-> NULL]
      /\ amount = [c \in Calls |-> 0]
      /\ begun = 0
      /\ crashes = 0
      /\ was_accepted = {}
      /\ visited = [q \in Quotes |-> {}]
    BY DEF Init
<1>4. Types
    <2>1. /\ quote_status \in [Quotes -> QuoteStatuses]
          /\ request_of \in [Quotes -> Requests \union {NULL}]
          /\ provider_of \in [Quotes -> Providers \union {NULL}]
        BY <1>1 DEF QuoteStatuses
    <2>2. version \in [Quotes -> 1 .. MaxQuotes]
        BY <1>1 DEF Quotes
    <2>. QED
        BY <1>1, <1>2, <1>3, <2>1, <2>2 DEF Types, OrderStatuses, Locations
<1>5. SupersededByItsProvider
    BY <1>1 DEF SupersededByItsProvider
<1>6. QuoteInv
    BY <1>1 DEF QuoteInv, Quotes
<1>7. OrderInv /\ CallInv /\ AcceptedQuoteIsServed
    BY <1>3 DEF OrderInv, OrderOK, HasOrder, CallInv, CallOK, AcceptedQuoteIsServed
<1>. QED
    BY <1>4, <1>5, <1>6, <1>7 DEF Inv, TypeOK

(* Every step keeps the invariant, and starts no order over. *)
LEMMA NextInv ==
    ASSUME Inv, [Next]_vars
    PROVE  Inv' /\ [OrderStartsOnce]_vars
<1>1. ASSUME UNCHANGED vars
      PROVE  Inv' /\ [OrderStartsOnce]_vars
    <2>1. UNCHANGED <<request_status, quoteVars, past_expiry, orderVars, pc, localVars, begun,
                      crashes, historyVars>>
        BY <1>1 DEF vars
    <2>2. SupersededByItsProvider' /\ QuoteInv' /\ OrderInv'
        BY <2>1, UnchangedTables
    <2>3. Types' /\ CallInv' /\ AcceptedQuoteIsServed'
        BY <2>1 DEF Inv, TypeOK, Types, CallInv, CallOK, AcceptedQuoteIsServed,
           HasOrder, quoteVars, orderVars, localVars, historyVars
    <2>. QED
        BY <1>1, <2>2, <2>3 DEF Inv, TypeOK
<1>2. ASSUME NEW c \in Calls, NoticeExpiry(c) \/ AcceptQuote(c) \/ RejectQuote(c)
      PROVE  Inv' /\ OrderStartsOnce
    <2>1. PICK q \in Quotes, there \in {"expire", "request", "reject"} :
             quote_status[q] # "absent" /\ ReadQuote(c, q, there)
        BY <1>2 DEF NoticeExpiry, AcceptQuote, RejectQuote, CanAccept, Open, Inv,
           TypeOK, Types
    <2>. QED
        BY <2>1, ReadQuoteKeeps
<1>3. ASSUME NEW c \in Calls, ProviderTransition(c) \/ CustomerTransition(c)
      PROVE  Inv' /\ OrderStartsOnce
    <2>1. PICK q \in Quotes, s \in OrderStatuses,
               there \in {"provider_move", "customer_move"} :
             /\ <<order_status[q], s>> \in Moves
             /\ ReadOrder(c, q, there)
             /\ to' = [to EXCEPT ![c] = s]
             /\ UNCHANGED amount
        BY <1>3 DEF ProviderTransition, CustomerTransition, Moves
    <2>2. HasOrder(q)
        BY <2>1 DEF HasOrder, Moves, ProviderTransitions, CustomerTransitions
    <2>3. /\ to' \in [Calls -> OrderStatuses \union {NULL}]
          /\ \A d \in Calls : d # c => to'[d] = to[d]
          /\ to'[c] = s
          /\ amount' \in [Calls -> Nat]
        BY <2>1 DEF Inv, TypeOK, Types
    <2>. QED
        BY <2>1, <2>2, <2>3, ReadOrderKeeps
<1>4. ASSUME NEW c \in Calls, ConfirmAdditionalCharge(c)
      PROVE  Inv' /\ OrderStartsOnce
    <2>1. PICK q \in Quotes, charge \in Charges :
             /\ order_status[q] \notin {"absent", "cancelled"}
             /\ ReadOrder(c, q, "charge")
             /\ amount' = [amount EXCEPT ![c] = charge]
             /\ UNCHANGED to
        BY <1>4 DEF ConfirmAdditionalCharge
    <2>2. amount' \in [Calls -> Nat]
        BY <2>1, ServiceQuotesAssumption DEF Inv, TypeOK, Types
    <2>. QED
        BY <2>1, <2>2, ReadOrderKeeps DEF HasOrder, Inv, TypeOK, Types
<1>5. ASSUME NEW c \in Calls, Handler(c)
      PROVE  Inv' /\ OrderStartsOnce
    BY <1>5, ReadPreviousQuoteKeeps, InsertQuoteKeeps, WithdrawPreviousKeeps,
       MarkQuotedKeeps, ExpireQuoteKeeps, ReadRequestKeeps, AcceptBatchKeeps,
       WriteRejectionKeeps, ReadExistingOrderKeeps, InsertOrderKeeps,
       WriteOrderStatusKeeps, WriteChargeKeeps DEF Handler
<1>. QED
    BY <1>1, <1>2, <1>3, <1>4, <1>5, FindMatchingProvidersKeeps, CreateQuoteKeeps,
       WithdrawQuoteKeeps, CrashKeeps, ExpiryPassesKeeps DEF Next

-----------------------------------------------------------------------------
(* The variables have their types, and a quote supersedes an earlier one   *)
(* of the same provider on the same request.                               *)
THEOREM TypeCorrectness == Spec => []TypeOK
<1>1. Inv /\ [Next]_vars => Inv'
    BY NextInv
<1>. QED
    BY <1>1, InitInv, PTL DEF Spec, Inv

(* What an order's past says: it was released once confirmed, confirmed or *)
(* disputed after every stage, and its bill is the quote and the charges.  *)
LEMMA PastIsComplete == OrderInv => PaidOutForWorkDone
BY DEF OrderInv, OrderOK, PaidOutForWorkDone

(* Whatever requests of the provider and the customer overlap, the work    *)
(* went through every stage before the customer confirmed or disputed it   *)
(* and the money was released.                                             *)
THEOREM WorkPrecedesRelease == Spec => []PaidOutForWorkDone
<1>1. Inv /\ [Next]_vars => Inv'
    BY NextInv
<1>2. Inv => PaidOutForWorkDone
    BY PastIsComplete DEF Inv
<1>. QED
    BY <1>1, <1>2, InitInv, PTL DEF Spec

(* An accepted quote becomes one order, which no second acceptance starts  *)
(* over, unless the Worker that accepted it died.                          *)
THEOREM AcceptanceAlwaysMakesOneOrder == Spec => AcceptanceMakesOneOrder
<1> DEFINE P == AcceptedQuoteIsServed /\ \A q \in Quotes : HasOrder(q) => q \in was_accepted
<1>1. Inv /\ [Next]_vars => Inv' /\ [OrderStartsOnce]_vars
    BY NextInv
<1>2. Inv => P
    BY DEF Inv, OrderInv, OrderOK
<1> HIDE DEF P
<1>3. Spec => []P /\ [][OrderStartsOnce]_vars
    BY <1>1, <1>2, InitInv, PTL DEF Spec
<1>. QED
    BY <1>3 DEF AcceptanceMakesOneOrder, P

-----------------------------------------------------------------------------
(* Dispatch and delivery.                                                  *)
(*                                                                         *)
(* The shipment's status is written on an old read, so a status may come   *)
(* again after a later one.  But each write starts from a status the       *)
(* shipment once had, and asks for 'picked_up' or 'delivered' only after   *)
(* the row of the successful attempt is in: the past stays complete        *)
(* (PastInv) and the ledger of attempts, which UNIQUE numbers, backs it.   *)


Past(s, t, before) == t \in went_through[s] => before \subseteq went_through[s]

(* What a shipment went through. *)
PastOK(s) ==
    /\ shipment_status[s] \in went_through[s]
    /\ Past(s, "assigned", {"awaiting_pickup"})
    /\ Past(s, "driver_en_route_to_pickup", {"assigned"})
    /\ Past(s, "arrived_pickup", {"driver_en_route_to_pickup"})
    /\ Past(s, "picked_up", {"arrived_pickup"})
    /\ Past(s, "out_for_delivery", {"picked_up"})
    /\ Past(s, "arrived_dropoff", {"out_for_delivery"})
    /\ Past(s, "delivery_attempted", {"out_for_delivery"})
    /\ Past(s, "delivered", {"out_for_delivery"})
    /\ "picked_up" \in went_through[s] => Succeeded(s, "pickup")
    /\ "delivered" \in went_through[s] => Succeeded(s, "delivery")

PastInv == \A s \in Shipments : PastOK(s)

(* A job nobody was given has no driver. *)
JobInv == \A j \in Jobs : job_status[j] \in {"absent", "unassigned"} => driver[j] = NULL

(* What a call works on, where it stands. *)
ShipCallOK(c) ==
    /\ pc[c] \notin {"idle", "dead"} => job[c] \in Jobs
    /\ pc[c] \in {"insert_pickup", "insert_delivery"} =>
          /\ job[c] = <<Shipment(c), "pickup">>
          /\ next_status[c] = "awaiting_pickup"
    /\ pc[c] = "awaiting" => next_status[c] = "assigned"
    /\ pc[c] \in {"reset", "complete", "fail"} => job_status[job[c]] # "absent"
    /\ pc[c] \in {"complete", "fail"} =>
          count[c] <= attempt_count[job[c]] /\ count[c] < MaxAttempts
    /\ pc[c] \in {"transition", "write"} =>
          /\ next_status[c] \in ShipmentStatuses
          /\ next_status[c] = "picked_up" => Succeeded(Shipment(c), "pickup")
          /\ next_status[c] = "delivered" => Succeeded(Shipment(c), "delivery")
    /\ pc[c] = "write" =>
          \E t \in went_through[Shipment(c)] : <<t, next_status[c]>> \in ShipmentTransitions

ShipCallInv == \A c \in Calls : ShipCallOK(c)

ShipInv ==
    /\ ShipmentTypeOK
    /\ PastInv
    /\ JobInv
    /\ ShipCallInv
    /\ DispatchMakesBothJobs

-----------------------------------------------------------------------------
(* A step is one call's: the others stand where they stood, and the tables *)
(* only grow.                                                              *)
ShipOthers(c) ==
    \A d \in Calls : d # c =>
        /\ pc'[d] = pc[d]
        /\ job'[d] = job[d]
        /\ count'[d] = count[d]
        /\ next_status'[d] = next_status[d]

ShipGrows ==
    /\ \A j \in Jobs :
          /\ job_status[j] # "absent" => job_status'[j] # "absent"
          /\ attempt_count[j] <= attempt_count'[j]
    /\ attempts \subseteq attempts'
    /\ \A s \in Shipments : went_through[s] \subseteq went_through'[s]

(* A job is the pair of its shipment and its type. *)
LEMMA JobIsPair ==
    ASSUME NEW j \in Jobs
    PROVE  /\ j[1] \in Shipments
           /\ j[2] \in JobTypes
           /\ j = <<j[1], j[2]>>
BY DEF Jobs, JobTypes

LEMMA PairIsJob ==
    ASSUME NEW s \in Shipments, NEW type \in JobTypes
    PROVE  <<s, type>> \in Jobs /\ <<s, type>>[1] = s /\ <<s, type>>[2] = type
BY DEF Jobs, JobTypes

(* An attempt that succeeded stays in the ledger. *)
LEMMA SuccessStays ==
    ASSUME NEW s, NEW type, attempts \subseteq attempts', Succeeded(s, type)
    PROVE  Succeeded(s, type)'
BY DEF Succeeded

(* What is known of the other calls still holds after a step of one. *)
LEMMA ShipOtherCalls ==
    ASSUME ShipInv, NEW c \in Calls, ShipmentTypes', ShipOthers(c), ShipGrows,
           ShipCallOK(c)'
    PROVE  ShipCallInv'
<1> SUFFICES ASSUME NEW d \in Calls, d # c PROVE ShipCallOK(d)'
    BY DEF ShipCallInv
<1>1. ShipCallOK(d)
    BY DEF ShipInv, ShipCallInv
<1>2. /\ pc'[d] = pc[d] /\ job'[d] = job[d]
      /\ count'[d] = count[d] /\ next_status'[d] = next_status[d]
    BY DEF ShipOthers
<1>3. Shipment(d)' = Shipment(d)
    BY <1>2 DEF Shipment
<1>4. CASE pc[d] \in {"idle", "dead"}
    BY <1>2, <1>4 DEF ShipCallOK
<1>5. CASE pc[d] \notin {"idle", "dead"}
    <2>1. job[d] \in Jobs /\ Shipment(d) \in Shipments
        BY <1>1, <1>5, JobIsPair DEF ShipCallOK, Shipment
    <2>2. /\ Succeeded(Shipment(d), "pickup") => Succeeded(Shipment(d), "pickup")'
          /\ Succeeded(Shipment(d), "delivery") => Succeeded(Shipment(d), "delivery")'
        BY <1>3 DEF Succeeded, ShipGrows
    <2>4. count[d] <= attempt_count[job[d]] => count'[d] <= attempt_count'[job'[d]]
        <3>1. /\ count[d] \in Int
              /\ attempt_count[job[d]] \in Int
              /\ attempt_count'[job[d]] \in Int
              /\ attempt_count[job[d]] <= attempt_count'[job[d]]
            BY <2>1 DEF ShipInv, ShipmentTypeOK, ShipmentTypes, ShipGrows
        <3>. QED
            BY <1>2, <3>1
    <2>. QED
        BY <1>1, <1>2, <1>3, <1>5, <2>1, <2>2, <2>4 DEF ShipCallOK, ShipGrows
<1>. QED
    BY <1>4, <1>5

(* A shipment whose pickup job is there has its delivery job, or gets it.  *)
LEMMA StillDispatched ==
    ASSUME ShipInv, NEW c \in Calls, ShipOthers(c), ShipGrows, pc[c] # "dead",
           \A s \in Shipments :
              job_status[<<s, "pickup">>] = "absent" =>
                 \/ job_status'[<<s, "pickup">>] = "absent"
                 \/ job'[c] = <<s, "pickup">> /\ pc'[c] = "insert_delivery",
           \A s \in Shipments :
              pc[c] = "insert_delivery" /\ job[c] = <<s, "pickup">> =>
                 pc'[c] = "dead" \/ job_status'[<<s, "delivery">>] # "absent"
    PROVE  DispatchMakesBothJobs'
<1> SUFFICES ASSUME NEW s \in Shipments, job_status'[<<s, "pickup">>] # "absent"
             PROVE  \/ job_status'[<<s, "delivery">>] # "absent"
                    \/ \E d \in Calls : job'[d] = <<s, "pickup">> /\ pc'[d] = "insert_delivery"
                    \/ \E d \in Calls : pc'[d] = "dead"
    BY DEF DispatchMakesBothJobs
<1>1. CASE job_status[<<s, "pickup">>] = "absent"
    BY <1>1
<1>2. CASE job_status[<<s, "pickup">>] # "absent"
    <2>1. <<s, "delivery">> \in Jobs
        BY PairIsJob DEF JobTypes
    <2>2. CASE job_status[<<s, "delivery">>] # "absent"
        BY <2>1, <2>2 DEF ShipGrows
    <2>3. CASE \E d \in Calls : job[d] = <<s, "pickup">> /\ pc[d] = "insert_delivery"
        BY <2>3 DEF ShipOthers
    <2>4. CASE \E d \in Calls : pc[d] = "dead"
        BY <2>4 DEF ShipOthers
    <2>. QED
        BY <1>2, <2>2, <2>3, <2>4 DEF ShipInv, DispatchMakesBothJobs
<1>. QED
    BY <1>1, <1>2

(* A step that writes no shipment and no job keeps what they say. *)
LEMMA ShipUnchangedTables ==
    ASSUME ShipInv, UNCHANGED <<shipment_status, jobVars, went_through>>
    PROVE  AttemptsAreNumbered' /\ PastInv' /\ JobInv' /\ ShipGrows
           /\ JobKeepsItsDriver
<1>1. AttemptsAreNumbered' /\ PastInv' /\ JobInv' /\ JobKeepsItsDriver
    BY DEF ShipInv, ShipmentTypeOK, AttemptsAreNumbered, PastInv, PastOK, Past,
       Succeeded, JobInv,
       JobKeepsItsDriver, jobVars
<1>2. ShipGrows
    BY DEF ShipInv, ShipmentTypeOK, ShipmentTypes, ShipGrows, jobVars
<1>. QED
    BY <1>1, <1>2

(* Nor does a job that changes hands by way of nobody's. *)
LEMMA JobSet ==
    ASSUME ShipInv, NEW j \in Jobs, NEW s \in JobStatuses \ {"absent"},
           NEW d \in Drivers \union {NULL}, SetJob(j, s, d),
           s = "unassigned" => d = NULL,
           d # driver[j] => NULL \in {d, driver[j]},
           UNCHANGED <<shipment_status, went_through>>
    PROVE  /\ job_status' \in [Jobs -> JobStatuses]
           /\ driver' \in [Jobs -> Drivers \union {NULL}]
           /\ UNCHANGED <<attempt_count, attempts>>
           /\ \A x \in Jobs : x # j => job_status'[x] = job_status[x]
           /\ job_status'[j] # "absent"
           /\ AttemptsAreNumbered' /\ PastInv' /\ JobInv' /\ ShipGrows
           /\ JobKeepsItsDriver
<1>1. /\ job_status' \in [Jobs -> JobStatuses]
      /\ driver' \in [Jobs -> Drivers \union {NULL}]
      /\ UNCHANGED <<attempt_count, attempts>>
    BY DEF ShipInv, ShipmentTypeOK, ShipmentTypes, SetJob
<1>2. \A x \in Jobs :
         /\ x # j => job_status'[x] = job_status[x] /\ driver'[x] = driver[x]
         /\ x = j => job_status'[x] = s /\ driver'[x] = d
    BY DEF ShipInv, ShipmentTypeOK, ShipmentTypes, SetJob
<1>3. AttemptsAreNumbered' /\ PastInv'
    BY <1>1 DEF ShipInv, ShipmentTypeOK, AttemptsAreNumbered, PastInv, PastOK, Past,
       Succeeded
<1>4. JobInv' /\ JobKeepsItsDriver
    BY <1>2 DEF ShipInv, JobInv, JobKeepsItsDriver
<1>5. ShipGrows
    BY <1>1, <1>2 DEF ShipInv, ShipmentTypeOK, ShipmentTypes, ShipGrows
<1>. QED
    BY <1>1, <1>2, <1>3, <1>4, <1>5

(* A dispatch is requested. *)
LEMMA RequestDispatchKeeps ==
    ASSUME ShipInv, NEW c \in Calls, RequestDispatch(c)
    PROVE  ShipInv' /\ JobKeepsItsDriver
<1> USE ShipmentsAssumption
<1> USE DEF ShipInv, ShipmentTypeOK, RequestDispatch, Jobs, JobTypes,
ShipmentTypes, At, Step, Local,
       JobReturn, Unplanned, jobVars, jobLocals, JobLocations,
       ShipmentStatuses,
       OperationalStatuses
<1>1. ShipmentTypes'
    BY DEF SetDriver
<1>2. ShipOthers(c)
    BY DEF ShipOthers
<1>3. AttemptsAreNumbered' /\ PastInv' /\ JobInv' /\ ShipGrows
      /\ JobKeepsItsDriver
    <2>1. UNCHANGED <<shipment_status, jobVars, went_through>>
        OBVIOUS
    <2>. QED
        BY <2>1, ShipUnchangedTables
<1>4. ShipCallOK(c)'
    BY DEF ShipCallInv, PastInv, PastOK, JobInv, ShipCallOK, Shipment
<1>5. DispatchMakesBothJobs'
    <2>1. /\ pc[c] # "dead"
          /\ \A s \in Shipments :
                job_status[<<s, "pickup">>] = "absent" =>
                   \/ job_status'[<<s, "pickup">>] = "absent"
                   \/ job'[c] = <<s, "pickup">> /\ pc'[c] = "insert_delivery"
          /\ \A s \in Shipments :
                pc[c] = "insert_delivery" /\ job[c] = <<s, "pickup">> =>
                   pc'[c] = "dead" \/ job_status'[<<s, "delivery">>] # "absent"
        BY DEF ShipCallInv, ShipCallOK
    <2>. QED
        BY <1>2, <1>3, <2>1, StillDispatched
<1>. QED
    BY <1>1, <1>2, <1>3, <1>4, <1>5, ShipOtherCalls

(* The status asked for is checked. *)
LEMMA CheckTransitionKeeps ==
    ASSUME ShipInv, NEW c \in Calls, CheckTransition(c)
    PROVE  ShipInv' /\ JobKeepsItsDriver
<1> USE ShipmentsAssumption
<1> USE DEF ShipInv, ShipmentTypeOK, CheckTransition, ShipmentTypes, Step,
jobVars, jobLocals
<1>1. ShipmentTypes'
    BY DEF SetDriver, At, Local, JobReturn, Unplanned,
       JobLocations, ShipmentStatuses,
       OperationalStatuses
<1>2. ShipOthers(c)
    BY DEF At, Local, JobReturn, Unplanned, JobLocations,
       ShipmentStatuses,
       OperationalStatuses, ShipOthers
<1>3. AttemptsAreNumbered' /\ PastInv' /\ JobInv' /\ ShipGrows
      /\ JobKeepsItsDriver
    <2>1. UNCHANGED <<shipment_status, jobVars, went_through>>
        OBVIOUS
    <2>. QED
        BY <2>1, ShipUnchangedTables
<1>4. ShipCallOK(c)'
    <2>1. ShipCallOK(c) /\ pc[c] = "transition" /\ job[c] \in Jobs
        BY DEF ShipCallInv, ShipCallOK, At
    <2>2. CASE JobReturn(c, "transition")
        BY <2>2 DEF JobReturn, ShipCallOK
    <2>3. CASE /\ <<shipment_status[Shipment(c)], next_status[c]>> \in ShipmentTransitions
               /\ Step(c, "transition", "write")
               /\ UNCHANGED jobLocals
        <3>1. /\ pc'[c] = "write"
              /\ Shipment(c)' = Shipment(c)
              /\ next_status'[c] = next_status[c]
              /\ job'[c] = job[c]
              /\ UNCHANGED <<attempts, went_through>>
            BY <2>3 DEF Shipment
        <3>2. shipment_status[Shipment(c)] \in went_through[Shipment(c)]
            BY <2>1, JobIsPair DEF PastInv, PastOK, Shipment
        <3>. QED
            BY <2>1, <2>3, <3>1, <3>2 DEF ShipCallOK, Succeeded
    <2>. QED
        BY <2>2, <2>3
<1>5. DispatchMakesBothJobs'
    <2>1. /\ pc[c] # "dead"
          /\ \A s \in Shipments :
                job_status[<<s, "pickup">>] = "absent" =>
                   \/ job_status'[<<s, "pickup">>] = "absent"
                   \/ job'[c] = <<s, "pickup">> /\ pc'[c] = "insert_delivery"
          /\ \A s \in Shipments :
                pc[c] = "insert_delivery" /\ job[c] = <<s, "pickup">> =>
                   pc'[c] = "dead" \/ job_status'[<<s, "delivery">>] # "absent"
        BY DEF ShipCallInv, ShipCallOK, At, Local, JobReturn,
           Unplanned, JobLocations,
           ShipmentStatuses, OperationalStatuses, JobTypes
    <2>. QED
        BY <1>2, <1>3, <2>1, StillDispatched
<1>. QED
    BY <1>1, <1>2, <1>3, <1>4, <1>5, ShipOtherCalls

(* The assignment looks at the shipment. *)
LEMMA CheckAwaitingKeeps ==
    ASSUME ShipInv, NEW c \in Calls, CheckAwaiting(c)
    PROVE  ShipInv' /\ JobKeepsItsDriver
<1> USE ShipmentsAssumption
<1> USE DEF ShipInv, ShipmentTypeOK, CheckAwaiting, ShipmentTypes, At, Step,
Local, JobReturn, Unplanned,
       jobVars, jobLocals, JobLocations, ShipmentStatuses,
       OperationalStatuses
<1>1. ShipmentTypes'
    BY DEF SetDriver
<1>2. ShipOthers(c)
    BY DEF ShipOthers
<1>3. AttemptsAreNumbered' /\ PastInv' /\ JobInv' /\ ShipGrows
      /\ JobKeepsItsDriver
    <2>1. UNCHANGED <<shipment_status, jobVars, went_through>>
        OBVIOUS
    <2>. QED
        BY <2>1, ShipUnchangedTables
<1>4. ShipCallOK(c)'
    BY DEF ShipCallInv, PastInv, PastOK, JobInv, ShipCallOK, Shipment
<1>5. DispatchMakesBothJobs'
    <2>1. /\ pc[c] # "dead"
          /\ \A s \in Shipments :
                job_status[<<s, "pickup">>] = "absent" =>
                   \/ job_status'[<<s, "pickup">>] = "absent"
                   \/ job'[c] = <<s, "pickup">> /\ pc'[c] = "insert_delivery"
          /\ \A s \in Shipments :
                pc[c] = "insert_delivery" /\ job[c] = <<s, "pickup">> =>
                   pc'[c] = "dead" \/ job_status'[<<s, "delivery">>] # "absent"
        BY DEF ShipCallInv, ShipCallOK, JobTypes
    <2>. QED
        BY <1>2, <1>3, <2>1, StillDispatched
<1>. QED
    BY <1>1, <1>2, <1>3, <1>4, <1>5, ShipOtherCalls

(* The driver is marked assigned. *)
LEMMA MarkDriverAssignedKeeps ==
    ASSUME ShipInv, NEW c \in Calls,
           MarkDriverAssigned(c)
    PROVE  ShipInv' /\ JobKeepsItsDriver
<1> USE ShipmentsAssumption
<1> USE DEF ShipInv, ShipmentTypeOK, ShipmentTypes, MarkDriverAssigned, At,
JobReturn
<1>1. ShipmentTypes'
    <2>1. operational_status' \in [Drivers -> OperationalStatuses]
        BY DEF SetDriver, OperationalStatuses
    <2>2. pc' \in [Calls -> JobLocations]
        BY DEF Step, JobLocations
    <2>3. job' \in [Calls -> Jobs \union {NULL}]
          /\ who' \in [Calls -> Drivers \union {NULL}]
          /\ count' \in [Calls -> 0 .. MaxAttempts]
          /\ next_status' \in [Calls -> ShipmentStatuses \union {NULL}]
        BY DEF Local, ShipmentStatuses
    <2>. QED
        BY <2>1, <2>2, <2>3 DEF jobVars
<1>2. ShipOthers(c)
    BY DEF Step, Local, Unplanned, jobVars, jobLocals,
       JobLocations, ShipmentStatuses,
       OperationalStatuses, ShipOthers
<1>3. AttemptsAreNumbered' /\ PastInv' /\ JobInv' /\ ShipGrows
      /\ JobKeepsItsDriver
    <2>1. UNCHANGED <<shipment_status, jobVars, went_through>>
        OBVIOUS
    <2>. QED
        BY <2>1, ShipUnchangedTables
<1>4. ShipCallOK(c)'
    BY DEF ShipCallInv, PastInv, PastOK, JobInv, Step, Local, Unplanned,
       jobVars, jobLocals,
       JobLocations, ShipmentStatuses, OperationalStatuses, ShipCallOK,
       Shipment
<1>5. DispatchMakesBothJobs'
    <2>1. /\ pc[c] # "dead"
          /\ \A s \in Shipments :
                job_status[<<s, "pickup">>] = "absent" =>
                   \/ job_status'[<<s, "pickup">>] = "absent"
                   \/ job'[c] = <<s, "pickup">> /\ pc'[c] = "insert_delivery"
          /\ \A s \in Shipments :
                pc[c] = "insert_delivery" /\ job[c] = <<s, "pickup">> =>
                   pc'[c] = "dead" \/ job_status'[<<s, "delivery">>] # "absent"
        BY DEF ShipCallInv, ShipCallOK, Step, Local, Unplanned,
           jobVars, jobLocals, JobLocations,
           ShipmentStatuses, OperationalStatuses, JobTypes
    <2>. QED
        BY <1>2, <1>3, <2>1, StillDispatched
<1>. QED
    BY <1>1, <1>2, <1>3, <1>4, <1>5, ShipOtherCalls

(* The driver is free again. *)
LEMMA FreeDriverKeeps ==
    ASSUME ShipInv, NEW c \in Calls, FreeDriver(c)
    PROVE  ShipInv' /\ JobKeepsItsDriver
<1> USE ShipmentsAssumption
<1> USE DEF ShipInv, ShipmentTypeOK, ShipmentTypes, FreeDriver, At, JobReturn
<1>1. ShipmentTypes'
    <2>1. operational_status' \in [Drivers -> OperationalStatuses]
        BY DEF SetDriver, OperationalStatuses
    <2>2. pc' \in [Calls -> JobLocations]
        BY DEF Step, JobLocations
    <2>3. job' \in [Calls -> Jobs \union {NULL}]
          /\ who' \in [Calls -> Drivers \union {NULL}]
          /\ count' \in [Calls -> 0 .. MaxAttempts]
          /\ next_status' \in [Calls -> ShipmentStatuses \union {NULL}]
        BY DEF Local, ShipmentStatuses
    <2>. QED
        BY <2>1, <2>2, <2>3 DEF jobVars
<1>2. ShipOthers(c)
    BY DEF Step, Local, Unplanned, jobVars, jobLocals,
       JobLocations, ShipmentStatuses,
       OperationalStatuses, ShipOthers
<1>3. AttemptsAreNumbered' /\ PastInv' /\ JobInv' /\ ShipGrows
      /\ JobKeepsItsDriver
    <2>1. UNCHANGED <<shipment_status, jobVars, went_through>>
        OBVIOUS
    <2>. QED
        BY <2>1, ShipUnchangedTables
<1>4. ShipCallOK(c)'
    BY DEF ShipCallInv, PastInv, PastOK, JobInv, Step, Local, Unplanned,
       jobVars, jobLocals,
       JobLocations, ShipmentStatuses, OperationalStatuses, ShipCallOK,
       Shipment
<1>5. DispatchMakesBothJobs'
    <2>1. /\ pc[c] # "dead"
          /\ \A s \in Shipments :
                job_status[<<s, "pickup">>] = "absent" =>
                   \/ job_status'[<<s, "pickup">>] = "absent"
                   \/ job'[c] = <<s, "pickup">> /\ pc'[c] = "insert_delivery"
          /\ \A s \in Shipments :
                pc[c] = "insert_delivery" /\ job[c] = <<s, "pickup">> =>
                   pc'[c] = "dead" \/ job_status'[<<s, "delivery">>] # "absent"
        BY DEF ShipCallInv, ShipCallOK, Step, Local, Unplanned,
           jobVars, jobLocals, JobLocations,
           ShipmentStatuses, OperationalStatuses, JobTypes
    <2>. QED
        BY <1>2, <1>3, <2>1, StillDispatched
<1>. QED
    BY <1>1, <1>2, <1>3, <1>4, <1>5, ShipOtherCalls

(* A driver sets his own status. *)
LEMMA SetOperationalStatusKeeps ==
    ASSUME ShipInv, NEW c \in Calls,
           SetOperationalStatus(c)
    PROVE  ShipInv' /\ JobKeepsItsDriver
<1> USE ShipmentsAssumption
<1> USE DEF ShipInv, ShipmentTypeOK, SetOperationalStatus, ShipmentTypes, At,
Step, Local, JobReturn,
       Unplanned, jobVars, jobLocals, JobLocations,
       ShipmentStatuses, OperationalStatuses
<1>1. ShipmentTypes'
    BY DEF SetDriver
<1>2. ShipOthers(c)
    BY DEF ShipOthers
<1>3. AttemptsAreNumbered' /\ PastInv' /\ JobInv' /\ ShipGrows
      /\ JobKeepsItsDriver
    <2>1. UNCHANGED <<shipment_status, jobVars, went_through>>
        OBVIOUS
    <2>. QED
        BY <2>1, ShipUnchangedTables
<1>4. ShipCallOK(c)'
    BY DEF ShipCallInv, PastInv, PastOK, JobInv, ShipCallOK, Shipment
<1>5. DispatchMakesBothJobs'
    <2>1. /\ pc[c] # "dead"
          /\ \A s \in Shipments :
                job_status[<<s, "pickup">>] = "absent" =>
                   \/ job_status'[<<s, "pickup">>] = "absent"
                   \/ job'[c] = <<s, "pickup">> /\ pc'[c] = "insert_delivery"
          /\ \A s \in Shipments :
                pc[c] = "insert_delivery" /\ job[c] = <<s, "pickup">> =>
                   pc'[c] = "dead" \/ job_status'[<<s, "delivery">>] # "absent"
        BY DEF ShipCallInv, ShipCallOK, JobTypes
    <2>. QED
        BY <1>2, <1>3, <2>1, StillDispatched
<1>. QED
    BY <1>1, <1>2, <1>3, <1>4, <1>5, ShipOtherCalls

(* The driver of a job is read, to take it back. *)
LEMMA ReassignJobKeeps ==
    ASSUME ShipInv, NEW c \in Calls, ReassignJob(c)
    PROVE  ShipInv' /\ JobKeepsItsDriver
<1> USE ShipmentsAssumption
<1> USE DEF ShipInv, ShipmentTypeOK, ReassignJob, ShipmentTypes, At, Step,
Local, JobReturn, Unplanned,
       jobVars, jobLocals, JobLocations, ShipmentStatuses,
       OperationalStatuses
<1>1. ShipmentTypes'
    BY DEF SetDriver
<1>2. ShipOthers(c)
    BY DEF ShipOthers
<1>3. AttemptsAreNumbered' /\ PastInv' /\ JobInv' /\ ShipGrows
      /\ JobKeepsItsDriver
    <2>1. UNCHANGED <<shipment_status, jobVars, went_through>>
        OBVIOUS
    <2>. QED
        BY <2>1, ShipUnchangedTables
<1>4. ShipCallOK(c)'
    BY DEF ShipCallInv, PastInv, PastOK, JobInv, ShipCallOK, Shipment
<1>5. DispatchMakesBothJobs'
    <2>1. /\ pc[c] # "dead"
          /\ \A s \in Shipments :
                job_status[<<s, "pickup">>] = "absent" =>
                   \/ job_status'[<<s, "pickup">>] = "absent"
                   \/ job'[c] = <<s, "pickup">> /\ pc'[c] = "insert_delivery"
          /\ \A s \in Shipments :
                pc[c] = "insert_delivery" /\ job[c] = <<s, "pickup">> =>
                   pc'[c] = "dead" \/ job_status'[<<s, "delivery">>] # "absent"
        BY DEF ShipCallInv, ShipCallOK, JobTypes
    <2>. QED
        BY <1>2, <1>3, <2>1, StillDispatched
<1>. QED
    BY <1>1, <1>2, <1>3, <1>4, <1>5, ShipOtherCalls

(* A job is read, to complete or fail it. *)
LEMMA ReadJobKeeps ==
    ASSUME ShipInv, NEW c \in Calls,
           NEW there \in {"complete", "fail"}, ReadJob(c, there)
    PROVE  ShipInv' /\ JobKeepsItsDriver
<1> USE ShipmentsAssumption
<1> USE DEF ShipInv, ShipmentTypeOK, ReadJob, ShipmentTypes, At, Step,
Local, JobReturn, Unplanned, jobVars,
       jobLocals, JobLocations, ShipmentStatuses, OperationalStatuses
<1>1. ShipmentTypes'
    BY DEF SetDriver
<1>2. ShipOthers(c)
    BY DEF ShipOthers
<1>3. AttemptsAreNumbered' /\ PastInv' /\ JobInv' /\ ShipGrows
      /\ JobKeepsItsDriver
    <2>1. UNCHANGED <<shipment_status, jobVars, went_through>>
        OBVIOUS
    <2>. QED
        BY <2>1, ShipUnchangedTables
<1>4. ShipCallOK(c)'
    BY DEF ShipCallInv, PastInv, PastOK, JobInv, ShipCallOK, Shipment
<1>5. DispatchMakesBothJobs'
    <2>1. /\ pc[c] # "dead"
          /\ \A s \in Shipments :
                job_status[<<s, "pickup">>] = "absent" =>
                   \/ job_status'[<<s, "pickup">>] = "absent"
                   \/ job'[c] = <<s, "pickup">> /\ pc'[c] = "insert_delivery"
          /\ \A s \in Shipments :
                pc[c] = "insert_delivery" /\ job[c] = <<s, "pickup">> =>
                   pc'[c] = "dead" \/ job_status'[<<s, "delivery">>] # "absent"
        BY DEF ShipCallInv, ShipCallOK, JobTypes
    <2>. QED
        BY <1>2, <1>3, <2>1, StillDispatched
<1>. QED
    BY <1>1, <1>2, <1>3, <1>4, <1>5, ShipOtherCalls

(* A Worker dies. *)
LEMMA ShipCrashKeeps ==
    ASSUME ShipInv, NEW c \in Calls, JobCrash(c)
    PROVE  ShipInv' /\ JobKeepsItsDriver
<1> USE ShipmentsAssumption
<1> USE DEF ShipInv, ShipmentTypeOK, JobCrash, ShipmentTypes, At, Step,
Local, JobReturn, Unplanned, jobVars,
       jobLocals, JobLocations, ShipmentStatuses, OperationalStatuses
<1>1. ShipmentTypes'
    BY DEF SetDriver
<1>2. ShipOthers(c)
    BY DEF ShipOthers
<1>3. AttemptsAreNumbered' /\ PastInv' /\ JobInv' /\ ShipGrows
      /\ JobKeepsItsDriver
    <2>1. UNCHANGED <<shipment_status, jobVars, went_through>>
        OBVIOUS
    <2>. QED
        BY <2>1, ShipUnchangedTables
<1>4. ShipCallOK(c)'
    BY DEF ShipCallInv, PastInv, PastOK, JobInv, ShipCallOK, Shipment
<1>5. DispatchMakesBothJobs'
    <2>1. /\ pc[c] # "dead"
          /\ \A s \in Shipments :
                job_status[<<s, "pickup">>] = "absent" =>
                   \/ job_status'[<<s, "pickup">>] = "absent"
                   \/ job'[c] = <<s, "pickup">> /\ pc'[c] = "insert_delivery"
          /\ \A s \in Shipments :
                pc[c] = "insert_delivery" /\ job[c] = <<s, "pickup">> =>
                   pc'[c] = "dead" \/ job_status'[<<s, "delivery">>] # "absent"
        BY DEF ShipCallInv, ShipCallOK, JobTypes
    <2>. QED
        BY <1>2, <1>3, <2>1, StillDispatched
<1>. QED
    BY <1>1, <1>2, <1>3, <1>4, <1>5, ShipOtherCalls

(* A driver is assigned. *)
LEMMA AssignDriverKeeps ==
    ASSUME ShipInv, NEW c \in Calls, AssignDriver(c)
    PROVE  ShipInv' /\ JobKeepsItsDriver
<1> USE ShipmentsAssumption
<1> USE DEF ShipInv, ShipmentTypeOK, ShipmentTypes, AssignDriver, Step, At
<1>0. PICK j \in Jobs, s \in JobStatuses \ {"absent"},
d \in Drivers \union {NULL} :
         /\ SetJob(j, s, d)
         /\ s = "unassigned" => d = NULL
         /\ d # driver[j] => NULL \in {d, driver[j]}
         /\ job_status[j] = "absent" => pc[c] \in {"insert_pickup", "insert_delivery"}
         /\ pc[c] = "idle"
    BY DEF JobInv, CanAssign, JobStatuses
<1>0a. UNCHANGED <<shipment_status, went_through, operational_status>>
    OBVIOUS
<1>0b. /\ job_status' \in [Jobs -> JobStatuses]
       /\ driver' \in [Jobs -> Drivers \union {NULL}]
       /\ UNCHANGED <<attempt_count, attempts>>
       /\ \A x \in Jobs : x # j => job_status'[x] = job_status[x]
       /\ job_status'[j] # "absent"
       /\ AttemptsAreNumbered' /\ PastInv' /\ JobInv' /\ ShipGrows
       /\ JobKeepsItsDriver
    BY <1>0, <1>0a, JobSet
<1>1. ShipmentTypes'
    BY <1>0a, <1>0b DEF Local, JobReturn, Unplanned, jobVars,
       jobLocals, JobLocations,
       ShipmentStatuses, OperationalStatuses
<1>2. ShipOthers(c)
    BY DEF Local, JobReturn, Unplanned, jobVars, jobLocals,
       JobLocations, ShipmentStatuses,
       OperationalStatuses, ShipOthers
<1>3. AttemptsAreNumbered' /\ PastInv' /\ JobInv' /\ ShipGrows
      /\ JobKeepsItsDriver
    BY <1>0b
<1>4. ShipCallOK(c)'
    BY <1>0, <1>0a, <1>0b DEF ShipCallInv, PastInv, PastOK, JobInv, Local,
       JobReturn,
       Unplanned, jobVars, jobLocals, JobLocations,
       ShipmentStatuses, OperationalStatuses,
       ShipCallOK, Shipment
<1>5. DispatchMakesBothJobs'
    <2>1. /\ pc[c] # "dead"
          /\ \A x \in Shipments :
                job_status[<<x, "pickup">>] = "absent" =>
                   \/ job_status'[<<x, "pickup">>] = "absent"
                   \/ job'[c] = <<x, "pickup">> /\ pc'[c] = "insert_delivery"
          /\ \A x \in Shipments :
                pc[c] = "insert_delivery" /\ job[c] = <<x, "pickup">> =>
                   pc'[c] = "dead" \/ job_status'[<<x, "delivery">>] # "absent"
        BY <1>0, <1>0b, PairIsJob DEF ShipCallInv, ShipCallOK, Local, JobReturn,
           Unplanned,
           jobVars, jobLocals, JobLocations, ShipmentStatuses,
           OperationalStatuses,
           JobTypes
    <2>. QED
        BY <1>2, <1>3, <2>1, StillDispatched
<1>. QED
    BY <1>1, <1>2, <1>3, <1>4, <1>5, ShipOtherCalls

(* The driver accepts. *)
LEMMA AcceptJobKeeps ==
    ASSUME ShipInv, NEW c \in Calls, AcceptJob(c)
    PROVE  ShipInv' /\ JobKeepsItsDriver
<1> USE ShipmentsAssumption
<1> USE DEF ShipInv, ShipmentTypeOK, ShipmentTypes, AcceptJob, Step, At
<1>0. PICK j \in Jobs, s \in JobStatuses \ {"absent"},
d \in Drivers \union {NULL} :
         /\ SetJob(j, s, d)
         /\ s = "unassigned" => d = NULL
         /\ d # driver[j] => NULL \in {d, driver[j]}
         /\ job_status[j] = "absent" => pc[c] \in {"insert_pickup", "insert_delivery"}
         /\ pc[c] = "idle"
    BY DEF JobStatuses
<1>0a. UNCHANGED <<shipment_status, went_through, operational_status>>
    OBVIOUS
<1>0b. /\ job_status' \in [Jobs -> JobStatuses]
       /\ driver' \in [Jobs -> Drivers \union {NULL}]
       /\ UNCHANGED <<attempt_count, attempts>>
       /\ \A x \in Jobs : x # j => job_status'[x] = job_status[x]
       /\ job_status'[j] # "absent"
       /\ AttemptsAreNumbered' /\ PastInv' /\ JobInv' /\ ShipGrows
       /\ JobKeepsItsDriver
    BY <1>0, <1>0a, JobSet
<1>1. ShipmentTypes'
    BY <1>0a, <1>0b DEF Local, JobReturn, Unplanned, jobVars,
       jobLocals, JobLocations,
       ShipmentStatuses, OperationalStatuses
<1>2. ShipOthers(c)
    BY DEF Local, JobReturn, Unplanned, jobVars, jobLocals,
       JobLocations, ShipmentStatuses,
       OperationalStatuses, ShipOthers
<1>3. AttemptsAreNumbered' /\ PastInv' /\ JobInv' /\ ShipGrows
      /\ JobKeepsItsDriver
    BY <1>0b
<1>4. ShipCallOK(c)'
    BY <1>0, <1>0a, <1>0b DEF ShipCallInv, PastInv, PastOK, JobInv, Local,
       JobReturn,
       Unplanned, jobVars, jobLocals, JobLocations,
       ShipmentStatuses, OperationalStatuses,
       ShipCallOK, Shipment
<1>5. DispatchMakesBothJobs'
    <2>1. /\ pc[c] # "dead"
          /\ \A x \in Shipments :
                job_status[<<x, "pickup">>] = "absent" =>
                   \/ job_status'[<<x, "pickup">>] = "absent"
                   \/ job'[c] = <<x, "pickup">> /\ pc'[c] = "insert_delivery"
          /\ \A x \in Shipments :
                pc[c] = "insert_delivery" /\ job[c] = <<x, "pickup">> =>
                   pc'[c] = "dead" \/ job_status'[<<x, "delivery">>] # "absent"
        BY ZenonT(60), <1>0, <1>0b, PairIsJob DEF ShipCallInv, ShipCallOK, Local, JobReturn,
           Unplanned,
           jobVars, jobLocals, JobLocations, ShipmentStatuses,
           OperationalStatuses,
           JobTypes
    <2>. QED
        BY <1>2, <1>3, <2>1, StillDispatched
<1>. QED
    BY <1>1, <1>2, <1>3, <1>4, <1>5, ShipOtherCalls

(* A job is taken back. *)
LEMMA ResetJobKeeps ==
    ASSUME ShipInv, NEW c \in Calls, ResetJob(c)
    PROVE  ShipInv' /\ JobKeepsItsDriver
<1> USE ShipmentsAssumption
<1> USE DEF ShipInv, ShipmentTypeOK, ShipmentTypes, ResetJob, JobReturn, Step,
At
<1>0. PICK j \in Jobs, s \in JobStatuses \ {"absent"},
d \in Drivers \union {NULL} :
         /\ SetJob(j, s, d)
         /\ s = "unassigned" => d = NULL
         /\ d # driver[j] => NULL \in {d, driver[j]}
         /\ job_status[j] = "absent" => pc[c] \in {"insert_pickup", "insert_delivery"}
         /\ j = job[c]
    BY DEF ShipCallInv, ShipCallOK, JobStatuses
<1>0a. UNCHANGED <<shipment_status, went_through, operational_status>>
    OBVIOUS
<1>0b. /\ job_status' \in [Jobs -> JobStatuses]
       /\ driver' \in [Jobs -> Drivers \union {NULL}]
       /\ UNCHANGED <<attempt_count, attempts>>
       /\ \A x \in Jobs : x # j => job_status'[x] = job_status[x]
       /\ job_status'[j] # "absent"
       /\ AttemptsAreNumbered' /\ PastInv' /\ JobInv' /\ ShipGrows
       /\ JobKeepsItsDriver
    BY <1>0, <1>0a, JobSet
<1>1. ShipmentTypes'
    BY <1>0a, <1>0b DEF Local, Unplanned, jobVars, jobLocals,
       JobLocations,
       ShipmentStatuses, OperationalStatuses
<1>2. ShipOthers(c)
    BY DEF Local, Unplanned, jobVars, jobLocals, JobLocations,
       ShipmentStatuses,
       OperationalStatuses, ShipOthers
<1>3. AttemptsAreNumbered' /\ PastInv' /\ JobInv' /\ ShipGrows
      /\ JobKeepsItsDriver
    BY <1>0b
<1>4. ShipCallOK(c)'
    BY <1>0, <1>0a, <1>0b DEF ShipCallInv, PastInv, PastOK, JobInv, Local,
       Unplanned,
       jobVars, jobLocals, JobLocations, ShipmentStatuses,
       OperationalStatuses, ShipCallOK,
       Shipment
<1>5. DispatchMakesBothJobs'
    <2>1. /\ pc[c] # "dead"
          /\ \A x \in Shipments :
                job_status[<<x, "pickup">>] = "absent" =>
                   \/ job_status'[<<x, "pickup">>] = "absent"
                   \/ job'[c] = <<x, "pickup">> /\ pc'[c] = "insert_delivery"
          /\ \A x \in Shipments :
                pc[c] = "insert_delivery" /\ job[c] = <<x, "pickup">> =>
                   pc'[c] = "dead" \/ job_status'[<<x, "delivery">>] # "absent"
        BY <1>0, <1>0b, PairIsJob DEF ShipCallInv, ShipCallOK, Local,
           Unplanned, jobVars,
           jobLocals, JobLocations, ShipmentStatuses,
           OperationalStatuses, JobTypes
    <2>. QED
        BY <1>2, <1>3, <2>1, StillDispatched
<1>. QED
    BY <1>1, <1>2, <1>3, <1>4, <1>5, ShipOtherCalls

(* A driver sets out. *)
LEMMA MarkJobEnRouteKeeps ==
    ASSUME ShipInv, NEW c \in Calls, MarkJobEnRoute(c)
    PROVE  ShipInv' /\ JobKeepsItsDriver
<1> USE ShipmentsAssumption
<1> USE DEF ShipInv, ShipmentTypeOK, ShipmentTypes, MarkJobEnRoute, Step, At
<1>0. PICK j \in Jobs, s \in JobStatuses \ {"absent"},
d \in Drivers \union {NULL} :
         /\ SetJob(j, s, d)
         /\ s = "unassigned" => d = NULL
         /\ d # driver[j] => NULL \in {d, driver[j]}
         /\ job_status[j] = "absent" => pc[c] \in {"insert_pickup", "insert_delivery"}
         /\ pc[c] = "idle"
    BY DEF JobStatuses
<1>0a. UNCHANGED <<shipment_status, went_through, operational_status>>
    OBVIOUS
<1>0b. /\ job_status' \in [Jobs -> JobStatuses]
       /\ driver' \in [Jobs -> Drivers \union {NULL}]
       /\ UNCHANGED <<attempt_count, attempts>>
       /\ \A x \in Jobs : x # j => job_status'[x] = job_status[x]
       /\ job_status'[j] # "absent"
       /\ AttemptsAreNumbered' /\ PastInv' /\ JobInv' /\ ShipGrows
       /\ JobKeepsItsDriver
    BY <1>0, <1>0a, JobSet
<1>1. ShipmentTypes'
    BY <1>0a, <1>0b DEF Local, JobReturn, Unplanned, jobVars,
       jobLocals, JobLocations,
       ShipmentStatuses, OperationalStatuses
<1>2. ShipOthers(c)
    BY DEF Local, JobReturn, Unplanned, jobVars, jobLocals,
       JobLocations, ShipmentStatuses,
       OperationalStatuses, ShipOthers
<1>3. AttemptsAreNumbered' /\ PastInv' /\ JobInv' /\ ShipGrows
      /\ JobKeepsItsDriver
    BY <1>0b
<1>4. ShipCallOK(c)'
    BY <1>0, <1>0a, <1>0b DEF ShipCallInv, PastInv, PastOK, JobInv, Local,
       JobReturn,
       Unplanned, jobVars, jobLocals, JobLocations,
       ShipmentStatuses, OperationalStatuses,
       ShipCallOK, Shipment
<1>5. DispatchMakesBothJobs'
    <2>1. /\ pc[c] # "dead"
          /\ \A x \in Shipments :
                job_status[<<x, "pickup">>] = "absent" =>
                   \/ job_status'[<<x, "pickup">>] = "absent"
                   \/ job'[c] = <<x, "pickup">> /\ pc'[c] = "insert_delivery"
          /\ \A x \in Shipments :
                pc[c] = "insert_delivery" /\ job[c] = <<x, "pickup">> =>
                   pc'[c] = "dead" \/ job_status'[<<x, "delivery">>] # "absent"
        BY ZenonT(60), <1>0, <1>0b, PairIsJob DEF ShipCallInv, ShipCallOK, Local, JobReturn,
           Unplanned,
           jobVars, jobLocals, JobLocations, ShipmentStatuses,
           OperationalStatuses,
           JobTypes
    <2>. QED
        BY <1>2, <1>3, <2>1, StillDispatched
<1>. QED
    BY <1>1, <1>2, <1>3, <1>4, <1>5, ShipOtherCalls

(* A driver arrives. *)
LEMMA MarkJobArrivedKeeps ==
    ASSUME ShipInv, NEW c \in Calls, MarkJobArrived(c)
    PROVE  ShipInv' /\ JobKeepsItsDriver
<1> USE ShipmentsAssumption
<1> USE DEF ShipInv, ShipmentTypeOK, ShipmentTypes, MarkJobArrived, Step, At
<1>0. PICK j \in Jobs, s \in JobStatuses \ {"absent"},
d \in Drivers \union {NULL} :
         /\ SetJob(j, s, d)
         /\ s = "unassigned" => d = NULL
         /\ d # driver[j] => NULL \in {d, driver[j]}
         /\ job_status[j] = "absent" => pc[c] \in {"insert_pickup", "insert_delivery"}
         /\ pc[c] = "idle"
    BY DEF JobStatuses
<1>0a. UNCHANGED <<shipment_status, went_through, operational_status>>
    OBVIOUS
<1>0b. /\ job_status' \in [Jobs -> JobStatuses]
       /\ driver' \in [Jobs -> Drivers \union {NULL}]
       /\ UNCHANGED <<attempt_count, attempts>>
       /\ \A x \in Jobs : x # j => job_status'[x] = job_status[x]
       /\ job_status'[j] # "absent"
       /\ AttemptsAreNumbered' /\ PastInv' /\ JobInv' /\ ShipGrows
       /\ JobKeepsItsDriver
    BY <1>0, <1>0a, JobSet
<1>1. ShipmentTypes'
    BY <1>0a, <1>0b DEF Local, JobReturn, Unplanned, jobVars,
       jobLocals, JobLocations,
       ShipmentStatuses, OperationalStatuses
<1>2. ShipOthers(c)
    BY DEF Local, JobReturn, Unplanned, jobVars, jobLocals,
       JobLocations, ShipmentStatuses,
       OperationalStatuses, ShipOthers
<1>3. AttemptsAreNumbered' /\ PastInv' /\ JobInv' /\ ShipGrows
      /\ JobKeepsItsDriver
    BY <1>0b
<1>4. ShipCallOK(c)'
    BY <1>0, <1>0a, <1>0b DEF ShipCallInv, PastInv, PastOK, JobInv, Local,
       JobReturn,
       Unplanned, jobVars, jobLocals, JobLocations,
       ShipmentStatuses, OperationalStatuses,
       ShipCallOK, Shipment
<1>5. DispatchMakesBothJobs'
    <2>1. /\ pc[c] # "dead"
          /\ \A x \in Shipments :
                job_status[<<x, "pickup">>] = "absent" =>
                   \/ job_status'[<<x, "pickup">>] = "absent"
                   \/ job'[c] = <<x, "pickup">> /\ pc'[c] = "insert_delivery"
          /\ \A x \in Shipments :
                pc[c] = "insert_delivery" /\ job[c] = <<x, "pickup">> =>
                   pc'[c] = "dead" \/ job_status'[<<x, "delivery">>] # "absent"
        BY ZenonT(60), <1>0, <1>0b, PairIsJob DEF ShipCallInv, ShipCallOK, Local, JobReturn,
           Unplanned,
           jobVars, jobLocals, JobLocations, ShipmentStatuses,
           OperationalStatuses,
           JobTypes
    <2>. QED
        BY <1>2, <1>3, <2>1, StillDispatched
<1>. QED
    BY <1>1, <1>2, <1>3, <1>4, <1>5, ShipOtherCalls

(* The delivery job is made. *)
LEMMA InsertDeliveryKeeps ==
    ASSUME ShipInv, NEW c \in Calls, InsertDelivery(c)
    PROVE  ShipInv' /\ JobKeepsItsDriver
<1> USE ShipmentsAssumption
<1> USE DEF ShipInv, ShipmentTypeOK, ShipmentTypes, InsertDelivery, Step, At
<1>0. PICK j \in Jobs, s \in JobStatuses \ {"absent"},
d \in Drivers \union {NULL} :
         /\ SetJob(j, s, d)
         /\ s = "unassigned" => d = NULL
         /\ d # driver[j] => NULL \in {d, driver[j]}
         /\ job_status[j] = "absent" => pc[c] \in {"insert_pickup", "insert_delivery"}
         /\ j = <<Shipment(c), "delivery">> /\ Shipment(c) \in Shipments
    BY JobIsPair, PairIsJob DEF ShipCallInv, ShipCallOK, JobTypes,
       JobStatuses, Shipment
<1>0a. UNCHANGED <<shipment_status, went_through, operational_status>>
    OBVIOUS
<1>0b. /\ job_status' \in [Jobs -> JobStatuses]
       /\ driver' \in [Jobs -> Drivers \union {NULL}]
       /\ UNCHANGED <<attempt_count, attempts>>
       /\ \A x \in Jobs : x # j => job_status'[x] = job_status[x]
       /\ job_status'[j] # "absent"
       /\ AttemptsAreNumbered' /\ PastInv' /\ JobInv' /\ ShipGrows
       /\ JobKeepsItsDriver
    BY <1>0, <1>0a, JobSet
<1>1. ShipmentTypes'
    BY <1>0a, <1>0b DEF Local, JobReturn, Unplanned, jobVars,
       jobLocals, JobLocations,
       ShipmentStatuses, OperationalStatuses
<1>2. ShipOthers(c)
    BY DEF Local, JobReturn, Unplanned, jobVars, jobLocals,
       JobLocations, ShipmentStatuses,
       OperationalStatuses, ShipOthers
<1>3. AttemptsAreNumbered' /\ PastInv' /\ JobInv' /\ ShipGrows
      /\ JobKeepsItsDriver
    BY <1>0b
<1>4. ShipCallOK(c)'
    BY <1>0, <1>0a, <1>0b DEF ShipCallInv, PastInv, PastOK, JobInv, Local,
       JobReturn,
       Unplanned, jobVars, jobLocals, JobLocations,
       ShipmentStatuses, OperationalStatuses,
       ShipCallOK, Shipment
<1>5. DispatchMakesBothJobs'
    <2>1. pc[c] = "insert_delivery"
        OBVIOUS
    <2>2. ASSUME NEW x \in Shipments, job_status[<<x, "pickup">>] = "absent"
          PROVE  job_status'[<<x, "pickup">>] = "absent"
        <3>1. <<x, "pickup">> \in Jobs /\ <<x, "pickup">> # j
            BY <1>0, PairIsJob DEF JobTypes
        <3>. QED
            BY <1>0b, <2>2, <3>1
    <2>3. ASSUME NEW x \in Shipments, job[c] = <<x, "pickup">>
          PROVE  job_status'[<<x, "delivery">>] # "absent"
        BY <1>0, <1>0b, <2>3 DEF Shipment
    <2>. QED
        BY <1>2, <1>3, <2>1, <2>2, <2>3, StillDispatched
<1>. QED
    BY <1>1, <1>2, <1>3, <1>4, <1>5, ShipOtherCalls

(* The pickup job is made, unless it is there. *)
LEMMA InsertPickupKeeps ==
    ASSUME ShipInv, NEW c \in Calls, InsertPickup(c)
    PROVE  ShipInv' /\ JobKeepsItsDriver
<1> USE ShipmentsAssumption
<1> USE DEF ShipInv, ShipmentTypeOK, ShipmentTypes, Step
<1>0. /\ pc[c] = "insert_pickup"
      /\ job[c] \in Jobs
      /\ job[c] = <<Shipment(c), "pickup">>
      /\ next_status[c] = "awaiting_pickup"
      /\ UNCHANGED <<shipment_status, operational_status, unplanned, went_through>>
    BY DEF ShipCallInv, ShipCallOK, InsertPickup, At
<1>1. CASE ~IsFirstJob(job[c])
    <2>0. JobReturn(c, "insert_pickup") /\ UNCHANGED jobVars
        BY <1>1 DEF InsertPickup
    <2>1. ShipmentTypes'
        BY <1>0, <2>0 DEF JobReturn, Local, JobLocations, jobVars
    <2>2. ShipOthers(c)
        BY <2>0 DEF JobReturn, Local, ShipOthers
    <2>3. AttemptsAreNumbered' /\ PastInv' /\ JobInv' /\ ShipGrows
          /\ JobKeepsItsDriver
        BY <1>0, <2>0, ShipUnchangedTables
    <2>4. ShipCallOK(c)'
        BY <2>0 DEF JobReturn, ShipCallOK
    <2>5. DispatchMakesBothJobs'
        BY <1>0, <2>0, <2>2, <2>3, StillDispatched DEF jobVars
    <2>. QED
        BY <2>1, <2>2, <2>3, <2>4, <2>5, ShipOtherCalls
<1>2. CASE IsFirstJob(job[c])
    <2>0. /\ Step(c, "insert_pickup", "insert_delivery")
          /\ SetJob(job[c], "unassigned", NULL)
          /\ UNCHANGED jobLocals
        BY <1>2 DEF InsertPickup
    <2>1. /\ job_status' \in [Jobs -> JobStatuses]
          /\ driver' \in [Jobs -> Drivers \union {NULL}]
          /\ UNCHANGED <<attempt_count, attempts>>
          /\ \A x \in Jobs : x # job[c] => job_status'[x] = job_status[x]
          /\ AttemptsAreNumbered' /\ PastInv' /\ JobInv' /\ ShipGrows
          /\ JobKeepsItsDriver
        BY <1>0, <2>0, JobSet DEF JobStatuses
    <2>2. ShipmentTypes'
        BY <1>0, <2>0, <2>1 DEF JobLocations, jobLocals
    <2>3. ShipOthers(c)
        BY <2>0 DEF ShipOthers, jobLocals
    <2>4. ShipCallOK(c)'
        BY <1>0, <2>0 DEF ShipCallOK, Shipment, jobLocals
    <2>5. DispatchMakesBothJobs'
        <3>1. pc'[c] = "insert_delivery" /\ job'[c] = job[c]
            BY <2>0 DEF jobLocals
        <3>2. ASSUME NEW s \in Shipments, <<s, "pickup">> # job[c]
              PROVE  job_status'[<<s, "pickup">>] = job_status[<<s, "pickup">>]
            BY <2>1, <3>2, PairIsJob DEF JobTypes
        <3>. QED
            BY <1>0, <2>1, <2>3, <3>1, <3>2, StillDispatched
    <2>. QED
        BY <2>1, <2>2, <2>3, <2>4, <2>5, ShipOtherCalls
<1>. QED
    BY <1>1, <1>2

(* The shipment's status is written. *)
LEMMA WriteShipmentKeeps ==
    ASSUME ShipInv, NEW c \in Calls, WriteShipment(c)
    PROVE  ShipInv' /\ JobKeepsItsDriver
<1> USE ShipmentsAssumption
<1>0. /\ pc[c] = "write"
      /\ ShipCallOK(c)
      /\ job[c] \in Jobs
      /\ Shipment(c) \in Shipments
      /\ next_status[c] \in ShipmentStatuses
    BY JobIsPair DEF ShipInv, ShipCallInv, ShipCallOK, WriteShipment, JobReturn,
       Step, At, Shipment
<1>0a. UNCHANGED <<jobVars, operational_status, unplanned>>
    BY DEF WriteShipment
<1>0b. /\ shipment_status' \in [Shipments -> ShipmentStatuses]
       /\ went_through' \in [Shipments -> SUBSET ShipmentStatuses]
       /\ \A s \in Shipments :
             /\ s # Shipment(c) => /\ shipment_status'[s] = shipment_status[s]
                                   /\ went_through'[s] = went_through[s]
             /\ s = Shipment(c) => /\ shipment_status'[s] = next_status[c]
                                   /\ went_through'[s] = went_through[s] \union {next_status[c]}
    BY <1>0 DEF ShipInv, ShipmentTypeOK, ShipmentTypes, WriteShipment
<1>0c. \/ Step(c, "write", "free_driver") /\ UNCHANGED jobLocals
       \/ JobReturn(c, "write")
    BY DEF WriteShipment
<1>1. ShipmentTypes'
    <2>1. /\ pc' \in [Calls -> JobLocations]
          /\ job' \in [Calls -> Jobs \union {NULL}]
          /\ who' \in [Calls -> Drivers \union {NULL}]
          /\ count' \in [Calls -> 0 .. MaxAttempts]
          /\ next_status' \in [Calls -> ShipmentStatuses \union {NULL}]
        BY <1>0c DEF ShipInv, ShipmentTypeOK, ShipmentTypes, Step, JobReturn,
           Local, JobLocations, jobLocals
    <2>. QED
        BY <1>0a, <1>0b, <2>1 DEF ShipInv, ShipmentTypeOK, ShipmentTypes, jobVars
<1>2. ShipOthers(c)
    BY <1>0c DEF ShipInv, ShipmentTypeOK, ShipmentTypes, Step, JobReturn, Local,
       ShipOthers, jobLocals
<1>3. AttemptsAreNumbered' /\ PastInv' /\ JobInv' /\ ShipGrows
      /\ JobKeepsItsDriver
    <2>1. AttemptsAreNumbered' /\ JobInv' /\ JobKeepsItsDriver
        BY <1>0a DEF ShipInv, ShipmentTypeOK, AttemptsAreNumbered, JobInv,
           JobKeepsItsDriver,
           jobVars
    <2>2. ShipGrows
        BY <1>0a, <1>0b DEF ShipInv, ShipmentTypeOK, ShipmentTypes, ShipGrows, jobVars
    <2>3. ASSUME NEW s \in Shipments, s = Shipment(c) PROVE PastOK(s)'
        <3>1. PICK t \in went_through[s] : <<t, next_status[c]>> \in ShipmentTransitions
            BY <1>0, <2>3 DEF ShipCallOK
        <3>2. PastOK(s)
            BY DEF ShipInv, PastInv
        <3>3. /\ shipment_status'[s] = next_status[c]
              /\ went_through'[s] = went_through[s] \union {next_status[c]}
            BY <1>0b, <2>3
        <3>4. /\ "picked_up" \in went_through'[s] => Succeeded(s, "pickup")
              /\ "delivered" \in went_through'[s] => Succeeded(s, "delivery")
            BY <1>0, <2>3, <3>2, <3>3 DEF ShipCallOK, PastOK
        <3>5. /\ Succeeded(s, "pickup")' = Succeeded(s, "pickup")
              /\ Succeeded(s, "delivery")' = Succeeded(s, "delivery")
            BY <1>0a DEF Succeeded, jobVars
        <3>. QED
            BY <3>1, <3>2, <3>3, <3>4, <3>5 DEF PastOK, Past, ShipmentTransitions
    <2>4. ASSUME NEW s \in Shipments, s # Shipment(c) PROVE PastOK(s)'
        BY <1>0a, <1>0b, <2>4 DEF ShipInv, PastInv, PastOK, Past, Succeeded,
           jobVars
    <2>. QED
        BY <2>1, <2>2, <2>3, <2>4 DEF PastInv
<1>4. ShipCallOK(c)'
    BY <1>0, <1>0c DEF ShipInv, ShipmentTypeOK, ShipmentTypes, Step, JobReturn,
       ShipCallOK, jobLocals
<1>5. DispatchMakesBothJobs'
    BY <1>0, <1>0a, <1>2, <1>3, StillDispatched DEF jobVars
<1>. QED
    BY <1>1, <1>2, <1>3, <1>4, <1>5, ShipOtherCalls DEF ShipInv, ShipmentTypeOK

(* An attempt is numbered and recorded, unless its number is taken. *)
LEMMA RecordAttemptKeeps ==
    ASSUME ShipInv, NEW c \in Calls,
           NEW here \in {"complete", "fail"},
           NEW status \in {"completed", "attempted"}, NEW outcome \in Outcomes,
           NEW next \in ShipmentStatuses, pc[c] = here,
           next = "picked_up" => job[c][2] = "pickup" /\ outcome = "succeeded",
           next = "delivered" => job[c][2] = "delivery" /\ outcome = "succeeded",
           RecordAttempt(c, here, status, outcome, next)
    PROVE  ShipInv' /\ JobKeepsItsDriver
<1> USE ShipmentsAssumption
<1>0. /\ job[c] \in Jobs
      /\ job[c] = <<Shipment(c), job[c][2]>>
      /\ job_status[job[c]] # "absent"
      /\ count[c] \in 0 .. MaxAttempts
      /\ count[c] <= attempt_count[job[c]]
      /\ count[c] < MaxAttempts
      /\ UNCHANGED <<shipment_status, operational_status, unplanned, went_through>>
    BY JobIsPair DEF ShipInv, ShipmentTypeOK, ShipmentTypes, ShipCallInv, ShipCallOK,
       RecordAttempt, Shipment
<1>1. CASE ~IsNextAttempt(job[c], count[c] + 1)
    <2>0. JobReturn(c, here) /\ UNCHANGED jobVars
        BY <1>1 DEF RecordAttempt
    <2>1. ShipmentTypes'
        BY <1>0, <2>0 DEF ShipInv, ShipmentTypeOK, ShipmentTypes, JobReturn, Step,
           Local, JobLocations, jobVars
    <2>2. ShipOthers(c)
        BY <2>0 DEF ShipInv, ShipmentTypeOK, ShipmentTypes, JobReturn, Step,
           Local, ShipOthers
    <2>3. AttemptsAreNumbered' /\ PastInv' /\ JobInv' /\ ShipGrows
          /\ JobKeepsItsDriver
        BY <1>0, <2>0, ShipUnchangedTables
    <2>4. ShipCallOK(c)'
        BY <2>0 DEF ShipInv, ShipmentTypeOK, ShipmentTypes, JobReturn, Step, ShipCallOK
    <2>5. DispatchMakesBothJobs'
        BY <2>0, <2>2, <2>3, StillDispatched DEF jobVars
    <2>. QED
        BY <2>1, <2>2, <2>3, <2>4, <2>5, ShipOtherCalls DEF ShipInv, ShipmentTypeOK
<1>2. CASE IsNextAttempt(job[c], count[c] + 1)
    <2>0. PICK j \in Jobs, n \in Int :
             /\ j = job[c]
             /\ n = count[c] + 1
             /\ Step(c, here, "transition")
             /\ Local(c, j, who[c], 0, next)
             /\ job_status' = [job_status EXCEPT ![j] = status]
             /\ attempt_count' = [attempt_count EXCEPT ![j] = n]
             /\ attempts' = attempts \union {<<j, n, outcome>>}
             /\ UNCHANGED driver
        <3>1. count[c] + 1 \in Int
            BY <1>0
        <3>. QED
            BY <1>0, <1>2, <3>1 DEF RecordAttempt
    <2>1. /\ attempt_count[j] \in 0 .. MaxAttempts
          /\ n \in 1 .. MaxAttempts
          /\ n = attempt_count[j] + 1
        <3>1. attempt_count[j] \in 0 .. MaxAttempts /\ n \in 1 .. MaxAttempts
              /\ n <= attempt_count[j] + 1
            BY <1>0, <2>0 DEF ShipInv, ShipmentTypeOK, ShipmentTypes
        <3>2. n \notin {m \in 1 .. MaxAttempts : \E o \in Outcomes : <<j, m, o>> \in attempts}
            BY <1>2, <2>0 DEF IsNextAttempt
        <3>3. n \notin 1 .. attempt_count[j]
            BY <3>2 DEF ShipInv, ShipmentTypeOK, AttemptsAreNumbered
        <3>. QED
            BY <3>1, <3>3
    <2>2. ShipmentTypes'
        <3>1. attempts' \subseteq Jobs \X (1 .. MaxAttempts) \X Outcomes
            BY <2>0, <2>1 DEF ShipInv, ShipmentTypeOK, ShipmentTypes
        <3>2. /\ job_status' \in [Jobs -> JobStatuses]
              /\ attempt_count' \in [Jobs -> 0 .. MaxAttempts]
            BY <2>0, <2>1 DEF ShipInv, ShipmentTypeOK, ShipmentTypes, JobStatuses
        <3>. QED
            BY <1>0, <2>0, <3>1, <3>2 DEF ShipInv, ShipmentTypeOK, ShipmentTypes, Step,
               Local, JobLocations
    <2>3. ShipOthers(c)
        BY <2>0 DEF ShipInv, ShipmentTypeOK, ShipmentTypes, Step, Local, ShipOthers
    <2>4. ShipGrows
        <3>1. \A x \in Jobs : attempt_count[x] <= attempt_count'[x]
            BY <2>0, <2>1 DEF ShipInv, ShipmentTypeOK, ShipmentTypes
        <3>. QED
            BY <1>0, <2>0, <3>1 DEF ShipInv, ShipmentTypeOK, ShipmentTypes, ShipGrows
    <2>5. AttemptsAreNumbered'
        <3>1. ASSUME NEW x \in Jobs, x # j
              PROVE  /\ attempt_count'[x] = attempt_count[x]
                     /\ \A m \in 1 .. MaxAttempts : \A o \in Outcomes :
                           <<x, m, o>> \in attempts' <=> <<x, m, o>> \in attempts
            BY <2>0, <3>1 DEF ShipInv, ShipmentTypeOK, ShipmentTypes
        <3>2. /\ attempt_count'[j] = attempt_count[j] + 1
              /\ \A m \in 1 .. MaxAttempts : \A o \in Outcomes :
                    <<j, m, o>> \in attempts' <=>
                       <<j, m, o>> \in attempts \/ (m = n /\ o = outcome)
            BY <2>0, <2>1 DEF ShipInv, ShipmentTypeOK, ShipmentTypes
        <3>3. ASSUME NEW o \in Outcomes PROVE <<j, n, o>> \notin attempts
            BY <1>2, <2>0 DEF IsNextAttempt
        <3>4. {m \in 1 .. MaxAttempts : \E o \in Outcomes : <<j, m, o>> \in attempts'}
                 = 1 .. attempt_count'[j]
            <4>1. {m \in 1 .. MaxAttempts : \E o \in Outcomes : <<j, m, o>> \in attempts}
                     = 1 .. attempt_count[j]
                BY DEF ShipInv, ShipmentTypeOK, AttemptsAreNumbered
            <4>2. {m \in 1 .. MaxAttempts : \E o \in Outcomes : <<j, m, o>> \in attempts'}
                     = {m \in 1 .. MaxAttempts : \E o \in Outcomes : <<j, m, o>> \in attempts}
                       \union {n}
                BY <2>1, <3>2
            <4>3. 1 .. attempt_count'[j] = (1 .. attempt_count[j]) \union {n}
                BY <2>1, <3>2
            <4>. QED
                BY <4>1, <4>2, <4>3
        <3>5. \A m \in 1 .. MaxAttempts :
                 ~ (<<j, m, "succeeded">> \in attempts'
                 /\ <<j, m, "failed">> \in attempts')
            <4>1. \A m \in 1 .. MaxAttempts :
                     ~ (<<j, m, "succeeded">> \in attempts
                     /\ <<j, m, "failed">> \in attempts)
                BY DEF ShipInv, ShipmentTypeOK, AttemptsAreNumbered
            <4>. QED
                BY <3>2, <3>3, <4>1 DEF Outcomes
        <3>6. ASSUME NEW x \in Jobs, x # j
              PROVE  /\ {m \in 1 .. MaxAttempts : \E o \in Outcomes : <<x, m, o>> \in attempts'}
                           = 1 .. attempt_count'[x]
                     /\ \A m \in 1 .. MaxAttempts :
                           ~ (/\ <<x, m, "succeeded">> \in attempts'
                              /\ <<x, m, "failed">> \in attempts')
            BY <3>1, <3>6 DEF ShipInv, ShipmentTypeOK, AttemptsAreNumbered,
               Outcomes
        <3>. QED
            BY <3>4, <3>5, <3>6 DEF AttemptsAreNumbered
    <2>6. PastInv' /\ JobInv' /\ JobKeepsItsDriver
        <3>1. PastInv'
            BY <1>0, <2>0 DEF ShipInv, PastInv, PastOK, Past, Succeeded
        <3>2. JobInv' /\ JobKeepsItsDriver
            BY <2>0 DEF ShipInv, ShipmentTypeOK, ShipmentTypes, JobInv,
               JobKeepsItsDriver
        <3>. QED
            BY <3>1, <3>2
    <2>7. ShipCallOK(c)'
        <3>1. pc'[c] = "transition" /\ job'[c] = j /\ next_status'[c] = next
            BY <2>0 DEF ShipInv, ShipmentTypeOK, ShipmentTypes, Step, Local
        <3>2. Shipment(c)' = j[1] /\ j = <<j[1], j[2]>>
            BY <3>1, JobIsPair DEF Shipment
        <3>3. outcome = "succeeded" => Succeeded(j[1], j[2])'
            BY <2>0, <2>1, <3>2 DEF Succeeded
        <3>. QED
            BY <2>0, <3>1, <3>2, <3>3 DEF ShipCallOK
    <2>8. DispatchMakesBothJobs'
        <3>1. \A s \in Shipments : job_status[<<s, "pickup">>] = "absent" =>
                 job_status'[<<s, "pickup">>] = "absent"
            <4>1. \A s \in Shipments : <<s, "pickup">> \in Jobs
                BY PairIsJob DEF JobTypes
            <4>. QED
                BY <1>0, <2>0, <4>1 DEF ShipInv, ShipmentTypeOK, ShipmentTypes
        <3>. QED
            BY <2>3, <2>4, <3>1, StillDispatched
    <2>. QED
        BY <2>2, <2>3, <2>4, <2>5, <2>6, <2>7, <2>8, ShipOtherCalls DEF ShipInv,
           ShipmentTypeOK
<1>. QED
    BY <1>1, <1>2

(* The attempt that decides a job is written with the job.                *)
LEMMA WriteCompletionKeeps ==
    ASSUME ShipInv, NEW c \in Calls,
           WriteCompletion(c) \/ WriteFailure(c)
    PROVE  ShipInv' /\ JobKeepsItsDriver
<1>1. CASE WriteCompletion(c)
    <2>1. pc[c] = "complete" /\ job[c] \in Jobs
        BY <1>1 DEF ShipInv, ShipCallInv, ShipCallOK, WriteCompletion, At
    <2>2. job[c][2] \in JobTypes
        BY <2>1, JobIsPair
    <2>. QED
        BY <1>1, <2>1, <2>2, RecordAttemptKeeps DEF WriteCompletion, JobTypes,
           ShipmentStatuses, Outcomes
<1>2. CASE WriteFailure(c)
    <2>1. pc[c] = "fail" /\ job[c] \in Jobs
        BY <1>2 DEF ShipInv, ShipCallInv, ShipCallOK, WriteFailure, At
    <2>. QED
        BY <1>2, <2>1, RecordAttemptKeeps DEF WriteFailure, ShipmentStatuses,
           Outcomes
<1>. QED
    BY <1>1, <1>2

-----------------------------------------------------------------------------
(* The empty tables satisfy the invariant. *)
LEMMA ShipInitInv ==
    ASSUME ShipmentInit
    PROVE  ShipInv
<1> USE ShipmentsAssumption
<1>1. ShipmentTypes
    BY DEF ShipmentInit, ShipmentTypes, ShipmentStatuses, JobStatuses,
       OperationalStatuses, JobLocations
<1>2. AttemptsAreNumbered
    BY DEF ShipmentInit, AttemptsAreNumbered
<1>3. PastInv
    BY DEF ShipmentInit, PastInv, PastOK, Past
<1>4. JobInv /\ ShipCallInv /\ DispatchMakesBothJobs
    BY PairIsJob DEF ShipmentInit, JobInv, ShipCallInv, ShipCallOK,
       DispatchMakesBothJobs, JobTypes
<1>. QED
    BY <1>1, <1>2, <1>3, <1>4 DEF ShipInv, ShipmentTypeOK

(* Every step keeps the invariant, and takes no job from one driver to     *)
(* another.                                                                *)
LEMMA ShipNextInv ==
    ASSUME ShipInv, [ShipmentNext]_shipmentVars
    PROVE  ShipInv' /\ [JobKeepsItsDriver]_shipmentVars
<1>1. ASSUME UNCHANGED shipmentVars
      PROVE  ShipInv' /\ [JobKeepsItsDriver]_shipmentVars
    <2>1. UNCHANGED <<shipment_status, jobVars, operational_status, pc, jobLocals, unplanned,
                      went_through>>
        BY <1>1 DEF shipmentVars
    <2>2. AttemptsAreNumbered' /\ PastInv' /\ JobInv'
        BY <2>1, ShipUnchangedTables
    <2>3. ShipmentTypes' /\ ShipCallInv' /\ DispatchMakesBothJobs'
        BY <2>1 DEF ShipInv, ShipmentTypeOK, ShipmentTypes, ShipCallInv, ShipCallOK,
           Succeeded, Shipment,
           DispatchMakesBothJobs, jobVars, jobLocals
    <2>. QED
        BY <1>1, <2>2, <2>3 DEF ShipInv, ShipmentTypeOK
<1>2. ASSUME NEW c \in Calls, JobHandler(c)
      PROVE  ShipInv' /\ JobKeepsItsDriver
    BY <1>2, InsertPickupKeeps, InsertDeliveryKeeps, CheckTransitionKeeps,
       WriteShipmentKeeps, MarkDriverAssignedKeeps, CheckAwaitingKeeps, ResetJobKeeps,
       FreeDriverKeeps, WriteCompletionKeeps DEF JobHandler
<1>3. ASSUME NEW c \in Calls, CompleteJob(c) \/ RecordFailedAttempt(c)
      PROVE  ShipInv' /\ JobKeepsItsDriver
    BY <1>3, ReadJobKeeps DEF CompleteJob, RecordFailedAttempt
<1>. QED
    BY <1>1, <1>2, <1>3, RequestDispatchKeeps, AssignDriverKeeps, AcceptJobKeeps,
       ReassignJobKeeps, SetOperationalStatusKeeps, MarkJobEnRouteKeeps,
       MarkJobArrivedKeeps, ShipCrashKeeps DEF ShipmentNext

-----------------------------------------------------------------------------
(* The variables have their types, and the attempts of a job are numbered  *)
(* without a gap, whichever calls race to record one.                      *)
THEOREM ShipTypeCorrectness == ShipmentSpec => []ShipmentTypeOK
<1>1. ShipInv /\ [ShipmentNext]_shipmentVars => ShipInv'
    BY ShipNextInv
<1>. QED
    BY <1>1, ShipInitInv, PTL DEF ShipmentSpec, ShipInv

(* The past of a shipment and its ledger of attempts, spelled out. *)
LEMMA PastIsProven == PastInv => DeliveredIsProven
BY DEF PastInv, PastOK, Past, DeliveredIsProven

(* A parcel is delivered only after it was picked up and taken out, with a *)
(* successful attempt of either job in the ledger.                         *)
THEOREM DeliveriesAreProven == ShipmentSpec => []DeliveredIsProven
<1>1. ShipInv /\ [ShipmentNext]_shipmentVars => ShipInv'
    BY ShipNextInv
<1>2. ShipInv => DeliveredIsProven
    BY PastIsProven DEF ShipInv
<1>. QED
    BY <1>1, <1>2, ShipInitInv, PTL DEF ShipmentSpec

(* Two dispatchers never both assign a job, and a dispatch makes both jobs *)
(* unless its Worker dies.                                                 *)
THEOREM JobsAreDispatchedOnce == ShipmentSpec => DispatchedOnce
<1>1. ShipInv /\ [ShipmentNext]_shipmentVars => ShipInv' /\ [JobKeepsItsDriver]_shipmentVars
    BY ShipNextInv
<1>2. ShipInv => DispatchMakesBothJobs
    BY DEF ShipInv
<1>3. ShipmentSpec => []DispatchMakesBothJobs /\ [][JobKeepsItsDriver]_shipmentVars
    BY <1>1, <1>2, ShipInitInv, PTL DEF ShipmentSpec
<1>. QED
    BY <1>3 DEF DispatchedOnce
=============================================================================
