---------------------------- MODULE OutboxProofs ----------------------------
(***************************************************************************)
(* Outbox's safety for any events, recipients' preferences, requests and   *)
(* failures.                                                               *)
(*                                                                         *)
(* That the customer sees an event once rests on two locks taken in turn:  *)
(* the event's, which one request at a time holds, and the delivery row's, *)
(* which is never given back.  A retry pass, which takes neither, must be  *)
(* kept from the application's channel: no row of it is ever due.          *)
(*                                                                         *)
(* That a provider's message is sent once is an account.  The INSERT of a  *)
(* delivery allows one message; a request that throws may mark the         *)
(* delivery 'failed' and so allow one more, but comes to it once, whatever *)
(* lists other passes hold: what was accepted, and what may yet be, is     *)
(* counted against the requests whose failure is spent.                    *)
(***************************************************************************)
EXTENDS Outbox, FiniteSetTheorems, TLAPS

InApp(e) == <<e, "in_app">>

Fanning(r) == r \notin retrying /\ pc[r] \notin {"idle", "claim", "done"}

Showing(r) == pc[r] = "dispatch" /\ channel[r] = "in_app"

(* What a request works on, where it stands, and that a retry pass never   *)
(* works on the application's channel.                                     *)
WorkInv ==
    \A r \in Requests :
        /\ pc[r] \notin {"idle", "claim", "retry", "done"} => event[r] \in Events
        /\ pc[r] \in {"dispatch", "mark", "record", "channel_error", "retry_error"} =>
              channel[r] \in Channels
        /\ pc[r] = "record" => channel[r] # "in_app" /\ outcome[r] \in Outcomes
        /\ pc[r] = "mark" => channel[r] = "in_app"
        /\ pc[r] \in {"retry", "retry_error"} => r \in retrying
        /\ r \in retrying => pc[r] \in {"retry", "dispatch", "record", "retry_error", "done"}
        /\ r \in retrying /\ pc[r] \in {"dispatch", "record", "retry_error"} =>
              channel[r] # "in_app"
        /\ \A row \in rows[r] : row.delivery[2] # "in_app"

(* A claimed event is being processed, by one request. *)
ClaimInv ==
    /\ \A r \in Requests : Fanning(r) => outbox_status[event[r]] = "processing"
    /\ \A r, q \in Requests :
          Fanning(r) /\ Fanning(q) /\ event[r] = event[q] => r = q

(* An event is shown by the request that inserted its delivery row. *)
InAppInv ==
    /\ \A e \in Events :
          /\ next_retry_at[InApp(e)] = "never"
          /\ notifications[e] \in {0, 1}
          /\ delivery_status[InApp(e)] = "none" => notifications[e] = 0
    /\ \A r \in Requests :
          /\ Showing(r) => notifications[event[r]] = 0
          /\ Showing(r) \/ pc[r] = "mark" => delivery_status[InApp(event[r])] # "none"

(* Each channel owed is still to be served, or has its row, or is the one  *)
(* whose INSERT threw; and a row of the application's channel is in the    *)
(* hands of its request until the customer sees the event.                 *)
ReachInv ==
    /\ \A r \in Requests :
          /\ Fanning(r)
          /\ pc[r] \notin {"resolve", "reopen"}
          /\ category[event[r]] \in MandatoryCategories
          => \A ch \in DefaultChannels[category[event[r]]] :
                \/ ch \in channels[r]
                \/ delivery_status[<<event[r], ch>>] # "none"
                \/ pc[r] = "channel_error" /\ ch = channel[r]
    /\ failed = {} =>
          /\ \A r \in Requests : pc[r] \notin {"channel_error", "reopen", "retry_error"}
          /\ \A e \in Events :
                delivery_status[InApp(e)] # "none" =>
                    \/ notifications[e] = 1
                    \/ \E r \in Requests : Showing(r) /\ event[r] = e

Inv ==
    /\ TypeOK
    /\ WorkInv
    /\ ClaimInv
    /\ InAppInv
    /\ ReachInv
    /\ MandatoryReachesEveryChannel

-----------------------------------------------------------------------------
(* The channels a category has by default are channels, and the            *)
(* application's is always one.                                            *)
LEMMA DefaultsTyped ==
    \A c \in Categories : DefaultChannels[c] \subseteq Channels /\ "in_app" \in DefaultChannels[c]
BY DEF DefaultChannels, Channels, Order

(* The channels resolved are channels, all the default ones if mandatory.  *)
LEMMA ResolvedTyped ==
    ASSUME NEW c \in Categories, NEW p
    PROVE  /\ ResolveChannelsForRecipient(c, p) \subseteq Channels
           /\ c \in MandatoryCategories =>
                 DefaultChannels[c] \subseteq ResolveChannelsForRecipient(c, p)
BY DefaultsTyped DEF ResolveChannelsForRecipient

(* The empty tables satisfy the invariant. *)
LEMMA InitInv == Init => Inv
<1> SUFFICES ASSUME Init PROVE Inv
    OBVIOUS
<1>1. TypeOK
    BY OutboxAssumption DEF Init, TypeOK, Locations
<1>2. WorkInv /\ ClaimInv /\ InAppInv
    BY DEF Init, WorkInv, ClaimInv, InAppInv, Fanning, Showing, InApp,
       Deliveries, Channels, Order
<1>3. ReachInv /\ MandatoryReachesEveryChannel
    BY DEF Init, ReachInv, MandatoryReachesEveryChannel, Fanning, InApp,
       Deliveries, Channels, Order
<1>. QED
    BY <1>1, <1>2, <1>3 DEF Inv

-----------------------------------------------------------------------------
(* One lemma per action. *)

(* An event is enqueued pending. *)
LEMMA EnqueueKeeps ==
    ASSUME Inv, NEW r \in Requests, NEW e \in Events, Enqueue(r, e)
    PROVE  Inv'
<1> USE OutboxAssumption DEF Inv, CanEnqueue
<1>1. pc[r] = "idle" /\ pc'[r] \in {"claim", "done"}
      /\ \A q \in Requests : q # r => pc'[q] = pc[q]
    BY DEF Enqueue, At, Arrives, Goto, TypeOK
<1>2. \A x \in Events : outbox_status'[x] = outbox_status[x]
         \/ (outbox_status[x] = "none" /\ outbox_status'[x] = "pending")
    BY DEF Enqueue, TypeOK
<1>3. UNCHANGED <<delivery_status, next_retry_at, notifications, retrying, event, channels, channel, failed>>
    BY DEF Enqueue, localVars, listVars, workVars, deliveryVars, attemptVars,
       sentVars, faultVars
<1>4. \A q \in Requests :
         (Fanning(q)' <=> Fanning(q)) /\ (Showing(q)' <=> Showing(q))
    BY <1>1, <1>3 DEF Fanning, Showing
<1>5. TypeOK'
    <2>1. outbox_status' \in [Events -> OutboxStatuses \union {"none"}]
        BY DEF Enqueue, TypeOK, OutboxStatuses
    <2>2. pc' \in [Requests -> Locations]
        BY DEF Enqueue, Goto, TypeOK, Locations
    <2>3. batch' \in [Requests -> SUBSET Events]
        <3>1. batch' = batch \/ batch' = [batch EXCEPT ![r] = {e}]
            BY DEF Enqueue
        <3>. QED
            BY <3>1 DEF TypeOK
    <2>. QED
        BY <2>1, <2>2, <2>3 DEF Enqueue, TypeOK, localVars, listVars, workVars,
           deliveryVars, attemptVars, sentVars, faultVars
<1>6. WorkInv'
    BY DEF Enqueue, WorkInv, TypeOK, Locations, At, Goto, Arrives, Current,
       Fanning, Showing, Channels, Order, localVars, listVars, workVars,
       deliveryVars, attemptVars, sentVars, faultVars
<1>7. ClaimInv'
    BY <1>2, <1>3, <1>4 DEF ClaimInv, WorkInv, Fanning
<1>8. InAppInv'
    BY DEF Enqueue, InAppInv, ClaimInv, WorkInv, TypeOK, At, Goto, Arrives,
       Current, Fanning, Showing, InApp, Deliveries, localVars, listVars,
       workVars, deliveryVars, attemptVars, sentVars, faultVars
<1>9. ReachInv'
    BY <1>1, <1>3, <1>4 DEF ReachInv, InApp
<1>10. MandatoryReachesEveryChannel'
    BY <1>2, <1>3 DEF MandatoryReachesEveryChannel
<1>. QED
    BY <1>5, <1>6, <1>7, <1>8, <1>9, <1>10 DEF Inv

(* A batch lists events. *)
LEMMA StartBatchKeeps ==
    ASSUME Inv, NEW r \in Requests, StartBatch(r)
    PROVE  Inv'
<1> USE OutboxAssumption DEF Inv
<1>1. TypeOK'
    BY DEF StartBatch, TypeOK, Rows, Locations, Classes, DeliveryStatuses,
       OutboxStatuses, Outcomes, At, Goto, Arrives, Deliveries, Channels,
       Order, workVars, deliveryVars, attemptVars, sentVars, faultVars
<1>2. WorkInv'
    BY DEF StartBatch, WorkInv, At, Goto, Arrives, Channels, Order, workVars,
       deliveryVars, attemptVars, sentVars, faultVars
<1>3. ClaimInv'
    BY DEF StartBatch, ClaimInv, At, Goto, Arrives, Fanning, workVars,
       deliveryVars, attemptVars, sentVars, faultVars
<1>4. InAppInv'
    BY DEF StartBatch, InAppInv, At, Goto, Arrives, Showing, InApp, workVars,
       deliveryVars, attemptVars, sentVars, faultVars
<1>5. ReachInv'
    BY DEF StartBatch, ReachInv, At, Goto, Arrives, Fanning, Showing, InApp,
       workVars, deliveryVars, attemptVars, sentVars, faultVars
<1>6. MandatoryReachesEveryChannel'
    BY DEF StartBatch, MandatoryReachesEveryChannel, At, Goto, Arrives,
       workVars, deliveryVars, attemptVars, sentVars, faultVars
<1>. QED
    BY <1>1, <1>2, <1>3, <1>4, <1>5, <1>6 DEF Inv

(* A retry pass lists no row of the application's channel. *)
LEMMA StartRetryKeeps ==
    ASSUME Inv, NEW r \in Requests, StartRetry(r)
    PROVE  Inv'
<1> USE OutboxAssumption DEF Inv
<1>1. pc[r] = "idle" /\ pc'[r] \in {"retry"}
      /\ \A q \in Requests : q # r => pc'[q] = pc[q]
    BY DEF StartRetry, At, Arrives, Goto, TypeOK
<1>2. UNCHANGED <<event, channels, channel, outcome>>
    BY DEF StartRetry, localVars, listVars, workVars, deliveryVars,
       attemptVars, sentVars, faultVars
<1>3. \A q \in Requests : \A row \in rows'[q] : row.delivery[2] # "in_app"
    <2>1. \A row \in rows'[r] : row.delivery \in Deliveries /\ Due(row.delivery)
        BY DEF StartRetry, TypeOK
    <2>2. \A d \in Deliveries : Due(d) => d[2] # "in_app"
        BY DEF Due, InAppInv, InApp, Deliveries
    <2>3. \A q \in Requests : q # r => rows'[q] = rows[q]
        BY DEF StartRetry
    <2>. QED
        BY <2>1, <2>2, <2>3 DEF WorkInv
<1>4. retrying' = retrying \union {r}
    BY DEF StartRetry
<1>5. TypeOK'
    BY DEF StartRetry, Due, Rows, TypeOK, Rows, Locations, Classes,
       DeliveryStatuses, OutboxStatuses, Outcomes, At, Goto, Arrives,
       Deliveries, Channels, Order, workVars, deliveryVars, attemptVars,
       sentVars, faultVars
<1>6. WorkInv'
    BY <1>1, <1>2, <1>3, <1>4 DEF WorkInv
<1>7. ClaimInv'
    BY DEF StartRetry, Due, ClaimInv, At, Goto, Arrives, Fanning, Deliveries,
       Channels, Order, workVars, deliveryVars, attemptVars, sentVars,
       faultVars
<1>8. InAppInv'
    BY DEF StartRetry, Due, InAppInv, At, Goto, Arrives, Showing, InApp,
       Deliveries, Channels, Order, workVars, deliveryVars, attemptVars,
       sentVars, faultVars
<1>9. ReachInv'
    BY DEF StartRetry, Due, ReachInv, At, Goto, Arrives, Fanning, Showing,
       InApp, Deliveries, Channels, Order, workVars, deliveryVars, attemptVars,
       sentVars, faultVars
<1>10. MandatoryReachesEveryChannel'
    BY DEF StartRetry, Due, MandatoryReachesEveryChannel, At, Goto, Arrives,
       Deliveries, Channels, Order, workVars, deliveryVars, attemptVars,
       sentVars, faultVars
<1>. QED
    BY <1>5, <1>6, <1>7, <1>8, <1>9, <1>10 DEF Inv

(* Only a pending event is claimed: nobody is at work on it. *)
LEMMA ClaimKeeps ==
    ASSUME Inv, NEW r \in Requests, ClaimOutboxEvent(r)
    PROVE  Inv'
<1> USE OutboxAssumption DEF Inv
<1>1. PICK e \in Events :
         \/ /\ outbox_status[e] = "pending"
            /\ outbox_status' = [outbox_status EXCEPT ![e] = "processing"]
            /\ event' = [event EXCEPT ![r] = e]
            /\ pc' = [pc EXCEPT ![r] = "resolve"]
         \/ /\ pc' = [pc EXCEPT ![r] = "done"] \/ pc' = [pc EXCEPT ![r] = "claim"]
            /\ UNCHANGED <<outbox_status, event>>
    BY DEF ClaimOutboxEvent, CanClaim, Goto, TypeOK
<1>2. pc[r] = "claim" /\ r \notin retrying /\ ~Fanning(r)
    BY DEF ClaimOutboxEvent, At, WorkInv, Fanning
<1>3. UNCHANGED <<delivery_status, next_retry_at, notifications, retrying, rows, channels, channel, failed, outcome>>
    BY DEF ClaimOutboxEvent, localVars, listVars, workVars, deliveryVars,
       attemptVars, sentVars, faultVars
<1>4. \A q \in Requests : q # r =>
         (Fanning(q)' <=> Fanning(q)) /\ event'[q] = event[q] /\ pc'[q] = pc[q]
    BY <1>1, <1>3 DEF Fanning, TypeOK
<1>5. pc'[r] \in {"resolve", "claim", "done"}
      /\ (Fanning(r)' => event'[r] = e /\ outbox_status[e] = "pending" /\ outbox_status'[e] = "processing")
    BY <1>1 DEF Fanning, TypeOK
<1>6. \A x \in Events : outbox_status'[x] = outbox_status[x]
         \/ (outbox_status[x] = "pending" /\ outbox_status'[x] = "processing")
    BY <1>1 DEF TypeOK
<1>7. \A q \in Requests : Showing(q)' <=> Showing(q)
    BY <1>2, <1>3, <1>4, <1>5 DEF Showing
<1>8. TypeOK'
    <2>1. outbox_status' \in [Events -> OutboxStatuses \union {"none"}]
        BY <1>1 DEF TypeOK, OutboxStatuses
    <2>2. pc' \in [Requests -> Locations]
        BY <1>1 DEF TypeOK, Locations
    <2>3. event' \in [Requests -> Events \union {NULL}]
        BY <1>1 DEF TypeOK
    <2>4. batch' \in [Requests -> SUBSET Events]
        BY DEF ClaimOutboxEvent, TypeOK
    <2>. QED
        BY <2>1, <2>2, <2>3, <2>4 DEF ClaimOutboxEvent, TypeOK, localVars,
           listVars, workVars, deliveryVars, attemptVars, sentVars, faultVars
<1>9. WorkInv'
    BY DEF ClaimOutboxEvent, CanClaim, WorkInv, TypeOK, Locations, At, Goto,
       Arrives, Current, Fanning, Showing, InApp, Channels, Order, localVars,
       listVars, workVars, deliveryVars, attemptVars, sentVars, faultVars
<1>10. ClaimInv'
    <2>1. \A q \in Requests : Fanning(q)' => outbox_status'[event'[q]] = "processing"
        BY <1>4, <1>5, <1>6 DEF ClaimInv, WorkInv, Fanning
    <2>2. \A q \in Requests : q # r /\ Fanning(q)' /\ Fanning(r)' => event'[q] # event'[r]
        BY <1>4, <1>5 DEF ClaimInv
    <2>. QED
        BY <2>1, <2>2, <1>4 DEF ClaimInv
<1>11. InAppInv'
    BY DEF ClaimOutboxEvent, CanClaim, InAppInv, ClaimInv, WorkInv, TypeOK, At,
       Goto, Arrives, Current, Fanning, Showing, InApp, Deliveries, Channels,
       localVars, listVars, workVars, deliveryVars, attemptVars, sentVars,
       faultVars
<1>12. ReachInv'
    <2>1. \A q \in Requests : (event'[q] = event[q] \/ ~Showing(q)) /\ pc'[q] \in {pc[q], "resolve", "claim", "done"}
        BY <1>2, <1>4, <1>5 DEF Showing
    <2>2. \A q \in Requests : Fanning(q)' /\ pc'[q] # "resolve" => Fanning(q) /\ event'[q] = event[q] /\ pc'[q] = pc[q]
        BY <1>4, <1>5 DEF Fanning
    <2>. QED
        BY <2>1, <2>2, <1>3, <1>7 DEF ReachInv, InApp
<1>13. MandatoryReachesEveryChannel'
    BY <1>6, <1>3 DEF MandatoryReachesEveryChannel
<1>. QED
    BY <1>8, <1>9, <1>10, <1>11, <1>12, <1>13 DEF Inv

(* A mandatory event is owed all its default channels. *)
LEMMA ResolveKeeps ==
    ASSUME Inv, NEW r \in Requests, Resolve(r)
    PROVE  Inv'
<1> USE OutboxAssumption DEF Inv
<1>1. pc[r] = "resolve" /\ pc'[r] \in {"next_channel"}
      /\ \A q \in Requests : q # r => pc'[q] = pc[q]
    BY DEF Resolve, At, Arrives, Goto, TypeOK
<1>2. UNCHANGED <<delivery_status, notifications, retrying, event, channel, failed>>
    BY DEF Resolve, localVars, listVars, workVars, deliveryVars, attemptVars,
       sentVars, faultVars
<1>3. event[r] \in Events /\ category[event[r]] \in Categories
    BY <1>1 DEF WorkInv
<1>4. PICK p \in PossibleRows(category[event[r]]) : channels' =
         [channels EXCEPT ![r] = ResolveChannelsForRecipient(category[event[r]], p)]
    BY DEF Resolve
<1>5. /\ channels'[r] \subseteq Channels
      /\ category[event[r]] \in MandatoryCategories =>
            DefaultChannels[category[event[r]]] \subseteq channels'[r]
      /\ \A q \in Requests : q # r => channels'[q] = channels[q]
    BY <1>3, <1>4, ResolvedTyped DEF TypeOK
<1>6. \A q \in Requests :
         (Fanning(q)' <=> Fanning(q)) /\ (Showing(q)' <=> Showing(q))
    BY <1>1, <1>2 DEF Fanning, Showing
<1>7. TypeOK'
    <2>1. pc' \in [Requests -> Locations]
        BY DEF Resolve, Goto, TypeOK, Locations
    <2>2. channels' \in [Requests -> SUBSET Channels]
        BY <1>4, <1>5 DEF TypeOK
    <2>. QED
        BY <2>1, <2>2 DEF Resolve, TypeOK, localVars, listVars, workVars,
           deliveryVars, attemptVars, sentVars, faultVars
<1>8. WorkInv'
    BY DEF Resolve, WorkInv, At, Goto, Channels, Order, listVars, deliveryVars,
       attemptVars, sentVars, faultVars
<1>9. ClaimInv'
    BY DEF Resolve, ClaimInv, At, Goto, Fanning, listVars, deliveryVars,
       attemptVars, sentVars, faultVars
<1>10. InAppInv'
    BY DEF Resolve, InAppInv, At, Goto, Showing, InApp, listVars, deliveryVars,
       attemptVars, sentVars, faultVars
<1>11. ReachInv'
    <2>1. \A q \in Requests : q # r => channels'[q] = channels[q] /\ pc'[q] = pc[q]
        BY <1>1, <1>5
    <2>. QED
        BY <2>1, <1>1, <1>2, <1>5, <1>6 DEF ReachInv, InApp
<1>12. MandatoryReachesEveryChannel'
    BY DEF Resolve, MandatoryReachesEveryChannel, At, Goto, listVars,
       deliveryVars, attemptVars, sentVars, faultVars
<1>. QED
    BY <1>7, <1>8, <1>9, <1>10, <1>11, <1>12 DEF Inv

(* The delivery row is inserted, exists, or its INSERT throws. *)
LEMMA InsertDeliveryKeeps ==
    ASSUME Inv, NEW r \in Requests, InsertDelivery(r)
    PROVE  Inv'
<1> USE OutboxAssumption DEF Inv
<1>1. PICK ch \in channels[r] :
         /\ channel' = [channel EXCEPT ![r] = ch]
         /\ channels' = [channels EXCEPT ![r] = @ \ {ch}]
         /\ \/ /\ delivery_status[<<event[r], ch>>] = "none"
               /\ delivery_status' = [delivery_status EXCEPT ![<<event[r], ch>>] = "queued"]
               /\ tries' = [tries EXCEPT ![r] = 0]
               /\ pc' = [pc EXCEPT ![r] = "dispatch"]
               /\ UNCHANGED failed
            \/ /\ delivery_status[<<event[r], ch>>] # "none"
               /\ UNCHANGED <<delivery_status, tries, failed, pc>>
            \/ /\ failed' = failed \union {r}
               /\ pc' = [pc EXCEPT ![r] = "channel_error"]
               /\ UNCHANGED <<delivery_status, tries>>
    BY DEF InsertDelivery, IsNew, Goto
<1>2. pc[r] = "next_channel" /\ r \notin retrying /\ Fanning(r) /\ event[r] \in Events
      /\ ch \in Channels
    BY DEF InsertDelivery, At, WorkInv, Fanning, TypeOK
<1>3. UNCHANGED <<outbox_status, next_retry_at, notifications, retrying, rows, event, outcome>>
    BY DEF InsertDelivery, localVars, listVars, workVars, deliveryVars,
       attemptVars, sentVars, faultVars
<1>4. <<event[r], ch>> \in Deliveries
    BY <1>2 DEF Deliveries
<1>5. \A q \in Requests : q # r =>
         pc'[q] = pc[q] /\ channel'[q] = channel[q] /\ channels'[q] = channels[q]
    BY <1>1 DEF TypeOK
<1>6. /\ pc'[r] \in {"next_channel", "dispatch", "channel_error"}
      /\ channel'[r] = ch
      /\ \A c \in channels[r] : c # ch => c \in channels'[r]
      /\ pc'[r] # "channel_error" => delivery_status'[<<event[r], ch>>] # "none"
      /\ pc'[r] = "channel_error" => r \in failed'
      /\ pc'[r] = "dispatch" => delivery_status[<<event[r], ch>>] = "none"
      /\ failed \subseteq failed'
    BY <1>1, <1>2, <1>4 DEF TypeOK
<1>7. \A d \in Deliveries : delivery_status'[d] = delivery_status[d]
         \/ (d = <<event[r], ch>> /\ pc'[r] = "dispatch")
    BY <1>1, <1>4, <1>2 DEF TypeOK
<1>8. \A d \in Deliveries : delivery_status[d] # "none" => delivery_status'[d] # "none"
    BY <1>1, <1>4 DEF TypeOK
<1>9. \A q \in Requests : Fanning(q)' <=> Fanning(q)
    BY <1>2, <1>3, <1>5, <1>6 DEF Fanning
<1>10. TypeOK'
    <2>1. delivery_status' \in [Deliveries -> DeliveryStatuses \union {"none"}]
        BY <1>1 DEF TypeOK, DeliveryStatuses
    <2>2. pc' \in [Requests -> Locations]
        BY <1>1 DEF TypeOK, Locations
    <2>3. tries' \in [Requests -> 0..(MaxAttempts - 1)]
        BY <1>1 DEF TypeOK
    <2>4. channels' \in [Requests -> SUBSET Channels]
        BY <1>1 DEF TypeOK
    <2>5. channel' \in [Requests -> Channels \union {NULL}]
        BY <1>1, <1>2 DEF TypeOK
    <2>6. failed' \in SUBSET Requests
        BY <1>1 DEF TypeOK
    <2>. QED
        BY <2>1, <2>2, <2>3, <2>4, <2>5, <2>6 DEF InsertDelivery, TypeOK,
           localVars, listVars, workVars, deliveryVars, attemptVars, sentVars,
           faultVars
<1>11. WorkInv'
    BY <1>2, <1>3, <1>5, <1>6 DEF WorkInv
<1>12. ClaimInv'
    BY <1>3, <1>9 DEF ClaimInv
<1>13. InAppInv'
    <2>1. \A e \in Events : InApp(e) \in Deliveries
        BY DEF InApp, Deliveries, Channels, Order
    <2>2. \A e \in Events : delivery_status'[InApp(e)] = "none" => delivery_status[InApp(e)] = "none"
        BY <2>1, <1>8
    <2>3. Showing(r)' => notifications'[event'[r]] = 0 /\ delivery_status'[InApp(event'[r])] # "none"
        BY <1>2, <1>3, <1>6, <2>1 DEF Showing, InApp, InAppInv
    <2>4. \A q \in Requests : q # r /\ (Showing(q)' \/ pc'[q] = "mark") =>
            (Showing(q)' <=> Showing(q)) /\ pc'[q] = pc[q] /\ event[q] \in Events
        BY <1>5 DEF Showing, WorkInv
    <2>. QED
        BY <2>1, <2>2, <2>3, <2>4, <1>3, <1>8, <1>6 DEF InAppInv
<1>14. ReachInv'
    <2>1. ASSUME NEW q \in Requests, Fanning(q)', pc'[q] \notin {"resolve", "reopen"},
                category[event'[q]] \in MandatoryCategories,
                NEW c \in DefaultChannels[category[event'[q]]]
         PROVE  \/ c \in channels'[q]
                \/ delivery_status'[<<event'[q], c>>] # "none"
                \/ pc'[q] = "channel_error" /\ c = channel'[q]
        BY <2>1, <1>2, <1>3, <1>5, <1>6, <1>8, <1>9, DefaultsTyped DEF
           ReachInv, WorkInv, Fanning, Deliveries
    <2>2. ASSUME failed' = {} PROVE \A q \in Requests : pc'[q] \notin {"channel_error", "reopen", "retry_error"}
        BY <2>2, <1>5, <1>6 DEF ReachInv
    <2>3. ASSUME failed' = {}, NEW e \in Events, delivery_status'[InApp(e)] # "none"
         PROVE  notifications'[e] = 1 \/ \E q \in Requests : Showing(q)' /\ event'[q] = e
        BY <2>3, <1>2, <1>3, <1>5, <1>6, <1>7 DEF ReachInv, Showing, InApp,
           Deliveries, Channels, Order
    <2>. QED
        BY <2>1, <2>2, <2>3 DEF ReachInv
<1>15. MandatoryReachesEveryChannel'
    BY <1>3, <1>8, <1>6, DefaultsTyped DEF MandatoryReachesEveryChannel,
       Deliveries
<1>. QED
    BY <1>10, <1>11, <1>12, <1>13, <1>14, <1>15 DEF Inv

(* A processed event has all its rows. *)
LEMMA FinishEventKeeps ==
    ASSUME Inv, NEW r \in Requests, FinishEvent(r)
    PROVE  Inv'
<1> USE OutboxAssumption DEF Inv
<1>1. pc[r] = "next_channel" /\ pc'[r] \in {"claim", "done"}
      /\ \A q \in Requests : q # r => pc'[q] = pc[q]
    BY DEF FinishEvent, At, Arrives, Goto, TypeOK, AfterEvent
<1>2. UNCHANGED <<delivery_status, next_retry_at, notifications, retrying, event, channels, channel, failed>>
    BY DEF FinishEvent, localVars, listVars, workVars, deliveryVars,
       attemptVars, sentVars, faultVars
<1>3. r \notin retrying /\ Fanning(r) /\ event[r] \in Events /\ channels[r] = {}
    BY <1>1 DEF FinishEvent, WorkInv, Fanning
<1>4. outbox_status' = [outbox_status EXCEPT ![event[r]] = "processed"]
    BY DEF FinishEvent
<1>5. \A q \in Requests : Fanning(q)' <=> Fanning(q) /\ q # r
    BY <1>1, <1>2, <1>3 DEF Fanning
<1>6. category[event[r]] \in MandatoryCategories =>
         /\ \A ch \in DefaultChannels[category[event[r]]] : delivery_status[<<event[r], ch>>] # "none"
         /\ failed = {} => notifications[event[r]] = 1
    <2>1. category[event[r]] \in Categories
        BY <1>3
    <2>2. category[event[r]] \in MandatoryCategories =>
            \A ch \in DefaultChannels[category[event[r]]] : delivery_status[<<event[r], ch>>] # "none"
        BY <1>1, <1>3 DEF ReachInv
    <2>3. \A q \in Requests : Showing(q) => event[q] # event[r]
        BY <1>1, <1>3 DEF Showing, Fanning, ClaimInv, WorkInv
    <2>4. category[event[r]] \in MandatoryCategories => delivery_status[InApp(event[r])] # "none"
        BY <2>1, <2>2, DefaultsTyped DEF InApp
    <2>5. ASSUME category[event[r]] \in MandatoryCategories, failed = {} PROVE notifications[event[r]] = 1
        BY <2>3, <2>4, <2>5, <1>3 DEF ReachInv
    <2>. QED
        BY <2>2, <2>5
<1>7. TypeOK'
    BY DEF FinishEvent, AfterEvent, TypeOK, Rows, Locations, Classes,
       DeliveryStatuses, OutboxStatuses, Outcomes, At, Goto, Deliveries,
       Channels, Order, localVars, listVars, workVars, deliveryVars,
       attemptVars, sentVars, faultVars
<1>8. WorkInv'
    BY DEF FinishEvent, AfterEvent, WorkInv, At, Goto, Channels, Order,
       localVars, listVars, workVars, deliveryVars, attemptVars, sentVars,
       faultVars
<1>9. ClaimInv'
    BY <1>2, <1>3, <1>4, <1>5 DEF ClaimInv, Fanning
<1>10. InAppInv'
    BY DEF FinishEvent, AfterEvent, InAppInv, At, Goto, Showing, InApp,
       localVars, listVars, workVars, deliveryVars, attemptVars, sentVars,
       faultVars
<1>11. ReachInv'
    BY DEF FinishEvent, AfterEvent, ReachInv, At, Goto, Fanning, Showing,
       InApp, localVars, listVars, workVars, deliveryVars, attemptVars,
       sentVars, faultVars
<1>12. MandatoryReachesEveryChannel'
    BY <1>2, <1>3, <1>4, <1>6 DEF MandatoryReachesEveryChannel
<1>. QED
    BY <1>7, <1>8, <1>9, <1>10, <1>11, <1>12 DEF Inv

(* An event is given back. *)
LEMMA ReopenKeeps ==
    ASSUME Inv, NEW r \in Requests, Reopen(r)
    PROVE  Inv'
<1> USE OutboxAssumption DEF Inv
<1>1. pc[r] = "reopen" /\ pc'[r] \in {"claim", "done"}
      /\ \A q \in Requests : q # r => pc'[q] = pc[q]
    BY DEF Reopen, At, Arrives, Goto, TypeOK, AfterEvent
<1>2. UNCHANGED <<retrying, event>>
    BY DEF Reopen, localVars, listVars, workVars, deliveryVars, attemptVars,
       sentVars, faultVars
<1>3. r \notin retrying /\ Fanning(r) /\ event[r] \in Events
    BY <1>1 DEF WorkInv, Fanning
<1>4. outbox_status' = [outbox_status EXCEPT ![event[r]] = "pending"]
    BY DEF Reopen
<1>5. \A q \in Requests : Fanning(q)' <=> Fanning(q) /\ q # r
    BY <1>1, <1>2, <1>3 DEF Fanning
<1>6. TypeOK'
    BY DEF Reopen, AfterEvent, TypeOK, Rows, Locations, Classes,
       DeliveryStatuses, OutboxStatuses, Outcomes, At, Goto, Deliveries,
       Channels, Order, localVars, listVars, workVars, deliveryVars,
       attemptVars, sentVars, faultVars
<1>7. WorkInv'
    BY DEF Reopen, AfterEvent, WorkInv, At, Goto, Channels, Order, localVars,
       listVars, workVars, deliveryVars, attemptVars, sentVars, faultVars
<1>8. ClaimInv'
    BY <1>2, <1>3, <1>4, <1>5 DEF ClaimInv, Fanning
<1>9. InAppInv'
    BY DEF Reopen, AfterEvent, InAppInv, At, Goto, Showing, InApp, localVars,
       listVars, workVars, deliveryVars, attemptVars, sentVars, faultVars
<1>10. ReachInv'
    BY DEF Reopen, AfterEvent, ReachInv, At, Goto, Fanning, Showing, InApp,
       localVars, listVars, workVars, deliveryVars, attemptVars, sentVars,
       faultVars
<1>11. MandatoryReachesEveryChannel'
    BY DEF Reopen, AfterEvent, MandatoryReachesEveryChannel, At, Goto,
       localVars, listVars, workVars, deliveryVars, attemptVars, sentVars,
       faultVars
<1>. QED
    BY <1>6, <1>7, <1>8, <1>9, <1>10, <1>11 DEF Inv

(* The customer sees the event. *)
LEMMA DispatchInAppKeeps ==
    ASSUME Inv, NEW r \in Requests, DispatchInApp(r)
    PROVE  Inv'
<1> USE OutboxAssumption DEF Inv
<1>1. pc[r] = "dispatch" /\ pc'[r] \in {"mark"}
      /\ \A q \in Requests : q # r => pc'[q] = pc[q]
    BY DEF DispatchInApp, At, Arrives, Goto, TypeOK
<1>2. UNCHANGED <<outbox_status, delivery_status, next_retry_at, retrying, event, channels, channel, failed>>
    BY DEF DispatchInApp, localVars, listVars, workVars, deliveryVars,
       attemptVars, sentVars, faultVars
<1>3. Showing(r) /\ r \notin retrying /\ Fanning(r) /\ event[r] \in Events
    BY <1>1 DEF DispatchInApp, WorkInv, Fanning, Showing
<1>4. notifications' = [notifications EXCEPT ![event[r]] = @ + 1] /\ notifications[event[r]] = 0
    BY <1>3 DEF DispatchInApp, InAppInv
<1>5. \A q \in Requests : Showing(q)' =>
         Showing(q) /\ event[q] \in Events /\ event[q] # event[r]
    BY <1>1, <1>2, <1>3 DEF Showing, Fanning, WorkInv, ClaimInv
<1>6. TypeOK'
    BY SMTT(30) DEF DispatchInApp, TypeOK, WorkInv, Rows, Locations, Classes,
       DeliveryStatuses, OutboxStatuses, Outcomes, At, Goto, Arrives, Current,
       Fanning, Showing, InApp, Deliveries, Channels, Order, localVars,
       listVars, workVars, deliveryVars, attemptVars, sentVars, faultVars
<1>7. WorkInv'
    BY DEF DispatchInApp, WorkInv, At, Goto, Channels, Order, localVars,
       listVars, workVars, deliveryVars, attemptVars, faultVars
<1>8. ClaimInv'
    BY DEF DispatchInApp, ClaimInv, At, Goto, Fanning, localVars, listVars,
       workVars, deliveryVars, attemptVars, faultVars
<1>9. InAppInv'
    BY <1>1, <1>2, <1>3, <1>4, <1>5 DEF InAppInv, InApp
<1>10. ReachInv'
    BY DEF DispatchInApp, ReachInv, InAppInv, ClaimInv, WorkInv, TypeOK, At,
       Goto, Arrives, Current, Fanning, Showing, InApp, Channels, localVars,
       listVars, workVars, deliveryVars, attemptVars, sentVars, faultVars
<1>11. MandatoryReachesEveryChannel'
    BY <1>2, <1>3, <1>4 DEF MandatoryReachesEveryChannel
<1>. QED
    BY <1>6, <1>7, <1>8, <1>9, <1>10, <1>11 DEF Inv

(* The delivery is marked. *)
LEMMA MarkDeliveredKeeps ==
    ASSUME Inv, NEW r \in Requests, MarkDelivered(r)
    PROVE  Inv'
<1> USE OutboxAssumption DEF Inv
<1>1. r \notin retrying /\ pc[r] = "mark" /\ event[r] \in Events /\ channel[r] \in Channels
    BY DEF MarkDelivered, At, WorkInv
<1>2. pc[r] = "mark" /\ pc'[r] = "next_channel"
      /\ \A q \in Requests : q # r => pc'[q] = pc[q]
    BY <1>1 DEF MarkDelivered, Goto, AfterDispatch, TypeOK
<1>3. UNCHANGED <<notifications, retrying, event, channels, channel, failed>>
    BY DEF MarkDelivered, localVars, listVars, workVars, deliveryVars,
       attemptVars, sentVars, faultVars
<1>4. Current(r) \in Deliveries /\ delivery_status' = [delivery_status EXCEPT ![Current(r)] = "delivered"]
    BY <1>1 DEF MarkDelivered, Current, Deliveries
<1>5. delivery_status[Current(r)] # "none"
    BY <1>1 DEF WorkInv, InAppInv, Current, InApp
<1>6. \A d \in Deliveries : delivery_status'[d] = "none" <=> delivery_status[d] = "none"
    BY <1>4, <1>5
<1>7. \A q \in Requests :
         (Fanning(q)' <=> Fanning(q)) /\ (Showing(q)' <=> Showing(q))
    BY <1>2, <1>3 DEF Fanning, Showing
<1>8. TypeOK'
    <2>1. delivery_status' \in [Deliveries -> DeliveryStatuses \union {"none"}]
        BY <1>4 DEF TypeOK, DeliveryStatuses
    <2>2. attempt_count' \in [Deliveries -> 0..MaxAttempts]
        BY <1>4, OutboxAssumption DEF MarkDelivered, TypeOK
    <2>3. pc' \in [Requests -> Locations]
        BY <1>2 DEF MarkDelivered, Goto, AfterDispatch, AfterRow, TypeOK,
           Locations
    <2>. QED
        BY <2>1, <2>2, <2>3 DEF MarkDelivered, TypeOK, localVars, listVars,
           workVars, deliveryVars, attemptVars, sentVars, faultVars
<1>9. WorkInv'
    BY DEF MarkDelivered, AfterDispatch, AfterRow, WorkInv, At, Goto, Current,
       Channels, Order, localVars, listVars, workVars, sentVars, faultVars
<1>10. ClaimInv'
    BY DEF MarkDelivered, AfterDispatch, AfterRow, ClaimInv, At, Goto, Current,
       Fanning, localVars, listVars, workVars, sentVars, faultVars
<1>11. InAppInv'
    BY DEF MarkDelivered, AfterDispatch, AfterRow, InAppInv, At, Goto, Current,
       Showing, InApp, localVars, listVars, workVars, sentVars, faultVars
<1>12. ReachInv'
    <2>1. ASSUME NEW q \in Requests, Fanning(q)', pc'[q] \notin {"resolve", "reopen"},
                category[event'[q]] \in MandatoryCategories,
                NEW c \in DefaultChannels[category[event'[q]]]
         PROVE  \/ c \in channels'[q]
                \/ delivery_status'[<<event'[q], c>>] # "none"
                \/ pc'[q] = "channel_error" /\ c = channel'[q]
        BY <2>1, <1>2, <1>3, <1>6, <1>7, DefaultsTyped DEF ReachInv, WorkInv,
           Fanning, Deliveries
    <2>2. \A e \in Events : InApp(e) \in Deliveries
        BY DEF InApp, Deliveries, Channels, Order
    <2>. QED
        BY <2>1, <2>2, <1>2, <1>3, <1>6, <1>7 DEF ReachInv
<1>13. MandatoryReachesEveryChannel'
    BY DEF MarkDelivered, AfterDispatch, AfterRow,
       MandatoryReachesEveryChannel, At, Goto, Current, localVars, listVars,
       workVars, sentVars, faultVars
<1>. QED
    BY <1>8, <1>9, <1>10, <1>11, <1>12, <1>13 DEF Inv

(* A provider answers. *)
LEMMA DispatchViaProviderKeeps ==
    ASSUME Inv, NEW r \in Requests, DispatchViaProvider(r)
    PROVE  Inv'
<1> USE OutboxAssumption DEF Inv
<1>1. Current(r) \in Deliveries
    BY DEF DispatchViaProvider, At, WorkInv, Current, Deliveries
<1>2. TypeOK'
    <2>1. accepted' \in [Deliveries -> Nat]
        BY <1>1 DEF DispatchViaProvider, TypeOK
    <2>2. pc' \in [Requests -> Locations]
        BY DEF DispatchViaProvider, Goto, TypeOK, Locations
    <2>3. outcome' \in [Requests -> Outcomes \union {NULL}]
        BY DEF DispatchViaProvider, TypeOK
    <2>. QED
        BY <2>1, <2>2, <2>3 DEF DispatchViaProvider, TypeOK, localVars,
           listVars, workVars, deliveryVars, attemptVars, sentVars, faultVars
<1>3. WorkInv'
    BY DEF DispatchViaProvider, WorkInv, TypeOK, Locations, At, Goto, Arrives,
       Current, Fanning, Showing, Channels, Order, localVars, listVars,
       workVars, deliveryVars, attemptVars, sentVars, faultVars
<1>4. ClaimInv'
    BY DEF DispatchViaProvider, ClaimInv, At, Goto, Current, Fanning, listVars,
       workVars, deliveryVars, attemptVars, faultVars
<1>5. InAppInv'
    BY DEF DispatchViaProvider, InAppInv, At, Goto, Current, Showing, InApp,
       listVars, workVars, deliveryVars, attemptVars, faultVars
<1>6. ReachInv'
    BY DEF DispatchViaProvider, ReachInv, At, Goto, Current, Fanning, Showing,
       InApp, listVars, workVars, deliveryVars, attemptVars, faultVars
<1>7. MandatoryReachesEveryChannel'
    BY DEF DispatchViaProvider, MandatoryReachesEveryChannel, At, Goto,
       Current, listVars, workVars, deliveryVars, attemptVars, faultVars
<1>. QED
    BY <1>2, <1>3, <1>4, <1>5, <1>6, <1>7 DEF Inv

(* Its answer is recorded. *)
LEMMA RecordOutcomeKeeps ==
    ASSUME Inv, NEW r \in Requests, RecordOutcome(r)
    PROVE  Inv'
<1> USE OutboxAssumption DEF Inv
<1>1. pc[r] = "record" /\ event[r] \in Events /\ channel[r] \in Channels /\ channel[r] # "in_app"
      /\ outcome[r] \in Outcomes
    BY DEF RecordOutcome, At, WorkInv
<1>2. pc[r] = "record" /\ pc'[r] \in {"next_channel", "retry", "done"}
      /\ \A q \in Requests : q # r => pc'[q] = pc[q]
    BY <1>1 DEF RecordOutcome, Goto, AfterDispatch, AfterRow, TypeOK
<1>3. UNCHANGED <<outbox_status, notifications, retrying, event, channels, channel, failed>>
    BY DEF RecordOutcome, localVars, listVars, workVars, deliveryVars,
       attemptVars, sentVars, faultVars
<1>4. Current(r) \in Deliveries /\ \A e \in Events : Current(r) # InApp(e)
    BY <1>1 DEF Current, Deliveries, InApp
<1>5. PICK s \in DeliveryStatuses : delivery_status' = [delivery_status EXCEPT ![Current(r)] = s]
    BY <1>1 DEF RecordOutcome, StatusOf, Classes, Outcomes, DeliveryStatuses
<1>6. /\ \A d \in Deliveries : delivery_status[d] # "none" => delivery_status'[d] # "none"
      /\ \A e \in Events : delivery_status'[InApp(e)] = delivery_status[InApp(e)]
    BY <1>4, <1>5 DEF DeliveryStatuses, InApp, Deliveries, Channels, Order
<1>7. \A q \in Requests : (Fanning(q)' => Fanning(q)) /\ (Showing(q)' <=> Showing(q))
    BY <1>2, <1>3 DEF Fanning, Showing
<1>8. TypeOK'
    <2>1. delivery_status' \in [Deliveries -> DeliveryStatuses \union {"none"}]
        BY <1>5 DEF TypeOK
    <2>2. failure_class' \in [Deliveries -> Classes \union {NULL}]
        BY <1>4 DEF RecordOutcome, TypeOK, Classes
    <2>3. attempt_count' \in [Deliveries -> 0..MaxAttempts]
        BY <1>4, OutboxAssumption DEF RecordOutcome, TypeOK
    <2>4. next_retry_at' \in [Deliveries -> {"never", "to_come", "come"}]
        BY <1>4 DEF RecordOutcome, RetryAfter, TypeOK
    <2>5. pc' \in [Requests -> Locations]
        BY <1>2 DEF RecordOutcome, Goto, AfterDispatch, AfterRow, TypeOK,
           Locations
    <2>6. outcome' \in [Requests -> Outcomes \union {NULL}]
        BY DEF RecordOutcome, TypeOK
    <2>. QED
        BY <2>1, <2>2, <2>3, <2>4, <2>5, <2>6 DEF RecordOutcome, TypeOK,
           localVars, listVars, workVars, deliveryVars, attemptVars, sentVars,
           faultVars
<1>9. WorkInv'
    BY DEF RecordOutcome, AfterDispatch, AfterRow, StatusOf, Classes,
       RetryAfter, Outcomes, WorkInv, TypeOK, Locations, At, Goto, Arrives,
       Current, Fanning, Showing, InApp, Channels, Order, localVars, listVars,
       workVars, deliveryVars, attemptVars, sentVars, faultVars
<1>10. ClaimInv'
    BY DEF RecordOutcome, AfterDispatch, AfterRow, StatusOf, Classes,
       RetryAfter, ClaimInv, At, Goto, Current, Fanning, listVars, workVars,
       sentVars, faultVars
<1>11. InAppInv'
    BY DEF RecordOutcome, AfterDispatch, AfterRow, StatusOf, Classes,
       RetryAfter, Outcomes, InAppInv, ClaimInv, WorkInv, TypeOK, At, Goto,
       Arrives, Current, Fanning, Showing, InApp, Deliveries, Channels,
       localVars, listVars, workVars, deliveryVars, attemptVars, sentVars,
       faultVars
<1>12. ReachInv'
    <2>1. ASSUME NEW q \in Requests, Fanning(q)', pc'[q] \notin {"resolve", "reopen"},
                category[event'[q]] \in MandatoryCategories,
                NEW c \in DefaultChannels[category[event'[q]]]
         PROVE  \/ c \in channels'[q]
                \/ delivery_status'[<<event'[q], c>>] # "none"
                \/ pc'[q] = "channel_error" /\ c = channel'[q]
        BY <2>1, <1>2, <1>3, <1>6, <1>7, DefaultsTyped DEF ReachInv, WorkInv,
           Fanning, Deliveries
    <2>. QED
        BY <2>1, <1>2, <1>3, <1>6, <1>7 DEF ReachInv
<1>13. MandatoryReachesEveryChannel'
    BY <1>3, <1>6, DefaultsTyped DEF MandatoryReachesEveryChannel, Deliveries
<1>. QED
    BY <1>8, <1>9, <1>10, <1>11, <1>12, <1>13 DEF Inv

(* A channel that threw is recorded. *)
LEMMA RecordChannelErrorKeeps ==
    ASSUME Inv, NEW r \in Requests, RecordChannelError(r)
    PROVE  Inv'
<1> USE OutboxAssumption DEF Inv
<1>1. TypeOK'
    BY DEF RecordChannelError, AfterDispatch, AfterRow, TypeOK, Rows,
       Locations, Classes, DeliveryStatuses, OutboxStatuses, Outcomes, At,
       Goto, Current, Deliveries, Channels, Order, localVars, listVars,
       workVars, attemptVars, sentVars, faultVars
<1>2. WorkInv'
    BY DEF RecordChannelError, AfterDispatch, AfterRow, WorkInv, At, Goto,
       Current, Channels, Order, localVars, listVars, workVars, attemptVars,
       sentVars, faultVars
<1>3. ClaimInv'
    BY DEF RecordChannelError, AfterDispatch, AfterRow, ClaimInv, At, Goto,
       Current, Fanning, localVars, listVars, workVars, attemptVars, sentVars,
       faultVars
<1>4. InAppInv'
    BY DEF RecordChannelError, AfterDispatch, AfterRow, InAppInv, At, Goto,
       Current, Showing, InApp, localVars, listVars, workVars, attemptVars,
       sentVars, faultVars
<1>5. ReachInv'
    BY DEF RecordChannelError, AfterDispatch, AfterRow, ReachInv, InAppInv,
       ClaimInv, WorkInv, TypeOK, At, Goto, Arrives, Current, Fanning, Showing,
       InApp, Deliveries, localVars, listVars, workVars, deliveryVars,
       attemptVars, sentVars, faultVars
<1>6. MandatoryReachesEveryChannel'
    BY DEF RecordChannelError, AfterDispatch, AfterRow,
       MandatoryReachesEveryChannel, At, Goto, Current, localVars, listVars,
       workVars, attemptVars, sentVars, faultVars
<1>. QED
    BY <1>1, <1>2, <1>3, <1>4, <1>5, <1>6 DEF Inv

(* A retry claims a row of another channel. *)
LEMMA RetryClaimKeeps ==
    ASSUME Inv, NEW r \in Requests, RetryClaim(r)
    PROVE  Inv'
<1> USE OutboxAssumption DEF Inv
<1>1. PICK row \in rows[r] :
         /\ rows' = [rows EXCEPT ![r] = @ \ {row}]
         /\ \/ /\ delivery_status[row.delivery] = "failed"
               /\ delivery_status' = [delivery_status EXCEPT ![row.delivery] = "queued"]
               /\ event' = [event EXCEPT ![r] = row.delivery[1]]
               /\ channel' = [channel EXCEPT ![r] = row.delivery[2]]
               /\ tries' = [tries EXCEPT ![r] = row.attempt_count]
               /\ \/ pc' = [pc EXCEPT ![r] = "dispatch"] /\ UNCHANGED failed
                  \/ failed' = failed \union {r} /\ pc' = [pc EXCEPT ![r] = "done"]
            \/ /\ pc' = [pc EXCEPT ![r] = "done"] \/ pc' = [pc EXCEPT ![r] = "retry"]
               /\ UNCHANGED <<delivery_status, event, channel, tries, failed>>
    BY DEF RetryClaim, CanRetry, Goto
<1>2. pc[r] = "retry" /\ r \in retrying
    BY DEF RetryClaim, At, WorkInv
<1>3. /\ row.attempt_count \in 0..(MaxAttempts - 1)
      /\ row.delivery \in Deliveries
      /\ row.delivery[1] \in Events
      /\ row.delivery[2] \in Channels
      /\ row.delivery[2] # "in_app"
    <2>1. row \in Rows
        BY <1>1 DEF TypeOK
    <2>2. row.delivery \in Deliveries /\ row.attempt_count \in 0..(MaxAttempts - 1)
        BY <2>1 DEF Rows
    <2>. QED
        BY <2>2, <1>1 DEF WorkInv, Deliveries
<1>4. UNCHANGED <<outbox_status, next_retry_at, notifications, retrying, channels, outcome>>
    BY DEF RetryClaim, localVars, listVars, workVars, deliveryVars,
       attemptVars, sentVars, faultVars
<1>5. /\ pc'[r] \in {"retry", "dispatch", "done"}
      /\ pc'[r] = "dispatch" => event'[r] \in Events /\ channel'[r] \in Channels /\ channel'[r] # "in_app"
      /\ failed' = {} => failed = {}
    BY <1>1, <1>2, <1>3 DEF TypeOK
<1>6. \A q \in Requests : q # r =>
         pc'[q] = pc[q] /\ event'[q] = event[q] /\ channel'[q] = channel[q] /\ rows'[q] = rows[q]
    BY <1>1 DEF TypeOK
<1>7. /\ \A d \in Deliveries : delivery_status'[d] = "none" <=> delivery_status[d] = "none"
    BY <1>1, <1>3 DEF TypeOK
<1>8. \A q \in Requests :
         /\ Fanning(q)' <=> Fanning(q)
         /\ Showing(q)' <=> Showing(q)
         /\ Fanning(q) \/ Showing(q) => q # r
    BY <1>2, <1>4, <1>5, <1>6 DEF Fanning, Showing
<1>9. \A x \in rows'[r] : x.delivery[2] # "in_app"
    BY <1>1 DEF WorkInv
<1>10. TypeOK'
    <2>1. delivery_status' \in [Deliveries -> DeliveryStatuses \union {"none"}]
        BY SMTT(30), <1>1, <1>3 DEF TypeOK, DeliveryStatuses
    <2>2. pc' \in [Requests -> Locations]
        BY <1>1 DEF TypeOK, Locations
    <2>3. rows' \in [Requests -> SUBSET Rows]
        BY <1>1 DEF TypeOK
    <2>4. event' \in [Requests -> Events \union {NULL}]
        BY <1>1, <1>3 DEF TypeOK
    <2>5. channel' \in [Requests -> Channels \union {NULL}]
        BY <1>1, <1>3 DEF TypeOK
    <2>6. tries' \in [Requests -> 0..(MaxAttempts - 1)]
        BY <1>1, <1>3 DEF TypeOK
    <2>7. failed' \in SUBSET Requests
        BY <1>1 DEF TypeOK
    <2>. QED
        BY <2>1, <2>2, <2>3, <2>4, <2>5, <2>6, <2>7 DEF RetryClaim, TypeOK,
           localVars, listVars, workVars, deliveryVars, attemptVars, sentVars,
           faultVars
<1>11. WorkInv'
    BY <1>2, <1>4, <1>5, <1>6, <1>9 DEF WorkInv
<1>12. ClaimInv'
    BY <1>4, <1>6, <1>8 DEF ClaimInv
<1>13. InAppInv'
    <2>1. \A e \in Events : InApp(e) \in Deliveries
        BY DEF InApp, Deliveries, Channels, Order
    <2>2. \A q \in Requests : Showing(q)' \/ pc'[q] = "mark" =>
            /\ Showing(q)' <=> Showing(q)
            /\ pc'[q] = pc[q] /\ event'[q] = event[q] /\ event[q] \in Events
        BY <1>5, <1>6, <1>8 DEF Showing, WorkInv
    <2>. QED
        BY <2>1, <2>2, <1>4, <1>7 DEF InAppInv
<1>14. ReachInv'
    <2>1. ASSUME NEW q \in Requests, Fanning(q)', pc'[q] \notin {"resolve", "reopen"},
                category[event'[q]] \in MandatoryCategories,
                NEW c \in DefaultChannels[category[event'[q]]]
         PROVE  \/ c \in channels'[q]
                \/ delivery_status'[<<event'[q], c>>] # "none"
                \/ pc'[q] = "channel_error" /\ c = channel'[q]
        BY <2>1, <1>4, <1>6, <1>7, <1>8, DefaultsTyped DEF ReachInv, WorkInv,
           Fanning, Deliveries
    <2>2. ASSUME failed' = {} PROVE \A q \in Requests : pc'[q] \notin {"channel_error", "reopen", "retry_error"}
        BY <2>2, <1>5, <1>6 DEF ReachInv
    <2>3. ASSUME failed' = {}, NEW e \in Events, delivery_status'[InApp(e)] # "none"
         PROVE  notifications'[e] = 1 \/ \E q \in Requests : Showing(q)' /\ event'[q] = e
        BY <2>3, <1>4, <1>5, <1>6, <1>7, <1>8 DEF ReachInv, InApp, Deliveries,
           Channels, Order
    <2>. QED
        BY <2>1, <2>2, <2>3 DEF ReachInv
<1>15. MandatoryReachesEveryChannel'
    BY <1>4, <1>7, <1>5, DefaultsTyped DEF MandatoryReachesEveryChannel,
       Deliveries
<1>. QED
    BY <1>10, <1>11, <1>12, <1>13, <1>14, <1>15 DEF Inv

(* A retry that threw is recorded. *)
LEMMA RecordRetryErrorKeeps ==
    ASSUME Inv, NEW r \in Requests, RecordRetryError(r)
    PROVE  Inv'
<1> USE OutboxAssumption DEF Inv
<1>1. TypeOK'
    BY DEF RecordRetryError, AfterRow, TypeOK, Rows, Locations, Classes,
       DeliveryStatuses, OutboxStatuses, Outcomes, At, Goto, Current,
       Deliveries, Channels, Order, localVars, listVars, workVars, sentVars,
       faultVars
<1>2. WorkInv'
    BY DEF RecordRetryError, AfterRow, WorkInv, At, Goto, Current, Channels,
       Order, localVars, listVars, workVars, sentVars, faultVars
<1>3. ClaimInv'
    BY DEF RecordRetryError, AfterRow, ClaimInv, At, Goto, Current, Fanning,
       localVars, listVars, workVars, sentVars, faultVars
<1>4. InAppInv'
    BY DEF RecordRetryError, AfterRow, InAppInv, At, Goto, Current, Showing,
       InApp, localVars, listVars, workVars, sentVars, faultVars
<1>5. ReachInv'
    BY DEF RecordRetryError, AfterRow, ReachInv, At, Goto, Current, Fanning,
       Showing, InApp, localVars, listVars, workVars, sentVars, faultVars
<1>6. MandatoryReachesEveryChannel'
    BY DEF RecordRetryError, AfterRow, MandatoryReachesEveryChannel, At, Goto,
       Current, localVars, listVars, workVars, sentVars, faultVars
<1>. QED
    BY <1>1, <1>2, <1>3, <1>4, <1>5, <1>6 DEF Inv

(* Time brings a retry. *)
LEMMA RetryComesDueKeeps ==
    ASSUME Inv, NEW d \in Deliveries, RetryComesDue(d)
    PROVE  Inv'
<1> USE OutboxAssumption DEF Inv
<1>1. TypeOK'
    BY DEF RetryComesDue, TypeOK, Rows, Locations, Classes, DeliveryStatuses,
       OutboxStatuses, Outcomes, Deliveries, Channels, Order, localVars,
       listVars, workVars, sentVars, faultVars
<1>2. WorkInv'
    BY DEF RetryComesDue, WorkInv, Deliveries, Channels, Order, localVars,
       listVars, workVars, sentVars, faultVars
<1>3. ClaimInv'
    BY DEF RetryComesDue, ClaimInv, Fanning, Deliveries, Channels, Order,
       localVars, listVars, workVars, sentVars, faultVars
<1>4. InAppInv'
    BY DEF RetryComesDue, InAppInv, Showing, InApp, Deliveries, Channels,
       Order, localVars, listVars, workVars, sentVars, faultVars
<1>5. ReachInv'
    BY DEF RetryComesDue, ReachInv, Fanning, Showing, InApp, Deliveries,
       Channels, Order, localVars, listVars, workVars, sentVars, faultVars
<1>6. MandatoryReachesEveryChannel'
    BY DEF RetryComesDue, MandatoryReachesEveryChannel, Deliveries, Channels,
       Order, localVars, listVars, workVars, sentVars, faultVars
<1>. QED
    BY <1>1, <1>2, <1>3, <1>4, <1>5, <1>6 DEF Inv

(* A statement that throws leads to its handler. *)
LEMMA StatementFailsKeeps ==
    ASSUME Inv, NEW r \in Requests, StatementFails(r)
    PROVE  Inv'
<1> USE OutboxAssumption DEF Inv
<1>1. pc'[r] \notin {"dispatch", "mark"} /\ \A q \in Requests : q # r => pc'[q] = pc[q]
    BY DEF StatementFails, Goto, Handler, TypeOK, Locations
<1>2. UNCHANGED <<delivery_status, next_retry_at, notifications, retrying, event, channels, channel>>
    BY DEF StatementFails, localVars, listVars, workVars, deliveryVars,
       attemptVars, sentVars, faultVars
<1>3. \A q \in Requests : Showing(q)' => Showing(q)
    BY <1>1, <1>2 DEF Showing
<1>4. TypeOK'
    BY DEF StatementFails, Handler, TypeOK, Rows, Locations, Classes,
       DeliveryStatuses, OutboxStatuses, Outcomes, Goto, Deliveries, Channels,
       Order, localVars, listVars, workVars, deliveryVars, attemptVars,
       sentVars
<1>5. WorkInv'
    BY DEF StatementFails, Handler, WorkInv, TypeOK, Locations, At, Goto,
       Arrives, Current, Fanning, Channels, Order, localVars, listVars,
       workVars, deliveryVars, attemptVars, sentVars, faultVars
<1>6. ClaimInv'
    BY DEF StatementFails, Handler, ClaimInv, Goto, Fanning, localVars,
       listVars, workVars, deliveryVars, attemptVars, sentVars
<1>7. InAppInv'
    BY <1>1, <1>2, <1>3 DEF InAppInv
<1>8. ReachInv'
    BY DEF StatementFails, Handler, ReachInv, Goto, Fanning, Showing, InApp,
       localVars, listVars, workVars, deliveryVars, attemptVars, sentVars
<1>9. MandatoryReachesEveryChannel'
    BY DEF StatementFails, Handler, MandatoryReachesEveryChannel, Goto,
       localVars, listVars, workVars, deliveryVars, attemptVars, sentVars
<1>. QED
    BY <1>4, <1>5, <1>6, <1>7, <1>8, <1>9 DEF Inv

(* A Worker dies where it stands. *)
LEMMA CrashKeeps ==
    ASSUME Inv, NEW r \in Requests, Crash(r)
    PROVE  Inv'
<1> USE OutboxAssumption DEF Inv
<1>1. TypeOK'
    BY DEF Crash, TypeOK, Rows, Locations, Classes, DeliveryStatuses,
       OutboxStatuses, Outcomes, Deliveries, Channels, Order, localVars,
       listVars, workVars, deliveryVars, attemptVars, sentVars
<1>2. WorkInv'
    BY DEF Crash, WorkInv, Channels, Order, localVars, listVars, workVars,
       deliveryVars, attemptVars, sentVars
<1>3. ClaimInv'
    BY DEF Crash, ClaimInv, Fanning, localVars, listVars, workVars,
       deliveryVars, attemptVars, sentVars
<1>4. InAppInv'
    BY DEF Crash, InAppInv, Showing, InApp, localVars, listVars, workVars,
       deliveryVars, attemptVars, sentVars
<1>5. ReachInv'
    BY DEF Crash, ReachInv, Fanning, Showing, InApp, localVars, listVars,
       workVars, deliveryVars, attemptVars, sentVars
<1>6. MandatoryReachesEveryChannel'
    BY DEF Crash, MandatoryReachesEveryChannel, localVars, listVars, workVars,
       deliveryVars, attemptVars, sentVars
<1>. QED
    BY <1>1, <1>2, <1>3, <1>4, <1>5, <1>6 DEF Inv

-----------------------------------------------------------------------------
(* Every step keeps the invariant. *)
LEMMA NextKeeps == Inv /\ [Next]_vars => Inv'
<1> SUFFICES ASSUME Inv, [Next]_vars PROVE Inv'
    OBVIOUS
<1>1. ASSUME NEW r \in Requests, Begin(r) PROVE Inv'
    BY <1>1, EnqueueKeeps, StartBatchKeeps, StartRetryKeeps DEF Begin
<1>2. ASSUME NEW r \in Requests, Continue(r) PROVE Inv'
    BY <1>2, ClaimKeeps, ResolveKeeps, InsertDeliveryKeeps, FinishEventKeeps,
       ReopenKeeps, DispatchInAppKeeps, MarkDeliveredKeeps,
       DispatchViaProviderKeeps, RecordOutcomeKeeps, RecordChannelErrorKeeps,
       RetryClaimKeeps, RecordRetryErrorKeeps DEF Continue
<1>3. ASSUME NEW r \in Requests, StatementFails(r) \/ Crash(r) PROVE Inv'
    BY <1>3, StatementFailsKeeps, CrashKeeps
<1>4. ASSUME NEW d \in Deliveries, RetryComesDue(d) PROVE Inv'
    BY <1>4, RetryComesDueKeeps
<1>5. CASE UNCHANGED vars
    <2> USE <1>5 DEF vars, localVars, listVars, workVars, deliveryVars, attemptVars,
            sentVars, faultVars, Inv
    <2>1. TypeOK' /\ WorkInv' /\ ClaimInv'
        BY DEF TypeOK, WorkInv, ClaimInv, Fanning
    <2>2. InAppInv' /\ ReachInv' /\ MandatoryReachesEveryChannel'
        BY DEF InAppInv, ReachInv, MandatoryReachesEveryChannel, Fanning,
           Showing
    <2>. QED
        BY <2>1, <2>2
<1>. QED
    BY <1>1, <1>2, <1>3, <1>4, <1>5 DEF Next

(* The invariant holds throughout. *)
THEOREM Invariance == Spec => []Inv
BY InitInv, NextKeeps, PTL DEF Spec

(* Every variable keeps to the values the tables and the code allow. *)
THEOREM TypeCorrectness == Spec => []TypeOK
<1>1. Inv => TypeOK
    BY DEF Inv
<1>. QED
    BY <1>1, Invariance, PTL

(* The customer sees an event at most once, however many requests enqueue  *)
(* it, passes fan it out again, statements fail and Workers die.           *)
THEOREM EventsAreShownOnce == Spec => []InAppOnce
<1>1. Inv => InAppOnce
    BY DEF Inv, InAppInv, InAppOnce
<1>. QED
    BY <1>1, Invariance, PTL

(* A processed mandatory event has a delivery for every default channel,   *)
(* and is seen by the customer if no statement failed.                     *)
THEOREM MandatoryEventsReachEveryChannel == Spec => []MandatoryReachesEveryChannel
<1>1. Inv => MandatoryReachesEveryChannel
    BY DEF Inv
<1>. QED
    BY <1>1, Invariance, PTL

-----------------------------------------------------------------------------
(* The account of what is sent.                                            *)

(* A request may still mark a delivery 'failed' out of turn: it has not     *)
(* begun, or the delivery is on its lists, or in its hands.                *)
MayMark(r, d) ==
    \/ pc[r] = "idle"
    \/ d[1] \in batch[r]
    \/ \E row \in rows[r] : row.delivery = d
    \/ pc[r] = "resolve" /\ event[r] = d[1]
    \/ /\ pc[r] \in {"next_channel", "dispatch", "mark", "record", "channel_error"}
       /\ r \notin retrying /\ event[r] = d[1] /\ d[2] \in channels[r]
    \/ /\ pc[r] \in {"dispatch", "mark", "record", "channel_error", "retry_error"}
       /\ Current(r) = d

(* The requests whose failure has made what use it could of a delivery.    *)
Spent(d) == {r \in failed : ~MayMark(r, d)}

(* A request works on a delivery; what it sends may yet be accepted, or     *)
(* have been refused; or it has been sent, and the row does not show it.   *)
Works(r, d) == pc[r] \in {"dispatch", "mark", "record"} /\ Current(r) = d

MaySend(r, d) ==
    /\ pc[r] = "dispatch" \/ (pc[r] = "record" /\ outcome[r] # "delivered")
    /\ Current(r) = d

HasSent(r, d) ==
    /\ pc[r] = "mark" \/ (pc[r] = "record" /\ outcome[r] = "delivered")
    /\ Current(r) = d

Senders(d) == {r \in Requests : MaySend(r, d)}

(* A request comes to an event, a channel or a row once, a retry pass does  *)
(* nothing else, and an error is noted.                                    *)
OnceInv ==
    \A r \in Requests :
        /\ pc[r] = "idle" => r \notin retrying /\ batch[r] = {}
        /\ r \in retrying => batch[r] = {}
        /\ r \notin retrying => rows[r] = {}
        /\ Fanning(r) => event[r] \notin batch[r]
        /\ Fanning(r) /\ pc[r] \in {"dispatch", "mark", "record", "channel_error"} =>
              channel[r] \notin channels[r]
        /\ \A x, y \in rows[r] : x.delivery = y.delivery => x = y
        /\ pc[r] \in {"dispatch", "record", "retry_error"} =>
              \A row \in rows[r] : row.delivery # Current(r)
        /\ pc[r] \in {"channel_error", "retry_error"} => r \in failed

(* Each message a provider accepted, or may accept, was allowed by the      *)
(* INSERT of the delivery or by the failure of a request of its own.       *)
AllowedAt(d) ==
    /\ d[2] = "in_app" => accepted[d] = 0
    /\ d[2] # "in_app" =>
          /\ accepted[d] + Cardinality(Senders(d)) <=
                Cardinality(Spent(d)) + (IF delivery_status[d] = "failed" THEN 0 ELSE 1)
          /\ delivery_status[d] = "none" => accepted[d] = 0 /\ Senders(d) = {}

(* A queued delivery is in the hands of one request. *)
ServedAt(d) ==
    failed = {} =>
        /\ \A r, q \in Requests : Works(r, d) /\ Works(q, d) => r = q
        /\ delivery_status[d] = "queued" <=> \E r \in Requests : Works(r, d)

(* What was sent shows, or is about to. *)
ToldAt(d) ==
    /\ delivery_status[d] = "delivered" => Sent(d)
    /\ \A r \in Requests : HasSent(r, d) => Sent(d)
    /\ failed = {} /\ Sent(d) =>
          delivery_status[d] = "delivered" \/ \E r \in Requests : HasSent(r, d)

SentInv ==
    /\ OnceInv
    /\ \A d \in Deliveries : AllowedAt(d) /\ ServedAt(d) /\ ToldAt(d)

-----------------------------------------------------------------------------
(* What a step of a request does to a delivery.                            *)

(* The other requests stay as they are, and nothing is given back to this. *)
OthersKept(r) ==
    /\ failed \subseteq failed'
    /\ \A q \in Requests \ {r} :
          /\ pc'[q] = pc[q] /\ event'[q] = event[q] /\ channel'[q] = channel[q]
          /\ channels'[q] = channels[q] /\ batch'[q] = batch[q] /\ rows'[q] = rows[q]
          /\ outcome'[q] = outcome[q]
          /\ q \in retrying' <=> q \in retrying
          /\ q \in failed' <=> q \in failed

SentKept(d) ==
    /\ accepted'[d] = accepted[d]
    /\ d[2] = "in_app" => notifications'[d[1]] = notifications[d[1]]

Untouched(r, d) ==
    /\ SentKept(d)
    /\ delivery_status'[d] = delivery_status[d]
    /\ MaySend(r, d)' <=> MaySend(r, d)
    /\ Works(r, d)' <=> Works(r, d)
    /\ HasSent(r, d)' <=> HasSent(r, d)

Taken(r, d) ==
    /\ SentKept(d)
    /\ delivery_status[d] \in {"none", "failed"} /\ delivery_status'[d] = "queued"
    /\ ~HasSent(r, d) /\ ~HasSent(r, d)'
    /\ Works(r, d)' \/ r \in failed'

Shown(r, d) ==
    /\ d[2] = "in_app"
    /\ notifications'[d[1]] > 0 /\ accepted'[d] = accepted[d]
    /\ delivery_status'[d] = delivery_status[d]
    /\ Works(r, d) /\ Works(r, d)' /\ HasSent(r, d)'

Accepted(r, d) ==
    /\ d[2] # "in_app"
    /\ accepted'[d] = accepted[d] + 1
    /\ delivery_status'[d] = delivery_status[d]
    /\ MaySend(r, d) /\ ~MaySend(r, d)'
    /\ Works(r, d) /\ Works(r, d)' /\ HasSent(r, d)'

Recorded(r, d) ==
    /\ SentKept(d)
    /\ Works(r, d) /\ ~Works(r, d)' /\ ~MaySend(r, d)' /\ ~HasSent(r, d)'
    /\ \/ HasSent(r, d) /\ delivery_status'[d] = "delivered"
       \/ MaySend(r, d) /\ ~HasSent(r, d) /\ delivery_status'[d] \in {"failed", "unavailable"}

Spoilt(r, d) ==
    /\ SentKept(d)
    /\ r \in failed /\ MayMark(r, d) /\ ~MayMark(r, d)'
    /\ delivery_status'[d] = "failed"
    /\ ~MaySend(r, d)' /\ ~HasSent(r, d)'

Dropped(r, d) ==
    /\ SentKept(d)
    /\ r \in failed'
    /\ delivery_status'[d] = delivery_status[d]
    /\ MaySend(r, d)' => MaySend(r, d)
    /\ ~HasSent(r, d)'

Effect(r, d) ==
    /\ MayMark(r, d)' => MayMark(r, d)
    /\ \/ Untouched(r, d)
       \/ Taken(r, d)
       \/ Shown(r, d)
       \/ Accepted(r, d)
       \/ Recorded(r, d)
       \/ Spoilt(r, d)
       \/ Dropped(r, d)

-----------------------------------------------------------------------------
(* What is not this request's stays as it is. *)
LEMMA OthersStay ==
    ASSUME NEW r \in Requests, OthersKept(r), NEW q \in Requests \ {r}, NEW d
    PROVE  /\ MayMark(q, d)' <=> MayMark(q, d)
           /\ MaySend(q, d)' <=> MaySend(q, d)
           /\ Works(q, d)' <=> Works(q, d)
           /\ HasSent(q, d)' <=> HasSent(q, d)
BY DEF OthersKept, MayMark, MaySend, Works, HasSent, Current

(* Sets of requests are counted. *)
LEMMA Counted ==
    ASSUME NEW X \in SUBSET Requests, NEW Y \in SUBSET X
    PROVE  /\ Cardinality(X) \in Nat /\ Cardinality(Y) \in Nat
           /\ Cardinality(Y) <= Cardinality(X)
<1>1. MaxRequests \in Int /\ 1 \in Int
    BY OutboxAssumption
<1>2. IsFiniteSet(Requests)
    BY <1>1, FS_Interval DEF Requests
<1>3. IsFiniteSet(X)
    BY <1>2, FS_Subset
<1>4. IsFiniteSet(Y) /\ Cardinality(Y) <= Cardinality(X)
    BY <1>3, FS_Subset
<1>. QED
    BY <1>3, <1>4, FS_CardinalityType

LEMMA CountedWith ==
    ASSUME NEW X \in SUBSET Requests, NEW r
    PROVE  /\ Cardinality(X \union {r}) = IF r \in X THEN Cardinality(X) ELSE Cardinality(X) + 1
           /\ Cardinality(X \ {r}) = IF r \in X THEN Cardinality(X) - 1 ELSE Cardinality(X)
<1>1. MaxRequests \in Int /\ 1 \in Int
    BY OutboxAssumption
<1>2. IsFiniteSet(Requests)
    BY <1>1, FS_Interval DEF Requests
<1>3. IsFiniteSet(X)
    BY <1>2, FS_Subset
<1>. QED
    BY <1>3, FS_AddElement, FS_RemoveElement

(* The account of a delivery balances after any such effect. *)
LEMMA EffectKeepsAllowed ==
    ASSUME TypeOK, TypeOK', NEW r \in Requests, NEW d \in Deliveries,
           OthersKept(r), Effect(r, d), AllowedAt(d)
    PROVE  AllowedAt(d)'
<1> DEFINE P == Senders(d)
           Q == Senders(d)'
           S == Spent(d)
           T == Spent(d)'
           a == accepted[d]
           b == accepted'[d]
<1>1. P \in SUBSET Requests /\ Q \in SUBSET Requests /\ S \in SUBSET Requests /\ T \in SUBSET Requests
    BY DEF Senders, Spent, TypeOK
<1>2. S \subseteq T
    <2>1. \A q \in Requests : MayMark(q, d)' => MayMark(q, d)
        BY OthersStay DEF Effect
    <2>2. failed \subseteq failed' /\ failed \subseteq Requests
        BY DEF OthersKept, TypeOK
    <2>. QED
        BY <2>1, <2>2 DEF Spent
<1>3. P \ {r} = Q \ {r}
    BY OthersStay DEF Senders
<1>4. (r \in P <=> MaySend(r, d)) /\ (r \in Q <=> MaySend(r, d)')
    BY DEF Senders
<1>5. /\ Cardinality(P) \in Nat /\ Cardinality(Q) \in Nat
      /\ Cardinality(S) \in Nat /\ Cardinality(T) \in Nat
      /\ Cardinality(S) <= Cardinality(T)
    BY <1>1, <1>2, Counted
<1>6. /\ Q \subseteq P => Cardinality(Q) <= Cardinality(P)
      /\ Cardinality(Q) <= Cardinality(P) + 1
      /\ r \in P /\ r \notin Q => Cardinality(Q) = Cardinality(P) - 1
    <2>1. Q \subseteq P => Cardinality(Q) <= Cardinality(P)
        BY <1>1, Counted
    <2>2. /\ Cardinality(P \ {r}) = IF r \in P THEN Cardinality(P) - 1 ELSE Cardinality(P)
          /\ Cardinality(Q \ {r}) = IF r \in Q THEN Cardinality(Q) - 1 ELSE Cardinality(Q)
        BY <1>1, CountedWith
    <2>. HIDE DEF P, Q
    <2>. QED
        BY <2>1, <2>2, <1>3, <1>5
<1>7. a \in Nat /\ b \in Nat
    BY DEF TypeOK
<1>8. ASSUME d[2] # "in_app"
      PROVE  /\ b + Cardinality(Q) <=
                   Cardinality(T) + (IF delivery_status'[d] = "failed" THEN 0 ELSE 1)
             /\ delivery_status'[d] = "none" => b = 0 /\ Q = {}
    <2>1. /\ a + Cardinality(P) <=
                Cardinality(S) + (IF delivery_status[d] = "failed" THEN 0 ELSE 1)
          /\ delivery_status[d] = "none" => a = 0 /\ P = {}
        BY <1>8 DEF AllowedAt
    <2>2. delivery_status[d] = "none" => Cardinality(P) = 0
        BY <2>1, FS_EmptySet
    <2>3. Q \subseteq P \/ (MaySend(r, d)' /\ ~MaySend(r, d))
        BY <1>3, <1>4
    <2>. HIDE DEF P, Q, S, T, a, b
    <2>4. CASE Untouched(r, d) \/ Dropped(r, d)
        <3>1. b = a /\ delivery_status'[d] = delivery_status[d] /\ Q \subseteq P
            BY <2>3, <2>4 DEF Untouched, Dropped, SentKept, a, b
        <3>. QED
            BY <3>1, <2>1, <1>5, <1>6, <1>7
    <2>5. CASE Taken(r, d)
        <3>1. b = a /\ delivery_status'[d] = "queued" /\ delivery_status[d] \in {"none", "failed"}
            BY <2>5 DEF Taken, SentKept, a, b
        <3>. QED
            BY <3>1, <2>1, <2>2, <1>5, <1>6, <1>7
    <2>6. CASE Shown(r, d)
        BY <1>8, <2>6 DEF Shown
    <2>7. CASE Accepted(r, d)
        <3>1. b = a + 1 /\ delivery_status'[d] = delivery_status[d] /\ r \in P /\ r \notin Q
            BY <2>7, <1>4 DEF Accepted, a, b
        <3>. QED
            BY <3>1, <2>1, <1>5, <1>6, <1>7
    <2>8. CASE Recorded(r, d)
        <3>1. /\ b = a /\ r \notin Q /\ Q \subseteq P
              /\ \/ delivery_status'[d] = "delivered"
                 \/ delivery_status'[d] \in {"failed", "unavailable"} /\ r \in P
            BY <2>8, <2>3, <1>4 DEF Recorded, SentKept, a, b
        <3>. QED
            BY <3>1, <2>1, <1>5, <1>6, <1>7
    <2>9. CASE Spoilt(r, d)
        <3>1. b = a /\ delivery_status'[d] = "failed" /\ Q \subseteq P
            BY <2>9, <2>3 DEF Spoilt, SentKept, a, b
        <3>2. Cardinality(T) >= Cardinality(S) + 1
            <4>1. r \notin S /\ r \in T
                BY <2>9 DEF Spoilt, Spent, OthersKept, S, T
            <4>2. Cardinality(S \union {r}) = Cardinality(S) + 1
                BY <4>1, <1>1, CountedWith
            <4>3. Cardinality(S \union {r}) <= Cardinality(T)
                BY <4>1, <1>1, <1>2, Counted
            <4>. QED
                BY <4>2, <4>3, <1>5
        <3>. QED
            BY <3>1, <3>2, <2>1, <1>5, <1>6, <1>7
    <2>. QED
        BY <2>4, <2>5, <2>6, <2>7, <2>8, <2>9 DEF Effect
<1>9. ASSUME d[2] = "in_app" PROVE b = 0
    BY <1>9 DEF AllowedAt, Effect, Untouched, Taken, Shown, Accepted, Recorded,
       Spoilt, Dropped, SentKept
<1>. QED
    BY <1>8, <1>9 DEF AllowedAt

(* A delivery is still served by one request at most. *)
LEMMA EffectKeepsServed ==
    ASSUME TypeOK, NEW r \in Requests, NEW d \in Deliveries,
           OthersKept(r), Effect(r, d), ServedAt(d)
    PROVE  ServedAt(d)'
<1> SUFFICES ASSUME failed' = {}
             PROVE  /\ \A p, q \in Requests : Works(p, d)' /\ Works(q, d)' => p = q
                    /\ delivery_status'[d] = "queued" <=> \E q \in Requests : Works(q, d)'
    BY DEF ServedAt
<1>1. failed = {}
    BY DEF OthersKept
<1>2. /\ \A p, q \in Requests : Works(p, d) /\ Works(q, d) => p = q
      /\ delivery_status[d] = "queued" <=> \E q \in Requests : Works(q, d)
    BY <1>1 DEF ServedAt
<1>3. \A q \in Requests : q # r => (Works(q, d)' <=> Works(q, d))
    BY OthersStay
<1>4. \/ (Works(r, d)' <=> Works(r, d)) /\ delivery_status'[d] = delivery_status[d]
      \/ delivery_status[d] # "queued" /\ Works(r, d)' /\ delivery_status'[d] = "queued"
      \/ Works(r, d) /\ ~Works(r, d)' /\ delivery_status'[d] # "queued"
    BY <1>1 DEF Effect, Untouched, Taken, Shown, Accepted, Recorded, Spoilt, Dropped
<1>. QED
    BY <1>2, <1>3, <1>4

(* What was sent still shows, or is about to. *)
LEMMA EffectKeepsTold ==
    ASSUME TypeOK, NEW r \in Requests, NEW d \in Deliveries,
           OthersKept(r), Effect(r, d), ServedAt(d), ToldAt(d)
    PROVE  ToldAt(d)'
<1>1. d \in Deliveries /\ d[1] \in Events /\ accepted[d] \in Nat /\ notifications[d[1]] \in Nat
    BY DEF TypeOK, Deliveries
<1>2. \A q \in Requests : q # r => (HasSent(q, d)' <=> HasSent(q, d))
    BY OthersStay
<1>3. /\ Sent(d) => Sent(d)'
      /\ SentKept(d) => (Sent(d)' <=> Sent(d))
      /\ Shown(r, d) \/ Accepted(r, d) => Sent(d)'
    BY <1>1 DEF Effect, Untouched, Taken, Shown, Accepted, Recorded, Spoilt, Dropped,
       SentKept, Sent
<1>4. /\ delivery_status'[d] = "delivered" => delivery_status[d] = "delivered" \/ HasSent(r, d)
      /\ HasSent(r, d)' => HasSent(r, d) \/ Shown(r, d) \/ Accepted(r, d)
    BY DEF Effect, Untouched, Taken, Shown, Accepted, Recorded, Spoilt, Dropped
<1>5. delivery_status'[d] = "delivered" => Sent(d)'
    BY <1>3, <1>4 DEF ToldAt
<1>6. ASSUME NEW q \in Requests, HasSent(q, d)' PROVE Sent(d)'
    BY <1>2, <1>3, <1>4, <1>6 DEF ToldAt
<1>7. ASSUME failed' = {}, Sent(d)'
      PROVE  delivery_status'[d] = "delivered" \/ \E q \in Requests : HasSent(q, d)'
    <2>1. failed = {}
        BY <1>7 DEF OthersKept
    <2>2. CASE Shown(r, d) \/ Accepted(r, d)
        BY <2>2 DEF Shown, Accepted
    <2>3. CASE Untouched(r, d) \/ Taken(r, d)
        BY <2>1, <2>3, <1>2, <1>3, <1>7 DEF Untouched, Taken, ToldAt
    <2>4. CASE Recorded(r, d)
        <3>1. \A q \in Requests : Works(q, d) => q = r
            BY <2>1, <2>4 DEF ServedAt, Recorded
        <3>2. \A q \in Requests : HasSent(q, d) => q = r
            BY <3>1 DEF HasSent, Works
        <3>3. delivery_status[d] = "queued"
            BY <2>1, <2>4 DEF ServedAt, Recorded
        <3>. QED
            BY <2>1, <2>4, <3>2, <3>3, <1>3, <1>7 DEF Recorded, ToldAt
    <2>5. CASE Spoilt(r, d) \/ Dropped(r, d)
        BY <2>1, <2>5, <1>7 DEF Spoilt, Dropped
    <2>. QED
        BY <2>2, <2>3, <2>4, <2>5 DEF Effect
<1>. QED
    BY <1>5, <1>6, <1>7 DEF ToldAt

-----------------------------------------------------------------------------
(* One lemma per action: what it does to the deliveries, and that requests  *)
(* come to each piece of work once.                                        *)
Accounted(r) ==
    /\ OthersKept(r)
    /\ \A d \in Deliveries : Effect(r, d)
    /\ OnceInv'

(* A step outside the dispatch of a delivery touches none. *)
LEMMA QuietStep ==
    ASSUME NEW r \in Requests, NEW d \in Deliveries,
           pc[r] \notin {"dispatch", "mark", "record"},
           pc'[r] \notin {"dispatch", "mark", "record"},
           UNCHANGED <<accepted, notifications, delivery_status>>
    PROVE  Untouched(r, d)
BY DEF Untouched, SentKept, MaySend, Works, HasSent

(* A request that enqueues had not begun. *)
LEMMA EnqueueAccounted ==
    ASSUME Inv, OnceInv, NEW r \in Requests, NEW e \in Events, Enqueue(r, e)
    PROVE  Accounted(r)
<1> USE DEF Inv
<1>1. OthersKept(r)
    BY DEF Enqueue, OthersKept, TypeOK, Goto, At, Arrives, localVars, listVars, workVars, deliveryVars, attemptVars, sentVars, faultVars
<1>2. OnceInv'
    BY DEF Enqueue, OnceInv, WorkInv, TypeOK, Fanning, Current, Goto, At, Arrives,
       localVars, listVars, workVars, deliveryVars, attemptVars, sentVars, faultVars
<1>3. ASSUME NEW d \in Deliveries PROVE Effect(r, d)
    <2>1. MayMark(r, d)' => MayMark(r, d)
        BY DEF Enqueue, MayMark, WorkInv, TypeOK, Current, Goto, At, Arrives,
           localVars, listVars, workVars, deliveryVars, attemptVars, sentVars, faultVars
    <2>2. Untouched(r, d)
        BY QuietStep DEF Enqueue, Goto, At, Arrives, TypeOK, localVars, listVars, workVars, deliveryVars, attemptVars, sentVars, faultVars
    <2>. QED
        BY <2>1, <2>2 DEF Effect
<1>. QED
    BY <1>1, <1>2, <1>3 DEF Accounted

(* A catch-up pass had not begun. *)
LEMMA StartBatchAccounted ==
    ASSUME Inv, OnceInv, NEW r \in Requests, StartBatch(r)
    PROVE  Accounted(r)
<1> USE DEF Inv
<1>1. OthersKept(r)
    BY DEF StartBatch, OthersKept, TypeOK, Goto, At, Arrives, localVars, listVars, workVars, deliveryVars, attemptVars, sentVars, faultVars
<1>2. OnceInv'
    BY DEF StartBatch, OnceInv, WorkInv, TypeOK, Fanning, Current, Goto, At, Arrives,
       localVars, listVars, workVars, deliveryVars, attemptVars, sentVars, faultVars
<1>3. ASSUME NEW d \in Deliveries PROVE Effect(r, d)
    <2>1. MayMark(r, d)' => MayMark(r, d)
        BY DEF StartBatch, MayMark, WorkInv, TypeOK, Current, Goto, At, Arrives,
           localVars, listVars, workVars, deliveryVars, attemptVars, sentVars, faultVars
    <2>2. Untouched(r, d)
        BY QuietStep DEF StartBatch, Goto, At, Arrives, TypeOK, localVars, listVars, workVars, deliveryVars, attemptVars, sentVars, faultVars
    <2>. QED
        BY <2>1, <2>2 DEF Effect
<1>. QED
    BY <1>1, <1>2, <1>3 DEF Accounted

(* A retry pass lists a delivery once. *)
LEMMA StartRetryAccounted ==
    ASSUME Inv, OnceInv, NEW r \in Requests, StartRetry(r)
    PROVE  Accounted(r)
<1> USE DEF Inv
<1>1. OthersKept(r)
    BY DEF StartRetry, OthersKept, TypeOK, Goto, At, Arrives, localVars, listVars, workVars, deliveryVars, attemptVars, sentVars, faultVars
<1>2. OnceInv'
    <2>1. \A x, y \in rows'[r] : x.delivery = y.delivery => x = y
        BY DEF StartRetry, TypeOK
    <2>2. pc[r] = "idle" /\ r \notin retrying /\ pc'[r] = "retry" /\ retrying' = retrying \union {r}
        BY DEF StartRetry, Arrives, At, Goto, OnceInv, TypeOK
    <2>3. batch[r] = {}
        BY <2>2 DEF OnceInv
    <2>. QED
        BY <2>1, <2>2, <2>3 DEF StartRetry, OnceInv, WorkInv, TypeOK, Fanning, Current, Goto,
           localVars, listVars, workVars, deliveryVars, attemptVars, sentVars, faultVars
<1>3. ASSUME NEW d \in Deliveries PROVE Effect(r, d)
    <2>1. MayMark(r, d)' => MayMark(r, d)
        BY DEF StartRetry, MayMark, WorkInv, TypeOK, Current, Goto, At, Arrives,
           localVars, listVars, workVars, deliveryVars, attemptVars, sentVars, faultVars
    <2>2. Untouched(r, d)
        BY QuietStep DEF StartRetry, Goto, At, Arrives, TypeOK, localVars, listVars, workVars, deliveryVars, attemptVars, sentVars, faultVars
    <2>. QED
        BY <2>1, <2>2 DEF Effect
<1>. QED
    BY <1>1, <1>2, <1>3 DEF Accounted

(* A claimed event leaves the batch. *)
LEMMA ClaimAccounted ==
    ASSUME Inv, OnceInv, NEW r \in Requests, ClaimOutboxEvent(r)
    PROVE  Accounted(r)
<1> USE DEF Inv
<1>1. OthersKept(r)
    BY DEF ClaimOutboxEvent, OthersKept, TypeOK, Goto, At, Arrives, localVars, listVars, workVars, deliveryVars, attemptVars, sentVars, faultVars
<1>2. OnceInv'
    BY DEF ClaimOutboxEvent, OnceInv, WorkInv, TypeOK, Fanning, Current, Goto, At, Arrives,
       localVars, listVars, workVars, deliveryVars, attemptVars, sentVars, faultVars
<1>3. ASSUME NEW d \in Deliveries PROVE Effect(r, d)
    <2>1. MayMark(r, d)' => MayMark(r, d)
        BY DEF ClaimOutboxEvent, MayMark, WorkInv, TypeOK, Current, Goto, At, Arrives,
           localVars, listVars, workVars, deliveryVars, attemptVars, sentVars, faultVars
    <2>2. Untouched(r, d)
        BY QuietStep DEF ClaimOutboxEvent, Goto, At, Arrives, TypeOK, localVars, listVars, workVars, deliveryVars, attemptVars, sentVars, faultVars
    <2>. QED
        BY <2>1, <2>2 DEF Effect
<1>. QED
    BY <1>1, <1>2, <1>3 DEF Accounted

(* The channels of an event are resolved when it is claimed. *)
LEMMA ResolveAccounted ==
    ASSUME Inv, OnceInv, NEW r \in Requests, Resolve(r)
    PROVE  Accounted(r)
<1> USE DEF Inv
<1>1. OthersKept(r)
    BY DEF Resolve, PossibleRows, OthersKept, TypeOK, Goto, At, Arrives, localVars, listVars, workVars, deliveryVars, attemptVars, sentVars, faultVars
<1>2. OnceInv'
    BY DEF Resolve, PossibleRows, OnceInv, WorkInv, TypeOK, Fanning, Current, Goto, At, Arrives,
       localVars, listVars, workVars, deliveryVars, attemptVars, sentVars, faultVars
<1>3. ASSUME NEW d \in Deliveries PROVE Effect(r, d)
    <2>1. MayMark(r, d)' => MayMark(r, d)
        BY DEF Resolve, PossibleRows, MayMark, WorkInv, TypeOK, Current, Goto, At, Arrives,
           localVars, listVars, workVars, deliveryVars, attemptVars, sentVars, faultVars
    <2>2. Untouched(r, d)
        BY QuietStep DEF Resolve, PossibleRows, Goto, At, Arrives, TypeOK, localVars, listVars, workVars, deliveryVars, attemptVars, sentVars, faultVars
    <2>. QED
        BY <2>1, <2>2 DEF Effect
<1>. QED
    BY <1>1, <1>2, <1>3 DEF Accounted

(* A finished event is out of hand. *)
LEMMA FinishEventAccounted ==
    ASSUME Inv, OnceInv, NEW r \in Requests, FinishEvent(r)
    PROVE  Accounted(r)
<1> USE DEF Inv
<1>1. OthersKept(r)
    BY DEF FinishEvent, AfterEvent, OthersKept, TypeOK, Goto, At, Arrives, localVars, listVars, workVars, deliveryVars, attemptVars, sentVars, faultVars
<1>2. OnceInv'
    BY DEF FinishEvent, AfterEvent, OnceInv, WorkInv, TypeOK, Fanning, Current, Goto, At, Arrives,
       localVars, listVars, workVars, deliveryVars, attemptVars, sentVars, faultVars
<1>3. ASSUME NEW d \in Deliveries PROVE Effect(r, d)
    <2>1. MayMark(r, d)' => MayMark(r, d)
        BY DEF FinishEvent, AfterEvent, MayMark, WorkInv, TypeOK, Current, Goto, At, Arrives,
           localVars, listVars, workVars, deliveryVars, attemptVars, sentVars, faultVars
    <2>2. Untouched(r, d)
        BY QuietStep DEF FinishEvent, AfterEvent, Goto, At, Arrives, TypeOK, localVars, listVars, workVars, deliveryVars, attemptVars, sentVars, faultVars
    <2>. QED
        BY <2>1, <2>2 DEF Effect
<1>. QED
    BY <1>1, <1>2, <1>3 DEF Accounted

(* So is one given back. *)
LEMMA ReopenAccounted ==
    ASSUME Inv, OnceInv, NEW r \in Requests, Reopen(r)
    PROVE  Accounted(r)
<1> USE DEF Inv
<1>1. OthersKept(r)
    BY DEF Reopen, AfterEvent, OthersKept, TypeOK, Goto, At, Arrives, localVars, listVars, workVars, deliveryVars, attemptVars, sentVars, faultVars
<1>2. OnceInv'
    BY DEF Reopen, AfterEvent, OnceInv, WorkInv, TypeOK, Fanning, Current, Goto, At, Arrives,
       localVars, listVars, workVars, deliveryVars, attemptVars, sentVars, faultVars
<1>3. ASSUME NEW d \in Deliveries PROVE Effect(r, d)
    <2>1. MayMark(r, d)' => MayMark(r, d)
        BY DEF Reopen, AfterEvent, MayMark, WorkInv, TypeOK, Current, Goto, At, Arrives,
           localVars, listVars, workVars, deliveryVars, attemptVars, sentVars, faultVars
    <2>2. Untouched(r, d)
        BY QuietStep DEF Reopen, AfterEvent, Goto, At, Arrives, TypeOK, localVars, listVars, workVars, deliveryVars, attemptVars, sentVars, faultVars
    <2>. QED
        BY <2>1, <2>2 DEF Effect
<1>. QED
    BY <1>1, <1>2, <1>3 DEF Accounted

(* The delivery of a channel is inserted once. *)
LEMMA InsertDeliveryAccounted ==
    ASSUME Inv, OnceInv, NEW r \in Requests, InsertDelivery(r)
    PROVE  Accounted(r)
<1> USE DEF Inv
<1>1. OthersKept(r)
    BY DEF InsertDelivery, IsNew, OthersKept, TypeOK, Goto, At, Arrives, localVars, listVars, workVars, deliveryVars, attemptVars, sentVars, faultVars
<1>2. OnceInv'
    BY DEF InsertDelivery, IsNew, OnceInv, WorkInv, TypeOK, Fanning, Current, Goto, At, Arrives,
       localVars, listVars, workVars, deliveryVars, attemptVars, sentVars, faultVars
<1>3. ASSUME NEW d \in Deliveries PROVE Effect(r, d)
    <2>1. MayMark(r, d)' => MayMark(r, d)
        BY DEF InsertDelivery, IsNew, MayMark, WorkInv, TypeOK, Current, Goto, At, Arrives,
           localVars, listVars, workVars, deliveryVars, attemptVars, sentVars, faultVars
    <2>2. PICK ch \in channels[r] :
             /\ channel' = [channel EXCEPT ![r] = ch]
             /\ \/ /\ delivery_status[<<event[r], ch>>] = "none"
                   /\ delivery_status' = [delivery_status EXCEPT ![<<event[r], ch>>] = "queued"]
                   /\ pc' = [pc EXCEPT ![r] = "dispatch"]
                \/ /\ pc' \in {pc, [pc EXCEPT ![r] = "channel_error"]}
                   /\ UNCHANGED delivery_status
        BY DEF InsertDelivery, IsNew, Goto
    <2>3. /\ pc[r] = "next_channel" /\ event' = event /\ SentKept(d)
          /\ UNCHANGED <<accepted, notifications>>
        BY DEF InsertDelivery, At, SentKept, localVars, listVars, workVars, deliveryVars, attemptVars, sentVars, faultVars
    <2>4. ~MaySend(r, d) /\ ~Works(r, d) /\ ~HasSent(r, d)
        BY <2>3 DEF MaySend, Works, HasSent
    <2>5. CASE pc'[r] = "dispatch"
        <3>1. ~HasSent(r, d)' /\ Current(r)' = <<event[r], ch>>
            BY <2>2, <2>3, <2>5 DEF HasSent, Current, TypeOK
        <3>2. /\ delivery_status[<<event[r], ch>>] = "none"
              /\ delivery_status' = [delivery_status EXCEPT ![<<event[r], ch>>] = "queued"]
            BY <2>2, <2>3, <2>5 DEF TypeOK
        <3>3. CASE d = <<event[r], ch>>
            <4>1. delivery_status[d] = "none" /\ delivery_status'[d] = "queued"
                BY <3>2, <3>3 DEF TypeOK
            <4>2. Works(r, d)'
                BY <2>5, <3>1, <3>3 DEF Works
            <4>. QED
                BY <2>1, <2>3, <2>4, <3>1, <4>1, <4>2 DEF Taken, Effect
        <3>4. CASE d # <<event[r], ch>>
            <4>1. delivery_status'[d] = delivery_status[d]
                BY <3>2, <3>4 DEF TypeOK
            <4>. QED
                BY <2>1, <2>3, <2>4, <2>5, <3>1, <3>4, <4>1
                   DEF Untouched, MaySend, Works, HasSent, Effect
        <3>. QED
            BY <2>1, <3>3, <3>4 DEF Effect
    <2>6. CASE pc'[r] # "dispatch"
        <3>1. pc'[r] \in {"next_channel", "channel_error"} /\ UNCHANGED delivery_status
            BY <2>2, <2>3, <2>6 DEF TypeOK
        <3>. QED
            BY <2>1, <2>3, <3>1, QuietStep DEF Effect
    <2>. QED
        BY <2>5, <2>6
<1>. QED
    BY <1>1, <1>2, <1>3 DEF Accounted

(* The application shows the event. *)
LEMMA DispatchInAppAccounted ==
    ASSUME Inv, OnceInv, NEW r \in Requests, DispatchInApp(r)
    PROVE  Accounted(r)
<1> USE DEF Inv
<1>1. OthersKept(r)
    BY DEF DispatchInApp, OthersKept, TypeOK, Goto, At, Arrives, localVars, listVars, workVars, deliveryVars, attemptVars, sentVars, faultVars
<1>2. OnceInv'
    BY DEF DispatchInApp, OnceInv, WorkInv, TypeOK, Fanning, Current, Goto, At, Arrives,
       localVars, listVars, workVars, deliveryVars, attemptVars, sentVars, faultVars
<1>3. ASSUME NEW d \in Deliveries PROVE Effect(r, d)
    <2>1. MayMark(r, d)' => MayMark(r, d)
        BY DEF DispatchInApp, MayMark, WorkInv, TypeOK, Current, Goto, At, Arrives,
           localVars, listVars, workVars, deliveryVars, attemptVars, sentVars, faultVars
    <2>2. Untouched(r, d) \/ Shown(r, d)
        BY DEF DispatchInApp, Untouched, Shown, SentKept, MaySend, Works, HasSent, WorkInv, InAppInv,
           Current, Deliveries, Goto, At, Arrives, TypeOK, localVars, listVars, workVars, deliveryVars, attemptVars, sentVars, faultVars
    <2>. QED
        BY <2>1, <2>2 DEF Effect
<1>. QED
    BY <1>1, <1>2, <1>3 DEF Accounted

(* It is marked. *)
LEMMA MarkDeliveredAccounted ==
    ASSUME Inv, OnceInv, NEW r \in Requests, MarkDelivered(r)
    PROVE  Accounted(r)
<1> USE DEF Inv
<1>1. OthersKept(r)
    BY DEF MarkDelivered, AfterDispatch, AfterRow, OthersKept, TypeOK, Goto, At, Arrives, localVars, listVars, workVars, deliveryVars, attemptVars, sentVars, faultVars
<1>2. OnceInv'
    BY DEF MarkDelivered, AfterDispatch, AfterRow, OnceInv, WorkInv, TypeOK, Fanning, Current, Goto, At, Arrives,
       localVars, listVars, workVars, deliveryVars, attemptVars, sentVars, faultVars
<1>3. ASSUME NEW d \in Deliveries PROVE Effect(r, d)
    <2>1. MayMark(r, d)' => MayMark(r, d)
        BY DEF MarkDelivered, AfterDispatch, AfterRow, MayMark, WorkInv, TypeOK, Current, Goto, At, Arrives,
           localVars, listVars, workVars, deliveryVars, attemptVars, sentVars, faultVars
    <2>2. Untouched(r, d) \/ Recorded(r, d)
        BY DEF MarkDelivered, AfterDispatch, AfterRow, Untouched, Recorded, SentKept, MaySend, Works, HasSent, WorkInv, InAppInv,
           Current, Deliveries, Goto, At, Arrives, TypeOK, localVars, listVars, workVars, deliveryVars, attemptVars, sentVars, faultVars
    <2>. QED
        BY <2>1, <2>2 DEF Effect
<1>. QED
    BY <1>1, <1>2, <1>3 DEF Accounted

(* A provider accepts a message, or refuses it. *)
LEMMA DispatchViaProviderAccounted ==
    ASSUME Inv, OnceInv, NEW r \in Requests, DispatchViaProvider(r)
    PROVE  Accounted(r)
<1> USE DEF Inv
<1>1. OthersKept(r)
    BY DEF DispatchViaProvider, OthersKept, TypeOK, Goto, At, Arrives, localVars, listVars, workVars, deliveryVars, attemptVars, sentVars, faultVars
<1>2. OnceInv'
    BY DEF DispatchViaProvider, OnceInv, WorkInv, TypeOK, Fanning, Current, Goto, At, Arrives,
       localVars, listVars, workVars, deliveryVars, attemptVars, sentVars, faultVars
<1>3. ASSUME NEW d \in Deliveries PROVE Effect(r, d)
    <2>1. MayMark(r, d)' => MayMark(r, d)
        BY DEF DispatchViaProvider, MayMark, WorkInv, TypeOK, Current, Goto, At, Arrives,
           localVars, listVars, workVars, deliveryVars, attemptVars, sentVars, faultVars
    <2>2. Untouched(r, d) \/ Accepted(r, d)
        <3>1. PICK o \in Outcomes :
                 /\ outcome' = [outcome EXCEPT ![r] = o]
                 /\ accepted' = IF o = "delivered"
                                THEN [accepted EXCEPT ![Current(r)] = @ + 1]
                                ELSE accepted
            BY DEF DispatchViaProvider
        <3>2. /\ pc[r] = "dispatch" /\ pc'[r] = "record" /\ outcome'[r] = o
              /\ Current(r)' = Current(r) /\ Current(r) \in Deliveries /\ channel[r] # "in_app"
              /\ UNCHANGED <<notifications, delivery_status>>
            BY SMTT(30), <3>1 DEF DispatchViaProvider, At, Goto, TypeOK, WorkInv, Current, Deliveries,
               localVars, listVars, workVars, deliveryVars, attemptVars, sentVars, faultVars
        <3>3. CASE o = "delivered" /\ d = Current(r)
            <4>1. accepted'[d] = accepted[d] + 1 /\ d[2] # "in_app"
                BY <3>1, <3>2, <3>3 DEF TypeOK, Current
            <4>. QED
                BY <3>2, <3>3, <4>1 DEF Accepted, MaySend, Works, HasSent
        <3>4. CASE ~(o = "delivered" /\ d = Current(r))
            <4>1. accepted'[d] = accepted[d]
                BY <3>1, <3>2, <3>4 DEF TypeOK
            <4>. QED
                BY <3>2, <3>4, <4>1 DEF Untouched, SentKept, MaySend, Works, HasSent
        <3>. QED
            BY <3>3, <3>4
    <2>. QED
        BY <2>1, <2>2 DEF Effect
<1>. QED
    BY <1>1, <1>2, <1>3 DEF Accounted

(* Its answer is recorded. *)
LEMMA RecordOutcomeAccounted ==
    ASSUME Inv, OnceInv, NEW r \in Requests, RecordOutcome(r)
    PROVE  Accounted(r)
<1> USE DEF Inv
<1>1. OthersKept(r)
    BY DEF RecordOutcome, AfterDispatch, AfterRow, OthersKept, TypeOK, Goto, At, Arrives, localVars, listVars, workVars, deliveryVars, attemptVars, sentVars, faultVars
<1>2. OnceInv'
    BY DEF RecordOutcome, AfterDispatch, AfterRow, OnceInv, WorkInv, TypeOK, Fanning, Current, Goto, At, Arrives,
       localVars, listVars, workVars, deliveryVars, attemptVars, sentVars, faultVars
<1>3. ASSUME NEW d \in Deliveries PROVE Effect(r, d)
    <2>1. MayMark(r, d)' => MayMark(r, d)
        BY DEF RecordOutcome, AfterDispatch, AfterRow, MayMark, WorkInv, TypeOK, Current, Goto, At, Arrives,
           localVars, listVars, workVars, deliveryVars, attemptVars, sentVars, faultVars
    <2>2. Untouched(r, d) \/ Recorded(r, d)
        BY DEF RecordOutcome, AfterDispatch, AfterRow, Untouched, Recorded, Outcomes, StatusOf, Classes, SentKept, MaySend, Works, HasSent, WorkInv, InAppInv,
           Current, Deliveries, Goto, At, Arrives, TypeOK, localVars, listVars, workVars, deliveryVars, attemptVars, sentVars, faultVars
    <2>. QED
        BY <2>1, <2>2 DEF Effect
<1>. QED
    BY <1>1, <1>2, <1>3 DEF Accounted

(* The error of a channel is noted by a request whose statement failed. *)
LEMMA RecordChannelErrorAccounted ==
    ASSUME Inv, OnceInv, NEW r \in Requests, RecordChannelError(r)
    PROVE  Accounted(r)
<1> USE DEF Inv
<1>1. OthersKept(r)
    BY DEF RecordChannelError, AfterDispatch, AfterRow, OthersKept, TypeOK, Goto, At, Arrives, localVars, listVars, workVars, deliveryVars, attemptVars, sentVars, faultVars
<1>2. OnceInv'
    BY DEF RecordChannelError, AfterDispatch, AfterRow, OnceInv, WorkInv, TypeOK, Fanning, Current, Goto, At, Arrives,
       localVars, listVars, workVars, deliveryVars, attemptVars, sentVars, faultVars
<1>3. ASSUME NEW d \in Deliveries PROVE Effect(r, d)
    <2>1. MayMark(r, d)' => MayMark(r, d)
        BY DEF RecordChannelError, AfterDispatch, AfterRow, MayMark, WorkInv, TypeOK, Current, Goto, At, Arrives,
           localVars, listVars, workVars, deliveryVars, attemptVars, sentVars, faultVars
    <2>2. /\ pc[r] = "channel_error" /\ pc'[r] = "next_channel" /\ r \notin retrying
          /\ delivery_status' = [delivery_status EXCEPT ![Current(r)] = "failed"]
          /\ Current(r) \in Deliveries
          /\ UNCHANGED <<accepted, notifications, batch, rows, retrying, event, channel, channels>>
        BY DEF RecordChannelError, At, Goto, AfterDispatch, AfterRow, WorkInv, TypeOK,
           Current, Deliveries, localVars, listVars, workVars, deliveryVars, attemptVars, sentVars, faultVars
    <2>3. SentKept(d) /\ ~MaySend(r, d)' /\ ~HasSent(r, d)'
        BY <2>2 DEF SentKept, MaySend, HasSent
    <2>4. CASE d = Current(r)
        <3>1. r \in failed /\ MayMark(r, d) /\ delivery_status'[d] = "failed"
            BY <2>2, <2>4 DEF OnceInv, MayMark, TypeOK
        <3>2. ~MayMark(r, d)'
            BY <2>2, <2>4 DEF MayMark, OnceInv, Fanning, Current
        <3>. QED
            BY <2>1, <2>3, <3>1, <3>2 DEF Spoilt, Effect
    <2>5. CASE d # Current(r)
        <3>1. delivery_status'[d] = delivery_status[d]
            BY <2>2, <2>5 DEF TypeOK
        <3>. QED
            BY <2>1, <2>2, <2>3, <3>1 DEF Untouched, Effect, MaySend, Works, HasSent
    <2>. QED
        BY <2>4, <2>5
<1>. QED
    BY <1>1, <1>2, <1>3 DEF Accounted

(* A retry pass takes a failed delivery from its list. *)
LEMMA RetryClaimAccounted ==
    ASSUME Inv, OnceInv, NEW r \in Requests, RetryClaim(r)
    PROVE  Accounted(r)
<1> USE DEF Inv
<1>1. OthersKept(r)
    BY DEF RetryClaim, CanRetry, OthersKept, TypeOK, Goto, At, Arrives,
       localVars, listVars, workVars, deliveryVars, attemptVars, sentVars, faultVars
<1>2. PICK row \in rows[r] :
         /\ rows' = [rows EXCEPT ![r] = @ \ {row}]
         /\ \/ /\ delivery_status[row.delivery] = "failed"
               /\ delivery_status' = [delivery_status EXCEPT ![row.delivery] = "queued"]
               /\ event' = [event EXCEPT ![r] = row.delivery[1]]
               /\ channel' = [channel EXCEPT ![r] = row.delivery[2]]
               /\ \/ pc' = [pc EXCEPT ![r] = "dispatch"]
                  \/ pc' = [pc EXCEPT ![r] = "done"] /\ r \in failed'
            \/ /\ pc' \in {[pc EXCEPT ![r] = "done"], [pc EXCEPT ![r] = "retry"]}
               /\ UNCHANGED <<delivery_status, event, channel>>
    BY DEF RetryClaim, CanRetry, Goto
<1>3. /\ pc[r] = "retry" /\ r \in retrying /\ row.delivery \in Deliveries
      /\ UNCHANGED <<accepted, notifications, batch, channels, retrying>>
      /\ failed \subseteq failed'
    BY DEF RetryClaim, At, WorkInv, TypeOK, Rows, localVars, listVars, workVars, deliveryVars, attemptVars, sentVars, faultVars
<1>4. pc'[r] = "dispatch" => Current(r)' = row.delivery
    BY <1>2, <1>3 DEF Current, Deliveries, TypeOK
<1>5. /\ rows'[r] = rows[r] \ {row} /\ pc'[r] \in {"dispatch", "done", "retry"}
      /\ \A q \in Requests : q # r => rows'[q] = rows[q]
    BY <1>2, <1>3 DEF TypeOK
<1>6. OnceInv'
    <2>1. ASSUME NEW q \in Requests, q # r
          PROVE  /\ pc'[q] = pc[q] /\ event'[q] = event[q] /\ channel'[q] = channel[q]
                 /\ rows'[q] = rows[q]
        BY <1>1, <2>1 DEF OthersKept
    <2>2. \A x \in rows'[r] : x.delivery # row.delivery
        BY <1>5 DEF OnceInv
    <2>. QED
        BY <1>3, <1>4, <1>5, <2>1, <2>2 DEF OnceInv, Fanning, Current
<1>7. ASSUME NEW d \in Deliveries PROVE Effect(r, d)
    <2>1. MayMark(r, d)' => MayMark(r, d)
        BY <1>3, <1>4, <1>5 DEF MayMark
    <2>2. SentKept(d) /\ ~MaySend(r, d) /\ ~Works(r, d) /\ ~HasSent(r, d) /\ ~HasSent(r, d)'
        BY <1>3, <1>5 DEF SentKept, MaySend, Works, HasSent
    <2>3. CASE UNCHANGED delivery_status /\ pc'[r] # "dispatch"
        BY <1>3, <1>5, <2>1, <2>3, QuietStep DEF Effect
    <2>4. CASE /\ delivery_status[row.delivery] = "failed"
               /\ delivery_status' = [delivery_status EXCEPT ![row.delivery] = "queued"]
               /\ pc'[r] = "dispatch" \/ (pc'[r] = "done" /\ r \in failed')
        <3>1. CASE d = row.delivery
            BY <1>3, <1>4, <2>1, <2>2, <2>4, <3>1 DEF Taken, Works, TypeOK, Effect
        <3>2. CASE d # row.delivery
            BY <1>3, <1>4, <2>2, <2>4, <3>2, <2>1 DEF Untouched, MaySend, Works, TypeOK, Effect
        <3>. QED
            BY <3>1, <3>2
    <2>. QED
        BY <1>2, <1>3, <2>3, <2>4 DEF TypeOK
<1>. QED
    BY <1>1, <1>6, <1>7 DEF Accounted

(* The error of a retry is noted by a pass whose statement failed. *)
LEMMA RecordRetryErrorAccounted ==
    ASSUME Inv, OnceInv, NEW r \in Requests, RecordRetryError(r)
    PROVE  Accounted(r)
<1> USE DEF Inv
<1>1. OthersKept(r)
    BY DEF RecordRetryError, AfterRow, OthersKept, TypeOK, Goto, At, Arrives, localVars, listVars, workVars, deliveryVars, attemptVars, sentVars, faultVars
<1>2. OnceInv'
    BY DEF RecordRetryError, AfterRow, OnceInv, WorkInv, TypeOK, Fanning, Current, Goto, At, Arrives,
       localVars, listVars, workVars, deliveryVars, attemptVars, sentVars, faultVars
<1>3. ASSUME NEW d \in Deliveries PROVE Effect(r, d)
    <2>1. MayMark(r, d)' => MayMark(r, d)
        BY DEF RecordRetryError, AfterRow, MayMark, WorkInv, TypeOK, Current, Goto, At, Arrives,
           localVars, listVars, workVars, deliveryVars, attemptVars, sentVars, faultVars
    <2>2. /\ pc[r] = "retry_error" /\ pc'[r] \in {"retry", "done"} /\ r \in retrying
          /\ delivery_status' = [delivery_status EXCEPT ![Current(r)] = "failed"]
          /\ Current(r) \in Deliveries
          /\ UNCHANGED <<accepted, notifications, batch, rows, retrying, event, channel, channels>>
        BY DEF RecordRetryError, At, Goto, AfterRow, WorkInv, TypeOK,
           Current, Deliveries, localVars, listVars, workVars, deliveryVars, attemptVars, sentVars, faultVars
    <2>3. SentKept(d) /\ ~MaySend(r, d)' /\ ~HasSent(r, d)'
        BY <2>2 DEF SentKept, MaySend, HasSent
    <2>4. CASE d = Current(r)
        <3>1. r \in failed /\ MayMark(r, d) /\ delivery_status'[d] = "failed"
            BY <2>2, <2>4 DEF OnceInv, MayMark, TypeOK
        <3>2. ~MayMark(r, d)'
            BY <2>2, <2>4 DEF MayMark, OnceInv, Current
        <3>. QED
            BY <2>1, <2>3, <3>1, <3>2 DEF Spoilt, Effect
    <2>5. CASE d # Current(r)
        <3>1. delivery_status'[d] = delivery_status[d]
            BY <2>2, <2>5 DEF TypeOK
        <3>. QED
            BY <2>1, <2>2, <2>3, <3>1 DEF Untouched, Effect, MaySend, Works, HasSent
    <2>. QED
        BY <2>4, <2>5
<1>. QED
    BY <1>1, <1>2, <1>3 DEF Accounted

(* A statement that throws drops what its request had in hand. *)
LEMMA StatementFailsAccounted ==
    ASSUME Inv, OnceInv, NEW r \in Requests, StatementFails(r)
    PROVE  Accounted(r)
<1> USE DEF Inv
<1>1. OthersKept(r)
    BY DEF StatementFails, Handler, OthersKept, TypeOK, Goto, At, Arrives, localVars, listVars, workVars, deliveryVars, attemptVars, sentVars, faultVars
<1>2. OnceInv'
    BY DEF StatementFails, Handler, Locations, OnceInv, WorkInv, TypeOK, Fanning, Current, Goto, At, Arrives,
       localVars, listVars, workVars, deliveryVars, attemptVars, sentVars, faultVars
<1>3. ASSUME NEW d \in Deliveries PROVE Effect(r, d)
    <2>1. MayMark(r, d)' => MayMark(r, d)
        BY DEF StatementFails, Handler, Locations, MayMark, WorkInv, TypeOK, Current, Goto, At, Arrives,
           localVars, listVars, workVars, deliveryVars, attemptVars, sentVars, faultVars
    <2>2. Dropped(r, d)
        BY DEF StatementFails, Handler, Locations, Dropped, SentKept, MaySend, Works, HasSent, WorkInv, InAppInv,
           Current, Deliveries, Goto, At, Arrives, TypeOK, localVars, listVars, workVars, deliveryVars, attemptVars, sentVars, faultVars
    <2>. QED
        BY <2>1, <2>2 DEF Effect
<1>. QED
    BY <1>1, <1>2, <1>3 DEF Accounted

(* A dead Worker keeps what it had in hand. *)
LEMMA CrashAccounted ==
    ASSUME Inv, OnceInv, NEW r \in Requests, Crash(r)
    PROVE  Accounted(r)
<1> USE DEF Inv
<1>1. OthersKept(r)
    BY DEF Crash, OthersKept, TypeOK, Goto, At, Arrives, localVars, listVars, workVars, deliveryVars, attemptVars, sentVars, faultVars
<1>2. OnceInv'
    BY DEF Crash, OnceInv, WorkInv, TypeOK, Fanning, Current, Goto, At, Arrives,
       localVars, listVars, workVars, deliveryVars, attemptVars, sentVars, faultVars
<1>3. ASSUME NEW d \in Deliveries PROVE Effect(r, d)
    <2>1. MayMark(r, d)' => MayMark(r, d)
        BY DEF Crash, MayMark, WorkInv, TypeOK, Current, Goto, At, Arrives,
           localVars, listVars, workVars, deliveryVars, attemptVars, sentVars, faultVars
    <2>2. Untouched(r, d)
        BY DEF Crash, Untouched, SentKept, MaySend, Works, HasSent, WorkInv, InAppInv,
           Current, Deliveries, Goto, At, Arrives, TypeOK, localVars, listVars, workVars, deliveryVars, attemptVars, sentVars, faultVars
    <2>. QED
        BY <2>1, <2>2 DEF Effect
<1>. QED
    BY <1>1, <1>2, <1>3 DEF Accounted

-----------------------------------------------------------------------------
(* Every step keeps the account. *)
LEMMA AccountedKeeps ==
    ASSUME Inv, Inv', SentInv, NEW r \in Requests, Accounted(r)
    PROVE  SentInv'
<1>1. TypeOK /\ TypeOK'
    BY DEF Inv
<1>2. ASSUME NEW d \in Deliveries PROVE (AllowedAt(d) /\ ServedAt(d) /\ ToldAt(d))'
    BY <1>1, EffectKeepsAllowed, EffectKeepsServed, EffectKeepsTold DEF SentInv, Accounted
<1>. QED
    BY <1>2 DEF SentInv, Accounted

LEMMA SentInvInit == Init => SentInv
<1> SUFFICES ASSUME Init PROVE SentInv
    OBVIOUS
<1>1. OnceInv
    BY DEF Init, OnceInv, Fanning
<1>2. ASSUME NEW d \in Deliveries PROVE AllowedAt(d) /\ ServedAt(d) /\ ToldAt(d)
    <2>1. \A r \in Requests : ~MaySend(r, d) /\ ~Works(r, d) /\ ~HasSent(r, d)
        BY DEF Init, MaySend, Works, HasSent
    <2>2. Senders(d) = {} /\ Spent(d) = {} /\ accepted[d] = 0 /\ delivery_status[d] = "none"
        BY <2>1 DEF Init, Senders, Spent
    <2>3. AllowedAt(d)
        BY <2>2, FS_EmptySet DEF AllowedAt
    <2>4. ~Sent(d)
        BY DEF Init, Sent, Deliveries
    <2>. QED
        BY <2>1, <2>2, <2>3, <2>4 DEF ServedAt, ToldAt
<1>. QED
    BY <1>1, <1>2 DEF SentInv

LEMMA SentInvNext == Inv /\ Inv' /\ SentInv /\ [Next]_vars => SentInv'
<1> SUFFICES ASSUME Inv, Inv', SentInv, [Next]_vars PROVE SentInv'
    OBVIOUS
<1>. OnceInv
    BY DEF SentInv
<1>1. ASSUME NEW r \in Requests, Begin(r) PROVE SentInv'
    BY <1>1, AccountedKeeps, EnqueueAccounted, StartBatchAccounted, StartRetryAccounted
       DEF Begin
<1>2. ASSUME NEW r \in Requests, Continue(r) PROVE SentInv'
    <2>1. Accounted(r)
        BY <1>2, ClaimAccounted, ResolveAccounted, InsertDeliveryAccounted,
           FinishEventAccounted, ReopenAccounted, DispatchInAppAccounted,
           MarkDeliveredAccounted, DispatchViaProviderAccounted, RecordOutcomeAccounted,
           RecordChannelErrorAccounted, RetryClaimAccounted, RecordRetryErrorAccounted
           DEF Continue
    <2>. QED
        BY <2>1, AccountedKeeps
<1>3. ASSUME NEW r \in Requests, StatementFails(r) \/ Crash(r) PROVE SentInv'
    BY <1>3, AccountedKeeps, StatementFailsAccounted, CrashAccounted
<1>4. ASSUME UNCHANGED vars \/ \E d \in Deliveries : RetryComesDue(d) PROVE SentInv'
    <2>1. UNCHANGED <<delivery_status, sentVars, localVars, failed, pc>>
        BY <1>4 DEF RetryComesDue, vars, deliveryVars, faultVars
    <2>2. OnceInv'
        BY <2>1 DEF SentInv, OnceInv, Fanning, Current, localVars, listVars, workVars
    <2>3. ASSUME NEW d \in Deliveries PROVE (AllowedAt(d) /\ ServedAt(d) /\ ToldAt(d))'
        <3>1. AllowedAt(d) /\ ServedAt(d) /\ ToldAt(d)
            BY DEF SentInv
        <3>2. Senders(d)' = Senders(d) /\ Spent(d)' = Spent(d)
            BY <2>1 DEF Senders, Spent, MaySend, MayMark, Current, localVars, listVars, workVars
        <3>. QED
            BY <2>1, <3>1, <3>2 DEF AllowedAt, ServedAt, ToldAt, Sent, Works, HasSent,
               Current, localVars, listVars, workVars, sentVars
    <2>. QED
        BY <2>2, <2>3 DEF SentInv
<1>. QED
    BY <1>1, <1>2, <1>3, <1>4 DEF Next

(* A message is sent once but for the failures of its own requests, one     *)
(* request at a time serves a delivery, and the tables say what was sent.  *)
THEOREM MessagesAreSentOnceAndTold == Spec => []SentOnceAndTold
<1>1. Inv /\ SentInv => SentOnceAndTold
    <2> SUFFICES ASSUME Inv, SentInv PROVE SentOnceAndTold
        OBVIOUS
    <2>1. NeverSentTwice
        <3> SUFFICES ASSUME NEW d \in Deliveries PROVE accepted[d] <= 1 + Cardinality(failed)
            BY DEF NeverSentTwice
        <3>1. Senders(d) \in SUBSET Requests /\ Spent(d) \in SUBSET failed /\ failed \in SUBSET Requests
            BY DEF Senders, Spent, Inv, TypeOK
        <3>2. /\ Cardinality(Senders(d)) \in Nat /\ Cardinality(failed) \in Nat
              /\ Cardinality(Spent(d)) \in Nat /\ Cardinality(Spent(d)) <= Cardinality(failed)
            BY <3>1, Counted
        <3>. QED
            BY <3>2 DEF SentInv, AllowedAt, Inv, TypeOK
    <2>2. NoSharedWork
        <3>1. ASSUME NEW e \in Events PROVE Cardinality(FanningOut(e)) <= 1
            <4>1. FanningOut(e) = {} \/ \E r : FanningOut(e) = {r}
                BY DEF FanningOut, Inv, ClaimInv, Fanning
            <4>2. Cardinality(FanningOut(e)) \in {0, 1}
                BY <4>1, FS_EmptySet, FS_Singleton
            <4>. QED
                BY <4>2
        <3>2. ASSUME failed = {}, NEW d \in Deliveries
              PROVE  Cardinality(Serving(d)) = IF delivery_status[d] = "queued" THEN 1 ELSE 0
            <4>1. Serving(d) = {r \in Requests : Works(r, d)}
                BY DEF Serving, Works
            <4>2. ServedAt(d)
                BY <3>2 DEF SentInv
            <4>3. CASE delivery_status[d] = "queued"
                <5>1. PICK r \in Requests : Works(r, d)
                    BY <4>2, <4>3, <3>2 DEF ServedAt
                <5>2. Serving(d) = {r}
                    BY <4>1, <4>2, <5>1, <3>2 DEF ServedAt
                <5>. QED
                    BY <4>3, <5>2, FS_Singleton
            <4>4. CASE delivery_status[d] # "queued"
                <5>1. Serving(d) = {}
                    BY <4>1, <4>2, <4>4, <3>2 DEF ServedAt
                <5>. QED
                    BY <4>4, <5>1, FS_EmptySet
            <4>. QED
                BY <4>3, <4>4
        <3>. QED
            BY <3>1, <3>2 DEF NoSharedWork
    <2>3. DeliveredTellsTheTruth
        BY DEF DeliveredTellsTheTruth, Serving, SentInv, ToldAt, HasSent
    <2>. QED
        BY <2>1, <2>2, <2>3 DEF SentOnceAndTold
<1>. QED
    BY <1>1, Invariance, SentInvInit, SentInvNext, PTL DEF Spec
=============================================================================
