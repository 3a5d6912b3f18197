------------------------------- MODULE Outbox -------------------------------
(***************************************************************************)
(* The notification outbox: enqueueNotificationEvent, processOutboxEvent   *)
(* with its fan-out over channels, processOutboxBatch and                  *)
(* retryFailedDeliveries (src/src/lib/notifications.ts), the channels of a *)
(* recipient (notification-preferences.ts) and the outcomes a provider may *)
(* have (notification-providers.ts).                                       *)
(*                                                                         *)
(* A request is one HTTP request in a Worker: the business request that    *)
(* enqueues an event and fans it out, or an administrator's catch-up or    *)
(* retry pass.  One SQL statement is one action; it may fail and make the  *)
(* code throw, and a Worker may die between two.  Requests are numbered as *)
(* they arrive.  notification_outbox.attempts is read by nobody and is     *)
(* left out.                                                               *)
(***************************************************************************)
EXTENDS Integers, FiniteSets

CONSTANTS
    Events,        \* idempotency keys, one per business occurrence
    category,      \* event -> notification_outbox.category
    Preferences,   \* the notification_preferences rows a recipient may have
                   \* for a category: a function from some channels to BOOLEAN
    MaxAttempts,   \* MAX_DELIVERY_ATTEMPTS
    MaxRequests,   \* bound: HTTP requests
    MaxFaults,     \* bound: Workers that die, and statements that fail
    NULL

MandatoryCategories == {"transactional", "security"}

Categories == {"transactional", "security", "order", "booking", "payment",
               "delivery", "marketing", "promotional", "system"}

DefaultChannels ==
    [c \in Categories |->
        IF c \in {"delivery", "marketing", "promotional", "system"}
        THEN {"in_app"} ELSE {"in_app", "email"}]

(* The order in which the fan-out serves the channels. *)
Order == [in_app |-> 1, email |-> 2, sms |-> 3, push |-> 4]
Channels == DOMAIN Order
Deliveries == Events \X Channels
Requests == 1..MaxRequests

ASSUME OutboxAssumption ==
    /\ category \in [Events -> Categories]
    /\ \A p \in Preferences :
          DOMAIN p \subseteq Channels /\ p \in [DOMAIN p -> BOOLEAN]
    /\ MaxAttempts \in Nat \ {0}
    /\ {MaxRequests, MaxFaults} \subseteq Nat
    /\ NULL \notin Events

VARIABLES
    outbox_status,   \* notification_outbox.status, "none" before the INSERT
    delivery_status, \* notification_deliveries.status, likewise
    failure_class,   \* notification_deliveries.failure_class
    attempt_count,   \* notification_deliveries.attempt_count
    next_retry_at,   \* NULL, still to come, or come
    notifications,   \* event -> rows of the notifications table
    accepted,        \* delivery -> messages the provider accepted
    pc,              \* where each request stands
    batch,           \* the events it has still to process
    rows,            \* the failed deliveries its retry pass has still to try
    event,           \* the event it works on
    channels,        \* the channels it has still to serve
    channel,         \* the channel it serves
    tries,           \* attemptCountBefore of the dispatch
    retrying,        \* requests that are retry passes
    outcome,         \* what the provider answered
    crashed,         \* requests whose Worker died
    failed           \* requests one of whose statements failed

attemptVars == <<failure_class, attempt_count, next_retry_at>>
deliveryVars == <<delivery_status, attemptVars>>
sentVars == <<notifications, accepted>>
listVars == <<batch, rows, retrying>>
workVars == <<event, channels, channel, tries>>
localVars == <<listVars, workVars, outcome>>
faultVars == <<crashed, failed>>
vars == <<outbox_status, deliveryVars, sentVars, localVars, faultVars, pc>>

OutboxStatuses == {"pending", "processing", "processed"}
DeliveryStatuses == {"queued", "delivered", "failed", "unavailable"}

(* What dispatchViaProvider returns; no integration registered and one not *)
(* in use are recorded alike.                                              *)
Outcomes == {"delivered", "transient", "permanent", "unavailable"}

Locations == {"idle", "claim", "resolve", "next_channel", "dispatch", "mark", "record",
              "channel_error", "reopen", "retry", "retry_error", "done"}

(* What a retry pass remembers of a row it listed. *)
Rows == [delivery : Deliveries, attempt_count : 0..(MaxAttempts - 1)]

Init ==
    /\ outbox_status = [e \in Events |-> "none"]
    /\ delivery_status = [d \in Deliveries |-> "none"]
    /\ failure_class = [d \in Deliveries |-> NULL]
    /\ attempt_count = [d \in Deliveries |-> 0]
    /\ next_retry_at = [d \in Deliveries |-> "never"]
    /\ notifications = [e \in Events |-> 0]
    /\ accepted = [d \in Deliveries |-> 0]
    /\ pc = [r \in Requests |-> "idle"]
    /\ batch = [r \in Requests |-> {}]
    /\ rows = [r \in Requests |-> {}]
    /\ event = [r \in Requests |-> NULL]
    /\ channels = [r \in Requests |-> {}]
    /\ channel = [r \in Requests |-> NULL]
    /\ tries = [r \in Requests |-> 0]
    /\ retrying = {}
    /\ outcome = [r \in Requests |-> NULL]
    /\ crashed = {}
    /\ failed = {}

At(r, location) == pc[r] = location /\ r \notin crashed
Arrives(r) == At(r, "idle") /\ \A q \in Requests : q < r => pc[q] # "idle"
Goto(r, location) == pc' = [pc EXCEPT ![r] = location]
Current(r) == <<event[r], channel[r]>>
MoreFaults == Cardinality(failed) + Cardinality(crashed) < MaxFaults

-----------------------------------------------------------------------------
(* How requests begin.                                                     *)

(* INSERT ... ON CONFLICT(idempotency_key) DO NOTHING. *)
CanEnqueue(e) == outbox_status[e] = "none"

(* enqueueAndProcessNow: only the request that created the row goes on to  *)
(* fan it out.                                                             *)
Enqueue(r, e) ==
    /\ Arrives(r)
    /\ \/ /\ CanEnqueue(e)
          /\ outbox_status' = [outbox_status EXCEPT ![e] = "pending"]
          /\ batch' = [batch EXCEPT ![r] = {e}]
          /\ Goto(r, "claim")
       \/ /\ ~CanEnqueue(e)
          /\ Goto(r, "done")
          /\ UNCHANGED <<outbox_status, batch>>
    /\ UNCHANGED <<deliveryVars, sentVars, rows, retrying, workVars, outcome, faultVars>>

(* processOutboxBatch lists the pending events, and takes them in turn.     *)
StartBatch(r) ==
    /\ Arrives(r)
    /\ \E e \in Events : outbox_status[e] = "pending"
    /\ batch' = [batch EXCEPT ![r] = {e \in Events : outbox_status[e] = "pending"}]
    /\ Goto(r, "claim")
    /\ UNCHANGED <<outbox_status, deliveryVars, sentVars, rows, retrying, workVars, outcome, faultVars>>

(* The failed deliveries a retry pass lists.                               *)
Due(d) ==
    /\ delivery_status[d] = "failed"
    /\ failure_class[d] = "transient"
    /\ next_retry_at[d] = "come"
    /\ attempt_count[d] < MaxAttempts

(* retryFailedDeliveries remembers attempt_count as it listed it.          *)
StartRetry(r) ==
    /\ Arrives(r)
    /\ \E d \in Deliveries : Due(d)
    /\ rows' = [rows EXCEPT ![r] =
          {[delivery |-> d, attempt_count |-> attempt_count[d]] :
              d \in {x \in Deliveries : Due(x)}}]
    /\ retrying' = retrying \union {r}
    /\ Goto(r, "retry")
    /\ UNCHANGED <<outbox_status, deliveryVars, sentVars, batch, workVars, outcome, faultVars>>

-----------------------------------------------------------------------------
(* processOutboxEvent: claim, resolve the channels, fan out, finish.       *)

CanClaim(e) == outbox_status[e] = "pending"

AfterEvent(r) == IF batch[r] = {} THEN "done" ELSE "claim"

ClaimOutboxEvent(r) ==
    /\ At(r, "claim")
    /\ \E e \in batch[r] :
          /\ batch' = [batch EXCEPT ![r] = @ \ {e}]
          /\ \/ /\ CanClaim(e)
                /\ outbox_status' = [outbox_status EXCEPT ![e] = "processing"]
                /\ event' = [event EXCEPT ![r] = e]
                /\ Goto(r, "resolve")
             \/ /\ ~CanClaim(e)
                /\ Goto(r, IF batch[r] = {e} THEN "done" ELSE "claim")
                /\ UNCHANGED <<outbox_status, event>>
    /\ UNCHANGED <<deliveryVars, sentVars, rows, retrying, channels, channel, tries, outcome, faultVars>>

(* setNotificationPreference stores no row that turns off a channel of a    *)
(* mandatory category.                                                     *)
PossibleRows(c) ==
    {p \in Preferences : c \in MandatoryCategories => \A ch \in DOMAIN p : p[ch]}

(* A deliberate fault: no default for a channel without a row.             *)
ResolveOnlyRows(c, p) == {ch \in DOMAIN p : p[ch]}

ResolveChannelsForRecipient(c, p) ==
    {ch \in Channels :
        IF c \notin MandatoryCategories /\ ch \in DOMAIN p
        THEN p[ch] ELSE ch \in DefaultChannels[c]}

(* The recipient may have changed the rows at any time before this read.   *)
Resolve(r) ==
    /\ At(r, "resolve")
    /\ \E p \in PossibleRows(category[event[r]]) :
          channels' = [channels EXCEPT
              ![r] = ResolveChannelsForRecipient(category[event[r]], p)]
    /\ Goto(r, "next_channel")
    /\ UNCHANGED <<outbox_status, deliveryVars, sentVars, listVars, event, channel, tries, outcome, faultVars>>

(* A deliberate fault, for the mutation runs. *)
IsNewUnchecked(d) == TRUE

IsNew(d) == delivery_status[d] = "none"

(* dispatchChannel: a channel that has its row already is left alone; an    *)
(* INSERT that throws is caught around the channel.                        *)
InsertDelivery(r) ==
    /\ At(r, "next_channel")
    /\ \E ch \in channels[r] :
          /\ \A other \in channels[r] : Order[ch] <= Order[other]
          /\ channel' = [channel EXCEPT ![r] = ch]
          /\ channels' = [channels EXCEPT ![r] = @ \ {ch}]
          /\ LET d == <<event[r], ch>> IN
             \/ /\ IsNew(d)
                /\ delivery_status' = [delivery_status EXCEPT ![d] = "queued"]
                /\ tries' = [tries EXCEPT ![r] = 0]
                /\ Goto(r, "dispatch")
                /\ UNCHANGED failed
             \/ /\ ~IsNew(d)
                /\ UNCHANGED <<delivery_status, tries, failed, pc>>
             \/ /\ MoreFaults
                /\ failed' = failed \union {r}
                /\ Goto(r, "channel_error")
                /\ UNCHANGED <<delivery_status, tries>>
    /\ UNCHANGED <<outbox_status, attemptVars, sentVars, listVars, event, outcome, crashed>>

(* A deliberate fault, for the mutation runs. *)
FinishEventUnmarked(r) ==
    /\ At(r, "next_channel")
    /\ channels[r] = {}
    /\ Goto(r, AfterEvent(r))
    /\ UNCHANGED <<outbox_status, deliveryVars, sentVars, localVars, faultVars>>

FinishEvent(r) ==
    /\ At(r, "next_channel")
    /\ channels[r] = {}
    /\ outbox_status' = [outbox_status EXCEPT ![event[r]] = "processed"]
    /\ Goto(r, AfterEvent(r))
    /\ UNCHANGED <<deliveryVars, sentVars, localVars, faultVars>>

(* The outer catch gives the event back to a later pass. *)
Reopen(r) ==
    /\ At(r, "reopen")
    /\ outbox_status' = [outbox_status EXCEPT ![event[r]] = "pending"]
    /\ Goto(r, AfterEvent(r))
    /\ UNCHANGED <<deliveryVars, sentVars, localVars, faultVars>>

-----------------------------------------------------------------------------
(* performDispatchAndRecord, for a fan-out and for a retry.                *)

AfterRow(r) == IF rows[r] = {} THEN "done" ELSE "retry"

(* To the next channel of the event, or the next row of the retry pass.    *)
AfterDispatch(r) == IF r \in retrying THEN AfterRow(r) ELSE "next_channel"

DispatchInApp(r) ==
    /\ At(r, "dispatch")
    /\ channel[r] = "in_app"
    /\ notifications' = [notifications EXCEPT ![event[r]] = @ + 1]
    /\ Goto(r, "mark")
    /\ UNCHANGED <<outbox_status, deliveryVars, accepted, localVars, faultVars>>

MarkDelivered(r) ==
    /\ At(r, "mark")
    /\ delivery_status' = [delivery_status EXCEPT ![Current(r)] = "delivered"]
    /\ attempt_count' = [attempt_count EXCEPT ![Current(r)] = 1]
    /\ Goto(r, AfterDispatch(r))
    /\ UNCHANGED <<outbox_status, failure_class, next_retry_at, sentVars, localVars, faultVars>>

DispatchViaProvider(r) ==
    /\ At(r, "dispatch")
    /\ channel[r] # "in_app"
    /\ \E o \in Outcomes :
          /\ outcome' = [outcome EXCEPT ![r] = o]
          /\ accepted' = IF o = "delivered"
                         THEN [accepted EXCEPT ![Current(r)] = @ + 1]
                         ELSE accepted
    /\ Goto(r, "record")
    /\ UNCHANGED <<outbox_status, deliveryVars, notifications, listVars, workVars, faultVars>>

(* A deliberate fault, for the mutation runs. *)
ClassesRetried == {"transient"}

Classes == {"transient", "permanent"}

StatusOf(o) == IF o \in Classes THEN "failed" ELSE o

(* nextRetryDelayMinutes: no retry after the last attempt.                 *)
RetryAfter(o, attempts) ==
    IF o = "transient" /\ attempts < MaxAttempts THEN "to_come" ELSE "never"

RecordOutcome(r) ==
    LET d == Current(r)
        o == outcome[r]
        attempts == tries[r] + 1 IN
    /\ At(r, "record")
    /\ delivery_status' = [delivery_status EXCEPT ![d] = StatusOf(o)]
    /\ failure_class' = [failure_class EXCEPT ![d] = IF o \in Classes THEN o ELSE NULL]
    /\ attempt_count' = [attempt_count EXCEPT ![d] = attempts]
    /\ next_retry_at' = [next_retry_at EXCEPT ![d] = RetryAfter(o, attempts)]
    /\ outcome' = [outcome EXCEPT ![r] = NULL]
    /\ Goto(r, AfterDispatch(r))
    /\ UNCHANGED <<outbox_status, sentVars, listVars, workVars, faultVars>>

(* A channel that throws is upserted 'failed', with no failure_class and   *)
(* no next_retry_at of its own, and the fan-out goes on.                   *)
RecordChannelError(r) ==
    /\ At(r, "channel_error")
    /\ delivery_status' = [delivery_status EXCEPT ![Current(r)] = "failed"]
    /\ Goto(r, AfterDispatch(r))
    /\ UNCHANGED <<outbox_status, attemptVars, sentVars, localVars, faultVars>>

-----------------------------------------------------------------------------
(* retryFailedDeliveries, row by row.                                      *)

(* A deliberate fault, for the mutation runs. *)
CanRetryUnchecked(d) == TRUE

CanRetry(d) == delivery_status[d] = "failed"

(* The event is read outside the try: if that throws, the pass ends there. *)
RetryClaim(r) ==
    /\ At(r, "retry")
    /\ \E row \in rows[r] :
       LET d == row.delivery IN
       /\ rows' = [rows EXCEPT ![r] = @ \ {row}]
       /\ \/ /\ CanRetry(d)
             /\ delivery_status' = [delivery_status EXCEPT ![d] = "queued"]
             /\ event' = [event EXCEPT ![r] = d[1]]
             /\ channel' = [channel EXCEPT ![r] = d[2]]
             /\ tries' = [tries EXCEPT ![r] = row.attempt_count]
             /\ \/ Goto(r, "dispatch") /\ UNCHANGED failed
                \/ MoreFaults /\ failed' = failed \union {r} /\ Goto(r, "done")
          \/ /\ ~CanRetry(d)
             /\ Goto(r, IF rows[r] = {row} THEN "done" ELSE "retry")
             /\ UNCHANGED <<delivery_status, event, channel, tries, failed>>
    /\ UNCHANGED <<outbox_status, attemptVars, sentVars, batch, channels, retrying, outcome, crashed>>

(* A retry that throws is recorded as a transient failure with no retry.   *)
RecordRetryError(r) ==
    /\ At(r, "retry_error")
    /\ delivery_status' = [delivery_status EXCEPT ![Current(r)] = "failed"]
    /\ failure_class' = [failure_class EXCEPT ![Current(r)] = "transient"]
    /\ next_retry_at' = [next_retry_at EXCEPT ![Current(r)] = "never"]
    /\ Goto(r, AfterRow(r))
    /\ UNCHANGED <<outbox_status, attempt_count, sentVars, localVars, faultVars>>

-----------------------------------------------------------------------------
(* Time, failures, and the whole.                                          *)

RetryComesDue(d) ==
    /\ next_retry_at[d] = "to_come"
    /\ next_retry_at' = [next_retry_at EXCEPT ![d] = "come"]
    /\ UNCHANGED <<outbox_status, delivery_status, failure_class, attempt_count, sentVars, localVars, faultVars, pc>>

(* Where a statement that throws leads: the catch around one channel, the  *)
(* catch around the event, the catch of a retry, or out of the handler.    *)
Handler(r) ==
    CASE pc[r] \in {"dispatch", "mark", "record"} ->
            IF r \in retrying THEN "retry_error" ELSE "channel_error"
      [] pc[r] \in {"resolve", "next_channel", "channel_error"} -> "reopen"
      [] pc[r] \in {"claim", "reopen", "retry", "retry_error"} -> "done"

StatementFails(r) ==
    /\ r \notin crashed
    /\ pc[r] \notin {"idle", "done"}
    /\ pc[r] = "next_channel" => channels[r] = {}   \* else see InsertDelivery
    /\ MoreFaults
    /\ failed' = failed \union {r}
    /\ Goto(r, Handler(r))
    /\ UNCHANGED <<outbox_status, deliveryVars, sentVars, localVars, crashed>>

Crash(r) ==
    /\ r \notin crashed
    /\ pc[r] \notin {"idle", "done"}
    /\ MoreFaults
    /\ crashed' = crashed \union {r}
    /\ UNCHANGED <<outbox_status, deliveryVars, sentVars, localVars, failed, pc>>

Begin(r) ==
    \/ \E e \in Events : Enqueue(r, e)
    \/ StartBatch(r)
    \/ StartRetry(r)

(* The next statement of a request that has begun. *)
Continue(r) ==
    /\ pc[r] \notin {"idle", "done"}
    /\ \/ ClaimOutboxEvent(r)
       \/ Resolve(r)
       \/ InsertDelivery(r)
       \/ FinishEvent(r)
       \/ Reopen(r)
       \/ DispatchInApp(r)
       \/ MarkDelivered(r)
       \/ DispatchViaProvider(r)
       \/ RecordOutcome(r)
       \/ RecordChannelError(r)
       \/ RetryClaim(r)
       \/ RecordRetryError(r)

Next ==
    \/ \E r \in Requests : Begin(r) \/ Continue(r) \/ StatementFails(r) \/ Crash(r)
    \/ \E d \in Deliveries : RetryComesDue(d)

Spec == Init /\ [][Next]_vars

(* A Worker that has not died is run until its handler returns. *)
FairSpec == Spec /\ \A r \in Requests : WF_vars(Continue(r))

-----------------------------------------------------------------------------
(* Every variable keeps to the values the tables and the code allow. *)
TypeOK ==
    /\ outbox_status \in [Events -> OutboxStatuses \union {"none"}]
    /\ delivery_status \in [Deliveries -> DeliveryStatuses \union {"none"}]
    /\ failure_class \in [Deliveries -> Classes \union {NULL}]
    /\ attempt_count \in [Deliveries -> 0..MaxAttempts]
    /\ next_retry_at \in [Deliveries -> {"never", "to_come", "come"}]
    /\ notifications \in [Events -> Nat]
    /\ accepted \in [Deliveries -> Nat]
    /\ pc \in [Requests -> Locations]
    /\ batch \in [Requests -> SUBSET Events]
    /\ rows \in [Requests -> SUBSET Rows]
    /\ event \in [Requests -> Events \union {NULL}]
    /\ channels \in [Requests -> SUBSET Channels]
    /\ channel \in [Requests -> Channels \union {NULL}]
    /\ tries \in [Requests -> 0..(MaxAttempts - 1)]
    /\ outcome \in [Requests -> Outcomes \union {NULL}]
    /\ retrying \subseteq Requests
    /\ crashed \subseteq Requests
    /\ failed \subseteq Requests

(* The customer sees an event at most once in the application, however     *)
(* often it is enqueued, reopened and fanned out again.                    *)
InAppOnce == \A e \in Events : notifications[e] <= 1

(* A provider that has accepted a message is not given it again, whatever  *)
(* lists other passes hold, unless a statement failed after the dispatch:  *)
(* the catch then marks the delivery 'failed', which a stale list retries. *)
NeverSentTwice ==
    \A d \in Deliveries : accepted[d] <= 1 + Cardinality(failed)

(* The request at work on a delivery, dead or alive. *)
Serving(d) ==
    {r \in Requests : pc[r] \in {"dispatch", "mark", "record"} /\ Current(r) = d}

Sent(d) == IF d[2] = "in_app" THEN notifications[d[1]] > 0 ELSE accepted[d] > 0

(* 'delivered' is never assumed: it was sent; and what was sent shows as   *)
(* 'delivered', but while, or because, its request is between the two.     *)
DeliveredTellsTheTruth ==
    \A d \in Deliveries :
        /\ delivery_status[d] = "delivered" => Sent(d)
        /\ Sent(d) =>
              \/ delivery_status[d] = "delivered"
              \/ \E r \in Serving(d) : pc[r] \in {"mark", "record"}
              \/ failed # {}

(* The requests that have claimed an event and are not through with it.    *)
FanningOut(e) ==
    {r \in Requests \ retrying :
        event[r] = e /\ pc[r] \notin {"idle", "claim", "done"}}

(* Two requests never fan out one event or serve one delivery, whatever    *)
(* lists their passes hold; and a delivery is 'queued' exactly as long as  *)
(* one is at work on it, so that none is left behind, unless a statement   *)
(* failed.                                                                 *)
NoSharedWork ==
    /\ \A e \in Events : Cardinality(FanningOut(e)) <= 1
    /\ \/ failed # {}
       \/ \A d \in Deliveries :
             Cardinality(Serving(d)) = IF delivery_status[d] = "queued" THEN 1 ELSE 0

(* A message is sent once, because one request at a time serves it, and    *)
(* the tables say what was sent.                                           *)
SentOnceAndTold == NeverSentTwice /\ NoSharedWork /\ DeliveredTellsTheTruth

(* A processed event has a delivery for every default channel if its       *)
(* category is mandatory, whatever the recipient's preferences and however *)
(* many passes failed on the way; and if none did, the customer sees it.   *)
MandatoryReachesEveryChannel ==
    \A e \in Events :
        outbox_status[e] = "processed" /\ category[e] \in MandatoryCategories =>
            /\ \A ch \in DefaultChannels[category[e]] : delivery_status[<<e, ch>>] # "none"
            /\ failed = {} => notifications[e] = 1

(* A claimed event is finished or given back to a later pass, unless its   *)
(* Worker dies or a statement fails.                                       *)
ClaimedEventMovesOn ==
    \A e \in Events :
        (outbox_status[e] = "processing")
          ~> (\/ outbox_status[e] # "processing"
              \/ \E r \in crashed \union failed : event[r] = e)
=============================================================================
