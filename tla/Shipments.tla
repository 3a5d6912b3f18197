------------------------------ MODULE Shipments ------------------------------
(***************************************************************************)
(* Logistics: a shipment gets one pickup job and one delivery job, each is *)
(* assigned to a driver, attempted, completed or reassigned, and every     *)
(* step of a job asks the shipment's own state machine for the status that *)
(* goes with it (src/src/lib/logistics-dispatch.ts, logistics-delivery.ts, *)
(* logistics-tracking.ts, called from api-logistics.ts).                   *)
(*                                                                         *)
(* A call is an HTTP request being served; when it ends the next one may   *)
(* begin.  One SQL statement or batch is one action.  A job is the pair of *)
(* its shipment and its type: UNIQUE(shipment_id) in either table.         *)
(***************************************************************************)
EXTENDS Integers, FiniteSets, HttpCalls

CONSTANTS
    Shipments,     \* shipments.id
    Drivers,       \* driver_profiles.id
    MaxAttempts,   \* bound: attempts recorded for one job
    MaxUnplanned   \* bound: jobs taken back, statuses drivers set themselves
                   \* and Workers that die, together

JobTypes == {"pickup", "delivery"}
Jobs == Shipments \X JobTypes
Outcomes == {"succeeded", "failed"}

ASSUME ShipmentsAssumption ==
    /\ MaxAttempts \in Nat
    /\ MaxUnplanned \in Nat
    /\ NULL \notin Drivers \union Jobs

VARIABLES
    shipment_status,    \* shipments.status
    job_status,         \* pickup_jobs.status, delivery_jobs.status
    driver,             \* driver_id of the job
    attempt_count,      \* attempt_count of the job
    attempts,           \* rows of delivery_attempts
    operational_status, \* driver_profiles.operational_status ("away": offline, on_break)
    job,                \* the job a call works on
    who,                \* the driver it works for, or read
    count,              \* the attempt_count it read
    next_status,        \* the shipment status it asks for
    unplanned,          \* reassignments, self-set statuses, crashes so far
    went_through        \* history: the statuses a shipment ever had

jobVars == <<job_status, driver, attempt_count, attempts>>
jobLocals == <<job, who, count, next_status>>
shipmentVars == <<shipment_status, jobVars, operational_status, pc, jobLocals,
                  unplanned, went_through>>

ShipmentStatuses == {"created", "awaiting_pickup", "assigned",
                     "driver_en_route_to_pickup", "arrived_pickup", "picked_up",
                     "out_for_delivery", "arrived_dropoff", "delivery_attempted",
                     "delivered", "failed"}
JobStatuses == {"absent", "unassigned", "assigned", "accepted", "en_route", "arrived",
                "attempted", "completed"}
OperationalStatuses == {"available", "away", "assigned"}
JobLocations == {"idle", "insert_pickup", "insert_delivery", "mark_driver", "awaiting",
                 "complete", "fail", "reset", "transition", "write", "free_driver", "dead"}

ShipmentInit ==
    /\ shipment_status = [s \in Shipments |-> "created"]
    /\ job_status = [j \in Jobs |-> "absent"]
    /\ driver = [j \in Jobs |-> NULL]
    /\ attempt_count = [j \in Jobs |-> 0]
    /\ attempts = {}
    /\ operational_status = [d \in Drivers |-> "available"]
    /\ pc = [c \in Calls |-> "idle"]
    /\ job = [c \in Calls |-> NULL]
    /\ who = [c \in Calls |-> NULL]
    /\ count = [c \in Calls |-> 0]
    /\ next_status = [c \in Calls |-> NULL]
    /\ unplanned = 0
    /\ went_through = [s \in Shipments |-> {"created"}]

-----------------------------------------------------------------------------
At(c, here) == pc[c] = here

Local(c, j, d, n, s) ==
    /\ job' = [job EXCEPT ![c] = j]
    /\ who' = [who EXCEPT ![c] = d]
    /\ count' = [count EXCEPT ![c] = n]
    /\ next_status' = [next_status EXCEPT ![c] = s]

(* The call ends and forgets. *)
JobReturn(c, here) == Step(c, here, "idle") /\ Local(c, NULL, NULL, 0, NULL)

Unplanned == unplanned < MaxUnplanned /\ unplanned' = unplanned + 1

Shipment(c) == job[c][1]

SetJob(j, s, d) ==
    /\ job_status' = [job_status EXCEPT ![j] = s]
    /\ driver' = [driver EXCEPT ![j] = d]
    /\ UNCHANGED <<attempt_count, attempts>>

SetDriver(d, s) == operational_status' = [operational_status EXCEPT ![d] = s]

-----------------------------------------------------------------------------
(* requestDispatch.  Its two SELECTs are one read: a delivery job is only  *)
(* ever inserted after the pickup job.                                     *)
RequestDispatch(c) ==
    \E s \in Shipments :
        /\ \A type \in JobTypes : job_status[<<s, type>>] = "absent"
        /\ Step(c, "idle", "insert_pickup")
        /\ Local(c, <<s, "pickup">>, NULL, 0, "awaiting_pickup")
        /\ UNCHANGED <<shipment_status, jobVars, operational_status, unplanned,
                       went_through>>

(* The UNIQUE index on pickup_jobs.shipment_id. *)
IsFirstJob(j) == job_status[j] = "absent"

InsertPickup(c) ==
    /\ At(c, "insert_pickup")
    /\ \/ /\ IsFirstJob(job[c])
          /\ Step(c, "insert_pickup", "insert_delivery")
          /\ SetJob(job[c], "unassigned", NULL)
          /\ UNCHANGED jobLocals
       \/ /\ ~IsFirstJob(job[c])
          /\ JobReturn(c, "insert_pickup")
          /\ UNCHANGED jobVars
    /\ UNCHANGED <<shipment_status, operational_status, unplanned, went_through>>

InsertDelivery(c) ==
    /\ Step(c, "insert_delivery", "transition")
    /\ SetJob(<<Shipment(c), "delivery">>, "unassigned", NULL)
    /\ UNCHANGED <<shipment_status, operational_status, jobLocals, unplanned,
                   went_through>>

-----------------------------------------------------------------------------
(* transitionShipmentStatus: a read, a check against the table and an      *)
(* UPDATE that asks for no status.                                         *)

(* A deliberate fault, for the mutation runs. *)
ShipmentTransitionsFromPickup ==
    {<<"created", "awaiting_pickup">>, <<"awaiting_pickup", "assigned">>,
     <<"assigned", "driver_en_route_to_pickup">>,
     <<"driver_en_route_to_pickup", "arrived_pickup">>,
     <<"arrived_pickup", "picked_up">>, <<"arrived_pickup", "failed">>,
     <<"arrived_pickup", "out_for_delivery">>, <<"picked_up", "out_for_delivery">>,
     <<"out_for_delivery", "arrived_dropoff">>,
     <<"arrived_dropoff", "delivered">>, <<"arrived_dropoff", "delivery_attempted">>}

(* SHIPMENT_TRANSITIONS, between the statuses this code ever asks for. *)
ShipmentTransitions ==
    {<<"created", "awaiting_pickup">>, <<"awaiting_pickup", "assigned">>,
     <<"assigned", "driver_en_route_to_pickup">>,
     <<"driver_en_route_to_pickup", "arrived_pickup">>,
     <<"arrived_pickup", "picked_up">>, <<"arrived_pickup", "failed">>,
     <<"picked_up", "out_for_delivery">>,
     <<"out_for_delivery", "arrived_dropoff">>,
     <<"out_for_delivery", "delivery_attempted">>,
     <<"arrived_dropoff", "delivered">>, <<"arrived_dropoff", "delivery_attempted">>,
     <<"delivery_attempted", "out_for_delivery">>,
     <<"delivery_attempted", "delivered">>, <<"delivery_attempted", "failed">>}

CheckTransition(c) ==
    /\ At(c, "transition")
    /\ \/ /\ <<shipment_status[Shipment(c)], next_status[c]>> \in ShipmentTransitions
          /\ Step(c, "transition", "write")
          /\ UNCHANGED jobLocals
       \/ /\ <<shipment_status[Shipment(c)], next_status[c]>> \notin ShipmentTransitions
          /\ JobReturn(c, "transition")
    /\ UNCHANGED <<shipment_status, jobVars, operational_status, unplanned, went_through>>

(* completeJob goes on to free the driver of a delivery. *)
WriteShipment(c) ==
    /\ \/ /\ next_status[c] = "delivered"
          /\ Step(c, "write", "free_driver")
          /\ UNCHANGED jobLocals
       \/ next_status[c] # "delivered" /\ JobReturn(c, "write")
    /\ shipment_status' = [shipment_status EXCEPT ![Shipment(c)] = next_status[c]]
    /\ went_through' = [went_through EXCEPT ![Shipment(c)] = @ \union {next_status[c]}]
    /\ UNCHANGED <<jobVars, operational_status, unplanned>>

-----------------------------------------------------------------------------
(* assignDriverToJob: the dispatcher names any driver, or takes one of     *)
(* those rankCandidateDrivers finds available.                             *)

(* A deliberate fault, for the mutation runs. *)
CanAssignAnyJob(j) == job_status[j] \in {"unassigned", "assigned"}

CanAssign(j) == job_status[j] = "unassigned"

AssignDriver(c) ==
    \E j \in Jobs, d \in Drivers :
        /\ CanAssign(j)
        /\ Step(c, "idle", "mark_driver")
        /\ Local(c, j, d, 0, NULL)
        /\ SetJob(j, "assigned", d)
        /\ UNCHANGED <<shipment_status, operational_status, unplanned, went_through>>

MarkDriverAssigned(c) ==
    /\ At(c, "mark_driver")
    /\ \/ job[c][2] = "pickup" /\ JobReturn(c, "mark_driver")
       \/ /\ job[c][2] = "delivery"
          /\ Step(c, "mark_driver", "awaiting")
          /\ Local(c, job[c], NULL, 0, "assigned")
    /\ SetDriver(who[c], "assigned")
    /\ UNCHANGED <<shipment_status, jobVars, unplanned, went_through>>

CheckAwaiting(c) ==
    /\ At(c, "awaiting")
    /\ \/ /\ shipment_status[Shipment(c)] = "awaiting_pickup"
          /\ Step(c, "awaiting", "transition")
          /\ UNCHANGED jobLocals
       \/ /\ shipment_status[Shipment(c)] # "awaiting_pickup"
          /\ JobReturn(c, "awaiting")
    /\ UNCHANGED <<shipment_status, jobVars, operational_status, unplanned, went_through>>

(* acceptJob: a compare-and-swap by the driver assigned. *)
AcceptJob(c) ==
    \E j \in Jobs :
        /\ job_status[j] = "assigned"
        /\ Step(c, "idle", "idle")
        /\ SetJob(j, "accepted", driver[j])
        /\ UNCHANGED <<shipment_status, operational_status, jobLocals, unplanned,
                       went_through>>

(* reassignJob reads the driver, then resets the job whatever its status.  *)
ReassignJob(c) ==
    \E j \in Jobs :
        /\ job_status[j] # "absent"
        /\ Unplanned
        /\ Step(c, "idle", "reset")
        /\ Local(c, j, driver[j], 0, NULL)
        /\ UNCHANGED <<shipment_status, jobVars, operational_status, went_through>>

ResetJob(c) ==
    /\ \/ who[c] # NULL /\ Step(c, "reset", "free_driver") /\ UNCHANGED jobLocals
       \/ who[c] = NULL /\ JobReturn(c, "reset")
    /\ SetJob(job[c], "unassigned", NULL)
    /\ UNCHANGED <<shipment_status, operational_status, unplanned, went_through>>

FreeDriver(c) ==
    /\ JobReturn(c, "free_driver")
    /\ SetDriver(who[c], "available")
    /\ UNCHANGED <<shipment_status, jobVars, unplanned, went_through>>

(* setDriverOperationalStatus, by the driver, whatever job he has: he is   *)
(* available, or away ('offline' or 'on_break').                           *)
SetOperationalStatus(c) ==
    \E d \in Drivers, s \in {"available", "away"} :
        /\ Unplanned
        /\ Step(c, "idle", "idle")
        /\ SetDriver(d, s)
        /\ UNCHANGED <<shipment_status, jobVars, jobLocals, went_through>>

-----------------------------------------------------------------------------
(* markJobEnRoute: the job moves, and then the shipment if its table lets  *)
(* it; the error is swallowed for a delivery, reported for a pickup.       *)
MarkJobEnRoute(c) ==
    \E j \in Jobs :
        /\ job_status[j] \in {"accepted", "assigned"}
        /\ Step(c, "idle", "transition")
        /\ Local(c, j, NULL, 0, IF j[2] = "pickup" THEN "driver_en_route_to_pickup"
                                ELSE "out_for_delivery")
        /\ SetJob(j, "en_route", driver[j])
        /\ UNCHANGED <<shipment_status, operational_status, unplanned, went_through>>

MarkJobArrived(c) ==
    \E j \in Jobs :
        /\ job_status[j] = "en_route"
        /\ Step(c, "idle", "transition")
        /\ Local(c, j, NULL, 0, IF j[2] = "pickup" THEN "arrived_pickup"
                                ELSE "arrived_dropoff")
        /\ SetJob(j, "arrived", driver[j])
        /\ UNCHANGED <<shipment_status, operational_status, unplanned, went_through>>

(* completeJob and recordFailedAttempt read the job by its driver, in any  *)
(* status, and number the attempt from what they read.                     *)
ReadJob(c, there) ==
    \E j \in Jobs :
        /\ driver[j] # NULL
        /\ attempt_count[j] < MaxAttempts
        /\ Step(c, "idle", there)
        /\ Local(c, j, driver[j], attempt_count[j], NULL)
        /\ UNCHANGED <<shipment_status, jobVars, operational_status, unplanned,
                       went_through>>

CompleteJob(c) == ReadJob(c, "complete")
RecordFailedAttempt(c) == ReadJob(c, "fail")

(* A deliberate fault, for the mutation runs. *)
IsNextAttemptUnchecked(j, n) == TRUE

(* UNIQUE(job_type, job_id, attempt_number). *)
IsNextAttempt(j, n) == \A outcome \in Outcomes : <<j, n, outcome>> \notin attempts

(* The batch: the job's row, whoever its driver is now, and the attempt's. *)
RecordAttempt(c, here, status, outcome, next) ==
    LET j == job[c]
        n == count[c] + 1
    IN
    /\ \/ /\ IsNextAttempt(j, n)
          /\ Step(c, here, "transition")
          /\ Local(c, j, who[c], 0, next)
          /\ job_status' = [job_status EXCEPT ![j] = status]
          /\ attempt_count' = [attempt_count EXCEPT ![j] = n]
          /\ attempts' = attempts \union {<<j, n, outcome>>}
          /\ UNCHANGED driver
       \/ /\ ~IsNextAttempt(j, n)
          /\ JobReturn(c, here)
          /\ UNCHANGED jobVars
    /\ UNCHANGED <<shipment_status, operational_status, unplanned, went_through>>

WriteCompletion(c) ==
    /\ At(c, "complete")
    /\ RecordAttempt(c, "complete", "completed", "succeeded",
                     IF job[c][2] = "pickup" THEN "picked_up" ELSE "delivered")

WriteFailure(c) ==
    /\ At(c, "fail")
    /\ RecordAttempt(c, "fail", "attempted", "failed",
                     IF job[c][2] = "pickup" THEN "failed" ELSE "delivery_attempted")

-----------------------------------------------------------------------------
JobCrash(c) ==
    /\ Unplanned
    /\ pc[c] \notin {"idle", "dead"}
    /\ pc' = [pc EXCEPT ![c] = "dead"]
    /\ UNCHANGED <<shipment_status, jobVars, operational_status, jobLocals, went_through>>

JobHandler(c) ==
    \/ InsertPickup(c)
    \/ InsertDelivery(c)
    \/ CheckTransition(c)
    \/ WriteShipment(c)
    \/ MarkDriverAssigned(c)
    \/ CheckAwaiting(c)
    \/ ResetJob(c)
    \/ FreeDriver(c)
    \/ WriteCompletion(c)
    \/ WriteFailure(c)

ShipmentNext ==
    \E c \in Calls :
        \/ RequestDispatch(c)
        \/ AssignDriver(c)
        \/ AcceptJob(c)
        \/ ReassignJob(c)
        \/ SetOperationalStatus(c)
        \/ MarkJobEnRoute(c)
        \/ MarkJobArrived(c)
        \/ CompleteJob(c)
        \/ RecordFailedAttempt(c)
        \/ JobHandler(c)
        \/ JobCrash(c)

(* A Worker that is not killed runs its handler to the end. *)
ShipmentFairness == \A c \in Calls : WF_shipmentVars(JobHandler(c))

ShipmentSpec == ShipmentInit /\ [][ShipmentNext]_shipmentVars /\ ShipmentFairness

-----------------------------------------------------------------------------
(* Properties. *)

(* "never overwrites a prior attempt" (logistics-delivery.ts:12-14): the   *)
(* rows of a job are numbered 1, 2, ... up to its attempt_count, each once.*)
AttemptsAreNumbered ==
    \A j \in Jobs :
        /\ {n \in 1 .. MaxAttempts : \E outcome \in Outcomes : <<j, n, outcome>> \in attempts}
              = 1 .. attempt_count[j]
        /\ \A n \in 1 .. MaxAttempts :
              ~ (<<j, n, "succeeded">> \in attempts /\ <<j, n, "failed">> \in attempts)

ShipmentTypes ==
    /\ shipment_status \in [Shipments -> ShipmentStatuses]
    /\ job_status \in [Jobs -> JobStatuses]
    /\ driver \in [Jobs -> Drivers \union {NULL}]
    /\ attempt_count \in [Jobs -> 0 .. MaxAttempts]
    /\ attempts \subseteq Jobs \X (1 .. MaxAttempts) \X Outcomes
    /\ operational_status \in [Drivers -> OperationalStatuses]
    /\ pc \in [Calls -> JobLocations]
    /\ job \in [Calls -> Jobs \union {NULL}]
    /\ who \in [Calls -> Drivers \union {NULL}]
    /\ count \in [Calls -> 0 .. MaxAttempts]
    /\ next_status \in [Calls -> ShipmentStatuses \union {NULL}]
    /\ unplanned \in 0 .. MaxUnplanned
    /\ went_through \in [Shipments -> SUBSET ShipmentStatuses]

(* Types, and the numbering of the attempts. *)
ShipmentTypeOK == ShipmentTypes /\ AttemptsAreNumbered

Succeeded(s, type) == \E n \in 1 .. MaxAttempts : <<<<s, type>>, n, "succeeded">> \in attempts

(* "NEVER TRUST A CLIENT-SIDE DELIVERED BUTTON" (logistics-delivery.ts:6): *)
(* a parcel is only delivered after it was picked up and taken out, with a *)
(* successful attempt of either job in the ledger, whatever calls overlap. *)
DeliveredIsProven ==
    \A s \in Shipments :
        /\ "picked_up" \in went_through[s] =>
              /\ Succeeded(s, "pickup")
              /\ {"awaiting_pickup", "assigned", "driver_en_route_to_pickup",
                  "arrived_pickup"} \subseteq went_through[s]
        /\ "delivered" \in went_through[s] =>
              /\ Succeeded(s, "delivery")
              /\ {"picked_up", "out_for_delivery"} \subseteq went_through[s]

(* A job changes hands only by way of being unassigned: "two dispatchers   *)
(* racing to assign the same job can never both succeed"                   *)
(* (logistics-dispatch.ts:11-15).  And the two jobs of a shipment come     *)
(* together, unless the Worker died between them.                          *)
JobKeepsItsDriver ==
    \A j \in Jobs : driver'[j] # driver[j] => NULL \in {driver[j], driver'[j]}

DispatchMakesBothJobs ==
    \A s \in Shipments :
        job_status[<<s, "pickup">>] # "absent" =>
            \/ job_status[<<s, "delivery">>] # "absent"
            \/ \E c \in Calls : job[c] = <<s, "pickup">> /\ pc[c] = "insert_delivery"
            \/ \E c \in Calls : pc[c] = "dead"

DispatchedOnce == []DispatchMakesBothJobs /\ [][JobKeepsItsDriver]_shipmentVars

(* A finished delivery shows: the status machine of the shipments was      *)
(* mended because it "silently stranded shipment.status at 'picked_up'     *)
(* forever for any single-driver local delivery"                           *)
(* (logistics-tracking.ts:53-59).                                          *)
CompletedDeliveryShows ==
    \A s \in Shipments :
        /\ job_status[<<s, "delivery">>] = "completed"
        /\ job_status[<<s, "pickup">>] = "completed"
        /\ \A c \in Calls : pc[c] = "idle"
        => shipment_status[s] = "delivered"

(* "Releases the current driver back to 'available'"                       *)
(* (logistics-dispatch.ts:133-136): a driver marked 'assigned' has a job,  *)
(* once no call is in flight.  The mark and the release are statements of  *)
(* their own, after the job was written.                                   *)
MarkedDriverHasAJob ==
    (\A c \in Calls : pc[c] = "idle") =>
        \A d \in Drivers :
            operational_status[d] = "assigned" => \E j \in Jobs : driver[j] = d
=============================================================================
