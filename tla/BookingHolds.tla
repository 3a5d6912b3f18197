---------------------------- MODULE BookingHolds ----------------------------
(***************************************************************************)
(* The capacity of one bookable resource: createHold, releaseHold and      *)
(* createBookingFromHold (src/src/lib/booking-holds.ts), and the release   *)
(* of a booking's allocation by transitionBooking (booking-lifecycle.ts).  *)
(*                                                                         *)
(* A request is one HTTP request in a Worker; one SQL statement is one     *)
(* action.  A booking, with its allocation, is named by the request that   *)
(* inserts it.  Holds are numbered as their ids are handed out, requests   *)
(* as they arrive.  Time is the moment a hold's expires_at goes by: now()  *)
(* is read in each request before its statement, so an action sees a hold  *)
(* lapsed from the step Lapse takes on.                                    *)
(*                                                                         *)
(* A window of time is the set of the slots it overlaps.                   *)
(***************************************************************************)
EXTENDS BookingLifecycle, Integers, FiniteSets, Sums, Workers

CONSTANTS
    MaxHolds,   \* bound: holds ever inserted
    Slots,      \* moments two windows may both contain
    Windows,    \* windows customers ask for
    Units,      \* bound: capacities customers ask for
    Capacity,   \* booking_resources.capacity_units
    Closable,   \* bound: slots the provider may close
    booking_mode,\* bookable_listings.booking_mode: instant or request
    MaxRequests,\* bound: HTTP requests
    MaxCrashes  \* bound: Workers that die mid-request

ASSUME HoldsAssumption ==
    /\ Windows \subseteq (SUBSET Slots) \ {{}}
    /\ Units \subseteq Nat \ {0}
    /\ Capacity \in Nat
    /\ Closable \subseteq Slots
    /\ booking_mode \in DOMAIN FirstStatus
    /\ {MaxHolds, MaxRequests, MaxCrashes} \subseteq Nat
    /\ NULL \notin Nat

Holds == 1..MaxHolds
Requests == 1..MaxRequests

VARIABLES
    hold_status,    \* booking_holds.status, "none" without a row
    window,         \* booking_holds.starts_at .. ends_at
    units,          \* booking_holds.capacity_requested
    lapsed,         \* whether expires_at <= now
    blocked,        \* slots with a booking_availability_blocks row
    booking_status, \* bookings.status, "none" without a row
    allocation,     \* booking_resource_allocations.status, "none" without a row
    hold,           \* the hold a confirmation works on
    booking,        \* the booking a transition works on
    from_status,    \* bookings.status as a transition read it
    to_status,      \* what it is asked to write
    crashed         \* requests whose Worker died

holdVars == <<hold_status, window, units, lapsed>>
bookingVars == <<booking_status, allocation>>
localVars == <<hold, booking, from_status, to_status>>
vars == <<holdVars, blocked, bookingVars, localVars, pc, crashed>>

Locations == {"idle", "expire", "claim", "insert", "allocate",
              "transition", "release", "done"}

Init ==
    /\ hold_status = [h \in Holds |-> "none"]
    /\ window = [h \in Holds |-> {}]
    /\ units = [h \in Holds |-> 0]
    /\ lapsed = [h \in Holds |-> FALSE]
    /\ blocked = {}
    /\ booking_status = [r \in Requests |-> "none"]
    /\ allocation = [r \in Requests |-> "none"]
    /\ pc = [r \in Requests |-> "idle"]
    /\ hold = [r \in Requests |-> NULL]
    /\ booking = [r \in Requests |-> NULL]
    /\ from_status = [r \in Requests |-> "none"]
    /\ to_status = [r \in Requests |-> "none"]
    /\ crashed = {}

At(r, location) == pc[r] = location /\ r \notin crashed
Arrives(r) == At(r, "idle") /\ \A q \in Requests : q < r => pc[q] # "idle"
Goto(r, location) == pc' = [pc EXCEPT ![r] = location]

-----------------------------------------------------------------------------
(* A deliberate fault, for the mutation runs. *)
CountedIgnoringTime(h) == hold_status[h] = "active"

(* Capacity accounting: an active hold counts until its expires_at, swept  *)
(* or not; an active allocation counts.                                    *)
Counted(h) == hold_status[h] = "active" /\ ~lapsed[h]

CountedHolds(w) == {h \in Holds : Counted(h) /\ window[h] \intersect w # {}}

ActiveAllocations(w) ==
    {r \in Requests : allocation[r] = "active" /\ window[hold[r]] \intersect w # {}}

UnitsOf(bookings) == [r \in bookings |-> units[hold[r]]]

Consumed(w) ==
    SumOver(units, CountedHolds(w))
      + SumOver(UnitsOf(ActiveAllocations(w)), ActiveAllocations(w))

(* A deliberate fault, for the mutation runs. *)
FitsForgettingAllocations(w, n) ==
    /\ Capacity - SumOver(units, CountedHolds(w)) >= n
    /\ blocked \intersect w = {}

Fits(w, n) ==
    /\ Capacity - Consumed(w) >= n
    /\ blocked \intersect w = {}

(* createHold: expireHoldsIfNeeded sweeps the resource's lapsed holds, and *)
(* one INSERT ... SELECT ... WHERE inserts the hold if it fits.  The sweep *)
(* changes nothing the INSERT counts, so the two are one action.  A hold   *)
(* that does not fit leaves only the sweep behind.                         *)
Swept ==
    [h \in Holds |-> IF hold_status[h] = "active" /\ lapsed[h] THEN "expired"
                     ELSE hold_status[h]]

NextHold(h) ==
    hold_status[h] = "none" /\ \A g \in Holds : g < h => hold_status[g] # "none"

CreateHold(h, w, n) ==
    /\ NextHold(h)
    /\ \/ /\ Fits(w, n)
          /\ hold_status' = [Swept EXCEPT ![h] = "active"]
          /\ window' = [window EXCEPT ![h] = w]
          /\ units' = [units EXCEPT ![h] = n]
       \/ /\ ~Fits(w, n)
          /\ hold_status' = Swept
          /\ UNCHANGED <<window, units>>
    /\ UNCHANGED <<lapsed, blocked, bookingVars, localVars, pc, crashed>>

(* releaseHold: the customer gives an active hold back. *)
CanRelease(h) == hold_status[h] = "active"

ReleaseHold(h) ==
    /\ CanRelease(h)
    /\ hold_status' = [hold_status EXCEPT ![h] = "released"]
    /\ UNCHANGED <<window, units, lapsed, blocked, bookingVars, localVars, pc, crashed>>

(* expires_at goes by.  No statement looks at it once the hold is not      *)
(* active.                                                                 *)
Lapse(h) ==
    /\ hold_status[h] = "active"
    /\ ~lapsed[h]
    /\ lapsed' = [lapsed EXCEPT ![h] = TRUE]
    /\ UNCHANGED <<hold_status, window, units, blocked, bookingVars, localVars, pc, crashed>>

(* createAvailabilityBlock: the provider closes a slot for new holds. *)
BlockSlot(s) ==
    /\ s \notin blocked
    /\ blocked' = blocked \union {s}
    /\ UNCHANGED <<holdVars, bookingVars, localVars, pc, crashed>>

-----------------------------------------------------------------------------
(* createBookingFromHold: read the hold, claim it, insert the booking,     *)
(* insert the allocation.  Four statements, each committed on its own.     *)

ConfirmRead(r, h) ==
    /\ Arrives(r)
    /\ hold_status[h] # "none"
    /\ hold' = [hold EXCEPT ![r] = h]
    /\ Goto(r, CASE hold_status[h] # "active" -> "done"
                 [] hold_status[h] = "active" /\ lapsed[h] -> "expire"
                 [] OTHER -> "claim")
    /\ UNCHANGED <<holdVars, blocked, bookingVars, booking, from_status, to_status, crashed>>

(* The hold it read had lapsed: UPDATE ... WHERE id = ?, whatever became   *)
(* of the hold since.                                                      *)
ConfirmExpire(r) ==
    /\ At(r, "expire")
    /\ hold_status' = [hold_status EXCEPT ![hold[r]] = "expired"]
    /\ Goto(r, "done")
    /\ UNCHANGED <<window, units, lapsed, blocked, bookingVars, localVars, crashed>>

(* A deliberate fault, for the mutation runs. *)
CanConvertAny(h) == hold_status[h] # "none"

(* The CAS from active to converted.  expires_at is not looked at again.   *)
CanConvert(h) == hold_status[h] = "active"

ConfirmClaim(r) ==
    LET h == hold[r] IN
    /\ At(r, "claim")
    /\ \/ /\ CanConvert(h)
          /\ hold_status' = [hold_status EXCEPT ![h] = "converted"]
          /\ Goto(r, "insert")
       \/ /\ ~CanConvert(h)
          /\ Goto(r, "done")
          /\ UNCHANGED hold_status
    /\ UNCHANGED <<window, units, lapsed, blocked, bookingVars, localVars, crashed>>

InsertBooking(r) ==
    /\ At(r, "insert")
    /\ booking_status' = [booking_status EXCEPT ![r] = FirstStatus[booking_mode]]
    /\ Goto(r, "allocate")
    /\ UNCHANGED <<holdVars, blocked, allocation, localVars, crashed>>

InsertAllocation(r) ==
    /\ At(r, "allocate")
    /\ allocation' = [allocation EXCEPT ![r] = "active"]
    /\ Goto(r, "done")
    /\ UNCHANGED <<holdVars, blocked, booking_status, localVars, crashed>>

-----------------------------------------------------------------------------
(* transitionBooking, as the routes call it: read the booking and look the *)
(* move up, CAS the status, then release the allocation.                   *)

TransitionRead(r, b) ==
    /\ Arrives(r)
    /\ booking_status[b] # "none"
    /\ \E role \in DOMAIN RequestedTransitions :
         \E to \in RequestedTransitions[role] :
           /\ <<booking_status[b], to>> \in Transitions[role]
           /\ to_status' = [to_status EXCEPT ![r] = to]
    /\ booking' = [booking EXCEPT ![r] = b]
    /\ from_status' = [from_status EXCEPT ![r] = booking_status[b]]
    /\ Goto(r, "transition")
    /\ UNCHANGED <<holdVars, blocked, bookingVars, hold, crashed>>

CanTransition(r) == booking_status[booking[r]] = from_status[r]

(* A deliberate fault, for the mutation runs. *)
AfterTransitionAlways(to) == "release"

AfterTransition(to) == IF to \in FreesTheSlot THEN "release" ELSE "done"

TransitionWrite(r) ==
    LET b == booking[r] IN
    /\ At(r, "transition")
    /\ \/ /\ CanTransition(r)
          /\ booking_status' = [booking_status EXCEPT ![b] = to_status[r]]
          /\ Goto(r, AfterTransition(to_status[r]))
       \/ /\ ~CanTransition(r)
          /\ Goto(r, "done")
          /\ UNCHANGED booking_status
    /\ from_status' = [from_status EXCEPT ![r] = "none"]
    /\ to_status' = [to_status EXCEPT ![r] = "none"]
    /\ UNCHANGED <<holdVars, blocked, allocation, hold, booking, crashed>>

ReleaseAllocation(r) ==
    LET b == booking[r] IN
    /\ At(r, "release")
    /\ allocation' = [allocation EXCEPT ![b] = IF @ = "active" THEN "released" ELSE @]
    /\ Goto(r, "done")
    /\ UNCHANGED <<holdVars, blocked, booking_status, localVars, crashed>>

(* The Worker dies between two statements. *)
Crash(r) ==
    /\ pc[r] \notin {"idle", "done"}
    /\ r \notin crashed
    /\ Cardinality(crashed) < MaxCrashes
    /\ crashed' = crashed \union {r}
    /\ UNCHANGED <<holdVars, blocked, bookingVars, localVars, pc>>

-----------------------------------------------------------------------------
(* What a request does once it has started. *)
Continue(r) ==
    \/ ConfirmExpire(r)
    \/ ConfirmClaim(r)
    \/ InsertBooking(r)
    \/ InsertAllocation(r)
    \/ TransitionWrite(r)
    \/ ReleaseAllocation(r)

Next ==
    \/ \E h \in Holds :
         \/ \E w \in Windows, n \in Units : CreateHold(h, w, n)
         \/ ReleaseHold(h)
         \/ Lapse(h)
    \/ \E s \in Closable : BlockSlot(s)
    \/ \E r \in Requests :
         \/ \E h \in Holds : ConfirmRead(r, h)
         \/ \E b \in Requests : TransitionRead(r, b)
         \/ Continue(r)
         \/ Crash(r)

Spec == Init /\ [][Next]_vars

(* A Worker that is alive goes on; time goes on. *)
FairSpec ==
    /\ Spec
    /\ \A r \in Requests : WF_vars(Continue(r))
    /\ \A h \in Holds : WF_vars(Lapse(h))

-----------------------------------------------------------------------------
(* Every variable keeps to the values the tables and the code allow. *)
TypeOK ==
    /\ hold_status \in [Holds -> {"none", "active", "converted", "released", "expired"}]
    /\ window \in [Holds -> Windows \union {{}}]
    /\ units \in [Holds -> Units \union {0}]
    /\ lapsed \in [Holds -> BOOLEAN]
    /\ blocked \in SUBSET Slots
    /\ booking_status \in [Requests -> BookingStatuses \union {"none"}]
    /\ allocation \in [Requests -> {"none", "active", "released"}]
    /\ pc \in [Requests -> Locations]
    /\ hold \in [Requests -> Holds \union {NULL}]
    /\ booking \in [Requests -> Requests \union {NULL}]
    /\ from_status \in [Requests -> BookingStatuses \union {"none"}]
    /\ to_status \in [Requests -> BookingStatuses \union {"none"}]
    /\ crashed \in SUBSET Requests

-----------------------------------------------------------------------------
(* Properties. *)

(* The request has claimed its hold. *)
Converted(r) ==
    \/ At(r, "insert") \/ At(r, "allocate")
    \/ booking_status[r] # "none"

(* booking-holds.ts:168-169: a hold "can never be double-converted into    *)
(* two bookings", however many confirmations of it race.                   *)
OneBookingPerHold ==
    \A r, q \in Requests :
        Converted(r) /\ Converted(q) /\ hold[r] = hold[q] => r = q

(* A hold that became a booking never counts again nor goes back to the    *)
(* customer: it stays converted, or a confirmation that had read it late   *)
(* marks it expired.  Otherwise its units would count twice.               *)
SpentHoldStaysSpent ==
    \A r \in Requests : Converted(r) =>
        \/ hold_status[hold[r]] = "converted"
        \/ hold_status[hold[r]] = "expired" /\ lapsed[hold[r]]

(* A hold makes one booking and is spent by it.                            *)
HoldSpentOnce == OneBookingPerHold /\ SpentHoldStaysSpent

(* A booking that is still on keeps the capacity it was given: once its    *)
(* confirmation is over, its allocation is active until a transition to    *)
(* one of the statuses that free the slot has won.                         *)
LiveBookingKeepsItsPlace ==
    \A r \in Requests :
        /\ booking_status[r] # "none"
        /\ booking_status[r] \notin FreesTheSlot
        /\ pc[r] = "done"
        => allocation[r] = "active"

(* Capacity is oversold only by an allocation for a hold that is not       *)
(* counted any more.  No new hold, however many race for the last unit,    *)
(* brings a slot over its capacity; and a slot that is oversold takes none.*)
SoldIn(s) == Consumed({s})

HoldsNeverOversell ==
    [][\A s \in Slots :
         SoldIn(s)' > SoldIn(s) /\ SoldIn(s)' > Capacity =>
           \E r \in Requests : allocation[r] = "none" /\ allocation'[r] = "active"]_vars

(* booking-holds.ts:23-31: a hold nobody confirms or gives back stops      *)
(* counting on its own, swept or not, also when its Worker died.           *)
HoldsRunOut == \A h \in Holds : Counted(h) ~> ~Counted(h)

(* booking-lifecycle.ts:291-294, "cancellation must free the slot": a      *)
(* booking whose allocation was in place and that then ends gives its      *)
(* capacity back, if no Worker dies.                                       *)
Ended(b) == booking_status[b] \in FreesTheSlot

EndedBookingFreesItsPlace ==
    \A b \in Requests :
        [](allocation[b] = "active" /\ ~Ended(b)
             => [](Ended(b) => <>(allocation[b] = "released" \/ crashed # {})))

(* Capacity that was taken comes back: from holds nobody confirms and from *)
(* bookings that end.                                                      *)
CapacityComesBack == HoldsRunOut /\ EndedBookingFreesItsPlace

(* booking-holds.ts:18-20: "two simultaneous customers must never both get *)
(* confirmed bookings when capacity is insufficient".                      *)
LiveBookings(s) ==
    {r \in Requests : /\ booking_status[r] # "none"
                      /\ booking_status[r] \notin FreesTheSlot
                      /\ s \in window[hold[r]]}

NeverOverbooked ==
    \A s \in Slots : SumOver(UnitsOf(LiveBookings(s)), LiveBookings(s)) <= Capacity
=============================================================================
