---------------------------- MODULE LimitsProofs ----------------------------
(***************************************************************************)
(* What there is only so much of, for any numbers of requests and deaths   *)
(* of Workers: the capacity of a slot (BookingHolds), and the uses of a    *)
(* coupon and the units of a cart (Checkout).                              *)
(*                                                                         *)
(* Bookings: that a hold makes one booking rests on when it was claimed:   *)
(* from then on it is spent, and no statement makes a spent hold active    *)
(* again.  A request whose Worker died after its claim counts too, so the  *)
(* invariant speaks of Claimed and not of Converted.                       *)
(*                                                                         *)
(* The checkout: the uses are counted over the orders and the claims that  *)
(* have no order yet.  The customer's account has one equation for every   *)
(* place a call can stand at: between the calls it balances, and within    *)
(* one it is off by exactly what that call has still to write.             *)
(***************************************************************************)
EXTENDS BookingHolds, Checkout, CommonLemmas

-----------------------------------------------------------------------------
(* The capacity of a slot.                                                 *)

Claimed(r) == pc[r] \in {"insert", "allocate"} \/ booking_status[r] # "none"

Spent(h) ==
    hold_status[h] = "converted" \/ (hold_status[h] = "expired" /\ lapsed[h])

(* A confirmation works on a hold that exists, and one about to mark it    *)
(* expired has seen it lapsed.                                             *)
ConfirmInv ==
    \A r \in Requests :
        /\ pc[r] \in {"expire", "claim"} \/ Claimed(r) =>
              hold[r] \in Holds /\ hold_status[hold[r]] # "none"
        /\ pc[r] = "expire" => lapsed[hold[r]]
        /\ booking_status[r] # "none" => pc[r] \in {"allocate", "done"}

(* A claimed hold is spent, and claimed by one request. *)
ClaimInv ==
    /\ \A r \in Requests : Claimed(r) => Spent(hold[r])
    /\ \A r, q \in Requests : Claimed(r) /\ Claimed(q) /\ hold[r] = hold[q] => r = q

(* A transition goes along the table from where it read the booking; one   *)
(* about to release the allocation has ended the booking.                  *)
TransitionInv ==
    \A r \in Requests :
        /\ pc[r] = "transition" =>
              /\ booking[r] \in Requests
              /\ from_status[r] \in BookingStatuses \ FreesTheSlot
              /\ to_status[r] \in BookingStatuses
        /\ pc[r] = "release" =>
              booking[r] \in Requests /\ booking_status[booking[r]] \in FreesTheSlot

(* An allocation is inserted once, by the confirmation of its booking. *)
AllocationInv ==
    \A r \in Requests :
        /\ pc[r] = "allocate" => booking_status[r] # "none"
        /\ allocation[r] # "none" => pc[r] = "done" /\ booking_status[r] # "none"

Inv ==
    /\ TypeOK
    /\ ConfirmInv
    /\ ClaimInv
    /\ TransitionInv
    /\ AllocationInv
    /\ LiveBookingKeepsItsPlace

-----------------------------------------------------------------------------
(* NULL is no hold and no request. *)
LEMMA NullIsNoId == NULL \notin Holds /\ NULL \notin Requests
BY HoldsAssumption DEF Holds, Requests

(* A booking starts in a status of the table that keeps its slot. *)
LEMMA FirstStatusTyped == FirstStatus[booking_mode] \in BookingStatuses \ FreesTheSlot
BY HoldsAssumption DEF FirstStatus, BookingStatuses, FreesTheSlot

(* A booking that does not exist is in none of the statuses. *)
LEMMA NoneIsNoStatus == "none" \notin BookingStatuses /\ "none" \notin FreesTheSlot
BY DEF BookingStatuses, FreesTheSlot

(* No move of the table leaves a status that has freed the slot. *)
LEMMA EndedIsFinal ==
    ASSUME NEW role \in DOMAIN RequestedTransitions, NEW from, NEW to,
           <<from, to>> \in Transitions[role]
    PROVE  from \in BookingStatuses \ FreesTheSlot /\ to \in BookingStatuses
<1>1. role = "customer" \/ role = "provider"
    BY DEF RequestedTransitions
<1>2. CASE role = "customer"
    BY <1>2 DEF Transitions, BookingStatuses, FreesTheSlot
<1>3. CASE role = "provider"
    BY <1>3 DEF Transitions, BookingStatuses, FreesTheSlot
<1>. QED
    BY <1>1, <1>2, <1>3

(* The empty tables satisfy the invariant. *)
LEMMA InitInv == Init => Inv
<1> SUFFICES ASSUME Init PROVE Inv
    OBVIOUS
<1>1. TypeOK
    BY DEF Init, TypeOK, Locations
<1>2. ConfirmInv /\ ClaimInv /\ TransitionInv /\ AllocationInv /\ LiveBookingKeepsItsPlace
    BY DEF Init, ConfirmInv, ClaimInv, TransitionInv, AllocationInv,
       LiveBookingKeepsItsPlace, Claimed
<1>. QED
    BY <1>1, <1>2 DEF Inv

-----------------------------------------------------------------------------
(* One lemma per action. *)

(* createHold, with its sweep, touches no hold that is spent. *)
LEMMA CreateHoldKeeps ==
    ASSUME Inv, NEW h \in Holds, NEW w \in Windows, NEW n \in Units, CreateHold(h, w, n)
    PROVE  Inv'
<1> USE NullIsNoId DEF Inv
<1> DEFINE Statuses == {"none", "active", "converted", "released", "expired"}
<1>1. Swept \in [Holds -> Statuses]
    BY DEF Swept, TypeOK
<1>2. hold_status' = Swept \/ hold_status' = [Swept EXCEPT ![h] = "active"]
    BY DEF CreateHold
<1>3. \A g \in Holds : hold_status'[g] = Swept[g] \/ (g = h /\ hold_status'[g] = "active")
    BY <1>1, <1>2
<1>4. \A g \in Holds :
        /\ hold_status'[g] = "active" => g = h \/ hold_status[g] = "active"
        /\ hold_status[g] # "none" => hold_status'[g] # "none"
        /\ Spent(g) => Spent(g)'
    <2>1. hold_status[h] = "none" /\ UNCHANGED lapsed
        BY DEF CreateHold, NextHold
    <2>2. \A g \in Holds :
            /\ Swept[g] = "active" => hold_status[g] = "active"
            /\ hold_status[g] # "none" => Swept[g] # "none"
            /\ Spent(g) => Swept[g] = hold_status[g]
        BY DEF Swept, Spent
    <2>. QED
        BY <1>3, <2>1, <2>2 DEF Spent
<1>5. TypeOK'
    <2>1. hold_status' \in [Holds -> Statuses]
        BY <1>1, <1>2
    <2>2. window' \in [Holds -> Windows \union {{}}] /\ units' \in [Holds -> Units \union {0}]
        BY DEF CreateHold, TypeOK
    <2>. QED
        BY <2>1, <2>2 DEF CreateHold, TypeOK, bookingVars, localVars
<1>6. ConfirmInv'
    BY <1>4 DEF CreateHold, ConfirmInv, Claimed, bookingVars, localVars
<1>7. ClaimInv'
    BY <1>4 DEF CreateHold, ClaimInv, ConfirmInv, Claimed, bookingVars,
       localVars
<1>8. TransitionInv' /\ AllocationInv' /\ LiveBookingKeepsItsPlace'
    BY DEF CreateHold, TransitionInv, AllocationInv, LiveBookingKeepsItsPlace,
       bookingVars, localVars
<1>. QED
    BY <1>5, <1>6, <1>7, <1>8 DEF Inv

(* releaseHold touches only an active hold. *)
LEMMA ReleaseHoldKeeps ==
    ASSUME Inv, NEW h \in Holds, ReleaseHold(h)
    PROVE  Inv'
<1> USE NullIsNoId DEF Inv
<1>1. TypeOK'
    BY DEF ReleaseHold, CanRelease, TypeOK, Locations, holdVars, bookingVars,
       localVars
<1>2. ConfirmInv'
    BY DEF ReleaseHold, CanRelease, ConfirmInv, Claimed, bookingVars, localVars
<1>3. ClaimInv'
    BY DEF ReleaseHold, CanRelease, ClaimInv, Claimed, Spent, bookingVars,
       localVars
<1>4. TransitionInv'
    BY DEF ReleaseHold, CanRelease, TransitionInv, bookingVars, localVars
<1>5. LiveBookingKeepsItsPlace'
    BY DEF ReleaseHold, CanRelease, LiveBookingKeepsItsPlace, bookingVars,
       localVars
<1>6. AllocationInv'
    BY DEF ReleaseHold, CanRelease, bookingVars, localVars, AllocationInv,
       TypeOK, ConfirmInv
<1>. QED
    BY <1>1, <1>2, <1>3, <1>4, <1>5, <1>6 DEF Inv

(* A hold's time goes by. *)
LEMMA LapseKeeps ==
    ASSUME Inv, NEW h \in Holds, Lapse(h)
    PROVE  Inv'
<1> USE NullIsNoId DEF Inv
<1>1. TypeOK'
    BY DEF Lapse, TypeOK, Locations, holdVars, bookingVars, localVars
<1>2. ConfirmInv'
    BY DEF Lapse, ConfirmInv, Claimed, bookingVars, localVars
<1>3. ClaimInv'
    BY DEF Lapse, ClaimInv, Claimed, Spent, bookingVars, localVars
<1>4. TransitionInv'
    BY DEF Lapse, TransitionInv, bookingVars, localVars
<1>5. LiveBookingKeepsItsPlace'
    BY DEF Lapse, LiveBookingKeepsItsPlace, bookingVars, localVars
<1>6. AllocationInv'
    BY DEF Lapse, bookingVars, localVars, AllocationInv, TypeOK, ConfirmInv
<1>. QED
    BY <1>1, <1>2, <1>3, <1>4, <1>5, <1>6 DEF Inv

(* The provider closes a slot. *)
LEMMA BlockSlotKeeps ==
    ASSUME Inv, NEW s \in Closable, BlockSlot(s)
    PROVE  Inv'
<1> USE NullIsNoId DEF Inv
<1>1. TypeOK'
    BY HoldsAssumption DEF BlockSlot, TypeOK, Locations, holdVars, bookingVars,
       localVars
<1>2. ConfirmInv'
    BY HoldsAssumption DEF BlockSlot, ConfirmInv, Claimed, holdVars,
       bookingVars, localVars
<1>3. ClaimInv'
    BY HoldsAssumption DEF BlockSlot, ClaimInv, Claimed, Spent, holdVars,
       bookingVars, localVars
<1>4. TransitionInv'
    BY HoldsAssumption DEF BlockSlot, TransitionInv, holdVars, bookingVars,
       localVars
<1>5. LiveBookingKeepsItsPlace'
    BY HoldsAssumption DEF BlockSlot, LiveBookingKeepsItsPlace, holdVars,
       bookingVars, localVars
<1>6. AllocationInv'
    BY HoldsAssumption DEF BlockSlot, holdVars, bookingVars, localVars,
       AllocationInv, TypeOK, ConfirmInv
<1>. QED
    BY <1>1, <1>2, <1>3, <1>4, <1>5, <1>6 DEF Inv

(* A confirmation reads its hold. *)
LEMMA ConfirmReadKeeps ==
    ASSUME Inv, NEW r \in Requests, NEW h \in Holds, ConfirmRead(r, h)
    PROVE  Inv'
<1> USE NullIsNoId DEF Inv
<1>1. TypeOK'
    BY DEF ConfirmRead, At, Arrives, Goto, TypeOK, Locations, holdVars,
       bookingVars, localVars
<1>2. ConfirmInv'
    BY DEF ConfirmRead, At, Arrives, Goto, ConfirmInv, Claimed, TypeOK,
       holdVars, bookingVars, localVars
<1>3. ClaimInv'
    BY DEF ConfirmRead, At, Arrives, Goto, ClaimInv, ConfirmInv, Claimed,
       Spent, holdVars, bookingVars, localVars
<1>4. TransitionInv'
    BY DEF ConfirmRead, At, Arrives, Goto, TransitionInv, holdVars, bookingVars
<1>5. LiveBookingKeepsItsPlace'
    BY DEF ConfirmRead, At, Arrives, Goto, LiveBookingKeepsItsPlace,
       ConfirmInv, holdVars, bookingVars, localVars
<1>6. AllocationInv'
    BY DEF ConfirmRead, At, Arrives, Goto, holdVars, bookingVars,
       AllocationInv, TypeOK, ConfirmInv
<1>. QED
    BY <1>1, <1>2, <1>3, <1>4, <1>5, <1>6 DEF Inv

(* A confirmation marks a lapsed hold expired. *)
LEMMA ConfirmExpireKeeps ==
    ASSUME Inv, NEW r \in Requests, ConfirmExpire(r)
    PROVE  Inv'
<1> USE NullIsNoId DEF Inv
<1>1. TypeOK'
    BY DEF ConfirmExpire, At, Goto, TypeOK, Locations, holdVars, bookingVars,
       localVars
<1>2. ConfirmInv'
    BY DEF ConfirmExpire, At, Goto, ConfirmInv, Claimed, bookingVars, localVars
<1>3. ClaimInv'
    BY DEF ConfirmExpire, At, Goto, ClaimInv, ConfirmInv, Claimed, Spent,
       holdVars, bookingVars, localVars
<1>4. TransitionInv'
    BY DEF ConfirmExpire, At, Goto, TransitionInv, bookingVars, localVars
<1>5. LiveBookingKeepsItsPlace'
    BY DEF ConfirmExpire, At, Goto, LiveBookingKeepsItsPlace, ConfirmInv,
       holdVars, bookingVars, localVars
<1>6. AllocationInv'
    BY DEF ConfirmExpire, At, Goto, bookingVars, localVars, AllocationInv,
       TypeOK, ConfirmInv
<1>. QED
    BY <1>1, <1>2, <1>3, <1>4, <1>5, <1>6 DEF Inv

(* A confirmation claims its hold, or finds it no longer active. *)
LEMMA ConfirmClaimKeeps ==
    ASSUME Inv, NEW r \in Requests, ConfirmClaim(r)
    PROVE  Inv'
<1> USE NullIsNoId DEF Inv
<1>1. TypeOK'
    BY DEF ConfirmClaim, At, Goto, CanConvert, TypeOK, Locations, holdVars,
       bookingVars, localVars
<1>2. ConfirmInv'
    BY DEF ConfirmClaim, At, Goto, CanConvert, ConfirmInv, Claimed, TypeOK,
       holdVars, bookingVars, localVars
<1>3. ClaimInv'
    BY DEF ConfirmClaim, At, Goto, CanConvert, ClaimInv, ConfirmInv, Claimed,
       Spent, TypeOK, holdVars, bookingVars, localVars
<1>4. TransitionInv'
    BY DEF ConfirmClaim, At, Goto, CanConvert, TransitionInv, TypeOK, holdVars,
       bookingVars, localVars
<1>5. LiveBookingKeepsItsPlace'
    BY DEF ConfirmClaim, At, Goto, CanConvert, LiveBookingKeepsItsPlace,
       ConfirmInv, TypeOK, holdVars, bookingVars, localVars
<1>6. AllocationInv'
    BY DEF ConfirmClaim, At, Goto, CanConvert, TypeOK, holdVars, bookingVars,
       localVars, AllocationInv, TypeOK, ConfirmInv
<1>. QED
    BY <1>1, <1>2, <1>3, <1>4, <1>5, <1>6 DEF Inv

(* The booking of a claimed hold is inserted. *)
LEMMA InsertBookingKeeps ==
    ASSUME Inv, NEW r \in Requests, InsertBooking(r)
    PROVE  Inv'
<1> USE NullIsNoId DEF Inv
<1>1. TypeOK'
    BY FirstStatusTyped, NoneIsNoStatus DEF InsertBooking, At, Goto, TypeOK,
       Locations, holdVars, bookingVars, localVars
<1>2. ConfirmInv'
    BY FirstStatusTyped, NoneIsNoStatus DEF InsertBooking, At, Goto,
       ConfirmInv, Claimed, TypeOK, holdVars, bookingVars, localVars
<1>3. ClaimInv'
    BY FirstStatusTyped, NoneIsNoStatus DEF InsertBooking, At, Goto, ClaimInv,
       Claimed, Spent, holdVars, localVars
<1>4. TransitionInv'
    BY FirstStatusTyped, NoneIsNoStatus DEF InsertBooking, At, Goto,
       TransitionInv, ConfirmInv, holdVars, bookingVars, localVars
<1>5. LiveBookingKeepsItsPlace'
    BY FirstStatusTyped, NoneIsNoStatus DEF InsertBooking, At, Goto,
       LiveBookingKeepsItsPlace, holdVars, localVars
<1>6. AllocationInv'
    BY FirstStatusTyped, NoneIsNoStatus DEF InsertBooking, At, Goto,
       ConfirmInv, holdVars, bookingVars, localVars, AllocationInv, TypeOK,
       ConfirmInv
<1>. QED
    BY <1>1, <1>2, <1>3, <1>4, <1>5, <1>6 DEF Inv

(* The allocation of a booking is inserted. *)
LEMMA InsertAllocationKeeps ==
    ASSUME Inv, NEW r \in Requests, InsertAllocation(r)
    PROVE  Inv'
<1> USE NullIsNoId DEF Inv
<1>1. TypeOK'
    BY DEF InsertAllocation, At, Goto, TypeOK, Locations, holdVars,
       bookingVars, localVars
<1>2. ConfirmInv'
    BY DEF InsertAllocation, At, Goto, ConfirmInv, Claimed, holdVars, localVars
<1>3. ClaimInv'
    BY DEF InsertAllocation, At, Goto, ClaimInv, Claimed, Spent, holdVars,
       localVars
<1>4. TransitionInv'
    BY DEF InsertAllocation, At, Goto, TransitionInv, holdVars, localVars
<1>5. LiveBookingKeepsItsPlace'
    BY DEF InsertAllocation, At, Goto, LiveBookingKeepsItsPlace, ConfirmInv,
       TypeOK, holdVars, bookingVars, localVars
<1>6. AllocationInv'
    BY DEF InsertAllocation, At, Goto, holdVars, localVars, AllocationInv,
       TypeOK, ConfirmInv
<1>. QED
    BY <1>1, <1>2, <1>3, <1>4, <1>5, <1>6 DEF Inv

(* A transition reads its booking and looks the move up. *)
LEMMA TransitionReadKeeps ==
    ASSUME Inv, NEW r \in Requests, NEW b \in Requests, TransitionRead(r, b)
    PROVE  Inv'
<1> USE NullIsNoId DEF Inv
<1>1. TypeOK'
    BY EndedIsFinal DEF TransitionRead, At, Arrives, Goto, TypeOK, Locations,
       holdVars, bookingVars, localVars
<1>2. ConfirmInv'
    BY EndedIsFinal DEF TransitionRead, At, Arrives, Goto, ConfirmInv, Claimed,
       holdVars, bookingVars
<1>3. ClaimInv'
    BY EndedIsFinal DEF TransitionRead, At, Arrives, Goto, ClaimInv, Claimed,
       Spent, holdVars, bookingVars
<1>4. TransitionInv'
    BY EndedIsFinal DEF TransitionRead, At, Arrives, Goto, TransitionInv,
       TypeOK, holdVars, bookingVars, localVars
<1>5. LiveBookingKeepsItsPlace'
    BY EndedIsFinal DEF TransitionRead, At, Arrives, Goto,
       LiveBookingKeepsItsPlace, holdVars, bookingVars
<1>6. AllocationInv'
    BY EndedIsFinal DEF TransitionRead, At, Arrives, Goto, TypeOK, holdVars,
       bookingVars, localVars, AllocationInv, TypeOK, ConfirmInv
<1>. QED
    BY <1>1, <1>2, <1>3, <1>4, <1>5, <1>6 DEF Inv

(* A transition writes the status, or loses to another. *)
LEMMA TransitionWriteKeeps ==
    ASSUME Inv, NEW r \in Requests, TransitionWrite(r)
    PROVE  Inv'
<1> USE NullIsNoId, NoneIsNoStatus DEF Inv
<1>1. booking_status \in [Requests -> BookingStatuses \union {"none"}]
      /\ pc \in [Requests -> Locations]
    BY DEF TypeOK
<1>2. \A q \in Requests : booking_status'[q] # "none" <=> booking_status[q] # "none"
    <2>1. booking[r] \in Requests /\ from_status[r] # "none" /\ to_status[r] # "none"
        BY DEF TransitionWrite, At, TransitionInv
    <2>. QED
        BY <1>1, <2>1 DEF TransitionWrite, CanTransition
<1>3. pc[r] = "transition" /\ pc'[r] \in {"release", "done"}
      /\ \A q \in Requests : q # r => pc'[q] = pc[q]
    BY <1>1 DEF TransitionWrite, At, Goto, AfterTransition
<1>4. \A q \in Requests : Claimed(q)' <=> Claimed(q)
    BY <1>2, <1>3 DEF Claimed
<1>5. UNCHANGED <<holdVars, hold>>
    BY DEF TransitionWrite
<1>6. TypeOK'
    BY DEF TransitionWrite, At, Goto, CanTransition, AfterTransition, TypeOK,
       Locations, holdVars
<1>7. ConfirmInv'
    BY <1>2, <1>3, <1>4, <1>5 DEF ConfirmInv, holdVars
<1>8. ClaimInv'
    BY <1>4, <1>5 DEF ClaimInv, Spent, holdVars
<1>9. TransitionInv'
    BY DEF TransitionWrite, At, Goto, CanTransition, AfterTransition,
       TransitionInv, TypeOK
<1>10. LiveBookingKeepsItsPlace'
    BY DEF TransitionWrite, At, Goto, CanTransition, AfterTransition,
       LiveBookingKeepsItsPlace, ConfirmInv, TransitionInv, TypeOK
<1>11. AllocationInv'
    BY <1>2, <1>3 DEF TransitionWrite, AllocationInv
<1>. QED
    BY <1>6, <1>7, <1>8, <1>9, <1>10, <1>11 DEF Inv

(* The allocation of an ended booking is released. *)
LEMMA ReleaseAllocationKeeps ==
    ASSUME Inv, NEW r \in Requests, ReleaseAllocation(r)
    PROVE  Inv'
<1> USE NullIsNoId DEF Inv
<1>1. TypeOK'
    BY DEF ReleaseAllocation, At, Goto, TypeOK, Locations, holdVars,
       bookingVars, localVars
<1>2. ConfirmInv'
    BY DEF ReleaseAllocation, At, Goto, ConfirmInv, Claimed, holdVars,
       localVars
<1>3. ClaimInv'
    BY DEF ReleaseAllocation, At, Goto, ClaimInv, Claimed, Spent, holdVars,
       localVars
<1>4. TransitionInv'
    BY DEF ReleaseAllocation, At, Goto, TransitionInv, holdVars, localVars
<1>5. LiveBookingKeepsItsPlace'
    BY DEF ReleaseAllocation, At, Goto, LiveBookingKeepsItsPlace, ConfirmInv,
       TransitionInv, holdVars, bookingVars, localVars
<1>6. AllocationInv'
    BY DEF ReleaseAllocation, At, Goto, holdVars, localVars, AllocationInv,
       TypeOK, ConfirmInv
<1>. QED
    BY <1>1, <1>2, <1>3, <1>4, <1>5, <1>6 DEF Inv

(* A Worker dies. *)
LEMMA CrashKeeps ==
    ASSUME Inv, NEW r \in Requests, Crash(r)
    PROVE  Inv'
<1> USE NullIsNoId DEF Inv
<1>1. TypeOK'
    BY DEF Crash, TypeOK, Locations, holdVars, bookingVars, localVars
<1>2. ConfirmInv'
    BY DEF Crash, ConfirmInv, Claimed, holdVars, bookingVars, localVars
<1>3. ClaimInv'
    BY DEF Crash, ClaimInv, Claimed, Spent, holdVars, bookingVars, localVars
<1>4. TransitionInv'
    BY DEF Crash, TransitionInv, holdVars, bookingVars, localVars
<1>5. LiveBookingKeepsItsPlace'
    BY DEF Crash, LiveBookingKeepsItsPlace, holdVars, bookingVars, localVars
<1>6. AllocationInv'
    BY DEF Crash, holdVars, bookingVars, localVars, AllocationInv, TypeOK,
       ConfirmInv
<1>. QED
    BY <1>1, <1>2, <1>3, <1>4, <1>5, <1>6 DEF Inv

-----------------------------------------------------------------------------
(* Every step keeps the invariant. *)
LEMMA NextKeeps == Inv /\ [Next]_vars => Inv'
<1> SUFFICES ASSUME Inv, [Next]_vars PROVE Inv'
    OBVIOUS
<1>1. ASSUME NEW h \in Holds,
             \/ \E w \in Windows, n \in Units : CreateHold(h, w, n)
             \/ ReleaseHold(h)
             \/ Lapse(h)
      PROVE  Inv'
    BY <1>1, CreateHoldKeeps, ReleaseHoldKeeps, LapseKeeps
<1>2. ASSUME NEW s \in Closable, BlockSlot(s) PROVE Inv'
    BY <1>2, BlockSlotKeeps
<1>3. ASSUME NEW r \in Requests,
             \/ \E h \in Holds : ConfirmRead(r, h)
             \/ \E b \in Requests : TransitionRead(r, b)
      PROVE  Inv'
    BY <1>3, ConfirmReadKeeps, TransitionReadKeeps
<1>4. ASSUME NEW r \in Requests, Continue(r) PROVE Inv'
    BY <1>4, ConfirmExpireKeeps, ConfirmClaimKeeps, InsertBookingKeeps,
       InsertAllocationKeeps, TransitionWriteKeeps, ReleaseAllocationKeeps DEF
       Continue
<1>5. ASSUME NEW r \in Requests, Crash(r) PROVE Inv'
    BY <1>5, CrashKeeps
<1>6. CASE UNCHANGED vars
    BY <1>6 DEF vars, holdVars, bookingVars, localVars, Inv, TypeOK,
       ConfirmInv, ClaimInv, TransitionInv, AllocationInv, LiveBookingKeepsItsPlace,
       Claimed, Spent
<1>. QED
    BY <1>1, <1>2, <1>3, <1>4, <1>5, <1>6 DEF Next

(* The invariant holds throughout. *)
THEOREM Invariance == Spec => []Inv
BY InitInv, NextKeeps, PTL DEF Spec

(* Every variable keeps to the values the tables and the code allow. *)
THEOREM TypeCorrectness == Spec => []TypeOK
<1>1. Inv => TypeOK
    BY DEF Inv
<1>. QED
    BY <1>1, Invariance, PTL

(* A hold is never converted into two bookings, however many confirmations *)
(* of it race and whichever of them die (createBookingFromHold's CAS); and *)
(* its units are never counted again beside the booking's own: no release, *)
(* sweep or late confirmation makes the hold active.                       *)
THEOREM HoldsAreSpentOnce == Spec => []HoldSpentOnce
<1>1. Inv => OneBookingPerHold
    BY DEF Inv, ClaimInv, OneBookingPerHold, Converted, Claimed, At
<1>2. Inv => SpentHoldStaysSpent
    BY DEF Inv, ClaimInv, SpentHoldStaysSpent, Spent, Converted, Claimed, At
<1>3. Inv => HoldSpentOnce
    BY <1>1, <1>2 DEF HoldSpentOnce
<1>. QED
    BY <1>3, Invariance, PTL

(* A booking that has not ended keeps its allocation, whatever transitions *)
(* race on it and whatever stale status they read.                         *)
THEOREM LiveBookingsKeepTheirPlace == Spec => []LiveBookingKeepsItsPlace
<1>1. Inv => LiveBookingKeepsItsPlace
    BY DEF Inv
<1>. QED
    BY <1>1, Invariance, PTL

-----------------------------------------------------------------------------
(* How much of a slot is sold, from one step to the next. *)

(* What is summed is finite and whole. *)
LEMMA SoldTerms ==
    ASSUME Inv, NEW w
    PROVE  /\ IsFiniteSet(CountedHolds(w))
           /\ CountedHolds(w) \subseteq Holds
           /\ \A h \in Holds : units[h] \in Nat
           /\ IsFiniteSet(ActiveAllocations(w))
           /\ ActiveAllocations(w) \subseteq Requests
           /\ \A r \in ActiveAllocations(w) :
                /\ pc[r] = "done" /\ hold[r] \in Holds /\ hold_status[hold[r]] # "none"
                /\ UnitsOf(ActiveAllocations(w))[r] = units[hold[r]]
                /\ units[hold[r]] \in Nat
<1>1. IsFiniteSet(Holds) /\ IsFiniteSet(Requests)
    BY FS_Interval, HoldsAssumption DEF Holds, Requests
<1>2. \A h \in Holds : units[h] \in Nat
    <2>1. units \in [Holds -> Units \union {0}]
        BY DEF Inv, TypeOK
    <2>2. Units \union {0} \subseteq Nat
        BY HoldsAssumption
    <2>. QED
        BY <2>1, <2>2
<1>3. CountedHolds(w) \subseteq Holds /\ ActiveAllocations(w) \subseteq Requests
    BY DEF CountedHolds, ActiveAllocations
<1>4. \A r \in ActiveAllocations(w) :
        pc[r] = "done" /\ hold[r] \in Holds /\ hold_status[hold[r]] # "none"
    BY DEF Inv, AllocationInv, ConfirmInv, Claimed, ActiveAllocations
<1>. QED
    BY <1>1, <1>2, <1>3, <1>4, FS_Subset DEF UnitsOf

(* No more is sold in a slot by a step that adds neither a hold nor an     *)
(* allocation to what counts there.                                        *)
LEMMA SoldShrinks ==
    ASSUME Inv, NEW s \in Slots,
           CountedHolds({s})' \subseteq CountedHolds({s}),
           \A h \in CountedHolds({s}) : units'[h] = units[h],
           ActiveAllocations({s})' \subseteq ActiveAllocations({s}),
           \A r \in ActiveAllocations({s}) : units'[hold'[r]] = units[hold[r]]
    PROVE  ~(SoldIn(s)' > SoldIn(s))
<1> DEFINE counted == CountedHolds({s})
           countedAfter == CountedHolds({s})'
           allocated == ActiveAllocations({s})
           allocatedAfter == ActiveAllocations({s})'
           taken == UnitsOf(allocated)
           takenAfter == [r \in allocatedAfter |-> units'[hold'[r]]]
<1>1. /\ SoldIn(s) = SumOver(units, counted) + SumOver(taken, allocated)
      /\ SoldIn(s)' = SumOver(units', countedAfter) + SumOver(takenAfter, allocatedAfter)
    BY DEF SoldIn, Consumed, UnitsOf
<1>2. /\ IsFiniteSet(counted) /\ \A h \in counted : units[h] \in Nat
      /\ IsFiniteSet(allocated) /\ \A r \in allocated : taken[r] \in Nat
    BY SoldTerms
<1>3. /\ countedAfter \in SUBSET counted /\ \A h \in countedAfter : units'[h] = units[h]
      /\ allocatedAfter \in SUBSET allocated
    OBVIOUS
<1>4. \A r \in allocatedAfter : takenAfter[r] = taken[r]
    BY <1>3, SoldTerms
<1> HIDE DEF counted, countedAfter, allocated, allocatedAfter, taken, takenAfter
<1>5. /\ SumOver(units', countedAfter) <= SumOver(units, counted)
      /\ SumOver(units', countedAfter) \in Int /\ SumOver(units, counted) \in Int
    BY <1>2, <1>3, SumOverShrinks
<1>6. /\ SumOver(takenAfter, allocatedAfter) <= SumOver(taken, allocated)
      /\ SumOver(takenAfter, allocatedAfter) \in Int /\ SumOver(taken, allocated) \in Int
    BY <1>2, <1>3, <1>4, SumOverShrinks
<1>. QED
    BY <1>1, <1>5, <1>6

(* What is sold in one slot of a window is part of what is sold in it all. *)
LEMMA SoldInWindow ==
    ASSUME Inv, NEW w, NEW s \in w
    PROVE  SoldIn(s) <= Consumed(w) /\ SoldIn(s) \in Int /\ Consumed(w) \in Int
<1> DEFINE few == UnitsOf(ActiveAllocations({s}))
           many == UnitsOf(ActiveAllocations(w))
<1>1. CountedHolds({s}) \in SUBSET CountedHolds(w)
      /\ ActiveAllocations({s}) \in SUBSET ActiveAllocations(w)
    BY DEF CountedHolds, ActiveAllocations
<1>2. /\ IsFiniteSet(CountedHolds(w)) /\ \A h \in CountedHolds(w) : units[h] \in Nat
      /\ IsFiniteSet(ActiveAllocations(w)) /\ \A r \in ActiveAllocations(w) : many[r] \in Nat
    BY SoldTerms
<1>3. \A r \in ActiveAllocations({s}) : few[r] = many[r]
    BY <1>1, SoldTerms
<1> HIDE DEF few, many
<1>4. /\ SumOver(units, CountedHolds({s})) <= SumOver(units, CountedHolds(w))
      /\ SumOver(units, CountedHolds({s})) \in Int
      /\ SumOver(units, CountedHolds(w)) \in Int
    BY <1>1, <1>2, SumOverShrinks
<1>5. /\ SumOver(few, ActiveAllocations({s})) <= SumOver(many, ActiveAllocations(w))
      /\ SumOver(few, ActiveAllocations({s})) \in Int
      /\ SumOver(many, ActiveAllocations(w)) \in Int
    BY <1>1, <1>2, <1>3, SumOverShrinks
<1>6. /\ SoldIn(s) = SumOver(units, CountedHolds({s})) + SumOver(few, ActiveAllocations({s}))
      /\ Consumed(w) = SumOver(units, CountedHolds(w)) + SumOver(many, ActiveAllocations(w))
    BY DEF SoldIn, Consumed, few, many
<1>. QED
    BY <1>4, <1>5, <1>6

(* A step that makes no hold count and inserts no allocation sells nothing.*)
LEMMA QuietStep ==
    ASSUME Inv, UNCHANGED <<window, units>>,
           \A h \in Holds : Counted(h)' => Counted(h),
           \A r \in Requests : allocation'[r] = "active" => allocation[r] = "active",
           \A r \in Requests : pc[r] = "done" => hold'[r] = hold[r],
           NEW s \in Slots
    PROVE  ~(SoldIn(s)' > SoldIn(s))
<1>1. CountedHolds({s})' \subseteq CountedHolds({s})
    BY DEF CountedHolds
<1>2. \A r \in ActiveAllocations({s}) : hold'[r] = hold[r]
    BY SoldTerms
<1>3. ActiveAllocations({s})' \subseteq ActiveAllocations({s})
    <2> SUFFICES ASSUME NEW r \in ActiveAllocations({s})'
                 PROVE  r \in ActiveAllocations({s})
        OBVIOUS
    <2>1. /\ r \in Requests /\ allocation[r] = "active"
          /\ window[hold'[r]] \intersect {s} # {}
        BY DEF ActiveAllocations
    <2>2. pc[r] = "done"
        BY <2>1 DEF Inv, AllocationInv
    <2>. QED
        BY <2>1, <2>2 DEF ActiveAllocations
<1>. QED
    BY <1>1, <1>2, <1>3, SoldShrinks

(* createHold: the units it adds fit beside what the window it asks for    *)
(* already holds, which includes every slot of that window.                *)
LEMMA CreateHoldFits ==
    ASSUME Inv, NEW h \in Holds, NEW w \in Windows, NEW n \in Units, CreateHold(h, w, n),
           NEW s \in Slots
    PROVE  SoldIn(s)' > SoldIn(s) => ~(SoldIn(s)' > Capacity)
<1>1. /\ hold_status[h] = "none"
      /\ UNCHANGED <<lapsed, allocation, hold, pc>>
    BY DEF CreateHold, NextHold, bookingVars, localVars
<1>2. \A g \in Holds : Swept[g] = "active" => hold_status[g] = "active"
    BY DEF Swept
<1>3. Swept \in [Holds -> {"none", "active", "converted", "released", "expired"}]
    BY DEF Swept, Inv, TypeOK
<1>4. CASE ~Fits(w, n)
    <2>1. hold_status' = Swept /\ UNCHANGED <<window, units>>
        BY <1>4 DEF CreateHold
    <2>2. \A g \in Holds : Counted(g)' => Counted(g)
        BY <1>1, <1>2, <2>1 DEF Counted
    <2>. QED
        BY <1>1, <2>1, <2>2, QuietStep
<1>5. CASE Fits(w, n)
    <2>1. /\ hold_status' = [Swept EXCEPT ![h] = "active"]
          /\ window' = [window EXCEPT ![h] = w]
          /\ units' = [units EXCEPT ![h] = n]
        BY <1>5 DEF CreateHold
    <2>2. /\ \A g \in Holds \ {h} : window'[g] = window[g] /\ units'[g] = units[g]
          /\ window'[h] = w /\ units'[h] = n
        BY <2>1 DEF Inv, TypeOK
    <2>3. \A g \in Holds \ {h} : Counted(g)' => Counted(g)
        BY <1>1, <1>2, <1>3, <2>1 DEF Counted
    <2>4. h \notin CountedHolds({s})
        BY <1>1 DEF CountedHolds, Counted
    <2>5. \A r \in Requests : allocation[r] = "active" =>
             hold[r] \in Holds /\ hold[r] # h /\ window'[hold[r]] = window[hold[r]]
             /\ units'[hold[r]] = units[hold[r]]
        BY <1>1, <2>2 DEF Inv, AllocationInv, ConfirmInv, Claimed
    <2>6. ActiveAllocations({s})' = ActiveAllocations({s})
        BY <1>1, <2>5 DEF ActiveAllocations
    <2>7. CASE s \notin w
        <3>1. CountedHolds({s})' \subseteq CountedHolds({s})
            BY <2>2, <2>3, <2>7 DEF CountedHolds
        <3>2. \A g \in CountedHolds({s}) : units'[g] = units[g]
            BY <2>2, <2>4, SoldTerms
        <3>3. \A r \in ActiveAllocations({s}) : units'[hold'[r]] = units[hold[r]]
            BY <1>1, <2>5 DEF ActiveAllocations
        <3>. QED
            BY <2>6, <3>1, <3>2, <3>3, SoldShrinks
    <2>8. CASE s \in w
        <3> DEFINE counted == CountedHolds({s})
                   countedAfter == CountedHolds({s})'
                   allocated == ActiveAllocations({s})
                   taken == UnitsOf(allocated)
                   takenAfter == [r \in allocated |-> units'[hold[r]]]
        <3>1. /\ SoldIn(s) = SumOver(units, counted) + SumOver(taken, allocated)
              /\ SoldIn(s)' = SumOver(units', countedAfter) + SumOver(takenAfter, allocated)
            BY <1>1, <2>6 DEF SoldIn, Consumed, UnitsOf
        <3>2. /\ IsFiniteSet(counted) /\ \A g \in counted : units[g] \in Nat
              /\ IsFiniteSet(allocated) /\ \A r \in allocated : taken[r] \in Nat
            BY SoldTerms
        <3>3. countedAfter \in SUBSET (counted \union {h}) /\ h \notin counted
            BY <2>2, <2>3, <2>4 DEF CountedHolds
        <3>4. /\ \A g \in counted : units'[g] = units[g]
              /\ \A r \in allocated : takenAfter[r] = taken[r]
            BY <2>2, <2>4, <2>5, SoldTerms DEF ActiveAllocations, UnitsOf
        <3>5. units'[h] = n /\ n \in Nat /\ Capacity \in Nat
            BY <2>2, HoldsAssumption
        <3>6. Capacity - Consumed(w) >= n
            BY <1>5 DEF Fits
        <3>7. SoldIn(s) <= Consumed(w) /\ SoldIn(s) \in Int /\ Consumed(w) \in Int
            BY <2>8, SoldInWindow
        <3> HIDE DEF counted, countedAfter, allocated, taken, takenAfter
        <3>8. /\ SumOver(units', countedAfter) <= SumOver(units, counted) + n
              /\ SumOver(units', countedAfter) \in Int /\ SumOver(units, counted) \in Int
            BY <3>2, <3>3, <3>4, <3>5, SumOverGrows
        <3>9. /\ SumOver(takenAfter, allocated) = SumOver(taken, allocated)
              /\ SumOver(taken, allocated) \in Int
            BY <3>2, <3>4, SumOverAgree, SumOverInt
        <3>. QED
            BY <3>1, <3>5, <3>6, <3>7, <3>8, <3>9
    <2>. QED
        BY <2>7, <2>8
<1>. QED
    BY <1>4, <1>5

(* Apart from createHold and an allocation's INSERT, no step sells.        *)
LEMMA OtherStepsSellNothing ==
    ASSUME Inv, NEW s \in Slots,
           \/ \E h \in Holds : ReleaseHold(h) \/ Lapse(h)
           \/ \E t \in Closable : BlockSlot(t)
           \/ \E r \in Requests :
                \/ \E h \in Holds : ConfirmRead(r, h)
                \/ \E b \in Requests : TransitionRead(r, b)
                \/ ConfirmExpire(r) \/ ConfirmClaim(r) \/ InsertBooking(r)
                \/ TransitionWrite(r) \/ ReleaseAllocation(r) \/ Crash(r)
           \/ UNCHANGED vars
    PROVE  ~(SoldIn(s)' > SoldIn(s))
<1>1. UNCHANGED <<window, units>>
    BY DEF ReleaseHold, Lapse, BlockSlot, ConfirmRead, TransitionRead, ConfirmExpire,
       ConfirmClaim, InsertBooking, TransitionWrite, ReleaseAllocation, Crash, vars, holdVars
<1>2. \A h \in Holds : Counted(h)' => Counted(h)
    BY DEF Counted, ReleaseHold, Lapse, BlockSlot, ConfirmRead, TransitionRead, ConfirmExpire,
       ConfirmClaim, InsertBooking, TransitionWrite, ReleaseAllocation, Crash, vars, holdVars,
       Inv, TypeOK
<1>3. \A r \in Requests : allocation'[r] = "active" => allocation[r] = "active"
    BY DEF ReleaseHold, Lapse, BlockSlot, ConfirmRead, TransitionRead, ConfirmExpire,
       ConfirmClaim, InsertBooking, TransitionWrite, ReleaseAllocation, Crash, vars,
       bookingVars, Inv, TypeOK
<1>4. \A r \in Requests : pc[r] = "done" => hold'[r] = hold[r]
    BY DEF ReleaseHold, Lapse, BlockSlot, ConfirmRead, TransitionRead, ConfirmExpire,
       ConfirmClaim, InsertBooking, TransitionWrite, ReleaseAllocation, Crash, vars,
       localVars, Arrives, At, Inv, TypeOK
<1>. QED
    BY <1>1, <1>2, <1>3, <1>4, QuietStep

(* An allocation that is inserted was not there before.                    *)
LEMMA AllocationIsNew ==
    ASSUME Inv, NEW r \in Requests, InsertAllocation(r)
    PROVE  allocation[r] = "none" /\ allocation'[r] = "active"
BY DEF InsertAllocation, At, Inv, AllocationInv, TypeOK

(* However many requests for the last unit race, no new hold brings a slot *)
(* over its capacity, and a slot that is oversold takes none (the guarded  *)
(* INSERT of createHold, whatever the sweep, the releases and the dying    *)
(* Workers around it did): only the allocation of a booking whose hold had *)
(* stopped counting can oversell.                                          *)
THEOREM HoldsNeverOversellCapacity == Spec => HoldsNeverOversell
<1> DEFINE Allowed ==
             \A s \in Slots :
               SoldIn(s)' > SoldIn(s) /\ SoldIn(s)' > Capacity =>
                 \E r \in Requests : allocation[r] = "none" /\ allocation'[r] = "active"
<1>1. Inv /\ [Next]_vars => Allowed
    <2> SUFFICES ASSUME Inv, [Next]_vars, NEW s \in Slots,
                        SoldIn(s)' > SoldIn(s), SoldIn(s)' > Capacity
                 PROVE  \E r \in Requests : allocation[r] = "none" /\ allocation'[r] = "active"
        OBVIOUS
    <2>1. \E r \in Requests : InsertAllocation(r)
        BY CreateHoldFits, OtherStepsSellNothing DEF Next, Continue
    <2>. QED
        BY <2>1, AllocationIsNew
<1>2. Allowed => [Allowed]_vars
    OBVIOUS
<1>. QED
    BY <1>1, <1>2, Invariance, PTL DEF Spec, HoldsNeverOversell

-----------------------------------------------------------------------------
(* The uses of a coupon and the units of a cart.                           *)

(* The bill of an order. *)
IsBillOf(o, goods) ==
    /\ orders[o].total = Subtotal(goods) + DeliveryFee(goods) - orders[o].discount
    /\ orders[o].discount <= Subtotal(goods)
    /\ orders[o].discount > 0 => orders[o].coupon

(* What a call holds, where it stands. *)
CheckoutCallOK(c) ==
    /\ pc[c] = "idle" => items[c] = None
    /\ pc[c] \in {"insert", "update"} => listing[c] \in Listings /\ quantity[c] > 0
    /\ pc[c] = "update" => row[c] \in Rows
    /\ pc[c] \in {"order_items", "pay"} => order[c] # NULL
    /\ pc[c] \notin {"order_items", "pay", "remove", "dead"} => order[c] = NULL
    /\ order[c] # NULL => orders[order[c]] # NULL
    /\ pc[c] = "order_items" => IsBillOf(order[c], items[c])
    /\ claimed[c] => pc[c] \in {"order", "dead"}

CheckoutCallInv == \A c \in Calls : CheckoutCallOK(c)

OrderHasOneCall == \A c, d \in Calls : order[c] # NULL /\ order[c] = order[d] => c = d

Claims == {c \in Calls : claimed[c]}
Uses == {o \in OrderIds : orders[o] # NULL /\ orders[o].coupon}

UsesInv ==
    /\ IsFiniteSet(Claims)
    /\ usage_count <= usageLimit
    /\ usage_count = Cardinality(Uses) + Cardinality(Claims)

(* The account of what the customer wanted, while nothing disturbed it. *)
Held(l) == UnitsIn(HeldRows(l))

Balanced == \A l \in Listings : wanted[l] = Held(l) + guest_items[l]

Checks == {"coupon", "claim", "order", "order_items", "pay"}

(* What the call is about to add to the listing it works on. *)
Adding(c) == quantity[c] - (IF pc[c] = "update" THEN cart_items[row[c]].quantity ELSE 0)

AccountOK(c) ==
    /\ pc[c] \in Checks => Balanced
    /\ pc[c] \in Checks /\ from_cart[c] => \A l \in Listings : items[c][l] = CartUnits(l)
    /\ pc[c] = "remove" => \A l \in Listings :
          /\ items[c][l] = CartUnits(l)
          /\ wanted[l] = Held(l) + guest_items[l] - items[c][l]
    /\ pc[c] = "merge" => \A l \in Listings : wanted[l] = Held(l) + items[c][l]
    /\ pc[c] \in {"insert", "update"} /\ items[c] # None =>
          /\ \A l \in Listings : wanted[l] = Held(l) + items[c][l]
          /\ items[c][listing[c]] = Adding(c)
    /\ pc[c] \in {"insert", "update"} /\ items[c] = None =>
          \A l \in Listings :
             wanted[l] = Held(l) + guest_items[l] + IF l = listing[c] THEN Adding(c) ELSE 0
    /\ pc[c] = "update" =>
          /\ cart_items[row[c]] # NULL
          /\ cart_items[row[c]].listing = listing[c]

AccountInv ==
    ~disturbed =>
        /\ \A c \in Calls : pc[c] # "dead"
        /\ \A c, d \in Calls : pc[c] # "idle" /\ pc[d] # "idle" => c = d
        /\ (\A c \in Calls : pc[c] = "idle") => Balanced
        /\ \A c \in Calls : AccountOK(c)

CheckoutInv ==
    /\ CheckoutTypeOK
    /\ CheckoutCallInv
    /\ OrderHasOneCall
    /\ UsesInv
    /\ AccountInv

-----------------------------------------------------------------------------
(* The prices. *)

(* The product of two prices, quantities or percentages. *)
LEMMA ProductIsNat ==
    ASSUME NEW a \in Nat, NEW b \in Nat
    PROVE  a * b \in Nat
OBVIOUS

(* Terms that are not negative sum to what is not. *)
LEMMA SumOverIsNat ==
    ASSUME NEW f, NEW S, IsFiniteSet(S), \A x \in S : f[x] \in Nat
    PROVE  SumOver(f, S) \in Nat
<1>1. SumOver(f, S) \in Int
    BY SumOverInt
<1>2. SumOver(f, {}) <= SumOver(f, S)
    BY SumOverMonotone
<1>. QED
    BY <1>1, <1>2, SumOverEmpty

(* The price of any goods is an amount. *)
LEMMA SubtotalIsNat ==
    ASSUME NEW goods \in [Listings -> Nat]
    PROVE  Subtotal(goods) \in Nat
<1> DEFINE f == [l \in Listings |-> price[l] * goods[l]]
<1>1. \A l \in Listings : f[l] \in Nat
    BY ProductIsNat, CheckoutAssumption
<1>2. SumOver(f, Listings) \in Nat
    BY <1>1, SumOverIsNat, CheckoutAssumption
<1>. QED
    BY <1>2 DEF Subtotal

(* So is the delivery fee. *)
LEMMA DeliveryFeeIsNat ==
    ASSUME NEW goods
    PROVE  DeliveryFee(goods) \in Nat
<1>1. Bought(goods) \subseteq Listings /\ IsFiniteSet(Bought(goods))
    BY FS_Subset, CheckoutAssumption DEF Bought
<1>2. IsFiniteSet({vendor[l] : l \in Bought(goods)})
    <2> DEFINE image == {vendor[l] : l \in Bought(goods)}
    <2>1. [l \in Bought(goods) |-> vendor[l]] \in Surjection(Bought(goods), image)
        BY DEF Surjection
    <2>. QED
        BY <1>1, <2>1, FS_Surjection
<1>3. Cardinality({vendor[l] : l \in Bought(goods)}) \in Nat
    BY <1>2, FS_CardinalityType
<1>. QED
    BY <1>3, ProductIsNat, CheckoutAssumption DEF DeliveryFee

(* A discount is never above the goods. *)
LEMMA DiscountIsBounded ==
    ASSUME NEW subtotal \in Nat
    PROVE  Discount(subtotal) \in 0 .. subtotal
<1> DEFINE rounded == (subtotal * percent + 50) \div 100
<1>1. rounded \in Nat
    <2>1. subtotal * percent \in Nat
        BY ProductIsNat, CheckoutAssumption
    <2>. QED
        BY <2>1
<1>2. maxDiscount \in Nat
    BY CheckoutAssumption
<1>3. PICK x \in {rounded, maxDiscount, subtotal} :
         \A y \in {rounded, maxDiscount, subtotal} : x <= y
    BY <1>1, <1>2
<1>4. /\ Discount(subtotal) \in {rounded, maxDiscount, subtotal}
      /\ \A y \in {rounded, maxDiscount, subtotal} : Discount(subtotal) <= y
    BY <1>3 DEF Discount, Min
<1>. QED
    BY <1>1, <1>2, <1>4

(* What an order bills. *)
LEMMA TotalIsTheBill ==
    ASSUME NEW goods \in [Listings -> Nat], NEW discount \in 0 .. Subtotal(goods)
    PROVE  /\ Total(goods, discount) \in Nat
           /\ Total(goods, discount) = Subtotal(goods) + DeliveryFee(goods) - discount
<1> DEFINE due == Subtotal(goods) + DeliveryFee(goods) - discount
<1>1. due \in Nat
    BY SubtotalIsNat, DeliveryFeeIsNat
<1>2. Max({0, due}) = due
    <2>1. \A y \in {0, due} : due >= y
        BY <1>1
    <2>2. \A x \in {0, due} : (\A y \in {0, due} : x >= y) => x = due
        BY <1>1
    <2>. QED
        BY <2>1, <2>2 DEF Max
<1>. QED
    BY <1>1, <1>2 DEF Total

-----------------------------------------------------------------------------
(* The units in the cart. *)

Carts == [Rows -> CartRows \union {NULL}]

RowsOn(cart, l) == {r \in Rows : cart[r] # NULL /\ cart[r].listing = l}

SumOf(cart, rows) == SumOver([r \in rows |-> cart[r].quantity], rows)

(* What one row counts for a listing. *)
Part(v, l) == IF v # NULL /\ v.listing = l THEN v.quantity ELSE 0

(* The cart is finite. *)
LEMMA RowsAreFinite ==
    ASSUME NEW rows \in SUBSET Rows
    PROVE  IsFiniteSet(rows)
<1>1. IsFiniteSet(Rows)
    BY FS_Interval, CheckoutAssumption DEF Rows
<1>. QED
    BY <1>1, FS_Subset

(* A row more in the sum. *)
LEMMA SumOfAdd ==
    ASSUME NEW cart, NEW rows \in SUBSET Rows, NEW r \in Rows \ rows,
           \A x \in rows \union {r} : cart[x].quantity \in Nat
    PROVE  /\ SumOf(cart, rows \union {r}) = SumOf(cart, rows) + cart[r].quantity
           /\ SumOf(cart, rows) \in Int
<1> DEFINE f == [x \in rows \union {r} |-> cart[x].quantity]
           g == [x \in rows |-> cart[x].quantity]
<1>1. IsFiniteSet(rows)
    BY RowsAreFinite
<1>2. \A x \in rows \union {r} : f[x] \in Int
    OBVIOUS
<1>3. SumOver(f, rows \union {r}) = SumOver(f, rows) + f[r]
    BY <1>1, <1>2, SumOverAdd
<1>4. SumOver(f, rows) = SumOver(g, rows)
    <2>1. \A x \in rows : f[x] = g[x]
        OBVIOUS
    <2>. QED
        BY <1>1, <2>1, SumOverAgree
<1>5. SumOver(g, rows) \in Int
    <2>1. \A x \in rows : g[x] \in Int
        OBVIOUS
    <2>. QED
        BY <1>1, <2>1, SumOverInt
<1>. QED
    BY <1>3, <1>4, <1>5 DEF SumOf

(* Rows that agree sum to the same. *)
LEMMA SumOfAgree ==
    ASSUME NEW cart, NEW new, NEW rows,
           \A x \in rows : cart[x].quantity = new[x].quantity
    PROVE  SumOf(new, rows) = SumOf(cart, rows)
<1>1. [r \in rows |-> new[r].quantity] = [r \in rows |-> cart[r].quantity]
    OBVIOUS
<1>. QED
    BY <1>1 DEF SumOf

(* One row's part, and the others'. *)
LEMMA UnitsByRow ==
    ASSUME NEW cart \in Carts, NEW r \in Rows, NEW l
    PROVE  /\ SumOf(cart, RowsOn(cart, l)) = SumOf(cart, RowsOn(cart, l) \ {r}) + Part(cart[r], l)
           /\ SumOf(cart, RowsOn(cart, l) \ {r}) \in Int
           /\ Part(cart[r], l) \in Nat
<1> DEFINE rest == RowsOn(cart, l) \ {r}
<1>1. /\ rest \in SUBSET Rows
      /\ r \in Rows \ rest
      /\ \A x \in rest : cart[x].quantity \in Nat
      /\ Part(cart[r], l) \in Nat
    BY DEF RowsOn, Carts, CartRows, Part
<1>2. CASE r \in RowsOn(cart, l)
    <2>1. /\ cart[r].quantity \in Nat
          /\ RowsOn(cart, l) = rest \union {r}
          /\ Part(cart[r], l) = cart[r].quantity
        BY <1>2 DEF RowsOn, Carts, CartRows, Part
    <2>. QED
        BY <1>1, <2>1, SumOfAdd
<1>3. CASE r \notin RowsOn(cart, l)
    <2>1. RowsOn(cart, l) = rest /\ Part(cart[r], l) = 0
        BY <1>3 DEF RowsOn, Part
    <2>2. SumOf(cart, rest) \in Int
        <3>1. \A x \in rest : [y \in rest |-> cart[y].quantity][x] \in Int
            BY <1>1
        <3>. QED
            BY <1>1, <3>1, RowsAreFinite, SumOverInt DEF SumOf
    <2>3. SumOf(cart, RowsOn(cart, l)) = SumOf(cart, rest)
        BY <2>1
    <2> HIDE DEF rest
    <2>. QED
        BY <1>1, <2>1, <2>2, <2>3
<1>. QED
    BY <1>2, <1>3

(* Another row in its place. *)
LEMMA RowReplaced ==
    ASSUME NEW cart \in Carts, NEW new \in Carts, NEW r \in Rows, NEW l,
           \A x \in Rows : x # r => new[x] = cart[x]
    PROVE  /\ SumOf(new, RowsOn(new, l))
                = SumOf(cart, RowsOn(cart, l)) - Part(cart[r], l) + Part(new[r], l)
           /\ SumOf(cart, RowsOn(cart, l)) \in Int
           /\ Part(cart[r], l) \in Nat
           /\ Part(new[r], l) \in Nat
<1>1. RowsOn(new, l) \ {r} = RowsOn(cart, l) \ {r}
    BY DEF RowsOn
<1>2. SumOf(new, RowsOn(new, l) \ {r}) = SumOf(cart, RowsOn(cart, l) \ {r})
    <2>1. \A x \in RowsOn(cart, l) \ {r} : cart[x].quantity = new[x].quantity
        BY DEF RowsOn
    <2>2. SumOf(new, RowsOn(cart, l) \ {r}) = SumOf(cart, RowsOn(cart, l) \ {r})
        BY <2>1, SumOfAgree
    <2>. QED
        BY <1>1, <2>2
<1>3. /\ SumOf(cart, RowsOn(cart, l)) = SumOf(cart, RowsOn(cart, l) \ {r}) + Part(cart[r], l)
      /\ SumOf(cart, RowsOn(cart, l) \ {r}) \in Int
      /\ Part(cart[r], l) \in Nat
    BY UnitsByRow
<1>4. /\ SumOf(new, RowsOn(new, l)) = SumOf(new, RowsOn(new, l) \ {r}) + Part(new[r], l)
      /\ Part(new[r], l) \in Nat
    BY UnitsByRow
<1>. QED
    BY <1>2, <1>3, <1>4

(* What the model calls the units held. *)
LEMMA HeldIsSum ==
    ASSUME NEW l
    PROVE  /\ Held(l) = SumOf(cart_items, RowsOn(cart_items, l))
           /\ HeldRows(l) = RowsOn(cart_items, l)
           /\ CartUnits(l) = SumOf(cart_items, RowsOf(l))
BY DEF Held, HeldRows, UnitsIn, SumOf, RowsOn, CartUnits

(* Units are counted. *)
LEMMA UnitsAreNat ==
    ASSUME CheckoutTypes, NEW l
    PROVE  Held(l) \in Nat /\ CartUnits(l) \in Nat
<1>1. ASSUME NEW rows \in SUBSET Rows, \A r \in rows : cart_items[r] # NULL
      PROVE  UnitsIn(rows) \in Nat
    <2> DEFINE f == [r \in rows |-> cart_items[r].quantity]
    <2>1. \A r \in rows : f[r] \in Nat
        BY <1>1 DEF CheckoutTypes, CartRows
    <2>2. SumOver(f, rows) \in Nat
        BY <2>1, RowsAreFinite, SumOverIsNat
    <2>. QED
        BY <2>2 DEF UnitsIn
<1>. QED
    BY <1>1 DEF Held, HeldRows, CartUnits, RowsOf, InCart

-----------------------------------------------------------------------------
(* A step is one call's: the others stand where they stood. *)
OtherCheckouts(c) ==
    \A d \in Calls : d # c =>
        /\ pc'[d] = pc[d]
        /\ listing'[d] = listing[d]
        /\ quantity'[d] = quantity[d]
        /\ row'[d] = row[d]
        /\ items'[d] = items[d]
        /\ claimed'[d] = claimed[d]
        /\ order'[d] = order[d]

(* What is known of the other calls still holds after a step of one.       *)
LEMMA CallsStillOK ==
    ASSUME CheckoutInv, NEW c \in Calls, OtherCheckouts(c), CheckoutCallOK(c)',
           \A d \in Calls : d # c /\ order[d] # NULL => orders'[order[d]] = orders[order[d]],
           \/ order'[c] \in {order[c], NULL}
           \/ \A d \in Calls : order[d] # order'[c]
    PROVE  CheckoutCallInv' /\ OrderHasOneCall'
<1>1. ASSUME NEW d \in Calls, d # c
      PROVE  CheckoutCallOK(d)'
    <2>1. CheckoutCallOK(d)
        BY DEF CheckoutInv, CheckoutCallInv
    <2>2. /\ pc'[d] = pc[d]
          /\ listing'[d] = listing[d]
          /\ quantity'[d] = quantity[d]
          /\ row'[d] = row[d]
          /\ items'[d] = items[d]
          /\ claimed'[d] = claimed[d]
          /\ order'[d] = order[d]
        BY <1>1 DEF OtherCheckouts
    <2>3. order[d] # NULL => orders'[order[d]] = orders[order[d]]
        BY <1>1
    <2>. QED
        BY <2>1, <2>2, <2>3 DEF CheckoutCallOK, IsBillOf, None
<1>2. OrderHasOneCall'
    BY DEF CheckoutInv, OrderHasOneCall, OtherCheckouts
<1>. QED
    BY <1>1, <1>2 DEF CheckoutCallInv

(* A step that writes no order leaves every bill as it was. *)
LEMMA BillsKept ==
    ASSUME CheckoutInv, orders' = orders
    PROVE  BilledAsBought'
BY DEF CheckoutInv, CheckoutTypeOK, BilledAsBought, Bought, Subtotal, DeliveryFee

(* The uses of the coupon are still accounted for, when nobody claims one  *)
(* and no order is made.                                                   *)
LEMMA UsesKept ==
    ASSUME CheckoutInv, usage_count' = usage_count,
           \A c \in Calls : claimed'[c] = claimed[c],
           \A o \in OrderIds :
              (orders'[o] # NULL /\ orders'[o].coupon) <=> (orders[o] # NULL /\ orders[o].coupon)
    PROVE  UsesInv'
<1>1. Claims' = Claims
    BY DEF Claims
<1>2. Uses' = Uses
    BY DEF Uses
<1>. QED
    BY <1>1, <1>2 DEF CheckoutInv, UsesInv

(* The uses and the claims are finitely many. *)
LEMMA UsesAreCounted ==
    ASSUME CheckoutInv
    PROVE  /\ IsFiniteSet(Uses)
           /\ Cardinality(Uses) \in Nat
           /\ Cardinality(Claims) \in Nat
<1>1. IsFiniteSet(OrderIds)
    BY FS_Interval, CheckoutAssumption DEF OrderIds
<1>2. IsFiniteSet(Uses)
    BY <1>1, FS_Subset DEF Uses
<1>. QED
    BY <1>2, FS_CardinalityType DEF CheckoutInv, UsesInv

(* A call that is alone leaves the account in order if its own is.         *)
LEMMA AccountKept ==
    ASSUME NEW c \in Calls, OtherCheckouts(c),
           ~disturbed' =>
              /\ \A d \in Calls : d # c => pc[d] = "idle"
              /\ pc'[c] # "dead"
              /\ pc'[c] = "idle" => Balanced'
              /\ AccountOK(c)'
    PROVE  AccountInv'
<1> SUFFICES ASSUME ~disturbed'
             PROVE  /\ \A d \in Calls : pc'[d] # "dead"
                    /\ \A d, e \in Calls : pc'[d] # "idle" /\ pc'[e] # "idle" => d = e
                    /\ (\A d \in Calls : pc'[d] = "idle") => Balanced'
                    /\ \A d \in Calls : AccountOK(d)'
    BY DEF AccountInv
<1>1. \A d \in Calls : d # c => pc'[d] = "idle"
    BY DEF OtherCheckouts
<1>2. ASSUME NEW d \in Calls, d # c PROVE AccountOK(d)'
    BY <1>1, <1>2 DEF AccountOK, Checks
<1>. QED
    BY <1>1, <1>2

(* What a call that is at work knows of the account, while nothing         *)
(* disturbed it; and what every call knows before the next one begins.     *)
LEMMA AloneAtWork ==
    ASSUME CheckoutInv, NEW c \in Calls, pc[c] # "idle", ~disturbed
    PROVE  (\A d \in Calls : d # c => pc[d] = "idle") /\ AccountOK(c)
BY DEF CheckoutInv, AccountInv

(* Before a call begins that nothing disturbs, everyone waits and the      *)
(* account balances.                                                       *)
LEMMA BalancedBefore ==
    ASSUME CheckoutInv, Begun, ~disturbed'
    PROVE  (\A d \in Calls : pc[d] = "idle") /\ Balanced
BY DEF CheckoutInv, AccountInv, Begun, CheckoutTypeOK, CheckoutTypes

(* While the cart stands, so do the units in it. *)
LEMMA CartKept ==
    ASSUME cart_items' = cart_items
    PROVE  \A l \in Listings : Held(l)' = Held(l) /\ CartUnits(l)' = CartUnits(l)
BY DEF Held, HeldRows, UnitsIn, CartUnits, RowsOf, InCart

(* InsertOrder, of one order and for the discount it comes to.             *)
InsertsOrder(o, c, discount) ==
    /\ orders[o] = NULL
    /\ Step(c, "order", "order_items")
    /\ orders' = [orders EXCEPT ![o] =
            [coupon |-> claimed[c], discount |-> discount,
             total |-> Total(items[c], discount), items |-> None,
             status |-> "unpaid"]]
    /\ order' = [order EXCEPT ![c] = o]
    /\ claimed' = [claimed EXCEPT ![c] = FALSE]

(* Paying an order leaves its bill as it was. *)
LEMMA PaidAsBilled ==
    ASSUME CheckoutInv, NEW o \in OrderIds, orders[o] \in OrderRows,
           orders'[o] = [orders[o] EXCEPT !.status = "paid"],
           \A p \in OrderIds : p # o => orders'[p] = orders[p]
    PROVE  BilledAsBought'
<1>1. /\ orders'[o].items = orders[o].items
      /\ orders'[o].total = orders[o].total
      /\ orders'[o].discount = orders[o].discount
      /\ orders'[o].coupon = orders[o].coupon
    BY DEF OrderRows
<1>2. orders[o] # NULL
    BY CheckoutAssumption
<1>3. ASSUME NEW p \in OrderIds, orders'[p] # NULL, Bought(orders'[p].items) # {}
      PROVE  /\ orders'[p].total = Subtotal(orders'[p].items) + DeliveryFee(orders'[p].items)
                                   - orders'[p].discount
             /\ orders'[p].discount <= Subtotal(orders'[p].items)
             /\ orders'[p].discount > 0 => orders'[p].coupon
    <2>1. orders[p] # NULL /\ orders'[p].items = orders[p].items
          /\ orders'[p].total = orders[p].total /\ orders'[p].discount = orders[p].discount
          /\ orders'[p].coupon = orders[p].coupon
        BY <1>1, <1>2, <1>3
    <2>. QED
        BY <1>3, <2>1 DEF CheckoutInv, CheckoutTypeOK, BilledAsBought
<1>. QED
    BY <1>3 DEF BilledAsBought

(* The coupon is looked at.                                                *)
LEMMA ValidateCouponKeeps ==
    ASSUME CheckoutInv, NEW c \in Calls, ValidateCoupon(c)
    PROVE  CheckoutInv'
<1> USE CheckoutAssumption DEF ValidateCoupon, Step, Return, Forget, cartVars,
        couponVars, checkoutLocals, historyVars
<1>1. CheckoutTypes'
    BY DEF CheckoutInv, CheckoutTypeOK, CheckoutTypes, CheckoutLocations
<1>2. OtherCheckouts(c)
    BY DEF CheckoutInv, CheckoutTypeOK, CheckoutTypes, OtherCheckouts
<1>3. BilledAsBought'
    BY BillsKept
<1>4. CheckoutCallInv' /\ OrderHasOneCall'
    <2>1. CheckoutCallOK(c)'
        BY DEF CheckoutInv, CheckoutTypeOK, CheckoutTypes, CheckoutCallInv,
           CheckoutCallOK
    <2>. QED
        BY <1>2, <2>1, CallsStillOK DEF CheckoutInv, CheckoutTypeOK, CheckoutTypes
<1>5. UsesInv'
    BY UsesKept DEF CheckoutInv, CheckoutTypeOK, CheckoutTypes, CheckoutCallInv,
       CheckoutCallOK
<1>6. AccountInv'
    <2> SUFFICES ASSUME ~disturbed'
                 PROVE  /\ \A d \in Calls : d # c => pc[d] = "idle"
                        /\ pc'[c] # "dead"
                        /\ pc'[c] = "idle" => Balanced'
                        /\ AccountOK(c)'
        BY <1>2, AccountKept
    <2>1. pc[c] # "idle" /\ ~disturbed
        OBVIOUS
    <2>2. (\A d \in Calls : d # c => pc[d] = "idle") /\ AccountOK(c)
        BY <2>1, AloneAtWork
    <2>3. \A x \in Listings : Held(x)' = Held(x) /\ CartUnits(x)' = CartUnits(x)
        BY CartKept
    <2>. QED
        BY <2>1, <2>2, <2>3 DEF AccountOK, Balanced, Checks, CheckoutInv,
           CheckoutTypeOK, CheckoutTypes
<1>. QED
    BY <1>1, <1>3, <1>4, <1>5, <1>6 DEF CheckoutInv, CheckoutTypeOK

(* A use of the coupon is claimed, or there is none left.                  *)
LEMMA ClaimCouponUsageKeeps ==
    ASSUME CheckoutInv, NEW c \in Calls, ClaimCouponUsage(c)
    PROVE  CheckoutInv'
<1> USE CheckoutAssumption DEF ClaimCouponUsage, Step, Return, Forget, cartVars,
        couponVars, checkoutLocals, historyVars
<1>1. CheckoutTypes'
    <2>1. CanClaim \in BOOLEAN
        BY DEF CanClaim, CheckoutInv, CheckoutTypeOK, CheckoutTypes
    <2>2. usage_count' \in Nat /\ claimed' \in [Calls -> BOOLEAN]
        BY <2>1 DEF CheckoutInv, CheckoutTypeOK, CheckoutTypes
    <2>. QED
        BY <2>2 DEF CheckoutInv, CheckoutTypeOK, CheckoutTypes, CheckoutLocations
<1>2. OtherCheckouts(c)
    BY DEF CheckoutInv, CheckoutTypeOK, CheckoutTypes, OtherCheckouts
<1>3. BilledAsBought'
    BY BillsKept
<1>4. CheckoutCallInv' /\ OrderHasOneCall'
    <2>1. CheckoutCallOK(c)'
        BY DEF CheckoutInv, CheckoutTypeOK, CheckoutTypes, CheckoutCallInv,
           CheckoutCallOK
    <2>. QED
        BY <1>2, <2>1, CallsStillOK DEF CheckoutInv, CheckoutTypeOK, CheckoutTypes
<1>5. UsesInv'
    <2>1. ~claimed[c] /\ c \notin Claims
        BY DEF CheckoutInv, CheckoutCallInv, CheckoutCallOK, Claims
    <2>2. Uses' = Uses
        BY DEF Uses
    <2>3. CASE ~CanClaim
        <3>1. Claims' = Claims
            BY <2>1, <2>3 DEF CheckoutInv, CheckoutTypeOK, CheckoutTypes, Claims
        <3>. QED
            BY <2>2, <2>3, <3>1 DEF CheckoutInv, UsesInv
    <2>4. CASE CanClaim
        <3>1. Claims' = Claims \union {c}
            BY <2>4 DEF CheckoutInv, CheckoutTypeOK, CheckoutTypes, Claims
        <3>2. IsFiniteSet(Claims') /\ Cardinality(Claims') = Cardinality(Claims) + 1
            BY <2>1, <3>1, FS_AddElement DEF CheckoutInv, UsesInv
        <3>3. usage_count' = usage_count + 1 /\ usage_count' <= usageLimit
            BY <2>4 DEF CanClaim, CheckoutInv, CheckoutTypeOK, CheckoutTypes
        <3>4. Cardinality(Claims) \in Nat /\ Cardinality(Uses) \in Nat
            BY UsesAreCounted
        <3>. QED
            BY <2>2, <3>2, <3>3, <3>4 DEF CheckoutInv, UsesInv
    <2>. QED
        BY <2>3, <2>4
<1>6. AccountInv'
    <2> SUFFICES ASSUME ~disturbed'
                 PROVE  /\ \A d \in Calls : d # c => pc[d] = "idle"
                        /\ pc'[c] # "dead"
                        /\ pc'[c] = "idle" => Balanced'
                        /\ AccountOK(c)'
        BY <1>2, AccountKept
    <2>1. pc[c] # "idle" /\ ~disturbed
        OBVIOUS
    <2>2. (\A d \in Calls : d # c => pc[d] = "idle") /\ AccountOK(c)
        BY <2>1, AloneAtWork
    <2>3. \A x \in Listings : Held(x)' = Held(x) /\ CartUnits(x)' = CartUnits(x)
        BY CartKept
    <2>. QED
        BY <2>1, <2>2, <2>3 DEF AccountOK, Balanced, Checks, CheckoutInv,
           CheckoutTypeOK, CheckoutTypes
<1>. QED
    BY <1>1, <1>3, <1>4, <1>5, <1>6 DEF CheckoutInv, CheckoutTypeOK

(* A checkout reads the cart, or the one listing of "Buy Now".             *)
LEMMA CheckoutKeeps ==
    ASSUME CheckoutInv, NEW c \in Calls, Checkout(c)
    PROVE  CheckoutInv'
<1> USE CheckoutAssumption DEF Checkout, Begin, Begun, Step, cartVars, couponVars,
        checkoutLocals, historyVars
<1>1. CheckoutTypes'
    <2>1. items' \in [Calls -> [Listings -> Nat]]
        <3>1. [l \in Listings |-> CartUnits(l)] \in [Listings -> Nat]
            BY UnitsAreNat DEF CheckoutInv, CheckoutTypeOK
        <3>2. \A l \in Listings : [None EXCEPT ![l] = 1] \in [Listings -> Nat]
            BY DEF None
        <3>3. PICK goods \in [Listings -> Nat] : items' = [items EXCEPT ![c] = goods]
            <4>1. PICK cart \in BOOLEAN,
                      goods \in {[l \in Listings |-> CartUnits(l)]} \union
                               {[None EXCEPT ![l] = 1] : l \in Listings} :
                     items' = [items EXCEPT ![c] = goods]
                OBVIOUS
            <4>. QED
                BY <3>1, <3>2, <4>1
        <3>. QED
            BY <3>3 DEF CheckoutInv, CheckoutTypeOK, CheckoutTypes
    <2>. QED
        BY <2>1 DEF CheckoutInv, CheckoutTypeOK, CheckoutTypes, CheckoutLocations
<1>2. OtherCheckouts(c)
    BY DEF CheckoutInv, CheckoutTypeOK, CheckoutTypes, OtherCheckouts
<1>3. BilledAsBought'
    BY BillsKept
<1>4. CheckoutCallInv' /\ OrderHasOneCall'
    <2>1. CheckoutCallOK(c)'
        BY SMTT(30) DEF CheckoutInv, CheckoutTypeOK, CheckoutTypes, CheckoutCallInv,
           CheckoutCallOK
    <2>. QED
        BY <1>2, <2>1, CallsStillOK DEF CheckoutInv, CheckoutTypeOK, CheckoutTypes
<1>5. UsesInv'
    BY UsesKept DEF CheckoutInv, CheckoutTypeOK, CheckoutTypes, CheckoutCallInv,
       CheckoutCallOK
<1>6. AccountInv'
    <2> SUFFICES ASSUME ~disturbed'
                 PROVE  /\ \A d \in Calls : d # c => pc[d] = "idle"
                        /\ pc'[c] # "dead"
                        /\ pc'[c] = "idle" => Balanced'
                        /\ AccountOK(c)'
        BY <1>2, AccountKept
    <2>1. (\A d \in Calls : pc[d] = "idle") /\ Balanced
        BY BalancedBefore
    <2>2. \A x \in Listings : Held(x)' = Held(x) /\ CartUnits(x)' = CartUnits(x)
        BY CartKept
    <2>. QED
        BY <2>1, <2>2 DEF AccountOK, Balanced, Checks, CheckoutInv, CheckoutTypeOK,
           CheckoutTypes
<1>. QED
    BY <1>1, <1>3, <1>4, <1>5, <1>6 DEF CheckoutInv, CheckoutTypeOK

(* The order is left unpaid.                                               *)
LEMMA LeaveUnpaidKeeps ==
    ASSUME CheckoutInv, NEW c \in Calls, LeaveUnpaid(c)
    PROVE  CheckoutInv'
<1> USE CheckoutAssumption DEF LeaveUnpaid, Step, Return, Forget, cartVars, couponVars,
        checkoutLocals, historyVars
<1>1. CheckoutTypes'
    BY DEF CheckoutInv, CheckoutTypeOK, CheckoutTypes, CheckoutLocations, None
<1>2. OtherCheckouts(c)
    BY DEF CheckoutInv, CheckoutTypeOK, CheckoutTypes, OtherCheckouts
<1>3. BilledAsBought'
    BY BillsKept
<1>4. CheckoutCallInv' /\ OrderHasOneCall'
    <2>1. CheckoutCallOK(c)'
        BY DEF CheckoutInv, CheckoutTypeOK, CheckoutTypes, CheckoutCallInv,
           CheckoutCallOK
    <2>. QED
        BY <1>2, <2>1, CallsStillOK DEF CheckoutInv, CheckoutTypeOK, CheckoutTypes
<1>5. UsesInv'
    BY UsesKept DEF CheckoutInv, CheckoutTypeOK, CheckoutTypes, CheckoutCallInv,
       CheckoutCallOK
<1>6. AccountInv'
    <2> SUFFICES ASSUME ~disturbed'
                 PROVE  /\ \A d \in Calls : d # c => pc[d] = "idle"
                        /\ pc'[c] # "dead"
                        /\ pc'[c] = "idle" => Balanced'
                        /\ AccountOK(c)'
        BY <1>2, AccountKept
    <2>1. pc[c] # "idle" /\ ~disturbed
        OBVIOUS
    <2>2. (\A d \in Calls : d # c => pc[d] = "idle") /\ AccountOK(c)
        BY <2>1, AloneAtWork
    <2>3. \A x \in Listings : Held(x)' = Held(x) /\ CartUnits(x)' = CartUnits(x)
        BY CartKept
    <2>. QED
        BY <2>1, <2>2, <2>3 DEF AccountOK, Balanced, Checks, CheckoutInv,
           CheckoutTypeOK, CheckoutTypes
<1>. QED
    BY <1>1, <1>3, <1>4, <1>5, <1>6 DEF CheckoutInv, CheckoutTypeOK

(* A login starts to merge the cart the guest had.                         *)
LEMMA MergeGuestCartKeeps ==
    ASSUME CheckoutInv, NEW c \in Calls, MergeGuestCart(c)
    PROVE  CheckoutInv'
<1> USE CheckoutAssumption DEF MergeGuestCart, Begin, Begun, Step, cartVars,
        couponVars, checkoutLocals, historyVars
<1>1. CheckoutTypes'
    BY DEF CheckoutInv, CheckoutTypeOK, CheckoutTypes, CheckoutLocations
<1>2. OtherCheckouts(c)
    BY DEF CheckoutInv, CheckoutTypeOK, CheckoutTypes, OtherCheckouts
<1>3. BilledAsBought'
    BY BillsKept
<1>4. CheckoutCallInv' /\ OrderHasOneCall'
    <2>1. CheckoutCallOK(c)'
        BY DEF CheckoutInv, CheckoutTypeOK, CheckoutTypes, CheckoutCallInv,
           CheckoutCallOK
    <2>. QED
        BY <1>2, <2>1, CallsStillOK DEF CheckoutInv, CheckoutTypeOK, CheckoutTypes
<1>5. UsesInv'
    BY UsesKept DEF CheckoutInv, CheckoutTypeOK, CheckoutTypes, CheckoutCallInv,
       CheckoutCallOK
<1>6. AccountInv'
    <2> SUFFICES ASSUME ~disturbed'
                 PROVE  /\ \A d \in Calls : d # c => pc[d] = "idle"
                        /\ pc'[c] # "dead"
                        /\ pc'[c] = "idle" => Balanced'
                        /\ AccountOK(c)'
        BY <1>2, AccountKept
    <2>1. (\A d \in Calls : pc[d] = "idle") /\ Balanced
        BY BalancedBefore
    <2>2. \A x \in Listings : Held(x)' = Held(x) /\ CartUnits(x)' = CartUnits(x)
        BY CartKept
    <2>. QED
        BY <2>1, <2>2 DEF AccountOK, Balanced, Checks, CheckoutInv, CheckoutTypeOK,
           CheckoutTypes
<1>. QED
    BY <1>1, <1>3, <1>4, <1>5, <1>6 DEF CheckoutInv, CheckoutTypeOK

(* The guest's cart, merged, is deleted.                                   *)
LEMMA DeleteGuestCartKeeps ==
    ASSUME CheckoutInv, NEW c \in Calls, DeleteGuestCart(c)
    PROVE  CheckoutInv'
<1> USE CheckoutAssumption DEF DeleteGuestCart, Step, Return, Forget, cartVars,
        couponVars, checkoutLocals, historyVars
<1>1. CheckoutTypes'
    BY DEF CheckoutInv, CheckoutTypeOK, CheckoutTypes, CheckoutLocations
<1>2. OtherCheckouts(c)
    BY DEF CheckoutInv, CheckoutTypeOK, CheckoutTypes, OtherCheckouts
<1>3. BilledAsBought'
    BY BillsKept
<1>4. CheckoutCallInv' /\ OrderHasOneCall'
    <2>1. CheckoutCallOK(c)'
        BY DEF CheckoutInv, CheckoutTypeOK, CheckoutTypes, CheckoutCallInv,
           CheckoutCallOK
    <2>. QED
        BY <1>2, <2>1, CallsStillOK DEF CheckoutInv, CheckoutTypeOK, CheckoutTypes
<1>5. UsesInv'
    BY UsesKept DEF CheckoutInv, CheckoutTypeOK, CheckoutTypes, CheckoutCallInv,
       CheckoutCallOK
<1>6. AccountInv'
    <2> SUFFICES ASSUME ~disturbed'
                 PROVE  /\ \A d \in Calls : d # c => pc[d] = "idle"
                        /\ pc'[c] # "dead"
                        /\ pc'[c] = "idle" => Balanced'
                        /\ AccountOK(c)'
        BY <1>2, AccountKept
    <2>1. pc[c] # "idle" /\ ~disturbed
        OBVIOUS
    <2>2. (\A d \in Calls : d # c => pc[d] = "idle") /\ AccountOK(c)
        BY <2>1, AloneAtWork
    <2>3. \A x \in Listings : Held(x)' = Held(x) /\ CartUnits(x)' = CartUnits(x)
        BY CartKept
    <2>. QED
        BY <2>1, <2>2, <2>3 DEF AccountOK, Balanced, Checks, CheckoutInv,
           CheckoutTypeOK, CheckoutTypes, None
<1>. QED
    BY <1>1, <1>3, <1>4, <1>5, <1>6 DEF CheckoutInv, CheckoutTypeOK

(* The order is inserted, and the use of the coupon it claimed is its own. *)
LEMMA InsertOrderKeeps ==
    ASSUME CheckoutInv, NEW c \in Calls, InsertOrder(c)
    PROVE  CheckoutInv'
<1> USE CheckoutAssumption
<1>0. PICK o \in OrderIds, discount \in 0 .. Subtotal(items[c]) :
         /\ orders[o] = NULL
         /\ ~claimed[c] => discount = 0
         /\ Step(c, "order", "order_items")
         /\ orders' = [orders EXCEPT ![o] =
               [coupon |-> claimed[c], discount |-> discount,
                total |-> Total(items[c], discount), items |-> None,
                status |-> "unpaid"]]
         /\ order' = [order EXCEPT ![c] = o]
         /\ claimed' = [claimed EXCEPT ![c] = FALSE]
    <2>1. items[c] \in [Listings -> Nat]
        BY DEF CheckoutInv, CheckoutTypeOK, CheckoutTypes
    <2>2. Subtotal(items[c]) \in Nat
        BY <2>1, SubtotalIsNat
    <2>3. Discount(Subtotal(items[c])) \in 0 .. Subtotal(items[c])
        BY <2>2, DiscountIsBounded
    <2> DEFINE n == IF claimed[c] THEN Discount(Subtotal(items[c])) ELSE 0
    <2>4. PICK o \in OrderIds : InsertsOrder(o, c, n)
        BY DEF InsertOrder, InsertsOrder
    <2>5. n \in 0 .. Subtotal(items[c]) /\ (~claimed[c] => n = 0)
        BY <2>2, <2>3
    <2> HIDE DEF n
    <2>. QED
        BY <2>4, <2>5, Zenon DEF InsertsOrder
<1>a. /\ UNCHANGED <<cartVars, couponVars, listing, quantity, row, items, from_cart, begun,
                     crashes, historyVars>>
      /\ pc[c] = "order"
      /\ order[c] = NULL
      /\ items[c] \in [Listings -> Nat]
      /\ c \in Calls
    BY <1>0 DEF InsertOrder, Step, CheckoutInv, CheckoutCallInv, CheckoutCallOK,
       CheckoutTypeOK, CheckoutTypes
<1>b. /\ Total(items[c], discount) \in Nat
      /\ Total(items[c], discount) = Subtotal(items[c]) + DeliveryFee(items[c]) - discount
      /\ discount \in Nat
    <2>1. discount \in Nat
        BY <1>a, SubtotalIsNat
    <2>. QED
        BY <1>a, <2>1, TotalIsTheBill
<1>c. /\ [coupon |-> claimed[c], discount |-> discount,
           total |-> Total(items[c], discount), items |-> None,
           status |-> "unpaid"] \in OrderRows
      /\ [coupon |-> claimed[c], discount |-> discount,
           total |-> Total(items[c], discount), items |-> None,
           status |-> "unpaid"] # NULL
    <2>1. [coupon |-> claimed[c], discount |-> discount,
           total |-> Total(items[c], discount), items |-> None,
           status |-> "unpaid"] \in OrderRows
        BY <1>b DEF OrderRows, None, CheckoutInv, CheckoutTypeOK, CheckoutTypes
    <2>. QED
        BY <2>1, CheckoutAssumption
<1>1. CheckoutTypes'
    <2>2. orders' \in [OrderIds -> OrderRows \union {NULL}]
        BY <1>0, <1>c DEF CheckoutInv, CheckoutTypeOK, CheckoutTypes
    <2>. QED
        BY <1>0, <1>a, <2>2 DEF CheckoutInv, CheckoutTypeOK, CheckoutTypes,
           CheckoutLocations, Step, cartVars, couponVars, historyVars
<1>2. OtherCheckouts(c)
    BY <1>0, <1>a DEF CheckoutInv, CheckoutTypeOK, CheckoutTypes, OtherCheckouts, Step,
       cartVars, couponVars, historyVars
<1>3. BilledAsBought'
    <2>1. Bought(None) = {}
        BY DEF Bought, None
    <2>2. orders'[o].items = None
        BY <1>0 DEF CheckoutInv, CheckoutTypeOK, CheckoutTypes
    <2>3. ASSUME NEW p \in OrderIds, p # o PROVE orders'[p] = orders[p]
        BY <1>0, <2>3 DEF CheckoutInv, CheckoutTypeOK, CheckoutTypes
    <2>. QED
        BY <2>1, <2>2, <2>3 DEF CheckoutInv, CheckoutTypeOK, CheckoutTypes,
           BilledAsBought
<1>4. CheckoutCallInv' /\ OrderHasOneCall'
    <2>1. CheckoutCallOK(c)'
        <3>1. /\ pc'[c] = "order_items"
              /\ order'[c] = o
              /\ ~claimed'[c]
              /\ items'[c] = items[c]
              /\ orders'[o].total = Total(items[c], discount)
              /\ orders'[o].discount = discount
              /\ orders'[o].coupon = claimed[c]
              /\ orders'[o] # NULL
            BY <1>0, <1>a, <1>c DEF CheckoutInv, CheckoutTypeOK, CheckoutTypes, Step
        <3>2. IsBillOf(o, items[c])'
            BY <1>0, <1>a, <1>b, <3>1, SubtotalIsNat DEF IsBillOf
        <3>. QED
            BY <1>a, <3>1, <3>2 DEF CheckoutCallOK, IsBillOf
    <2>2. ASSUME NEW d \in Calls, d # c, order[d] # NULL
          PROVE  order[d] # o /\ orders'[order[d]] = orders[order[d]]
        BY <1>0, <2>2 DEF CheckoutInv, CheckoutTypeOK, CheckoutTypes, CheckoutCallInv,
           CheckoutCallOK
    <2>3. \A d \in Calls : order[d] # o
        BY <1>a, <2>2, <1>0, CheckoutAssumption
    <2>4. order'[c] = o
        BY <1>0 DEF CheckoutInv, CheckoutTypeOK, CheckoutTypes
    <2>. QED
        BY <1>2, <2>1, <2>2, <2>3, <2>4, CallsStillOK
<1>5. UsesInv'
    <2>1. /\ o \notin Uses
          /\ usage_count' = usage_count
        BY <1>0, <1>a DEF Uses, couponVars
    <2>2. CASE ~claimed[c]
        <3>1. Claims' = Claims
            BY <1>0, <2>2 DEF CheckoutInv, CheckoutTypeOK, CheckoutTypes, Claims
        <3>2. Uses' = Uses
            BY <1>0, <2>2 DEF CheckoutInv, CheckoutTypeOK, CheckoutTypes, Uses
        <3>. QED
            BY <2>1, <3>1, <3>2 DEF CheckoutInv, UsesInv
    <2>3. CASE claimed[c]
        <3>1. c \in Claims /\ Claims' = Claims \ {c}
            BY <1>0, <2>3 DEF CheckoutInv, CheckoutTypeOK, CheckoutTypes, Claims
        <3>2. Uses' = Uses \union {o}
            BY <1>0, <1>c, <2>3 DEF CheckoutInv, CheckoutTypeOK, CheckoutTypes, Uses
        <3>3. IsFiniteSet(Claims') /\ Cardinality(Claims') = Cardinality(Claims) - 1
            BY <3>1, FS_RemoveElement DEF CheckoutInv, UsesInv
        <3>4. Cardinality(Uses') = Cardinality(Uses) + 1
            BY <2>1, <3>2, UsesAreCounted, FS_AddElement
        <3>. QED
            BY <2>1, <3>3, <3>4, UsesAreCounted DEF CheckoutInv, UsesInv
    <2>. QED
        BY <2>2, <2>3
<1>6. AccountInv'
    <2> SUFFICES ASSUME ~disturbed'
                 PROVE  /\ \A d \in Calls : d # c => pc[d] = "idle"
                        /\ pc'[c] # "dead"
                        /\ pc'[c] = "idle" => Balanced'
                        /\ AccountOK(c)'
        BY <1>2, AccountKept
    <2>1. pc[c] # "idle" /\ ~disturbed
        BY <1>a DEF historyVars
    <2>2. (\A d \in Calls : d # c => pc[d] = "idle") /\ AccountOK(c)
        BY <2>1, AloneAtWork
    <2>3. \A x \in Listings : Held(x)' = Held(x) /\ CartUnits(x)' = CartUnits(x)
        BY <1>a, CartKept DEF cartVars
    <2>4. pc'[c] = "order_items"
        BY <1>0 DEF Step, CheckoutInv, CheckoutTypeOK, CheckoutTypes
    <2>. QED
        BY <1>a, <2>1, <2>2, <2>3, <2>4 DEF AccountOK, Balanced, Checks, cartVars,
           historyVars
<1>. QED
    BY <1>1, <1>3, <1>4, <1>5, <1>6 DEF CheckoutInv, CheckoutTypeOK

(* Its items are inserted.                                                 *)
LEMMA InsertOrderItemsKeeps ==
    ASSUME CheckoutInv, NEW c \in Calls, InsertOrderItems(c)
    PROVE  CheckoutInv'
<1> USE CheckoutAssumption DEF InsertOrderItems, Step, Return, Forget, cartVars,
        couponVars, checkoutLocals, historyVars
<1>0. /\ order[c] \in OrderIds
      /\ orders[order[c]] \in OrderRows
      /\ orders'[order[c]] = [orders[order[c]] EXCEPT !.items = items[c]]
      /\ orders'[order[c]] \in OrderRows
      /\ orders'[order[c]] # NULL
      /\ orders' \in [OrderIds -> OrderRows \union {NULL}]
      /\ \A p \in OrderIds : p # order[c] => orders'[p] = orders[p]
      /\ IsBillOf(order[c], items[c])
    <2>1. /\ order[c] \in OrderIds
          /\ orders[order[c]] \in OrderRows
          /\ items[c] \in [Listings -> Nat]
          /\ IsBillOf(order[c], items[c])
        BY DEF CheckoutInv, CheckoutTypeOK, CheckoutTypes, CheckoutCallInv,
           CheckoutCallOK
    <2>2. [orders[order[c]] EXCEPT !.items = items[c]] \in OrderRows
        BY <2>1 DEF OrderRows
    <2>. QED
        BY <2>1, <2>2 DEF CheckoutInv, CheckoutTypeOK, CheckoutTypes
<1>1. CheckoutTypes'
    BY <1>0 DEF CheckoutInv, CheckoutTypeOK, CheckoutTypes, CheckoutLocations
<1>2. OtherCheckouts(c)
    BY DEF CheckoutInv, CheckoutTypeOK, CheckoutTypes, OtherCheckouts
<1>3. BilledAsBought'
    <2>1. /\ orders'[order[c]].items = items[c]
          /\ orders'[order[c]].total = Subtotal(items[c]) + DeliveryFee(items[c])
                                        - orders'[order[c]].discount
          /\ orders'[order[c]].discount <= Subtotal(items[c])
          /\ orders'[order[c]].discount > 0 => orders'[order[c]].coupon
        BY <1>0 DEF IsBillOf, OrderRows
    <2>2. ASSUME NEW p \in OrderIds, orders'[p] # NULL, Bought(orders'[p].items) # {}
          PROVE  /\ orders'[p].total = Subtotal(orders'[p].items)
                                        + DeliveryFee(orders'[p].items) - orders'[p].discount
                 /\ orders'[p].discount <= Subtotal(orders'[p].items)
                 /\ orders'[p].discount > 0 => orders'[p].coupon
        <3>1. CASE p = order[c]
            BY <2>1, <3>1
        <3>2. CASE p # order[c]
            BY <1>0, <2>2, <3>2 DEF CheckoutInv, CheckoutTypeOK, CheckoutTypes,
               BilledAsBought
        <3>. QED
            BY <3>1, <3>2
    <2>. QED
        BY <2>2 DEF BilledAsBought
<1>4. CheckoutCallInv' /\ OrderHasOneCall'
    <2>1. CheckoutCallOK(c)'
        BY SMTT(30), <1>0 DEF CheckoutInv, CheckoutTypeOK, CheckoutTypes, CheckoutCallInv,
           CheckoutCallOK
    <2>2. \A d \in Calls : d # c /\ order[d] # NULL => orders'[order[d]] = orders[order[d]]
        BY <1>0 DEF CheckoutInv, CheckoutTypeOK, CheckoutTypes, OrderHasOneCall
    <2>. QED
        BY <1>2, <2>1, <2>2, CallsStillOK
<1>5. UsesInv'
    <2>1. \A o \in OrderIds : (orders'[o] # NULL /\ orders'[o].coupon)
                                <=> (orders[o] # NULL /\ orders[o].coupon)
        BY <1>0 DEF OrderRows
    <2>. QED
        BY <2>1, UsesKept
<1>6. AccountInv'
    <2> SUFFICES ASSUME ~disturbed'
                 PROVE  /\ \A d \in Calls : d # c => pc[d] = "idle"
                        /\ pc'[c] # "dead"
                        /\ pc'[c] = "idle" => Balanced'
                        /\ AccountOK(c)'
        BY <1>2, AccountKept
    <2>1. pc[c] # "idle" /\ ~disturbed
        OBVIOUS
    <2>2. (\A d \in Calls : d # c => pc[d] = "idle") /\ AccountOK(c)
        BY <2>1, AloneAtWork
    <2>3. \A x \in Listings : Held(x)' = Held(x) /\ CartUnits(x)' = CartUnits(x)
        BY CartKept
    <2>. QED
        BY <2>1, <2>2, <2>3 DEF AccountOK, Balanced, Checks, CheckoutInv,
           CheckoutTypeOK, CheckoutTypes
<1>. QED
    BY <1>1, <1>3, <1>4, <1>5, <1>6 DEF CheckoutInv, CheckoutTypeOK

(* The order is paid from the wallet: the units it bought are no longer wanted. *)
LEMMA PayFromWalletKeeps ==
    ASSUME CheckoutInv, NEW c \in Calls, PayFromWallet(c)
    PROVE  CheckoutInv'
<1> USE CheckoutAssumption DEF PayFromWallet, Step, Return, Forget, cartVars,
        couponVars, checkoutLocals, historyVars
<1>0. /\ order[c] \in OrderIds
      /\ orders[order[c]] \in OrderRows
      /\ orders'[order[c]] = [orders[order[c]] EXCEPT !.status = "paid"]
      /\ orders'[order[c]] # NULL
      /\ orders' \in [OrderIds -> OrderRows \union {NULL}]
      /\ \A p \in OrderIds : p # order[c] => orders'[p] = orders[p]
    <2>1. order[c] \in OrderIds /\ orders[order[c]] \in OrderRows
        BY DEF CheckoutInv, CheckoutTypeOK, CheckoutTypes, CheckoutCallInv,
           CheckoutCallOK
    <2>2. [orders[order[c]] EXCEPT !.status = "paid"] \in OrderRows
        BY <2>1 DEF OrderRows
    <2>. QED
        BY <2>1, <2>2 DEF CheckoutInv, CheckoutTypeOK, CheckoutTypes
<1>1. CheckoutTypes'
    <2>1. wanted' \in [Listings -> Int]
        BY DEF CheckoutInv, CheckoutTypeOK, CheckoutTypes
    <2>2. CASE from_cart[c]
        BY <1>0, <2>1, <2>2 DEF CheckoutInv, CheckoutTypeOK, CheckoutTypes,
           CheckoutLocations
    <2>3. CASE ~from_cart[c]
        <3>0. Forget(c)
            BY <2>3
        <3>1. /\ listing' \in [Calls -> Listings \union {NULL}]
              /\ quantity' \in [Calls -> Nat]
              /\ row' \in [Calls -> Rows \union {NULL}]
              /\ items' \in [Calls -> [Listings -> Nat]]
              /\ from_cart' \in [Calls -> BOOLEAN]
              /\ claimed' \in [Calls -> BOOLEAN]
              /\ order' \in [Calls -> OrderIds \union {NULL}]
            BY <3>0 DEF CheckoutInv, CheckoutTypeOK, CheckoutTypes, None
        <3>2. pc' \in [Calls -> CheckoutLocations]
            BY <2>3 DEF CheckoutInv, CheckoutTypeOK, CheckoutTypes, CheckoutLocations
        <3>. QED
            BY <1>0, <2>1, <3>1, <3>2 DEF CheckoutInv, CheckoutTypeOK, CheckoutTypes
    <2>. QED
        BY <2>2, <2>3
<1>2. OtherCheckouts(c)
    BY DEF CheckoutInv, CheckoutTypeOK, CheckoutTypes, OtherCheckouts
<1>3. BilledAsBought'
    BY <1>0, PaidAsBilled
<1>4. CheckoutCallInv' /\ OrderHasOneCall'
    <2>1. CheckoutCallOK(c)'
        <3>1. CheckoutCallOK(c)
            BY DEF CheckoutInv, CheckoutCallInv
        <3>2. CASE from_cart[c]
            <4>1. /\ pc[c] = "pay" /\ pc'[c] = "remove"
                  /\ order'[c] = order[c] /\ claimed'[c] = claimed[c]
                BY <3>2 DEF CheckoutInv, CheckoutTypeOK, CheckoutTypes
            <4>. QED
                BY <1>0, <3>1, <4>1 DEF CheckoutCallOK
        <3>3. CASE ~from_cart[c]
            <4>1. /\ pc'[c] = "idle" /\ order'[c] = NULL
                  /\ claimed'[c] = FALSE /\ items'[c] = None
                BY <3>3 DEF CheckoutInv, CheckoutTypeOK, CheckoutTypes
            <4>. QED
                BY <4>1 DEF CheckoutCallOK
        <3>. QED
            BY <3>2, <3>3
    <2>2. \A d \in Calls : d # c /\ order[d] # NULL => orders'[order[d]] = orders[order[d]]
        BY <1>0 DEF CheckoutInv, CheckoutTypeOK, CheckoutTypes, OrderHasOneCall
    <2>3. order'[c] \in {order[c], NULL}
        BY DEF CheckoutInv, CheckoutTypeOK, CheckoutTypes
    <2>. QED
        BY <1>2, <2>1, <2>2, <2>3, CallsStillOK
<1>5. UsesInv'
    <2>1. \A o \in OrderIds : (orders'[o] # NULL /\ orders'[o].coupon)
                                <=> (orders[o] # NULL /\ orders[o].coupon)
        BY <1>0 DEF OrderRows
    <2>2. \A d \in Calls : claimed'[d] = claimed[d]
        BY DEF CheckoutInv, CheckoutTypeOK, CheckoutTypes, CheckoutCallInv,
           CheckoutCallOK
    <2>. QED
        BY <2>1, <2>2, UsesKept
<1>6. AccountInv'
    <2> SUFFICES ASSUME ~disturbed'
                 PROVE  /\ \A d \in Calls : d # c => pc[d] = "idle"
                        /\ pc'[c] # "dead"
                        /\ pc'[c] = "idle" => Balanced'
                        /\ AccountOK(c)'
        BY <1>2, AccountKept
    <2>1. pc[c] # "idle" /\ ~disturbed
        OBVIOUS
    <2>2. (\A d \in Calls : d # c => pc[d] = "idle") /\ AccountOK(c)
        BY <2>1, AloneAtWork
    <2>3. \A x \in Listings : Held(x)' = Held(x) /\ CartUnits(x)' = CartUnits(x)
        BY CartKept
    <2>4. CASE from_cart[c]
        <3>1. /\ pc'[c] = "remove" /\ items'[c] = items[c]
              /\ \A l \in Listings : wanted'[l] = wanted[l] - items[c][l]
              /\ \A l \in Listings : guest_items'[l] = guest_items[l]
              /\ pc[c] \in Checks
            BY <2>4 DEF CheckoutInv, CheckoutTypeOK, CheckoutTypes, Checks
        <3>2. ASSUME NEW l \in Listings
              PROVE  /\ items'[c][l] = CartUnits(l)'
                     /\ wanted'[l] = Held(l)' + guest_items'[l] - items'[c][l]
            <4>1. items[c][l] \in Nat /\ Held(l) \in Nat /\ guest_items[l] \in Nat
                BY UnitsAreNat DEF CheckoutInv, CheckoutTypeOK, CheckoutTypes
            <4>. QED
                BY <2>2, <2>3, <2>4, <3>1, <4>1 DEF AccountOK, Balanced
        <3>. QED
            BY <2>2, <3>1, <3>2 DEF AccountOK, Checks
    <2>5. CASE ~from_cart[c]
        BY <2>2, <2>3, <2>5 DEF AccountOK, Balanced, Checks, CheckoutInv,
           CheckoutTypeOK, CheckoutTypes
    <2>. QED
        BY <2>4, <2>5
<1>. QED
    BY <1>1, <1>3, <1>4, <1>5, <1>6 DEF CheckoutInv, CheckoutTypeOK

(* An order paid by card is confirmed, and its listings are to be removed. *)
LEMMA VerifyPaymentKeeps ==
    ASSUME CheckoutInv, NEW c \in Calls, VerifyPayment(c)
    PROVE  CheckoutInv'
<1> USE CheckoutAssumption
<1>a. PICK o \in OrderIds :
         /\ orders[o] # NULL
         /\ \A d \in Calls : order[d] # o
         /\ orders' = [orders EXCEPT ![o].status = "paid"]
         /\ items' = [items EXCEPT ![c] = orders[o].items]
    BY DEF VerifyPayment, Confirmed
<1>0. /\ o \in OrderIds
      /\ orders[o] \in OrderRows
      /\ orders'[o] = [orders[o] EXCEPT !.status = "paid"]
      /\ orders'[o] # NULL
      /\ orders' \in [OrderIds -> OrderRows \union {NULL}]
      /\ \A p \in OrderIds : p # o => orders'[p] = orders[p]
    <2>1. o \in OrderIds /\ orders[o] \in OrderRows
        BY <1>a DEF CheckoutInv, CheckoutTypeOK, CheckoutTypes
    <2>2. [orders[o] EXCEPT !.status = "paid"] \in OrderRows
        BY <2>1 DEF OrderRows
    <2>. QED
        BY ZenonT(60), <1>a, <2>1, <2>2 DEF CheckoutInv, CheckoutTypeOK, CheckoutTypes,
           VerifyPayment
<1>1. CheckoutTypes'
    BY <1>0, <1>a DEF CheckoutInv, CheckoutTypeOK, CheckoutTypes, CheckoutLocations,
       OrderRows, VerifyPayment, Step, cartVars, couponVars
<1>2. OtherCheckouts(c)
    BY DEF CheckoutInv, CheckoutTypeOK, CheckoutTypes, OtherCheckouts, VerifyPayment,
       Confirmed, Step, cartVars, couponVars, checkoutLocals, historyVars
<1>3. BilledAsBought'
    BY <1>0, PaidAsBilled
<1>4. CheckoutCallInv' /\ OrderHasOneCall'
    <2>1. CheckoutCallOK(c)'
        <3>1. CheckoutCallOK(c)
            BY DEF CheckoutInv, CheckoutCallInv
        <3>2. /\ pc[c] = "idle" /\ pc'[c] = "remove"
              /\ order'[c] = order[c] /\ claimed'[c] = claimed[c]
            BY DEF CheckoutInv, CheckoutTypeOK, CheckoutTypes, VerifyPayment, Step
        <3>. QED
            BY <3>1, <3>2 DEF CheckoutCallOK
    <2>2. \A d \in Calls : order[d] # NULL => orders'[order[d]] = orders[order[d]]
        BY <1>0, <1>a DEF CheckoutInv, CheckoutTypeOK, CheckoutTypes
    <2>. QED
        BY <1>2, <2>1, <2>2, CallsStillOK DEF VerifyPayment
<1>5. UsesInv'
    <2>1. \A p \in OrderIds : (orders'[p] # NULL /\ orders'[p].coupon)
                                <=> (orders[p] # NULL /\ orders[p].coupon)
        BY <1>0 DEF OrderRows
    <2>. QED
        BY <2>1, UsesKept DEF couponVars, VerifyPayment
<1>6. AccountInv'
    BY DEF AccountInv, VerifyPayment
<1>. QED
    BY <1>1, <1>3, <1>4, <1>5, <1>6 DEF CheckoutInv, CheckoutTypeOK

(* The webhook confirms it, and removes nothing. *)
LEMMA WebhookKeeps ==
    ASSUME CheckoutInv, Webhook
    PROVE  CheckoutInv'
<1> USE CheckoutAssumption
<1>a. PICK o \in OrderIds :
         /\ orders[o] # NULL
         /\ \A d \in Calls : order[d] # o
         /\ orders' = [orders EXCEPT ![o].status = "paid"]
    BY DEF Webhook, Confirmed
<1>0. /\ o \in OrderIds
      /\ orders[o] \in OrderRows
      /\ orders'[o] = [orders[o] EXCEPT !.status = "paid"]
      /\ orders'[o] # NULL
      /\ orders' \in [OrderIds -> OrderRows \union {NULL}]
      /\ \A p \in OrderIds : p # o => orders'[p] = orders[p]
    <2>1. o \in OrderIds /\ orders[o] \in OrderRows
        BY <1>a DEF CheckoutInv, CheckoutTypeOK, CheckoutTypes
    <2>2. [orders[o] EXCEPT !.status = "paid"] \in OrderRows
        BY <2>1 DEF OrderRows
    <2>. QED
        BY <1>a, <2>1, <2>2 DEF CheckoutInv, CheckoutTypeOK, CheckoutTypes, Webhook
<1>1. CheckoutTypes'
    BY <1>0 DEF CheckoutInv, CheckoutTypeOK, CheckoutTypes, Webhook, cartVars,
       couponVars, checkoutLocals
<1>2. BilledAsBought'
    BY <1>0, PaidAsBilled
<1>3. CheckoutCallInv' /\ OrderHasOneCall'
    <2>1. \A d \in Calls : order[d] # NULL => orders'[order[d]] = orders[order[d]]
        BY <1>0, <1>a DEF CheckoutInv, CheckoutTypeOK, CheckoutTypes
    <2>. QED
        BY <2>1 DEF CheckoutInv, CheckoutCallInv, CheckoutCallOK, OrderHasOneCall,
           IsBillOf,
           Webhook, checkoutLocals
<1>4. UsesInv'
    <2>1. \A p \in OrderIds : (orders'[p] # NULL /\ orders'[p].coupon)
                                <=> (orders[p] # NULL /\ orders[p].coupon)
        BY <1>0 DEF OrderRows
    <2>. QED
        BY <2>1, UsesKept DEF couponVars, checkoutLocals, Webhook
<1>5. AccountInv'
    BY DEF AccountInv, Webhook
<1>. QED
    BY <1>1, <1>2, <1>3, <1>4, <1>5 DEF CheckoutInv, CheckoutTypeOK

(* The coupon ends. *)
LEMMA CouponEndsKeeps ==
    ASSUME CheckoutInv, CouponEnds
    PROVE  CheckoutInv'
<1> USE DEF CouponEnds, cartVars, checkoutLocals, historyVars
<1>1. CheckoutTypes'
    BY DEF CheckoutInv, CheckoutTypeOK, CheckoutTypes
<1>2. BilledAsBought'
    BY BillsKept
<1>3. CheckoutCallInv' /\ OrderHasOneCall'
    BY DEF CheckoutInv, CheckoutCallInv, CheckoutCallOK, OrderHasOneCall, IsBillOf
<1>4. UsesInv'
    BY UsesKept
<1>5. AccountInv'
    BY CartKept DEF CheckoutInv, AccountInv, AccountOK, Balanced, Adding
<1>. QED
    BY <1>1, <1>2, <1>3, <1>4, <1>5 DEF CheckoutInv, CheckoutTypeOK

(* The Worker dies, holding what it had claimed.                           *)
LEMMA CheckoutCrashKeeps ==
    ASSUME CheckoutInv, NEW c \in Calls, CheckoutCrash(c)
    PROVE  CheckoutInv'
<1> USE CheckoutAssumption DEF CheckoutCrash, cartVars, couponVars
<1>1. CheckoutTypes'
    BY DEF CheckoutInv, CheckoutTypeOK, CheckoutTypes, CheckoutLocations, None
<1>2. OtherCheckouts(c)
    BY DEF CheckoutInv, CheckoutTypeOK, CheckoutTypes, OtherCheckouts
<1>3. BilledAsBought'
    BY BillsKept
<1>4. CheckoutCallInv' /\ OrderHasOneCall'
    <2>1. CheckoutCallOK(c)'
        BY DEF CheckoutInv, CheckoutTypeOK, CheckoutTypes, CheckoutCallInv,
           CheckoutCallOK
    <2>. QED
        BY <1>2, <2>1, CallsStillOK DEF CheckoutInv, CheckoutTypeOK, CheckoutTypes
<1>5. UsesInv'
    BY UsesKept DEF CheckoutInv, CheckoutTypeOK, CheckoutTypes, CheckoutCallInv,
       CheckoutCallOK
<1>6. AccountInv'
    BY DEF AccountInv
<1>. QED
    BY <1>1, <1>3, <1>4, <1>5, <1>6 DEF CheckoutInv, CheckoutTypeOK

(* The row addToCart looks up, and what it is about to write.              *)
Found(c, here, l, q) ==
    /\ pc[c] = here
    /\ pc' \in [Calls -> CheckoutLocations]
    /\ listing' \in [Calls -> Listings \union {NULL}]
    /\ quantity' \in [Calls -> Nat]
    /\ row' \in [Calls -> Rows \union {NULL}]
    /\ \A d \in Calls : d # c =>
          /\ pc'[d] = pc[d]
          /\ listing'[d] = listing[d]
          /\ quantity'[d] = quantity[d]
          /\ row'[d] = row[d]
    /\ listing'[c] = l
    /\ quantity'[c] > 0
    /\ \/ pc'[c] = "insert" /\ quantity'[c] = q
       \/ /\ pc'[c] = "update"
          /\ row'[c] \in Rows
          /\ cart_items[row'[c]] # NULL
          /\ cart_items[row'[c]].listing = l
          /\ quantity'[c] = cart_items[row'[c]].quantity + q
          /\ cart_items[row'[c]].quantity \in Nat

(* LookUp finds a row of the listing, or says that one must be inserted. *)
LEMMA LookUpFinds ==
    ASSUME CheckoutInv, NEW c \in Calls, NEW here, NEW l \in Listings,
           NEW q \in Nat \ {0},
           LookUp(c, here, l, q)
    PROVE  Found(c, here, l, q)
<1>1. listing' = [listing EXCEPT ![c] = l]
    BY DEF LookUp
<1>2. CASE /\ Step(c, here, "insert")
           /\ quantity' = [quantity EXCEPT ![c] = q]
           /\ UNCHANGED row
    BY <1>1, <1>2 DEF CheckoutInv, CheckoutTypeOK, CheckoutTypes, CheckoutLocations,
       Step,
       Found
<1>3. CASE \E r \in RowsOf(l) :
              /\ Step(c, here, "update")
              /\ quantity' = [quantity EXCEPT ![c] = cart_items[r].quantity + q]
              /\ row' = [row EXCEPT ![c] = r]
    <2>1. PICK r \in RowsOf(l) :
             /\ Step(c, here, "update")
             /\ quantity' = [quantity EXCEPT ![c] = cart_items[r].quantity + q]
             /\ row' = [row EXCEPT ![c] = r]
        BY <1>3
    <2>2. /\ r \in Rows
          /\ cart_items[r] # NULL
          /\ cart_items[r].listing = l
          /\ cart_items[r].quantity \in Nat
        BY DEF RowsOf, InCart, CheckoutInv, CheckoutTypeOK, CheckoutTypes, CartRows
    <2>3. CheckoutTypes
        BY DEF CheckoutInv, CheckoutTypeOK
    <2>4. /\ pc[c] = here
          /\ pc' \in [Calls -> CheckoutLocations]
          /\ pc'[c] = "update"
          /\ \A d \in Calls : d # c => pc'[d] = pc[d]
        BY <2>1, <2>3 DEF CheckoutTypes, CheckoutLocations, Step
    <2>5. /\ listing' \in [Calls -> Listings \union {NULL}]
          /\ listing'[c] = l
          /\ \A d \in Calls : d # c => listing'[d] = listing[d]
        BY <1>1, <2>3 DEF CheckoutTypes
    <2>6. /\ quantity' \in [Calls -> Nat]
          /\ quantity'[c] = cart_items[r].quantity + q
          /\ quantity'[c] > 0
          /\ \A d \in Calls : d # c => quantity'[d] = quantity[d]
        <3> DEFINE sum == cart_items[r].quantity + q
        <3>1. sum \in Nat /\ sum > 0
            BY <2>2
        <3>2. quantity' = [quantity EXCEPT ![c] = sum] /\ quantity \in [Calls -> Nat]
            BY <2>1, <2>3 DEF CheckoutTypes
        <3> HIDE DEF sum
        <3>3. /\ quantity' \in [Calls -> Nat]
              /\ quantity'[c] = sum
              /\ \A d \in Calls : d # c => quantity'[d] = quantity[d]
            BY <3>1, <3>2
        <3>. QED
            BY <3>1, <3>3 DEF sum
    <2>7. /\ row' \in [Calls -> Rows \union {NULL}]
          /\ row'[c] = r
          /\ \A d \in Calls : d # c => row'[d] = row[d]
        BY <2>1, <2>2, <2>3 DEF CheckoutTypes
    <2>. QED
        BY <2>2, <2>4, <2>5, <2>6, <2>7 DEF Found
<1>. QED
    BY <1>2, <1>3 DEF LookUp

(* A customer puts units into the cart: the row is looked up.              *)
LEMMA AddToCartKeeps ==
    ASSUME CheckoutInv, NEW c \in Calls, AddToCart(c)
    PROVE  CheckoutInv'
<1> USE CheckoutAssumption DEF AddToCart, Begun, cartVars, couponVars
<1>0. PICK l \in Listings, q \in Quantities :
         /\ LookUp(c, "idle", l, q)
         /\ wanted' = [wanted EXCEPT ![l] = @ + q]
    OBVIOUS
<1>a. q \in Nat \ {0}
    OBVIOUS
<1>c. Found(c, "idle", l, q)
    BY <1>0, <1>a, LookUpFinds
<1>b. /\ pc[c] = "idle"
      /\ listing'[c] = l
      /\ quantity'[c] > 0
      /\ Adding(c)' = q
      /\ pc'[c] \in {"insert", "update"}
      /\ pc'[c] = "update" => /\ row'[c] \in Rows
                              /\ cart_items[row'[c]] # NULL
                              /\ cart_items[row'[c]].listing = l
    <2>1. cart_items' = cart_items
        OBVIOUS
    <2>. QED
        BY <1>a, <1>c, <2>1 DEF Found, Adding
<1>1. CheckoutTypes'
    BY <1>0, <1>c DEF Found, CheckoutInv, CheckoutTypeOK, CheckoutTypes
<1>2. OtherCheckouts(c)
    BY <1>c DEF Found, OtherCheckouts
<1>3. BilledAsBought'
    BY BillsKept
<1>4. CheckoutCallInv' /\ OrderHasOneCall'
    <2>1. CheckoutCallOK(c)
        BY DEF CheckoutInv, CheckoutCallInv
    <2>2. CheckoutCallOK(c)'
        <3>1. /\ order'[c] = order[c] /\ claimed'[c] = claimed[c]
              /\ order[c] = NULL /\ ~claimed[c]
            BY <1>b, <2>1 DEF CheckoutCallOK
        <3>. QED
            BY <1>b, <3>1 DEF CheckoutCallOK
    <2>. QED
        BY <1>2, <2>2, CallsStillOK
<1>5. UsesInv'
    BY UsesKept
<1>6. AccountInv'
    <2> SUFFICES ASSUME ~disturbed'
                 PROVE  /\ \A d \in Calls : d # c => pc[d] = "idle"
                        /\ pc'[c] # "dead"
                        /\ pc'[c] = "idle" => Balanced'
                        /\ AccountOK(c)'
        BY <1>2, AccountKept
    <2>1. (\A d \in Calls : pc[d] = "idle") /\ Balanced
        BY BalancedBefore
    <2>2. \A x \in Listings : Held(x)' = Held(x) /\ CartUnits(x)' = CartUnits(x)
        BY CartKept
    <2>3. items'[c] = items[c] /\ items[c] = None /\ guest_items' = guest_items
        BY <1>b DEF CheckoutInv, CheckoutCallInv, CheckoutCallOK
    <2>4. ASSUME NEW k \in Listings
          PROVE  wanted'[k] = Held(k)' + guest_items'[k]
                              + IF k = listing'[c] THEN Adding(c)' ELSE 0
        <3>1. wanted[k] \in Int /\ Held(k) \in Nat /\ guest_items[k] \in Nat
            BY UnitsAreNat DEF CheckoutInv, CheckoutTypeOK, CheckoutTypes
        <3>2. wanted'[k] = wanted[k] + IF k = l THEN q ELSE 0
            BY <1>0, <1>a, <3>1 DEF CheckoutInv, CheckoutTypeOK, CheckoutTypes
        <3>. QED
            BY <1>a, <1>b, <2>1, <2>2, <2>3, <3>1, <3>2 DEF Balanced
    <2>5. cart_items' = cart_items
        OBVIOUS
    <2>. QED
        BY <1>b, <2>1, <2>3, <2>4, <2>5 DEF AccountOK, Checks, None
<1>. QED
    BY <1>1, <1>3, <1>4, <1>5, <1>6 DEF CheckoutInv, CheckoutTypeOK

(* An item of the guest's is looked up in the cart.                        *)
LEMMA MergeItemKeeps ==
    ASSUME CheckoutInv, NEW c \in Calls, MergeItem(c)
    PROVE  CheckoutInv'
<1> USE CheckoutAssumption DEF MergeItem, cartVars, couponVars, historyVars
<1>0. PICK l \in Listings :
         /\ items[c][l] > 0
         /\ LookUp(c, "merge", l, items[c][l])
    OBVIOUS
<1>a. items[c][l] \in Nat \ {0}
    BY <1>0 DEF CheckoutInv, CheckoutTypeOK, CheckoutTypes
<1>c. Found(c, "merge", l, items[c][l])
    BY <1>0, <1>a, LookUpFinds
<1>b. /\ pc[c] = "merge"
      /\ listing'[c] = l
      /\ quantity'[c] > 0
      /\ Adding(c)' = items[c][l]
      /\ pc'[c] \in {"insert", "update"}
      /\ pc'[c] = "update" => /\ row'[c] \in Rows
                              /\ cart_items[row'[c]] # NULL
                              /\ cart_items[row'[c]].listing = l
    <2>1. cart_items' = cart_items
        OBVIOUS
    <2>. QED
        BY <1>a, <1>c, <2>1 DEF Found, Adding
<1>1. CheckoutTypes'
    BY <1>0, <1>c DEF Found, CheckoutInv, CheckoutTypeOK, CheckoutTypes
<1>2. OtherCheckouts(c)
    BY <1>c DEF Found, OtherCheckouts
<1>3. BilledAsBought'
    BY BillsKept
<1>4. CheckoutCallInv' /\ OrderHasOneCall'
    <2>1. CheckoutCallOK(c)
        BY DEF CheckoutInv, CheckoutCallInv
    <2>2. CheckoutCallOK(c)'
        <3>1. /\ order'[c] = order[c] /\ claimed'[c] = claimed[c]
              /\ order[c] = NULL /\ ~claimed[c]
            BY <1>b, <2>1 DEF CheckoutCallOK
        <3>. QED
            BY <1>b, <3>1 DEF CheckoutCallOK
    <2>. QED
        BY <1>2, <2>2, CallsStillOK
<1>5. UsesInv'
    BY UsesKept
<1>6. AccountInv'
    <2> SUFFICES ASSUME ~disturbed'
                 PROVE  /\ \A d \in Calls : d # c => pc[d] = "idle"
                        /\ pc'[c] # "dead"
                        /\ pc'[c] = "idle" => Balanced'
                        /\ AccountOK(c)'
        BY <1>2, AccountKept
    <2>1. pc[c] # "idle" /\ ~disturbed
        BY <1>b
    <2>2. (\A d \in Calls : d # c => pc[d] = "idle") /\ AccountOK(c)
        BY <2>1, AloneAtWork
    <2>3. \A x \in Listings : Held(x)' = Held(x) /\ CartUnits(x)' = CartUnits(x)
        BY CartKept
    <2>4. items'[c] = items[c] /\ items[c] # None /\ wanted' = wanted /\ cart_items' = cart_items
        BY <1>0 DEF None
    <2>5. \A k \in Listings : wanted'[k] = Held(k)' + items'[c][k]
        BY <1>b, <2>2, <2>3, <2>4 DEF AccountOK
    <2>. QED
        BY <1>b, <2>2, <2>4, <2>5 DEF AccountOK, Checks
<1>. QED
    BY <1>1, <1>3, <1>4, <1>5, <1>6 DEF CheckoutInv, CheckoutTypeOK

(* The row is written: the call ends, or goes on with the merge.           *)
LEMMA AddedKeeps ==
    ASSUME CheckoutInv, NEW c \in Calls, NEW here \in {"insert", "update"},
           Added(c, here),
           cart_items' \in Carts,
           UNCHANGED <<guest_items, couponVars, orders, begun, crashes, historyVars>>,
           ~disturbed => \A l \in Listings :
              Held(l)' = Held(l) + IF l = listing[c] THEN Adding(c) ELSE 0
    PROVE  CheckoutInv'
<1> USE CheckoutAssumption
<1>t. CheckoutTypes
    BY DEF CheckoutInv, CheckoutTypeOK
<1>k. CheckoutCallOK(c)
    BY DEF CheckoutInv, CheckoutCallInv
<1>a. /\ pc[c] = here
      /\ order[c] = NULL
      /\ ~claimed[c]
      /\ listing[c] \in Listings
    BY <1>k DEF Added, Return, Step, CheckoutCallOK
<1>b. /\ pc' \in [Calls -> CheckoutLocations]
      /\ pc'[c] \in {"idle", "merge"}
      /\ order'[c] = NULL
      /\ ~claimed'[c]
      /\ pc'[c] = "idle" => items[c] = None /\ items'[c] = None
      /\ pc'[c] = "merge" => items[c] # None /\ items'[c] = [items[c] EXCEPT ![listing[c]] = 0]
    BY ZenonT(60), <1>t, <1>a DEF CheckoutTypes, CheckoutLocations, Added, Return, Forget, Step
<1>1. CheckoutTypes'
    <2>1. ASSUME NEW goods \in [Listings -> Nat], items' = [items EXCEPT ![c] = goods]
          PROVE  items' \in [Calls -> [Listings -> Nat]]
        BY <1>t, <2>1 DEF CheckoutTypes
    <2>2. items' \in [Calls -> [Listings -> Nat]]
        <3>1. CASE Return(c, here)
            <4>1. None \in [Listings -> Nat]
                BY DEF None
            <4>. QED
                BY <2>1, <3>1, <4>1 DEF Return, Forget
        <3>2. CASE items' = [items EXCEPT ![c][listing[c]] = 0]
            <4>1. [items[c] EXCEPT ![listing[c]] = 0] \in [Listings -> Nat]
                BY <1>t DEF CheckoutTypes
            <4>. QED
                BY <2>1, <3>2, <4>1
        <3>. QED
            BY <3>1, <3>2 DEF Added
    <2>3. \/ Forget(c)
          \/ UNCHANGED <<listing, quantity, row, from_cart, claimed, order>>
        BY DEF Added, Return
    <2>4. /\ listing' \in [Calls -> Listings \union {NULL}]
          /\ quantity' \in [Calls -> Nat]
          /\ row' \in [Calls -> Rows \union {NULL}]
          /\ from_cart' \in [Calls -> BOOLEAN]
          /\ claimed' \in [Calls -> BOOLEAN]
          /\ order' \in [Calls -> OrderIds \union {NULL}]
        <3>1. CASE Forget(c)
            BY <1>t, <3>1 DEF Forget, CheckoutTypes
        <3>2. CASE UNCHANGED <<listing, quantity, row, from_cart, claimed, order>>
            BY <1>t, <3>2 DEF CheckoutTypes
        <3>. QED
            BY <2>3, <3>1, <3>2
    <2>. QED
        BY <1>t, <1>b, <2>2, <2>4 DEF CheckoutTypes, Carts, couponVars, historyVars
<1>2. OtherCheckouts(c)
    BY <1>t DEF CheckoutTypes, OtherCheckouts, Added, Return, Forget, Step
<1>3. BilledAsBought'
    BY BillsKept
<1>4. CheckoutCallInv' /\ OrderHasOneCall'
    <2>1. CheckoutCallOK(c)'
        BY <1>b DEF CheckoutCallOK, None
    <2>. QED
        BY <1>2, <1>b, <2>1, CallsStillOK
<1>5. UsesInv'
    <2>1. ASSUME NEW d \in Calls
          PROVE  claimed'[d] = claimed[d]
        <3>1. CASE d # c
            BY <1>2, <3>1 DEF OtherCheckouts
        <3>2. CASE d = c
            <4>1. claimed[c] \in BOOLEAN /\ claimed'[c] \in BOOLEAN
                BY <1>t, <1>1 DEF CheckoutTypes
            <4>. QED
                BY <1>a, <1>b, <3>2, <4>1
        <3>. QED
            BY <3>1, <3>2
    <2>. QED
        BY <2>1, UsesKept DEF couponVars
<1>6. AccountInv'
    <2> SUFFICES ASSUME ~disturbed'
                 PROVE  /\ \A d \in Calls : d # c => pc[d] = "idle"
                        /\ pc'[c] # "dead"
                        /\ pc'[c] = "idle" => Balanced'
                        /\ AccountOK(c)'
        BY <1>2, AccountKept
    <2>1. pc[c] # "idle" /\ ~disturbed
        BY <1>a DEF historyVars
    <2>2. (\A d \in Calls : d # c => pc[d] = "idle") /\ AccountOK(c)
        BY <2>1, AloneAtWork
    <2>3. \A l \in Listings : /\ Held(l) \in Nat
                              /\ guest_items[l] \in Nat
                              /\ wanted[l] \in Int
                              /\ items[c][l] \in Nat
        BY <1>t, UnitsAreNat DEF CheckoutTypes
    <2>4. Adding(c) \in Int
        <3>1. quantity[c] \in Nat
            BY <1>t DEF CheckoutTypes
        <3>2. CASE pc[c] = "update"
            <4>1. row[c] \in Rows /\ cart_items[row[c]] # NULL
                BY <1>k, <2>2, <3>2 DEF CheckoutCallOK, AccountOK
            <4>2. cart_items[row[c]].quantity \in Nat
                BY <1>t, <4>1 DEF CheckoutTypes, CartRows
            <4>. QED
                BY <3>1, <3>2, <4>2 DEF Adding
        <3>3. CASE pc[c] # "update"
            BY <3>1, <3>3 DEF Adding
        <3>. QED
            BY <3>2, <3>3
    <2>5. \A l \in Listings : Held(l)' = Held(l) + IF l = listing[c] THEN Adding(c) ELSE 0
        BY <2>1
    <2>6. wanted' = wanted /\ guest_items' = guest_items
        BY DEF historyVars
    <2>7. CASE items[c] = None
        <3>1. pc'[c] = "idle"
            BY <1>b, <2>7
        <3>2. \A l \in Listings :
                 wanted[l] = Held(l) + guest_items[l] + IF l = listing[c] THEN Adding(c) ELSE 0
            BY <1>a, <2>2, <2>7 DEF AccountOK
        <3>3. ASSUME NEW l \in Listings
              PROVE  wanted'[l] = Held(l)' + guest_items'[l]
            BY <2>3, <2>4, <2>5, <2>6, <3>2
        <3>. QED
            BY <2>2, <3>1, <3>3 DEF Balanced, AccountOK, Checks
    <2>8. CASE items[c] # None
        <3>1. pc'[c] = "merge" /\ items'[c] = [items[c] EXCEPT ![listing[c]] = 0]
            BY <1>b, <2>8
        <3>2. /\ \A l \in Listings : wanted[l] = Held(l) + items[c][l]
              /\ items[c][listing[c]] = Adding(c)
            BY <1>a, <2>2, <2>8 DEF AccountOK
        <3>3. ASSUME NEW l \in Listings
              PROVE  wanted'[l] = Held(l)' + items'[c][l]
            <4>1. items[c] \in [Listings -> Nat]
                BY <1>t DEF CheckoutTypes
            <4>2. items'[c][l] = IF l = listing[c] THEN 0 ELSE items[c][l]
                BY <3>1, <4>1
            <4>. QED
                BY <2>3, <2>4, <2>5, <2>6, <3>2, <4>2
        <3>. QED
            BY <2>2, <3>1, <3>3 DEF AccountOK, Checks
    <2>. QED
        BY <2>7, <2>8
<1>. QED
    BY <1>1, <1>3, <1>4, <1>5, <1>6 DEF CheckoutInv, CheckoutTypeOK

(* A row more in the cart.                                                 *)
LEMMA InsertCartItemKeeps ==
    ASSUME CheckoutInv, NEW c \in Calls, InsertCartItem(c)
    PROVE  CheckoutInv'
<1> USE CheckoutAssumption
<1> DEFINE v == [listing |-> listing[c], quantity |-> quantity[c], saved |-> FALSE]
<1>1. PICK r \in Rows :
         /\ cart_items[r] = NULL
         /\ Added(c, "insert")
         /\ cart_items' = [cart_items EXCEPT ![r] = v]
         /\ UNCHANGED <<guest_items, couponVars, orders, begun, crashes, historyVars>>
    BY DEF InsertCartItem
<1>t. CheckoutTypes
    BY DEF CheckoutInv, CheckoutTypeOK
<1>2. /\ pc[c] = "insert"
      /\ listing[c] \in Listings
      /\ quantity[c] \in Nat \ {0}
    BY <1>1, <1>t DEF CheckoutInv, CheckoutCallInv, CheckoutCallOK, CheckoutTypes,
       Added,
       Return, Step
<1>3. v \in CartRows /\ v # NULL
    <2>1. v \in CartRows
        BY <1>2 DEF CartRows
    <2> HIDE DEF v
    <2>. QED
        BY <2>1
<1>4. /\ cart_items \in Carts
      /\ cart_items' \in Carts
      /\ cart_items'[r] = v
      /\ \A x \in Rows : x # r => cart_items'[x] = cart_items[x]
    BY <1>1, <1>t, <1>3 DEF CheckoutTypes, Carts
<1>5. ASSUME NEW l \in Listings
      PROVE  Held(l)' = Held(l) + IF l = listing[c] THEN Adding(c) ELSE 0
    <2>1. SumOf(cart_items', RowsOn(cart_items', l))
             = SumOf(cart_items, RowsOn(cart_items, l)) - Part(cart_items[r], l) + Part(v, l)
          /\ SumOf(cart_items, RowsOn(cart_items, l)) \in Int
        BY <1>4, RowReplaced
    <2>2. Part(cart_items[r], l) = 0
        BY <1>1 DEF Part
    <2>3. Part(v, l) = IF l = listing[c] THEN Adding(c) ELSE 0
        BY <1>2, <1>3 DEF Part, Adding
    <2>4. Held(l) = SumOf(cart_items, RowsOn(cart_items, l))
        BY HeldIsSum
    <2>5. Held(l)' = SumOf(cart_items', RowsOn(cart_items', l))
        BY DEF Held, HeldRows, UnitsIn, SumOf, RowsOn
    <2> HIDE DEF v
    <2>. QED
        BY <2>1, <2>2, <2>3, <2>4, <2>5
<1>. QED
    BY <1>1, <1>4, <1>5, AddedKeeps

(* The quantity of a row is written, if the row is still there.            *)
LEMMA WriteCartItemKeeps ==
    ASSUME CheckoutInv, NEW c \in Calls, WriteCartItem(c)
    PROVE  CheckoutInv'
<1> USE CheckoutAssumption
<1> DEFINE r == row[c]
<1>t. CheckoutTypes
    BY DEF CheckoutInv, CheckoutTypeOK
<1>1. /\ Added(c, "update")
      /\ UNCHANGED <<guest_items, couponVars, orders, begun, crashes, historyVars>>
    BY DEF WriteCartItem
<1>2. /\ pc[c] = "update"
      /\ listing[c] \in Listings
      /\ quantity[c] \in Nat \ {0}
      /\ r \in Rows
    BY <1>1, <1>t DEF CheckoutInv, CheckoutCallInv, CheckoutCallOK, CheckoutTypes,
       Added,
       Return, Step
<1>3. cart_items \in Carts
    BY <1>t DEF CheckoutTypes, Carts
<1>4. CASE cart_items[r] = NULL
    <2>1. cart_items' = cart_items
        BY <1>4 DEF WriteCartItem
    <2>2. ~disturbed => FALSE
        <3>1. SUFFICES ASSUME ~disturbed PROVE FALSE
            OBVIOUS
        <3>2. AccountOK(c)
            BY <1>2, <3>1, AloneAtWork
        <3>. QED
            BY <1>2, <1>4, <3>2 DEF AccountOK
    <2>. QED
        BY <1>1, <1>3, <2>1, <2>2, AddedKeeps
<1>5. CASE cart_items[r] # NULL
    <2> DEFINE v == [cart_items[r] EXCEPT !.quantity = quantity[c]]
    <2>1. cart_items[r] \in CartRows
        BY <1>2, <1>3, <1>5 DEF Carts
    <2>2. /\ v \in CartRows
          /\ v # NULL
          /\ v.listing = cart_items[r].listing
          /\ v.quantity = quantity[c]
          /\ cart_items[r].quantity \in Nat
        BY <1>2, <2>1 DEF CartRows
    <2>3. cart_items' = [cart_items EXCEPT ![r] = v]
        BY <1>5 DEF WriteCartItem
    <2> HIDE DEF v
    <2>4. /\ cart_items' \in Carts
          /\ cart_items'[r] = v
          /\ \A x \in Rows : x # r => cart_items'[x] = cart_items[x]
        BY <1>2, <1>3, <2>2, <2>3 DEF Carts
    <2>5. ASSUME ~disturbed, NEW l \in Listings
          PROVE  Held(l)' = Held(l) + IF l = listing[c] THEN Adding(c) ELSE 0
        <3>1. SumOf(cart_items', RowsOn(cart_items', l))
                 = SumOf(cart_items, RowsOn(cart_items, l)) - Part(cart_items[r], l) + Part(v, l)
              /\ SumOf(cart_items, RowsOn(cart_items, l)) \in Int
            BY <1>2, <1>3, <2>4, RowReplaced
        <3>2. cart_items[r].listing = listing[c]
            BY <1>2, <2>5, AloneAtWork DEF AccountOK
        <3>3. Part(v, l) = IF l = listing[c] THEN quantity[c] ELSE 0
            BY <2>2, <3>2 DEF Part
        <3>4. Part(cart_items[r], l) = IF l = listing[c] THEN cart_items[r].quantity ELSE 0
            BY <1>5, <3>2 DEF Part
        <3>5. Adding(c) = quantity[c] - cart_items[r].quantity
            BY <1>2 DEF Adding
        <3>6. Held(l) = SumOf(cart_items, RowsOn(cart_items, l))
            BY HeldIsSum
        <3>7. Held(l)' = SumOf(cart_items', RowsOn(cart_items', l))
            BY DEF Held, HeldRows, UnitsIn, SumOf, RowsOn
        <3>. QED
            BY <1>2, <2>2, <3>1, <3>3, <3>4, <3>5, <3>6, <3>7
    <2>. QED
        BY <1>1, <2>4, <2>5, AddedKeeps
<1>. QED
    BY <1>4, <1>5

-----------------------------------------------------------------------------
(* Between the calls, and the end of a checkout.                           *)

(* A sum is the sum of its two parts. *)
LEMMA SumOverSplit ==
    ASSUME NEW f, NEW S, IsFiniteSet(S), \A x \in S : f[x] \in Int, NEW T \in SUBSET S
    PROVE  SumOver(f, S) = SumOver(f, T) + SumOver(f, S \ T)
<1> DEFINE rest == S \ T
           Bad == {s \in SUBSET T : SumOver(f, s \union rest) # SumOver(f, s) + SumOver(f, rest)}
<1>1. IsFiniteSet(T) /\ T \union rest = S
    BY FS_Subset
<1> SUFFICES ASSUME Bad # {}
             PROVE  FALSE
    BY <1>1
<1>2. PICK s \in Bad : \A x \in s : s \ {x} \notin Bad
    BY <1>1, MinimalBadSubset
<1>3. /\ s \in SUBSET T
      /\ IsFiniteSet(s)
      /\ IsFiniteSet(rest)
      /\ IsFiniteSet(s \union rest)
      /\ \A x \in s \union rest : f[x] \in Int
    <2>1. s \in SUBSET T /\ s \in SUBSET S /\ rest \in SUBSET S /\ s \union rest \in SUBSET S
        OBVIOUS
    <2>. QED
        BY <2>1, FS_Subset
<1>4. SumOver(f, rest) \in Int
    BY <1>3, SumOverInt
<1>5. CASE s = {}
    <2>1. SumOver(f, s) = 0 /\ s \union rest = rest
        BY <1>5, SumOverEmpty
    <2> DEFINE a == SumOver(f, s)
               b == SumOver(f, rest)
               u == SumOver(f, s \union rest)
    <2>2. a = 0 /\ u = b /\ b \in Int
        BY <1>4, <2>1
    <2>3. u # a + b
        BY <1>2
    <2> HIDE DEF a, b, u
    <2>. QED
        BY <2>2, <2>3
<1>6. CASE s # {}
    <2>1. PICK e \in s : TRUE
        BY <1>6
    <2> DEFINE less == s \ {e}
    <2>2. /\ less \in SUBSET T
          /\ (s \union rest) \ {e} = less \union rest
          /\ e \in s \union rest
        BY <1>3, <2>1
    <2>3. SumOver(f, less \union rest) = SumOver(f, less) + SumOver(f, rest)
        BY <1>2, <2>1, <2>2
    <2>4. SumOver(f, s) = f[e] + SumOver(f, less)
        BY <1>3, <2>1, SumOverRemove
    <2>5. SumOver(f, s \union rest) = f[e] + SumOver(f, less \union rest)
        BY <1>3, <2>2, SumOverRemove
    <2>6. SumOver(f, less) \in Int /\ f[e] \in Int
        BY <1>3, <2>1, FS_Subset, SumOverInt
    <2> DEFINE a == SumOver(f, s)
               b == SumOver(f, rest)
               u == SumOver(f, s \union rest)
               v == SumOver(f, less \union rest)
               w == SumOver(f, less)
    <2>7. v = w + b /\ a = f[e] + w /\ u = f[e] + v /\ w \in Int /\ f[e] \in Int /\ b \in Int
        BY <1>4, <2>3, <2>4, <2>5, <2>6
    <2>8. u # a + b
        BY <1>2
    <2> HIDE DEF a, b, u, v, w
    <2>. QED
        BY <2>7, <2>8
<1>. QED
    BY <1>5, <1>6

(* The units of some rows are those of one part and those of the rest.     *)
LEMMA SumOfSplit ==
    ASSUME NEW cart, NEW rows \in SUBSET Rows, NEW part \in SUBSET rows,
           \A r \in rows : cart[r].quantity \in Nat
    PROVE  /\ SumOf(cart, rows) = SumOf(cart, part) + SumOf(cart, rows \ part)
           /\ SumOf(cart, part) \in Int
           /\ SumOf(cart, rows \ part) \in Int
<1> DEFINE f == [r \in rows |-> cart[r].quantity]
<1>1. IsFiniteSet(rows) /\ IsFiniteSet(part) /\ IsFiniteSet(rows \ part)
    BY RowsAreFinite
<1>2. \A r \in rows : f[r] \in Int
    OBVIOUS
<1>3. SumOver(f, rows) = SumOver(f, part) + SumOver(f, rows \ part)
    BY <1>1, <1>2, SumOverSplit
<1>4. ASSUME NEW some \in SUBSET rows
      PROVE  SumOver(f, some) = SumOf(cart, some) /\ SumOver(f, some) \in Int
    <2> DEFINE g == [r \in some |-> cart[r].quantity]
    <2>1. IsFiniteSet(some)
        BY <1>1, FS_Subset
    <2>2. \A r \in some : f[r] = g[r] /\ f[r] \in Int
        OBVIOUS
    <2>3. SumOver(f, some) = SumOver(g, some)
        BY <2>1, <2>2, SumOverAgree
    <2>4. SumOver(f, some) \in Int
        BY <2>1, <2>2, SumOverInt
    <2>. QED
        BY <2>3, <2>4 DEF SumOf
<1>5. rows \in SUBSET rows /\ part \in SUBSET rows /\ rows \ part \in SUBSET rows
    OBVIOUS
<1> HIDE DEF f
<1>. QED
    BY <1>3, <1>4, <1>5

(* The units held after a step. *)
LEMMA HeldAfter ==
    ASSUME cart_items' \in Carts, NEW l
    PROVE  /\ Held(l)' = SumOf(cart_items', RowsOn(cart_items', l))
           /\ Held(l)' \in Int
<1>1. Held(l)' = SumOf(cart_items', RowsOn(cart_items', l))
    BY DEF Held, HeldRows, UnitsIn, SumOf, RowsOn
<1> DEFINE rows == RowsOn(cart_items', l)
<1>2. rows \in SUBSET Rows /\ \A r \in rows : cart_items'[r].quantity \in Nat
    BY DEF RowsOn, Carts, CartRows
<1> HIDE DEF rows
<1>3. \A r \in rows : [x \in rows |-> cart_items'[x].quantity][r] \in Int
    BY <1>2
<1>4. SumOf(cart_items', rows) \in Int
    BY <1>2, <1>3, RowsAreFinite, SumOverInt DEF SumOf
<1>. QED
    BY <1>1, <1>4 DEF rows

(* A call of one statement, that writes the cart as the customer asked.    *)
LEMMA CartCallKeeps ==
    ASSUME CheckoutInv, NEW c \in Calls, Begin(c, "idle"),
           cart_items' \in Carts, wanted' \in [Listings -> Int],
           UNCHANGED <<guest_items, couponVars, orders, checkoutLocals, crashes>>,
           \A l \in Listings : wanted'[l] - Held(l)' = wanted[l] - Held(l)
    PROVE  CheckoutInv'
<1> USE CheckoutAssumption
<1>t. CheckoutTypes
    BY DEF CheckoutInv, CheckoutTypeOK
<1>a. pc' = pc /\ pc[c] = "idle"
    BY <1>t DEF CheckoutTypes, Begin, Step
<1>1. CheckoutTypes'
    <2>1. begun' \in 0 .. MaxCalls /\ disturbed' \in BOOLEAN
        BY <1>t DEF CheckoutTypes, Begin, Begun
    <2>. QED
        BY <1>t, <1>a, <2>1 DEF CheckoutTypes, Carts, couponVars, checkoutLocals
<1>2. OtherCheckouts(c)
    BY <1>a DEF OtherCheckouts, checkoutLocals
<1>3. BilledAsBought'
    BY BillsKept
<1>4. CheckoutCallInv' /\ OrderHasOneCall'
    <2>1. CheckoutCallOK(c)
        BY DEF CheckoutInv, CheckoutCallInv
    <2>2. CheckoutCallOK(c)'
        BY <1>a, <2>1 DEF CheckoutCallOK, IsBillOf, checkoutLocals, None
    <2>. QED
        BY <1>2, <2>2, CallsStillOK DEF checkoutLocals
<1>5. UsesInv'
    BY UsesKept DEF couponVars, checkoutLocals
<1>6. AccountInv'
    <2> SUFFICES ASSUME ~disturbed'
                 PROVE  /\ \A d \in Calls : d # c => pc[d] = "idle"
                        /\ pc'[c] # "dead"
                        /\ pc'[c] = "idle" => Balanced'
                        /\ AccountOK(c)'
        BY <1>2, AccountKept
    <2>1. (\A d \in Calls : pc[d] = "idle") /\ Balanced
        BY BalancedBefore DEF Begin
    <2>2. ASSUME NEW l \in Listings
          PROVE  wanted'[l] = Held(l)' + guest_items'[l]
        <3>1. /\ Held(l) \in Nat
              /\ guest_items[l] \in Nat
              /\ guest_items'[l] = guest_items[l]
              /\ wanted[l] \in Int
              /\ wanted'[l] \in Int
            BY <1>t, UnitsAreNat DEF CheckoutTypes
        <3>2. Held(l)' \in Int
            BY HeldAfter
        <3>3. wanted[l] = Held(l) + guest_items[l]
            BY <2>1 DEF Balanced
        <3>4. wanted'[l] - Held(l)' = wanted[l] - Held(l)
            OBVIOUS
        <3>. QED
            BY <3>1, <3>2, <3>3, <3>4
    <2>. QED
        BY <1>a, <2>1, <2>2 DEF Balanced, AccountOK, Checks
<1>. QED
    BY <1>1, <1>3, <1>4, <1>5, <1>6 DEF CheckoutInv, CheckoutTypeOK

(* A row of the cart is written. *)
LEMMA RowWritten ==
    ASSUME cart_items \in Carts, NEW r \in Rows, NEW v \in CartRows \union {NULL},
           cart_items' = [cart_items EXCEPT ![r] = v]
    PROVE  /\ cart_items' \in Carts
           /\ \A l \in Listings :
                 /\ Held(l)' = Held(l) - Part(cart_items[r], l) + Part(v, l)
                 /\ Held(l) \in Int
<1>1. /\ cart_items' \in Carts
      /\ cart_items'[r] = v
      /\ \A x \in Rows : x # r => cart_items'[x] = cart_items[x]
    BY DEF Carts
<1>2. ASSUME NEW l \in Listings
      PROVE  Held(l)' = Held(l) - Part(cart_items[r], l) + Part(v, l) /\ Held(l) \in Int
    <2>1. SumOf(cart_items', RowsOn(cart_items', l))
             = SumOf(cart_items, RowsOn(cart_items, l)) - Part(cart_items[r], l) + Part(v, l)
          /\ SumOf(cart_items, RowsOn(cart_items, l)) \in Int
        <3> DEFINE new == cart_items'
        <3>1. /\ new \in Carts
              /\ new[r] = v
              /\ \A x \in Rows : x # r => new[x] = cart_items[x]
            BY <1>1
        <3> HIDE DEF new
        <3>2. /\ SumOf(new, RowsOn(new, l))
                    = SumOf(cart_items, RowsOn(cart_items, l)) - Part(cart_items[r], l)
                      + Part(new[r], l)
              /\ SumOf(cart_items, RowsOn(cart_items, l)) \in Int
            BY <3>1, RowReplaced
        <3>. QED
            BY <3>1, <3>2 DEF new
    <2>. QED
        BY <1>1, <2>1, HeldIsSum, HeldAfter
<1>. QED
    BY <1>1, <1>2

(* The customer changes or deletes a row.                                  *)
LEMMA UpdateCartItemQuantityKeeps ==
    ASSUME CheckoutInv, NEW c \in Calls, UpdateCartItemQuantity(c)
    PROVE  CheckoutInv'
<1> USE CheckoutAssumption
<1>1. PICK r \in Rows, q \in Quantities \union {0} :
         /\ cart_items[r] # NULL
         /\ Begin(c, "idle")
         /\ cart_items' = IF q = 0 THEN [cart_items EXCEPT ![r] = NULL]
                          ELSE [cart_items EXCEPT ![r].quantity = q]
         /\ wanted' = [wanted EXCEPT
                         ![cart_items[r].listing] = @ - cart_items[r].quantity + q]
         /\ UNCHANGED <<guest_items, couponVars, orders, checkoutLocals, crashes>>
    BY DEF UpdateCartItemQuantity
<1> DEFINE v == IF q = 0 THEN NULL ELSE [cart_items[r] EXCEPT !.quantity = q]
           here == cart_items[r].listing
           old == cart_items[r].quantity
<1>t. CheckoutTypes
    BY DEF CheckoutInv, CheckoutTypeOK
<1>2. /\ q \in Nat
      /\ cart_items \in Carts
      /\ cart_items[r] \in CartRows
      /\ here \in Listings
      /\ old \in Nat
    BY <1>1, <1>t DEF CheckoutTypes, Carts, CartRows
<1>3. /\ v \in CartRows \union {NULL}
      /\ cart_items' = [cart_items EXCEPT ![r] = v]
      /\ \A l \in Listings : Part(v, l) = IF l = here THEN q ELSE 0
      /\ \A l \in Listings : Part(cart_items[r], l) = IF l = here THEN old ELSE 0
    <2>1. CASE q = 0
        BY <1>1, <1>2, <2>1 DEF Part
    <2>2. CASE q # 0
        <3> DEFINE w == [cart_items[r] EXCEPT !.quantity = q]
        <3>1. w \in CartRows /\ w.quantity = q /\ w.listing = here
            BY <1>2, <2>2 DEF CartRows
        <3>2. v = w /\ cart_items' = [cart_items EXCEPT ![r] = w]
            BY <1>1, <2>2
        <3> HIDE DEF w, v
        <3>3. w # NULL
            BY <3>1
        <3>. QED
            BY <1>1, <1>2, <3>1, <3>2, <3>3 DEF Part
    <2>. QED
        BY <2>1, <2>2
<1> HIDE DEF v
<1>4. /\ cart_items' \in Carts
      /\ \A l \in Listings : /\ Held(l)' = Held(l) - Part(cart_items[r], l) + Part(v, l)
                             /\ Held(l) \in Int
    BY <1>2, <1>3, RowWritten
<1>5. /\ wanted' \in [Listings -> Int]
      /\ \A l \in Listings : /\ wanted'[l] = wanted[l] + IF l = here THEN q - old ELSE 0
                             /\ wanted[l] \in Int
    <2> DEFINE d == wanted[here] - old + q
    <2>1. wanted \in [Listings -> Int]
        BY <1>t DEF CheckoutTypes
    <2>2. d \in Int /\ d = wanted[here] + (q - old)
        BY <1>2, <2>1
    <2>3. wanted' = [wanted EXCEPT ![here] = d]
        BY <1>1
    <2> HIDE DEF d, here, old
    <2>. QED
        BY <1>2, <2>1, <2>2, <2>3
<1>6. ASSUME NEW l \in Listings
      PROVE  wanted'[l] - Held(l)' = wanted[l] - Held(l)
    <2> HIDE DEF here, old
    <2>. QED
        BY <1>2, <1>3, <1>4, <1>5
<1>. QED
    BY <1>1, <1>4, <1>5, <1>6, CartCallKeeps

(* A row is saved for later, or is back in the cart.                       *)
LEMMA SetSavedForLaterKeeps ==
    ASSUME CheckoutInv, NEW c \in Calls, SetSavedForLater(c)
    PROVE  CheckoutInv'
<1> USE CheckoutAssumption
<1>1. PICK r \in Rows, saved \in BOOLEAN :
         /\ cart_items[r] # NULL
         /\ Begin(c, "idle")
         /\ cart_items' = [cart_items EXCEPT ![r].saved = saved]
         /\ UNCHANGED <<guest_items, couponVars, orders, checkoutLocals, crashes, wanted>>
    BY DEF SetSavedForLater
<1> DEFINE v == [cart_items[r] EXCEPT !.saved = saved]
<1>t. CheckoutTypes
    BY DEF CheckoutInv, CheckoutTypeOK
<1>2. cart_items \in Carts /\ cart_items[r] \in CartRows
    BY <1>1, <1>t DEF CheckoutTypes, Carts
<1>3. /\ v \in CartRows
      /\ v.listing = cart_items[r].listing
      /\ v.quantity = cart_items[r].quantity
      /\ cart_items' = [cart_items EXCEPT ![r] = v]
    BY <1>1, <1>2 DEF CartRows
<1> HIDE DEF v
<1>4. \A l \in Listings : Part(v, l) = Part(cart_items[r], l) /\ Part(v, l) \in Nat
    BY <1>1, <1>2, <1>3 DEF Part, CartRows
<1>5. /\ cart_items' \in Carts
      /\ \A l \in Listings : /\ Held(l)' = Held(l) - Part(cart_items[r], l) + Part(v, l)
                             /\ Held(l) \in Int
    BY <1>2, <1>3, RowWritten
<1>6. wanted' = wanted /\ wanted \in [Listings -> Int]
    BY <1>1, <1>t DEF CheckoutTypes
<1>7. ASSUME NEW l \in Listings
      PROVE  wanted'[l] - Held(l)' = wanted[l] - Held(l)
    BY <1>4, <1>5, <1>6
<1>. QED
    BY <1>1, <1>5, <1>6, <1>7, CartCallKeeps

(* What removing the listings bought leaves of a listing in the cart.      *)
LEMMA WithoutBought ==
    ASSUME CheckoutTypes, NEW bought \in SUBSET Listings,
           cart_items' = WithoutListings(bought), NEW l \in Listings
    PROVE  /\ cart_items' \in Carts
           /\ Held(l)' = Held(l) - (IF l \in bought THEN CartUnits(l) ELSE 0)
<1> USE CheckoutAssumption
<1>1. cart_items' \in Carts
    BY DEF WithoutListings, CheckoutTypes, Carts
<1> DEFINE rows == RowsOn(cart_items, l)
           part == RowsOf(l)
<1>2. /\ rows \in SUBSET Rows
      /\ part \in SUBSET rows
      /\ \A r \in rows : cart_items[r].quantity \in Nat
    BY DEF RowsOn, RowsOf, InCart, CheckoutTypes, CartRows
<1>3. /\ Held(l) = SumOf(cart_items, rows)
      /\ CartUnits(l) = SumOf(cart_items, part)
      /\ Held(l)' = SumOf(cart_items', RowsOn(cart_items', l))
    BY <1>1, HeldIsSum, HeldAfter
<1>4. CASE l \in bought
    <2>1. RowsOn(cart_items', l) = rows \ part
        BY <1>4 DEF RowsOn, RowsOf, WithoutListings, IsPaidFor, InCart
    <2>2. \A r \in rows \ part : cart_items[r].quantity = cart_items'[r].quantity
        BY DEF RowsOn, RowsOf, WithoutListings, IsPaidFor, InCart
    <2>3. SumOf(cart_items', rows \ part) = SumOf(cart_items, rows \ part)
        BY <2>2, SumOfAgree
    <2>4. /\ SumOf(cart_items, rows) = SumOf(cart_items, part) + SumOf(cart_items, rows \ part)
          /\ SumOf(cart_items, part) \in Int
          /\ SumOf(cart_items, rows \ part) \in Int
        BY <1>2, SumOfSplit
    <2> HIDE DEF rows, part
    <2>. QED
        BY <1>1, <1>3, <1>4, <2>1, <2>3, <2>4
<1>5. CASE l \notin bought
    <2>1. RowsOn(cart_items', l) = rows
        BY <1>5 DEF RowsOn, WithoutListings, IsPaidFor, InCart
    <2>2. \A r \in rows : cart_items[r].quantity = cart_items'[r].quantity
        BY <1>5 DEF RowsOn, WithoutListings, IsPaidFor, InCart
    <2>3. SumOf(cart_items', rows) = SumOf(cart_items, rows)
        BY <2>2, SumOfAgree
    <2>4. Held(l) \in Nat
        BY UnitsAreNat
    <2> HIDE DEF rows, part
    <2>. QED
        BY <1>1, <1>3, <1>5, <2>1, <2>3, <2>4
<1>. QED
    BY <1>4, <1>5

(* The checkout takes out of the cart what was bought.                     *)
LEMMA RemoveCartItemsKeeps ==
    ASSUME CheckoutInv, NEW c \in Calls, RemoveCartItems(c)
    PROVE  CheckoutInv'
<1> USE CheckoutAssumption
<1>t. CheckoutTypes
    BY DEF CheckoutInv, CheckoutTypeOK
<1> DEFINE bought == Bought(items[c])
<1>a. /\ pc[c] = "remove"
      /\ pc' = [pc EXCEPT ![c] = "idle"]
      /\ Forget(c)
      /\ cart_items' = WithoutListings(bought)
    BY DEF RemoveCartItems, Return, Step
<1>b. bought \in SUBSET Listings
    BY DEF Bought
<1>c. \A l \in Listings : /\ cart_items' \in Carts
                          /\ Held(l)' = Held(l) - (IF l \in bought THEN CartUnits(l) ELSE 0)
    <2> HIDE DEF bought
    <2>. QED
        BY <1>t, <1>a, <1>b, WithoutBought
<1>d. /\ pc' \in [Calls -> CheckoutLocations]
      /\ pc'[c] = "idle"
      /\ items'[c] = None
      /\ order'[c] = NULL
      /\ ~claimed'[c]
    BY <1>t, <1>a DEF CheckoutTypes, CheckoutLocations, Forget
<1>1. CheckoutTypes'
    <2>1. cart_items' \in [Rows -> CartRows \union {NULL}]
        BY <1>t, <1>a DEF WithoutListings, CheckoutTypes
    <2>2. /\ listing' \in [Calls -> Listings \union {NULL}]
          /\ quantity' \in [Calls -> Nat]
          /\ row' \in [Calls -> Rows \union {NULL}]
          /\ items' \in [Calls -> [Listings -> Nat]]
          /\ from_cart' \in [Calls -> BOOLEAN]
          /\ claimed' \in [Calls -> BOOLEAN]
          /\ order' \in [Calls -> OrderIds \union {NULL}]
        BY <1>t, <1>a DEF Forget, CheckoutTypes, None
    <2>. QED
        BY <1>t, <1>d, <2>1, <2>2 DEF CheckoutTypes, RemoveCartItems, couponVars,
           historyVars
<1>2. OtherCheckouts(c)
    BY <1>t, <1>a DEF CheckoutTypes, OtherCheckouts, Forget
<1>3. BilledAsBought'
    BY BillsKept DEF RemoveCartItems
<1>4. CheckoutCallInv' /\ OrderHasOneCall'
    <2>1. CheckoutCallOK(c)'
        BY <1>d DEF CheckoutCallOK, None
    <2>2. orders' = orders
        BY DEF RemoveCartItems
    <2>. QED
        BY <1>2, <1>d, <2>1, <2>2, CallsStillOK
<1>5. UsesInv'
    <2>1. ~claimed[c]
        BY <1>a DEF CheckoutInv, CheckoutCallInv, CheckoutCallOK
    <2>2. ASSUME NEW d \in Calls
          PROVE  claimed'[d] = claimed[d]
        <3>1. CASE d # c
            BY <1>2, <3>1 DEF OtherCheckouts
        <3>2. CASE d = c
            <4>1. claimed[c] \in BOOLEAN /\ claimed'[c] \in BOOLEAN
                BY <1>t, <1>1 DEF CheckoutTypes
            <4>. QED
                BY <1>d, <2>1, <3>2, <4>1
        <3>. QED
            BY <3>1, <3>2
    <2>. QED
        BY <2>2, UsesKept DEF RemoveCartItems, couponVars
<1>6. AccountInv'
    <2> SUFFICES ASSUME ~disturbed'
                 PROVE  /\ \A d \in Calls : d # c => pc[d] = "idle"
                        /\ pc'[c] # "dead"
                        /\ pc'[c] = "idle" => Balanced'
                        /\ AccountOK(c)'
        BY <1>2, AccountKept
    <2>1. (\A d \in Calls : d # c => pc[d] = "idle") /\ AccountOK(c)
        <3>1. pc[c] # "idle" /\ ~disturbed
            BY <1>a DEF RemoveCartItems, historyVars
        <3>. QED
            BY <3>1, AloneAtWork
    <2>2. ASSUME NEW l \in Listings
          PROVE  wanted'[l] = Held(l)' + guest_items'[l]
        <3>1. /\ items[c][l] = CartUnits(l)
              /\ wanted[l] = Held(l) + guest_items[l] - items[c][l]
            BY <1>a, <2>1 DEF AccountOK
        <3>2. /\ Held(l) \in Nat
              /\ CartUnits(l) \in Nat
              /\ guest_items[l] \in Nat
              /\ wanted' = wanted
              /\ guest_items' = guest_items
            BY <1>t, UnitsAreNat DEF CheckoutTypes, RemoveCartItems, historyVars
        <3>3. l \notin bought => CartUnits(l) = 0
            BY <3>1, <3>2 DEF Bought
        <3>4. Held(l)' = Held(l) - (IF l \in bought THEN CartUnits(l) ELSE 0)
            BY <1>c
        <3> HIDE DEF bought
        <3>5. Held(l)' = Held(l) - CartUnits(l)
            BY <3>2, <3>3, <3>4
        <3>. QED
            BY <3>1, <3>2, <3>5
    <2>. QED
        BY <1>d, <2>1, <2>2 DEF Balanced, AccountOK, Checks
<1>. QED
    BY <1>1, <1>3, <1>4, <1>5, <1>6 DEF CheckoutInv, CheckoutTypeOK

-----------------------------------------------------------------------------
(* It holds at the start: the cart is empty, and the guest filled his own. *)
LEMMA CheckoutInitInv ==
    ASSUME CheckoutInit
    PROVE  CheckoutInv
<1> USE CheckoutAssumption DEF CheckoutInit
<1>1. None \in [Listings -> Nat]
    BY DEF None
<1>2. guest_items \in [Listings -> Nat]
    <2>1. CASE guest_items = None
        BY <1>1, <2>1
    <2>2. CASE \E l \in Listings,
    q \in Quantities : guest_items = [None EXCEPT ![l] = q]
        <3>1. PICK l \in Listings,
        q \in Quantities : guest_items = [None EXCEPT ![l] = q]
            BY <2>2
        <3>2. q \in Nat
            OBVIOUS
        <3>. QED
            BY <1>1, <3>1, <3>2
    <2>. QED
        BY <2>1, <2>2
<1>3. CheckoutTypes
    <2>1. begun \in 0 .. MaxCalls /\ crashes \in 0 .. MaxDeaths /\ usage_count \in Nat
        OBVIOUS
    <2>2. items \in [Calls -> [Listings -> Nat]]
        BY <1>1
    <2>3. /\ cart_items \in [Rows -> CartRows \union {NULL}]
          /\ orders \in [OrderIds -> OrderRows \union {NULL}]
          /\ is_active \in BOOLEAN /\ disturbed \in BOOLEAN
        OBVIOUS
    <2>4. /\ pc \in [Calls -> CheckoutLocations]
          /\ listing \in [Calls -> Listings \union {NULL}]
          /\ quantity \in [Calls -> Nat]
          /\ row \in [Calls -> Rows \union {NULL}]
        BY DEF CheckoutLocations
    <2>5. /\ from_cart \in [Calls -> BOOLEAN]
          /\ claimed \in [Calls -> BOOLEAN]
          /\ order \in [Calls -> OrderIds \union {NULL}]
        OBVIOUS
    <2>6. wanted \in [Listings -> Int]
        BY <1>2
    <2>. QED
        BY ONLY <1>2, <2>1, <2>2, <2>3, <2>4, <2>5, <2>6 DEF CheckoutTypes
<1>4. BilledAsBought
    BY DEF BilledAsBought
<1>5. CheckoutCallInv
    BY DEF CheckoutCallInv, CheckoutCallOK
<1>6. OrderHasOneCall
    BY DEF OrderHasOneCall
<1>7. UsesInv
    <2>1. Claims = {} /\ Uses = {}
        BY DEF Claims, Uses
    <2>. QED
        BY <2>1, FS_EmptySet DEF UsesInv
<1>8. AccountInv
    <2>1. ASSUME NEW l \in Listings
          PROVE  wanted[l] = Held(l) + guest_items[l]
        <3>1. HeldRows(l) = {}
            BY DEF HeldRows
        <3>2. Held(l) = 0
            BY <3>1, SumOverEmpty DEF Held, UnitsIn
        <3>. QED
            BY <1>2, <3>2
    <2>2. \A c \in Calls : pc[c] = "idle"
        OBVIOUS
    <2>3. Balanced
        BY <2>1 DEF Balanced
    <2>4. ASSUME NEW c \in Calls PROVE AccountOK(c)
        <3>1. /\ pc[c] \notin Checks
              /\ pc[c] \notin {"remove", "merge", "insert", "update"}
            BY <2>2 DEF Checks
        <3>. QED
            BY ONLY <3>1 DEF AccountOK
    <2>. QED
        BY ONLY <2>2, <2>3, <2>4 DEF AccountInv
<1>. QED
    BY <1>3, <1>4, <1>5, <1>6, <1>7, <1>8 DEF CheckoutInv, CheckoutTypeOK

(* ... and after every step. *)
LEMMA CheckoutNextInv ==
    ASSUME CheckoutInv, [CheckoutNext]_checkoutVars
    PROVE  CheckoutInv'
<1>1. ASSUME NEW c \in Calls, CheckoutHandler(c) PROVE CheckoutInv'
    BY <1>1, InsertCartItemKeeps, WriteCartItemKeeps, MergeItemKeeps,
       DeleteGuestCartKeeps,
       ValidateCouponKeeps, ClaimCouponUsageKeeps, InsertOrderKeeps,
       InsertOrderItemsKeeps,
       PayFromWalletKeeps, LeaveUnpaidKeeps, RemoveCartItemsKeeps DEF CheckoutHandler
<1>2. CASE \E c \in Calls :
              \/ AddToCart(c)
              \/ MergeGuestCart(c)
              \/ UpdateCartItemQuantity(c)
              \/ SetSavedForLater(c)
              \/ Checkout(c)
              \/ VerifyPayment(c)
              \/ CheckoutCrash(c)
    BY <1>2, AddToCartKeeps, MergeGuestCartKeeps, UpdateCartItemQuantityKeeps,
       SetSavedForLaterKeeps, CheckoutKeeps, VerifyPaymentKeeps, CheckoutCrashKeeps
<1>3. CASE Webhook \/ CouponEnds
    BY <1>3, WebhookKeeps, CouponEndsKeeps
<1>4. CASE UNCHANGED checkoutVars
    <2>1. UNCHANGED <<cart_items, guest_items, is_active, usage_count, orders, pc, listing,
                      quantity, row, items, from_cart, claimed, order, begun, crashes,
                      wanted, disturbed>>
        BY <1>4 DEF checkoutVars, cartVars, couponVars, checkoutLocals, historyVars
    <2>2. CheckoutTypeOK'
        BY <2>1, BillsKept DEF CheckoutInv, CheckoutTypeOK, CheckoutTypes
    <2>3. CheckoutCallInv'
        BY <2>1 DEF CheckoutInv, CheckoutCallInv, CheckoutCallOK, IsBillOf, Subtotal,
           DeliveryFee, Bought, None
    <2>4. OrderHasOneCall' /\ UsesInv'
        BY <2>1, UsesKept DEF CheckoutInv, OrderHasOneCall
    <2>5. AccountInv'
        <3>1. \A l \in Listings : Held(l)' = Held(l) /\ CartUnits(l)' = CartUnits(l)
            BY <2>1, CartKept
        <3>2. Balanced' <=> Balanced
            BY <2>1, <3>1 DEF Balanced
        <3>3. \A c \in Calls : AccountOK(c) => AccountOK(c)'
            BY <2>1, <3>1, <3>2 DEF AccountOK, Adding, Checks, None
        <3>. QED
            BY <2>1, <3>2, <3>3 DEF CheckoutInv, AccountInv
    <2>. QED
        BY <2>2, <2>3, <2>4, <2>5 DEF CheckoutInv
<1>. QED
    BY <1>1, <1>2, <1>3, <1>4 DEF CheckoutNext

(* Whatever the customer's calls do to the cart, the coupon and the orders *)
(* at the same time, wherever their Workers die.                           *)
THEOREM CheckoutInvariance == CheckoutSpec => []CheckoutInv
BY CheckoutInitInv, CheckoutNextInv, PTL DEF CheckoutSpec

(* The cart, the coupon and the orders keep their types, and every order   *)
(* whose items are there is billed for those items, the prices of          *)
(* createPendingOrder, the delivery fee of each seller, and a discount no  *)
(* larger than the goods.                                                  *)
THEOREM CheckoutTypeCorrectness == CheckoutSpec => []CheckoutTypeOK
<1>1. CheckoutInv => CheckoutTypeOK
    BY DEF CheckoutInv
<1>. QED
    BY <1>1, CheckoutInvariance, PTL

(* However many checkouts race for the coupon's last use, between          *)
(* validateCoupon and claimCouponUsage or after it, and whoever dies       *)
(* holding one: the uses counted are the orders that carry the coupon and  *)
(* the claims not yet turned into an order, and never exceed the limit.    *)
THEOREM EveryUseAccounted == CheckoutSpec => []EveryUseIsAccountedFor
<1>1. CheckoutInv => EveryUseIsAccountedFor
    BY DEF CheckoutInv, UsesInv, EveryUseIsAccountedFor, Uses, Claims
<1>. QED
    BY <1>1, CheckoutInvariance, PTL

(* The customer who waits for each answer and pays from the wallet finds   *)
(* in the cart, after any sequence of calls, what he put in, less what he  *)
(* took out and what was bought.                                           *)
THEOREM UndisturbedCart == CheckoutSpec => []UndisturbedCartLosesNothing
<1>1. CheckoutInv => UndisturbedCartLosesNothing
    BY DEF CheckoutInv, AccountInv, Balanced, Held, UndisturbedCartLosesNothing
<1>. QED
    BY <1>1, CheckoutInvariance, PTL
=============================================================================
