-------------------------- MODULE BookingLifecycle --------------------------
(***************************************************************************)
(* The booking state machine: the table transitionBooking                  *)
(* (src/src/lib/booking-lifecycle.ts) looks a move up in, and what the     *)
(* booking routes (api-bookings.ts) let each role ask it for.              *)
(***************************************************************************)
BookingStatuses ==
    {"held", "pending_payment", "confirmed", "checked_in", "in_progress",
     "completed", "cancelled", "declined", "expired", "no_show", "disputed"}

(* TRANSITIONS without its 'admin' rows, which transitionBooking refuses   *)
(* ("Unsupported actor role"), nor 'draft' and 'refunded', which no caller *)
(* writes.                                                                 *)
Transitions ==
    [customer |->
        ({"held"} \X {"pending_payment", "cancelled", "expired"})
        \union {<<"pending_payment", "cancelled">>}
        \union ({"confirmed"} \X {"cancelled", "disputed"})
        \union {<<"completed", "disputed">>},
     provider |->
        ({"held"} \X {"confirmed", "declined", "cancelled"})
        \union ({"pending_payment"} \X {"confirmed", "declined"})
        \union ({"confirmed"} \X {"checked_in", "in_progress", "cancelled", "no_show"})
        \union ({"checked_in"} \X {"in_progress", "completed"})
        \union {<<"in_progress", "completed">>},
     system |-> {<<"pending_payment", "confirmed">>}]

Roles == {"customer", "provider", "system"}

(* What POST /bookings/:id/transition and /cancel let a client ask for. *)
RequestedTransitions ==
    [provider |-> {"confirmed", "declined", "checked_in", "in_progress",
                   "completed", "no_show", "cancelled"},
     customer |-> {"disputed", "cancelled"}]

(* The outcomes after which transitionBooking releases the allocation. *)
FreesTheSlot == {"cancelled", "declined", "expired", "no_show"}

(* A deliberate fault, for the mutation runs: the column's default.        *)
FirstStatusDefault == [instant |-> "draft", request |-> "draft"]

(* What createBookingFromHold writes: instant or request mode. *)
FirstStatus == [instant |-> "pending_payment", request |-> "held"]
=============================================================================
