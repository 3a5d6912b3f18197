--------------------------- MODULE MCBookingHolds ---------------------------
(* A resource that takes one unit at a time, over two slots: customers ask *)
(* for the first slot or for both.                                         *)
EXTENDS BookingHolds

CONSTANTS s1, s2

MCWindows == {{s1}, {s1, s2}}
=============================================================================
