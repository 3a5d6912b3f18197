----------------------------- MODULE MCShipments -----------------------------
(* One shipment, two drivers, two requests at a time. *)
EXTENDS Shipments, TLC

Symmetry == Permutations(Drivers) \union Permutations(Calls)
=============================================================================
