----------------------------- MODULE OrderItems -----------------------------
(***************************************************************************)
(* The orders of the marketplace and the rows of order_items.  What a      *)
(* checkout wrote there, the order an item belongs to, never changes.      *)
(***************************************************************************)
CONSTANTS
    Orders,        \* orders.id
    Items,         \* order_items.id
    order_of,      \* item -> its order
    NULL           \* SQL's NULL; what a request has not read yet

ItemsOf(o) == {i \in Items : order_of[i] = o}
=============================================================================
