----------------------------- MODULE MCRefunds ------------------------------
(* One paid order with one item that was weighed: the item may come out    *)
(* lighter, as ordered, heavier or much heavier than the line the customer *)
(* paid for, whose wallet holds less than the heaviest difference.         *)
EXTENDS Refunds

CONSTANTS u1, o1, i1

MCReferenceIds == Orders \union Requests \union {NULL}
MCOpeningBalance == [u \in Users |-> 2]
MCorder_of == [i \in Items |-> o1]
MCowner == [o \in Orders |-> u1]
MCtotal == [o \in Orders |-> 2]
MCline_total == [i \in Items |-> 2]

(* A line that may come out at less than half of what was paid for it. *)
MClong_line_total == [i \in Items |-> 3]

=============================================================================
