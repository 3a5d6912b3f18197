------------------------------ MODULE Workers -------------------------------
(***************************************************************************)
(* The Workers that serve the requests: each runs a handler, one SQL       *)
(* statement or batch after the other, and between two of them stands at a *)
(* location; everything else may happen there.                             *)
(***************************************************************************)
CONSTANT
    NULL           \* SQL's NULL; what a request has not read yet

VARIABLE
    pc             \* where each request stands

Step(c, here, there) == pc[c] = here /\ pc' = [pc EXCEPT ![c] = there]
=============================================================================
