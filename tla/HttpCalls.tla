----------------------------- MODULE HttpCalls ------------------------------
(***************************************************************************)
(* The HTTP requests that are served at the same time, wherever a call     *)
(* that has returned may begin again: it is "idle" in between.             *)
(***************************************************************************)
EXTENDS Workers

CONSTANT
    Calls          \* concurrent HTTP requests
=============================================================================
