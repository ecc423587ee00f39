--------------------------- MODULE MCRequestQueue ---------------------------
(***************************************************************************)
(* RequestQueue for TLC: two tenants, the first with all jobs but one.     *)
(***************************************************************************)
EXTENDS RequestQueue

CONSTANTS r2, u1, u2

MCUserOf == [r \in Requests |-> IF r = r2 THEN u2 ELSE u1]
MCWeight == [r \in Requests |-> 1]
=============================================================================
