------------------------------ MODULE MCFleet ------------------------------
(* Two instances and two admins for TLC; a millisecond is two clock ticks. *)
EXTENDS Fleet

MCDefaultPolicy == [limit |-> 1, window |-> 4]
=============================================================================
