----------------------------- MODULE MCFailover -----------------------------
(* Failover for TLC: the request goroutines are interchangeable. *)
EXTENDS Failover, TLC

Symmetry == Permutations(Workers)

(***************************************************************************)
(* What of a state can still matter to Metered: not the flags and the last *)
(* error, which no step reads, and of the history only the balance.        *)
(***************************************************************************)
Accounts ==
    <<failures, open, remaining, up, pc, call, stopped, counts, answer, resetting, resets, met,
      redisServed + fallbackServed, fallbackServed = 0,
      admitted + others - detached, detached = 0>>
=============================================================================
