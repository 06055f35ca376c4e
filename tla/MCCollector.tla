---------------------------- MODULE MCCollector ----------------------------
(* The events TLC records: allowed requests of each client, and one that is *)
(* blocked, failed and has no client key.                                   *)
EXTENDS Collector, TLC

Ev(key, allowed, error) == [key |-> key, allowed |-> allowed, error |-> error]

Symmetry == Permutations(Recorders) \cup Permutations(Keys)

MCEvents == {Ev(k, TRUE, FALSE) : k \in Keys} \cup {Ev(NoKey, FALSE, TRUE)}
=============================================================================
