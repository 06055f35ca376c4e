--------------------------- MODULE MCRedisLimiter ---------------------------
(***************************************************************************)
(* RedisLimiter for TLC.                                                   *)
(***************************************************************************)
EXTENDS RedisLimiter, TLC

CONSTANTS w1, w2

OnePolicy == {[limit |-> 9, window |-> 7]}

OneInstance == (w1 :> "a") @@ (w2 :> "a")

Identities == Permutations(Workers)

(***************************************************************************)
(* What of a state can still matter: ages instead of instants, up to the   *)
(* age from which every comparison has the same outcome; how many members  *)
(* have which age and which calls they belong to instead of their names;   *)
(* and as much of the history as the next admission is compared with,      *)
(* besides whether the history is right so far.                            *)
(***************************************************************************)
Cap == MaxDelay + MaxAhead + MaxWindow \div Milli

Age(t) == IF clock - t > Cap THEN Cap ELSE clock - t

Owner(m) == {w \in Workers : pc[w] # "idle" /\ member[w] = m}

ByAge(k) ==
    [a \in -MaxAhead .. Cap |->
        LET here == {e \in Live(k) : Age(e.score) = a}
        IN  <<Cardinality(here), UNION {Owner(e.member) : e \in here}>>]

Recent(g) ==
    LET first == IF Len(g) > MaxLimit THEN Len(g) - MaxLimit + 1 ELSE 1
        tail  == SubSeq(g, first, Len(g))
    IN  [j \in DOMAIN tail |-> <<Age(tail[j].at), Age(tail[j].stamp), Owner(tail[j].member)>>]

Relevant ==
    <<[k \in Keys |-> <<ByAge(k), IF Live(k) = {} THEN 0 ELSE expireAt[k] - clock,
                        Recent(granted[k])>>],
      [w \in Workers |-> IF pc[w] = "idle" THEN <<>>
          ELSE <<pc[w], key[w], policy[w], clock - now[w], sends[w], counted[w]>>],
      [r \in Resetters |-> IF pc[r] = "idle" THEN <<>> ELSE <<pc[r], left[r], found[r]>>],
      WindowBound, AdmissionsAreCounted, OneSlotPerCall>>
=============================================================================
