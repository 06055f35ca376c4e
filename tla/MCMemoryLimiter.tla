-------------------------- MODULE MCMemoryLimiter --------------------------
(***************************************************************************)
(* MemoryLimiter for TLC.                                                  *)
(***************************************************************************)
EXTENDS MemoryLimiter, TLC

OnePolicy == {[limit |-> 9, window |-> 0]}

Identities == Permutations(Workers)

(***************************************************************************)
(* What of a state can still matter: nothing about an entry nobody refers  *)
(* to nor about the last call of an idle goroutine, ages instead of        *)
(* instants, up to the age from which every comparison has the same        *)
(* outcome, and only as much of the history as the next admission is       *)
(* compared with, besides whether the history is right so far.  The        *)
(* behaviour does not depend on when the clock started, so the quotient is *)
(* finite and is explored to the end.                                      *)
(***************************************************************************)
Age(t, cap) == MinOf(clock - t, cap)

HitCap == MaxDelay + MaxScan + MaxWindow

SeenCap == MaxScan + 2 * MaxWindow + MinTTL + 1

Ages(h) == [j \in DOMAIN h |-> Age(h[j], HitCap)]

Recent(g) ==
    LET tail == SubSeq(g, MaxOf(1, Len(g) - MaxLimit + 1), Len(g))
    IN  [j \in DOMAIN tail |-> <<Age(tail[j].at, HitCap), Age(tail[j].stamp, HitCap)>>]

\* An entry is known by who refers to it, not by its identity.
Holders(e) == {k \in Keys : entries[k] = e} \cup {p \in Procs : ptr[p] = e}

\* Of a dead entry only cleanup reads anything, to decide on evicting it again.
Contents(e) ==
    IF ~dead[e] THEN <<Ages(hits[e]), window[e], Age(lastSeen[e], SeenCap)>>
    ELSE IF Holders(e) \cap (Keys \cup {Janitor}) = {} THEN <<>>
    ELSE <<window[e], Age(lastSeen[e], SeenCap)>>

Relevant ==
    <<{<<Holders(e), dead[e], Contents(e)>> : e \in {f \in Entries : ~Free(f)}},
      [w \in Workers |-> IF pc[w] = "idle" THEN <<>>
          ELSE <<pc[w], key[w], policy[w], attempt[w], kills[w], clock - now[w]>>],
      [s \in Scanners |-> IF pc[s] \in {"idle", "exited"} THEN <<pc[s]>>
          ELSE <<pc[s], key[s], left[s], IF s = Janitor THEN clock - now[s] ELSE 0>>],
      stopped \/ pc[Janitor] = "exited",
      [k \in Keys |-> Recent(granted[k])], WindowBound, LogMatchesGranted>>
=============================================================================
