------------------------ MODULE InMemoryRateLimiter ------------------------
(***************************************************************************)
(* The limiter that keeps its windows in the process, with which the route *)
(* tests stand in for Redis (repositories/rate-limiter.ts): a list of      *)
(* stamps in the order they came.                                          *)
(***************************************************************************)
EXTENDS RateLimiterRefinement, SequencesExt

\* filter: the members of a list at the positions P, in their order.
At(list, P) ==
  [n \in 1..Cardinality(P) |->
     list[CHOOSE i \in P : Cardinality({j \in P : j <= i}) = n]]

\* Mutant: a stamp exactly one window old is kept.
ConsumeInclusive(stamps, k, s) ==
  LET kept == At(stamps, {i \in DOMAIN stamps : stamps[i] >= s - Window[k]})
      full == Len(kept) >= Limit[k]
  IN [allowed |-> ~full,
      resetAt |-> (IF full THEN kept[1] ELSE s) + Window[k],
      stamps  |-> IF full THEN kept ELSE Append(kept, s)]

\* consume, of a list of stamps: the decision, when capacity returns, and the list.
Consume(stamps, k, s) ==
  LET kept == At(stamps, {i \in DOMAIN stamps : stamps[i] > s - Window[k]})
      full == Len(kept) >= Limit[k]
  IN [allowed |-> ~full,
      resetAt |-> (IF full THEN kept[1] ELSE s) + Window[k],
      stamps  |-> IF full THEN kept ELSE Append(kept, s)]

\* The lists a process has that recorded the same requests: the oldest first, and
\* those of one instant in either order.
Lists(k) ==
  {[i \in DOMAIN entries |-> entries[i].stamp] :
     entries \in {f \in SetToSeqs(log[k]) :
                    \A i, j \in DOMAIN f : i < j => f[i].stamp <= f[j].stamp}}

\* Given what Redis has, and a clock that is not behind the stamps it has, the two
\* limiters decide alike, name the same instant, and keep as many requests.
DecidesAsRedis ==
  \A k \in Keys : \A s \in 0..Horizon + Window[k] : \A stamps \in Lists(k) :
    (\A x \in log[k] : x.stamp <= s) =>
      LET d == Consume(stamps, k, s) IN
      /\ d.allowed = ~Full(k, s)
      /\ Full(k, s) => d.resetAt = ResetAt(k, s)
      /\ Len(d.stamps) = Cardinality(Kept(k, s)) + (IF d.allowed THEN 1 ELSE 0)
=============================================================================
