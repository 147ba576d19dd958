----------------------- MODULE RateLimiterRefinement -----------------------
(***************************************************************************)
(* RateLimiter implements SlidingWindow: a request was turned away at the  *)
(* key whose check it was waiting for.                                     *)
(***************************************************************************)
EXTENDS RateLimiter

RefusedAt == [k \in Keys |-> {r \in Requests : stage[r] = "refused" /\ Head(todo[r]) = k}]

Promise == INSTANCE SlidingWindow WITH refused <- RefusedAt

\* Every step of the limiter, with its late and repeated scripts, is one of the
\* promise: no admission beyond the limit, no refusal without a full window.
ImplementsSlidingWindow == Promise!Spec
=============================================================================
