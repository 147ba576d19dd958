--------------------------- MODULE MCRateLimiter ---------------------------
(***************************************************************************)
(* The constants TLC gives RateLimiter: the checks of POST /api/links, per *)
(* address and per owner, and of POST /r/:slug, per address.               *)
(***************************************************************************)
EXTENDS InMemoryRateLimiter

CONSTANTS r1, r2, r3, ip, owner

MCRequests == {r1, r2, r3}
MCKeys == {ip, owner}
MCCheckLists == {<<ip, owner>>}
MCLimit == ip :> 2 @@ owner :> 1
MCWindow == ip :> 4 @@ owner :> 3

MCSymmetry == Permutations(MCRequests)
=============================================================================
