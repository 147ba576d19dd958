---------------------------- MODULE RateLimiter ----------------------------
(***************************************************************************)
(* Requests passing the rate limits of one route: enforceRateLimit in      *)
(* http/rate-limit.ts runs its checks one after the other, each of them    *)
(* one run of CONSUME_SCRIPT (repositories/rate-limiter.ts) in a Redis     *)
(* that all API processes share.                                           *)
(*                                                                         *)
(* Every process stamps its requests with its own clock, and a command is  *)
(* given up after Timeout but may still be executed, at any later time or  *)
(* more than once: createRedis leaves ioredis its queue of unsent commands *)
(* and its resending of unanswered ones. A window is an integer number of  *)
(* ticks; Second of them are the second that Retry-After counts in.        *)
(***************************************************************************)
EXTENDS Integers, Sequences, FiniteSets

CONSTANTS
  Requests,    \* HTTP requests, each handled once
  Keys,        \* "dimension:identity", the keys of the sorted sets
  CheckLists,  \* the checks a request may be put through, in order
  Limit,       \* rule.limit of a key
  Window,      \* rule.windowMs of a key
  Slow, Fast,  \* how far a process's clock may be behind, and ahead
  Timeout,     \* commandTimeout
  Second,
  Horizon      \* bound on the clock

ASSUME LimiterConstants ==
  /\ CheckLists \subseteq Seq(Keys) \ {<<>>}
  /\ \A list \in CheckLists : \A i, j \in DOMAIN list : list[i] = list[j] => i = j
  /\ Limit \in [Keys -> Nat \ {0}]
  /\ Window \in [Keys -> Nat \ {0}]
  /\ Slow \in Nat /\ Fast \in Nat /\ Timeout \in Nat
  /\ Second \in Nat \ {0} /\ Horizon \in Nat

VARIABLES
  now,         \* true time
  stage,       \* of each request: "new", "waiting" for a decision, "allowed", "refused"
  todo,        \* the checks it has left, the one it waits for first
  skew,        \* of the clock of the process that handles it
  retryAfter,  \* what a refused request was told
  transit,     \* scripts sent and not answered
  log,         \* the sorted sets: members, and their scores
  expires,     \* when Redis deletes them
  asked, admitted   \* history: per key, which requests sent the script, and which
                    \* were told that they may go on, and when

vars == <<now, stage, todo, skew, retryAfter, transit, log, expires, asked, admitted>>

-----------------------------------------------------------------------------
Clock(r) == now + skew[r]

\* Mutant: a request exactly one window old still counts.
KeptInclusive(k, s) == {x \in log[k] : x.stamp >= s - Window[k]}

\* Mutant: a fixed window, which begins anew at every multiple of its length.
KeptFixed(k, s) == {x \in log[k] : x.stamp \div Window[k] = s \div Window[k]}

\* What ZREMRANGEBYSCORE leaves of a sorted set, for a caller whose clock says s.
Kept(k, s) == {x \in log[k] : x.stamp > s - Window[k]}

Full(k, s) == Cardinality(Kept(k, s)) >= Limit[k]

\* When the oldest that is kept will no longer be.
ResetAt(k, s) ==
  (CHOOSE t \in {x.stamp : x \in Kept(k, s)} : \A x \in Kept(k, s) : t <= x.stamp) + Window[k]

\* Whole seconds, rounded up, and at least one.
Retry(r, resetAt) ==
  LET up == (resetAt - Clock(r) + Second - 1) \div Second IN IF up > 1 THEN up ELSE 1

\* consume: the script sets off with the process's time, and a member of its own.
Script(r, k) == [req |-> r, key |-> k, stamp |-> Clock(r)]

Ask(r, k) == asked' = [asked EXCEPT ![k] = @ \cup {[req |-> r, at |-> now]}]

\* The request waits for the answer to m.
Awaits(m) == stage[m.req] = "waiting" /\ Head(todo[m.req]) = m.key

SentAt(m) == m.stamp - skew[m.req]

\* Mutant: the member is the timestamp, so that two requests of one instant are one.
RunTimestampMember(m) ==
  /\ log' = [log EXCEPT ![m.key] =
               Kept(m.key, m.stamp) \cup
                 IF Full(m.key, m.stamp) THEN {} ELSE {[req |-> m.stamp, stamp |-> m.stamp]}]
  /\ expires' = IF Full(m.key, m.stamp) THEN expires
                ELSE [expires EXCEPT ![m.key] = now + Window[m.key]]

\* Redis runs the script: trim, count, decide, record.
Run(m) ==
  /\ log' = [log EXCEPT ![m.key] =
               Kept(m.key, m.stamp) \cup
                 IF Full(m.key, m.stamp) THEN {} ELSE {[req |-> m.req, stamp |-> m.stamp]}]
  /\ expires' = IF Full(m.key, m.stamp) THEN expires
                ELSE [expires EXCEPT ![m.key] = now + Window[m.key]]

-----------------------------------------------------------------------------
Init ==
  /\ now = 0
  /\ stage = [r \in Requests |-> "new"]
  /\ todo = [r \in Requests |-> <<>>]
  /\ skew = [r \in Requests |-> 0]
  /\ retryAfter = [r \in Requests |-> 0]
  /\ transit = {}
  /\ log = [k \in Keys |-> {}]
  /\ expires = [k \in Keys |-> 0]
  /\ asked = [k \in Keys |-> {}]
  /\ admitted = [k \in Keys |-> {}]

\* enforceRateLimit begins with the first check.
Arrive(r) ==
  /\ stage[r] = "new"
  /\ stage' = [stage EXCEPT ![r] = "waiting"]
  /\ \E list \in CheckLists, d \in -Slow..Fast :
       /\ todo' = [todo EXCEPT ![r] = list]
       /\ skew' = [skew EXCEPT ![r] = d]
       /\ transit' = transit \cup {[req |-> r, key |-> Head(list), stamp |-> now + d]}
       /\ Ask(r, Head(list))
  /\ UNCHANGED <<now, retryAfter, log, expires, admitted>>

\* The decision is that the request may go on, to the next check or to its handler.
Pass(m) ==
  /\ m \in transit /\ Awaits(m)
  /\ ~Full(m.key, m.stamp)
  /\ Run(m)
  /\ admitted' = [admitted EXCEPT ![m.key] = @ \cup {[req |-> m.req, at |-> now]}]
  /\ todo' = [todo EXCEPT ![m.req] = Tail(@)]
  /\ LET left == Tail(todo[m.req]) IN
     \/ /\ left = <<>>
        /\ stage' = [stage EXCEPT ![m.req] = "allowed"]
        /\ transit' = transit \ {m}
        /\ UNCHANGED asked
     \/ /\ left # <<>>
        /\ transit' = (transit \ {m}) \cup {Script(m.req, Head(left))}
        /\ Ask(m.req, Head(left))
        /\ UNCHANGED stage
  /\ UNCHANGED <<now, skew, retryAfter>>

\* sendRateLimited; what the earlier checks recorded stays.
Refuse(m) ==
  /\ m \in transit /\ Awaits(m)
  /\ Full(m.key, m.stamp)
  /\ Run(m)
  /\ transit' = transit \ {m}
  /\ stage' = [stage EXCEPT ![m.req] = "refused"]
  /\ retryAfter' = [retryAfter EXCEPT ![m.req] = Retry(m.req, ResetAt(m.key, m.stamp))]
  /\ UNCHANGED <<now, todo, skew, asked, admitted>>

\* Redis runs a script and nobody hears of it: the answer is lost, and the command
\* sent again, or its caller has given up.
Unheard(m) ==
  /\ m \in transit
  /\ Run(m)
  /\ UNCHANGED <<now, stage, todo, skew, retryAfter, transit, asked, admitted>>

\* The command fails or times out: the request goes on, past the checks it had left.
FailOpen(r) ==
  /\ stage[r] = "waiting"
  /\ stage' = [stage EXCEPT ![r] = "allowed"]
  /\ UNCHANGED <<now, todo, skew, retryAfter, transit, log, expires, asked, admitted>>

\* Nobody waits longer than Timeout; Redis deletes a key PEXPIRE's time after it
\* was last added to.
Tick ==
  /\ now < Horizon
  /\ \A m \in transit : Awaits(m) => now < SentAt(m) + Timeout
  /\ now' = now + 1
  /\ log' = [k \in Keys |-> IF expires[k] <= now' THEN {} ELSE log[k]]
  /\ UNCHANGED <<stage, todo, skew, retryAfter, transit, expires, asked, admitted>>

Next ==
  \/ \E r \in Requests : Arrive(r) \/ FailOpen(r)
  \/ \E m \in transit : Pass(m) \/ Refuse(m) \/ Unheard(m)
  \/ Tick

Spec == Init /\ [][Next]_vars

-----------------------------------------------------------------------------
(***************************************************************************)
(* Properties.                                                             *)
(***************************************************************************)

Stages == {"new", "waiting", "allowed", "refused"}
Scripts == [req : Requests, key : Keys, stamp : Int]
Events == [req : Requests, at : Nat]

\* Every variable has its type.
TypeOK ==
  /\ now \in Nat
  /\ stage \in [Requests -> Stages]
  /\ todo \in [Requests -> Seq(Keys)]
  /\ skew \in [Requests -> -Slow..Fast]
  /\ retryAfter \in [Requests -> Nat]
  /\ transit \in SUBSET Scripts
  /\ log \in [Keys -> SUBSET [req : Requests, stamp : Int]]
  /\ expires \in [Keys -> Int]
  /\ asked \in [Keys -> SUBSET Events]
  /\ admitted \in [Keys -> SUBSET Events]

\* How much of the window is certain, given the clocks and the time a command may
\* take, and how far back a request may count at most.
Sure == [k \in Keys |-> Window[k] - Slow - Fast - Timeout]
Doubt == [k \in Keys |-> Window[k] + Slow + Fast + Timeout]

\* "the true count over the trailing window, at any instant, with no boundary to
\* game": whenever one looks back over the sure part of a window, no more requests
\* were told to go on than the limit says, whichever processes they came to, and
\* although commands are repeated and executed late, and keys expire.
AtMostLimit ==
  \A k \in Keys :
    Cardinality({x \in admitted[k] : x.at > now - Sure[k]}) <= Limit[k]

\* A process would refuse r at k again when Retry-After says to come back.
RefusedAgain(r, k) == Full(k, Clock(r) + retryAfter[r] * Second)

\* A request that is refused and comes back to the same process when Retry-After
\* says is not refused a second time, unless something was recorded in between.
RetryIsHonest ==
  [][\A m \in transit :
       Awaits(m) /\ stage'[m.req] = "refused" => ~RefusedAgain(m.req, m.key)']_vars
=============================================================================
