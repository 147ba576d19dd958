------------------------- MODULE RateLimiterProofs -------------------------
(***************************************************************************)
(* For every limit, window, list of checks, skew of the clocks and time a  *)
(* command may take: the limiter lets no more through than it promises     *)
(* (AtMostLimit) and implements SlidingWindow; Retry-After is enough       *)
(* (RetryIsHonest); and the limiter of the tests decides alike             *)
(* (DecidesAsRedis).                                                       *)
(*                                                                         *)
(* The limit holds because of what Redis still has of those who were let   *)
(* through: whoever was within the sure part of the window has a member    *)
(* which no clock is far enough ahead to trim (Remembered), and one only   *)
(* (Once), so that a set with room has seen fewer than Limit[k] of them.   *)
(* Retry-After is enough because no set has more than Limit[k] members     *)
(* (Bounded): when the oldest is gone there is room for one.               *)
(***************************************************************************)
EXTENDS InMemoryRateLimiter, FiniteSetTheorems, WellFoundedInduction, TLAPS

\* Scripts under way were sent by requests that have arrived, not too long ago if they
\* are waited for, and not for a check that is still to come.
Sent ==
  /\ \A r \in Requests : stage[r] = "waiting" => todo[r] # <<>>
  /\ \A r \in Requests : \A i, j \in 1..Len(todo[r]) : todo[r][i] = todo[r][j] => i = j
  /\ \A m \in transit :
       /\ stage[m.req] # "new"
       /\ SentAt(m) <= now
       /\ Awaits(m) => now <= SentAt(m) + Timeout
       /\ [req |-> m.req, at |-> SentAt(m)] \in asked[m.key]
       /\ \A i \in 2..Len(todo[m.req]) : todo[m.req][i] # m.key

\* What Redis has was asked for, and will not be kept longer than a window.
Logged ==
  \A k \in Keys :
    /\ IsFiniteSet(log[k]) /\ IsFiniteSet(asked[k]) /\ IsFiniteSet(admitted[k])
    /\ \A e \in log[k] : /\ stage[e.req] # "new"
                         /\ [req |-> e.req, at |-> e.stamp - skew[e.req]] \in asked[k]
    /\ expires[k] <= now + Window[k]

\* A request is let through at a key once.
Once ==
  \A k \in Keys : \A x \in admitted[k] :
    /\ stage[x.req] # "new"
    /\ stage[x.req] = "waiting" => \A i \in 1..Len(todo[x.req]) : todo[x.req][i] # k
    /\ \A y \in admitted[k] : y.req = x.req => y = x

\* The member of a request that was let through is there as long as it counts.
Member(k, x) == \E e \in log[k] : e.req = x.req /\ e.stamp >= x.at - Timeout - Slow

Remembered ==
  \A k \in Keys : \A x \in admitted[k] :
    /\ x.at <= now
    /\ x.at > now - Sure[k] => expires[k] >= x.at + Window[k] /\ Member(k, x)

Safe == TypeOK /\ Sent /\ Logged /\ Once /\ Remembered /\ AtMostLimit

-----------------------------------------------------------------------------
(***************************************************************************)
(* Facts about one state.                                                  *)
(***************************************************************************)
LEMMA Constants ==
  /\ Slow \in Nat /\ Fast \in Nat /\ Timeout \in Nat /\ Second \in Nat \ {0} /\ Horizon \in Nat
  /\ \A k \in Keys : /\ Limit[k] \in Nat \ {0} /\ Window[k] \in Nat \ {0}
                     /\ Sure[k] = Window[k] - Slow - Fast - Timeout /\ Sure[k] \in Int
                     /\ Doubt[k] = Window[k] + Slow + Fast + Timeout /\ Doubt[k] \in Int
BY LimiterConstants DEF Sure, Doubt

LEMMA LeastNatural ==
  ASSUME NEW T, T \subseteq Nat, T # {}
  PROVE  \E x \in T : \A y \in T : x <= y
<1> DEFINE R == OpToRel(<, Nat)
<1>1. PICK x \in T : \A y \in T : ~ (<<y, x>> \in R)
  <2>1. IsWellFoundedOn(R, Nat)
    BY NatLessThanWellFounded
  <2> HIDE DEF R
  <2>2. QED  BY <2>1, WFMin
<1>2. ASSUME NEW y \in T, y < x PROVE FALSE
  <2>1. <<y, x>> \in Nat \X Nat /\ <<y, x>>[1] = y /\ <<y, x>>[2] = x
    OBVIOUS
  <2>2. <<y, x>> \in R
    BY <1>2, <2>1, Zenon DEF OpToRel
  <2>3. QED  BY <1>1, <2>2, Zenon
<1> HIDE DEF R
<1>3. QED  BY <1>2

\* A set of integers that is bounded below has a least one.
LEMMA LeastOf ==
  ASSUME NEW S, S \subseteq Int, S # {}, NEW b \in Int, \A t \in S : b < t
  PROVE  \E t \in S : \A u \in S : t <= u
<1> DEFINE T == {t - b : t \in S}
<1>1. T \subseteq Nat /\ T # {}
  <2>1. \A t \in S : t - b \in Nat
    OBVIOUS
  <2>2. T \subseteq Nat
    BY <2>1
  <2>3. PICK t \in S : TRUE
    OBVIOUS
  <2>4. t - b \in T
    OBVIOUS
  <2>5. QED  BY <2>2, <2>4
<1>2. PICK x \in T : \A y \in T : x <= y
  BY <1>1, LeastNatural
<1>3. PICK t \in S : x = t - b
  BY <1>2
<1>4. ASSUME NEW u \in S PROVE t <= u
  <2>1. u - b \in T
    OBVIOUS
  <2>2. x <= u - b
    BY <1>2, <2>1
  <2>3. QED  BY <1>3, <2>2
<1>5. QED  BY <1>4

\* A script is stamped by a clock that is not too far off.
LEMMA Stamps ==
  ASSUME Safe, NEW m \in transit
  PROVE  /\ m.req \in Requests /\ m.key \in Keys /\ m.stamp \in Int /\ now \in Nat
         /\ skew[m.req] \in -Slow..Fast /\ SentAt(m) \in Int
         /\ m.stamp <= now + Fast
         /\ Awaits(m) => m.stamp >= now - Timeout - Slow
<1>1. m \in Scripts /\ now \in Nat /\ skew \in [Requests -> -Slow..Fast]
  BY DEF Safe, TypeOK
<1>2. /\ m.req \in Requests /\ m.key \in Keys /\ m.stamp \in Int
      /\ skew[m.req] \in -Slow..Fast
  BY <1>1 DEF Scripts
<1>3. SentAt(m) <= now /\ (Awaits(m) => now <= SentAt(m) + Timeout)
  BY DEF Safe, Sent
<1>4. QED  BY <1>1, <1>2, <1>3, Constants DEF SentAt

LEMMA KeptFinite ==
  ASSUME Safe, NEW k \in Keys, NEW s \in Int
  PROVE  /\ IsFiniteSet(Kept(k, s)) /\ Cardinality(Kept(k, s)) \in Nat
         /\ Kept(k, s) \subseteq [req : Requests, stamp : Int]
<1>1. log[k] \subseteq [req : Requests, stamp : Int] /\ IsFiniteSet(log[k])
  BY DEF Safe, TypeOK, Logged
<1>2. Kept(k, s) \in SUBSET log[k]
  BY DEF Kept
<1>3. IsFiniteSet(Kept(k, s))
  BY <1>1, <1>2, FS_Subset
<1>4. QED  BY <1>1, <1>2, <1>3, FS_CardinalityType

\* A full set has a member that goes first, so that Retry-After is a number.
LEMMA OldestKept ==
  ASSUME Safe, NEW k \in Keys, NEW s \in Int, Full(k, s)
  PROVE  \E oldest \in Kept(k, s) :
           /\ oldest.stamp \in Int /\ ResetAt(k, s) = oldest.stamp + Window[k]
           /\ \A x \in Kept(k, s) : oldest.stamp <= x.stamp
<1> DEFINE S == {x.stamp : x \in Kept(k, s)}
<1>1. Kept(k, s) # {}
  <2>1. Cardinality({}) = 0
    BY FS_EmptySet
  <2>2. Limit[k] \in Nat \ {0} /\ Cardinality(Kept(k, s)) >= Limit[k]
    BY LimiterConstants DEF Full
  <2>3. QED  BY <2>1, <2>2
<1>2. S \subseteq Int /\ S # {}
  BY <1>1, KeptFinite
<1>3. s - Window[k] \in Int /\ \A t \in S : s - Window[k] < t
  BY <1>2, Constants, KeptFinite DEF Kept
<1>4. \E t \in S : \A u \in S : t <= u
  BY <1>2, <1>3, LeastOf
<1>5. ASSUME NEW t \in S PROVE (\A u \in S : t <= u) <=> (\A x \in Kept(k, s) : t <= x.stamp)
  OBVIOUS
<1> DEFINE least == CHOOSE t \in S : \A x \in Kept(k, s) : t <= x.stamp
<1>6. least \in S /\ \A x \in Kept(k, s) : least <= x.stamp
  BY <1>4, <1>5
<1>7. ResetAt(k, s) = least + Window[k]
  BY DEF ResetAt
<1> HIDE DEF least
<1>8. PICK oldest \in Kept(k, s) : oldest.stamp = least
  BY <1>6
<1>9. QED  BY <1>2, <1>6, <1>7, <1>8

LEMMA ResetAtType ==
  ASSUME Safe, NEW k \in Keys, NEW s \in Int, Full(k, s)
  PROVE  ResetAt(k, s) \in Int
<1>1. PICK oldest \in Kept(k, s) :
        oldest.stamp \in Int /\ ResetAt(k, s) = oldest.stamp + Window[k]
  BY OldestKept
<1>2. QED  BY <1>1, Constants

LEMMA AtMostAsMany ==
  ASSUME NEW S, NEW T, IsFiniteSet(T), NEW f \in [S -> T],
         \A x, y \in S : f[x] = f[y] => x = y
  PROVE  IsFiniteSet(S) /\ Cardinality(S) <= Cardinality(T)
<1>1. IsInjective(f)
  BY DEF IsInjective
<1>2. f \in Injection(S, T)
  BY <1>1 DEF Injection
<1>3. QED  BY <1>2, FS_Injection

\* Those let through within the sure part of the window all have a member which the
\* script does not trim, so that a set with room for one more has room for it.
LEMMA RoomLeft ==
  ASSUME Safe, NEW k \in Keys, NEW s \in Int, s <= now + Fast, ~Full(k, s)
  PROVE  LET R == {x \in admitted[k] : x.at > now - Sure[k]} IN
         IsFiniteSet(R) /\ Cardinality(R) + 1 <= Limit[k]
<1> DEFINE R == {x \in admitted[k] : x.at > now - Sure[k]}
           f == [x \in R |-> CHOOSE e \in Kept(k, s) : e.req = x.req]
<1>1. now \in Nat /\ log[k] \subseteq [req : Requests, stamp : Int] /\ admitted[k] \subseteq Events
  BY DEF Safe, TypeOK
<1>2. ASSUME NEW x \in R PROVE \E e \in Kept(k, s) : e.req = x.req
  <2>1. PICK e \in log[k] : e.req = x.req /\ e.stamp >= x.at - Timeout - Slow
    BY <1>2 DEF Safe, Remembered, Member
  <2>2. e.stamp \in Int /\ x.at \in Nat
    BY <1>1 DEF Events
  <2>3. e.stamp > s - Window[k]
    BY <1>1, <2>1, <2>2, Constants
  <2>4. QED  BY <2>1, <2>3 DEF Kept
<1>3. f \in [R -> Kept(k, s)] /\ \A x \in R : f[x].req = x.req
  BY <1>2
<1>4. ASSUME NEW x \in R, NEW y \in R, f[x] = f[y] PROVE x = y
  <2>1. x.req = y.req
    BY <1>3, <1>4
  <2>2. QED  BY <2>1 DEF Safe, Once
<1>5. IsFiniteSet(Kept(k, s)) /\ Cardinality(Kept(k, s)) \in Nat
  BY KeptFinite
<1> HIDE DEF f
<1>6. IsFiniteSet(R) /\ Cardinality(R) <= Cardinality(Kept(k, s))
  BY <1>3, <1>4, <1>5, AtMostAsMany
<1>7. Cardinality(R) \in Nat
  BY <1>6, FS_CardinalityType
<1>8. Cardinality(Kept(k, s)) < Limit[k]
  BY <1>5, Constants DEF Full
<1> HIDE DEF R
<1>9. Cardinality(R) + 1 <= Limit[k]
  BY <1>5, <1>6, <1>7, <1>8, Constants
<1>10. QED  BY <1>6, <1>9 DEF R

\* Every member that a waiting request finds in a full set has asked a while ago at most.
LEMMA WindowFull ==
  ASSUME Safe, NEW m \in transit, Awaits(m), Full(m.key, m.stamp)
  PROVE  Cardinality({x \in asked[m.key] : x.at > now - Doubt[m.key]}) >= Limit[m.key]
<1> DEFINE k == m.key
           s == m.stamp
           A == {x \in asked[k] : x.at > now - Doubt[k]}
           f == [e \in Kept(k, s) |-> [req |-> e.req, at |-> e.stamp - skew[e.req]]]
<1>1. /\ k \in Keys /\ s \in Int /\ now \in Nat /\ s >= now - Timeout - Slow
      /\ log[k] \subseteq [req : Requests, stamp : Int] /\ skew \in [Requests -> -Slow..Fast]
  BY Stamps DEF Safe, TypeOK
<1>2. ASSUME NEW e \in Kept(k, s) PROVE f[e] \in A
  <2>1. e \in log[k] /\ e.stamp > s - Window[k]
    BY DEF Kept
  <2>2. e.stamp \in Int /\ skew[e.req] \in -Slow..Fast
    BY <1>1, <2>1
  <2>3. f[e] \in asked[k]
    BY <1>1, <2>1 DEF Safe, Logged
  <2>4. f[e].at > now - Doubt[k]
    BY <1>1, <2>1, <2>2, Constants
  <2>5. QED  BY <2>3, <2>4
<1>3. f \in [Kept(k, s) -> A]
  BY <1>2
<1>4. ASSUME NEW e \in Kept(k, s), NEW g \in Kept(k, s), f[e] = f[g] PROVE e = g
  <2>1. e \in [req : Requests, stamp : Int] /\ g \in [req : Requests, stamp : Int]
    BY <1>1, KeptFinite
  <2>2. e.req = g.req /\ e.stamp - skew[e.req] = g.stamp - skew[g.req]
    BY <1>4
  <2>3. skew[e.req] \in Int /\ e.stamp \in Int /\ g.stamp \in Int
    BY <1>1, <2>1, Constants
  <2>4. e.stamp = g.stamp
    BY <2>2, <2>3
  <2>5. QED  BY <2>1, <2>2, <2>4
<1>5. IsFiniteSet(A)
  <2>1. IsFiniteSet(asked[k]) /\ A \in SUBSET asked[k]
    BY <1>1 DEF Safe, Logged
  <2>2. QED  BY <2>1, FS_Subset
<1> HIDE DEF f
<1>6. Cardinality(Kept(k, s)) <= Cardinality(A)
  BY <1>3, <1>4, <1>5, AtMostAsMany
<1>7. Cardinality(A) \in Nat /\ Cardinality(Kept(k, s)) \in Nat
  BY <1>1, <1>5, FS_CardinalityType, KeptFinite
<1>8. Cardinality(Kept(k, s)) >= Limit[k]
  BY DEF Full
<1> HIDE DEF A
<1>9. Cardinality(A) >= Limit[k]
  BY <1>1, <1>6, <1>7, <1>8, Constants
<1>10. QED  BY <1>9 DEF A

\* What a run of the script, heard of or not, does to Redis.
LEMMA Runs ==
  ASSUME Safe, NEW m \in transit, Run(m)
  PROVE  /\ log' \in [Keys -> SUBSET [req : Requests, stamp : Int]]
         /\ expires' \in [Keys -> Int]
         /\ \A k \in Keys :
              /\ IsFiniteSet(log'[k])
              /\ \A e \in log'[k] :
                   e \in log[k] \/ (k = m.key /\ e.req = m.req /\ e.stamp = m.stamp)
              /\ \A e \in log[k] : e.stamp > now + Fast - Window[k] => e \in log'[k]
              /\ expires[k] <= expires'[k] /\ expires'[k] <= now + Window[k]
<1>1. /\ m.req \in Requests /\ m.key \in Keys /\ m.stamp \in Int /\ m.stamp <= now + Fast
      /\ now \in Nat
  BY Stamps
<1>2. /\ log \in [Keys -> SUBSET [req : Requests, stamp : Int]]
      /\ expires \in [Keys -> Int]
      /\ \A k \in Keys : IsFiniteSet(log[k]) /\ expires[k] <= now + Window[k]
  BY DEF Safe, TypeOK, Logged
<1> DEFINE new == IF Full(m.key, m.stamp) THEN {} ELSE {[req |-> m.req, stamp |-> m.stamp]}
           kept == Kept(m.key, m.stamp)
<1>3. /\ IsFiniteSet(kept) /\ kept \subseteq [req : Requests, stamp : Int]
      /\ new \subseteq [req : Requests, stamp : Int]
      /\ \A e \in new : e.req = m.req /\ e.stamp = m.stamp
  BY <1>1, KeptFinite
<1>4. IsFiniteSet(kept \cup new)
  <2>1. IsFiniteSet(new)
    BY FS_EmptySet, FS_Singleton
  <2>2. QED  BY <1>3, <2>1, FS_Union
<1>5. \A e \in kept : e \in log[m.key]
  BY DEF Kept
<1>6. ASSUME NEW e \in log[m.key], e.stamp > now + Fast - Window[m.key] PROVE e \in kept
  <2>1. e.stamp \in Int
    BY <1>1, <1>2
  <2>2. QED  BY <1>1, <1>6, <2>1, Constants DEF Kept
<1> HIDE DEF kept, new
<1>7. log' = [log EXCEPT ![m.key] = kept \cup new]
  BY DEF Run, kept, new
<1>8. expires' = IF Full(m.key, m.stamp) THEN expires
                 ELSE [expires EXCEPT ![m.key] = now + Window[m.key]]
  BY DEF Run
<1>9. log' \in [Keys -> SUBSET [req : Requests, stamp : Int]]
  BY <1>2, <1>3, <1>7
<1>10. expires' \in [Keys -> Int]
  BY <1>1, <1>2, <1>8, Constants
<1>11. ASSUME NEW k \in Keys
       PROVE  /\ IsFiniteSet(log'[k])
              /\ \A e \in log'[k] :
                   e \in log[k] \/ (k = m.key /\ e.req = m.req /\ e.stamp = m.stamp)
              /\ \A e \in log[k] : e.stamp > now + Fast - Window[k] => e \in log'[k]
  <2>1. CASE k = m.key
    <3>1. log'[k] = kept \cup new
      BY <1>2, <1>7, <2>1
    <3>2. QED  BY <1>3, <1>4, <1>5, <1>6, <2>1, <3>1
  <2>2. CASE k # m.key
    BY <1>2, <1>7, <2>2
  <2>3. QED  BY <2>1, <2>2
<1>12. ASSUME NEW k \in Keys PROVE expires[k] <= expires'[k] /\ expires'[k] <= now + Window[k]
  <2>1. expires[k] \in Int /\ expires[k] <= now + Window[k]
    BY <1>2
  <2>2. CASE expires'[k] = expires[k]
    BY <2>1, <2>2
  <2>3. CASE expires'[k] = now + Window[k]
    BY <1>1, <2>1, <2>3, Constants
  <2>4. QED  BY <1>2, <1>8, <2>2, <2>3
<1>13. QED  BY <1>9, <1>10, <1>11, <1>12

\* Whatever else the step does, what Redis has is still what was asked for, and still
\* has the members of those let through before.
LEMMA KeepsMembers ==
  ASSUME Safe, NEW m \in transit, Run(m), UNCHANGED <<now, skew>>,
         \A r \in Requests : stage[r] # "new" => stage'[r] # "new",
         \A k \in Keys : /\ asked[k] \subseteq asked'[k]
                         /\ IsFiniteSet(asked'[k]) /\ IsFiniteSet(admitted'[k])
  PROVE  /\ Logged'
         /\ \A k \in Keys : \A x \in admitted[k] :
              /\ x.at <= now'
              /\ x.at > now' - Sure[k] => expires'[k] >= x.at + Window[k] /\ Member(k, x)'
<1>1. /\ log' \in [Keys -> SUBSET [req : Requests, stamp : Int]]
      /\ expires' \in [Keys -> Int]
      /\ \A k \in Keys :
              /\ IsFiniteSet(log'[k])
              /\ \A e \in log'[k] :
                   e \in log[k] \/ (k = m.key /\ e.req = m.req /\ e.stamp = m.stamp)
              /\ \A e \in log[k] : e.stamp > now + Fast - Window[k] => e \in log'[k]
              /\ expires[k] <= expires'[k] /\ expires'[k] <= now + Window[k]
  BY Runs
<1>2. m.req \in Requests /\ m.key \in Keys /\ m.stamp \in Int /\ now \in Nat
  BY Stamps
<1>3. stage[m.req] # "new" /\ [req |-> m.req, at |-> m.stamp - skew[m.req]] \in asked[m.key]
  BY DEF Safe, Sent, SentAt
<1>4. ASSUME NEW k \in Keys, NEW e \in log'[k]
      PROVE  /\ stage'[e.req] # "new"
             /\ [req |-> e.req, at |-> e.stamp - skew'[e.req]] \in asked'[k]
  <2>1. e.req \in Requests
    BY <1>1
  <2>2. CASE e \in log[k]
    <3>1. stage[e.req] # "new" /\ [req |-> e.req, at |-> e.stamp - skew[e.req]] \in asked[k]
      BY <2>2 DEF Safe, Logged
    <3>2. QED  BY <2>1, <3>1
  <2>3. CASE k = m.key /\ e.req = m.req /\ e.stamp = m.stamp
    BY <1>2, <1>3, <2>3
  <2>4. QED  BY <1>1, <2>2, <2>3
<1>5. Logged'
  BY <1>1, <1>4 DEF Logged
<1>6. ASSUME NEW k \in Keys, NEW x \in admitted[k]
      PROVE  /\ x.at <= now'
             /\ x.at > now' - Sure[k] => expires'[k] >= x.at + Window[k] /\ Member(k, x)'
  <2>1. x.at \in Nat /\ expires[k] \in Int /\ expires'[k] \in Int
    BY <1>1, <1>6 DEF Safe, TypeOK, Events
  <2>2. x.at <= now'
    BY DEF Safe, Remembered
  <2>3. ASSUME x.at > now' - Sure[k]
        PROVE  expires'[k] >= x.at + Window[k] /\ Member(k, x)'
    <3>1. expires[k] >= x.at + Window[k] /\ Member(k, x)
      BY <2>3 DEF Safe, Remembered
    <3>2. PICK e \in log[k] : e.req = x.req /\ e.stamp >= x.at - Timeout - Slow
      BY <3>1 DEF Member
    <3>3. e.stamp \in Int
      BY DEF Safe, TypeOK
    <3>4. e.stamp > now + Fast - Window[k]
      BY <1>2, <2>1, <2>3, <3>2, <3>3, Constants
    <3>5. e \in log'[k]
      BY <1>1, <3>4
    <3>6. Member(k, x)'
      BY <3>2, <3>5 DEF Member
    <3>7. expires[k] <= expires'[k]
      BY <1>1
    <3>8. expires'[k] >= x.at + Window[k]
      BY <2>1, <3>1, <3>7, Constants
    <3>9. QED  BY <3>6, <3>8
  <2>4. QED  BY <2>2, <2>3
<1>7. QED  BY <1>5, <1>6

\* A step that leaves the clock and the admissions alone keeps the limit.
LEMMA SameAdmissions ==
  ASSUME AtMostLimit, UNCHANGED <<now, admitted>>
  PROVE  AtMostLimit'
BY DEF AtMostLimit

-----------------------------------------------------------------------------
(***************************************************************************)
(* Init and the steps.                                                     *)
(***************************************************************************)
LEMMA InitSafe == Init => Safe
<1> SUFFICES ASSUME Init PROVE Safe
  OBVIOUS
<1> USE DEF Init
<1>1. TypeOK
  BY Constants DEF TypeOK, Stages, Scripts
<1>2. Sent
  BY DEF Sent
<1>3. Logged
  BY Constants, FS_EmptySet DEF Logged
<1>4. Once
  BY DEF Once
<1>5. Remembered
  BY DEF Remembered
<1>6. AtMostLimit
  <2>1. ASSUME NEW k \in Keys
        PROVE  Cardinality({x \in admitted[k] : x.at > now - Sure[k]}) <= Limit[k]
    <3>1. {x \in admitted[k] : x.at > now - Sure[k]} = {}
      OBVIOUS
    <3>2. QED  BY <3>1, Constants, FS_EmptySet
  <2>2. QED  BY <2>1 DEF AtMostLimit
<1>7. QED  BY <1>1, <1>2, <1>3, <1>4, <1>5, <1>6 DEF Safe

LEMMA ArriveSafe ==
  ASSUME Safe, NEW r \in Requests, Arrive(r)
  PROVE  Safe'
<1>1. PICK list \in CheckLists, d \in -Slow..Fast :
        /\ todo' = [todo EXCEPT ![r] = list]
        /\ skew' = [skew EXCEPT ![r] = d]
        /\ transit' = transit \cup {[req |-> r, key |-> Head(list), stamp |-> now + d]}
        /\ Ask(r, Head(list))
  BY DEF Arrive
<1>2. /\ stage[r] = "new" /\ stage' = [stage EXCEPT ![r] = "waiting"]
      /\ UNCHANGED <<now, retryAfter, log, expires, admitted>>
  BY DEF Arrive
<1> DEFINE n == [req |-> r, key |-> Head(list), stamp |-> now + d]
<1>3. TypeOK
  BY DEF Safe
<1>4. /\ list \in Seq(Keys) /\ list # <<>> /\ Head(list) \in Keys /\ list[1] = Head(list)
      /\ \A i, j \in 1..Len(list) : list[i] = list[j] => i = j
      /\ d \in Int /\ now \in Nat
  <2>1. list \in Seq(Keys) /\ list # <<>>
    BY LimiterConstants
  <2>2. Head(list) \in Keys /\ list[1] = Head(list)
    BY <2>1
  <2>3. DOMAIN list = 1..Len(list)
    BY <2>1
  <2>4. \A i, j \in DOMAIN list : list[i] = list[j] => i = j
    BY LimiterConstants
  <2>5. d \in Int /\ now \in Nat
    BY <1>3, Constants DEF TypeOK
  <2>6. QED  BY <2>1, <2>2, <2>3, <2>4, <2>5
<1>5. asked' = [asked EXCEPT ![Head(list)] = @ \cup {[req |-> r, at |-> now]}]
  BY <1>1 DEF Ask
<1>6. TypeOK'
  <2>1. n \in Scripts
    BY <1>4 DEF Scripts
  <2>2. asked' \in [Keys -> SUBSET Events]
    BY <1>3, <1>4, <1>5 DEF TypeOK, Events
  <2>3. QED  BY <1>1, <1>2, <1>3, <1>4, <2>1, <2>2 DEF TypeOK, Stages
<1>7. \A k \in Keys : asked[k] \subseteq asked'[k]
  BY <1>3, <1>5 DEF TypeOK
<1>8. Sent'
  <2>1. \A q \in Requests : stage'[q] = "waiting" => todo'[q] # <<>>
    BY <1>1, <1>2, <1>3, <1>4 DEF Safe, Sent, TypeOK
  <2>2. \A q \in Requests : \A i, j \in 1..Len(todo'[q]) : todo'[q][i] = todo'[q][j] => i = j
    BY <1>1, <1>3, <1>4 DEF Safe, Sent, TypeOK
  <2>3. ASSUME NEW m \in transit'
        PROVE  /\ stage'[m.req] # "new"
               /\ SentAt(m)' <= now'
               /\ Awaits(m)' => now' <= SentAt(m)' + Timeout
               /\ [req |-> m.req, at |-> SentAt(m)'] \in asked'[m.key]
               /\ \A i \in 2..Len(todo'[m.req]) : todo'[m.req][i] # m.key
    <3>1. CASE m = n
      <4>1. m.req = r /\ m.key = Head(list) /\ SentAt(m)' = now
        BY <1>1, <1>3, <1>4, <3>1 DEF SentAt, TypeOK
      <4>2. stage'[r] = "waiting" /\ todo'[r] = list
        BY <1>1, <1>2, <1>3 DEF TypeOK
      <4>3. [req |-> r, at |-> now] \in asked'[Head(list)]
        BY <1>3, <1>4, <1>5 DEF TypeOK
      <4>4. \A i \in 2..Len(list) : list[i] # Head(list)
        BY <1>4
      <4>5. now <= now + Timeout
        BY <1>4, Constants
      <4>6. QED  BY <1>2, <1>4, <4>1, <4>2, <4>3, <4>4, <4>5
    <3>2. CASE m \in transit
      <4>1. stage[m.req] # "new" /\ m.req \in Requests /\ m.key \in Keys
        BY <3>2, Stamps DEF Safe, Sent
      <4>2. m.req # r
        BY <1>2, <4>1
      <4>3. stage'[m.req] = stage[m.req] /\ todo'[m.req] = todo[m.req] /\ skew'[m.req] = skew[m.req]
        BY <1>1, <1>2, <1>3, <4>1, <4>2 DEF TypeOK
      <4>4. SentAt(m)' = SentAt(m) /\ Awaits(m)' = Awaits(m)
        BY <4>3 DEF SentAt, Awaits
      <4>5. QED  BY <1>2, <1>7, <3>2, <4>1, <4>3, <4>4 DEF Safe, Sent
    <3>3. QED  BY <1>1, <3>1, <3>2
  <2>4. QED  BY <2>1, <2>2, <2>3 DEF Sent
<1>9. Logged'
  <2>1. ASSUME NEW k \in Keys
        PROVE  /\ IsFiniteSet(asked'[k])
               /\ \A e \in log'[k] :
                    /\ stage'[e.req] # "new"
                    /\ [req |-> e.req, at |-> e.stamp - skew'[e.req]] \in asked'[k]
    <3>1. IsFiniteSet(asked'[k])
      <4>1. IsFiniteSet(asked[k]) /\ IsFiniteSet(asked[k] \cup {[req |-> r, at |-> now]})
        BY FS_AddElement DEF Safe, Logged
      <4>2. QED  BY <1>3, <1>5, <4>1 DEF TypeOK
    <3>2. ASSUME NEW e \in log[k]
          PROVE  /\ stage'[e.req] # "new"
                 /\ [req |-> e.req, at |-> e.stamp - skew'[e.req]] \in asked'[k]
      <4>1. /\ e.req \in Requests /\ stage[e.req] # "new"
            /\ [req |-> e.req, at |-> e.stamp - skew[e.req]] \in asked[k]
        BY <1>3 DEF Safe, Logged, TypeOK
      <4>2. skew'[e.req] = skew[e.req] /\ stage'[e.req] = stage[e.req]
        BY <1>1, <1>2, <1>3, <4>1 DEF TypeOK
      <4>3. QED  BY <1>7, <4>1, <4>2
    <3>3. QED  BY <1>2, <3>1, <3>2
  <2>2. QED  BY <1>2, <2>1 DEF Safe, Logged
<1>10. Once'
  <2>1. ASSUME NEW k \in Keys, NEW x \in admitted[k]
        PROVE  stage'[x.req] = stage[x.req] /\ todo'[x.req] = todo[x.req]
    <3>1. x.req \in Requests /\ stage[x.req] # "new"
      BY <1>3, <2>1 DEF Safe, Once, TypeOK, Events
    <3>2. QED  BY <1>1, <1>2, <1>3, <3>1 DEF TypeOK
  <2>2. QED  BY <1>2, <2>1 DEF Safe, Once
<1>11. Remembered' /\ AtMostLimit'
  <2>1. Remembered'
    BY <1>2 DEF Safe, Remembered, Member
  <2>2. QED  BY <1>2, <2>1, SameAdmissions DEF Safe
<1>12. QED  BY <1>6, <1>8, <1>9, <1>10, <1>11 DEF Safe


LEMMA UnheardSafe ==
  ASSUME Safe, NEW m \in transit, Unheard(m)
  PROVE  Safe'
<1>1. Run(m) /\ UNCHANGED <<now, stage, todo, skew, retryAfter, transit, asked, admitted>>
  BY DEF Unheard
<1>2. \A k \in Keys : IsFiniteSet(asked[k]) /\ IsFiniteSet(admitted[k])
  BY DEF Safe, Logged
<1>3. /\ Logged'
      /\ \A k \in Keys : \A x \in admitted[k] :
           /\ x.at <= now'
           /\ x.at > now' - Sure[k] => expires'[k] >= x.at + Window[k] /\ Member(k, x)'
  BY <1>1, <1>2, KeepsMembers
<1>4. TypeOK'
  BY <1>1, Runs DEF Safe, TypeOK
<1>5. Sent' /\ Once'
  BY <1>1 DEF Safe, Sent, Once, Awaits, SentAt
<1>6. Remembered'
  BY <1>1, <1>3 DEF Remembered
<1>7. QED  BY <1>1, <1>3, <1>4, <1>5, <1>6, SameAdmissions DEF Safe

LEMMA RefuseSafe ==
  ASSUME Safe, NEW m \in transit, Refuse(m)
  PROVE  Safe'
<1>1. /\ Run(m) /\ Awaits(m) /\ Full(m.key, m.stamp)
      /\ transit' = transit \ {m}
      /\ stage' = [stage EXCEPT ![m.req] = "refused"]
      /\ retryAfter' = [retryAfter EXCEPT ![m.req] = Retry(m.req, ResetAt(m.key, m.stamp))]
      /\ UNCHANGED <<now, todo, skew, asked, admitted>>
  BY DEF Refuse
<1>2. TypeOK /\ m.req \in Requests /\ m.key \in Keys /\ m.stamp \in Int
  BY Stamps DEF Safe
<1>3. \A q \in Requests : stage[q] # "new" => stage'[q] # "new"
  BY <1>1, <1>2 DEF TypeOK
<1>4. \A k \in Keys : IsFiniteSet(asked[k]) /\ IsFiniteSet(admitted[k])
  BY DEF Safe, Logged
<1>5. /\ Logged'
      /\ \A k \in Keys : \A x \in admitted[k] :
           /\ x.at <= now'
           /\ x.at > now' - Sure[k] => expires'[k] >= x.at + Window[k] /\ Member(k, x)'
  BY <1>1, <1>3, <1>4, KeepsMembers
<1>6. TypeOK'
  <2>1. ResetAt(m.key, m.stamp) \in Int /\ Clock(m.req) \in Int
    BY <1>1, <1>2, ResetAtType, Constants DEF Clock, TypeOK
  <2>2. Retry(m.req, ResetAt(m.key, m.stamp)) \in Nat
    <3> DEFINE up == (ResetAt(m.key, m.stamp) - Clock(m.req) + Second - 1) \div Second
    <3>1. up \in Int
      BY <2>1, Constants
    <3> HIDE DEF up
    <3>2. (IF up > 1 THEN up ELSE 1) \in Nat
      BY <3>1
    <3>3. QED  BY <3>2 DEF Retry, up
  <2>3. QED  BY <1>1, <1>2, <2>2, Runs DEF TypeOK, Stages
<1>7. Sent'
  <2>1. \A q \in Requests : stage'[q] = "waiting" => stage[q] = "waiting"
    BY <1>1, <1>2 DEF TypeOK
  <2>2. ASSUME NEW n \in transit PROVE Awaits(n)' => Awaits(n)
    <3>1. n.req \in Requests
      BY Stamps
    <3>2. QED  BY <1>1, <2>1, <3>1 DEF Awaits
  <2>3. \A n \in transit : SentAt(n)' = SentAt(n) /\ n.req \in Requests
    BY <1>1, Stamps DEF SentAt
  <2>4. ASSUME NEW n \in transit'
        PROVE  /\ stage'[n.req] # "new"
               /\ SentAt(n)' <= now'
               /\ Awaits(n)' => now' <= SentAt(n)' + Timeout
               /\ [req |-> n.req, at |-> SentAt(n)'] \in asked'[n.key]
               /\ \A i \in 2..Len(todo'[n.req]) : todo'[n.req][i] # n.key
    <3>1. n \in transit
      BY <1>1
    <3>2. QED  BY <1>1, <1>3, <2>2, <2>3, <3>1 DEF Safe, Sent
  <2>5. QED  BY <1>1, <2>1, <2>4 DEF Safe, Sent
<1>8. Once'
  <2>1. \A q \in Requests : /\ stage'[q] = "waiting" => stage[q] = "waiting"
                            /\ stage[q] # "new" => stage'[q] # "new"
    BY <1>1, <1>2 DEF TypeOK
  <2>2. \A k \in Keys : \A x \in admitted[k] : x.req \in Requests
    BY <1>2 DEF TypeOK, Events
  <2>3. QED  BY <1>1, <2>1, <2>2 DEF Safe, Once
<1>9. Remembered'
  BY <1>1, <1>5 DEF Remembered
<1>10. QED  BY <1>1, <1>5, <1>6, <1>7, <1>8, <1>9, SameAdmissions DEF Safe

LEMMA FailOpenSafe ==
  ASSUME Safe, NEW r \in Requests, FailOpen(r)
  PROVE  Safe'
<1>1. /\ stage[r] = "waiting" /\ stage' = [stage EXCEPT ![r] = "allowed"]
      /\ UNCHANGED <<now, todo, skew, retryAfter, transit, log, expires, asked, admitted>>
  BY DEF FailOpen
<1>2. TypeOK
  BY DEF Safe
<1>3. \A q \in Requests : /\ stage'[q] = "waiting" => stage[q] = "waiting"
                          /\ stage[q] # "new" => stage'[q] # "new"
  BY <1>1, <1>2 DEF TypeOK
<1>4. TypeOK'
  BY <1>1, <1>2 DEF TypeOK, Stages
<1>5. \A m \in transit : m.req \in Requests
  BY Stamps
<1>6. Sent'
  BY <1>1, <1>3, <1>5 DEF Safe, Sent, Awaits, SentAt
<1>7. \A k \in Keys : \A e \in log[k] : e.req \in Requests
  BY <1>2 DEF TypeOK
<1>8. Logged'
  BY <1>1, <1>3, <1>7 DEF Safe, Logged
<1>9. \A k \in Keys : \A x \in admitted[k] : x.req \in Requests
  BY <1>2 DEF TypeOK, Events
<1>10. Once'
  BY <1>1, <1>3, <1>9 DEF Safe, Once
<1>11. Remembered'
  BY <1>1 DEF Safe, Remembered, Member
<1>12. QED  BY <1>1, <1>4, <1>6, <1>8, <1>10, <1>11, SameAdmissions DEF Safe

LEMMA TickSafe ==
  ASSUME Safe, Tick
  PROVE  Safe'
<1>1. /\ \A m \in transit : Awaits(m) => now < SentAt(m) + Timeout
      /\ now' = now + 1
      /\ log' = [k \in Keys |-> IF expires[k] <= now' THEN {} ELSE log[k]]
      /\ UNCHANGED <<stage, todo, skew, retryAfter, transit, expires, asked, admitted>>
  BY DEF Tick
<1>2. TypeOK /\ now \in Nat
  BY DEF Safe, TypeOK
<1>3. \A k \in Keys : log'[k] \in SUBSET log[k]
  BY <1>1
<1>4. TypeOK'
  <2>1. log' \in [Keys -> SUBSET [req : Requests, stamp : Int]]
    BY <1>1, <1>2 DEF TypeOK
  <2>2. QED  BY <1>1, <1>2, <2>1 DEF TypeOK
<1>5. Sent'
  <2>1. ASSUME NEW m \in transit
        PROVE  /\ SentAt(m)' <= now' /\ (Awaits(m)' => now' <= SentAt(m)' + Timeout)
               /\ SentAt(m)' = SentAt(m)
    <3>1. SentAt(m)' = SentAt(m) /\ Awaits(m)' = Awaits(m)
      BY <1>1 DEF SentAt, Awaits
    <3>2. SentAt(m) \in Int /\ SentAt(m) <= now
      BY Stamps DEF Safe, Sent
    <3>3. QED  BY <1>1, <1>2, <3>1, <3>2, Constants
  <2>2. QED  BY <1>1, <2>1 DEF Safe, Sent
<1>6. Logged'
  <2>1. ASSUME NEW k \in Keys
        PROVE  IsFiniteSet(log'[k]) /\ expires'[k] <= now' + Window[k]
    <3>1. IsFiniteSet(log'[k])
      <4>1. IsFiniteSet(log[k])
        BY DEF Safe, Logged
      <4>2. QED  BY <1>3, <4>1, FS_Subset
    <3>2. expires[k] \in Int /\ expires[k] <= now + Window[k]
      BY DEF Safe, TypeOK, Logged
    <3>3. QED  BY <1>1, <1>2, <3>1, <3>2, Constants
  <2>2. QED  BY <1>1, <1>3, <2>1 DEF Safe, Logged
<1>7. Once'
  BY <1>1 DEF Safe, Once
<1>8. Remembered'
  <2>1. ASSUME NEW k \in Keys, NEW x \in admitted[k]
        PROVE  /\ x.at <= now'
               /\ x.at > now' - Sure[k] => expires'[k] >= x.at + Window[k] /\ Member(k, x)'
    <3>1. x.at \in Nat /\ expires[k] \in Int
      BY <1>2 DEF TypeOK, Events
    <3>2. x.at <= now
      BY DEF Safe, Remembered
    <3>3. ASSUME x.at > now' - Sure[k]
          PROVE  expires'[k] >= x.at + Window[k] /\ Member(k, x)'
      <4>1. x.at > now - Sure[k]
        BY <1>1, <1>2, <3>1, <3>3, Constants
      <4>2. expires[k] >= x.at + Window[k] /\ Member(k, x)
        BY <4>1 DEF Safe, Remembered
      <4>3. expires[k] > now'
        BY <1>1, <1>2, <3>1, <3>3, <4>2, Constants
      <4>4. ~(expires[k] <= now')
        BY <1>1, <1>2, <3>1, <4>3
      <4>5. log'[k] = log[k]
        BY <1>1, <4>4
      <4>6. QED  BY <1>1, <4>2, <4>5 DEF Member
    <3>4. QED  BY <1>1, <1>2, <3>1, <3>2, <3>3
  <2>2. QED  BY <1>1, <2>1 DEF Remembered
<1>9. AtMostLimit'
  <2>1. ASSUME NEW k \in Keys
        PROVE  Cardinality({x \in admitted[k] : x.at > now' - Sure[k]}) <= Limit[k]
    <3> DEFINE old == {x \in admitted[k] : x.at > now - Sure[k]}
               new == {x \in admitted[k] : x.at > now' - Sure[k]}
    <3>1. admitted[k] \subseteq Events /\ IsFiniteSet(admitted[k])
      BY <1>2 DEF TypeOK, Safe, Logged
    <3>2. ASSUME NEW x \in new PROVE x \in old
      <4>1. x.at \in Nat
        BY <3>1 DEF Events
      <4>2. QED  BY <1>1, <1>2, <4>1, Constants
    <3>3. old \in SUBSET admitted[k] /\ new \in SUBSET old
      BY <3>2
    <3>4. Cardinality(old) <= Limit[k]
      BY DEF Safe, AtMostLimit
    <3> HIDE DEF old, new
    <3>5. /\ Cardinality(new) <= Cardinality(old)
          /\ Cardinality(new) \in Nat /\ Cardinality(old) \in Nat
      BY <3>1, <3>3, FS_Subset, FS_CardinalityType
    <3>6. Cardinality(new) <= Limit[k]
      BY <3>4, <3>5, Constants
    <3>7. QED  BY <3>6 DEF new
  <2>2. QED  BY <1>1, <2>1 DEF AtMostLimit
<1>10. QED  BY <1>4, <1>5, <1>6, <1>7, <1>8, <1>9 DEF Safe


\* What is left of the checks of a request that passes the one it waits for.
LEMMA ChecksLeft ==
  ASSUME Safe, NEW m \in transit, Awaits(m)
  PROVE  LET left == Tail(todo[m.req]) IN
         /\ m.req \in Requests /\ m.key \in Keys /\ stage[m.req] = "waiting"
         /\ left \in Seq(Keys)
         /\ \A i \in 1..Len(left) : left[i] # m.key
         /\ \A i, j \in 1..Len(left) : left[i] = left[j] => i = j
         /\ \A i \in 1..Len(left) : i + 1 \in 2..Len(todo[m.req]) /\ left[i] = todo[m.req][i + 1]
         /\ left # <<>> => Head(left) \in Keys /\ Head(left) = left[1] /\ 1 \in 1..Len(left)
<1> DEFINE list == todo[m.req]
           left == Tail(list)
<1>1. m.req \in Requests /\ m.key \in Keys /\ stage[m.req] = "waiting" /\ Head(list) = m.key
  BY Stamps DEF Awaits
<1>2. list \in Seq(Keys) /\ list # <<>>
  BY <1>1 DEF Safe, TypeOK, Sent
<1>3. \A i, j \in 1..Len(list) : list[i] = list[j] => i = j
  BY <1>1 DEF Safe, Sent
<1> HIDE DEF list
<1>4. /\ left \in Seq(Keys) /\ Len(left) = Len(list) - 1 /\ list[1] = m.key
      /\ Len(list) \in Nat /\ Len(list) >= 1
      /\ \A i \in 1..Len(left) : left[i] = list[i + 1]
  BY <1>1, <1>2
<1>5. \A i \in 1..Len(left) : i + 1 \in 2..Len(list) /\ i + 1 \in 1..Len(list)
  BY <1>4
<1>6. 1 \in 1..Len(list)
  BY <1>4
<1>7. \A i \in 1..Len(left) : left[i] # m.key
  <2>1. ASSUME NEW i \in 1..Len(left), left[i] = m.key PROVE FALSE
    <3>1. list[i + 1] = list[1]
      BY <1>4, <2>1
    <3>2. i + 1 = 1
      BY <1>3, <1>5, <1>6, <3>1
    <3>3. QED  BY <3>2, <1>4
  <2>2. QED  BY <2>1
<1>8. ASSUME NEW i \in 1..Len(left), NEW j \in 1..Len(left), left[i] = left[j] PROVE i = j
  <2>1. i + 1 = j + 1
    BY <1>3, <1>4, <1>5, <1>8
  <2>2. QED  BY <2>1, <1>4
<1>9. left # <<>> => Head(left) \in Keys /\ Head(left) = left[1] /\ 1 \in 1..Len(left)
  BY <1>4
<1>10. QED  BY <1>1, <1>4, <1>5, <1>7, <1>8, <1>9 DEF list

LEMMA PassSafe ==
  ASSUME Safe, NEW m \in transit, Pass(m)
  PROVE  Safe'
<1> DEFINE left == Tail(todo[m.req])
           n == Script(m.req, Head(left))
           x0 == [req |-> m.req, at |-> now]
<1>1. /\ Awaits(m) /\ ~Full(m.key, m.stamp) /\ Run(m)
      /\ admitted' = [admitted EXCEPT ![m.key] = @ \cup {x0}]
      /\ todo' = [todo EXCEPT ![m.req] = left]
      /\ \/ /\ left = <<>>
            /\ stage' = [stage EXCEPT ![m.req] = "allowed"]
            /\ transit' = transit \ {m}
            /\ UNCHANGED asked
         \/ /\ left # <<>>
            /\ transit' = (transit \ {m}) \cup {n}
            /\ Ask(m.req, Head(left))
            /\ UNCHANGED stage
      /\ UNCHANGED <<now, skew, retryAfter>>
  BY DEF Pass
<1>2. /\ m.req \in Requests /\ m.key \in Keys /\ stage[m.req] = "waiting"
      /\ left \in Seq(Keys)
      /\ \A i \in 1..Len(left) : left[i] # m.key
      /\ \A i, j \in 1..Len(left) : left[i] = left[j] => i = j
      /\ \A i \in 1..Len(left) : i + 1 \in 2..Len(todo[m.req]) /\ left[i] = todo[m.req][i + 1]
      /\ left # <<>> => Head(left) \in Keys /\ Head(left) = left[1] /\ 1 \in 1..Len(left)
  BY <1>1, ChecksLeft
<1>3. TypeOK /\ now \in Nat /\ skew[m.req] \in Int
  <2>1. TypeOK /\ now \in Nat /\ skew[m.req] \in -Slow..Fast
    BY Stamps DEF Safe
  <2>2. QED  BY <2>1, Constants
<1> HIDE DEF left, n, x0
<1>4. /\ \A q \in Requests : stage'[q] = "waiting" => stage[q] = "waiting"
      /\ \A q \in Requests : stage[q] # "new" => stage'[q] # "new"
      /\ \A q \in Requests \ {m.req} : todo'[q] = todo[q] /\ stage'[q] = stage[q]
      /\ todo'[m.req] = left
      /\ stage'[m.req] = "waiting" => left # <<>>
      /\ stage' \in [Requests -> Stages] /\ todo' \in [Requests -> Seq(Keys)]
  BY <1>1, <1>2, <1>3 DEF TypeOK, Stages
<1>5. ASSUME NEW l, l = n PROVE l.req = m.req /\ l.key = Head(left) /\ SentAt(l)' = now
  <2>1. l.req = m.req /\ l.key = Head(left) /\ l.stamp = now + skew[m.req]
    BY <1>5 DEF Script, n, Clock
  <2>2. skew' = skew
    BY <1>1
  <2>3. QED  BY <1>3, <2>1, <2>2 DEF SentAt
<1>6. left # <<>> => n \in Scripts
  BY <1>2, <1>3 DEF Scripts, Script, n, Clock
<1>7. /\ asked' \in [Keys -> SUBSET Events]
      /\ \A k \in Keys : asked[k] \subseteq asked'[k] /\ IsFiniteSet(asked'[k])
      /\ left # <<>> => x0 \in asked'[Head(left)]
  <2>1. \A k \in Keys : IsFiniteSet(asked[k]) /\ IsFiniteSet(asked[k] \cup {x0})
    BY FS_AddElement DEF Safe, Logged
  <2>2. x0 \in Events
    BY <1>2, <1>3 DEF Events, x0
  <2>3. CASE left = <<>>
    BY <1>1, <1>3, <2>1, <2>3 DEF TypeOK
  <2>4. CASE left # <<>>
    <3>1. asked' = [asked EXCEPT ![Head(left)] = @ \cup {x0}]
      BY <1>1, <2>4 DEF Ask, x0
    <3>2. QED  BY <1>2, <1>3, <2>1, <2>2, <2>4, <3>1 DEF TypeOK
  <2>5. QED  BY <2>3, <2>4
<1>8. /\ admitted' \in [Keys -> SUBSET Events]
      /\ \A k \in Keys : IsFiniteSet(admitted'[k])
      /\ \A k \in Keys : \A x \in admitted'[k] :
           x \in admitted[k] \/ (k = m.key /\ x = x0)
      /\ admitted'[m.key] = admitted[m.key] \cup {x0}
      /\ \A k \in Keys \ {m.key} : admitted'[k] = admitted[k]
  <2>1. \A k \in Keys : IsFiniteSet(admitted[k]) /\ IsFiniteSet(admitted[k] \cup {x0})
    BY FS_AddElement DEF Safe, Logged
  <2>2. x0 \in Events
    BY <1>2, <1>3 DEF Events, x0
  <2>3. QED  BY <1>1, <1>2, <1>3, <2>1, <2>2 DEF TypeOK
<1>9. /\ Logged'
      /\ \A k \in Keys : \A x \in admitted[k] :
           /\ x.at <= now'
           /\ x.at > now' - Sure[k] => expires'[k] >= x.at + Window[k] /\ Member(k, x)'
  BY <1>1, <1>4, <1>7, <1>8, KeepsMembers
<1>10. TypeOK'
  <2>1. transit' \in SUBSET Scripts
    BY <1>1, <1>3, <1>6 DEF TypeOK
  <2>2. log' \in [Keys -> SUBSET [req : Requests, stamp : Int]] /\ expires' \in [Keys -> Int]
    BY <1>1, Runs
  <2>3. QED  BY <1>1, <1>3, <1>4, <1>7, <1>8, <2>1, <2>2 DEF TypeOK
<1>11. Sent'
  <2>1. \A q \in Requests : stage'[q] = "waiting" => todo'[q] # <<>>
    BY <1>4 DEF Safe, Sent
  <2>2. \A q \in Requests : \A i, j \in 1..Len(todo'[q]) : todo'[q][i] = todo'[q][j] => i = j
    BY <1>2, <1>4 DEF Safe, Sent
  <2>3. ASSUME NEW l \in transit'
        PROVE  /\ stage'[l.req] # "new"
               /\ SentAt(l)' <= now'
               /\ Awaits(l)' => now' <= SentAt(l)' + Timeout
               /\ [req |-> l.req, at |-> SentAt(l)'] \in asked'[l.key]
               /\ \A i \in 2..Len(todo'[l.req]) : todo'[l.req][i] # l.key
    <3>1. CASE left # <<>> /\ l = n
      <4>1. l.req = m.req /\ l.key = Head(left) /\ SentAt(l)' = now
        BY <1>5, <3>1
      <4>2. \A i \in 2..Len(left) : left[i] # left[1]
        BY <1>2, <3>1
      <4>3. [req |-> l.req, at |-> SentAt(l)'] = x0
        BY <4>1 DEF x0
      <4>4. now <= now + Timeout /\ now <= now
        BY <1>3, Constants
      <4>5. stage'[m.req] # "new"
        BY <1>2, <1>4
      <4>6. QED  BY <1>1, <1>2, <1>4, <1>7, <3>1, <4>1, <4>2, <4>3, <4>4, <4>5
    <3>2. CASE l \in transit
      <4>1. /\ stage[l.req] # "new" /\ SentAt(l) <= now
            /\ Awaits(l) => now <= SentAt(l) + Timeout
            /\ [req |-> l.req, at |-> SentAt(l)] \in asked[l.key]
            /\ \A i \in 2..Len(todo[l.req]) : todo[l.req][i] # l.key
            /\ l.req \in Requests /\ l.key \in Keys
        BY <3>2, Stamps DEF Safe, Sent
      <4>2. SentAt(l)' = SentAt(l)
        BY <1>1 DEF SentAt
      <4>3. /\ stage'[l.req] # "new" /\ SentAt(l)' <= now'
            /\ [req |-> l.req, at |-> SentAt(l)'] \in asked'[l.key]
        BY <1>1, <1>4, <1>7, <4>1, <4>2
      <4>4. CASE l.req # m.req
        <5>1. todo'[l.req] = todo[l.req] /\ (Awaits(l)' => Awaits(l))
          BY <1>4, <4>1, <4>4 DEF Awaits
        <5>2. QED  BY <1>1, <4>1, <4>2, <4>3, <5>1
      <4>5. CASE l.req = m.req
        <5>1. \A i \in 1..Len(left) : left[i] # l.key
          BY <1>2, <4>1, <4>5
        <5>2. ~Awaits(l)'
          BY <1>2, <1>4, <4>5, <5>1 DEF Awaits
        <5>3. \A i \in 2..Len(left) : left[i] # l.key
          BY <1>2, <5>1
        <5>4. QED  BY <1>4, <4>3, <4>5, <5>2, <5>3
      <4>6. QED  BY <4>4, <4>5
    <3>3. QED  BY <1>1, <3>1, <3>2
  <2>4. QED  BY <2>1, <2>2, <2>3 DEF Sent
<1>12. \A x \in admitted[m.key] : x.req # m.req
  <2>1. 1 \in 1..Len(todo[m.req]) /\ todo[m.req][1] = m.key
    <3>1. todo[m.req] \in Seq(Keys) /\ todo[m.req] # <<>> /\ Head(todo[m.req]) = m.key
      BY <1>1, <1>2, <1>3 DEF Safe, Sent, TypeOK, Awaits
    <3>2. QED  BY <3>1
  <2>2. QED  BY <1>2, <2>1 DEF Safe, Once
<1>13. Once'
  <2>1. ASSUME NEW k \in Keys, NEW x \in admitted'[k]
        PROVE  /\ stage'[x.req] # "new"
               /\ stage'[x.req] = "waiting" => \A i \in 1..Len(todo'[x.req]) : todo'[x.req][i] # k
               /\ \A y \in admitted'[k] : y.req = x.req => y = x
    <3>1. CASE k = m.key /\ x = x0
      <4>1. x.req = m.req
        BY <3>1 DEF x0
      <4>2. QED  BY <1>2, <1>4, <1>8, <1>12, <3>1, <4>1
    <3>2. CASE x \in admitted[k]
      <4>1. /\ stage[x.req] # "new" /\ x.req \in Requests
            /\ stage[x.req] = "waiting" => \A i \in 1..Len(todo[x.req]) : todo[x.req][i] # k
            /\ \A y \in admitted[k] : y.req = x.req => y = x
        BY <1>3, <3>2 DEF Safe, Once, TypeOK, Events
      <4>2. \A y \in admitted'[k] : y.req = x.req => y = x
        <5>1. k = m.key => x.req # x0.req
          BY <1>12, <3>2 DEF x0
        <5>2. QED  BY <1>8, <4>1, <5>1
      <4>3. CASE x.req # m.req
        BY <1>4, <4>1, <4>2, <4>3
      <4>4. CASE x.req = m.req
        <5>1. \A i \in 2..Len(todo[m.req]) : todo[m.req][i] # k
          <6>1. \A i \in 2..Len(todo[m.req]) : i \in 1..Len(todo[m.req])
            BY <1>2, <1>3 DEF TypeOK
          <6>2. QED  BY <1>2, <4>1, <4>4, <6>1
        <5>2. \A i \in 1..Len(left) : left[i] # k
          BY <1>2, <5>1
        <5>3. QED  BY <1>4, <4>1, <4>2, <4>4, <5>2
      <4>5. QED  BY <4>3, <4>4
    <3>3. QED  BY <1>8, <3>1, <3>2
  <2>2. QED  BY <2>1 DEF Once
<1>14. Remembered'
  <2>1. ASSUME NEW x, x = x0
        PROVE  x.at <= now' /\ expires'[m.key] >= x.at + Window[m.key] /\ Member(m.key, x)'
    <3>1. x.at = now /\ x.req = m.req
      BY <2>1 DEF x0
    <3>2. expires' = [expires EXCEPT ![m.key] = now + Window[m.key]]
      BY <1>1 DEF Run
    <3>3. expires'[m.key] = now + Window[m.key]
      BY <1>2, <1>3, <3>2 DEF TypeOK
    <3>4. log' = [log EXCEPT ![m.key] =
                    Kept(m.key, m.stamp) \cup {[req |-> m.req, stamp |-> m.stamp]}]
      BY <1>1 DEF Run
    <3>5. [req |-> m.req, stamp |-> m.stamp] \in log'[m.key]
      BY <1>2, <1>3, <3>4 DEF TypeOK
    <3>6. m.stamp >= now - Timeout - Slow
      BY <1>1, Stamps
    <3>7. Member(m.key, x)'
      <4>1. PICK e \in log'[m.key] : e.req = m.req /\ e.stamp = m.stamp
        BY <3>5
      <4>2. QED  BY <3>1, <3>6, <4>1 DEF Member
    <3>8. now <= now /\ now + Window[m.key] >= now + Window[m.key]
      BY <1>2, <1>3, Constants
    <3>9. QED  BY <1>1, <3>1, <3>3, <3>7, <3>8
  <2>2. QED  BY <1>8, <1>9, <2>1 DEF Remembered
<1>15. AtMostLimit'
  <2>1. ASSUME NEW k \in Keys
        PROVE  Cardinality({x \in admitted'[k] : x.at > now' - Sure[k]}) <= Limit[k]
    <3>1. CASE k # m.key
      <4>1. admitted'[k] = admitted[k]
        BY <1>8, <3>1
      <4>2. QED  BY <1>1, <4>1 DEF Safe, AtMostLimit
    <3>2. CASE k = m.key
      <4> DEFINE R == {x \in admitted[k] : x.at > now - Sure[k]}
                 R1 == {x \in admitted'[k] : x.at > now' - Sure[k]}
      <4>1. IsFiniteSet(R) /\ Cardinality(R) + 1 <= Limit[k]
        BY <1>1, <1>2, <3>2, Stamps, RoomLeft
      <4>2. R1 \subseteq R \cup {x0}
        BY <1>1, <1>8
      <4>3. IsFiniteSet(R \cup {x0}) /\ Cardinality(R \cup {x0}) <= Cardinality(R) + 1
        <5> HIDE DEF R
        <5>1. /\ IsFiniteSet(R \cup {x0})
              /\ Cardinality(R \cup {x0}) = IF x0 \in R THEN Cardinality(R) ELSE Cardinality(R) + 1
          BY <4>1, FS_AddElement
        <5>2. Cardinality(R) \in Nat
          BY <4>1, FS_CardinalityType
        <5>3. QED  BY <5>1, <5>2
      <4>4. /\ Cardinality(R1) <= Cardinality(R \cup {x0})
            /\ Cardinality(R1) \in Nat /\ Cardinality(R \cup {x0}) \in Nat
            /\ Cardinality(R) \in Nat
        <5> HIDE DEF R, R1
        <5>1. R1 \in SUBSET (R \cup {x0})
          BY <4>2
        <5>2. QED  BY <4>1, <4>3, <5>1, FS_Subset, FS_CardinalityType
      <4> HIDE DEF R, R1
      <4>5. Cardinality(R1) <= Limit[k]
        BY <4>1, <4>3, <4>4, Constants
      <4>6. QED  BY <4>5 DEF R1
    <3>3. QED  BY <3>1, <3>2
  <2>2. QED  BY <2>1 DEF AtMostLimit
<1>16. QED  BY <1>9, <1>10, <1>11, <1>13, <1>14, <1>15 DEF Safe

LEMMA NextSafe == Safe /\ [Next]_vars => Safe'
<1> SUFFICES ASSUME Safe, [Next]_vars PROVE Safe'
  OBVIOUS
<1>1. CASE UNCHANGED vars
  <2> USE <1>1 DEF vars
  <2>1. TypeOK' /\ Logged' /\ Once'
    BY DEF Safe, TypeOK, Logged, Once
  <2>2. Sent'
    BY DEF Safe, Sent, Awaits, SentAt
  <2>3. Remembered' /\ AtMostLimit'
    BY DEF Safe, Remembered, Member, AtMostLimit
  <2>4. QED  BY <2>1, <2>2, <2>3 DEF Safe
<1>2. ASSUME NEW r \in Requests, Arrive(r) PROVE Safe'
  BY <1>2, ArriveSafe
<1>3. ASSUME NEW r \in Requests, FailOpen(r) PROVE Safe'
  BY <1>3, FailOpenSafe
<1>4. ASSUME NEW m \in transit, Pass(m) PROVE Safe'
  BY <1>4, PassSafe
<1>5. ASSUME NEW m \in transit, Refuse(m) PROVE Safe'
  BY <1>5, RefuseSafe
<1>6. ASSUME NEW m \in transit, Unheard(m) PROVE Safe'
  BY <1>6, UnheardSafe
<1>7. CASE Tick
  BY <1>7, TickSafe
<1>8. QED  BY <1>1, <1>2, <1>3, <1>4, <1>5, <1>6, <1>7 DEF Next

-----------------------------------------------------------------------------
(***************************************************************************)
(* Retry-After. A refused request finds one member fewer than there are    *)
(* now, the oldest; and there are never more than the limit (Bounded).     *)
(***************************************************************************)
Bounded == \A k \in Keys : Cardinality(log[k]) <= Limit[k]

\* A run adds to a set that has room, or adds nothing.
LEMMA RunBounded ==
  ASSUME Safe, Bounded, NEW m \in transit, Run(m)
  PROVE  Bounded'
<1> DEFINE K == Kept(m.key, m.stamp)
           e == [req |-> m.req, stamp |-> m.stamp]
           full == Full(m.key, m.stamp)
<1>1. m.key \in Keys /\ m.stamp \in Int /\ Limit[m.key] \in Nat \ {0}
  BY Stamps, Constants
<1>2. IsFiniteSet(K) /\ Cardinality(K) \in Nat /\ K \subseteq log[m.key]
  BY <1>1, KeptFinite DEF Kept
<1>3. IsFiniteSet(log[m.key]) /\ Cardinality(K) <= Cardinality(log[m.key])
      /\ Cardinality(log[m.key]) \in Nat
  <2>1. IsFiniteSet(log[m.key])
    BY <1>1 DEF Safe, Logged
  <2> HIDE DEF K
  <2>2. QED  BY <1>2, <2>1, FS_Subset, FS_CardinalityType
<1>4. full <=> Cardinality(K) >= Limit[m.key]
  BY DEF Full
<1>5. log' = [log EXCEPT ![m.key] = K \cup IF full THEN {} ELSE {e}]
  BY DEF Run
<1> HIDE DEF K, e, full
<1>6. \A k \in Keys : log'[k] = IF k = m.key THEN K \cup (IF full THEN {} ELSE {e}) ELSE log[k]
  BY <1>5 DEF Safe, TypeOK
<1>7. Cardinality(log'[m.key]) <= Limit[m.key]
  <2>1. CASE full
    <3>1. log'[m.key] = K
      BY <1>1, <1>6, <2>1
    <3>2. Cardinality(log[m.key]) <= Limit[m.key]
      BY <1>1 DEF Bounded
    <3>3. QED  BY <1>1, <1>2, <1>3, <3>1, <3>2
  <2>2. CASE ~full
    <3>1. log'[m.key] = K \cup {e}
      BY <1>1, <1>6, <2>2
    <3>2. Cardinality(K \cup {e}) = IF e \in K THEN Cardinality(K) ELSE Cardinality(K) + 1
      BY <1>2, FS_AddElement
    <3>3. QED  BY <1>1, <1>2, <1>4, <2>2, <3>1, <3>2
  <2>3. QED  BY <2>1, <2>2
<1>8. QED  BY <1>6, <1>7 DEF Bounded

LEMMA NextBounded == Safe /\ Bounded /\ [Next]_vars => Bounded'
<1> SUFFICES ASSUME Safe, Bounded, [Next]_vars PROVE Bounded'
  OBVIOUS
<1>1. ASSUME UNCHANGED log PROVE Bounded'
  BY <1>1 DEF Bounded
<1>2. CASE UNCHANGED vars
  BY <1>1, <1>2 DEF vars
<1>3. ASSUME NEW r \in Requests, Arrive(r) \/ FailOpen(r) PROVE Bounded'
  BY <1>1, <1>3 DEF Arrive, FailOpen
<1>4. ASSUME NEW m \in transit, Pass(m) \/ Refuse(m) \/ Unheard(m) PROVE Bounded'
  BY <1>4, RunBounded DEF Pass, Refuse, Unheard
<1>5. CASE Tick
  <2>1. ASSUME NEW k \in Keys PROVE Cardinality(log'[k]) <= Limit[k]
    <3>1. log'[k] = {} \/ log'[k] = log[k]
      BY <1>5 DEF Tick
    <3>2. Cardinality({}) = 0 /\ Limit[k] \in Nat
      BY FS_EmptySet, Constants
    <3>3. QED  BY <3>1, <3>2 DEF Bounded
  <2>2. QED  BY <2>1 DEF Bounded
<1>6. QED  BY <1>2, <1>3, <1>4, <1>5 DEF Next

\* Whole seconds, rounded up, reach as far.
LEMMA RoundsUp ==
  ASSUME NEW a \in Int, NEW d \in Nat \ {0}
  PROVE  ((a + d - 1) \div d) * d >= a /\ (a + d - 1) \div d \in Int
<1> DEFINE q == (a + d - 1) \div d
           b == (a + d - 1) % d
<1>1. q \in Int /\ b \in 0..d - 1 /\ a + d - 1 = d * q + b
  OBVIOUS
<1> HIDE DEF q, b
<1>2. d * q \in Int /\ q * d = d * q
  BY <1>1
<1>3. q * d >= a
  BY <1>1, <1>2
<1>4. QED  BY <1>1, <1>3 DEF q

\* When the oldest member will have gone there is room.
LEMMA RoomAfterReset ==
  ASSUME Safe, Bounded, NEW k \in Keys, NEW s \in Int, Full(k, s),
         NEW t \in Int, t >= ResetAt(k, s)
  PROVE  LET K == {x \in Kept(k, s) : x.stamp > t - Window[k]} IN
         IsFiniteSet(K) /\ Cardinality(K) < Limit[k]
<1> DEFINE K == {x \in Kept(k, s) : x.stamp > t - Window[k]}
<1>1. PICK x \in Kept(k, s) : x.stamp \in Int /\ ResetAt(k, s) = x.stamp + Window[k]
  BY OldestKept
<1>2. ~(x.stamp > t - Window[k])
  BY <1>1, Constants
<1>3. K \subseteq log[k] \ {x}
  BY <1>2 DEF Kept
<1>4. x \in log[k] /\ IsFiniteSet(log[k])
  BY DEF Safe, Logged, Kept
<1> HIDE DEF K
<1>5. IsFiniteSet(log[k] \ {x}) /\ Cardinality(log[k] \ {x}) = Cardinality(log[k]) - 1
  BY <1>4, FS_RemoveElement
<1>6. IsFiniteSet(K) /\ Cardinality(K) <= Cardinality(log[k] \ {x})
  BY <1>3, <1>5, FS_Subset
<1>7. Cardinality(K) \in Nat /\ Cardinality(log[k]) \in Nat /\ Cardinality(log[k]) <= Limit[k]
  BY <1>4, <1>6, FS_CardinalityType DEF Bounded
<1>8. QED  BY <1>5, <1>6, <1>7, Constants DEF K

LEMMA RefusedOnce ==
  ASSUME Safe, Bounded, NEW m \in transit, Refuse(m)
  PROVE  ~RefusedAgain(m.req, m.key)'
<1> DEFINE k == m.key
           r == m.req
           reset == ResetAt(k, m.stamp)
           up == (reset - Clock(r) + Second - 1) \div Second
           t == Clock(r) + retryAfter'[r] * Second
<1>1. /\ k \in Keys /\ r \in Requests /\ m.stamp \in Int /\ Clock(r) \in Int
      /\ Second \in Nat \ {0} /\ Window[k] \in Int
  BY Stamps, Constants DEF Clock
<1>2. /\ Full(k, m.stamp) /\ Run(m) /\ now' = now /\ skew' = skew
      /\ retryAfter'[r] = Retry(r, reset)
  BY <1>1 DEF Refuse, Safe, TypeOK
<1>3. reset \in Int
  BY <1>1, <1>2, ResetAtType
<1>4. retryAfter'[r] = IF up > 1 THEN up ELSE 1
  BY <1>2 DEF Retry
<1>5. Clock(r)' = Clock(r)
  BY <1>2 DEF Clock
<1>6. log'[k] = Kept(k, m.stamp)
  BY <1>1, <1>2 DEF Run, Safe, TypeOK
<1> HIDE DEF k, r, reset
<1>7. up \in Int /\ up * Second >= reset - Clock(r)
  <2>1. reset - Clock(r) \in Int
    BY <1>1, <1>3
  <2>2. QED  BY <1>1, <2>1, RoundsUp
<1> HIDE DEF up
<1>8. retryAfter'[r] \in Int /\ retryAfter'[r] * Second >= reset - Clock(r)
  <2>1. CASE up > 1
    BY <1>4, <1>7, <2>1
  <2>2. CASE ~(up > 1)
    <3>1. up * Second <= 1 * Second
      <4>1. 1 - up \in Nat /\ Second \in Nat
        BY <1>1, <1>7, <2>2
      <4>2. (1 - up) * Second >= 0
        BY <4>1
      <4>3. (1 - up) * Second = Second - up * Second
        BY <1>1, <1>7
      <4>4. QED  BY <1>1, <1>7, <4>2, <4>3
    <3>2. QED  BY <1>1, <1>3, <1>4, <1>7, <2>2, <3>1
  <2>3. QED  BY <2>1, <2>2
<1>9. retryAfter'[r] * Second \in Int /\ t \in Int /\ t >= reset
  <2>1. retryAfter'[r] * Second \in Int
    BY <1>1, <1>8
  <2>2. QED  BY <1>1, <1>3, <1>8, <2>1
<1>10. {x \in log'[k] : x.stamp > t - Window[k]} = {x \in Kept(k, m.stamp) : x.stamp > t - Window[k]}
  BY <1>6
<1> HIDE DEF t
<1>11. LET K == {x \in Kept(k, m.stamp) : x.stamp > t - Window[k]} IN
       IsFiniteSet(K) /\ Cardinality(K) < Limit[k]
  BY <1>1, <1>2, <1>9, RoomAfterReset DEF k, reset
<1>12. RefusedAgain(r, k)' <=> Cardinality({x \in log'[k] : x.stamp > t - Window[k]}) >= Limit[k]
  BY <1>5 DEF RefusedAgain, Full, Kept, t
<1>13. Cardinality({x \in Kept(k, m.stamp) : x.stamp > t - Window[k]}) \in Nat /\ Limit[k] \in Nat
  BY <1>1, <1>11, FS_CardinalityType, Constants
<1>14. ~RefusedAgain(r, k)'
  BY <1>10, <1>11, <1>12, <1>13
<1>15. QED  BY <1>14 DEF r, k

-----------------------------------------------------------------------------
(***************************************************************************)
(* The limiter of the tests: a list in which the entries of a sorted set   *)
(* stand in order, and what a filter leaves of it.                         *)
(***************************************************************************)

\* A list that holds the entries of a set has each of them in one place.
LEMMA ListsAreOrders ==
  ASSUME Safe, NEW k \in Keys, NEW stamps \in Lists(k)
  PROVE  \E f \in Bijection(1..Cardinality(log[k]), log[k]) :
           /\ stamps = [i \in 1..Cardinality(log[k]) |-> f[i].stamp]
           /\ \A i, j \in 1..Cardinality(log[k]) : i < j => f[i].stamp <= f[j].stamp
<1> DEFINE S == log[k]
           D == 1..Cardinality(S)
<1>1. IsFiniteSet(S) /\ Cardinality(S) \in Nat
  BY FS_CardinalityType DEF Safe, Logged
<1>2. PICK f \in SetToSeqs(S) :
        /\ \A i, j \in DOMAIN f : i < j => f[i].stamp <= f[j].stamp
        /\ stamps = [i \in DOMAIN f |-> f[i].stamp]
  BY DEF Lists
<1>3. f \in [D -> S] /\ \A i, j \in D : i # j => f[i] # f[j]
  BY <1>2 DEF SetToSeqs
<1>4. f \in Injection(D, S)
  BY <1>3 DEF Injection, IsInjective
<1>5. IsFiniteSet(D) /\ Cardinality(D) = Cardinality(S)
  BY <1>1, FS_Interval
<1>6. f \in Surjection(D, S)
  BY <1>1, <1>4, <1>5, FS_Injection
<1>7. f \in Bijection(D, S)
  BY <1>4, <1>6 DEF Bijection
<1>8. QED  BY <1>2, <1>3, <1>7

LEMMA FilterLength ==
  ASSUME NEW list, NEW P, Cardinality(P) \in Nat
  PROVE  /\ Len(At(list, P)) = Cardinality(P)
         /\ \A s : Len(Append(At(list, P), s)) = Cardinality(P) + 1
<1> DEFINE e(n) == list[CHOOSE i \in P : Cardinality({j \in P : j <= i}) = n]
           R == {e(n) : n \in 1..Cardinality(P)}
<1>1. At(list, P) = [n \in 1..Cardinality(P) |-> e(n)]
  BY DEF At
<1> HIDE DEF e
<1>2. At(list, P) \in [1..Cardinality(P) -> R]
  BY <1>1
<1>3. At(list, P) \in Seq(R) /\ Len(At(list, P)) = Cardinality(P)
  BY <1>2
<1> HIDE DEF R
<1>4. ASSUME NEW s PROVE Len(Append(At(list, P), s)) = Cardinality(P) + 1
  <2>1. At(list, P) \in Seq(R \cup {s}) /\ s \in R \cup {s}
    BY <1>2
  <2>2. QED  BY <1>3, <2>1
<1>5. QED  BY <1>3, <1>4

\* What is left begins with what stood first among it.
LEMMA FilterBegins ==
  ASSUME NEW list, NEW P \in SUBSET Nat, IsFiniteSet(P), P # {}
  PROVE  \E i \in P : At(list, P)[1] = list[i] /\ \A j \in P : i <= j
<1> DEFINE Upto(i) == {j \in P : j <= i}
<1>1. PICK i \in P : \A j \in P : i <= j
  BY LeastNatural
<1>2. Cardinality(Upto(i)) = 1
  <2>1. i <= i /\ \A j \in P : j <= i => j = i
    BY <1>1, P \subseteq Nat
  <2>2. Upto(i) = {i}
    BY <2>1
  <2>3. QED  BY <2>2, FS_Singleton
<1>3. ASSUME NEW l \in P, Cardinality(Upto(l)) = 1 PROVE l = i
  <2>1. Upto(l) \in SUBSET P /\ l \in Upto(l) /\ i \in Upto(l)
    BY <1>1
  <2>2. IsFiniteSet(Upto(l))
    BY <2>1, FS_Subset
  <2>3. PICK x : Upto(l) = {x}
    BY <1>3, <2>2, FS_Singleton
  <2>4. QED  BY <2>1, <2>3
<1> DEFINE first == CHOOSE l \in P : Cardinality(Upto(l)) = 1
<1>4. first = i
  BY <1>2, <1>3
<1>5. Cardinality(P) \in Nat /\ Cardinality(P) # 0
  BY FS_CardinalityType, FS_EmptySet
<1>6. At(list, P)[1] = list[first]
  BY <1>5 DEF At
<1>7. QED  BY <1>1, <1>4, <1>6

\* Decided alike, whatever the list and the clock.
LEMMA ConsumesAlike ==
  ASSUME Safe, NEW k \in Keys, NEW s \in Int, NEW stamps \in Lists(k)
  PROVE  LET d == Consume(stamps, k, s) IN
         /\ d.allowed = ~Full(k, s)
         /\ Full(k, s) => d.resetAt = ResetAt(k, s)
         /\ Len(d.stamps) = Cardinality(Kept(k, s)) + (IF d.allowed THEN 1 ELSE 0)
<1> DEFINE D == 1..Cardinality(log[k])
           P == {i \in DOMAIN stamps : stamps[i] > s - Window[k]}
           d == Consume(stamps, k, s)
<1>1. PICK f \in Bijection(D, log[k]) :
        /\ stamps = [i \in D |-> f[i].stamp]
        /\ \A i, j \in D : i < j => f[i].stamp <= f[j].stamp
  BY ListsAreOrders
<1>2. /\ f \in [D -> log[k]]
      /\ \A i, j \in D : f[i] = f[j] => i = j
      /\ \A x \in log[k] : \E i \in D : f[i] = x
  BY DEF Bijection, Injection, Surjection, IsInjective
<1>3. P = {i \in D : f[i].stamp > s - Window[k]}
  BY <1>1
<1>4. P \in SUBSET D /\ IsFiniteSet(D) /\ D \in SUBSET Nat /\ IsFiniteSet(P)
  <2>1. Cardinality(log[k]) \in Nat
    BY FS_CardinalityType DEF Safe, Logged
  <2>2. IsFiniteSet(D) /\ D \in SUBSET Nat
    BY <2>1, FS_Interval
  <2>3. P \in SUBSET D
    BY <1>3
  <2>4. IsFiniteSet(P)
    BY <2>2, <2>3, FS_Subset
  <2>5. QED  BY <2>2, <2>3, <2>4
<1> DEFINE g == [i \in P |-> f[i]]
<1>5. g \in Bijection(P, Kept(k, s))
  <2>1. \A i \in P : f[i] \in Kept(k, s)
    BY <1>2, <1>3 DEF Kept
  <2>2. \A x \in Kept(k, s) : \E i \in P : f[i] = x
    BY <1>2, <1>3 DEF Kept
  <2>3. g \in Injection(P, Kept(k, s))
    BY <1>2, <1>4, <2>1 DEF Injection, IsInjective
  <2>4. g \in Surjection(P, Kept(k, s))
    BY <2>1, <2>2 DEF Surjection
  <2>5. QED  BY <2>3, <2>4 DEF Bijection
<1>6. Cardinality(P) = Cardinality(Kept(k, s)) /\ Cardinality(P) \in Nat
  <2> HIDE DEF P, g
  <2>1. Cardinality(P) = Cardinality(Kept(k, s))
    BY <1>4, <1>5, FS_Bijection DEF ExistsBijection
  <2>2. Cardinality(P) \in Nat
    BY <1>4, FS_CardinalityType
  <2>3. QED  BY <2>1, <2>2
<1>7. Len(At(stamps, P)) = Cardinality(P)
  BY <1>6, FilterLength
<1> DEFINE full == Len(At(stamps, P)) >= Limit[k]
<1>8. full <=> Full(k, s)
  BY <1>6, <1>7 DEF Full
<1>9. /\ d.allowed = ~full
      /\ full => d.resetAt = At(stamps, P)[1] + Window[k]
      /\ (IF d.allowed THEN 1 ELSE 0) = (IF full THEN 0 ELSE 1)
      /\ d.stamps = IF full THEN At(stamps, P) ELSE Append(At(stamps, P), s)
  BY DEF Consume
<1> HIDE DEF d, P, full, g
<1>10. ASSUME Full(k, s) PROVE d.resetAt = ResetAt(k, s)
  <2>1. PICK oldest \in Kept(k, s) :
          /\ ResetAt(k, s) = oldest.stamp + Window[k] /\ oldest.stamp \in Int
          /\ \A x \in Kept(k, s) : oldest.stamp <= x.stamp
    BY <1>10, OldestKept
  <2>2. PICK l \in P : f[l] = oldest
    BY <1>2, <1>3, <2>1 DEF Kept
  <2>3. PICK i \in P : At(stamps, P)[1] = stamps[i] /\ \A j \in P : i <= j
    BY <1>4, <2>2, FilterBegins
  <2>4. f[i] \in Kept(k, s) /\ stamps[i] = f[i].stamp /\ i \in D /\ l \in D
    BY <1>1, <1>2, <1>3, <1>4 DEF Kept
  <2>5. f[i].stamp \in Int /\ oldest.stamp <= f[i].stamp
    BY <2>1, <2>4, KeptFinite
  <2>6. f[i].stamp <= oldest.stamp
    BY <1>1, <1>4, <2>1, <2>2, <2>3, <2>4
  <2>7. f[i].stamp = oldest.stamp
    BY <2>1, <2>5, <2>6
  <2>8. QED  BY <1>8, <1>9, <1>10, <2>1, <2>3, <2>4, <2>7
<1>11. Len(d.stamps) = Cardinality(Kept(k, s)) + (IF d.allowed THEN 1 ELSE 0)
  <2>1. Len(Append(At(stamps, P), s)) = Cardinality(P) + 1
    BY <1>6, FilterLength
  <2>2. CASE full
    BY <1>6, <1>7, <1>9, <2>2
  <2>3. CASE ~full
    BY <1>6, <1>9, <2>1, <2>3
  <2>4. QED  BY <2>2, <2>3
<1>12. QED  BY <1>8, <1>9, <1>10, <1>11 DEF d

-----------------------------------------------------------------------------
(***************************************************************************)
(* Theorems.                                                               *)
(***************************************************************************)

\* Every variable has its type in every reachable state.
THEOREM LimiterTypeCorrect == Spec => []TypeOK
<1>1. Safe => TypeOK
  BY DEF Safe
<1>2. QED  BY <1>1, InitSafe, NextSafe, PTL DEF Spec

\* For every limit, window and number of processes, however far apart their clocks are
\* and however late or often Redis runs a script: no more requests are let through
\* within the sure part of a window than the limit says.
THEOREM LimitHolds == Spec => []AtMostLimit
<1>1. Safe => AtMostLimit
  BY DEF Safe
<1>2. QED  BY <1>1, InitSafe, NextSafe, PTL DEF Spec

\* A refused request that comes back to its process when Retry-After says, and finds
\* nothing recorded in between, is not refused again: for every limit and window, at
\* every skew, and however the seconds are rounded.
THEOREM RetryAfterSuffices == Spec => RetryIsHonest
<1>1. Init => Bounded
  <2>1. SUFFICES ASSUME Init, NEW k \in Keys PROVE Cardinality(log[k]) <= Limit[k]
    BY DEF Bounded
  <2>2. log[k] = {}
    BY <2>1 DEF Init
  <2>3. QED  BY <2>2, FS_EmptySet, Constants
<1>2. Safe /\ Bounded /\ [Next]_vars =>
        [\A m \in transit :
           Awaits(m) /\ stage'[m.req] = "refused" => ~RefusedAgain(m.req, m.key)']_vars
  <2> SUFFICES ASSUME Safe, Bounded, Next, NEW m \in transit, Awaits(m),
                      stage'[m.req] = "refused"
               PROVE  ~RefusedAgain(m.req, m.key)'
    OBVIOUS
  <2>1. m.req \in Requests /\ stage[m.req] = "waiting" /\ Head(todo[m.req]) = m.key
    BY Stamps DEF Awaits
  <2>2. ~ \E r \in Requests : Arrive(r) \/ FailOpen(r)
    BY <2>1 DEF Arrive, FailOpen, Safe, TypeOK
  <2>3. ASSUME NEW l \in transit, Pass(l) PROVE FALSE
    BY <2>1, <2>3 DEF Pass, Safe, TypeOK
  <2>4. ~Tick /\ \A l \in transit : ~Unheard(l)
    BY <2>1 DEF Tick, Unheard
  <2>5. PICK l \in transit : Refuse(l)
    BY <2>2, <2>3, <2>4 DEF Next
  <2>6. l.req = m.req /\ l.key = m.key
    BY <2>1, <2>5 DEF Refuse, Awaits, Safe, TypeOK
  <2>7. ~RefusedAgain(l.req, l.key)'
    BY <2>5, RefusedOnce
  <2>8. QED  BY <2>6, <2>7
<1>3. QED
  BY <1>1, <1>2, InitSafe, NextSafe, NextBounded, PTL DEF Spec, RetryIsHonest

\* For every limit, window and clock: the limiter the route tests use decides as the one
\* in Redis does, and names the same instant, whatever requests have come, late,
\* repeated or stamped by clocks that differ.
THEOREM InMemoryDecidesAlike == Spec => []DecidesAsRedis
<1>1. Safe => DecidesAsRedis
  <2>1. SUFFICES ASSUME Safe, NEW k \in Keys, NEW s \in 0..Horizon + Window[k],
                        NEW stamps \in Lists(k)
                 PROVE  LET d == Consume(stamps, k, s) IN
                        /\ d.allowed = ~Full(k, s)
                        /\ Full(k, s) => d.resetAt = ResetAt(k, s)
                        /\ Len(d.stamps) =
                             Cardinality(Kept(k, s)) + (IF d.allowed THEN 1 ELSE 0)
    BY Zenon DEF DecidesAsRedis
  <2>2. s \in Int
    BY <2>1, Constants
  <2>3. QED  BY <2>1, <2>2, ConsumesAlike, Zenon
<1>2. QED  BY <1>1, InitSafe, NextSafe, PTL DEF Spec

\* Who is turned away changes only when the limiter refuses.
LEMMA SameRefused ==
  ASSUME \A r \in Requests : stage'[r] = "refused" <=> stage[r] = "refused",
         \A r \in Requests : stage[r] = "refused" => todo'[r] = todo[r]
  PROVE  RefusedAt' = RefusedAt
<1>1. \A r \in Requests : \A k \in Keys :
        (stage'[r] = "refused" /\ Head(todo'[r]) = k) <=> (stage[r] = "refused" /\ Head(todo[r]) = k)
  OBVIOUS
<1>2. \A k \in Keys : {r \in Requests : stage'[r] = "refused" /\ Head(todo'[r]) = k}
                      = {r \in Requests : stage[r] = "refused" /\ Head(todo[r]) = k}
  BY <1>1
<1>3. QED  BY <1>2 DEF RefusedAt

\* The promise counts as the limiter does.
LEMMA SameCardinality == \A S : Promise!Cardinality(S) = Cardinality(S)
BY DEF Promise!Cardinality, Cardinality

LEMMA ArriveAsks ==
  ASSUME Safe, NEW r \in Requests, Arrive(r)
  PROVE  \E k \in Keys : Promise!Ask(r, k)
<1>1. PICK list \in CheckLists : Ask(r, Head(list)) /\ todo' = [todo EXCEPT ![r] = list]
  BY DEF Arrive
<1>2. Head(list) \in Keys
  BY LimiterConstants
<1>3. /\ stage[r] = "new" /\ stage' = [stage EXCEPT ![r] = "waiting"]
      /\ UNCHANGED <<now, admitted>>
  BY DEF Arrive
<1>4. RefusedAt' = RefusedAt
  BY <1>1, <1>3, SameRefused DEF Safe, TypeOK
<1>5. QED  BY <1>1, <1>2, <1>3, <1>4 DEF Ask, Promise!Ask, Promise!AskFor

LEMMA PassAdmits ==
  ASSUME Safe, NEW m \in transit, Pass(m)
  PROVE  m.req \in Requests /\ m.key \in Keys /\ Promise!Admit(m.req, m.key)
<1>1. /\ Awaits(m) /\ ~Full(m.key, m.stamp)
      /\ admitted' = [admitted EXCEPT ![m.key] = @ \cup {[req |-> m.req, at |-> now]}]
      /\ todo' = [todo EXCEPT ![m.req] = Tail(todo[m.req])]
      /\ \/ stage' = [stage EXCEPT ![m.req] = "allowed"] /\ UNCHANGED asked
         \/ /\ Tail(todo[m.req]) # <<>>
            /\ Ask(m.req, Head(Tail(todo[m.req])))
            /\ UNCHANGED stage
      /\ UNCHANGED now
  BY DEF Pass
<1>2. /\ m.req \in Requests /\ m.key \in Keys /\ stage[m.req] = "waiting"
      /\ Tail(todo[m.req]) # <<>> => Head(Tail(todo[m.req])) \in Keys
  BY <1>1, ChecksLeft
<1>3. RefusedAt' = RefusedAt
  <2>1. \A r \in Requests : stage'[r] = "refused" <=> stage[r] = "refused"
    BY <1>1, <1>2 DEF Safe, TypeOK
  <2>2. \A r \in Requests : stage[r] = "refused" => todo'[r] = todo[r]
    BY <1>1, <1>2 DEF Safe, TypeOK
  <2>3. QED  BY <2>1, <2>2, SameRefused
<1>4. Promise!Cardinality(Promise!Recent(admitted[m.key], Sure[m.key])) < Limit[m.key]
  <2> DEFINE R == {x \in admitted[m.key] : x.at > now - Sure[m.key]}
  <2>1. IsFiniteSet(R) /\ Cardinality(R) + 1 <= Limit[m.key]
    BY <1>1, <1>2, Stamps, RoomLeft
  <2> HIDE DEF R
  <2>2. Cardinality(R) < Limit[m.key]
    BY <1>2, <2>1, FS_CardinalityType, Constants
  <2>3. QED  BY <2>2, SameCardinality DEF Promise!Recent, R
<1>5. UNCHANGED asked \/ \E l \in Keys : Promise!AskFor(m.req, l)
  BY <1>1, <1>2 DEF Ask, Promise!AskFor
<1>6. Promise!Admit(m.req, m.key)
  BY <1>1, <1>3, <1>4, <1>5 DEF Promise!Admit
<1>7. QED  BY <1>2, <1>6

LEMMA RefuseRefuses ==
  ASSUME Safe, NEW m \in transit, Refuse(m)
  PROVE  m.req \in Requests /\ m.key \in Keys /\ Promise!Refuse(m.req, m.key)
<1>1. /\ Awaits(m) /\ Full(m.key, m.stamp)
      /\ stage' = [stage EXCEPT ![m.req] = "refused"]
      /\ UNCHANGED <<now, todo, asked, admitted>>
  BY DEF Refuse
<1>2. /\ m.req \in Requests /\ m.key \in Keys
      /\ stage[m.req] = "waiting" /\ Head(todo[m.req]) = m.key
  BY <1>1, Stamps DEF Awaits
<1>3. RefusedAt' = [RefusedAt EXCEPT ![m.key] = @ \cup {m.req}]
  <2>1. \A r \in Requests : \A k \in Keys :
          (stage'[r] = "refused" /\ Head(todo'[r]) = k) <=>
             \/ stage[r] = "refused" /\ Head(todo[r]) = k
             \/ r = m.req /\ k = m.key
    BY <1>1, <1>2 DEF Safe, TypeOK
  <2>2. \A k \in Keys \ {m.key} :
          {r \in Requests : stage'[r] = "refused" /\ Head(todo'[r]) = k}
            = {r \in Requests : stage[r] = "refused" /\ Head(todo[r]) = k}
    BY <2>1
  <2>3. {r \in Requests : stage'[r] = "refused" /\ Head(todo'[r]) = m.key}
          = {r \in Requests : stage[r] = "refused" /\ Head(todo[r]) = m.key} \cup {m.req}
    BY <1>2, <2>1
  <2>4. QED  BY <1>2, <2>2, <2>3 DEF RefusedAt
<1>4. Promise!Cardinality(Promise!Recent(asked[m.key], Doubt[m.key])) >= Limit[m.key]
  BY <1>1, WindowFull, SameCardinality DEF Promise!Recent
<1>5. UNCHANGED <<now, asked, admitted>>
  BY <1>1
<1>6. Promise!Refuse(m.req, m.key)
  BY <1>3, <1>4, <1>5 DEF Promise!Refuse
<1>7. QED  BY <1>2, <1>6

LEMMA StepImplements ==
  Safe /\ [Next]_vars => [Promise!Next]_<<now, asked, admitted, RefusedAt>>
<1> SUFFICES ASSUME Safe, [Next]_vars
             PROVE  [Promise!Next]_<<now, asked, admitted, RefusedAt>>
  OBVIOUS
<1> USE DEF Promise!Next
<1>1. CASE UNCHANGED vars
  BY <1>1 DEF vars, RefusedAt
<1>2. ASSUME NEW r \in Requests, Arrive(r) PROVE Promise!Next
  BY <1>2, ArriveAsks
<1>3. ASSUME NEW r \in Requests, FailOpen(r)
      PROVE  UNCHANGED <<now, asked, admitted, RefusedAt>>
  <2>1. /\ stage[r] = "waiting" /\ stage' = [stage EXCEPT ![r] = "allowed"]
        /\ UNCHANGED <<now, todo, asked, admitted>>
    BY <1>3 DEF FailOpen
  <2>2. RefusedAt' = RefusedAt
    BY <2>1, SameRefused DEF Safe, TypeOK
  <2>3. QED  BY <2>1, <2>2
<1>4. ASSUME NEW m \in transit, Pass(m) PROVE Promise!Next
  BY <1>4, PassAdmits
<1>5. ASSUME NEW m \in transit, Refuse(m) PROVE Promise!Next
  BY <1>5, RefuseRefuses
<1>6. ASSUME NEW m \in transit, Unheard(m)
      PROVE  UNCHANGED <<now, asked, admitted, RefusedAt>>
  BY <1>6 DEF Unheard, RefusedAt
<1>7. CASE Tick
  BY <1>7 DEF Tick, Promise!Pass, RefusedAt
<1>8. QED  BY <1>1, <1>2, <1>3, <1>4, <1>5, <1>6, <1>7 DEF Next

\* The limiter, with its late and repeated scripts, its skewed clocks and its requests
\* that are let through because Redis did not answer, is a sliding window: each of its
\* steps is a step of SlidingWindow, or changes nothing that SlidingWindow sees.
THEOREM LimiterImplementsSlidingWindow == Spec => ImplementsSlidingWindow
<1>1. Init => Promise!Init
  BY DEF Init, Promise!Init, RefusedAt
<1>2. QED
  BY <1>1, InitSafe, NextSafe, StepImplements, PTL
  DEF Spec, ImplementsSlidingWindow, Promise!Spec

=============================================================================
