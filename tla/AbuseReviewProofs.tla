------------------------- MODULE AbuseReviewProofs -------------------------
(***************************************************************************)
(* For any reports, slugs, operators and failures: the review queue is an  *)
(* index over the reports that DynamoDB has or had (QueueIndexesTable),    *)
(* and a report stays in it until an operator has acted on it              *)
(* (StaysUntilReviewed).                                                   *)
(*                                                                         *)
(* What makes it so is that whoever is about to clear a slug has seen all  *)
(* its waiting reports (Seen): those that come later count as overtaken by *)
(* the action.                                                             *)
(***************************************************************************)
EXTENDS AbuseReview, FiniteSetTheorems, TLAPS

Waiting(s) == {r \in Reports : About[r] = s /\ fate[r] = "queued"}

\* An add sets off when the table has the report.
Recorded == \A r \in Reports : adds[r] # 0 => r \in table

\* Reports that were ever queued are finitely many.
Countable == IsFiniteSet({r \in Reports : fate[r] # "none"})

\* An operator that is about to tell the edge has seen all reports that wait; when the
\* edge has been told, and when a clear may still run, none waits.
Seen ==
  /\ \A o \in Operators :
       /\ operator[o].at \in {"idle", "page"} => operator[o].slug = NoSlug
       /\ operator[o].at \in {"sync", "clear"} => operator[o].slug \in Slugs
       /\ operator[o].at = "sync" => Waiting(operator[o].slug) \subseteq operator[o].reports
       /\ operator[o].at = "clear" => Waiting(operator[o].slug) = {}
       /\ \A r \in operator[o].reports : fate[r] # "none"
  /\ \A s \in Slugs : late[s] > 0 => Waiting(s) = {}

Inv == TypeOK /\ Recorded /\ Countable /\ Seen /\ QueueIndexesTable

-----------------------------------------------------------------------------
LEMMA WaitingIsFinite ==
  ASSUME Inv, NEW s \in Slugs
  PROVE  IsFiniteSet(Waiting(s)) /\ Cardinality(Waiting(s)) \in Nat
<1>1. Waiting(s) \in SUBSET {r \in Reports : fate[r] # "none"}
  BY DEF Waiting
<1>2. IsFiniteSet(Waiting(s))
  BY <1>1, FS_Subset DEF Inv, Countable
<1>3. QED  BY <1>2, FS_CardinalityType

\* A slug that waits is in the queue.
LEMMA WaitingIsQueued ==
  ASSUME Inv, NEW r \in Reports, fate[r] = "queued"
  PROVE  About[r] \in Queued
<1>1. About[r] \in Slugs
  BY ReviewConstants
<1>2. r \in Waiting(About[r])
  BY DEF Waiting
<1>3. Cardinality(Waiting(About[r])) # 0 /\ Cardinality(Waiting(About[r])) \in Nat
  BY <1>1, <1>2, WaitingIsFinite, FS_EmptySet
<1>4. counts[About[r]] >= Cardinality(Waiting(About[r])) /\ counts[About[r]] \in Nat
  BY <1>1 DEF Inv, QueueIndexesTable, Waiting, TypeOK
<1>5. counts[About[r]] # 0
  BY <1>3, <1>4
<1>6. QED  BY <1>1, <1>5 DEF Inv, QueueIndexesTable

LEMMA IdleType ==
  Idle \in [at : {"idle", "page", "sync", "clear"}, slug : Slugs \cup {NoSlug},
            page : SUBSET Slugs, reports : SUBSET Reports]
BY DEF Idle

\* Steps that touch neither the queue nor what waits in it, and forget no report.
LEMMA QueueUntouched ==
  ASSUME Inv, UNCHANGED <<lastAt, counts, fate>>,
         table \cup expired \subseteq table' \cup expired'
  PROVE  Countable' /\ QueueIndexesTable'
<1>1. Countable'
  BY DEF Inv, Countable
<1>2. QED  BY <1>1 DEF Inv, QueueIndexesTable, Queued

\* A request's own steps, other than Add.
LEMMA RequestsKeepInv ==
  ASSUME Inv, NEW r \in Reports,
         Reject(r) \/ Record(r) \/ RecordFails(r) \/ AddTimesOut(r) \/ Expire(r)
  PROVE  Inv'
<1>1. /\ UNCHANGED <<lastAt, counts, operator, late, fate>>
      /\ table \cup expired \subseteq table' \cup expired'
  BY DEF Reject, Record, RecordFails, AddTimesOut, Expire
<1>2. TypeOK
  BY DEF Inv
<1>3. TypeOK' /\ Recorded'
  <2>1. CASE Reject(r)
    BY <1>2, <2>1 DEF Inv, TypeOK, Recorded, Reject, Answer, Outcomes
  <2>2. CASE Record(r)
    <3>1. TypeOK'
      BY <1>2, <2>2 DEF TypeOK, Record, Answer, Outcomes
    <3>2. Recorded'
      BY <1>2, <2>2 DEF Inv, TypeOK, Recorded, Record
    <3>3. QED  BY <3>1, <3>2
  <2>3. CASE RecordFails(r)
    <3>1. faults' \in 0..MaxFaults
      BY <1>2, <2>3, ReviewConstants DEF RecordFails, Fault, TypeOK
    <3>2. QED  BY <1>2, <2>3, <3>1 DEF Inv, TypeOK, Recorded, RecordFails, Answer, Outcomes
  <2>4. CASE AddTimesOut(r)
    <3>1. faults' \in 0..MaxFaults
      BY <1>2, <2>4, ReviewConstants DEF AddTimesOut, Fault, TypeOK
    <3>2. QED  BY <1>2, <2>4, <3>1 DEF Inv, TypeOK, Recorded, AddTimesOut, Answer, Outcomes
  <2>5. CASE Expire(r)
    <3>1. faults' \in 0..MaxFaults
      BY <1>2, <2>5, ReviewConstants DEF Expire, Fault, TypeOK
    <3>2. QED  BY <1>2, <2>5, <3>1 DEF Inv, TypeOK, Recorded, Expire
  <2>6. QED  BY <2>1, <2>2, <2>3, <2>4, <2>5
<1>4. Seen'
  BY <1>1 DEF Inv, Seen, Waiting
<1>5. QED  BY <1>1, <1>3, <1>4, QueueUntouched DEF Inv

\* The queue gets an entry: one more that waits, if nobody is about to clear it.
LEMMA AddKeepsInv ==
  ASSUME Inv, NEW r \in Reports, Add(r)
  PROVE  Inv'
<1> DEFINE s == About[r]
<1>1. /\ adds[r] # 0
      /\ lastAt' = [lastAt EXCEPT ![s] = adds[r]]
      /\ counts' = [counts EXCEPT ![s] = @ + 1]
      /\ fate' = [fate EXCEPT ![r] = IF BeingCleared(s) THEN "overtaken" ELSE "queued"]
      /\ UNCHANGED <<table, expired, operator, late, clock>>
  BY DEF Add, Enqueue
<1>2. TypeOK /\ s \in Slugs /\ r \in table
  BY <1>1, ReviewConstants DEF Inv, Recorded
<1>3. TypeOK' /\ Recorded'
  <2>1. CASE /\ adds' = [adds EXCEPT ![r] = 0] /\ UNCHANGED faults
             /\ report[r] = "adding" => Answer(r, "received")
             /\ report[r] # "adding" => UNCHANGED report
    <3>1. report' \in [Reports -> Outcomes]
      BY <1>2, <2>1 DEF TypeOK, Answer, Outcomes
    <3>2. adds' \in [Reports -> Nat] /\ \A q \in Reports : adds'[q] # 0 => adds[q] # 0
      BY <1>2, <2>1 DEF TypeOK
    <3>3. /\ lastAt' \in [Slugs -> Nat] /\ counts' \in [Slugs -> Nat]
          /\ fate' \in [Reports -> Fates]
      BY <1>1, <1>2 DEF TypeOK, Fates
    <3>4. QED  BY <1>1, <1>2, <2>1, <3>1, <3>2, <3>3 DEF Inv, TypeOK, Recorded
  <2>2. CASE Fault /\ UNCHANGED <<adds, report>>
    <3>1. faults' \in 0..MaxFaults
      BY <1>2, <2>2, ReviewConstants DEF Fault, TypeOK
    <3>2. QED  BY <1>1, <1>2, <2>2, <3>1 DEF Inv, TypeOK, Fates, Recorded
  <2>3. QED  BY <2>1, <2>2 DEF Add
<1>4. Countable'
  <2> DEFINE old == {q \in Reports : fate[q] # "none"}
             new == {q \in Reports : fate'[q] # "none"}
  <2>1. new \in SUBSET (old \cup {r})
    BY <1>1, <1>2 DEF TypeOK
  <2>2. IsFiniteSet(old \cup {r})
    BY FS_AddElement DEF Inv, Countable
  <2>3. IsFiniteSet(new)
    BY <2>1, <2>2, FS_Subset
  <2>4. QED  BY <2>3 DEF Countable
<1>5. \A t \in Slugs : Waiting(t)' \subseteq Waiting(t) \cup (IF t = s /\ ~BeingCleared(s) THEN {r} ELSE {})
  BY <1>1, <1>2 DEF TypeOK, Waiting
<1>6. Seen'
  <2>1. \A t \in Slugs : BeingCleared(t) => Waiting(t)' \subseteq Waiting(t)
    BY <1>5
  <2>2. ASSUME NEW o \in Operators
        PROVE  /\ operator[o].at \in {"idle", "page"} => operator[o].slug = NoSlug
               /\ operator[o].at \in {"sync", "clear"} => operator[o].slug \in Slugs
               /\ operator[o].at = "sync" => Waiting(operator[o].slug)' \subseteq operator[o].reports
               /\ operator[o].at = "clear" => Waiting(operator[o].slug)' = {}
               /\ \A q \in operator[o].reports : fate'[q] # "none"
    <3>1. /\ operator[o].at \in {"idle", "page"} => operator[o].slug = NoSlug
          /\ operator[o].at \in {"sync", "clear"} => operator[o].slug \in Slugs
          /\ operator[o].at = "sync" => Waiting(operator[o].slug) \subseteq operator[o].reports
          /\ operator[o].at = "clear" => Waiting(operator[o].slug) = {}
      BY DEF Inv, Seen
    <3>2. ASSUME operator[o].at \in {"sync", "clear"}
          PROVE  Waiting(operator[o].slug)' \subseteq Waiting(operator[o].slug)
      <4>1. operator[o].slug \in Slugs /\ BeingCleared(operator[o].slug)
        BY <3>1, <3>2 DEF BeingCleared
      <4>2. operator' = operator
        BY <1>1
      <4>3. QED  BY <2>1, <4>1, <4>2 DEF Waiting
    <3>3. \A q \in operator[o].reports : q \in Reports /\ fate[q] # "none"
      BY <1>2 DEF TypeOK, Inv, Seen
    <3>4. \A q \in operator[o].reports : fate'[q] # "none"
      BY <1>1, <1>2, <3>3 DEF TypeOK
    <3>5. QED  BY <3>1, <3>2, <3>4
  <2>3. \A t \in Slugs : late[t] > 0 => Waiting(t)' = {}
    BY <2>1 DEF Inv, Seen, BeingCleared
  <2>4. operator' = operator /\ late' = late
    BY <1>1
  <2>5. QED  BY <2>2, <2>3, <2>4 DEF Seen
<1>7. QueueIndexesTable'
  <2>1. ASSUME NEW t \in Slugs
        PROVE  /\ t \in Queued' => \E q \in table' \cup expired' : About[q] = t
               /\ counts'[t] = 0 <=> t \notin Queued'
               /\ counts'[t] >= Cardinality(Waiting(t)')
    <3>1. CASE t = s
      <4>1. Waiting(t)' \in SUBSET (Waiting(t) \cup {r})
        BY <1>5
      <4>2. IsFiniteSet(Waiting(t)) /\ Cardinality(Waiting(t)) \in Nat
        BY WaitingIsFinite
      <4>3. /\ IsFiniteSet(Waiting(t) \cup {r})
            /\ Cardinality(Waiting(t) \cup {r}) =
                 IF r \in Waiting(t) THEN Cardinality(Waiting(t)) ELSE Cardinality(Waiting(t)) + 1
        BY <4>2, FS_AddElement
      <4>4. Cardinality(Waiting(t)') <= Cardinality(Waiting(t) \cup {r}) /\ IsFiniteSet(Waiting(t)')
        BY <4>1, <4>3, FS_Subset
      <4>5. Cardinality(Waiting(t)') \in Nat
        BY <4>4, FS_CardinalityType
      <4>6. counts[t] \in Nat /\ counts[t] >= Cardinality(Waiting(t))
        BY <1>2 DEF Inv, TypeOK, QueueIndexesTable, Waiting
      <4>7. counts'[t] = counts[t] + 1 /\ lastAt'[t] = adds[r]
        BY <1>1, <1>2, <3>1 DEF TypeOK
      <4>8. counts'[t] >= Cardinality(Waiting(t)') /\ counts'[t] # 0
        BY <4>2, <4>3, <4>4, <4>5, <4>6, <4>7
      <4>9. QED  BY <1>1, <1>2, <3>1, <4>7, <4>8 DEF Queued
    <3>2. CASE t # s
      <4>1. counts'[t] = counts[t] /\ lastAt'[t] = lastAt[t]
        BY <1>1, <1>2, <3>2 DEF TypeOK
      <4>2. Waiting(t)' = Waiting(t)
        BY <1>1, <1>2, <3>2 DEF TypeOK, Waiting
      <4>3. QED  BY <1>1, <4>1, <4>2 DEF Inv, QueueIndexesTable, Queued, Waiting
    <3>3. QED  BY <3>1, <3>2
  <2>2. QED  BY <2>1 DEF QueueIndexesTable, Waiting
<1>8. QED  BY <1>3, <1>4, <1>6, <1>7 DEF Inv

-----------------------------------------------------------------------------
(***************************************************************************)
(* Operators, and what is left of them.                                    *)
(***************************************************************************)

\* An operator's step that leaves the reports, the queue and their fates alone.
LEMMA OperatorMoves ==
  ASSUME Inv, NEW o \in Operators, NEW state, Become(o, state),
         state \in [at : {"idle", "page", "sync", "clear"}, slug : Slugs \cup {NoSlug},
                    page : SUBSET Slugs, reports : SUBSET Reports],
         state.at \in {"idle", "page"} => state.slug = NoSlug,
         state.at \in {"sync", "clear"} => state.slug \in Slugs,
         state.at = "sync" => Waiting(state.slug) \subseteq state.reports,
         state.at = "clear" => Waiting(state.slug) = {},
         \A r \in state.reports : fate[r] # "none",
         UNCHANGED <<report, table, expired, adds, lastAt, counts, clock, fate>>,
         late' \in [Slugs -> Nat],
         \A s \in Slugs : late'[s] > 0 => Waiting(s) = {},
         faults' \in 0..MaxFaults
  PROVE  Inv'
<1>1. TypeOK /\ operator' = [operator EXCEPT ![o] = state]
  BY DEF Inv, Become
<1>2. TypeOK' /\ Recorded'
  BY <1>1 DEF Inv, TypeOK, Recorded
<1>3. Seen'
  <2>1. ASSUME NEW p \in Operators
        PROVE  /\ operator'[p].at \in {"idle", "page"} => operator'[p].slug = NoSlug
               /\ operator'[p].at \in {"sync", "clear"} => operator'[p].slug \in Slugs
               /\ operator'[p].at = "sync" => Waiting(operator'[p].slug) \subseteq operator'[p].reports
               /\ operator'[p].at = "clear" => Waiting(operator'[p].slug) = {}
               /\ \A r \in operator'[p].reports : fate[r] # "none"
    <3>1. CASE p = o
      BY <1>1, <3>1 DEF TypeOK
    <3>2. CASE p # o
      <4>1. operator'[p] = operator[p]
        BY <1>1, <3>2 DEF TypeOK
      <4>2. QED  BY <4>1 DEF Inv, Seen
    <3>3. QED  BY <3>1, <3>2
  <2>2. QED  BY <2>1 DEF Seen, Waiting
<1>4. QED  BY <1>2, <1>3, QueueUntouched DEF Inv

LEMMA FaultCounts ==
  ASSUME Inv, Fault
  PROVE  faults' \in 0..MaxFaults
BY ReviewConstants DEF Inv, TypeOK, Fault

LEMMA IdleOperator ==
  ASSUME Inv, NEW o \in Operators, Become(o, Idle),
         UNCHANGED <<report, table, expired, adds, lastAt, counts, clock, fate>>,
         late' \in [Slugs -> Nat], \A s \in Slugs : late'[s] > 0 => Waiting(s) = {},
         faults' \in 0..MaxFaults
  PROVE  Inv'
<1>1. Idle.at = "idle" /\ Idle.slug = NoSlug /\ Idle.reports = {}
  BY DEF Idle
<1>2. QED  BY <1>1, IdleType, OperatorMoves

\* Taking out a slug for which no report waits.
LEMMA Dequeues ==
  ASSUME Inv, NEW s \in Slugs, Waiting(s) = {}, Dequeue(s), UNCHANGED <<table, expired, fate>>
  PROVE  /\ lastAt' \in [Slugs -> Nat] /\ counts' \in [Slugs -> Nat]
         /\ QueueIndexesTable'
<1>1. /\ lastAt' = [lastAt EXCEPT ![s] = 0] /\ counts' = [counts EXCEPT ![s] = 0]
      /\ lastAt \in [Slugs -> Nat] /\ counts \in [Slugs -> Nat]
  BY DEF Dequeue, Inv, TypeOK
<1>2. ASSUME NEW t \in Slugs
      PROVE  /\ t \in Queued' => \E r \in table \cup expired : About[r] = t
             /\ counts'[t] = 0 <=> t \notin Queued'
             /\ counts'[t] >= Cardinality(Waiting(t))
  <2>1. CASE t = s
    <3>1. counts'[t] = 0 /\ lastAt'[t] = 0
      BY <1>1, <2>1
    <3>2. Cardinality(Waiting(t)) = 0
      BY <2>1, FS_EmptySet
    <3>3. QED  BY <3>1, <3>2 DEF Queued
  <2>2. CASE t # s
    <3>1. counts'[t] = counts[t] /\ lastAt'[t] = lastAt[t]
      BY <1>1, <2>2
    <3>2. QED  BY <3>1 DEF Inv, QueueIndexesTable, Queued, Waiting
  <2>3. QED  BY <2>1, <2>2
<1>3. QueueIndexesTable'
  BY <1>2 DEF QueueIndexesTable, Waiting
<1>4. QED  BY <1>1, <1>3

\* Reports stop waiting, and the queue is as it was.
LEMMA FewerWait ==
  ASSUME Inv, UNCHANGED <<table, expired, lastAt, counts>>,
         \A s \in Slugs : Waiting(s)' \subseteq Waiting(s)
  PROVE  QueueIndexesTable'
<1>1. ASSUME NEW s \in Slugs
      PROVE  /\ s \in Queued' => \E r \in table' \cup expired' : About[r] = s
             /\ counts'[s] = 0 <=> s \notin Queued'
             /\ counts'[s] >= Cardinality(Waiting(s)')
  <2>1. IsFiniteSet(Waiting(s)) /\ Cardinality(Waiting(s)) \in Nat
    BY WaitingIsFinite
  <2>2. IsFiniteSet(Waiting(s)') /\ Cardinality(Waiting(s)') <= Cardinality(Waiting(s))
    BY <2>1, FS_Subset
  <2>3. Cardinality(Waiting(s)') \in Nat
    BY <2>2, FS_CardinalityType
  <2>4. counts[s] \in Nat /\ counts[s] >= Cardinality(Waiting(s))
    BY DEF Inv, TypeOK, QueueIndexesTable, Waiting
  <2>5. counts'[s] >= Cardinality(Waiting(s)')
    BY <2>1, <2>2, <2>3, <2>4
  <2>6. QED  BY <2>5 DEF Inv, QueueIndexesTable, Queued
<1>2. QED  BY <1>1 DEF QueueIndexesTable, Waiting

LEMMA SyncKeepsInv ==
  ASSUME Inv, NEW o \in Operators, Sync(o)
  PROVE  Inv'
<1> DEFINE s == operator[o].slug
           state == [operator[o] EXCEPT !.at = "clear"]
<1>1. /\ operator[o].at = "sync" /\ operator' = [operator EXCEPT ![o] = state]
      /\ fate' = [r \in Reports |-> IF r \in operator[o].reports THEN "reviewed" ELSE fate[r]]
      /\ UNCHANGED <<report, table, expired, adds, lastAt, counts, late, clock, faults>>
  BY DEF Sync, Become
<1>2. TypeOK /\ s \in Slugs /\ Waiting(s) \subseteq operator[o].reports
  BY <1>1 DEF Inv, Seen
<1>3. /\ state \in [at : {"idle", "page", "sync", "clear"}, slug : Slugs \cup {NoSlug},
                    page : SUBSET Slugs, reports : SUBSET Reports]
      /\ state.at = "clear" /\ state.slug = s /\ state.reports = operator[o].reports
  BY <1>2 DEF TypeOK
<1> HIDE DEF state
<1>4. \A r \in Reports : fate'[r] = "queued" => fate[r] = "queued" /\ r \notin operator[o].reports
  BY <1>1
<1>5. /\ \A t \in Slugs : Waiting(t)' \subseteq Waiting(t)
      /\ \A t \in Slugs : t = s => Waiting(t)' = {}
  BY <1>2, <1>4 DEF Waiting
<1>6. TypeOK' /\ Recorded'
  <2>1. fate' \in [Reports -> Fates]
    BY <1>1, <1>2 DEF TypeOK, Fates
  <2>2. operator' \in [Operators -> [at : {"idle", "page", "sync", "clear"}, slug : Slugs \cup {NoSlug},
                                     page : SUBSET Slugs, reports : SUBSET Reports]]
    BY <1>1, <1>2, <1>3 DEF TypeOK
  <2>3. QED  BY <1>1, <1>2, <2>1, <2>2 DEF Inv, TypeOK, Recorded
<1>7. \A r \in Reports : fate'[r] # "none" <=> fate[r] # "none"
  BY <1>1 DEF Inv, Seen
<1>8. Countable'
  BY <1>7 DEF Inv, Countable
<1>9. Seen'
  <2>1. ASSUME NEW p \in Operators
        PROVE  /\ operator'[p].at \in {"idle", "page"} => operator'[p].slug = NoSlug
               /\ operator'[p].at \in {"sync", "clear"} => operator'[p].slug \in Slugs
               /\ operator'[p].at = "sync" =>
                    {r \in Reports : About[r] = operator'[p].slug /\ fate'[r] = "queued"}
                      \subseteq operator'[p].reports
               /\ operator'[p].at = "clear" =>
                    {r \in Reports : About[r] = operator'[p].slug /\ fate'[r] = "queued"} = {}
               /\ \A r \in operator'[p].reports : fate'[r] # "none"
    <3>1. \A r \in operator[p].reports : fate'[r] # "none"
      BY <1>2, <1>7 DEF Inv, Seen, TypeOK
    <3>2. CASE p = o
      <4>1. operator'[p] = state
        BY <1>1, <1>2, <3>2 DEF TypeOK
      <4>2. QED  BY <1>2, <1>3, <1>5, <3>1, <3>2, <4>1 DEF Waiting
    <3>3. CASE p # o
      <4>1. operator'[p] = operator[p]
        BY <1>1, <1>2, <3>3 DEF TypeOK
      <4>2. QED  BY <1>5, <3>1, <4>1 DEF Inv, Seen, Waiting
    <3>4. QED  BY <3>2, <3>3
  <2>2. \A t \in Slugs : late'[t] > 0 => Waiting(t)' = {}
    BY <1>1, <1>5 DEF Inv, Seen
  <2>3. QED  BY <2>1, <2>2 DEF Seen, Waiting
<1>10. QueueIndexesTable'
  BY <1>1, <1>5, FewerWait
<1>11. QED  BY <1>6, <1>8, <1>9, <1>10 DEF Inv

LEMMA OperatorsKeepInv ==
  ASSUME Inv, NEW o \in Operators, Operate(o)
  PROVE  Inv'
<1>1. /\ TypeOK /\ faults \in 0..MaxFaults /\ late \in [Slugs -> Nat]
      /\ \A s \in Slugs : late[s] > 0 => Waiting(s) = {}
  BY DEF Inv, TypeOK, Seen
<1>2. CASE List(o)
  <2> DEFINE state == [Idle EXCEPT !.at = "page", !.page = FirstPage]
  <2>1. FirstPage \subseteq Slugs
    BY DEF FirstPage, Queued
  <2>2. /\ state \in [at : {"idle", "page", "sync", "clear"}, slug : Slugs \cup {NoSlug},
                      page : SUBSET Slugs, reports : SUBSET Reports]
        /\ state.at = "page" /\ state.slug = NoSlug /\ state.reports = {}
    BY <2>1 DEF Idle
  <2> HIDE DEF state
  <2>3. Become(o, state) /\ UNCHANGED <<report, table, expired, adds, lastAt, counts, late, clock, fate, faults>>
    BY <1>2 DEF List, state
  <2>4. QED  BY <1>1, <2>2, <2>3, OperatorMoves
<1>3. ASSUME NEW s \in Slugs, Act(o, s) PROVE Inv'
  <2> DEFINE state == [Idle EXCEPT !.at = "sync", !.slug = s,
                                   !.reports = {r \in Reports : About[r] = s /\ fate[r] = "queued"}]
  <2>1. /\ state \in [at : {"idle", "page", "sync", "clear"}, slug : Slugs \cup {NoSlug},
                      page : SUBSET Slugs, reports : SUBSET Reports]
        /\ state.at = "sync" /\ state.slug = s /\ state.reports = Waiting(s)
    BY DEF Idle, Waiting
  <2> HIDE DEF state
  <2>2. Become(o, state) /\ UNCHANGED <<report, table, expired, adds, lastAt, counts, late, clock, fate, faults>>
    BY <1>3 DEF Act, state
  <2>3. \A r \in state.reports : fate[r] # "none"
    BY <2>1 DEF Waiting
  <2>4. QED  BY <1>1, <2>1, <2>2, <2>3, OperatorMoves
<1>4. ASSUME NEW s \in Slugs, ActFails(o, s) PROVE Inv'
  <2>1. Become(o, Idle) /\ UNCHANGED <<report, table, expired, adds, lastAt, counts, late, clock, fate>>
    BY <1>4 DEF ActFails
  <2>2. faults' \in 0..MaxFaults
    BY <1>1, <1>4, FaultCounts DEF ActFails
  <2>3. QED  BY <1>1, <2>1, <2>2, IdleOperator
<1>5. CASE SyncFails(o)
  <2>1. Become(o, Idle) /\ UNCHANGED <<report, table, expired, adds, lastAt, counts, late, clock, fate>>
    BY <1>5 DEF SyncFails
  <2>2. faults' \in 0..MaxFaults
    BY <1>5, FaultCounts DEF SyncFails
  <2>3. QED  BY <1>1, <2>1, <2>2, IdleOperator
<1>6. CASE Sync(o)
  BY <1>6, SyncKeepsInv
<1>7. CASE Clear(o)
  <2>1. /\ operator[o].at = "clear" /\ Dequeue(operator[o].slug) /\ Become(o, Idle)
        /\ UNCHANGED <<report, table, expired, adds, late, clock, fate, faults>>
    BY <1>7 DEF Clear
  <2>2. operator[o].slug \in Slugs /\ Waiting(operator[o].slug) = {}
    BY <2>1 DEF Inv, Seen
  <2>3. lastAt' \in [Slugs -> Nat] /\ counts' \in [Slugs -> Nat] /\ QueueIndexesTable'
    BY <2>1, <2>2, Dequeues
  <2>4. operator' = [operator EXCEPT ![o] = Idle]
    BY <2>1 DEF Become
  <2>5. TypeOK' /\ Recorded' /\ Countable'
    BY <1>1, <2>1, <2>3, <2>4, IdleType DEF Inv, TypeOK, Recorded, Countable
  <2>6. Seen'
    <3>1. Idle.at = "idle" /\ Idle.slug = NoSlug /\ Idle.reports = {}
      BY DEF Idle
    <3>2. \A p \in Operators : operator'[p] = Idle \/ operator'[p] = operator[p]
      BY <1>1, <2>4 DEF TypeOK
    <3>3. QED  BY <2>1, <3>1, <3>2 DEF Inv, Seen, Waiting
  <2>7. QED  BY <2>3, <2>5, <2>6 DEF Inv
<1>8. CASE ClearFails(o)
  <2>1. /\ operator[o].at = "clear" /\ Become(o, Idle)
        /\ late' \in {late, [late EXCEPT ![operator[o].slug] = @ + 1]}
        /\ UNCHANGED <<report, table, expired, adds, lastAt, counts, clock, fate>>
    BY <1>8 DEF ClearFails
  <2>2. faults' \in 0..MaxFaults
    BY <1>8, FaultCounts DEF ClearFails
  <2>3. operator[o].slug \in Slugs /\ Waiting(operator[o].slug) = {}
    BY <2>1 DEF Inv, Seen
  <2>4. late' \in [Slugs -> Nat] /\ \A s \in Slugs : late'[s] > 0 => Waiting(s) = {}
    BY <1>1, <2>1, <2>3
  <2>5. QED  BY <2>1, <2>2, <2>4, IdleOperator
<1>9. QED  BY <1>2, <1>3, <1>4, <1>5, <1>6, <1>7, <1>8 DEF Operate

LEMMA LateClearKeepsInv ==
  ASSUME Inv, NEW s \in Slugs, LateClear(s)
  PROVE  Inv'
<1>1. /\ late[s] > 0 /\ Dequeue(s) /\ late' = [late EXCEPT ![s] = @ - 1]
      /\ UNCHANGED <<report, table, expired, adds, operator, clock, fate, faults>>
  BY DEF LateClear
<1>2. TypeOK /\ late[s] \in Nat /\ Waiting(s) = {}
  BY <1>1 DEF Inv, TypeOK, Seen
<1>3. lastAt' \in [Slugs -> Nat] /\ counts' \in [Slugs -> Nat] /\ QueueIndexesTable'
  BY <1>1, <1>2, Dequeues
<1>4. late' \in [Slugs -> Nat] /\ \A t \in Slugs : late'[t] > 0 => late[t] > 0
  BY <1>1, <1>2 DEF TypeOK
<1>5. TypeOK' /\ Recorded' /\ Countable'
  BY <1>1, <1>2, <1>3, <1>4 DEF Inv, TypeOK, Recorded, Countable
<1>6. Seen'
  BY <1>1, <1>4 DEF Inv, Seen, Waiting
<1>7. QED  BY <1>3, <1>5, <1>6 DEF Inv

LEMMA LoseRedisKeepsInv ==
  ASSUME Inv, LoseRedis
  PROVE  Inv'
<1>1. /\ Fault
      /\ lastAt' = [s \in Slugs |-> 0] /\ counts' = [s \in Slugs |-> 0]
      /\ fate' = [r \in Reports |-> IF fate[r] = "queued" THEN "lost" ELSE fate[r]]
      /\ UNCHANGED <<report, table, expired, adds, operator, late, clock>>
  BY DEF LoseRedis
<1>2. TypeOK /\ faults' \in 0..MaxFaults
  BY <1>1, FaultCounts DEF Inv
<1>3. \A s \in Slugs \cup {NoSlug} : Waiting(s)' = {}
  BY <1>1 DEF Waiting
<1>4. TypeOK' /\ Recorded'
  <2>1. fate' \in [Reports -> Fates]
    BY <1>1, <1>2 DEF TypeOK, Fates
  <2>2. QED  BY <1>1, <1>2, <2>1 DEF Inv, TypeOK, Recorded
<1>5. \A r \in Reports : fate'[r] # "none" <=> fate[r] # "none"
  BY <1>1
<1>6. Countable'
  BY <1>5 DEF Inv, Countable
<1>7. Seen'
  <2>1. ASSUME NEW o \in Operators
        PROVE  /\ {r \in Reports : About[r] = operator[o].slug /\ fate'[r] = "queued"} = {}
               /\ \A r \in operator[o].reports : fate'[r] # "none"
    BY <1>1, <1>2, <1>5 DEF Inv, Seen, TypeOK
  <2>2. QED  BY <1>1, <1>3, <2>1 DEF Inv, Seen, Waiting
<1>8. QueueIndexesTable'
  <2>1. ASSUME NEW s \in Slugs
        PROVE  s \notin Queued' /\ counts'[s] = 0 /\ Cardinality(Waiting(s)') = 0
    BY <1>1, <1>3, FS_EmptySet DEF Queued
  <2>2. QED  BY <2>1 DEF QueueIndexesTable, Waiting
<1>9. QED  BY <1>4, <1>6, <1>7, <1>8 DEF Inv

LEMMA InitInv == Init => Inv
<1> SUFFICES ASSUME Init PROVE Inv
  OBVIOUS
<1> USE DEF Init
<1>1. TypeOK
  <2>1. 0 \in 0..MaxFaults
    BY ReviewConstants
  <2>2. QED  BY <2>1, IdleType DEF TypeOK, Outcomes, Fates
<1>2. \A s : Waiting(s) = {}
  BY DEF Waiting
<1>3. Recorded /\ Countable
  <2>1. {r \in Reports : fate[r] # "none"} = {}
    OBVIOUS
  <2>2. QED  BY <2>1, FS_EmptySet DEF Recorded, Countable
<1>4. Seen
  BY <1>2 DEF Seen, Idle
<1>5. QueueIndexesTable
  <2>1. \A s \in Slugs : s \notin Queued /\ counts[s] = 0 /\ Cardinality(Waiting(s)) = 0
    BY <1>2, FS_EmptySet DEF Queued
  <2>2. QED  BY <2>1 DEF QueueIndexesTable, Waiting
<1>6. QED  BY <1>1, <1>3, <1>4, <1>5 DEF Inv

LEMMA NextInv == Inv /\ [Next]_vars => Inv'
<1> SUFFICES ASSUME Inv, [Next]_vars PROVE Inv'
  OBVIOUS
<1>1. CASE UNCHANGED vars
  BY <1>1 DEF vars, Inv, TypeOK, Recorded, Countable, Seen, Waiting, QueueIndexesTable, Queued
<1>2. ASSUME NEW r \in Reports, Request(r) PROVE Inv'
  BY <1>2, RequestsKeepInv, AddKeepsInv DEF Request
<1>3. ASSUME NEW o \in Operators, Operate(o) PROVE Inv'
  BY <1>3, OperatorsKeepInv
<1>4. ASSUME NEW s \in Slugs, LateClear(s) PROVE Inv'
  BY <1>4, LateClearKeepsInv
<1>5. CASE LoseRedis
  BY <1>5, LoseRedisKeepsInv
<1>6. QED  BY <1>1, <1>2, <1>3, <1>4, <1>5 DEF Next

-----------------------------------------------------------------------------
(***************************************************************************)
(* Theorems.                                                               *)
(***************************************************************************)

\* Every variable has its type in every reachable state.
THEOREM ReviewTypeCorrect == Spec => []TypeOK
<1>1. Inv => TypeOK
  BY DEF Inv
<1>2. QED  BY <1>1, InitInv, NextInv, PTL DEF Spec

\* However requests, operators and failures interleave, the queue has nothing that was
\* not in the table before, its two keys agree, and no count is too low.
THEOREM QueueIsAnIndex == Spec => []QueueIndexesTable
<1>1. Inv => QueueIndexesTable
  BY DEF Inv
<1>2. QED  BY <1>1, InitInv, NextInv, PTL DEF Spec

\* A report that was queued is found there until an operator has acted on it.
THEOREM ReportsStay == Spec => []StaysUntilReviewed
<1>1. Inv => StaysUntilReviewed
  BY WaitingIsQueued DEF StaysUntilReviewed
<1>2. QED  BY <1>1, InitInv, NextInv, PTL DEF Spec

=============================================================================
