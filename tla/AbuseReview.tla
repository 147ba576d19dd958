---------------------------- MODULE AbuseReview ----------------------------
(***************************************************************************)
(* Abuse reports on their way to an operator. A report is put into         *)
(* DynamoDB and then into the review queue, two Redis keys (routes/abuse.ts*)
(* and repositories/abuse-repository.ts); an operator reads the first      *)
(* entries of the queue, acts on one of their links, and that clears the   *)
(* entry (routes/admin.ts).                                                *)
(*                                                                         *)
(* The four writes - report, queue, link and edge, queue again - are       *)
(* separate awaits, and a Redis command that was given up may still run.   *)
(***************************************************************************)
EXTENDS Integers, FiniteSets

CONSTANTS
  Reports,     \* POST /api/abuse-reports requests, each made once
  About,       \* the slug of each
  Slugs,       \* well-formed slugs
  Links,       \* those the link store has an item for
  Operators,
  NoSlug,
  ListLimit,   \* how many entries list() returns
  MaxFaults    \* bound on failures, and reports that DynamoDB deletes

ASSUME ReviewConstants ==
  /\ About \in [Reports -> Slugs]
  /\ Links \subseteq Slugs /\ NoSlug \notin Slugs
  /\ ListLimit \in Nat \ {0} /\ MaxFaults \in Nat

VARIABLES
  report,      \* where each report's request stands
  table,       \* reports in DynamoDB
  expired,     \* history: reports that DynamoDB has deleted
  adds,        \* queue.add commands sent and not done with: report -> its timestamp
  lastAt,      \* the sorted set: score of each slug, 0 for none
  counts,      \* the hash: how often it was added
  operator,    \* what each operator's request is doing, to which slug
  late,        \* queue.clear commands that were given up and may still run
  clock,
  fate,        \* history: what became of a report that was queued
  faults

vars == <<report, table, expired, adds, lastAt, counts, operator, late, clock, fate, faults>>

-----------------------------------------------------------------------------
Queued == {s \in Slugs : lastAt[s] # 0}

\* RedisAbuseQueue.add and .clear, each one MULTI.
Enqueue(s, at) ==
  /\ lastAt' = [lastAt EXCEPT ![s] = at]
  /\ counts' = [counts EXCEPT ![s] = @ + 1]

Dequeue(s) ==
  /\ lastAt' = [lastAt EXCEPT ![s] = 0]
  /\ counts' = [counts EXCEPT ![s] = 0]

\* Mutant: ZREVRANGE's last index taken for one past it.
FirstPageButOne ==
  {s \in Queued : Cardinality({t \in Queued : lastAt[t] > lastAt[s]}) < ListLimit - 1}

\* RedisAbuseQueue.list: the entries reported last.
FirstPage ==
  {s \in Queued : Cardinality({t \in Queued : lastAt[t] > lastAt[s]}) < ListLimit}

\* Somebody has begun to act on the slug and will clear it, or a clear that was
\* given up is still to run.
BeingCleared(s) == late[s] > 0 \/ \E o \in Operators : operator[o].slug = s

Fault == faults < MaxFaults /\ faults' = faults + 1
Answer(r, outcome) == report' = [report EXCEPT ![r] = outcome]
Idle == [at |-> "idle", slug |-> NoSlug, page |-> {}, reports |-> {}]

Init ==
  /\ report = [r \in Reports |-> "new"]
  /\ table = {}
  /\ expired = {}
  /\ adds = [r \in Reports |-> 0]
  /\ lastAt = [s \in Slugs |-> 0]
  /\ counts = [s \in Slugs |-> 0]
  /\ operator = [o \in Operators |-> Idle]
  /\ late = [s \in Slugs |-> 0]
  /\ clock = 0
  /\ fate = [r \in Reports |-> "none"]
  /\ faults = 0

-----------------------------------------------------------------------------
(***************************************************************************)
(* POST /api/abuse-reports.                                                *)
(***************************************************************************)

\* Over the rate limit, or not well formed.
Reject(r) ==
  /\ report[r] = "new"
  /\ Answer(r, "rejected")
  /\ UNCHANGED <<table, expired, adds, lastAt, counts, operator, late, clock, fate, faults>>

\* Mutant: the queue has it before, and perhaps without, the table.
QueueFirst(r) ==
  /\ report[r] = "new"
  /\ clock' = clock + 1
  /\ adds' = [adds EXCEPT ![r] = clock']
  /\ Answer(r, "adding")
  /\ UNCHANGED <<table, expired, lastAt, counts, operator, late, fate, faults>>

\* reports.record, and queue.add sets off.
Record(r) ==
  /\ report[r] = "new"
  /\ table' = table \cup {r}
  /\ clock' = clock + 1
  /\ adds' = [adds EXCEPT ![r] = clock']
  /\ Answer(r, "adding")
  /\ UNCHANGED <<expired, lastAt, counts, operator, late, fate, faults>>

\* DynamoDB does not answer, and may have the report all the same: 503.
RecordFails(r) ==
  /\ report[r] = "new"
  /\ Fault
  /\ table' \in {table, table \cup {r}}
  /\ Answer(r, "failed")
  /\ UNCHANGED <<expired, adds, lastAt, counts, operator, late, clock, fate>>

\* Redis runs queue.add. Its answer may be lost, and then it is sent again.
Add(r) ==
  /\ adds[r] # 0
  /\ Enqueue(About[r], adds[r])
  /\ fate' = [fate EXCEPT ![r] = IF BeingCleared(About[r]) THEN "overtaken" ELSE "queued"]
  /\ \/ /\ adds' = [adds EXCEPT ![r] = 0]
        /\ report[r] = "adding" => Answer(r, "received")
        /\ report[r] # "adding" => UNCHANGED report
        /\ UNCHANGED faults
     \/ Fault /\ UNCHANGED <<adds, report>>
  /\ UNCHANGED <<table, expired, operator, late, clock>>

\* queue.add is given up (503), and may run yet.
AddTimesOut(r) ==
  /\ report[r] = "adding"
  /\ Fault
  /\ Answer(r, "failed")
  /\ UNCHANGED <<table, expired, adds, lastAt, counts, operator, late, clock, fate>>

\* retentionTtlSeconds: DynamoDB deletes the report, a year after its request. What
\* the queue says of it stays.
Expire(r) ==
  /\ r \in table
  /\ report[r] # "adding" /\ adds[r] = 0
  /\ Fault
  /\ table' = table \ {r}
  /\ expired' = expired \cup {r}
  /\ UNCHANGED <<report, adds, lastAt, counts, operator, late, clock, fate>>

-----------------------------------------------------------------------------
(***************************************************************************)
(* An operator: GET /admin/abuse, then POST /admin/links/:slug/disable or  *)
(* /enable.                                                                *)
(***************************************************************************)

Become(o, state) == operator' = [operator EXCEPT ![o] = state]

List(o) ==
  /\ operator[o].at = "idle"
  /\ FirstPage # {}
  /\ Become(o, [Idle EXCEPT !.at = "page", !.page = FirstPage])
  /\ UNCHANGED <<report, table, expired, adds, lastAt, counts, late, clock, fate, faults>>

\* setStatus of a link on the page; repository.update finds it.
Act(o, s) ==
  /\ operator[o].at = "page" /\ s \in operator[o].page
  /\ s \in Links
  /\ Become(o, [Idle EXCEPT !.at = "sync", !.slug = s,
                            !.reports = {r \in Reports : About[r] = s /\ fate[r] = "queued"}])
  /\ UNCHANGED <<report, table, expired, adds, lastAt, counts, late, clock, fate, faults>>

\* repository.update finds no item (404), or fails: the entry stays.
ActFails(o, s) ==
  /\ operator[o].at = "page" /\ s \in operator[o].page
  /\ \/ s \notin Links /\ UNCHANGED faults
     \/ Fault
  /\ Become(o, Idle)
  /\ UNCHANGED <<report, table, expired, adds, lastAt, counts, late, clock, fate>>

\* The edge has the new status; queue.clear sets off.
Sync(o) ==
  /\ operator[o].at = "sync"
  /\ Become(o, [operator[o] EXCEPT !.at = "clear"])
  /\ fate' = [r \in Reports |-> IF r \in operator[o].reports THEN "reviewed" ELSE fate[r]]
  /\ UNCHANGED <<report, table, expired, adds, lastAt, counts, late, clock, faults>>

\* Mutant: a failed sync clears the queue like any other action.
SyncFailsAndClears(o) ==
  /\ operator[o].at = "sync"
  /\ Fault
  /\ Become(o, [operator[o] EXCEPT !.at = "clear"])
  /\ UNCHANGED <<report, table, expired, adds, lastAt, counts, late, clock, fate>>

\* The edge does not: 503, and the operator finds the entry where it was.
SyncFails(o) ==
  /\ operator[o].at = "sync"
  /\ Fault
  /\ Become(o, Idle)
  /\ UNCHANGED <<report, table, expired, adds, lastAt, counts, late, clock, fate>>

Clear(o) ==
  /\ operator[o].at = "clear"
  /\ Dequeue(operator[o].slug)
  /\ Become(o, Idle)
  /\ UNCHANGED <<report, table, expired, adds, late, clock, fate, faults>>

\* queue.clear is given up: logged, and 200 all the same. It may run yet.
ClearFails(o) ==
  /\ operator[o].at = "clear"
  /\ Fault
  /\ Become(o, Idle)
  /\ late' \in {late, [late EXCEPT ![operator[o].slug] = @ + 1]}
  /\ UNCHANGED <<report, table, expired, adds, lastAt, counts, clock, fate>>

LateClear(s) ==
  /\ late[s] > 0
  /\ Dequeue(s)
  /\ late' = [late EXCEPT ![s] = @ - 1]
  /\ UNCHANGED <<report, table, expired, adds, operator, clock, fate, faults>>

\* Redis comes back empty: "losing Redis loses the queue, not the reports".
LoseRedis ==
  /\ Fault
  /\ lastAt' = [s \in Slugs |-> 0]
  /\ counts' = [s \in Slugs |-> 0]
  /\ fate' = [r \in Reports |-> IF fate[r] = "queued" THEN "lost" ELSE fate[r]]
  /\ UNCHANGED <<report, table, expired, adds, operator, late, clock>>

-----------------------------------------------------------------------------
Request(r) == Reject(r) \/ Record(r) \/ RecordFails(r) \/ Add(r) \/ AddTimesOut(r) \/ Expire(r)

Operate(o) ==
  \/ List(o) \/ Sync(o) \/ SyncFails(o) \/ Clear(o) \/ ClearFails(o)
  \/ \E s \in Slugs : Act(o, s) \/ ActFails(o, s)

Next ==
  \/ \E r \in Reports : Request(r)
  \/ \E o \in Operators : Operate(o)
  \/ \E s \in Slugs : LateClear(s)
  \/ LoseRedis

\* An add that was sent runs; operators keep working, and between them do not pass
\* over the same link for ever.
Fairness ==
  /\ \A r \in Reports : WF_vars(Add(r))
  /\ \A o \in Operators : WF_vars(Operate(o))
  /\ \A s \in Links : SF_vars(\E o \in Operators : Act(o, s))

Spec == Init /\ [][Next]_vars /\ Fairness

-----------------------------------------------------------------------------
(***************************************************************************)
(* Properties.                                                             *)
(***************************************************************************)

Outcomes == {"new", "rejected", "adding", "received", "failed"}
Fates == {"none", "queued", "reviewed", "overtaken", "lost"}

\* Every variable has its type.
TypeOK ==
  /\ report \in [Reports -> Outcomes]
  /\ table \subseteq Reports /\ expired \subseteq Reports
  /\ adds \in [Reports -> Nat]
  /\ lastAt \in [Slugs -> Nat] /\ counts \in [Slugs -> Nat]
  /\ operator \in [Operators -> [at : {"idle", "page", "sync", "clear"}, slug : Slugs \cup {NoSlug},
                                 page : SUBSET Slugs, reports : SUBSET Reports]]
  /\ late \in [Slugs -> Nat]
  /\ clock \in Nat
  /\ fate \in [Reports -> Fates]
  /\ faults \in 0..MaxFaults

\* "The reports are the record, the queue is an index over them", at every instant, also
\* while requests fail: whatever is in the queue was put into DynamoDB first, and what
\* is not there any more has been deleted after its year, which the queue does not know
\* of; its two keys agree, and no count is less than the reports that wait for an
\* operator.
QueueIndexesTable ==
  \A s \in Slugs :
    /\ s \in Queued => \E r \in table \cup expired : About[r] = s
    /\ counts[s] = 0 <=> s \notin Queued
    /\ counts[s] >= Cardinality({r \in Reports : About[r] = s /\ fate[r] = "queued"})

\* A report that was acknowledged, or only queued, keeps its slug in the queue until
\* an operator's action that began after it has reached the edge, unless an action
\* was under way when it came or Redis lost the queue.
StaysUntilReviewed ==
  \A r \in Reports : fate[r] = "queued" => About[r] \in Queued

\* While fewer slugs that do not exist are reported than fit on the first page,
\* every report of a link that exists is dealt with.
EveryReportReviewed ==
  \A r \in Reports :
    About[r] \in Links => (fate[r] = "queued" ~> fate[r] # "queued")
=============================================================================
