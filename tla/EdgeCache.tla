----------------------------- MODULE EdgeCache -----------------------------
(***************************************************************************)
(* One short link, its copy in Workers KV, and everything that reads or    *)
(* writes either: visits at the edge worker, and the API's create, PATCH,  *)
(* DELETE and admin requests. Slugs do not influence each other, so one is *)
(* enough.                                                                 *)
(*                                                                         *)
(*   apps/edge/src/{index,kv,link,origin}.ts            Hit .. Answer      *)
(*   apps/api/src/routes/internal.ts                    Resolve            *)
(*   apps/api/src/routes/links.ts, routes/admin.ts      Load .. Sync*      *)
(*   apps/api/src/repositories/edge-cache.ts            Put, Purge         *)
(*   apps/api/src/repositories/dynamo-link-repository.ts  link, Readable   *)
(*                                                                         *)
(* The record changes first and KV second, in separate awaits; the worker  *)
(* writes back what it read some time before. Time is discrete: a clock    *)
(* that ticks, and deadlines it does not pass while an operation that must *)
(* have ended by then has not.                                             *)
(***************************************************************************)
EXTENDS Integers, FiniteSets

CONSTANTS
  Visits,      \* visitors the edge worker is serving at a time
  Writers,     \* API requests in progress at a time
  Targets,     \* target URLs, all of which evaluateLink accepts
  Expiries,    \* instants expiresAt may name
  Never,       \* no expiresAt
  NoLink,      \* no item for the slug
  NoEntry,     \* no KV value for the slug
  NoAnswer,
  MaxTtl,      \* KV_MAX_TTL_SECONDS
  MinTtl,      \* KV_MIN_TTL_SECONDS
  ReadLag,     \* how far behind an eventually consistent read may be
  Flight,      \* how long a visit, or a KV operation, may be under way
  Horizon,     \* bound on the clock
  MaxWrites,   \* bound on the writes to the item
  MaxTransit   \* bound on the operations in transit

ASSUME CacheConstants ==
  /\ Expiries \subseteq Nat
  /\ Never \notin Nat
  /\ Targets \cap {"missing", "disabled", "expired"} = {}
  /\ MinTtl \in Nat \ {0} /\ MaxTtl \in Nat /\ MinTtl <= MaxTtl
  /\ ReadLag \in Nat /\ Flight \in Nat /\ Horizon \in Nat
  /\ MaxWrites \in Nat /\ MaxTransit \in Nat

Expiry == Expiries \cup {Never}
Link == [u : Targets, s : {"active", "disabled", "deleted"}, e : Expiry]

ASSUME NoLinkIsNone == NoLink \notin Link

\* toKvLinkValue of an item, in KV until it evicts itself.
Entry == [value : Link, asOf : Nat, until : Nat]

ASSUME NoEntryIsNone == NoEntry \notin Entry

VARIABLES
  now,         \* Date.now(), everywhere
  link,        \* the DynamoDB item of the slug
  replaced,    \* items it replaced that an eventually consistent read may return
  entry,       \* the KV entry: toKvLinkValue of an item, and when it evicts itself
  transit,     \* KV operations sent that nobody waits for any more
  visit,       \* the requests at the worker
  writer,      \* the requests at the API
  answer,      \* what the last step told a visitor
  writes       \* how many there have been

vars == <<now, link, replaced, entry, transit, visit, writer, answer, writes>>

-----------------------------------------------------------------------------
(***************************************************************************)
(* Data. asOf is the last instant at which a copy is known to have been    *)
(* the item itself.                                                        *)
(***************************************************************************)

Copy(l, t) == [value |-> l, asOf |-> t]

\* isExpired
Expired(l, t) == l.e # Never /\ l.e <= t

\* evaluateLink; an item the store does not have is a 404 of the origin.
Outcome(l, t) ==
  IF l = NoLink \/ l.s = "deleted" THEN "missing"
  ELSE IF l.s = "disabled" THEN "disabled"
  ELSE IF Expired(l, t) THEN "expired"
  ELSE l.u

Redirects(outcome) == outcome \in Targets

\* Mutant: the backstop bounds only links that never expire.
TtlToExpiry(l, t) ==
  IF l.e = Never THEN MaxTtl ELSE IF l.e - t < MinTtl THEN 0 ELSE l.e - t

\* Mutant: the expiry is left to the reader.
TtlIgnoringExpiry(l, t) ==
  IF l.e # Never /\ l.e - t < MinTtl THEN 0 ELSE MaxTtl

\* kvBackstopTtlSeconds, with 0 for undefined: not worth an entry.
Ttl(l, t) ==
  IF l.e = Never THEN MaxTtl
  ELSE IF l.e - t < MinTtl THEN 0
  ELSE IF l.e - t < MaxTtl THEN l.e - t ELSE MaxTtl

\* CloudflareEdgeCache.put and .purge. A put of something not worth an entry
\* purges.
Put(l) == [copy |-> Copy(l, now), ttl |-> Ttl(l, now)]
Purge == [copy |-> Copy(NoLink, now), ttl |-> 0]

\* KV executes an operation.
Apply(op) ==
  entry' = IF op.ttl = 0 THEN NoEntry
           ELSE [value |-> op.copy.value, asOf |-> op.copy.asOf, until |-> now + op.ttl]

\* An operation is on its way, and nobody waits for it.
Send(op) ==
  /\ Cardinality(transit) < MaxTransit
  /\ transit' = transit \cup {[op |-> op, by |-> now + Flight]}

\* findBySlug: GetCommand without ConsistentRead.
Readable == {Copy(link, now)} \cup replaced

\* A write to the item.
SetLink(l) ==
  /\ link' = l
  /\ replaced' = replaced \cup {Copy(link, now)}
  /\ writes < MaxWrites
  /\ writes' = writes + 1

-----------------------------------------------------------------------------
IdleVisit == [pc |-> "idle", by |-> 0, seen |-> Copy(NoLink, 0), outcome |-> "missing"]
IdleWriter == [pc |-> "idle", by |-> 0, op |-> [copy |-> Copy(NoLink, 0), ttl |-> 0]]

Init ==
  /\ now = 0
  /\ link = NoLink
  /\ replaced = {}
  /\ entry = NoEntry
  /\ transit = {}
  /\ visit = [v \in Visits |-> IdleVisit]
  /\ writer = [w \in Writers |-> IdleWriter]
  /\ answer = NoAnswer
  /\ writes = 0

-----------------------------------------------------------------------------
(***************************************************************************)
(* The edge worker.                                                        *)
(***************************************************************************)

Tell(outcome, copy) == answer' = [outcome |-> outcome, age |-> now - copy.asOf]

Hit(v) ==
  /\ visit[v].pc = "idle"
  /\ entry # NoEntry
  /\ Tell(Outcome(entry.value, now), entry)
  /\ UNCHANGED <<now, link, replaced, entry, transit, visit, writer, writes>>

\* No entry, or one readCachedLink could not read.
Miss(v) ==
  /\ visit[v].pc = "idle"
  /\ visit' = [visit EXCEPT ![v] = [IdleVisit EXCEPT !.pc = "asking", !.by = now + Flight]]
  /\ answer' = NoAnswer
  /\ UNCHANGED <<now, link, replaced, entry, transit, writer, writes>>

\* GET /internal/resolve/:slug
Resolve(v) ==
  /\ visit[v].pc = "asking"
  /\ \E c \in Readable :
       visit' = [visit EXCEPT ![v].pc = "resolved", ![v].seen = c,
                              ![v].outcome = Outcome(c.value, now)]
  /\ answer' = NoAnswer
  /\ UNCHANGED <<now, link, replaced, entry, transit, writer, writes>>

\* The worker answers; what redirects is written back in waitUntil().
Answer(v) ==
  /\ visit[v].pc = "resolved"
  /\ Tell(visit[v].outcome, visit[v].seen)
  /\ visit' = [visit EXCEPT ![v] = IdleVisit]
  /\ LET c == visit[v].seen
     IN IF Redirects(visit[v].outcome) /\ Ttl(c.value, now) # 0
          THEN Send([copy |-> c, ttl |-> Ttl(c.value, now)])
          ELSE UNCHANGED transit
  /\ UNCHANGED <<now, link, replaced, entry, writer, writes>>

\* The origin did not answer in time, or with something else.
Unavailable(v) ==
  /\ visit[v].pc \in {"asking", "resolved"}
  /\ visit' = [visit EXCEPT ![v] = IdleVisit]
  /\ answer' = NoAnswer
  /\ UNCHANGED <<now, link, replaced, entry, transit, writer, writes>>

-----------------------------------------------------------------------------
(***************************************************************************)
(* The API.                                                                *)
(***************************************************************************)

\* The request has changed the item and now waits for KV (syncEdgeCache, or
\* setStatus for an operator).
AwaitSync(w, op) ==
  writer' = [writer EXCEPT ![w] = [pc |-> "sync", by |-> now + Flight, op |-> op]]

\* create(), of a slug that has no item; then warm the edge.
Create(w) ==
  /\ writer[w].pc = "idle"
  /\ link = NoLink
  /\ \E l \in Link : /\ l.s = "active"
                     /\ ~Expired(l, now)
                     /\ SetLink(l)
                     /\ AwaitSync(w, Put(l))
  /\ answer' = NoAnswer
  /\ UNCHANGED <<now, entry, transit, visit>>

\* loadOwnedLink; a missing or deleted link ends the request.
Load(w) ==
  /\ writer[w].pc = "idle"
  /\ \E c \in Readable : c.value # NoLink /\ c.value.s # "deleted"
  /\ \E next \in {"patch", "delete"} : writer' = [writer EXCEPT ![w].pc = next]
  /\ answer' = NoAnswer
  /\ UNCHANGED <<now, link, replaced, entry, transit, visit, writes>>

\* update() has the condition attribute_exists(pk), and none on what Load saw.
NotFound(w) ==
  /\ writer[w].pc \in {"patch", "delete"}
  /\ link = NoLink
  /\ writer' = [writer EXCEPT ![w] = IdleWriter]
  /\ answer' = NoAnswer
  /\ UNCHANGED <<now, link, replaced, entry, transit, visit, writes>>

Patch(w) ==
  /\ writer[w].pc = "patch"
  /\ link # NoLink
  /\ \E l \in Link : /\ l.s \in {link.s, "active", "disabled"}
                     /\ l.e # link.e => ~Expired(l, now)
                     /\ SetLink(l)
                     /\ AwaitSync(w, Put(l))
  /\ answer' = NoAnswer
  /\ UNCHANGED <<now, entry, transit, visit>>

Delete(w) ==
  /\ writer[w].pc = "delete"
  /\ link # NoLink
  /\ SetLink([link EXCEPT !.s = "deleted"])
  /\ AwaitSync(w, Purge)
  /\ answer' = NoAnswer
  /\ UNCHANGED <<now, entry, transit, visit>>

\* POST /admin/links/:slug/disable and /enable: no load first.
SetStatus(w, status) ==
  /\ writer[w].pc = "idle"
  /\ link # NoLink
  /\ LET l == [link EXCEPT !.s = status]
     IN SetLink(l) /\ AwaitSync(w, Put(l))
  /\ answer' = NoAnswer
  /\ UNCHANGED <<now, entry, transit, visit>>

SyncSucceeds(w) ==
  /\ writer[w].pc = "sync"
  /\ Apply(writer[w].op)
  /\ writer' = [writer EXCEPT ![w] = IdleWriter]
  /\ answer' = NoAnswer
  /\ UNCHANGED <<now, link, replaced, transit, visit, writes>>

\* KV refuses. An owner is not told, an operator gets a 503.
SyncFails(w) ==
  /\ writer[w].pc = "sync"
  /\ writer' = [writer EXCEPT ![w] = IdleWriter]
  /\ answer' = NoAnswer
  /\ UNCHANGED <<now, link, replaced, entry, transit, visit, writes>>

\* The API gives up on the request; Cloudflare may still execute it.
SyncTimesOut(w) ==
  /\ writer[w].pc = "sync"
  /\ Send(writer[w].op)
  /\ writer' = [writer EXCEPT ![w] = IdleWriter]
  /\ answer' = NoAnswer
  /\ UNCHANGED <<now, link, replaced, entry, visit, writes>>

-----------------------------------------------------------------------------
(***************************************************************************)
(* The stores.                                                             *)
(***************************************************************************)

\* An operation in transit is executed, or fails; nobody is told which.
Land ==
  \E m \in transit :
    /\ Apply(m.op) \/ UNCHANGED entry
    /\ transit' = transit \ {m}
    /\ answer' = NoAnswer
    /\ UNCHANGED <<now, link, replaced, visit, writer, writes>>

\* DynamoDB removes an item whose ttl has passed.
Sweep ==
  /\ link # NoLink
  /\ Expired(link, now)
  /\ SetLink(NoLink)
  /\ answer' = NoAnswer
  /\ UNCHANGED <<now, entry, transit, visit, writer>>

\* KV evicts the entry when its time has come, and replicas catch up.
Tick ==
  /\ now < Horizon
  /\ \A m \in transit : now < m.by
  /\ \A v \in Visits : visit[v].pc # "idle" => now < visit[v].by
  /\ \A w \in Writers : writer[w].pc = "sync" => now < writer[w].by
  /\ now' = now + 1
  /\ entry' = IF entry # NoEntry /\ entry.until <= now' THEN NoEntry ELSE entry
  /\ replaced' = {c \in replaced : now' <= c.asOf + ReadLag}
  /\ answer' = NoAnswer
  /\ UNCHANGED <<link, transit, visit, writer, writes>>

-----------------------------------------------------------------------------
Serve(v) == Hit(v) \/ Miss(v) \/ Resolve(v) \/ Answer(v) \/ Unavailable(v)

Handle(w) ==
  \/ Create(w) \/ Load(w) \/ NotFound(w) \/ Patch(w) \/ Delete(w)
  \/ SetStatus(w, "disabled") \/ SetStatus(w, "active")
  \/ SyncSucceeds(w) \/ SyncFails(w) \/ SyncTimesOut(w)

Next ==
  \/ \E v \in Visits : Serve(v)
  \/ \E w \in Writers : Handle(w)
  \/ Land \/ Sweep \/ Tick

Spec == Init /\ [][Next]_vars

-----------------------------------------------------------------------------
(***************************************************************************)
(* Properties.                                                             *)
(***************************************************************************)

Copies == [value : Link \cup {NoLink}, asOf : Nat]
Ops == [copy : Copies, ttl : 0..MaxTtl]
Outcomes == Targets \cup {"missing", "disabled", "expired"}

VisitStates == [pc : {"idle", "asking", "resolved"}, by : Nat, seen : Copies, outcome : Outcomes]
WriterStates == [pc : {"idle", "patch", "delete", "sync"}, by : Nat, op : Ops]

\* Every variable has its type.
TypeOK ==
  /\ now \in Nat
  /\ link \in Link \cup {NoLink}
  /\ replaced \in SUBSET Copies
  /\ entry \in Entry \cup {NoEntry}
  /\ transit \in SUBSET [op : Ops, by : Nat]
  /\ visit \in [Visits -> VisitStates]
  /\ writer \in [Writers -> WriterStates]
  /\ answer \in [outcome : Outcomes, age : Nat] \cup {NoAnswer}
  /\ writes \in 0..MaxWrites

\* How long a value that is no longer the item's may still be served: the lag of
\* the read that produced it, two operations under way one after the other, and
\* the backstop TTL.
StaleFor == ReadLag + 2 * Flight + MaxTtl

\* Whatever a visitor is told, from KV or after a miss, was true of the item less
\* than StaleFor ago, although KV operations fail silently, arrive late and in
\* any order, and write back what was read before an edit.
BoundedStaleness == answer # NoAnswer => answer.age < StaleFor

\* An entry evicts itself when its link expires, give or take the time its
\* operation was under way.
EntryDiesWithLink ==
  entry # NoEntry /\ entry.value.e # Never => entry.until <= entry.value.e + 2 * Flight
=============================================================================
