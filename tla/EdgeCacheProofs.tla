-------------------------- MODULE EdgeCacheProofs --------------------------
(***************************************************************************)
(* Proofs about EdgeCache, for any number of visits, requests and writes,  *)
(* any lags and any lifetimes.                                             *)
(***************************************************************************)
EXTENDS EdgeCache, TLAPS

-----------------------------------------------------------------------------
(***************************************************************************)
(* The inductive invariant. BoundedStaleness and EntryDiesWithLink are     *)
(* about what a visitor is told and what KV holds; both descend from       *)
(* copies taken earlier, so the invariant follows a copy from the read or  *)
(* the write that took it, through the operation that carries it, to KV.   *)
(***************************************************************************)

\* An eventually consistent read returns what the item was at most ReadLag ago.
Lagging == \A c \in replaced : c.asOf <= now /\ now <= c.asOf + ReadLag

\* An operation must have ended by a time that is not far from when its copy was
\* the item, and its ttl, counted from that time, does not outlive the link.
Carries(op, by, slack, delay) ==
  /\ op.copy.asOf <= now
  /\ now <= by
  /\ by <= op.copy.asOf + slack
  /\ op.ttl # 0 =>
       /\ op.copy.value \in Link
       /\ op.copy.value.e # Never => by + op.ttl <= op.copy.value.e + delay

Carrying ==
  /\ \A m \in transit : Carries(m.op, m.by, ReadLag + 2 * Flight, 2 * Flight)
  /\ \A w \in Writers : writer[w].pc = "sync" => Carries(writer[w].op, writer[w].by, Flight, Flight)

Visiting ==
  \A v \in Visits :
    /\ visit[v].pc # "idle" => now <= visit[v].by /\ visit[v].by <= now + Flight
    /\ visit[v].pc = "resolved" =>
         /\ visit[v].seen.asOf <= now
         /\ visit[v].by <= visit[v].seen.asOf + ReadLag + Flight
         /\ Redirects(visit[v].outcome) => visit[v].seen.value \in Link

Evicting ==
  entry # NoEntry =>
    /\ entry.asOf <= now
    /\ now < entry.until
    /\ entry.until <= entry.asOf + StaleFor

Fresh == TypeOK /\ Lagging /\ Carrying /\ Visiting /\ Evicting /\ EntryDiesWithLink /\ BoundedStaleness

-----------------------------------------------------------------------------
(***************************************************************************)
(* Data.                                                                   *)
(***************************************************************************)

\* kvBackstopTtlSeconds stays within the backstop and within the link's life.
LEMMA TtlBounds ==
  ASSUME NEW l \in Link, NEW t \in Nat
  PROVE  /\ Ttl(l, t) \in 0..MaxTtl
         /\ Ttl(l, t) # 0 /\ l.e # Never => Ttl(l, t) <= l.e - t
<1>1. l.e # Never => l.e \in Nat
  BY CacheConstants DEF Link, Expiry
<1>2. QED  BY <1>1, CacheConstants DEF Ttl

\* A put or a purge sent now carries the item as it is now.
LEMMA PutCarries ==
  ASSUME NEW l \in Link, now \in Nat
  PROVE  /\ Put(l) \in Ops /\ Carries(Put(l), now + Flight, Flight, Flight)
         /\ Purge \in Ops /\ Carries(Purge, now + Flight, Flight, Flight)
<1>1. /\ Ttl(l, now) \in 0..MaxTtl
      /\ Ttl(l, now) # 0 /\ l.e # Never => Ttl(l, now) <= l.e - now
  BY TtlBounds
<1>2. l.e # Never => l.e \in Nat
  BY CacheConstants DEF Link, Expiry
<1>3. 0 \in 0..MaxTtl
  BY CacheConstants
<1>4. QED  BY <1>1, <1>2, <1>3, CacheConstants DEF Put, Purge, Copy, Ops, Copies, Carries

\* What a visitor is told about a copy of the item.
LEMMA OutcomeTypes ==
  ASSUME NEW l \in Link \cup {NoLink}, NEW t \in Nat
  PROVE  Outcome(l, t) \in Outcomes /\ (Redirects(Outcome(l, t)) => l \in Link)
  BY CacheConstants, NoLinkIsNone DEF Outcome, Outcomes, Redirects, Link

\* Any read returns an item of at most ReadLag ago.
LEMMA ReadableRecent ==
  ASSUME TypeOK, Lagging, NEW c \in Readable
  PROVE  c \in Copies /\ c.asOf <= now /\ now <= c.asOf + ReadLag
  BY CacheConstants DEF TypeOK, Lagging, Readable, Copy, Copies

\* Executing an operation in time leaves an entry that will be gone in time.
LEMMA ApplyEvicts ==
  ASSUME TypeOK, now' = now, NEW op \in Ops, NEW by \in Nat, Apply(op),
         Carries(op, by, ReadLag + 2 * Flight, 2 * Flight)
  PROVE  entry' \in Entry \cup {NoEntry} /\ Evicting' /\ EntryDiesWithLink'
<1>1. CASE op.ttl = 0
  BY <1>1 DEF Apply, Evicting, EntryDiesWithLink
<1>2. CASE op.ttl # 0
  <2>1. /\ op.ttl \in Nat /\ op.ttl >= 1 /\ op.ttl <= MaxTtl
        /\ op.copy.asOf \in Nat /\ op.copy.value \in Link /\ now \in Nat
    BY <1>2, CacheConstants DEF Ops, Copies, Carries, TypeOK
  <2>2. entry' = [value |-> op.copy.value, asOf |-> op.copy.asOf, until |-> now + op.ttl]
    BY <1>2 DEF Apply
  <2>3. entry' \in Entry
    BY <2>1, <2>2 DEF Entry
  <2>4. Evicting'
    BY <2>1, <2>2, CacheConstants DEF Carries, Evicting, StaleFor
  <2>5. op.copy.value.e # Never => op.copy.value.e \in Nat
    BY <2>1, CacheConstants DEF Link, Expiry
  <2>6. EntryDiesWithLink'
    BY <1>2, <2>1, <2>2, <2>5, CacheConstants DEF Carries, EntryDiesWithLink
  <2>7. QED  BY <2>3, <2>4, <2>6
<1>3. QED  BY <1>1, <1>2

-----------------------------------------------------------------------------
(***************************************************************************)
(* The steps of the edge worker.                                           *)
(***************************************************************************)

\* An idle request holds nothing.
LEMMA IdleTypes ==
  /\ IdleVisit \in VisitStates /\ IdleVisit.pc = "idle"
  /\ IdleWriter \in WriterStates /\ IdleWriter.pc = "idle"
BY CacheConstants DEF IdleVisit, IdleWriter, VisitStates, WriterStates, Copy, Copies, Ops, Outcomes

\* What a step leaves alone stays as it was.
LEMMA Frames ==
  ASSUME Fresh
  PROVE  /\ UNCHANGED <<now, replaced>> => Lagging'
         /\ UNCHANGED <<now, transit, writer>> => Carrying'
         /\ UNCHANGED <<now, visit>> => Visiting'
         /\ UNCHANGED <<now, entry>> => Evicting' /\ EntryDiesWithLink'
         /\ answer' = NoAnswer => BoundedStaleness'
<1>1. UNCHANGED <<now, replaced>> => Lagging'
  BY DEF Fresh, Lagging
<1>2. UNCHANGED <<now, transit, writer>> => Carrying'
  BY DEF Fresh, Carrying, Carries
<1>3. UNCHANGED <<now, visit>> => Visiting'
  BY DEF Fresh, Visiting, Redirects
<1>4. UNCHANGED <<now, entry>> => Evicting' /\ EntryDiesWithLink'
  BY DEF Fresh, Evicting, EntryDiesWithLink, StaleFor
<1>5. answer' = NoAnswer => BoundedStaleness'
  BY DEF BoundedStaleness
<1>6. QED  BY <1>1, <1>2, <1>3, <1>4, <1>5

LEMMA HitFresh ==
  ASSUME Fresh, NEW v \in Visits, Hit(v)
  PROVE  Fresh'
<1>1. /\ entry \in Entry /\ entry.value \in Link /\ now \in Nat
      /\ entry.asOf \in Nat /\ entry.until \in Nat
  BY DEF Fresh, TypeOK, Hit, Entry
<1>2. Outcome(entry.value, now) \in Outcomes
  BY <1>1, OutcomeTypes
<1>3. /\ answer' \in [outcome : Outcomes, age : Nat] /\ answer'.age = now - entry.asOf
  BY <1>1, <1>2 DEF Fresh, Evicting, Hit, Tell
<1>4. BoundedStaleness'
  <2>1. StaleFor' = StaleFor /\ StaleFor \in Nat
    BY CacheConstants DEF StaleFor
  <2>2. answer'.age < StaleFor
    BY <1>1, <1>3, <2>1 DEF Fresh, Evicting, Hit
  <2>3. QED  BY <2>1, <2>2 DEF BoundedStaleness
<1>5. TypeOK'
  BY <1>3 DEF Fresh, TypeOK, Hit
<1>6. Lagging' /\ Carrying' /\ Visiting' /\ Evicting' /\ EntryDiesWithLink'
  BY Frames DEF Hit
<1>7. QED  BY <1>4, <1>5, <1>6 DEF Fresh

LEMMA MissFresh ==
  ASSUME Fresh, NEW v \in Visits, Miss(v)
  PROVE  Fresh'
<1> DEFINE asking == [IdleVisit EXCEPT !.pc = "asking", !.by = now + Flight]
<1>1. TypeOK'
  <2>1. now + Flight \in Nat
    BY CacheConstants DEF Fresh, TypeOK
  <2>2. asking \in VisitStates
    BY <2>1, IdleTypes DEF VisitStates
  <2>3. /\ visit' = [visit EXCEPT ![v] = asking] /\ answer' = NoAnswer
        /\ UNCHANGED <<now, link, replaced, entry, transit, writer, writes>>
    BY DEF Miss
  <2> HIDE DEF asking
  <2>4. QED  BY <2>2, <2>3 DEF Fresh, TypeOK
<1>2. Visiting'
  <2>1. now \in Nat /\ visit'[v].pc = "asking" /\ visit'[v].by = now + Flight
    BY DEF Fresh, TypeOK, Miss, IdleVisit
  <2>2. \A o \in Visits : o # v => visit'[o] = visit[o]
    BY DEF Fresh, TypeOK, Miss
  <2>3. QED  BY <2>1, <2>2, CacheConstants DEF Fresh, Visiting, Miss
<1>3. Lagging' /\ Carrying' /\ Evicting' /\ EntryDiesWithLink' /\ BoundedStaleness'
  BY Frames DEF Miss
<1>4. QED  BY <1>1, <1>2, <1>3 DEF Fresh

LEMMA ResolveFresh ==
  ASSUME Fresh, NEW v \in Visits, Resolve(v)
  PROVE  Fresh'
<1>1. PICK c \in Readable :
        visit' = [visit EXCEPT ![v].pc = "resolved", ![v].seen = c,
                               ![v].outcome = Outcome(c.value, now)]
  BY DEF Resolve
<1>2. c \in Copies /\ c.asOf <= now /\ now <= c.asOf + ReadLag
  BY ReadableRecent DEF Fresh
<1>3. c.value \in Link \cup {NoLink} /\ c.asOf \in Nat /\ now \in Nat
  BY <1>2 DEF Copies, Fresh, TypeOK
<1>4. /\ Outcome(c.value, now) \in Outcomes
      /\ Redirects(Outcome(c.value, now)) => c.value \in Link
  BY <1>3, OutcomeTypes
<1>5. TypeOK'
  <2>1. /\ visit[v] \in VisitStates
        /\ visit' = [visit EXCEPT ![v] = [visit[v] EXCEPT !.pc = "resolved", !.seen = c,
                                         !.outcome = Outcome(c.value, now)]]
    BY <1>1 DEF Fresh, TypeOK
  <2>2. [visit[v] EXCEPT !.pc = "resolved", !.seen = c, !.outcome = Outcome(c.value, now)]
          \in VisitStates
    BY <1>2, <1>4, <2>1 DEF VisitStates
  <2>3. QED  BY <2>1, <2>2 DEF Fresh, TypeOK, Resolve
<1>6. Visiting'
  <2>1. /\ visit'[v].pc = "resolved" /\ visit'[v].seen = c
        /\ visit'[v].outcome = Outcome(c.value, now)
        /\ visit'[v].by = visit[v].by /\ visit[v].by \in Nat
        /\ visit[v].pc # "idle"
    BY <1>1 DEF Fresh, TypeOK, Resolve, VisitStates
  <2>2. \A o \in Visits : o # v => visit'[o] = visit[o]
    BY <1>1 DEF Fresh, TypeOK
  <2>3. now <= visit[v].by /\ visit[v].by <= now + Flight
    BY <2>1 DEF Fresh, Visiting
  <2>4. visit[v].by <= c.asOf + ReadLag + Flight
    BY <1>2, <1>3, <2>1, <2>3, CacheConstants
  <2>5. now' = now
    BY DEF Resolve
  <2>6. QED  BY <1>2, <1>4, <2>1, <2>2, <2>3, <2>4, <2>5 DEF Fresh, Visiting, Redirects
<1>7. Lagging' /\ Carrying' /\ Evicting' /\ EntryDiesWithLink' /\ BoundedStaleness'
  BY Frames DEF Resolve
<1>8. QED  BY <1>5, <1>6, <1>7 DEF Fresh

LEMMA AnswerFresh ==
  ASSUME Fresh, NEW v \in Visits, Answer(v)
  PROVE  Fresh'
<1> DEFINE c == visit[v].seen
           op == [copy |-> c, ttl |-> Ttl(c.value, now)]
<1>1. /\ now' = now /\ now \in Nat /\ c \in Copies /\ c.asOf \in Nat /\ visit[v].by \in Nat
      /\ now <= visit[v].by /\ c.asOf <= now /\ visit[v].by <= c.asOf + ReadLag + Flight
      /\ Redirects(visit[v].outcome) => c.value \in Link
  BY DEF Fresh, TypeOK, Visiting, Answer, Copies, VisitStates
<1>2. BoundedStaleness' /\ answer' \in [outcome : Outcomes, age : Nat]
  <2>1. answer' = [outcome |-> visit[v].outcome, age |-> now - c.asOf]
    BY DEF Answer, Tell
  <2>2. visit[v].outcome \in Outcomes
    BY DEF Fresh, TypeOK, VisitStates
  <2>3. now - c.asOf \in Nat /\ now - c.asOf < StaleFor
    BY <1>1, CacheConstants DEF StaleFor
  <2>4. QED  BY <2>1, <2>2, <2>3 DEF BoundedStaleness, StaleFor
<1>3. /\ transit' \in SUBSET [op : Ops, by : Nat]
      /\ \A m \in transit' : Carries(m.op, m.by, ReadLag + 2 * Flight, 2 * Flight)'
  <2>1. CASE UNCHANGED transit
    BY <1>1, <2>1 DEF Fresh, TypeOK, Carrying, Carries
  <2>2. CASE Redirects(visit[v].outcome) /\ Send(op)
    <3>1. c.value \in Link
      BY <1>1, <2>2
    <3>2. /\ Ttl(c.value, now) \in 0..MaxTtl
          /\ Ttl(c.value, now) # 0 /\ c.value.e # Never => Ttl(c.value, now) <= c.value.e - now
      BY <1>1, <3>1, TtlBounds
    <3>3. op \in Ops /\ now + Flight \in Nat
      BY <1>1, <3>2, CacheConstants DEF Ops
    <3>4. c.value.e # Never => c.value.e \in Nat
      BY <3>1, CacheConstants DEF Link, Expiry
    <3>5. Carries(op, now + Flight, ReadLag + 2 * Flight, 2 * Flight)
      BY <1>1, <3>1, <3>2, <3>4, CacheConstants DEF Carries
    <3>6. transit' = transit \cup {[op |-> op, by |-> now + Flight]}
      BY <2>2 DEF Send
    <3>7. QED  BY <1>1, <3>3, <3>5, <3>6 DEF Fresh, TypeOK, Carrying, Carries
  <2>3. QED  BY <2>1, <2>2 DEF Answer
<1>4. TypeOK'
  BY <1>2, <1>3, IdleTypes DEF Fresh, TypeOK, Answer
<1>5. Carrying'
  BY <1>3 DEF Fresh, Carrying, Carries, Answer
<1>6. Visiting'
  <2>1. visit'[v] = IdleVisit /\ \A o \in Visits : o # v => visit'[o] = visit[o]
    BY DEF Fresh, TypeOK, Answer
  <2>2. QED  BY <1>1, <2>1 DEF Fresh, Visiting, IdleVisit, Redirects
<1>7. Lagging' /\ Evicting' /\ EntryDiesWithLink'
  BY Frames DEF Answer
<1>8. QED  BY <1>2, <1>4, <1>5, <1>6, <1>7 DEF Fresh

LEMMA UnavailableFresh ==
  ASSUME Fresh, NEW v \in Visits, Unavailable(v)
  PROVE  Fresh'
<1>1. TypeOK'
  BY IdleTypes DEF Fresh, TypeOK, Unavailable
<1>2. Visiting'
  <2>1. visit'[v] = IdleVisit /\ \A o \in Visits : o # v => visit'[o] = visit[o]
    BY DEF Fresh, TypeOK, Unavailable
  <2>2. QED  BY <2>1 DEF Fresh, Visiting, IdleVisit, Redirects, Unavailable
<1>3. Lagging' /\ Carrying' /\ Evicting' /\ EntryDiesWithLink' /\ BoundedStaleness'
  BY Frames DEF Unavailable
<1>4. QED  BY <1>1, <1>2, <1>3 DEF Fresh

-----------------------------------------------------------------------------
(***************************************************************************)
(* The steps of the API and of the stores.                                 *)
(***************************************************************************)

\* A write to the item, which replicas do not have yet.
LEMMA SetLinkFresh ==
  ASSUME Fresh, now' = now, NEW l \in Link \cup {NoLink}, SetLink(l)
  PROVE  /\ Lagging'
         /\ link' \in Link \cup {NoLink} /\ replaced' \in SUBSET Copies
         /\ writes' \in 0..MaxWrites
<1>1. /\ now \in Nat /\ link \in Link \cup {NoLink} /\ replaced \in SUBSET Copies
      /\ writes \in 0..MaxWrites
  BY DEF Fresh, TypeOK
<1>2. Copy(link, now) \in Copies /\ Copy(link, now).asOf = now
  BY <1>1 DEF Copy, Copies
<1>3. Lagging'
  BY <1>1, <1>2, CacheConstants DEF Fresh, Lagging, SetLink
<1>4. writes' \in 0..MaxWrites
  BY <1>1, CacheConstants DEF SetLink
<1>5. QED  BY <1>1, <1>2, <1>3, <1>4 DEF SetLink

\* The request then waits for KV.
LEMMA AwaitSyncFresh ==
  ASSUME Fresh, now' = now, transit' = transit,
         NEW w \in Writers, NEW op \in Ops, AwaitSync(w, op),
         Carries(op, now + Flight, Flight, Flight)
  PROVE  Carrying' /\ writer' \in [Writers -> WriterStates]
<1> DEFINE r == [pc |-> "sync", by |-> now + Flight, op |-> op]
<1>1. now \in Nat /\ now + Flight \in Nat /\ writer \in [Writers -> WriterStates]
  BY CacheConstants DEF Fresh, TypeOK
<1>2. r \in WriterStates
  BY <1>1 DEF WriterStates
<1>3. writer' = [writer EXCEPT ![w] = r]
  BY DEF AwaitSync
<1>4. writer' \in [Writers -> WriterStates]
  BY <1>1, <1>2, <1>3
<1>5. /\ writer'[w].op = op /\ writer'[w].by = now + Flight
      /\ \A o \in Writers : o # w => writer'[o] = writer[o]
  BY <1>1, <1>3
<1>6. Carrying'
  BY <1>5 DEF Fresh, Carrying, Carries
<1>7. QED  BY <1>4, <1>6

\* Create, PATCH, DELETE and setStatus: the item first, then KV.
LEMMA ChangeFresh ==
  ASSUME Fresh, NEW w \in Writers, NEW l \in Link,
         NEW op \in {Put(l), Purge},
         SetLink(l), AwaitSync(w, op), answer' = NoAnswer,
         UNCHANGED <<now, entry, transit, visit>>
  PROVE  Fresh'
<1>1. now \in Nat
  BY DEF Fresh, TypeOK
<1>2. op \in Ops /\ Carries(op, now + Flight, Flight, Flight)
  BY <1>1, PutCarries
<1>3. /\ Lagging'
      /\ link' \in Link \cup {NoLink} /\ replaced' \in SUBSET Copies
      /\ writes' \in 0..MaxWrites
  BY SetLinkFresh
<1>4. Carrying' /\ writer' \in [Writers -> WriterStates]
  BY <1>2, AwaitSyncFresh
<1>5. TypeOK'
  BY <1>3, <1>4 DEF Fresh, TypeOK
<1>6. QED  BY <1>3, <1>4, <1>5, Frames DEF Fresh

\* A request that ends, or has only read so far, holds no operation any more.
LEMMA NotSyncingFresh ==
  ASSUME Fresh, NEW w \in Writers, NEW r \in WriterStates, r.pc # "sync",
         writer' = [writer EXCEPT ![w] = r], now' = now, transit' = transit
  PROVE  Carrying' /\ writer' \in [Writers -> WriterStates]
<1>1. writer \in [Writers -> WriterStates]
  BY DEF Fresh, TypeOK
<1>2. writer'[w] = r /\ \A o \in Writers : o # w => writer'[o] = writer[o]
  BY <1>1
<1>3. Carrying'
  BY <1>2 DEF Fresh, Carrying, Carries
<1>4. QED  BY <1>1, <1>3

LEMMA LoadFresh ==
  ASSUME Fresh, NEW w \in Writers, Load(w)
  PROVE  Fresh'
<1>1. PICK next \in {"patch", "delete"} : writer' = [writer EXCEPT ![w].pc = next]
  BY DEF Load
<1>2. writer[w] \in WriterStates
  BY DEF Fresh, TypeOK
<1>3. /\ [writer[w] EXCEPT !.pc = next] \in WriterStates
      /\ [writer[w] EXCEPT !.pc = next].pc # "sync"
  BY <1>2 DEF WriterStates
<1>4. writer' = [writer EXCEPT ![w] = [writer[w] EXCEPT !.pc = next]]
  BY <1>1
<1>5. Carrying' /\ writer' \in [Writers -> WriterStates]
  BY <1>3, <1>4, NotSyncingFresh DEF Load
<1>6. TypeOK'
  BY <1>5 DEF Fresh, TypeOK, Load
<1>7. QED  BY <1>5, <1>6, Frames DEF Fresh, Load

\* A request that ends without KV having changed.
LEMMA EndFresh ==
  ASSUME Fresh, NEW w \in Writers, NotFound(w) \/ SyncFails(w)
  PROVE  Fresh'
<1>1. Carrying' /\ writer' \in [Writers -> WriterStates]
  BY IdleTypes, NotSyncingFresh DEF NotFound, SyncFails
<1>2. TypeOK'
  BY <1>1 DEF Fresh, TypeOK, NotFound, SyncFails
<1>3. QED  BY <1>1, <1>2, Frames DEF Fresh, NotFound, SyncFails

\* What a request waits for is no older than what may be in transit.
LEMMA SyncingCarries ==
  ASSUME Fresh, NEW w \in Writers, writer[w].pc = "sync"
  PROVE  /\ writer[w].op \in Ops /\ writer[w].by \in Nat
         /\ Carries(writer[w].op, writer[w].by, ReadLag + 2 * Flight, 2 * Flight)
         /\ Carries(writer[w].op, now + Flight, ReadLag + 2 * Flight, 2 * Flight)
<1>1. /\ writer[w].op \in Ops /\ writer[w].by \in Nat /\ now \in Nat
      /\ writer[w].op.copy.asOf \in Nat /\ writer[w].op.ttl \in Nat
  BY CacheConstants DEF Fresh, TypeOK, WriterStates, Ops, Copies
<1>2. Carries(writer[w].op, writer[w].by, Flight, Flight)
  BY DEF Fresh, Carrying
<1>3. writer[w].op.copy.value \in Link =>
        writer[w].op.copy.value.e = Never \/ writer[w].op.copy.value.e \in Nat
  BY CacheConstants DEF Link, Expiry
<1>4. QED  BY <1>1, <1>2, <1>3, CacheConstants DEF Carries

LEMMA SyncSucceedsFresh ==
  ASSUME Fresh, NEW w \in Writers, SyncSucceeds(w)
  PROVE  Fresh'
<1>1. Carrying' /\ writer' \in [Writers -> WriterStates]
  BY IdleTypes, NotSyncingFresh DEF SyncSucceeds
<1>2. entry' \in Entry \cup {NoEntry} /\ Evicting' /\ EntryDiesWithLink'
  BY SyncingCarries, ApplyEvicts DEF SyncSucceeds, Fresh
<1>4. TypeOK'
  BY <1>1, <1>2 DEF Fresh, TypeOK, SyncSucceeds
<1>5. QED  BY <1>1, <1>2, <1>4, Frames DEF Fresh, SyncSucceeds

LEMMA SyncTimesOutFresh ==
  ASSUME Fresh, NEW w \in Writers, SyncTimesOut(w)
  PROVE  Fresh'
<1> DEFINE m == [op |-> writer[w].op, by |-> now + Flight]
<1>1. /\ writer[w].op \in Ops /\ now + Flight \in Nat
      /\ Carries(writer[w].op, now + Flight, ReadLag + 2 * Flight, 2 * Flight)
  BY SyncingCarries, CacheConstants DEF SyncTimesOut, Fresh, TypeOK
<1>2. transit' = transit \cup {m} /\ now' = now
  BY DEF SyncTimesOut, Send
<1>3. /\ writer' = [writer EXCEPT ![w] = IdleWriter]
      /\ writer \in [Writers -> WriterStates] /\ transit \in SUBSET [op : Ops, by : Nat]
  BY DEF SyncTimesOut, Fresh, TypeOK
<1>4. /\ writer' \in [Writers -> WriterStates] /\ writer'[w].pc # "sync"
      /\ \A o \in Writers : o # w => writer'[o] = writer[o]
      /\ transit' \in SUBSET [op : Ops, by : Nat]
  BY <1>1, <1>2, <1>3, IdleTypes
<1>5. Carrying'
  BY <1>1, <1>2, <1>4 DEF Fresh, Carrying, Carries
<1>6. TypeOK'
  BY <1>4 DEF Fresh, TypeOK, SyncTimesOut
<1>7. QED  BY <1>5, <1>6, Frames DEF Fresh, SyncTimesOut

LEMMA LandFresh ==
  ASSUME Fresh, Land
  PROVE  Fresh'
<1>1. PICK m \in transit :
        /\ Apply(m.op) \/ UNCHANGED entry
        /\ transit' = transit \ {m}
        /\ answer' = NoAnswer
        /\ UNCHANGED <<now, link, replaced, visit, writer, writes>>
  BY DEF Land
<1>2. /\ m.op \in Ops /\ m.by \in Nat
      /\ Carries(m.op, m.by, ReadLag + 2 * Flight, 2 * Flight)
  BY DEF Fresh, TypeOK, Carrying
<1>3. entry' \in Entry \cup {NoEntry} /\ Evicting' /\ EntryDiesWithLink'
  <2>1. CASE Apply(m.op)
    BY <1>1, <1>2, <2>1, ApplyEvicts DEF Fresh
  <2>2. CASE UNCHANGED entry
    BY <1>1, <2>2, Frames DEF Fresh, TypeOK
  <2>3. QED  BY <1>1, <2>1, <2>2
<1>4. Carrying'
  BY <1>1 DEF Fresh, Carrying, Carries
<1>5. TypeOK'
  BY <1>1, <1>3 DEF Fresh, TypeOK
<1>6. QED  BY <1>1, <1>3, <1>4, <1>5, Frames DEF Fresh

LEMMA SweepFresh ==
  ASSUME Fresh, Sweep
  PROVE  Fresh'
<1>1. /\ Lagging'
      /\ link' \in Link \cup {NoLink} /\ replaced' \in SUBSET Copies
      /\ writes' \in 0..MaxWrites
  BY SetLinkFresh DEF Sweep
<1>2. TypeOK'
  BY <1>1 DEF Fresh, TypeOK, Sweep
<1>3. QED  BY <1>1, <1>2, Frames DEF Fresh, Sweep

LEMMA TickFresh ==
  ASSUME Fresh, Tick
  PROVE  Fresh'
<1>1. now' = now + 1 /\ now \in Nat /\ now' \in Nat
  BY DEF Tick, Fresh, TypeOK
<1>2. entry' \in Entry \cup {NoEntry} /\ Evicting' /\ EntryDiesWithLink'
  <2>1. CASE entry # NoEntry /\ entry.until > now'
    <3>1. entry' = entry /\ entry.asOf \in Nat /\ entry.until \in Nat /\ entry \in Entry
      BY <1>1, <2>1 DEF Tick, Fresh, TypeOK, Entry
    <3>2. QED  BY <1>1, <2>1, <3>1 DEF Fresh, Evicting, EntryDiesWithLink, StaleFor
  <2>2. CASE ~(entry # NoEntry /\ entry.until > now')
    <3>1. entry # NoEntry => entry.until \in Nat
      BY DEF Fresh, TypeOK, Entry
    <3>2. entry' = NoEntry
      BY <1>1, <2>2, <3>1 DEF Tick
    <3>3. QED  BY <3>2 DEF Evicting, EntryDiesWithLink
  <2>3. QED  BY <2>1, <2>2
<1>3. Lagging' /\ replaced' \in SUBSET Copies
  <2>1. replaced' = {c \in replaced : now' <= c.asOf + ReadLag}
    BY DEF Tick
  <2>2. \A c \in replaced : c.asOf \in Nat /\ c.asOf <= now
    BY DEF Fresh, TypeOK, Lagging, Copies
  <2>3. QED  BY <1>1, <2>1, <2>2 DEF Fresh, TypeOK, Lagging
<1>4. Carrying'
  <2>1. \A m \in transit : /\ m.by \in Nat /\ now < m.by /\ m.op.copy.asOf \in Nat
                           /\ Carries(m.op, m.by, ReadLag + 2 * Flight, 2 * Flight)
    BY DEF Tick, Fresh, TypeOK, Carrying, Ops, Copies
  <2>2. ASSUME NEW w \in Writers, writer[w].pc = "sync"
        PROVE  /\ writer[w].by \in Nat /\ now < writer[w].by
               /\ writer[w].op.copy.asOf \in Nat
               /\ Carries(writer[w].op, writer[w].by, Flight, Flight)
    BY <2>2 DEF Tick, Fresh, TypeOK, WriterStates, Carrying, Ops, Copies
  <2>3. transit' = transit /\ writer' = writer
    BY DEF Tick
  <2>4. QED  BY <1>1, <2>1, <2>2, <2>3 DEF Carrying, Carries
<1>5. Visiting'
  <2>1. \A v \in Visits : visit[v].by \in Nat /\ visit[v].seen.asOf \in Nat
    BY DEF Fresh, TypeOK, VisitStates, Copies
  <2>2. visit' = visit /\ \A v \in Visits : visit[v].pc # "idle" => now < visit[v].by
    BY DEF Tick
  <2>3. QED  BY <1>1, <2>1, <2>2, CacheConstants DEF Fresh, Visiting, Redirects
<1>6. TypeOK'
  BY <1>1, <1>2, <1>3 DEF Fresh, TypeOK, Tick
<1>7. BoundedStaleness'
  BY Frames DEF Tick
<1>8. QED  BY <1>2, <1>3, <1>4, <1>5, <1>6, <1>7 DEF Fresh

-----------------------------------------------------------------------------
(***************************************************************************)
(* The theorems.                                                           *)
(***************************************************************************)

LEMMA InitFresh == Init => Fresh
<1> SUFFICES ASSUME Init
             PROVE  Fresh
  OBVIOUS
<1>1. TypeOK
  <2>1. visit \in [Visits -> VisitStates] /\ writer \in [Writers -> WriterStates]
    BY IdleTypes DEF Init
  <2>2. 0 \in 0..MaxWrites
    BY CacheConstants
  <2>3. QED  BY <2>1, <2>2 DEF Init, TypeOK
<1>2. \A w \in Writers : writer[w].pc # "sync"
  BY IdleTypes DEF Init
<1>3. \A v \in Visits : visit[v].pc = "idle"
  BY IdleTypes DEF Init
<1>4. Lagging /\ Carrying /\ Visiting /\ Evicting /\ EntryDiesWithLink /\ BoundedStaleness
  BY <1>2, <1>3
     DEF Init, Lagging, Carrying, Visiting, Evicting, EntryDiesWithLink, BoundedStaleness
<1>5. QED  BY <1>1, <1>4 DEF Fresh

LEMMA HandleFresh ==
  ASSUME Fresh, NEW w \in Writers, Handle(w)
  PROVE  Fresh'
<1>1. CASE Create(w)
  BY <1>1, ChangeFresh DEF Create
<1>2. CASE Load(w)
  BY <1>2, LoadFresh
<1>3. CASE NotFound(w) \/ SyncFails(w)
  BY <1>3, EndFresh
<1>4. CASE Patch(w)
  BY <1>4, ChangeFresh DEF Patch
<1>5. CASE Delete(w)
  <2>1. link \in Link
    BY <1>5 DEF Delete, Fresh, TypeOK
  <2>2. [link EXCEPT !.s = "deleted"] \in Link
    BY <2>1 DEF Link
  <2>3. QED  BY <1>5, <2>2, ChangeFresh DEF Delete
<1>6. ASSUME NEW status \in {"disabled", "active"}, SetStatus(w, status)
      PROVE  Fresh'
  <2>1. link \in Link
    BY <1>6 DEF SetStatus, Fresh, TypeOK
  <2>2. [link EXCEPT !.s = status] \in Link
    BY <2>1 DEF Link
  <2>3. QED  BY <1>6, <2>2, ChangeFresh DEF SetStatus
<1>7. CASE SyncSucceeds(w)
  BY <1>7, SyncSucceedsFresh
<1>8. CASE SyncTimesOut(w)
  BY <1>8, SyncTimesOutFresh
<1>9. QED  BY <1>1, <1>2, <1>3, <1>4, <1>5, <1>6, <1>7, <1>8 DEF Handle

LEMMA FreshInvariant == Fresh /\ [Next]_vars => Fresh'
<1> SUFFICES ASSUME Fresh, [Next]_vars
             PROVE  Fresh'
  OBVIOUS
<1>1. ASSUME NEW v \in Visits, Serve(v)
      PROVE  Fresh'
  BY <1>1, HitFresh, MissFresh, ResolveFresh, AnswerFresh, UnavailableFresh DEF Serve
<1>2. ASSUME NEW w \in Writers, Handle(w)
      PROVE  Fresh'
  BY <1>2, HandleFresh
<1>3. CASE Land
  BY <1>3, LandFresh
<1>4. CASE Sweep
  BY <1>4, SweepFresh
<1>5. CASE Tick
  BY <1>5, TickFresh
<1>6. CASE UNCHANGED vars
  <2>1. TypeOK'
    BY <1>6 DEF vars, Fresh, TypeOK
  <2>2. BoundedStaleness'
    BY <1>6 DEF vars, Fresh, BoundedStaleness, StaleFor
  <2>3. QED  BY <1>6, <2>1, <2>2, Frames DEF vars, Fresh
<1>7. QED  BY <1>1, <1>2, <1>3, <1>4, <1>5, <1>6 DEF Next

\* Every variable of the cache always has its type: no ttl is ever longer than
\* KV_MAX_TTL_SECONDS, no visitor is told anything from the future.
THEOREM CacheTypeCorrect == Spec => []TypeOK
<1>1. Fresh => TypeOK
  BY DEF Fresh
<1>2. QED  BY <1>1, InitFresh, FreshInvariant, PTL DEF Spec

\* Whatever the worker tells a visitor was true of the stored link less than
\* StaleFor ago, with any number of visits, edits, failed and late KV operations.
THEOREM StalenessIsBounded == Spec => []BoundedStaleness
<1>1. Fresh => BoundedStaleness
  BY DEF Fresh
<1>2. QED  BY <1>1, InitFresh, FreshInvariant, PTL DEF Spec

\* The KV entry of a link that expires is gone soon after it has expired.
THEOREM EntriesDieWithTheirLinks == Spec => []EntryDiesWithLink
<1>1. Fresh => EntryDiesWithLink
  BY DEF Fresh
<1>2. QED  BY <1>1, InitFresh, FreshInvariant, PTL DEF Spec
=============================================================================
