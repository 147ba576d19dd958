----------------------------- MODULE Dashboard -----------------------------
(***************************************************************************)
(* One panel of the dashboard and the API that answers it: usePoll         *)
(* (web/src/lib/use-poll.ts) asks again on a timer, and GET /api/analytics *)
(* (routes/analytics.ts) answers from a cache whose keys carry a quantized *)
(* clock (repositories/analytics-cache.ts), which other viewers' requests  *)
(* fill too. Answers take up to Flight, fail, and overtake one another.    *)
(* A question is over a preset range: where it begins depends on the clock *)
(* and on the time zone of whoever asks.                                   *)
(***************************************************************************)
EXTENDS TimeZones

CONSTANTS
  Subjects,    \* what a panel is about: a link, or the totals of an owner
  Totals,      \* those of them that are totals
  Zones, Home, \* the names of time zones, and this viewer's
  Intl,        \* what a name stands for
  Questions,   \* of what, over which preset, its days or 1 for "24h", and where
  Ttl,         \* ANALYTICS_CACHE_TTL_SECONDS
  Poll,        \* POLL_INTERVAL_MS
  Flight,      \* how long a request takes at most
  NoAnswer, Never,
  MaxChanges, Horizon   \* bounds: what viewers do, and the clock

Asked == {q \in Questions : q.zone = Home}

ASSUME DashboardConstants ==
  /\ Totals \subseteq Subjects /\ Home \in Zones
  /\ Questions \subseteq [of : Subjects, days : Nat, zone : Zones]
  /\ Intl \in [Zones -> [before : Int, after : Int, change : Int]]
  /\ Ttl \in Int /\ Poll \in Nat \ {0} /\ Flight \in Nat
  /\ NoAnswer \notin [of : Subjects, from : Int, asOf : Int, zone : Zones]
  /\ Never \notin Int
  /\ MaxChanges \in Nat /\ Horizon \in Nat

VARIABLES
  now,
  cache,       \* entries: [key, answer, until]
  flight,      \* requests: whose (the generation, 0 for other viewers), what, and how far
  question,    \* what the panel asks
  generation,
  data, error, loading,
  visible,     \* document.visibilityState
  timer,       \* when the interval fires next
  since,       \* history: when the panel was last shown or given its question
  changes      \* history: what viewers did, counted

vars == <<now, cache, flight, question, generation, data, error, loading, visible, timer, since, changes>>
shown == <<data, error, loading>>
panel == <<question, generation, visible, timer, since, changes>>

-----------------------------------------------------------------------------
Quantum == IF Ttl > 1 THEN Ttl ELSE 1
quantizeClock(t) == (t \div Quantum) * Quantum

\* resolveAnalyticsWindow: a preset that ends at the tick.
From(q, tick) == presetFrom(q.days, tick, Intl[q.zone])

\* analyticsCacheKey, and analyticsTotalsCacheKey, which has no time zone.
Key(q, tick) ==
  IF q.of \in Totals
    THEN [of |-> q.of, from |-> From(q, tick), to |-> tick]
    ELSE [of |-> q.of, from |-> From(q, tick), to |-> tick, zone |-> q.zone]

\* The body: what it is about, and the window it describes.
Body(q, tick) ==
  [of |-> q.of, from |-> From(q, tick), asOf |-> tick, zone |-> q.zone]

Request(q, g) ==
  [gen |-> g, q |-> q, sent |-> now, tick |-> 0, stage |-> "sent", answer |-> NoAnswer]

Send(q, g) == flight' = flight \cup {Request(q, g)}

Becomes(r, stage, tick, answer) ==
  flight' = (flight \ {r}) \cup {[r EXCEPT !.stage = stage, !.tick = tick, !.answer = answer]}

Viewer == changes < MaxChanges /\ changes' = changes + 1

Init ==
  /\ now = 0
  /\ cache = {}
  /\ question \in Asked
  /\ flight = {Request(question, 1)}
  /\ generation = 1
  /\ data = NoAnswer /\ error = FALSE /\ loading = TRUE
  /\ visible \in BOOLEAN
  /\ timer = IF visible THEN Poll ELSE Never
  /\ since = 0
  /\ changes = 0

-----------------------------------------------------------------------------
(***************************************************************************)
(* The panel.                                                              *)
(***************************************************************************)

\* Mutant: the generation is not advanced.
OpenSameGeneration(q) ==
  /\ Viewer
  /\ question' = q
  /\ data' = NoAnswer /\ loading' = TRUE
  /\ Send(q, generation)
  /\ timer' = IF visible THEN now + Poll ELSE Never
  /\ since' = now
  /\ UNCHANGED <<now, cache, error, visible, generation>>

\* The effect runs again: another range or link, or a link was created or deleted and
\* revision advanced. The error stays.
Open(q) ==
  /\ Viewer
  /\ question' = q
  /\ generation' = generation + 1
  /\ data' = NoAnswer /\ loading' = TRUE
  /\ Send(q, generation')
  /\ timer' = IF visible THEN now + Poll ELSE Never
  /\ since' = now
  /\ UNCHANGED <<now, cache, error, visible>>

Fire ==
  /\ timer = now
  /\ timer' = now + Poll
  /\ Send(question, generation)
  /\ UNCHANGED <<now, cache, question, generation, shown, visible, since, changes>>

Hide ==
  /\ visible /\ Viewer
  /\ visible' = FALSE /\ timer' = Never
  /\ UNCHANGED <<now, cache, flight, question, generation, shown, since>>

\* Mutant: the interval is not started again.
ShowOnce ==
  /\ ~visible /\ Viewer
  /\ visible' = TRUE
  /\ Send(question, generation)
  /\ since' = now
  /\ UNCHANGED <<now, cache, question, generation, shown, timer>>

\* Catch up at once, and go on.
Show ==
  /\ ~visible /\ Viewer
  /\ visible' = TRUE /\ timer' = now + Poll
  /\ Send(question, generation)
  /\ since' = now
  /\ UNCHANGED <<now, cache, question, generation, shown>>

\* PanelError's button.
Retry ==
  /\ error /\ Viewer
  /\ Send(question, generation)
  /\ UNCHANGED <<now, cache, question, generation, shown, visible, timer, since>>

\* Somebody else's panel asks.
OthersAsk(q) ==
  /\ Viewer
  /\ Send(q, 0)
  /\ UNCHANGED <<now, cache, shown, question, generation, visible, timer, since>>

-----------------------------------------------------------------------------
(***************************************************************************)
(* The handler: cache, store, cache. A tick is read when the request's     *)
(* link, or its owner, has been found.                                     *)
(***************************************************************************)

\* The cache has it, or does not, or cannot be read.
ReadCache(r) ==
  /\ r.stage = "sent"
  /\ LET tick == quantizeClock(now) IN
     \/ \E e \in cache : e.key = Key(r.q, tick) /\ Becomes(r, "answered", 0, e.answer)
     \/ Becomes(r, "missed", tick, NoAnswer)
  /\ UNCHANGED <<now, cache, shown, panel>>

\* store.fetch or store.totalsBySlug, over the window that ends at the tick.
Query(r) ==
  /\ r.stage = "missed"
  /\ Becomes(r, "queried", r.tick, Body(r.q, r.tick))
  /\ UNCHANGED <<now, cache, shown, panel>>

\* SET key payload EX ttl, unless there is no ttl; it may fail.
WriteCache(r) ==
  /\ r.stage = "queried"
  /\ LET key == Key(r.q, r.tick) IN
     cache' \in {cache} \cup
       IF Ttl <= 0 THEN {}
       ELSE {{e \in cache : e.key # key} \cup
               {[key |-> key, answer |-> r.answer, until |-> now + Ttl]}}
  /\ Becomes(r, "answered", 0, r.answer)
  /\ UNCHANGED <<now, shown, panel>>

-----------------------------------------------------------------------------
\* run's await returns. What an earlier generation asked is ignored; within a
\* generation, the last to arrive wins.
Land(r) ==
  /\ r.stage = "answered"
  /\ flight' = flight \ {r}
  /\ IF r.gen = generation
       THEN data' = r.answer /\ error' = FALSE /\ loading' = FALSE
       ELSE UNCHANGED shown
  /\ UNCHANGED <<now, cache, panel>>

\* Mutant: only an answer ends loading.
FailKeepsLoading(r) ==
  /\ flight' = flight \ {r}
  /\ error' = (error \/ r.gen = generation)
  /\ UNCHANGED <<now, cache, data, loading, panel>>

\* It throws: no such link, no ClickHouse, no DynamoDB, or no network, even after the
\* handler is done. The answer before it stays.
Fail(r) ==
  /\ flight' = flight \ {r}
  /\ IF r.gen = generation
       THEN error' = TRUE /\ loading' = FALSE
       ELSE UNCHANGED <<error, loading>>
  /\ UNCHANGED <<now, cache, data, panel>>

\* Timers are not late, requests take no longer than Flight, and Redis expires keys.
Tick ==
  /\ now < Horizon /\ timer # now
  /\ \A r \in flight : now < r.sent + Flight
  /\ now' = now + 1
  /\ cache' = {e \in cache : e.until > now'}
  /\ UNCHANGED <<flight, shown, panel>>

Serve(r) == Fail(r) \/ Land(r) \/ ReadCache(r) \/ Query(r) \/ WriteCache(r)

Next ==
  \/ \E q \in Asked : Open(q)
  \/ Fire \/ Hide \/ Show \/ Retry
  \/ \E q \in Questions : OthersAsk(q)
  \/ \E r \in flight : Serve(r)
  \/ Tick

\* What the panel asked is served, or fails, in the end.
Spec ==
  /\ Init /\ [][Next]_vars
  /\ WF_vars(\E r \in flight : r.gen = generation /\ Serve(r))

-----------------------------------------------------------------------------
(***************************************************************************)
(* Properties.                                                             *)
(***************************************************************************)
Answers == [of : Subjects, from : Int, asOf : Int, zone : Zones]
Requests ==
  [gen : Nat, q : Questions, sent : Nat, tick : Int,
   stage : {"sent", "missed", "queried", "answered"}, answer : Answers \cup {NoAnswer}]

\* Every variable has its type, and an answer that is needed is there.
TypeOK ==
  /\ now \in Nat
  /\ \A e \in cache : e.answer \in Answers /\ e.until \in Int
  /\ flight \subseteq Requests
  /\ \A r \in flight : r.stage \in {"queried", "answered"} => r.answer \in Answers
  /\ question \in Questions
  /\ generation \in Nat \ {0}
  /\ data \in Answers \cup {NoAnswer}
  /\ error \in BOOLEAN /\ loading \in BOOLEAN /\ visible \in BOOLEAN
  /\ timer \in Int \cup {Never}
  /\ since \in Nat /\ changes \in 0..MaxChanges

\* The answer is about what is asked, over the window that the question's range and zone
\* make of the answer's clock; a link's, whose buckets are the viewer's, in that zone.
Fits(a, q) ==
  /\ a.of = q.of /\ a.from = From(q, a.asOf)
  /\ q.of \notin Totals => a.zone = q.zone

\* "a range change while a request is in flight would otherwise let the stale answer
\* land last and win": the panel shows an answer to the question it asks, through a cache
\* that all viewers share, whose totals are keyed by no time zone.
OwnAnswer == data # NoAnswer => Fits(data, question)

\* "returning to the tab shows current data": however answers overtake one another,
\* what a visible panel shows without an error, once its first request must be over,
\* is no older than two requests, the interval and a tick.
BoundedAge ==
  visible /\ now > since + Flight /\ data # NoAnswer /\ ~error
    => now - data.asOf < 2 * Flight + Poll + Quantum

\* The skeleton does not stay for ever, and an answer or an error takes its place.
LoadingEnds == loading ~> ~loading /\ (data # NoAnswer \/ error)
=============================================================================
