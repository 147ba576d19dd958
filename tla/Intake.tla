------------------------------- MODULE Intake -------------------------------
(***************************************************************************)
(* From a request to a row: a target is taken for a link (routes/links.ts),*)
(* a visitor is sent to it and the click told to the origin (apps/edge/src *)
(* link.ts, click.ts), and one of the origin's processes makes a row of it *)
(* (routes/ingest.ts, services/visitor-hash.ts). Events take as long as    *)
(* they like and may be lost; processes start again, with the environment  *)
(* they were given.                                                        *)
(***************************************************************************)
EXTENDS Targets, Slugs, UserAgents

CONSTANTS
  Links,                     \* slugs, sequences of characters
  Targeted,                  \* the raw targets that are posted and patched
  Visitors,                  \* [ip, userAgent, referrer, length]; None, <<>> and 0 are absent
  Processes,
  Envs,                      \* [production, salt, token]: a value, Blank or None
  EdgeTokens,                \* INTERNAL_API_TOKEN of the Worker
  Bounds,                    \* clickEventSchema's, of a slug and of each field
  MaxDay, MaxClicks, MaxStarts   \* bounds

\* What a request says of its visitor. A visitor's userAgent and referrer are what is left
\* of them within their bounds.
Fields == {"country", "city", "timezone", "colo", "userAgent", "referrer", "ip"}

ASSUME IntakeConstants ==
  /\ \A raw \in Targeted : raw.length \in Nat /\ raw.blank \in 0..raw.length
  /\ \A visitor \in Visitors : visitor.length \in [Fields -> Nat]
  /\ Bounds \in [{"slug"} \cup Fields -> Nat]
  /\ {MaxUrlLength, MaxDay, MaxClicks, MaxStarts} \subseteq Nat

None == "none"
Blank == "blank"
NoTarget == [length |-> 0]

VARIABLES
  env, edgeToken,            \* what each side is deployed with
  seed, memo,                \* of each process: its seed, and the day's salt it keeps
  starts,                    \* how many processes have started
  target,                    \* of each link, or NoTarget
  day,                       \* UTC's
  clicks,                    \* every redirect counted: the event, and who it was
  sent,                      \* events on their way
  rows

vars == <<env, edgeToken, seed, memo, starts, target, day, clicks, sent, rows>>

-----------------------------------------------------------------------------
(***************************************************************************)
(* The environment of a process.                                           *)
(***************************************************************************)

\* withoutBlanks
Given(value) == IF value = Blank THEN None ELSE value

\* loadConfig: in production a process without its secrets does not start.
Starts(e) == e.production => Given(e.salt) # None /\ Given(e.token) # None

\* The seed of a VisitorHasher; random where no salt is configured.
SeedFor(e) == IF Given(e.salt) = None THEN <<"random", starts>> ELSE <<"salt", Given(e.salt)>>

NoSeed == <<>>
NoMemo == [day |-> 0, salt |-> NoSeed]

StartProcess(p) ==
  /\ starts < MaxStarts
  /\ Starts(env)
  /\ starts' = starts + 1
  /\ seed' = [seed EXCEPT ![p] = SeedFor(env)]
  /\ memo' = [memo EXCEPT ![p] = NoMemo]
  /\ UNCHANGED <<env, edgeToken, target, day, clicks, sent, rows>>

-----------------------------------------------------------------------------
(***************************************************************************)
(* A target is taken.                                                      *)
(***************************************************************************)
Post(link, raw) ==
  /\ target[link] = NoTarget
  /\ PostAnswer(raw) = "ok"
  /\ validateCustomSlug(link) = "valid"
  /\ target' = [target EXCEPT ![link] = Trimmed(raw)]
  /\ UNCHANGED <<env, edgeToken, seed, memo, starts, day, clicks, sent, rows>>

Patch(link, raw) ==
  /\ target[link] # NoTarget
  /\ PatchAnswer(raw) = "ok"
  /\ target' = [target EXCEPT ![link] = Trimmed(raw)]
  /\ UNCHANGED <<env, edgeToken, seed, memo, starts, day, clicks, sent, rows>>

-----------------------------------------------------------------------------
(***************************************************************************)
(* The edge.                                                               *)
(***************************************************************************)
evaluateLink(value) ==
  IF parseUrl(value) = Malformed \/ parseUrl(value).protocol \notin AllowedProtocols
    THEN "corrupt" ELSE "redirect"

truncate(length, max) == IF length > max THEN max ELSE length

buildClickEvent(link, visitor) ==
  [id |-> Cardinality(clicks), slug |-> link, day |-> day, ip |-> visitor.ip,
   userAgent |-> visitor.userAgent, referrer |-> visitor.referrer,
   length |-> [f \in Fields |->
                 IF f \in {"userAgent", "referrer"} THEN truncate(visitor.length[f], Bounds[f])
                 ELSE visitor.length[f]]]

\* No token, no event.
trackClick(event) == IF Given(edgeToken) = None THEN sent ELSE sent \cup {event}

recordClick(link, visitor) ==
  LET event == buildClickEvent(link, visitor) IN
  /\ clicks' = clicks \cup {[event |-> event, visitor |-> visitor]}
  /\ sent' = trackClick(event)

\* A GET that is redirected; any other request changes nothing.
Visit(link, visitor) ==
  /\ Cardinality(clicks) < MaxClicks
  /\ isWellFormedSlug(link)
  /\ target[link] # NoTarget
  /\ evaluateLink(target[link]) = "redirect"
  /\ recordClick(link, visitor)
  /\ UNCHANGED <<env, edgeToken, seed, memo, starts, target, day, rows>>

\* INGEST_TIMEOUT_MS, or the Worker is gone.
Lose(event) ==
  /\ event \in sent
  /\ sent' = sent \ {event}
  /\ UNCHANGED <<env, edgeToken, seed, memo, starts, target, day, clicks, rows>>

-----------------------------------------------------------------------------
(***************************************************************************)
(* The origin.                                                             *)
(***************************************************************************)
verifyInternalToken ==
  CASE Given(env.token) = None -> "not-configured"
    [] Given(env.token) # None /\ edgeToken # Given(env.token) -> "invalid"
    [] OTHER -> "ok"

\* An id, which is a UUID, is always within its bound.
clickEventSchema(event) ==
  /\ event.day > 0
  /\ Len(event.slug) \in 1..Bounds["slug"]
  /\ \A f \in Fields : event.length[f] <= Bounds[f]

\* Mutant: the salt is looked at again when the day is a later one.
SaltForLater(p, d) ==
  IF d > memo[p].day THEN [day |-> d, salt |-> <<seed[p], d>>] ELSE memo[p]

\* The day's salt, derived when the day is not the one that is kept.
saltFor(p, d) ==
  IF d # memo[p].day THEN [day |-> d, salt |-> <<seed[p], d>>] ELSE memo[p]

hash(salt, event) ==
  IF event.ip = None THEN <<salt, "no-ip", event.id>>
  ELSE <<salt, event.ip, event.userAgent, event.slug>>

\* The host a visitor comes from, or none.
referrerHost(referrer) ==
  IF referrer \in {None, Blank} \/ referrer = "unparsable" THEN "" ELSE referrer

enrich(p, event) ==
  [eventId |-> event.id, slug |-> event.slug, day |-> event.day,
   agent |-> parseUserAgent(event.userAgent),
   referrerHost |-> referrerHost(event.referrer),
   visitorHash |-> hash(saltFor(p, event.day).salt, event)]

\* The row is buffered; or it is dropped because the buffer is full, or Redis fails and a
\* 503 says so, when the day's salt has been derived.
Ingest(p, event) ==
  /\ seed[p] # NoSeed
  /\ event \in sent
  /\ sent' = sent \ {event}
  /\ IF verifyInternalToken = "ok" /\ clickEventSchema(event)
       THEN /\ memo' = [memo EXCEPT ![p] = saltFor(p, event.day)]
            /\ rows' \in {rows \cup {enrich(p, event)}, rows}
       ELSE UNCHANGED <<rows, memo>>
  /\ UNCHANGED <<env, edgeToken, seed, starts, target, day, clicks>>

NextDay ==
  /\ day < MaxDay
  /\ day' = day + 1
  /\ UNCHANGED <<env, edgeToken, seed, memo, starts, target, clicks, sent, rows>>

-----------------------------------------------------------------------------
Init ==
  /\ env \in Envs /\ edgeToken \in EdgeTokens
  /\ seed = [p \in Processes |-> NoSeed]
  /\ memo = [p \in Processes |-> NoMemo]
  /\ starts = 0
  /\ target = [l \in Links |-> NoTarget]
  /\ day = 1
  /\ clicks = {} /\ sent = {} /\ rows = {}

Next ==
  \/ \E p \in Processes : StartProcess(p)
  \/ \E l \in Links, raw \in Targeted : Post(l, raw) \/ Patch(l, raw)
  \/ \E l \in Links, v \in Visitors : Visit(l, v)
  \/ \E event \in sent : Lose(event)
  \/ \E p \in Processes, event \in sent : Ingest(p, event)
  \/ NextDay

Spec == Init /\ [][Next]_vars

-----------------------------------------------------------------------------
(***************************************************************************)
(* Properties.                                                             *)
(***************************************************************************)
ClickOf(row) == CHOOSE c \in clicks : c.event.id = row.eventId

\* "How many distinct people clicked this link today": with a configured salt two rows
\* have one hash if, and only if, they are of one visitor, one link and one UTC day,
\* whichever processes made them, in whatever order, and however often they had started.
\* A click without an address is a visitor of its own.
UniqueVisitors ==
  Given(env.salt) # None =>
    \A r, s \in rows :
      LET v == ClickOf(r).visitor
          w == ClickOf(s).visitor
          sameVisitor ==
            r.slug = s.slug /\ r.day = s.day /\ v.ip = w.ip /\ v.userAgent = w.userAgent
      IN r.visitorHash = s.visitorHash <=>
           r.eventId = s.eventId \/ (v.ip # None /\ w.ip # None /\ sameVisitor)

\* Whatever the origin takes the edge serves, and it is a public page. POST and PATCH
\* do not differ on it, though they ask the same in another order.
AcceptedIsServed ==
  \A l \in Links : target[l] # NoTarget =>
    /\ evaluateLink(target[l]) = "redirect"
    /\ PostAnswer(target[l]) = "ok" /\ PatchAnswer(target[l]) = "ok"
    /\ classifyHost(target[l].url.host) = "public"
    /\ target[l].length <= MaxUrlLength
=============================================================================
