---------------------------- MODULE IntakeProofs ----------------------------
(***************************************************************************)
(* For any targets, visitors, environments and processes: what the origin  *)
(* takes the edge serves (AcceptedIsServed), and hashes tell one visitor   *)
(* of a link and a day from another (UniqueVisitors).                      *)
(*                                                                         *)
(* The inductive invariant relates what is far apart: a stored target is   *)
(* free of issues (Taken); an event's number and the visitor it is of      *)
(* determine each other (Numbered); the salt a process keeps is of its own *)
(* seed, which is the configured one (Memoized, Seeded), so that a row's   *)
(* hash is a function of its click alone (Hashed).                         *)
(*                                                                         *)
(* Of the inputs tried one at a time: those about slugs (SlugsAreSound),   *)
(* where counting streams is comparing them, by a map from the streams that*)
(* make one slug into those that make another, and what encodeBase62 and   *)
(* decodeBase62 compute is found by the least number they differ at; URLs  *)
(* (OneKeyPerPage), where a sort is known by its outcome; hosts            *)
(* (HostsAreJudgedByAddress), where a text is taken apart where it was put *)
(* together; and User-Agents (ProductIsNamed), part by part.               *)
(***************************************************************************)
EXTENDS
  Intake, Inputs, FiniteSetTheorems, SequenceTheorems, WellFoundedInduction, TLAPS

LEMMA ConstantsAre ==
  /\ \A raw \in Targeted :
       raw.length \in Nat /\ raw.blank \in Nat /\ raw.length - raw.blank \in Nat
  /\ MaxUrlLength \in Nat /\ MaxDay \in Nat /\ MaxClicks \in Nat /\ MaxStarts \in Nat
BY IntakeConstants

-----------------------------------------------------------------------------
(***************************************************************************)
(* A target is taken.                                                      *)
(***************************************************************************)
Issues ==
  {"too-long", "malformed", "unsupported-protocol", "embedded-credentials",
   "missing-hostname", "non-public-host", "self-referential"}

\* An issue is there when its condition is.
LEMMA WhenIs ==
  ASSUME NEW condition, NEW issue \in Issues
  PROVE  /\ When(condition, issue) \in Seq(Issues)
         /\ When(condition, issue) = <<>> <=> ~condition
BY DEF When

\* Two lists are empty if their concatenation is.
LEMMA JoinedIsEmpty ==
  ASSUME NEW s \in Seq(Issues), NEW t \in Seq(Issues)
  PROVE  s \o t \in Seq(Issues) /\ (s \o t = <<>> <=> s = <<>> /\ t = <<>>)
<1>1. s \o t \in Seq(Issues) /\ Len(s \o t) = Len(s) + Len(t) /\ Len(s) \in Nat /\ Len(t) \in Nat
  OBVIOUS
<1>2. \A u \in Seq(Issues) : u = <<>> <=> Len(u) = 0
  OBVIOUS
<1>3. QED  BY <1>1, <1>2

Sound(url) ==
  /\ url # Malformed /\ url.protocol \in AllowedProtocols /\ ~url.credentials
  /\ url.host # NoHost /\ classifyHost(url.host) = "public"
  /\ normalizeHost(url.host) # normalizeHost(ShortDomain)

\* There is no issue with a target that is short enough and sound, and one with any other.
LEMMA IssuesAre ==
  ASSUME NEW length \in Nat, NEW url
  PROVE  /\ assessUrlSafety(length, url) \in Seq(Issues)
         /\ assessUrlSafety(length, url) = <<>> <=> length <= MaxUrlLength /\ Sound(url)
<1> DEFINE c1 == When(length > MaxUrlLength, "too-long")
           c2 == When(url.protocol \notin AllowedProtocols, "unsupported-protocol")
           c3 == When(url.credentials, "embedded-credentials")
           c4 == When(classifyHost(url.host) # "public", "non-public-host")
           c5 == When(normalizeHost(url.host) = normalizeHost(ShortDomain), "self-referential")
           hosts == IF url.host = NoHost THEN <<"missing-hostname">> ELSE c4 \o c5
           urls == IF url = Malformed THEN <<"malformed">> ELSE c2 \o c3 \o hosts
<1>1. /\ c1 \in Seq(Issues) /\ (c1 = <<>> <=> ~(length > MaxUrlLength))
      /\ c2 \in Seq(Issues) /\ (c2 = <<>> <=> url.protocol \in AllowedProtocols)
      /\ c3 \in Seq(Issues) /\ (c3 = <<>> <=> ~url.credentials)
      /\ c4 \in Seq(Issues) /\ (c4 = <<>> <=> classifyHost(url.host) = "public")
      /\ c5 \in Seq(Issues)
      /\ (c5 = <<>> <=> normalizeHost(url.host) # normalizeHost(ShortDomain))
  BY WhenIs DEF Issues
<1>2. \A issue \in Issues : <<issue>> \in Seq(Issues) /\ <<issue>> # <<>>
  OBVIOUS
<1> HIDE DEF c1, c2, c3, c4, c5
<1>3. /\ hosts \in Seq(Issues)
      /\ hosts = <<>> <=> url.host # NoHost /\ c4 = <<>> /\ c5 = <<>>
  <2>1. c4 \o c5 \in Seq(Issues) /\ (c4 \o c5 = <<>> <=> c4 = <<>> /\ c5 = <<>>)
    BY <1>1, JoinedIsEmpty
  <2>2. QED  BY <1>2, <2>1 DEF Issues
<1> HIDE DEF hosts
<1>4. /\ urls \in Seq(Issues)
      /\ urls = <<>> <=> url # Malformed /\ c2 = <<>> /\ c3 = <<>> /\ hosts = <<>>
  <2>1. c2 \o c3 \in Seq(Issues) /\ (c2 \o c3 = <<>> <=> c2 = <<>> /\ c3 = <<>>)
    BY <1>1, JoinedIsEmpty
  <2>2. /\ c2 \o c3 \o hosts \in Seq(Issues)
        /\ c2 \o c3 \o hosts = <<>> <=> c2 \o c3 = <<>> /\ hosts = <<>>
    BY <1>3, <2>1, JoinedIsEmpty
  <2>3. QED  BY <1>2, <2>1, <2>2 DEF Issues
<1> HIDE DEF urls
<1>5. c1 \o urls \in Seq(Issues) /\ (c1 \o urls = <<>> <=> c1 = <<>> /\ urls = <<>>)
  BY <1>1, <1>4, JoinedIsEmpty
<1>6. assessUrlSafety(length, url) = c1 \o urls
  BY DEF assessUrlSafety, c1, c2, c3, c4, c5, hosts, urls
<1>7. ~(length > MaxUrlLength) <=> length <= MaxUrlLength
  BY ConstantsAre
<1>8. QED  BY <1>1, <1>3, <1>4, <1>5, <1>6, <1>7, Zenon DEF Sound

\* No issue is answered as if there were none.
LEMMA CodesAre ==
  ASSUME NEW issue \in Issues
  PROVE  Code(issue) # "ok"
BY DEF Issues, Code

\* POST and PATCH agree on what is taken.
LEMMA TakenIsSound ==
  ASSUME NEW raw, raw.length \in Nat, raw.length - raw.blank \in Nat
  PROVE  /\ PatchAnswer(raw) = "ok" <=>
              raw.length - raw.blank \in 1..MaxUrlLength /\ Sound(raw.url)
         /\ PostAnswer(raw) = "ok" <=>
              /\ raw.length - raw.blank \in 1..MaxUrlLength /\ Sound(raw.url)
              /\ raw.length <= MaxUrlLength
<1> DEFINE n == raw.length - raw.blank
           posted == assessUrlSafety(raw.length, raw.url)
           patched == assessUrlSafety(n, raw.url)
<1>1. /\ posted \in Seq(Issues) /\ (posted = <<>> <=> raw.length <= MaxUrlLength /\ Sound(raw.url))
      /\ patched \in Seq(Issues) /\ (patched = <<>> <=> n <= MaxUrlLength /\ Sound(raw.url))
  BY IssuesAre
<1>2. \A s \in Seq(Issues) : s # <<>> => Code(Head(s)) # "ok"
  <2>1. \A s \in Seq(Issues) : s # <<>> => Head(s) \in Issues
    OBVIOUS
  <2>2. QED  BY <2>1, CodesAre
<1>3. Sound(raw.url) /\ n \in 1..MaxUrlLength => targetUrlSchema(raw)
  BY DEF Sound, targetUrlSchema, parseUrl
<1>4. targetUrlSchema(raw) => n \in 1..MaxUrlLength
  BY DEF targetUrlSchema
<1>5. n \in 1..MaxUrlLength => n <= MaxUrlLength
  BY ConstantsAre
<1> HIDE DEF posted, patched, n
<1>6. PatchAnswer(raw) = "ok" <=> targetUrlSchema(raw) /\ patched = <<>>
  BY <1>1, <1>2 DEF PatchAnswer, patched, n, parseUrl
<1>7. PostAnswer(raw) = "ok" <=> posted = <<>> /\ targetUrlSchema(raw)
  BY <1>1, <1>2 DEF PostAnswer, posted, parseUrl
<1>8. QED  BY <1>1, <1>3, <1>4, <1>5, <1>6, <1>7 DEF n

-----------------------------------------------------------------------------
(***************************************************************************)
(* The state.                                                              *)
(***************************************************************************)

\* The seed of every process that starts with a configured salt.
Seed == <<"salt", Given(env.salt)>>
Configured == Given(env.salt) # None

TypeOK ==
  /\ seed \in [Processes -> {NoSeed} \cup {<<"random", n>> : n \in Nat} \cup {Seed}]
  /\ starts \in Nat
  /\ day \in Nat \ {0}
  /\ target \in [Links -> {NoTarget} \cup {Trimmed(raw) : raw \in Targeted}]
  /\ DOMAIN memo = Processes

\* A link's target is one that POST, or PATCH, has taken.
Taken ==
  \A l \in Links : target[l] # NoTarget =>
    target[l].length \in 1..MaxUrlLength /\ target[l].blank = 0 /\ Sound(target[l].url)

\* Clicks are numbered, and their events are of the visitors they say.
Numbered ==
  /\ IsFiniteSet(clicks)
  /\ \A c \in clicks :
       /\ c.event.id \in Nat /\ c.event.id < Cardinality(clicks)
       /\ c.event.day \in Nat \ {0}
       /\ c.event.ip = c.visitor.ip /\ c.event.userAgent = c.visitor.userAgent
  /\ \A c, d \in clicks : c.event.id = d.event.id => c = d
  /\ \A event \in sent : \E c \in clicks : event = c.event

\* The salt a process keeps is of its seed and that day.
Memoized ==
  \A p \in Processes : memo[p] = NoMemo \/ memo[p].salt = <<seed[p], memo[p].day>>

\* A process that has started has the configured seed.
Seeded == Configured => \A p \in Processes : seed[p] \in {NoSeed, Seed}

\* A row is of a click, and hashed with the configured salt and the click's own day.
RowOf(row, c) ==
  /\ row.eventId = c.event.id /\ row.slug = c.event.slug /\ row.day = c.event.day
  /\ row.visitorHash = hash(<<Seed, c.event.day>>, c.event)

Hashed == Configured => \A row \in rows : \E c \in clicks : RowOf(row, c)

Safe == TypeOK /\ Taken /\ Numbered /\ Memoized /\ Seeded /\ Hashed

-----------------------------------------------------------------------------
\* Nothing is taken, clicked or counted yet.
LEMMA SafeInit == Init => Safe
<1> SUFFICES ASSUME Init PROVE Safe
  OBVIOUS
<1>1. TypeOK
  BY DEF Init, TypeOK
<1>2. Taken
  BY DEF Init, Taken
<1>3. Numbered
  BY FS_EmptySet DEF Init, Numbered
<1>4. Memoized
  BY DEF Init, Memoized
<1>5. Seeded /\ Hashed
  BY DEF Init, Seeded, Hashed
<1>6. QED  BY <1>1, <1>2, <1>3, <1>4, <1>5 DEF Safe

\* What is kept or derived is the salt of the seed and of the day asked for.
LEMMA SaltIs ==
  ASSUME Safe, NEW p \in Processes, NEW d \in Nat \ {0}
  PROVE  saltFor(p, d).salt = <<seed[p], d>> /\ saltFor(p, d).day = d
<1>1. memo[p] = NoMemo \/ memo[p].salt = <<seed[p], memo[p].day>>
  BY DEF Safe, Memoized
<1>2. CASE d # memo[p].day
  BY <1>2 DEF saltFor
<1>3. CASE d = memo[p].day
  <2>1. memo[p] # NoMemo
    BY <1>3 DEF NoMemo
  <2>2. QED  BY <1>1, <1>3, <2>1 DEF saltFor
<1>4. QED  BY <1>2, <1>3

\* A process that starts has forgotten its salt, and derives the same.
LEMMA StartSafe ==
  ASSUME Safe, NEW p \in Processes, StartProcess(p)
  PROVE  Safe'
<1>1. /\ starts' = starts + 1
      /\ seed' = [seed EXCEPT ![p] = SeedFor(env)]
      /\ memo' = [memo EXCEPT ![p] = NoMemo]
      /\ env' = env /\ target' = target /\ day' = day /\ clicks' = clicks /\ sent' = sent
      /\ rows' = rows
  BY DEF StartProcess
<1>2. TypeOK
  BY DEF Safe
<1>3. SeedFor(env) \in {<<"random", n>> : n \in Nat} \cup {Seed} /\ (Configured => SeedFor(env) = Seed)
  BY <1>2 DEF TypeOK, SeedFor, Seed, Configured
<1>4. Seed' = Seed /\ Configured' = Configured
  BY <1>1 DEF Seed, Configured
<1>5. TypeOK'
  BY <1>1, <1>2, <1>3, <1>4 DEF TypeOK
<1>6. Taken'
  BY <1>1 DEF Safe, Taken
<1>7. Numbered'
  BY <1>1 DEF Safe, Numbered
<1>8. Memoized'
  <2>1. ASSUME NEW q \in Processes
        PROVE  memo'[q] = NoMemo \/ memo'[q].salt = <<seed'[q], memo'[q].day>>
    <3>1. CASE q = p
      BY <1>1, <1>2, <3>1 DEF TypeOK
    <3>2. CASE q # p
      <4>1. memo'[q] = memo[q] /\ seed'[q] = seed[q]
        BY <1>1, <1>2, <3>2 DEF TypeOK
      <4>2. QED  BY <4>1 DEF Safe, Memoized
    <3>3. QED  BY <3>1, <3>2
  <2>2. QED  BY <2>1 DEF Memoized
<1>9. Seeded'
  <2>1. ASSUME Configured, NEW q \in Processes PROVE seed'[q] \in {NoSeed, Seed}
    <3>1. seed[q] \in {NoSeed, Seed}
      BY <2>1 DEF Safe, Seeded
    <3>2. seed'[q] = IF q = p THEN SeedFor(env) ELSE seed[q]
      BY <1>1, <1>2 DEF TypeOK
    <3>3. QED  BY <1>3, <2>1, <3>1, <3>2
  <2>2. QED  BY <1>4, <2>1 DEF Seeded
<1>10. Hashed'
  BY <1>1, <1>4 DEF Safe, Hashed, RowOf, hash
<1>11. QED  BY <1>5, <1>6, <1>7, <1>8, <1>9, <1>10 DEF Safe

\* What leaves clicks, seeds and rows alone leaves what is said of them.
LEMMA TargetSafe ==
  ASSUME Safe, NEW l \in Links, NEW raw \in Targeted, PatchAnswer(raw) = "ok",
         target' = [target EXCEPT ![l] = Trimmed(raw)],
         UNCHANGED <<env, edgeToken, seed, memo, starts, day, clicks, sent, rows>>
  PROVE  Safe'
<1>1. /\ env' = env /\ seed' = seed /\ memo' = memo /\ starts' = starts /\ day' = day
      /\ clicks' = clicks /\ sent' = sent /\ rows' = rows
  OBVIOUS
<1>2. TypeOK /\ Taken
  BY DEF Safe
<1>3. /\ Trimmed(raw).length \in 1..MaxUrlLength /\ Trimmed(raw).blank = 0
      /\ Sound(Trimmed(raw).url)
  BY ConstantsAre, TakenIsSound DEF Trimmed
<1>4. Seed' = Seed /\ Configured' = Configured
  BY <1>1 DEF Seed, Configured
<1>5. TypeOK'
  BY <1>1, <1>2, <1>4 DEF TypeOK
<1>6. Taken'
  <2>1. ASSUME NEW k \in Links, target'[k] # NoTarget
        PROVE  /\ target'[k].length \in 1..MaxUrlLength /\ target'[k].blank = 0
               /\ Sound(target'[k].url)
    <3>1. target'[k] = IF k = l THEN Trimmed(raw) ELSE target[k]
      BY <1>2 DEF TypeOK
    <3>2. QED  BY <1>2, <1>3, <2>1, <3>1 DEF Taken
  <2>2. QED  BY <2>1 DEF Taken
<1>7. Numbered' /\ Memoized' /\ Seeded' /\ Hashed'
  BY <1>1, <1>4 DEF Safe, Numbered, Memoized, Seeded, Hashed, RowOf, hash
<1>8. QED  BY <1>5, <1>6, <1>7 DEF Safe

\* What POST takes PATCH would.
LEMMA PostSafe ==
  ASSUME Safe, NEW l \in Links, NEW raw \in Targeted, Post(l, raw)
  PROVE  Safe'
<1>1. PatchAnswer(raw) = "ok"
  BY ConstantsAre, TakenIsSound DEF Post
<1>2. QED  BY <1>1, TargetSafe DEF Post

LEMMA PatchSafe ==
  ASSUME Safe, NEW l \in Links, NEW raw \in Targeted, Patch(l, raw)
  PROVE  Safe'
BY TargetSafe DEF Patch

\* The next number is given to the event.
LEMMA VisitSafe ==
  ASSUME Safe, NEW l \in Links, NEW visitor \in Visitors, Visit(l, visitor)
  PROVE  Safe'
<1> DEFINE event == buildClickEvent(l, visitor)
           click == [event |-> event, visitor |-> visitor]
<1>1. /\ env' = env /\ seed' = seed /\ memo' = memo /\ starts' = starts /\ day' = day
      /\ target' = target /\ rows' = rows
      /\ clicks' = clicks \cup {click} /\ sent' = trackClick(event)
  BY DEF Visit, recordClick
<1>2. TypeOK /\ Numbered
  BY DEF Safe
<1>3. /\ IsFiniteSet(clicks) /\ Cardinality(clicks) \in Nat
  BY <1>2, FS_CardinalityType DEF Numbered
<1>4. /\ event.id = Cardinality(clicks) /\ event.day = day /\ event.ip = visitor.ip
      /\ event.userAgent = visitor.userAgent
      /\ click.event = event /\ click.visitor = visitor
  BY DEF buildClickEvent
<1>5. sent' \subseteq sent \cup {event}
  BY <1>1 DEF trackClick
<1> HIDE DEF event, click
<1>6. click \notin clicks
  BY <1>2, <1>3, <1>4 DEF Numbered
<1>7. IsFiniteSet(clicks') /\ Cardinality(clicks') = Cardinality(clicks) + 1
  BY <1>1, <1>3, <1>6, FS_AddElement
<1>8. Seed' = Seed /\ Configured' = Configured
  BY <1>1 DEF Seed, Configured
<1>9. TypeOK'
  BY <1>1, <1>2, <1>8 DEF TypeOK
<1>10. Numbered'
  <2>1. ASSUME NEW c \in clicks'
        PROVE  /\ c.event.id \in Nat /\ c.event.id < Cardinality(clicks')
               /\ c.event.day \in Nat \ {0}
               /\ c.event.ip = c.visitor.ip /\ c.event.userAgent = c.visitor.userAgent
    <3>1. CASE c \in clicks
      BY <1>2, <1>3, <1>7, <3>1 DEF Numbered
    <3>2. CASE c = click
      BY <1>2, <1>3, <1>4, <1>7, <3>2 DEF TypeOK
    <3>3. QED  BY <1>1, <3>1, <3>2
  <2>2. ASSUME NEW c \in clicks', NEW d \in clicks', c.event.id = d.event.id PROVE c = d
    <3>1. \A x \in clicks : x.event.id \in Nat /\ x.event.id < Cardinality(clicks)
      BY <1>2 DEF Numbered
    <3>2. QED  BY <1>1, <1>2, <1>3, <1>4, <2>2, <3>1 DEF Numbered
  <2>3. ASSUME NEW e \in sent' PROVE \E c \in clicks' : e = c.event
    BY <1>1, <1>2, <1>4, <1>5 DEF Numbered
  <2>4. QED  BY <1>7, <2>1, <2>2, <2>3 DEF Numbered
<1>11. Taken' /\ Memoized' /\ Seeded'
  BY <1>1, <1>8 DEF Safe, Taken, Memoized, Seeded
<1>12. Hashed'
  <2>1. ASSUME Configured, NEW row \in rows PROVE \E c \in clicks' : RowOf(row, c)'
    <3>1. PICK c \in clicks : RowOf(row, c)
      BY <2>1 DEF Safe, Hashed
    <3>2. RowOf(row, c)'
      BY <1>1, <1>8, <3>1 DEF RowOf, hash
    <3>3. QED  BY <1>1, <3>2
  <2>2. QED  BY <1>1, <1>8, <2>1 DEF Hashed
<1>13. QED  BY <1>9, <1>10, <1>11, <1>12 DEF Safe

\* An event is of one click, and says of it what its row will.
LEMMA EventIs ==
  ASSUME Safe, NEW event \in sent
  PROVE  \E c \in clicks : event = c.event /\ event.day \in Nat \ {0}
<1>1. Numbered
  BY DEF Safe
<1>2. PICK c \in clicks : event = c.event
  BY <1>1 DEF Numbered
<1>3. QED  BY <1>1, <1>2 DEF Numbered

\* The row is hashed with the salt of its own day, whichever day the process kept.
LEMMA IngestSafe ==
  ASSUME Safe, NEW p \in Processes, NEW event \in sent, Ingest(p, event)
  PROVE  Safe'
<1> DEFINE salt == saltFor(p, event.day)
<1>1. /\ env' = env /\ seed' = seed /\ starts' = starts /\ day' = day /\ target' = target
      /\ clicks' = clicks /\ sent' = sent \ {event} /\ seed[p] # NoSeed
  BY DEF Ingest
<1>2. TypeOK
  BY DEF Safe
<1>3. PICK c \in clicks : event = c.event /\ event.day \in Nat \ {0}
  BY EventIs
<1>4. salt.salt = <<seed[p], event.day>> /\ salt.day = event.day
  BY <1>3, SaltIs
<1> HIDE DEF salt
<1>5. /\ rows' = rows \/ rows' = rows \cup {enrich(p, event)}
      /\ memo' = memo \/ memo' = [memo EXCEPT ![p] = salt]
  BY DEF Ingest, salt
<1>6. Seed' = Seed /\ Configured' = Configured
  BY <1>1 DEF Seed, Configured
<1>7. TypeOK'
  BY <1>1, <1>2, <1>5, <1>6 DEF TypeOK
<1>8. Taken' /\ Seeded'
  BY <1>1, <1>6 DEF Safe, Taken, Seeded
<1>9. Numbered'
  BY <1>1 DEF Safe, Numbered
<1>10. Memoized'
  <2>1. ASSUME NEW q \in Processes
        PROVE  memo'[q] = NoMemo \/ memo'[q].salt = <<seed[q], memo'[q].day>>
    <3>1. memo'[q] = memo[q] \/ (q = p /\ memo'[q] = salt)
      BY <1>2, <1>5 DEF TypeOK
    <3>2. QED  BY <1>4, <3>1 DEF Safe, Memoized
  <2>2. QED  BY <1>1, <2>1 DEF Memoized
<1>11. Hashed'
  <2>1. ASSUME Configured, NEW row \in rows' PROVE \E x \in clicks : RowOf(row, x)
    <3>1. CASE row \in rows
      BY <2>1, <3>1 DEF Safe, Hashed
    <3>2. CASE row = enrich(p, event)
      <4>1. seed[p] = Seed
        BY <1>1, <2>1 DEF Safe, Seeded
      <4>2. /\ row.eventId = event.id /\ row.slug = event.slug /\ row.day = event.day
            /\ row.visitorHash = hash(<<Seed, event.day>>, event)
        BY <1>4, <3>2, <4>1 DEF enrich, salt
      <4>3. RowOf(row, c)
        BY <1>3, <4>2 DEF RowOf
      <4>4. QED  BY <4>3
    <3>3. QED  BY <1>5, <3>1, <3>2
  <2>2. ASSUME NEW row, NEW x, RowOf(row, x) PROVE RowOf(row, x)'
    BY <1>6, <2>2 DEF RowOf, hash
  <2>3. QED  BY <1>1, <1>6, <2>1, <2>2 DEF Hashed
<1>12. QED  BY <1>7, <1>8, <1>9, <1>10, <1>11 DEF Safe

\* Nothing is said of an event that is lost, nor of tomorrow.
LEMMA OthersSafe ==
  ASSUME Safe, UNCHANGED <<env, seed, memo, starts, target, clicks, rows>>,
         sent' \subseteq sent, day' \in Nat \ {0}
  PROVE  Safe'
<1>1. /\ env' = env /\ seed' = seed /\ memo' = memo /\ starts' = starts
      /\ target' = target /\ clicks' = clicks /\ rows' = rows
  OBVIOUS
<1>2. Seed' = Seed /\ Configured' = Configured
  BY <1>1 DEF Seed, Configured
<1>3. TypeOK' /\ Taken' /\ Numbered' /\ Memoized' /\ Seeded'
  BY <1>1, <1>2 DEF Safe, TypeOK, Taken, Numbered, Memoized, Seeded
<1>4. Hashed'
  BY <1>1, <1>2 DEF Safe, Hashed, RowOf, hash
<1>5. QED  BY <1>3, <1>4 DEF Safe

LEMMA SafeNext == Safe /\ [Next]_vars => Safe'
<1> SUFFICES ASSUME Safe, [Next]_vars PROVE Safe'
  OBVIOUS
<1>1. day \in Nat \ {0}
  BY DEF Safe, TypeOK
<1>2. ASSUME NEW event \in sent, Lose(event) PROVE Safe'
  BY <1>1, <1>2, OthersSafe DEF Lose
<1>3. CASE NextDay
  BY <1>1, <1>3, OthersSafe DEF NextDay
<1>4. CASE UNCHANGED vars
  BY <1>1, <1>4, OthersSafe DEF vars
<1>5. QED  BY <1>2, <1>3, <1>4, StartSafe, PostSafe, PatchSafe, VisitSafe, IngestSafe DEF Next

LEMMA AlwaysSafe == Spec => []Safe
BY SafeInit, SafeNext, PTL DEF Spec

-----------------------------------------------------------------------------
(***************************************************************************)
(* What holds.                                                             *)
(***************************************************************************)

\* A link's target, by POST or by PATCH, is one evaluateLink redirects to, a public page, and
\* one that either would take again.
THEOREM TakenIsServed == Spec => []AcceptedIsServed
<1>1. ASSUME Safe PROVE AcceptedIsServed
  <2>1. ASSUME NEW l \in Links, target[l] # NoTarget
        PROVE  /\ evaluateLink(target[l]) = "redirect"
               /\ PostAnswer(target[l]) = "ok" /\ PatchAnswer(target[l]) = "ok"
               /\ classifyHost(target[l].url.host) = "public"
               /\ target[l].length <= MaxUrlLength
    <3> DEFINE t == target[l]
    <3>1. t.length \in 1..MaxUrlLength /\ t.blank = 0 /\ Sound(t.url)
      BY <1>1, <2>1 DEF Safe, Taken
    <3> HIDE DEF t
    <3>2. t.length \in Nat /\ t.length - t.blank = t.length /\ t.length <= MaxUrlLength
      BY <3>1, ConstantsAre
    <3>3. PostAnswer(t) = "ok" /\ PatchAnswer(t) = "ok"
      BY <3>1, <3>2, TakenIsSound
    <3>4. evaluateLink(t) = "redirect"
      BY <3>1 DEF evaluateLink, parseUrl, Sound
    <3>5. QED  BY <3>1, <3>2, <3>3, <3>4 DEF Sound, t
  <2>2. QED  BY <2>1 DEF AcceptedIsServed
<1>2. QED  BY <1>1, AlwaysSafe, PTL

\* Hashes are equal of one visitor, link and day, or of one click.
LEMMA HashesAre ==
  ASSUME Safe, NEW c \in clicks, NEW d \in clicks
  PROVE  hash(<<Seed, c.event.day>>, c.event) = hash(<<Seed, d.event.day>>, d.event)
           <=> \/ c = d
               \/ /\ c.event.ip # None /\ d.event.ip # None
                  /\ c.event.slug = d.event.slug /\ c.event.day = d.event.day
                  /\ c.event.ip = d.event.ip /\ c.event.userAgent = d.event.userAgent
<1>1. c.event.id = d.event.id => c = d
  BY DEF Safe, Numbered
<1>2. QED  BY <1>1 DEF hash

\* Of a configured salt, the hashes VisitorHasher makes in any process are equal exactly of
\* one visitor of one link on one day.
THEOREM VisitorsAreUnique == Spec => []UniqueVisitors
<1>1. ASSUME Safe, Configured, NEW r \in rows, NEW s \in rows
      PROVE  LET v == ClickOf(r).visitor
                 w == ClickOf(s).visitor
                 sameVisitor ==
                   r.slug = s.slug /\ r.day = s.day /\ v.ip = w.ip /\ v.userAgent = w.userAgent
             IN r.visitorHash = s.visitorHash <=>
                  r.eventId = s.eventId \/ (v.ip # None /\ w.ip # None /\ sameVisitor)
  <2>1. PICK c \in clicks : RowOf(r, c)
    BY <1>1 DEF Safe, Hashed
  <2>2. PICK d \in clicks : RowOf(s, d)
    BY <1>1 DEF Safe, Hashed
  <2>3. \A x, y \in clicks : x.event.id = y.event.id => x = y
    BY <1>1 DEF Safe, Numbered
  <2>4. ClickOf(r) = c /\ ClickOf(s) = d
    BY <2>1, <2>2, <2>3 DEF ClickOf, RowOf
  <2>5. /\ c.event.ip = c.visitor.ip /\ c.event.userAgent = c.visitor.userAgent
        /\ d.event.ip = d.visitor.ip /\ d.event.userAgent = d.visitor.userAgent
    BY <1>1 DEF Safe, Numbered
  <2>6. r.eventId = s.eventId <=> c = d
    BY <2>1, <2>2, <2>3 DEF RowOf
  <2>7. QED  BY <1>1, <2>1, <2>2, <2>4, <2>5, <2>6, HashesAre DEF RowOf
<1>2. Safe => UniqueVisitors
  BY <1>1 DEF UniqueVisitors, Configured
<1>3. QED  BY <1>2, AlwaysSafe, PTL

-----------------------------------------------------------------------------
(***************************************************************************)
(* What the members of a finite set are numbered by.                       *)
(***************************************************************************)
\* Each member of a set has those up to it; of two members, one is not among those up to
\* the other.
InARow(P, upTo) ==
  /\ upTo \in [P -> SUBSET P] /\ \A i \in P : i \in upTo[i]
  /\ \A i \in P, j \in P :
       \/ i = j
       \/ i \notin upTo[j] /\ upTo[j] \subseteq upTo[i]
       \/ j \notin upTo[i] /\ upTo[i] \subseteq upTo[j]

\* A function that gives the members of a set their numbers.
Numbers(P, number) ==
  LET c == Cardinality(P) IN
  /\ c \in Nat
  /\ \A i \in P : number[i] \in 1..c
  /\ \A i \in P, j \in P : number[i] = number[j] => i = j
  /\ \A n \in 1..c : \E i \in P : number[i] = n

\* The members of a finite set that are in a row are numbered by how many are up to them.
LEMMA Numbering ==
  ASSUME NEW P, IsFiniteSet(P), NEW upTo, InARow(P, upTo)
  PROVE  Numbers(P, [i \in P |-> Cardinality(upTo[i])])
<1> DEFINE c == Cardinality(P)
           r == [i \in P |-> Cardinality(upTo[i])]
<1>0. /\ upTo \in [P -> SUBSET P] /\ \A i \in P : i \in upTo[i]
      /\ \A i \in P, j \in P :
           \/ i = j
           \/ i \notin upTo[j] /\ upTo[j] \subseteq upTo[i]
           \/ j \notin upTo[i] /\ upTo[i] \subseteq upTo[j]
  BY DEF InARow
<1>1. c \in Nat /\ IsFiniteSet(1..c) /\ Cardinality(1..c) = c
  BY FS_CardinalityType, FS_Interval
<1>2. ASSUME NEW i \in P
      PROVE  IsFiniteSet(upTo[i]) /\ Cardinality(upTo[i]) \in 1..c
  <2>1. upTo[i] \in SUBSET P /\ i \in upTo[i]
    BY <1>0
  <2>2. IsFiniteSet(upTo[i]) /\ Cardinality(upTo[i]) <= c
    BY <2>1, FS_Subset
  <2>3. Cardinality(upTo[i]) \in Nat /\ Cardinality(upTo[i]) # 0
    BY <2>1, <2>2, FS_CardinalityType, FS_EmptySet
  <2>4. QED  BY <1>1, <2>2, <2>3
<1>3. ASSUME NEW i \in P, NEW j \in P, i \notin upTo[j], upTo[j] \subseteq upTo[i]
      PROVE  Cardinality(upTo[i]) # Cardinality(upTo[j])
  <2>1. upTo[j] \in SUBSET upTo[i] /\ upTo[j] # upTo[i] /\ IsFiniteSet(upTo[i])
    BY <1>0, <1>2, <1>3
  <2>2. QED  BY <2>1, FS_Subset
<1>4. ASSUME NEW i \in P, NEW j \in P, Cardinality(upTo[i]) = Cardinality(upTo[j])
      PROVE  i = j
  BY <1>0, <1>3, <1>4
<1>5. r \in Injection(P, 1..c)
  BY <1>2, <1>4 DEF Injection, IsInjective
<1>6. r \in Surjection(P, 1..c)
  BY <1>1, <1>5, FS_Injection
<1>7. ASSUME NEW n \in 1..c PROVE \E i \in P : Cardinality(upTo[i]) = n
  BY <1>6 DEF Surjection
<1>8. QED  BY <1>1, <1>2, <1>4, <1>7 DEF Numbers

\* The place of a position among those of a set.
Rank(P, i) == Cardinality({j \in P : j <= i})

\* The members of a finite set of positions are numbered in their order.
LEMMA NthIs ==
  ASSUME NEW P \in SUBSET Nat, IsFiniteSet(P)
  PROVE  /\ Cardinality(P) \in Nat
         /\ \A n \in 1..Cardinality(P) : Nth(P, n) \in P /\ Rank(P, Nth(P, n)) = n
         /\ \A i \in P : Rank(P, i) \in 1..Cardinality(P) /\ Nth(P, Rank(P, i)) = i
<1> DEFINE upTo == [i \in P |-> {j \in P : j <= i}]
           c == Cardinality(P)
<1>1. upTo \in [P -> SUBSET P] /\ \A i \in P : i \in upTo[i]
  BY P \subseteq Nat
<1>2. ASSUME NEW i \in P, NEW j \in P
      PROVE  \/ i = j
             \/ i \notin upTo[j] /\ upTo[j] \subseteq upTo[i]
             \/ j \notin upTo[i] /\ upTo[i] \subseteq upTo[j]
  <2>1. i = j \/ i < j \/ j < i
    BY P \subseteq Nat
  <2>2. \A k \in P : (i < j /\ k <= i => k <= j) /\ (j < i /\ k <= j => k <= i)
    BY P \subseteq Nat
  <2>3. (i < j => ~ j <= i) /\ (j < i => ~ i <= j)
    BY P \subseteq Nat
  <2>4. QED  BY <2>1, <2>2, <2>3
<1>3. \A i \in P : Rank(P, i) = Cardinality(upTo[i])
  BY DEF Rank
<1>4. Numbers(P, [i \in P |-> Rank(P, i)])
  <2>1. InARow(P, upTo)
    BY <1>1, <1>2 DEF InARow
  <2>2. [i \in P |-> Rank(P, i)] = [i \in P |-> Cardinality(upTo[i])]
    BY <1>3
  <2> HIDE DEF upTo
  <2>3. QED  BY <2>1, <2>2, Numbering
<1>a. /\ c \in Nat
      /\ \A i \in P : Rank(P, i) \in 1..c
      /\ \A i \in P, j \in P : Rank(P, i) = Rank(P, j) => i = j
      /\ \A n \in 1..c : \E i \in P : Rank(P, i) = n
  BY <1>4 DEF Numbers
<1>5. ASSUME NEW n \in 1..c PROVE Nth(P, n) \in P /\ Rank(P, Nth(P, n)) = n
  BY <1>a, Zenon DEF Nth, Rank
<1>6. QED  BY <1>a, <1>5

-----------------------------------------------------------------------------
(***************************************************************************)
(* The slugs, given and drawn.                                             *)
(***************************************************************************)
\* A quotient and a remainder, and that they are the only ones.
LEMMA Multiples ==
  ASSUME NEW B \in Nat \ {0}, NEW n \in Nat
  PROVE  /\ n \div B \in Nat /\ n % B \in 0..B - 1 /\ n = B * (n \div B) + (n % B)
         /\ \A q \in Nat, d \in 0..B - 1 : n = B * q + d => n \div B = q /\ n % B = d
OBVIOUS

\* Multiples of one number are that number apart.
LEMMA Steps ==
  ASSUME NEW B \in Nat \ {0}, NEW p \in Nat, NEW q \in Nat
  PROVE  /\ B * p \in Nat
         /\ p < q => B * p + B <= B * q
         /\ B * p < B * q => p < q
OBVIOUS

\* The last digit of an unbiased byte can be any, and the byte is unbiased still.
LEMMA LastDigit ==
  ASSUME NEW b \in Nat, b < UnbiasedCeiling, NEW d \in Digits
  PROVE  LET c == b - (b % Base) + d IN
         c \in Nat /\ c < UnbiasedCeiling /\ c % Base = d /\ c - (c % Base) = b - (b % Base)
<1> DEFINE c == b - (b % Base) + d
           p == b \div Base
           q == Bytes \div Base
<1>1. Base \in Nat \ {0} /\ Bytes \in Nat /\ d \in 0..Base - 1
  BY SlugsConstants DEF Digits
<1>2. p \in Nat /\ q \in Nat /\ b % Base \in 0..Base - 1 /\ b = Base * p + (b % Base)
  BY <1>1, Multiples
<1>3. Base * p \in Nat /\ Base * q \in Nat
  BY <1>1, <1>2, Steps
<1>4. UnbiasedCeiling = Base * q
  <2>1. Bytes % Base \in 0..Base - 1 /\ Bytes = Base * q + (Bytes % Base)
    BY <1>1, Multiples
  <2>2. QED  BY <1>1, <1>3, <2>1 DEF UnbiasedCeiling
<1>5. p < q
  <2>1. Base * p < Base * q
    BY <1>2, <1>3, <1>4
  <2>2. QED  BY <1>1, <1>2, <2>1, Steps
<1>6. Base * p + Base <= Base * q
  BY <1>1, <1>2, <1>5, Steps
<1> HIDE DEF p, q
<1>7. c = Base * p + d /\ c \in Nat /\ c < UnbiasedCeiling
  BY <1>1, <1>2, <1>3, <1>4, <1>6
<1>8. c % Base = d
  BY <1>1, <1>2, <1>7, Multiples
<1>9. c - (c % Base) = b - (b % Base)
  BY <1>1, <1>2, <1>3, <1>7, <1>8
<1> HIDE DEF c
<1>10. QED  BY <1>7, <1>8, <1>9 DEF c

\* The bytes that generateSlug keeps, and the slugs that it draws.
Unbiased(bytes) == {i \in DOMAIN bytes : bytes[i] < UnbiasedCeiling}
Drawn == [1..DrawnLength -> Digits]

\* A stream is finitely many bytes, and its unbiased ones are a set of positions.
LEMMA StreamsAre ==
  ASSUME NEW bytes \in Streams
  PROVE  /\ DOMAIN bytes = 1..Buffers * DrawnLength
         /\ \A i \in DOMAIN bytes : bytes[i] \in Nat /\ bytes[i] < Bytes
         /\ Unbiased(bytes) \in SUBSET Nat /\ IsFiniteSet(Unbiased(bytes))
         /\ IsFiniteSet(DOMAIN bytes)
<1>1. DrawnLength \in Nat /\ Buffers \in Nat /\ Bytes \in Nat
  <2>1. DrawnLength \in Nat /\ Bytes \in Nat
    BY SlugsConstants
  <2>2. QED  BY <2>1, InputsConstants
<1>2. Buffers * DrawnLength \in Nat
  BY <1>1
<1>3. bytes \in [1..Buffers * DrawnLength -> 0..Bytes - 1]
  BY DEF Streams
<1>4. IsFiniteSet(1..Buffers * DrawnLength)
  BY <1>2, FS_Interval
<1>5. Unbiased(bytes) \in SUBSET (1..Buffers * DrawnLength)
  BY <1>3 DEF Unbiased
<1>6. IsFiniteSet(Unbiased(bytes))
  BY <1>4, <1>5, FS_Subset
<1>7. QED  BY <1>1, <1>2, <1>3, <1>4, <1>5, <1>6

\* A stream makes a slug if its first unbiased bytes do, in their order.
LEMMA DrawnIs ==
  ASSUME NEW bytes \in Streams, NEW slug \in Drawn
  PROVE  LET U == Unbiased(bytes) IN
         generateSlug(bytes, DrawnLength) = slug <=>
           /\ Cardinality(U) >= DrawnLength
           /\ \A i \in U : Rank(U, i) <= DrawnLength => bytes[i] % Base = slug[Rank(U, i)]
<1> DEFINE U == Unbiased(bytes)
           c == Cardinality(U)
           n == IF c < DrawnLength THEN c ELSE DrawnLength
           made == generateSlug(bytes, DrawnLength)
<1>1. /\ c \in Nat
      /\ \A k \in 1..c : Nth(U, k) \in U /\ Rank(U, Nth(U, k)) = k
      /\ \A i \in U : Rank(U, i) \in 1..c /\ Nth(U, Rank(U, i)) = i
  BY StreamsAre, NthIs
<1>2. DrawnLength \in Nat /\ slug \in [1..DrawnLength -> Digits]
  BY SlugsConstants DEF Drawn
<1>3. made = [k \in 1..n |-> bytes[Nth(U, k)] % Base]
  BY DEF generateSlug, Unbiased
<1> HIDE DEF U, made
<1>4. ASSUME made = slug PROVE c >= DrawnLength
  <2>1. 1..n = 1..DrawnLength
    BY <1>2, <1>3, <1>4
  <2>2. QED
    <3>1. SUFFICES ASSUME c < DrawnLength PROVE FALSE
      BY <1>1, <1>2
    <3>2. DrawnLength \in 1..DrawnLength /\ DrawnLength \notin 1..c
      BY <1>1, <1>2, <3>1
    <3>3. QED  BY <2>1, <3>1, <3>2
<1>5. ASSUME made = slug, NEW i \in U, Rank(U, i) <= DrawnLength
      PROVE  bytes[i] % Base = slug[Rank(U, i)]
  <2>1. Rank(U, i) \in 1..n /\ Nth(U, Rank(U, i)) = i
    BY <1>1, <1>2, <1>4, <1>5
  <2>2. made[Rank(U, i)] = bytes[i] % Base
    BY <1>3, <2>1
  <2>3. QED  BY <1>5, <2>2
<1>6. ASSUME c >= DrawnLength,
             \A i \in U : Rank(U, i) <= DrawnLength => bytes[i] % Base = slug[Rank(U, i)]
      PROVE  made = slug
  <2>1. n = DrawnLength
    BY <1>1, <1>2, <1>6
  <2>2. ASSUME NEW k \in 1..DrawnLength PROVE bytes[Nth(U, k)] % Base = slug[k]
    <3>1. Nth(U, k) \in U /\ Rank(U, Nth(U, k)) = k
      BY <1>1, <1>2, <1>6
    <3>2. QED  BY <1>2, <1>6, <3>1
  <2> HIDE DEF n
  <2>3. QED  BY <1>2, <1>3, <2>1, <2>2
<1>7. QED  BY <1>4, <1>5, <1>6 DEF U, made

\* The stream that makes another slug: the unbiased bytes that make a letter each keep
\* their multiple of the base and get the letter's remainder.
Relettered(bytes, slug) ==
  LET U == Unbiased(bytes) IN
  [i \in DOMAIN bytes |->
     IF i \in U /\ Rank(U, i) <= DrawnLength
     THEN bytes[i] - (bytes[i] % Base) + slug[Rank(U, i)] ELSE bytes[i]]

\* With other letters a stream is a stream, and unbiased where it was.
LEMMA RelettersWell ==
  ASSUME NEW bytes \in Streams, NEW slug \in Drawn
  PROVE  LET swapped == Relettered(bytes, slug)
             U == Unbiased(bytes)
         IN /\ swapped \in Streams /\ Unbiased(swapped) = U
            /\ \A i \in U : Rank(U, i) <= DrawnLength =>
                 /\ swapped[i] % Base = slug[Rank(U, i)]
                 /\ swapped[i] - (swapped[i] % Base) = bytes[i] - (bytes[i] % Base)
            /\ \A i \in DOMAIN bytes :
                 ~(i \in U /\ Rank(U, i) <= DrawnLength) => swapped[i] = bytes[i]
<1> DEFINE swapped == Relettered(bytes, slug)
           U == Unbiased(bytes)
           D == DOMAIN bytes
<1>1. /\ D = 1..Buffers * DrawnLength
      /\ \A i \in D : bytes[i] \in Nat /\ bytes[i] < Bytes
      /\ U \in SUBSET D /\ \A i \in D : i \in U <=> bytes[i] < UnbiasedCeiling
      /\ \A i \in U : Rank(U, i) \in Nat /\ Rank(U, i) >= 1
  <2>1. /\ D = 1..Buffers * DrawnLength
        /\ \A i \in D : bytes[i] \in Nat /\ bytes[i] < Bytes
        /\ U \in SUBSET Nat /\ IsFiniteSet(U)
    BY StreamsAre
  <2>2. U \in SUBSET D /\ \A i \in D : i \in U <=> bytes[i] < UnbiasedCeiling
    BY DEF Unbiased
  <2>3. \A i \in U : Rank(U, i) \in 1..Cardinality(U) /\ Cardinality(U) \in Nat
    BY <2>1, NthIs
  <2> HIDE DEF U
  <2>4. \A i \in U : Rank(U, i) \in Nat /\ Rank(U, i) >= 1
    BY <2>3
  <2>5. QED  BY <2>1, <2>2, <2>4
<1>2. Bytes \in Nat /\ UnbiasedCeiling \in Int /\ UnbiasedCeiling <= Bytes
  <2>1. Base \in Nat \ {0} /\ Bytes \in Nat
    BY SlugsConstants
  <2>2. Bytes % Base \in 0..Base - 1
    BY <2>1, Multiples
  <2>3. QED  BY <2>1, <2>2 DEF UnbiasedCeiling
<1>3. swapped = [i \in D |-> IF i \in U /\ Rank(U, i) <= DrawnLength
                             THEN bytes[i] - (bytes[i] % Base) + slug[Rank(U, i)] ELSE bytes[i]]
  BY DEF Relettered
<1> HIDE DEF U, swapped
<1>4. ASSUME NEW i \in U, Rank(U, i) <= DrawnLength
      PROVE  /\ swapped[i] \in Nat /\ swapped[i] < UnbiasedCeiling
             /\ swapped[i] % Base = slug[Rank(U, i)]
             /\ swapped[i] - (swapped[i] % Base) = bytes[i] - (bytes[i] % Base)
  <2>1. bytes[i] \in Nat /\ bytes[i] < UnbiasedCeiling /\ i \in D
    BY <1>1
  <2>2. slug[Rank(U, i)] \in Digits
    BY <1>1, <1>4, SlugsConstants DEF Drawn
  <2>3. swapped[i] = bytes[i] - (bytes[i] % Base) + slug[Rank(U, i)]
    BY <1>3, <1>4, <2>1
  <2>4. QED  BY <2>1, <2>2, <2>3, LastDigit
<1>5. ASSUME NEW i \in D, ~(i \in U /\ Rank(U, i) <= DrawnLength) PROVE swapped[i] = bytes[i]
  BY <1>3, <1>5
<1>6. ASSUME NEW i \in D
      PROVE  /\ swapped[i] \in 0..Bytes - 1
             /\ swapped[i] < UnbiasedCeiling <=> i \in U
  <2>1. CASE i \in U /\ Rank(U, i) <= DrawnLength
    BY <1>2, <1>4, <2>1
  <2>2. CASE ~(i \in U /\ Rank(U, i) <= DrawnLength)
    BY <1>1, <1>2, <1>5, <2>2
  <2>3. QED  BY <2>1, <2>2
<1>7. DOMAIN swapped = D
  BY <1>3
<1>8. swapped \in Streams
  <2>1. swapped \in [D -> 0..Bytes - 1]
    BY <1>3, <1>6
  <2>2. QED  BY <1>1, <2>1 DEF Streams
<1>9. Unbiased(swapped) = U
  BY <1>1, <1>6, <1>7 DEF Unbiased
<1>10. QED  BY <1>4, <1>5, <1>8, <1>9 DEF U, swapped

-----------------------------------------------------------------------------
\* The functions from a finite set to a finite set are finitely many.
LEMMA FunctionsAreFinite ==
  ASSUME NEW D, IsFiniteSet(D), NEW R, IsFiniteSet(R)
  PROVE  IsFiniteSet([D -> R])
<1> DEFINE Graph(f) == {<<i, f[i]>> : i \in D}
           g == [f \in [D -> R] |-> Graph(f)]
<1>1. IsFiniteSet(SUBSET (D \X R))
  BY FS_Product, FS_SUBSET
<1>2. g \in [[D -> R] -> SUBSET (D \X R)]
  OBVIOUS
<1>3. ASSUME NEW e \in [D -> R], NEW f \in [D -> R], g[e] = g[f] PROVE e = f
  <2>1. ASSUME NEW i \in D PROVE e[i] = f[i]
    <3>1. <<i, e[i]>> \in g[e]
      OBVIOUS
    <3>2. <<i, e[i]>> \in Graph(f)
      BY <1>3, <3>1
    <3>3. PICK j \in D : <<i, e[i]>> = <<j, f[j]>>
      BY <3>2
    <3>4. QED  BY <3>3
  <2>2. QED  BY <2>1
<1> HIDE DEF g
<1>4. g \in Injection([D -> R], SUBSET (D \X R))
  BY <1>2, <1>3 DEF Injection, IsInjective
<1>5. QED  BY <1>1, <1>4, FS_Injection

\* The streams that make a slug.
Making(slug) == {bytes \in Streams : generateSlug(bytes, DrawnLength) = slug}

\* What makes one slug makes another when it is relettered, and no two become one.
LEMMA AsManyWays ==
  ASSUME NEW u \in Drawn, NEW v \in Drawn
  PROVE  Ways(u) \in Nat /\ Ways(u) <= Ways(v)
<1> DEFINE f == [bytes \in Making(u) |-> Relettered(bytes, v)]
<1>1. IsFiniteSet(Streams)
  <2>1. DrawnLength \in Nat /\ Bytes \in Nat
    BY SlugsConstants
  <2>2. Buffers * DrawnLength \in Nat /\ Bytes - 1 \in Int
    BY <2>1, InputsConstants
  <2>3. IsFiniteSet(1..Buffers * DrawnLength) /\ IsFiniteSet(0..Bytes - 1)
    BY <2>2, FS_Interval
  <2>4. QED  BY <2>3, FunctionsAreFinite DEF Streams
<1>2. /\ IsFiniteSet(Making(u)) /\ IsFiniteSet(Making(v))
      /\ Making(u) \subseteq Streams
  BY <1>1, FS_Subset DEF Making
<1>3. ASSUME NEW bytes \in Making(u) PROVE f[bytes] \in Making(v)
  <2> DEFINE U == Unbiased(bytes)
             made == Relettered(bytes, v)
  <2>1. bytes \in Streams /\ generateSlug(bytes, DrawnLength) = u
    BY DEF Making
  <2>2. Cardinality(U) >= DrawnLength
    BY <2>1, DrawnIs
  <2>3. /\ made \in Streams /\ Unbiased(made) = U
        /\ \A i \in U : Rank(U, i) <= DrawnLength => made[i] % Base = v[Rank(U, i)]
    BY <2>1, RelettersWell
  <2> HIDE DEF U, made
  <2>4. generateSlug(made, DrawnLength) = v
    BY <2>2, <2>3, DrawnIs
  <2>5. QED  BY <2>3, <2>4 DEF Making, made
<1>4. ASSUME NEW b \in Making(u), NEW c \in Making(u), f[b] = f[c] PROVE b = c
  <2> DEFINE U == Unbiased(b)
  <2>1. /\ b \in Streams /\ generateSlug(b, DrawnLength) = u
        /\ c \in Streams /\ generateSlug(c, DrawnLength) = u
    BY DEF Making
  <2>2. Relettered(b, v) = Relettered(c, v)
    BY <1>4
  <2>3. Unbiased(c) = U
    BY <2>1, <2>2, RelettersWell
  <2>4. /\ DOMAIN b = 1..Buffers * DrawnLength /\ DOMAIN c = DOMAIN b
        /\ \A i \in DOMAIN b : b[i] \in Nat /\ c[i] \in Nat
    BY <2>1, StreamsAre
  <2>5. /\ \A i \in U : Rank(U, i) <= DrawnLength => b[i] % Base = u[Rank(U, i)]
        /\ \A i \in U : Rank(U, i) <= DrawnLength => c[i] % Base = u[Rank(U, i)]
    BY <2>1, <2>3, DrawnIs
  <2>6. ASSUME NEW i \in DOMAIN b PROVE b[i] = c[i]
    <3>1. CASE i \in U /\ Rank(U, i) <= DrawnLength
      <4>1. b[i] - (b[i] % Base) = c[i] - (c[i] % Base)
        BY <2>1, <2>2, <2>3, <3>1, RelettersWell
      <4>2. b[i] % Base = c[i] % Base /\ b[i] % Base \in Int
        <5>1. Base \in Nat \ {0}
          BY SlugsConstants
        <5>2. b[i] % Base \in 0..Base - 1
          BY <2>4, <5>1, Multiples
        <5>3. QED  BY <2>5, <3>1, <5>1, <5>2
      <4>3. QED  BY <2>4, <4>1, <4>2
    <3>2. CASE ~(i \in U /\ Rank(U, i) <= DrawnLength)
      <4>1. Relettered(b, v)[i] = b[i]
        BY <2>1, <3>2, RelettersWell
      <4>2. Relettered(c, v)[i] = c[i]
        BY <2>1, <2>3, <2>4, <3>2, RelettersWell
      <4>3. QED  BY <2>2, <4>1, <4>2
    <3>3. QED  BY <3>1, <3>2
  <2> DEFINE D == 1..Buffers * DrawnLength
  <2>7. b \in [D -> 0..Bytes - 1] /\ c \in [D -> 0..Bytes - 1]
    BY <2>1 DEF Streams
  <2>8. \A i \in D : b[i] = c[i]
    BY <2>4, <2>6
  <2> HIDE DEF D
  <2>9. QED  BY <2>7, <2>8
<1> HIDE DEF f
<1>5. f \in Injection(Making(u), Making(v))
  <2>1. f \in [Making(u) -> Making(v)]
    BY <1>3 DEF f
  <2>2. QED  BY <1>4, <2>1 DEF Injection, IsInjective
<1>6. Cardinality(Making(u)) \in Nat /\ Cardinality(Making(u)) <= Cardinality(Making(v))
  BY <1>2, <1>5, FS_Injection, FS_CardinalityType
<1>7. QED  BY <1>6 DEF Ways, Making

-----------------------------------------------------------------------------
\* A set of numbers has a least one.
LEMMA LeastNatural ==
  ASSUME NEW T, T \subseteq Nat, T # {}
  PROVE  \E x \in T : \A y \in T : x <= y
<1> DEFINE R == OpToRel(<, Nat)
<1>1. PICK x \in T : \A y \in T : ~ (<<y, x>> \in R)
  <2>1. IsWellFoundedOn(R, Nat)
    BY NatLessThanWellFounded
  <2> HIDE DEF R
  <2>2. QED  BY <2>1, WFMin
<1>2. ASSUME NEW y \in T, y < x PROVE FALSE
  <2>1. <<y, x>> \in Nat \X Nat /\ <<y, x>>[1] = y /\ <<y, x>>[2] = x
    OBVIOUS
  <2>2. <<y, x>> \in R
    BY <1>2, <2>1, Zenon DEF OpToRel
  <2>3. QED  BY <1>1, <2>2, Zenon
<1> HIDE DEF R
<1>3. QED  BY <1>2

\* There is a function whose value at each number is made of the value at a smaller one.
Recursed(n, T, base, before, next) ==
  \E g \in [0..n -> T] :
    \A i \in 0..n : g[i] = IF i = 0 THEN base ELSE next[i][g[before[i]]]

\* Such a function exists: it is built number by number.
LEMMA Recursion ==
  ASSUME NEW n \in Nat, NEW T, NEW base \in T,
         NEW before \in [1..n -> Nat], \A i \in 1..n : before[i] < i,
         NEW next \in [1..n -> [T -> T]]
  PROVE  Recursed(n, T, base, before, next)
<1> DEFINE Good(m, g) ==
             \A i \in 0..m : g[i] = IF i = 0 THEN base ELSE next[i][g[before[i]]]
           Bad == {m \in 0..n : ~ \E g \in [0..m -> T] : Good(m, g)}
<1>1. SUFFICES ASSUME Bad # {} PROVE FALSE
  <2>1. n \in 0..n
    OBVIOUS
  <2>2. \E g \in [0..n -> T] : Good(n, g)
    BY <1>1, <2>1
  <2>3. QED  BY <2>2 DEF Recursed
<1>2. PICK m \in Bad : \A y \in Bad : m <= y
  <2>1. Bad \subseteq Nat
    OBVIOUS
  <2> HIDE DEF Bad
  <2>2. QED  BY <1>1, <2>1, LeastNatural
<1>3. m \in 0..n /\ ~ \E g \in [0..m -> T] : Good(m, g)
  OBVIOUS
<1>4. CASE m = 0
  <2> DEFINE g == [i \in 0..0 |-> base]
  <2>1. g \in [0..m -> T] /\ Good(m, g)
    BY <1>4
  <2>2. QED  BY <1>3, <2>1
<1>5. CASE m # 0
  <2>1. m - 1 \in 0..n /\ m - 1 \notin Bad
    <3> HIDE DEF Bad
    <3>1. m - 1 \in 0..n /\ m - 1 < m /\ m \in Int
      BY <1>3, <1>5
    <3>2. QED  BY <1>2, <3>1
  <2>2. PICK h \in [0..m - 1 -> T] : Good(m - 1, h)
    BY <2>1
  <2> DEFINE g == [i \in 0..m |-> IF i < m THEN h[i] ELSE next[m][h[before[m]]]]
  <2>3. m \in 1..n /\ before[m] \in 0..m - 1
    BY <1>3, <1>5
  <2>4. next[m][h[before[m]]] \in T
    BY <2>3
  <2>5. ASSUME NEW i \in 0..m - 1 PROVE g[i] = h[i] /\ g[i] \in T
    BY <1>3
  <2>6. g[m] = next[m][h[before[m]]]
    BY <1>3
  <2>7. g \in [0..m -> T]
    BY <1>3, <2>4
  <2>8. ASSUME NEW i \in 0..m
        PROVE  g[i] = IF i = 0 THEN base ELSE next[i][g[before[i]]]
    <3>1. CASE i = m
      BY <1>5, <2>3, <2>5, <2>6, <3>1
    <3>2. CASE i # m
      <4>1. i \in 0..m - 1 /\ g[i] = h[i]
        BY <1>3, <2>5, <3>2
      <4>2. CASE i = 0
        BY <2>2, <4>1, <4>2
      <4>3. CASE i # 0
        <5>1. i \in 1..n /\ before[i] \in 0..m - 1
          BY <1>3, <4>1, <4>3
        <5>2. g[before[i]] = h[before[i]]
          BY <2>5, <5>1
        <5>3. QED  BY <2>2, <4>1, <4>3, <5>2
      <4>4. QED  BY <4>2, <4>3
    <3>3. QED  BY <3>1, <3>2
  <2> HIDE DEF g
  <2>9. Good(m, g)
    BY <2>8
  <2>10. QED  BY <1>3, <2>7, <2>9
<1>6. QED  BY <1>4, <1>5

\* The values a slug has, digit by digit.
LEMMA ValueIs ==
  ASSUME NEW slug \in Seq(Nat)
  PROVE  \E value \in [0..Len(slug) -> Nat] :
           /\ decodeBase62(slug) = value[Len(slug)]
           /\ \A i \in 0..Len(slug) :
                value[i] = IF i = 0 THEN 0 ELSE value[i - 1] * Base + slug[i]
<1> DEFINE n == Len(slug)
           Step(g, i) == IF i = 0 THEN 0 ELSE g[i - 1] * Base + slug[i]
           value == CHOOSE g : g = [i \in 0..n |-> Step(g, i)]
           before == [i \in 1..n |-> i - 1]
           next == [i \in 1..n |-> [x \in Nat |-> x * Base + slug[i]]]
<1>1. decodeBase62(slug) = value[n]
  BY DEF decodeBase62
<1>2. n \in Nat /\ Base \in Nat /\ \A i \in 1..n : slug[i] \in Nat
  BY SlugsConstants
<1>3. before \in [1..n -> Nat] /\ \A i \in 1..n : before[i] < i
  BY <1>2
<1>4. next \in [1..n -> [Nat -> Nat]]
  <2>1. ASSUME NEW x \in Nat, NEW i \in 1..n PROVE x * Base + slug[i] \in Nat
    BY <1>2
  <2>2. QED  BY <2>1
<1>5. Recursed(n, Nat, 0, before, next)
  <2>1. n \in Nat /\ 0 \in Nat
    BY <1>2
  <2> HIDE DEF n, before, next
  <2>2. QED  BY <1>3, <1>4, <2>1, Recursion
<1>6. PICK g \in [0..n -> Nat] : \A i \in 0..n : g[i] = Step(g, i)
  <2>1. PICK g \in [0..n -> Nat] :
          \A i \in 0..n : g[i] = IF i = 0 THEN 0 ELSE next[i][g[before[i]]]
    <3> HIDE DEF n, before, next
    <3>1. QED  BY <1>5 DEF Recursed
  <2>2. ASSUME NEW i \in 0..n PROVE g[i] = Step(g, i)
    <3>1. CASE i = 0
      BY <2>1, <3>1
    <3>2. CASE i # 0
      <4>1. i \in 1..n /\ i - 1 \in 0..n
        <5> HIDE DEF n
        <5>1. QED  BY <1>2, <3>2
      <4>2. before[i] = i - 1
        BY <4>1
      <4>3. g[i - 1] \in Nat
        BY <4>1
      <4>4. next[i][g[i - 1]] = g[i - 1] * Base + slug[i]
        BY <4>1, <4>3
      <4> HIDE DEF n, before, next
      <4>5. g[i] = next[i][g[i - 1]]
        BY <2>1, <3>2, <4>2
      <4>6. QED  BY <3>2, <4>4, <4>5
    <3>3. QED  BY <3>1, <3>2
  <2>3. QED  BY <2>2
<1>7. g = [i \in 0..n |-> Step(g, i)]
  BY <1>6
<1>8. value = [i \in 0..n |-> Step(value, i)]
  BY <1>7
<1> HIDE DEF value, before, next, n
<1>9. ASSUME NEW i \in 0..n PROVE value[i] = Step(value, i)
  BY <1>8
<1>10. ASSUME NEW i \in 0..n PROVE value[i] \in Nat
  <2> DEFINE Bad == {j \in 0..n : value[j] \notin Nat}
  <2>1. SUFFICES ASSUME Bad # {} PROVE FALSE
    OBVIOUS
  <2>2. PICK j \in Bad : \A y \in Bad : j <= y
    <3>1. Bad \subseteq Nat
      OBVIOUS
    <3> HIDE DEF Bad
    <3>2. QED  BY <2>1, <3>1, LeastNatural
  <2>3. CASE j = 0
    BY <1>9, <2>3
  <2>4. CASE j # 0
    <3>1. j - 1 \in 0..n /\ value[j - 1] \in Nat /\ j \in 1..n
      BY <1>2, <2>2, <2>4
    <3>2. value[j] = value[j - 1] * Base + slug[j]
      BY <1>9, <2>4
    <3>3. slug[j] \in Nat /\ value[j - 1] * Base \in Nat
      BY <1>2, <3>1 DEF n
    <3>4. QED  BY <3>2, <3>3
  <2>5. QED  BY <2>3, <2>4
<1>11. value \in [0..n -> Nat]
  BY <1>8, <1>10
<1>12. QED  BY <1>1, <1>9, <1>11 DEF n

\* A digit more is a place more.
LEMMA DecodeAppend ==
  ASSUME NEW slug \in Seq(Nat), NEW d \in Nat
  PROVE  /\ decodeBase62(slug) \in Nat
         /\ decodeBase62(Append(slug, d)) = decodeBase62(slug) * Base + d
<1> DEFINE n == Len(slug)
           more == Append(slug, d)
<1>1. /\ n \in Nat /\ more \in Seq(Nat) /\ Len(more) = n + 1 /\ more[n + 1] = d
      /\ \A i \in 1..n : more[i] = slug[i]
  OBVIOUS
<1> HIDE DEF more
<1>2. PICK v \in [0..n -> Nat] :
        /\ decodeBase62(slug) = v[n]
        /\ \A i \in 0..n : v[i] = IF i = 0 THEN 0 ELSE v[i - 1] * Base + slug[i]
  BY ValueIs
<1>3. PICK w \in [0..n + 1 -> Nat] :
        /\ decodeBase62(more) = w[n + 1]
        /\ \A i \in 0..n + 1 : w[i] = IF i = 0 THEN 0 ELSE w[i - 1] * Base + more[i]
  <2>1. PICK w \in [0..Len(more) -> Nat] :
          /\ decodeBase62(more) = w[Len(more)]
          /\ \A i \in 0..Len(more) : w[i] = IF i = 0 THEN 0 ELSE w[i - 1] * Base + more[i]
    BY <1>1, ValueIs
  <2>2. Len(more) = n + 1
    BY <1>1
  <2> HIDE DEF n
  <2>3. QED  BY <2>1, <2>2
<1> HIDE DEF n
<1>4. v[n] = w[n]
  <2> DEFINE Bad == {i \in 0..n : v[i] # w[i]}
  <2>1. SUFFICES ASSUME Bad # {} PROVE FALSE
    <3>1. n \in 0..n
      BY <1>1
    <3>2. QED  BY <3>1
  <2>2. PICK i \in Bad : \A y \in Bad : i <= y
    <3>1. Bad \subseteq Nat
      BY <1>1
    <3> HIDE DEF Bad
    <3>2. QED  BY <2>1, <3>1, LeastNatural
  <2>3. i \in 0..n /\ i \in 0..n + 1 /\ v[i] # w[i]
    BY <1>1
  <2>4. CASE i = 0
    BY <1>2, <1>3, <2>3, <2>4
  <2>5. CASE i # 0
    <3>1. i \in 1..n /\ i - 1 \in 0..n /\ ~ i <= i - 1
      BY <1>1, <2>3, <2>5
    <3>2. v[i - 1] = w[i - 1]
      BY <2>2, <3>1
    <3>3. v[i] = v[i - 1] * Base + slug[i]
      BY <1>2, <2>3, <2>5
    <3>4. w[i] = w[i - 1] * Base + slug[i]
      BY <1>1, <1>3, <2>3, <2>5, <3>1
    <3>5. QED  BY <2>3, <3>2, <3>3, <3>4
  <2>6. QED  BY <2>4, <2>5
<1>5. w[n + 1] = w[n] * Base + d
  <2>1. n + 1 \in 0..n + 1 /\ n + 1 # 0 /\ (n + 1) - 1 = n
    BY <1>1
  <2>2. QED  BY <1>1, <1>3, <2>1
<1>6. v[n] \in Nat
  BY <1>1
<1>7. QED  BY <1>2, <1>3, <1>4, <1>5, <1>6 DEF more

\* No digits are zero.
LEMMA DecodeEmpty == decodeBase62(<<>>) = 0
<1>1. <<>> \in Seq(Nat) /\ Len(<<>>) = 0
  OBVIOUS
<1>2. PICK value \in [0..Len(<<>>) -> Nat] :
           /\ decodeBase62(<<>>) = value[Len(<<>>)]
           /\ \A i \in 0..Len(<<>>) :
                value[i] = IF i = 0 THEN 0 ELSE value[i - 1] * Base + <<>>[i]
  BY <1>1, ValueIs
<1>3. QED  BY <1>1, <1>2

\* The digits of a number are those of what it is without its last, and its last.
LEMMA DigitsAre ==
  \E digits \in [0..MaxNumber -> Seq(Nat)] :
    /\ \A k \in 0..MaxNumber : encodeBase62(k) = IF k = 0 THEN <<0>> ELSE digits[k]
    /\ digits[0] = <<>>
    /\ \A k \in 1..MaxNumber :
         /\ k \div Base \in 0..k - 1
         /\ digits[k] = Append(digits[k \div Base], k % Base)
<1> DEFINE n == MaxNumber
           T == Seq(Nat)
           Step(g, k) == IF k = 0 THEN <<>> ELSE Append(g[k \div Base], k % Base)
           digits == CHOOSE g : g = [k \in 0..n |-> Step(g, k)]
           before == [k \in 1..n |-> k \div Base]
           next == [k \in 1..n |-> [x \in T |-> Append(x, k % Base)]]
<1>1. n \in Nat /\ Base \in Nat \ {0, 1}
  BY SlugsConstants
<1>2. \A k \in 0..n : encodeBase62(k) = IF k = 0 THEN <<0>> ELSE digits[k]
  BY DEF encodeBase62
<1>3. ASSUME NEW k \in 1..n PROVE k \div Base \in 0..k - 1 /\ k % Base \in Nat
  <2>1. /\ k \div Base \in Nat /\ k % Base \in 0..Base - 1
        /\ k = Base * (k \div Base) + (k % Base)
    BY <1>1, Multiples
  <2>2. CASE k \div Base = 0
    BY <2>1, <2>2, <1>1
  <2>3. CASE k \div Base # 0
    <3>1. Base * (k \div Base) >= 2 * (k \div Base)
      BY <1>1, <2>1
    <3>2. QED  BY <1>1, <2>1, <2>3, <3>1
  <2>4. QED  BY <2>2, <2>3
<1>4. before \in [1..n -> Nat] /\ \A k \in 1..n : before[k] < k
  BY <1>1, <1>3
<1>5. next \in [1..n -> [T -> T]]
  <2>1. ASSUME NEW x \in T, NEW k \in 1..n PROVE Append(x, k % Base) \in T
    BY <1>3
  <2> HIDE DEF T
  <2>2. QED  BY <2>1
<1>6. Recursed(n, T, <<>>, before, next)
  <2>1. <<>> \in T
    OBVIOUS
  <2> HIDE DEF n, T, before, next
  <2>2. QED  BY <1>1, <1>4, <1>5, <2>1, Recursion
<1>7. PICK g \in [0..n -> T] : \A k \in 0..n : g[k] = Step(g, k)
  <2>1. PICK g \in [0..n -> T] :
          \A k \in 0..n : g[k] = IF k = 0 THEN <<>> ELSE next[k][g[before[k]]]
    <3> HIDE DEF n, T, before, next
    <3>1. QED  BY <1>6 DEF Recursed
  <2>2. ASSUME NEW k \in 0..n PROVE g[k] = Step(g, k)
    <3>1. CASE k = 0
      BY <2>1, <3>1
    <3>2. CASE k # 0
      <4>1. k \in 1..n
        <5> HIDE DEF n
        <5>1. QED  BY <1>1, <3>2
      <4>2. before[k] = k \div Base /\ k \div Base \in 0..n
        <5>1. before[k] = k \div Base
          BY <4>1
        <5> HIDE DEF n, before
        <5>2. QED  BY <1>1, <1>3, <4>1, <5>1
      <4>3. g[k \div Base] \in T
        BY <4>2
      <4>4. next[k][g[k \div Base]] = Append(g[k \div Base], k % Base)
        <5> HIDE DEF n, T
        <5>1. QED  BY <4>1, <4>3
      <4> HIDE DEF n, T, before, next
      <4>5. g[k] = next[k][g[k \div Base]]
        BY <2>1, <3>2, <4>2
      <4>6. QED  BY <3>2, <4>4, <4>5
    <3>3. QED  BY <3>1, <3>2
  <2>3. QED  BY <2>2
<1>8. digits = [k \in 0..n |-> Step(digits, k)]
  <2>1. g = [k \in 0..n |-> Step(g, k)]
    <3> HIDE DEF n, T
    <3>1. QED  BY <1>7
  <2>2. QED  BY <2>1
<1> HIDE DEF digits, before, next, n, T
<1>9. ASSUME NEW k \in 0..n PROVE digits[k] = Step(digits, k)
  BY <1>8
<1>10. ASSUME NEW k \in 0..n PROVE digits[k] = g[k]
  <2> DEFINE Bad == {j \in 0..n : digits[j] # g[j]}
  <2>1. SUFFICES ASSUME Bad # {} PROVE FALSE
    OBVIOUS
  <2>2. PICK j \in Bad : \A y \in Bad : j <= y
    <3>1. Bad \subseteq Nat
      BY <1>1
    <3> HIDE DEF Bad
    <3>2. QED  BY <2>1, <3>1, LeastNatural
  <2>3. j \in 0..n /\ digits[j] # g[j]
    OBVIOUS
  <2>4. CASE j = 0
    BY <1>7, <1>9, <2>3, <2>4
  <2>5. CASE j # 0
    <3>1. j \in 1..n
      BY <1>1, <2>3, <2>5
    <3>2. j \div Base \in 0..n /\ ~ j <= j \div Base
      BY <1>1, <1>3, <3>1
    <3>3. digits[j \div Base] = g[j \div Base]
      BY <2>2, <3>2
    <3> HIDE DEF Bad
    <3>4. QED  BY <1>7, <1>9, <2>3, <2>5, <3>3
  <2>6. QED  BY <2>4, <2>5
<1>11. digits \in [0..n -> T]
  BY <1>8, <1>10
<1>12. digits[0] = <<>>
  BY <1>1, <1>9
<1>13. ASSUME NEW k \in 1..n PROVE digits[k] = Append(digits[k \div Base], k % Base)
  <2>1. k \in 0..n /\ k # 0
    BY <1>1
  <2>2. digits[k] = Step(digits, k)
    BY <1>9, <2>1
  <2>3. QED  BY <2>1, <2>2
<1>14. QED  BY <1>2, <1>3, <1>11, <1>12, <1>13 DEF n, T

\* A number is read back from its digits.
LEMMA NumberIsReadBack ==
  ASSUME NEW k \in 0..MaxNumber
  PROVE  decodeBase62(encodeBase62(k)) = k
<1>1. Base \in Nat \ {0, 1} /\ MaxNumber \in Nat
  BY SlugsConstants
<1>2. PICK digits \in [0..MaxNumber -> Seq(Nat)] :
        /\ \A m \in 0..MaxNumber : encodeBase62(m) = IF m = 0 THEN <<0>> ELSE digits[m]
        /\ digits[0] = <<>>
        /\ \A m \in 1..MaxNumber :
             /\ m \div Base \in 0..m - 1
             /\ digits[m] = Append(digits[m \div Base], m % Base)
  BY DigitsAre
<1>3. ASSUME NEW m \in 0..MaxNumber PROVE decodeBase62(digits[m]) = m
  <2> DEFINE Bad == {j \in 0..MaxNumber : decodeBase62(digits[j]) # j}
  <2>1. SUFFICES ASSUME Bad # {} PROVE FALSE
    OBVIOUS
  <2>2. PICK j \in Bad : \A y \in Bad : j <= y
    <3>1. Bad \subseteq Nat
      BY <1>1
    <3> HIDE DEF Bad
    <3>2. QED  BY <2>1, <3>1, LeastNatural
  <2>3. j \in 0..MaxNumber /\ decodeBase62(digits[j]) # j
    OBVIOUS
  <2>4. CASE j = 0
    BY <1>2, <2>3, <2>4, DecodeEmpty
  <2>5. CASE j # 0
    <3> DEFINE q == j \div Base
    <3>1. j \in 1..MaxNumber
      BY <1>1, <2>3, <2>5
    <3>2. q \in 0..j - 1 /\ q \in 0..MaxNumber /\ ~ j <= q
      <4>1. q \in 0..j - 1
        BY <1>2, <3>1
      <4> HIDE DEF q
      <4>2. QED  BY <1>1, <3>1, <4>1
    <3>3. decodeBase62(digits[q]) = q
      BY <2>2, <3>2
    <3>4. /\ q \in Nat /\ j % Base \in 0..Base - 1
          /\ j = Base * q + (j % Base)
      <4>1. j \in Nat /\ Base \in Nat \ {0}
        BY <1>1, <3>1
      <4> HIDE DEF Bad
      <4>2. QED  BY <4>1, Multiples
    <3>5. digits[j] = Append(digits[q], j % Base) /\ digits[q] \in Seq(Nat)
      BY <1>2, <3>1, <3>2
    <3>6. j % Base \in Nat
      BY <1>1, <3>4
    <3> HIDE DEF q, Bad
    <3>7. decodeBase62(digits[j]) = q * Base + (j % Base)
      BY <3>3, <3>5, <3>6, DecodeAppend
    <3>8. QED  BY <1>1, <2>3, <3>4, <3>7
  <2>6. QED  BY <2>4, <2>5
<1>4. CASE k = 0
  <2>1. <<0>> = Append(<<>>, 0) /\ <<>> \in Seq(Nat) /\ 0 \in Nat
    OBVIOUS
  <2>2. decodeBase62(<<0>>) = 0
    <3>1. decodeBase62(Append(<<>>, 0)) = decodeBase62(<<>>) * Base + 0
      BY <2>1, DecodeAppend
    <3>2. decodeBase62(Append(<<>>, 0)) = decodeBase62(<<0>>)
      BY <2>1
    <3>3. QED  BY <1>1, <3>1, <3>2, DecodeEmpty
  <2>3. QED  BY <1>2, <1>4, <2>2
<1>5. CASE k # 0
  BY <1>2, <1>3, <1>5
<1>6. QED  BY <1>4, <1>5

-----------------------------------------------------------------------------
\* A function on 1..n is a sequence of that length.
LEMMA FunctionsAreSlugs ==
  ASSUME NEW S, NEW n \in Nat, NEW slug \in [1..n -> S]
  PROVE  slug \in Seq(S) /\ Len(slug) = n /\ DOMAIN slug = 1..n
OBVIOUS

\* What validateCustomSlug lets through is well formed, and no reserved word in any case.
LEMMA CustomIsSound ==
  ASSUME NEW slug \in Customs, validateCustomSlug(slug) = "valid"
  PROVE  isWellFormedSlug(slug) /\ \A word \in Reserved : LowerCase(slug) # LowerCase(word)
<1>1. PICK n \in 0..MaxLength + 1 : slug \in [1..n -> SlugChars \cup {Other}]
  BY DEF Customs
<1>2. n \in Nat /\ MinLength \in 1..MaxLength /\ MaxLength \in Nat
  BY <1>1, SlugsConstants
<1>3. Len(slug) = n
  BY <1>1, <1>2, FunctionsAreSlugs
<1>4. ~ n < MinLength /\ ~ n > MaxLength
  BY <1>3 DEF validateCustomSlug
<1>5. ~ \E i \in DOMAIN slug : slug[i] \notin SlugChars
  BY DEF validateCustomSlug
<1>6. LowerCase(slug) \notin Reserved
  BY DEF validateCustomSlug, isReservedSlug
<1>7. isWellFormedSlug(slug)
  BY <1>2, <1>3, <1>4, <1>5 DEF isWellFormedSlug
<1>8. QED  BY <1>6, <1>7, ReservedInSmallLetters

\* A drawn slug is well formed, and as many streams make it as make any other.
LEMMA DrawnIsSound ==
  ASSUME NEW slug \in Drawn
  PROVE  isWellFormedSlug(slug) /\ Ways(slug) = Ways([i \in 1..DrawnLength |-> 0])
<1> DEFINE zeros == [i \in 1..DrawnLength |-> 0]
<1>1. DrawnLength \in 1..MaxLength /\ MaxLength \in Nat /\ Base \in Nat \ {0}
  BY SlugsConstants
<1>2. DrawnLength \in Nat /\ slug \in [1..DrawnLength -> Digits]
  BY <1>1 DEF Drawn
<1>3. Len(slug) = DrawnLength
  BY <1>2, FunctionsAreSlugs
<1>4. isWellFormedSlug(slug)
  BY <1>1, <1>2, <1>3 DEF isWellFormedSlug, SlugChars
<1>5. zeros \in Drawn
  BY <1>1 DEF Drawn, Digits
<1> HIDE DEF zeros
<1>6. /\ Ways(slug) \in Nat /\ Ways(slug) <= Ways(zeros)
      /\ Ways(zeros) \in Nat /\ Ways(zeros) <= Ways(slug)
  BY <1>5, AsManyWays
<1>7. Ways(slug) = Ways(zeros)
  BY <1>6
<1>8. QED  BY <1>4, <1>7 DEF zeros

\* Whatever the base, the bytes and the lengths: custom slugs that pass are well formed and
\* no words of the platform, generateSlug draws every slug from as many streams of bytes as
\* any other, and decodeBase62 reads back what encodeBase62 writes.
THEOREM SlugsHold == Trials => []SlugsAreSound
<1>1. trial = NoTrial \/ InitTrial => SlugsAreSound
  <2>1. ASSUME trial = NoTrial PROVE SlugsAreSound
    BY <2>1 DEF NoTrial, SlugsAreSound
  <2>2. ASSUME NEW o \in [1..3 -> Octets], Tried("quad", Append(o, 2)) PROVE SlugsAreSound
    BY <2>2 DEF Tried, SlugsAreSound
  <2>3. ASSUME NEW g \in Addresses6, Tried("groups", g) PROVE SlugsAreSound
    BY <2>3 DEF Tried, SlugsAreSound
  <2>4. ASSUME NEW url \in Urls, Tried("url", url) PROVE SlugsAreSound
    BY <2>4 DEF Tried, SlugsAreSound
  <2>5. ASSUME NEW slug \in Customs, Tried("custom", slug) PROVE SlugsAreSound
    <3>1. trial.what = "custom" /\ trial.input = slug
      BY <2>5 DEF Tried
    <3>2. QED  BY <3>1, CustomIsSound DEF SlugsAreSound
  <2>6. ASSUME NEW slug \in Drawn, Tried("drawn", slug) PROVE SlugsAreSound
    <3>1. trial.what = "drawn" /\ trial.input = slug
      BY <2>6 DEF Tried
    <3>2. QED  BY <3>1, DrawnIsSound DEF SlugsAreSound
  <2>7. ASSUME NEW k \in 0..MaxNumber, Tried("number", k) PROVE SlugsAreSound
    <3>1. trial.what = "number" /\ trial.input = k
      BY <2>7 DEF Tried
    <3>2. QED  BY <3>1, NumberIsReadBack DEF SlugsAreSound
  <2>8. ASSUME NEW system \in Systems, NEW browser \in Browsers,
               Tried("agent", <<system, browser>>)
        PROVE  SlugsAreSound
    BY <2>8 DEF Tried, SlugsAreSound
  <2>9. QED  BY <2>1, <2>2, <2>3, <2>4, <2>5, <2>6, <2>7, <2>8 DEF InitTrial, Drawn
<1>2. SlugsAreSound /\ [UNCHANGED trial]_trial => SlugsAreSound'
  BY DEF SlugsAreSound
<1>3. QED  BY <1>1, <1>2, PTL DEF Trials
-----------------------------------------------------------------------------
(***************************************************************************)
(* Which URLs have one key. A key has the parameters in the places a sort  *)
(* puts them in, and a page has each so many times: two lists are sorted   *)
(* into one exactly if each parameter has a twin, its like with as many    *)
(* before it, in the other.                                                *)
(***************************************************************************)
\* What is tried is one of seven things, and only the part of a property about that thing
\* says anything of it.
LEMMA InitIsATrial ==
  ASSUME trial = NoTrial \/ InitTrial
  PROVE  /\ trial.what = "quad" => \E o \in [1..3 -> Octets] : trial.input = Append(o, 2)
         /\ trial.what = "groups" => trial.input \in Addresses6
         /\ trial.what = "url" => trial.input \in Urls
<1>1. ASSUME trial = NoTrial PROVE trial.what \notin {"quad", "groups", "url"}
  BY <1>1 DEF NoTrial
<1>2. ASSUME NEW o \in [1..3 -> Octets], Tried("quad", Append(o, 2))
      PROVE  trial.what = "quad" /\ trial.input = Append(o, 2)
  BY <1>2 DEF Tried
<1>3. ASSUME NEW g \in Addresses6, Tried("groups", g)
      PROVE  trial.what = "groups" /\ trial.input = g
  BY <1>3 DEF Tried
<1>4. ASSUME NEW url \in Urls, Tried("url", url)
      PROVE  trial.what = "url" /\ trial.input = url
  BY <1>4 DEF Tried
<1>5. ASSUME NEW what \in {"custom", "drawn", "number", "agent"}, NEW input, Tried(what, input)
      PROVE  trial.what \notin {"quad", "groups", "url"}
  BY <1>5 DEF Tried
<1>6. QED  BY <1>1, <1>2, <1>3, <1>4, <1>5, Zenon DEF InitTrial

\* A parameter: its name and its value.
Pairs == Int \X Int

\* Of two parameters that differ, one precedes the other.
LEMMA PrecedesIsAnOrder ==
  ASSUME NEW p \in Pairs, NEW q \in Pairs, NEW r \in Pairs
  PROVE  /\ ~Precedes(p, p)
         /\ Precedes(p, q) => ~Precedes(q, p)
         /\ Precedes(p, q) /\ Precedes(q, r) => Precedes(p, r)
         /\ p = q \/ Precedes(p, q) \/ Precedes(q, p)
BY DEF Precedes, Pairs

\* A list of pairs and the positions of it that are kept.
IsList(s, K) == K \in SUBSET Nat /\ IsFiniteSet(K) /\ \A i \in K : s[i] \in Pairs

\* What a stable sort puts before the i-th, and the i-th itself.
Before(s, j, i) == Precedes(s[j], s[i]) \/ (j <= i /\ ~Precedes(s[i], s[j]))

\* A sort puts every parameter kept in a place, and one in each.
LEMMA PlacesAre ==
  ASSUME NEW s, NEW K, IsList(s, K)
  PROVE  /\ Cardinality(K) \in Nat
         /\ \A i \in K : Place(s, K, i) \in 1..Cardinality(K)
         /\ \A i \in K, j \in K : Place(s, K, i) = Place(s, K, j) => i = j
         /\ \A n \in 1..Cardinality(K) : \E i \in K : Place(s, K, i) = n
<1> DEFINE upTo == [i \in K |-> {j \in K : Before(s, j, i)}]
           c == Cardinality(K)
<1>1. K \in SUBSET Nat /\ IsFiniteSet(K) /\ \A i \in K : s[i] \in Pairs
  BY DEF IsList
<1>2. upTo \in [K -> SUBSET K]
  OBVIOUS
<1>3. ASSUME NEW i \in K PROVE i \in upTo[i]
  <2>1. i <= i /\ ~Precedes(s[i], s[i])
    BY <1>1, PrecedesIsAnOrder
  <2>2. QED  BY <2>1 DEF Before
<1>4. ASSUME NEW i \in K, NEW j \in K, Precedes(s[i], s[j]) \/ (s[i] = s[j] /\ i < j)
      PROVE  j \notin upTo[i] /\ upTo[i] \subseteq upTo[j]
  <2>1. j \notin upTo[i]
    BY <1>1, <1>4, PrecedesIsAnOrder DEF Before
  <2>2. ASSUME NEW h \in K, Before(s, h, i) PROVE Before(s, h, j)
    <3>1. s[h] \in Pairs /\ s[i] \in Pairs /\ s[j] \in Pairs /\ h \in Nat /\ i \in Nat /\ j \in Nat
      BY <1>1
    <3>2. Precedes(s[h], s[i]) \/ (s[h] = s[i] /\ h <= i)
      BY <2>2, <3>1, PrecedesIsAnOrder DEF Before
    <3>3. Precedes(s[h], s[j]) \/ (s[h] = s[j] /\ h <= j)
      BY <1>4, <3>1, <3>2, PrecedesIsAnOrder
    <3>4. QED  BY <3>1, <3>3, PrecedesIsAnOrder DEF Before
  <2>3. QED  BY <2>1, <2>2
<1>5. ASSUME NEW i \in K, NEW j \in K
      PROVE  \/ i = j
             \/ i \notin upTo[j] /\ upTo[j] \subseteq upTo[i]
             \/ j \notin upTo[i] /\ upTo[i] \subseteq upTo[j]
  <2>1. s[i] = s[j] \/ Precedes(s[i], s[j]) \/ Precedes(s[j], s[i])
    BY <1>1, PrecedesIsAnOrder
  <2>2. i = j \/ i < j \/ j < i
    BY <1>1
  <2> HIDE DEF upTo
  <2>3. QED  BY <1>4, <2>1, <2>2
<1>6. \A i \in K : Place(s, K, i) = Cardinality(upTo[i])
  BY DEF Place, Before
<1>7. Numbers(K, [i \in K |-> Place(s, K, i)])
  <2>1. InARow(K, upTo)
    BY <1>2, <1>3, <1>5 DEF InARow
  <2>2. [i \in K |-> Place(s, K, i)] = [i \in K |-> Cardinality(upTo[i])]
    BY <1>6
  <2> HIDE DEF upTo
  <2>3. QED  BY <1>1, <2>1, <2>2, Numbering
<1>8. QED  BY <1>7 DEF Numbers

\* In its place is what was kept.
LEMMA SortedIs ==
  ASSUME NEW s, NEW K, IsList(s, K)
  PROVE  /\ DOMAIN Sorted(s, K) = 1..Cardinality(K)
         /\ \A i \in K : Sorted(s, K)[Place(s, K, i)] = s[i]
<1>1. ASSUME NEW i \in K PROVE Sorted(s, K)[Place(s, K, i)] = s[i]
  <2> DEFINE n == Place(s, K, i)
             at == CHOOSE j \in K : Place(s, K, j) = n
  <2>1. n \in 1..Cardinality(K)
    BY PlacesAre
  <2>2. at \in K /\ Place(s, K, at) = n
    OBVIOUS
  <2>3. at = i
    BY <2>2, PlacesAre
  <2>4. Sorted(s, K)[n] = s[at]
    BY <2>1 DEF Sorted
  <2>5. QED  BY <2>3, <2>4
<1>2. QED  BY <1>1 DEF Sorted

\* The positions of one pair.
Same(s, K, v) == {j \in K : s[j] = v}

\* How often a list has a value.
Occurrences(t, v) == Cardinality({n \in DOMAIN t : t[n] = v})

\* A value is in the sorted list as often as it is kept.
LEMMA SortKeeps ==
  ASSUME NEW s, NEW K, IsList(s, K), NEW v
  PROVE  Cardinality(Same(s, K, v)) = Occurrences(Sorted(s, K), v)
<1> DEFINE t == Sorted(s, K)
           S == Same(s, K, v)
           T == {n \in DOMAIN t : t[n] = v}
           f == [i \in S |-> Place(s, K, i)]
<1>1. /\ DOMAIN t = 1..Cardinality(K) /\ \A i \in K : t[Place(s, K, i)] = s[i]
      /\ \A i \in K : Place(s, K, i) \in 1..Cardinality(K)
      /\ \A i \in K, j \in K : Place(s, K, i) = Place(s, K, j) => i = j
      /\ \A n \in 1..Cardinality(K) : \E i \in K : Place(s, K, i) = n
  BY SortedIs, PlacesAre
<1>2. S \in SUBSET K /\ IsFiniteSet(S)
  <2>1. S \in SUBSET K /\ IsFiniteSet(K)
    BY DEF IsList, Same
  <2>2. QED  BY <2>1, FS_Subset
<1> HIDE DEF t
<1>3. ASSUME NEW i \in S PROVE f[i] \in T
  BY <1>1 DEF Same
<1>4. ASSUME NEW n \in T PROVE \E i \in S : f[i] = n
  BY <1>1 DEF Same
<1>5. f \in Bijection(S, T)
  <2>1. \A i \in S, j \in S : f[i] = f[j] => i = j
    BY <1>1, <1>2
  <2> HIDE DEF S, T, f
  <2>2. f \in [S -> T]
    BY <1>3 DEF f
  <2>3. QED  BY <1>4, <2>1, <2>2 DEF Bijection, Injection, IsInjective, Surjection
<1> HIDE DEF S, T, f
<1>6. Cardinality(S) = Cardinality(T)
  BY <1>2, <1>5, FS_Bijection DEF ExistsBijection
<1>7. QED  BY <1>6 DEF S, T, t, Occurrences

\* Two lists in which every pair is as often as in the other.
AsOften(s, K, t, L) ==
  \A v \in Pairs : Cardinality(Same(s, K, v)) = Cardinality(Same(t, L, v))

\* The twin of a position: the same pair, and as many of it before.
Twin(s, K, t, L, i) == Nth(Same(t, L, s[i]), Rank(Same(s, K, s[i]), i))

\* Every position has its twin.
LEMMA TwinIs ==
  ASSUME NEW s, NEW K, IsList(s, K), NEW t, NEW L, IsList(t, L), AsOften(s, K, t, L),
         NEW i \in K
  PROVE  LET b == Twin(s, K, t, L, i) IN
         /\ b \in L /\ t[b] = s[i]
         /\ Rank(Same(t, L, s[i]), b) = Rank(Same(s, K, s[i]), i)
<1> DEFINE v == s[i]
           S == Same(s, K, v)
           T == Same(t, L, v)
           b == Twin(s, K, t, L, i)
<1>1. v \in Pairs /\ i \in S
  BY DEF IsList, Same
<1>2. S \in SUBSET Nat /\ IsFiniteSet(S) /\ T \in SUBSET Nat /\ IsFiniteSet(T)
  <2>1. /\ S \in SUBSET K /\ K \in SUBSET Nat /\ IsFiniteSet(K)
        /\ T \in SUBSET L /\ L \in SUBSET Nat /\ IsFiniteSet(L)
    BY DEF IsList, Same
  <2>2. IsFiniteSet(S) /\ IsFiniteSet(T)
    BY <2>1, FS_Subset
  <2>3. QED  BY <2>1, <2>2
<1>3. Cardinality(S) = Cardinality(T)
  BY <1>1 DEF AsOften
<1> HIDE DEF S, T
<1>4. Rank(S, i) \in 1..Cardinality(T)
  BY <1>1, <1>2, <1>3, NthIs
<1>5. b = Nth(T, Rank(S, i))
  BY DEF Twin, S, T
<1>6. b \in T /\ Rank(T, b) = Rank(S, i)
  BY <1>2, <1>4, <1>5, NthIs
<1>7. b \in L /\ t[b] = v
  BY <1>6 DEF T, Same
<1>8. QED  BY <1>6, <1>7 DEF S, T

\* The positions of the pairs in a set.
Among(s, K, V) == {i \in K : s[i] \in V}

\* No two positions have one twin, so that the one list has no more of any pairs.
LEMMA NoFewer ==
  ASSUME NEW s, NEW K, IsList(s, K), NEW t, NEW L, IsList(t, L), AsOften(s, K, t, L), NEW V
  PROVE  /\ Cardinality(Among(s, K, V)) \in Nat
         /\ Cardinality(Among(s, K, V)) <= Cardinality(Among(t, L, V))
<1> DEFINE S == {i \in K : s[i] \in V}
           T == {j \in L : t[j] \in V}
           f == [i \in S |-> Twin(s, K, t, L, i)]
<1>1. IsFiniteSet(S) /\ IsFiniteSet(T)
  <2>1. S \in SUBSET K /\ IsFiniteSet(K) /\ T \in SUBSET L /\ IsFiniteSet(L)
    BY DEF IsList
  <2>2. QED  BY <2>1, FS_Subset
<1>2. f \in [S -> T]
  BY TwinIs
<1>3. ASSUME NEW i \in S, NEW j \in S, f[i] = f[j] PROVE i = j
  <2>1. t[f[i]] = s[i] /\ t[f[j]] = s[j]
    BY TwinIs
  <2>2. s[i] = s[j]
    BY <1>3, <2>1
  <2> DEFINE R == Same(s, K, s[i])
  <2>3. Rank(Same(t, L, s[i]), f[i]) = Rank(R, i)
    BY TwinIs
  <2>4. Rank(Same(t, L, s[i]), f[i]) = Rank(R, j)
    <3>1. Rank(Same(t, L, s[j]), f[j]) = Rank(Same(s, K, s[j]), j)
      BY TwinIs
    <3>2. QED  BY <1>3, <2>2, <3>1
  <2>5. R \in SUBSET Nat /\ IsFiniteSet(R) /\ i \in R /\ j \in R
    <3>1. R \in SUBSET K /\ K \in SUBSET Nat /\ IsFiniteSet(K) /\ i \in R /\ j \in R
      BY <2>2 DEF IsList, Same
    <3>2. QED  BY <3>1, FS_Subset
  <2> HIDE DEF R, f, S
  <2>6. Nth(R, Rank(R, i)) = i /\ Nth(R, Rank(R, j)) = j
    BY <2>5, NthIs
  <2>7. QED  BY <2>3, <2>4, <2>6
<1> HIDE DEF S, T, f
<1>4. f \in Injection(S, T)
  BY <1>2, <1>3 DEF Injection, IsInjective
<1>5. Cardinality(S) \in Nat /\ Cardinality(S) <= Cardinality(T)
  BY <1>1, <1>4, FS_Injection, FS_CardinalityType
<1>6. QED  BY <1>5 DEF S, T, Among

\* Neither list has more of any pairs.
LEMMA AsManyOfEach ==
  ASSUME NEW s, NEW K, IsList(s, K), NEW t, NEW L, IsList(t, L), AsOften(s, K, t, L), NEW V
  PROVE  Cardinality(Among(s, K, V)) = Cardinality(Among(t, L, V))
<1>1. AsOften(t, L, s, K)
  BY DEF AsOften
<1> DEFINE a == Cardinality(Among(s, K, V))
           b == Cardinality(Among(t, L, V))
<1>2. a \in Nat /\ a <= b
  BY NoFewer
<1>3. b \in Nat /\ b <= a
  BY <1>1, NoFewer
<1> HIDE DEF a, b
<1>4. a = b
  BY <1>2, <1>3
<1>5. QED  BY <1>4 DEF a, b

\* The place of a position is behind the pairs that precede it and the equals before it.
LEMMA PlaceIs ==
  ASSUME NEW s, NEW K, IsList(s, K), NEW i \in K
  PROVE  LET V == {v \in Pairs : Precedes(v, s[i])} IN
         Place(s, K, i) = Cardinality(Among(s, K, V)) + Rank(Same(s, K, s[i]), i)
<1> DEFINE V == {v \in Pairs : Precedes(v, s[i])}
           A == {j \in K : s[j] \in V}
           B == {j \in Same(s, K, s[i]) : j <= i}
           P == {j \in K : Before(s, j, i)}
<1>1. K \in SUBSET Nat /\ IsFiniteSet(K) /\ \A j \in K : s[j] \in Pairs
  BY DEF IsList
<1>2. ASSUME NEW j \in K PROVE Before(s, j, i) <=> Precedes(s[j], s[i]) \/ (s[j] = s[i] /\ j <= i)
  BY <1>1, PrecedesIsAnOrder DEF Before
<1>3. P = A \cup B
  BY <1>1, <1>2 DEF Same
<1>4. A \cap B = {}
  <2>1. ~Precedes(s[i], s[i])
    BY <1>1, PrecedesIsAnOrder
  <2>2. QED  BY <2>1 DEF Same
<1>5. IsFiniteSet(A) /\ IsFiniteSet(B)
  <2>1. A \in SUBSET K /\ B \in SUBSET K
    BY DEF Same
  <2> HIDE DEF A, B
  <2>2. QED  BY <1>1, <2>1, FS_Subset
<1>6. Place(s, K, i) = Cardinality(P)
  BY DEF Place, Before
<1>7. Rank(Same(s, K, s[i]), i) = Cardinality(B)
  BY DEF Rank
<1> HIDE DEF A, B, P
<1>8. Cardinality(P) = Cardinality(A) + Cardinality(B)
  <2>1. Cardinality(A \cup B) = Cardinality(A) + Cardinality(B) - Cardinality(A \cap B)
    BY <1>5, FS_Union
  <2>2. Cardinality(A \cap B) = 0 /\ Cardinality(A) \in Nat /\ Cardinality(B) \in Nat
    BY <1>4, <1>5, FS_EmptySet, FS_CardinalityType
  <2>3. QED  BY <1>3, <2>1, <2>2
<1>9. QED  BY <1>6, <1>7, <1>8 DEF A, Among

\* Lists of the same pairs are sorted into one.
LEMMA SortedAlike ==
  ASSUME NEW s, NEW K, IsList(s, K), NEW t, NEW L, IsList(t, L), AsOften(s, K, t, L)
  PROVE  Sorted(s, K) = Sorted(t, L)
<1>1. Cardinality(K) = Cardinality(L)
  <2>1. Among(s, K, Pairs) = K /\ Among(t, L, Pairs) = L
    BY DEF IsList, Among
  <2>2. Cardinality(Among(s, K, Pairs)) = Cardinality(Among(t, L, Pairs))
    BY AsManyOfEach
  <2>3. QED  BY <2>1, <2>2
<1>2. DOMAIN Sorted(s, K) = 1..Cardinality(K) /\ DOMAIN Sorted(t, L) = 1..Cardinality(K)
  BY <1>1, SortedIs
<1>3. ASSUME NEW n \in 1..Cardinality(K) PROVE Sorted(s, K)[n] = Sorted(t, L)[n]
  <2>1. PICK i \in K : Place(s, K, i) = n
    BY PlacesAre
  <2> DEFINE b == Twin(s, K, t, L, i)
             v == s[i]
             V == {w \in Pairs : Precedes(w, v)}
  <2>2. /\ b \in L /\ t[b] = v
        /\ Rank(Same(t, L, v), b) = Rank(Same(s, K, v), i)
    BY TwinIs
  <2>3. Place(s, K, i) = Cardinality(Among(s, K, V)) + Rank(Same(s, K, v), i)
    BY PlaceIs
  <2>4. Place(t, L, b) = Cardinality(Among(t, L, V)) + Rank(Same(t, L, v), b)
    <3> HIDE DEF b, v
    <3>1. Place(t, L, b) = Cardinality(Among(t, L, {w \in Pairs : Precedes(w, t[b])}))
                             + Rank(Same(t, L, t[b]), b)
      BY <2>2, PlaceIs
    <3>2. QED  BY <2>2, <3>1
  <2>5. Cardinality(Among(s, K, V)) = Cardinality(Among(t, L, V))
    <3> HIDE DEF V
    <3>1. QED  BY AsManyOfEach
  <2> HIDE DEF b, v, V
  <2>6. Place(t, L, b) = n
    BY <2>1, <2>2, <2>3, <2>4, <2>5
  <2>7. Sorted(t, L)[n] = v
    BY <2>2, <2>6, SortedIs
  <2>8. Sorted(s, K)[n] = v
    BY <2>1, SortedIs DEF v
  <2>9. QED  BY <2>7, <2>8
<1>4. Sorted(s, K) = [n \in 1..Cardinality(K) |-> Sorted(s, K)[n]]
  BY <1>2 DEF Sorted
<1>5. Sorted(t, L) = [n \in 1..Cardinality(K) |-> Sorted(t, L)[n]]
  BY <1>1, <1>2 DEF Sorted
<1>6. QED  BY <1>3, <1>4, <1>5

\* What a list has, and how often.
Content(s, K) == {<<s[i], Cardinality(Same(s, K, s[i]))>> : i \in K}

\* Lists are sorted into one exactly if they have the same content.
LEMMA SortedByContent ==
  ASSUME NEW s, NEW K, IsList(s, K), NEW t, NEW L, IsList(t, L)
  PROVE  Sorted(s, K) = Sorted(t, L) <=> Content(s, K) = Content(t, L)
<1>1. ASSUME Content(s, K) = Content(t, L) PROVE Sorted(s, K) = Sorted(t, L)
  <2>1. ASSUME NEW v, NEW i \in K, s[i] = v
        PROVE  Cardinality(Same(s, K, v)) = Cardinality(Same(t, L, v))
    <3>1. <<v, Cardinality(Same(s, K, v))>> \in Content(s, K)
      BY <2>1 DEF Content
    <3>2. PICK j \in L : <<v, Cardinality(Same(s, K, v))>> = <<t[j], Cardinality(Same(t, L, t[j]))>>
      BY <1>1, <3>1 DEF Content
    <3>3. QED  BY <3>2
  <2>2. ASSUME NEW v, NEW j \in L, t[j] = v
        PROVE  Cardinality(Same(s, K, v)) = Cardinality(Same(t, L, v))
    <3>1. <<v, Cardinality(Same(t, L, v))>> \in Content(t, L)
      BY <2>2 DEF Content
    <3>2. PICK i \in K : <<v, Cardinality(Same(t, L, v))>> = <<s[i], Cardinality(Same(s, K, s[i]))>>
      BY <1>1, <3>1 DEF Content
    <3>3. QED  BY <3>2
  <2>3. ASSUME NEW v, \A i \in K : s[i] # v, \A j \in L : t[j] # v
        PROVE  Cardinality(Same(s, K, v)) = Cardinality(Same(t, L, v))
    <3>1. Same(s, K, v) = {} /\ Same(t, L, v) = {}
      BY <2>3 DEF Same
    <3>2. QED  BY <3>1
  <2>4. AsOften(s, K, t, L)
    <3>1. SUFFICES ASSUME NEW v \in Pairs
                   PROVE  Cardinality(Same(s, K, v)) = Cardinality(Same(t, L, v))
      BY DEF AsOften
    <3>2. CASE \E i \in K : s[i] = v
      BY <2>1, <3>2, Zenon
    <3>3. CASE \E j \in L : t[j] = v
      BY <2>2, <3>3, Zenon
    <3>4. CASE (\A i \in K : s[i] # v) /\ (\A j \in L : t[j] # v)
      BY <2>3, <3>4, Zenon
    <3>5. QED  BY <3>2, <3>3, <3>4
  <2>5. QED  BY <2>4, SortedAlike
<1>2. ASSUME Sorted(s, K) = Sorted(t, L) PROVE Content(s, K) = Content(t, L)
  <2>1. ASSUME NEW v PROVE Cardinality(Same(s, K, v)) = Cardinality(Same(t, L, v))
    BY <1>2, SortKeeps
  <2>2. ASSUME NEW i \in K PROVE \E j \in L : t[j] = s[i]
    <3> DEFINE n == Place(s, K, i)
    <3>1. n \in DOMAIN Sorted(t, L) /\ Sorted(t, L)[n] = s[i]
      BY <1>2, PlacesAre, SortedIs
    <3>2. n \in 1..Cardinality(L)
      BY <3>1, SortedIs
    <3>3. PICK j \in L : Place(t, L, j) = n
      BY <3>2, PlacesAre
    <3>4. QED  BY <3>1, <3>3, SortedIs
  <2>3. ASSUME NEW j \in L PROVE \E i \in K : s[i] = t[j]
    <3> DEFINE n == Place(t, L, j)
    <3>1. n \in DOMAIN Sorted(s, K) /\ Sorted(s, K)[n] = t[j]
      BY <1>2, PlacesAre, SortedIs
    <3>2. n \in 1..Cardinality(K)
      BY <3>1, SortedIs
    <3>3. PICK i \in K : Place(s, K, i) = n
      BY <3>2, PlacesAre
    <3>4. QED  BY <3>1, <3>3, SortedIs
  <2>4. ASSUME NEW i \in K
        PROVE  <<s[i], Cardinality(Same(s, K, s[i]))>> \in Content(t, L)
    BY <2>1, <2>2 DEF Content
  <2>5. ASSUME NEW j \in L
        PROVE  <<t[j], Cardinality(Same(t, L, t[j]))>> \in Content(s, K)
    BY <2>1, <2>3 DEF Content
  <2>6. Content(s, K) \subseteq Content(t, L)
    BY <2>4 DEF Content
  <2>7. Content(t, L) \subseteq Content(s, K)
    BY <2>5 DEF Content
  <2>8. QED  BY <2>6, <2>7
<1>3. QED  BY <1>1, <1>2

\* The parameters that are of no campaign.
Kept(url) == {i \in DOMAIN url.params : ~isTrackingParam(url.params[i][1])}

\* They are pairs of numbers, and finitely many.
LEMMA KeptIsAList ==
  ASSUME NEW url \in Urls
  PROVE  IsList(url.params, Kept(url))
<1> DEFINE s == url.params
<1>1. s \in Seq(Pairs)
  <2>1. Pairs = Int \X Int
    BY DEF Pairs
  <2>2. url.params \in Seq(Int \X Int)
    BY ParamsArePairs
  <2>3. QED  BY <2>1, <2>2
<1> HIDE DEF s
<1>2. DOMAIN s = 1..Len(s) /\ Len(s) \in Nat /\ \A i \in 1..Len(s) : s[i] \in Pairs
  BY <1>1
<1>3. Kept(url) \in SUBSET (1..Len(s))
  BY <1>2 DEF Kept, s
<1>4. IsFiniteSet(1..Len(s))
  BY <1>2, FS_Interval
<1>5. IsFiniteSet(Kept(url))
  BY <1>3, <1>4, FS_Subset
<1>6. QED  BY <1>2, <1>3, <1>5 DEF IsList, s

\* canonicalizeUrl gives two URLs one key exactly if they are one page.
LEMMA KeyIsThePage ==
  ASSUME NEW a \in Urls, NEW b \in Urls
  PROVE  canonicalizeUrl(a) = canonicalizeUrl(b) <=> Page(a) = Page(b)
<1> DEFINE KeyPort(url) == IF url.port = DefaultPort(url.protocol) THEN 0 ELSE url.port
           PagePort(url) == IF url.port = 0 THEN DefaultPort(url.protocol) ELSE url.port
           params(url) == Sorted(url.params, Kept(url))
           content(url) == Content(url.params, Kept(url))
<1>1. ASSUME NEW url
      PROVE  canonicalizeUrl(url) = [protocol |-> url.protocol, host |-> url.host,
                                     port |-> KeyPort(url), params |-> params(url)]
  BY DEF canonicalizeUrl, Kept
<1>2. ASSUME NEW url
      PROVE  Page(url) = <<url.protocol, url.host, PagePort(url), content(url)>>
  BY DEF Page, Kept, Content, Same, isTrackingParam
<1>3. params(a) = params(b) <=> content(a) = content(b)
  BY KeptIsAList, SortedByContent
<1>4. a.protocol = b.protocol => (KeyPort(a) = KeyPort(b) <=> PagePort(a) = PagePort(b))
  BY DEF DefaultPort
<1> HIDE DEF KeyPort, PagePort, params, content
<1>5. canonicalizeUrl(a) = canonicalizeUrl(b) <=>
        /\ a.protocol = b.protocol /\ a.host = b.host
        /\ KeyPort(a) = KeyPort(b) /\ params(a) = params(b)
  <2>1. canonicalizeUrl(a) = [protocol |-> a.protocol, host |-> a.host,
                              port |-> KeyPort(a), params |-> params(a)]
    BY <1>1
  <2>2. canonicalizeUrl(b) = [protocol |-> b.protocol, host |-> b.host,
                              port |-> KeyPort(b), params |-> params(b)]
    BY <1>1
  <2>3. QED  BY <2>1, <2>2
<1>6. Page(a) = Page(b) <=>
        /\ a.protocol = b.protocol /\ a.host = b.host
        /\ PagePort(a) = PagePort(b) /\ content(a) = content(b)
  BY <1>2
<1>7. QED  BY <1>3, <1>4, <1>5, <1>6

\* Whatever the URLs, their parameters and the names of campaigns: canonicalizeUrl, which
\* sorts what is left of the parameters by name and then by value, gives two URLs one key if
\* they are one page, and if they are not, two.
THEOREM KeysHold == Trials => []OneKeyPerPage
<1>1. trial = NoTrial \/ InitTrial => OneKeyPerPage
  <2>1. ASSUME trial.what = "url" => trial.input \in Urls PROVE OneKeyPerPage
    BY <2>1, KeyIsThePage DEF OneKeyPerPage
  <2>2. QED  BY <2>1, InitIsATrial
<1>2. OneKeyPerPage /\ [UNCHANGED trial]_trial => OneKeyPerPage'
  BY DEF OneKeyPerPage
<1>3. QED  BY <1>1, <1>2, PTL DEF Trials

-----------------------------------------------------------------------------
(***************************************************************************)
(* The hosts. An address is in a block if its number is, which its first   *)
(* octets tell; and the text of an IPv6 address is taken apart where its   *)
(* first "::" is, which is where it was put.                               *)
(***************************************************************************)
\* Four octets.
Quads == [1..4 -> 0..255]

\* The block of an address is told by its first octets.
LEMMA BlocksAre ==
  ASSUME NEW o \in Quads
  PROVE  /\ IsIn(o, <<Address(0, 0, 0), Slash8, "unspecified">>) <=> o[1] = 0
         /\ IsIn(o, <<Address(127, 0, 0), Slash8, "loopback">>) <=> o[1] = 127
         /\ IsIn(o, <<Address(10, 0, 0), Slash8, "private">>) <=> o[1] = 10
         /\ IsIn(o, <<Address(172, 16, 0), Slash12, "private">>) <=> o[1] = 172 /\ o[2] \in 16..31
         /\ IsIn(o, <<Address(192, 168, 0), Slash16, "private">>) <=> o[1] = 192 /\ o[2] = 168
         /\ IsIn(o, <<Address(169, 254, 0), Slash16, "link-local">>) <=> o[1] = 169 /\ o[2] = 254
         /\ IsIn(o, <<Address(100, 64, 0), Slash10, "carrier-grade-nat">>)
              <=> o[1] = 100 /\ o[2] \in 64..127
         /\ IsIn(o, <<Address(224, 0, 0), Slash4, "multicast">>) <=> o[1] \in 224..239
         /\ IsIn(o, <<Address(240, 0, 0), Slash4, "reserved">>) <=> o[1] >= 240
         /\ IsIn(o, <<Address(192, 0, 0), Slash24, "reserved">>)
              <=> o[1] = 192 /\ o[2] = 0 /\ o[3] = 0
         /\ IsIn(o, <<Address(192, 0, 2), Slash24, "reserved">>)
              <=> o[1] = 192 /\ o[2] = 0 /\ o[3] = 2
         /\ IsIn(o, <<Address(198, 51, 100), Slash24, "reserved">>)
              <=> o[1] = 198 /\ o[2] = 51 /\ o[3] = 100
         /\ IsIn(o, <<Address(203, 0, 113), Slash24, "reserved">>)
              <=> o[1] = 203 /\ o[2] = 0 /\ o[3] = 113
         /\ IsIn(o, <<Address(198, 18, 0), Slash15, "reserved">>) <=> o[1] = 198 /\ o[2] \in {18, 19}
<1>1. PICK a \in 0..255, b \in 0..255, c \in 0..255 : o[1] = a /\ o[2] = b /\ o[3] = c
  <2>1. o[1] \in 0..255 /\ o[2] \in 0..255 /\ o[3] \in 0..255
    BY DEF Quads
  <2>2. QED  BY <2>1, Zenon
<1>2. \A first, size, class :
        IsIn(o, <<first, size, class>>) <=>
          first <= Address(a, b, c) /\ Address(a, b, c) < first + size
  BY <1>1 DEF IsIn
<1>3. Address(0, 0, 0) <= Address(a, b, c) /\ Address(a, b, c) < Address(0, 0, 0) + Slash8
        <=> a = 0
  BY DEF Address, Slash8
<1>4. Address(127, 0, 0) <= Address(a, b, c) /\ Address(a, b, c) < Address(127, 0, 0) + Slash8
        <=> a = 127
  BY DEF Address, Slash8
<1>5. Address(10, 0, 0) <= Address(a, b, c) /\ Address(a, b, c) < Address(10, 0, 0) + Slash8
        <=> a = 10
  BY DEF Address, Slash8
<1>6. Address(172, 16, 0) <= Address(a, b, c) /\ Address(a, b, c) < Address(172, 16, 0) + Slash12
        <=> a = 172 /\ b \in 16..31
  BY DEF Address, Slash12
<1>7. Address(192, 168, 0) <= Address(a, b, c) /\ Address(a, b, c) < Address(192, 168, 0) + Slash16
        <=> a = 192 /\ b = 168
  BY DEF Address, Slash16
<1>8. Address(169, 254, 0) <= Address(a, b, c) /\ Address(a, b, c) < Address(169, 254, 0) + Slash16
        <=> a = 169 /\ b = 254
  BY DEF Address, Slash16
<1>9. Address(100, 64, 0) <= Address(a, b, c) /\ Address(a, b, c) < Address(100, 64, 0) + Slash10
        <=> a = 100 /\ b \in 64..127
  BY DEF Address, Slash10
<1>10. Address(224, 0, 0) <= Address(a, b, c) /\ Address(a, b, c) < Address(224, 0, 0) + Slash4
        <=> a \in 224..239
  BY DEF Address, Slash4
<1>11. Address(240, 0, 0) <= Address(a, b, c) /\ Address(a, b, c) < Address(240, 0, 0) + Slash4
        <=> a >= 240
  BY DEF Address, Slash4
<1>12. Address(192, 0, 0) <= Address(a, b, c) /\ Address(a, b, c) < Address(192, 0, 0) + Slash24
        <=> a = 192 /\ b = 0 /\ c = 0
  BY DEF Address, Slash24
<1>13. Address(192, 0, 2) <= Address(a, b, c) /\ Address(a, b, c) < Address(192, 0, 2) + Slash24
        <=> a = 192 /\ b = 0 /\ c = 2
  BY DEF Address, Slash24
<1>14. Address(198, 51, 100) <= Address(a, b, c) /\ Address(a, b, c) < Address(198, 51, 100) + Slash24
        <=> a = 198 /\ b = 51 /\ c = 100
  BY DEF Address, Slash24
<1>15. Address(203, 0, 113) <= Address(a, b, c) /\ Address(a, b, c) < Address(203, 0, 113) + Slash24
        <=> a = 203 /\ b = 0 /\ c = 113
  BY DEF Address, Slash24
<1>16. Address(198, 18, 0) <= Address(a, b, c) /\ Address(a, b, c) < Address(198, 18, 0) + Slash15
        <=> a = 198 /\ (b = 18 \/ b = 19)
  BY DEF Address, Slash15
<1>17. QED  BY <1>1, <1>2, <1>3, <1>4, <1>5, <1>6, <1>7, <1>8, <1>9, <1>10, <1>11, <1>12, <1>13, <1>14, <1>15, <1>16

\* classifyIpv4 says in which block an address is.
LEMMA ClassIsTheBlocks ==
  ASSUME NEW o \in Quads
  PROVE  ClassesOf(o) = {classifyIpv4(o)} \ {"public"}
<1>1. o[1] \in 0..255 /\ o[2] \in 0..255 /\ o[3] \in 0..255
  BY DEF Quads
<1>2. \A class : class \in ClassesOf(o) <=> \E block \in Blocks : IsIn(o, block) /\ class = block[3]
  BY DEF ClassesOf
<1>3. QED  BY <1>1, <1>2, BlocksAre DEF Blocks, classifyIpv4

\* Even numbers, odd numbers, and half of them.
LEMMA Halves ==
  ASSUME NEW n \in Nat
  PROVE  /\ (2 * n) % 2 = 0 /\ (2 * n + 1) % 2 = 1 /\ (2 * n) \div 2 = n /\ (2 * n + 1) \div 2 = n
         /\ n % 2 \in {0, 1} /\ (n + 1) % 2 # n % 2 /\ (n % 2 = 1 => (n + 1) \div 2 \in Nat)
OBVIOUS

\* The text of groups: colons at the even places, groups at the odd ones.
LEMMA JoinedIs ==
  ASSUME NEW g \in Seq(Nat)
  PROVE  LET text == Joined(g)
             m == IF Len(g) = 0 THEN 0 ELSE 2 * Len(g) - 1
         IN /\ text \in Seq(Int) /\ Len(text) = m /\ DOMAIN text = 1..m
            /\ \A i \in 1..m : i % 2 = 0 => text[i] = Colon
            /\ \A i \in 1..m : i % 2 = 1 => text[i] = g[(i + 1) \div 2] /\ text[i] # Colon
<1> DEFINE text == Joined(g)
           n == Len(g)
           m == IF n = 0 THEN 0 ELSE 2 * n - 1
<1>1. n \in Nat /\ m \in Nat /\ (g = <<>> <=> n = 0) /\ \A j \in 1..n : g[j] \in Nat
  OBVIOUS
<1>2. text = [i \in 1..m |-> IF i % 2 = 1 THEN g[(i + 1) \div 2] ELSE Colon]
  BY <1>1 DEF Joined
<1> HIDE DEF text
<1>3. ASSUME NEW i \in 1..m, i % 2 = 1 PROVE g[(i + 1) \div 2] \in Nat
  <2>1. (i + 1) \div 2 \in 1..n
    BY <1>1, <1>3
  <2>2. QED  BY <1>1, <2>1
<1>4. ASSUME NEW i \in 1..m, i % 2 = 1 PROVE text[i] = g[(i + 1) \div 2] /\ text[i] # Colon
  BY <1>2, <1>3, <1>4 DEF Colon
<1>5. ASSUME NEW i \in 1..m, i % 2 = 0 PROVE text[i] = Colon
  BY <1>2, <1>5
<1>6. text \in [1..m -> Int]
  <2>1. ASSUME NEW i \in 1..m PROVE (IF i % 2 = 1 THEN g[(i + 1) \div 2] ELSE Colon) \in Int
    BY <1>3 DEF Colon
  <2> HIDE DEF m
  <2>2. QED  BY <1>2, <2>1
<1>7. text \in Seq(Int) /\ Len(text) = m /\ DOMAIN text = 1..m
  <2> HIDE DEF m
  <2>1. QED  BY <1>1, <1>6
<1>8. QED  BY <1>4, <1>5, <1>7 DEF text

\* It is read as the groups, and has no "::".
LEMMA JoinedIsRead ==
  ASSUME NEW g \in Seq(Nat)
  PROVE  parseGroups(Joined(g)) = g /\ Gaps(Joined(g)) = {}
<1> DEFINE text == Joined(g)
           n == Len(g)
           m == IF n = 0 THEN 0 ELSE 2 * n - 1
<1>1. /\ text \in Seq(Int) /\ Len(text) = m /\ DOMAIN text = 1..m
      /\ \A i \in 1..m : i % 2 = 0 => text[i] = Colon
      /\ \A i \in 1..m : i % 2 = 1 => text[i] = g[(i + 1) \div 2] /\ text[i] # Colon
  BY JoinedIs
<1>2. n \in Nat /\ m \in Nat /\ g = [j \in 1..n |-> g[j]]
  OBVIOUS
<1> HIDE DEF text
<1>3. \A i \in DOMAIN text : text[i] = Colon <=> i % 2 = 0
  <2>1. \A i \in 1..m : i % 2 = 0 \/ i % 2 = 1
    BY <1>2
  <2>2. QED  BY <1>1, <2>1
<1>4. text = <<>> \/ Len(text) % 2 = 1
  <2>1. CASE n = 0
    BY <1>1, <2>1
  <2>2. CASE n # 0
    BY <1>1, <1>2, <2>2
  <2>3. QED  BY <2>1, <2>2
<1>5. parseGroups(text) = [i \in 1..(Len(text) + 1) \div 2 |-> text[2 * i - 1]]
  BY <1>3, <1>4 DEF parseGroups
<1>6. (Len(text) + 1) \div 2 = n
  <2>1. CASE n = 0
    BY <1>1, <2>1
  <2>2. CASE n # 0
    <3>1. Len(text) + 1 = 2 * n
      BY <1>1, <1>2, <2>2
    <3>2. QED  BY <1>2, <3>1, Halves
  <2>3. QED  BY <2>1, <2>2
<1>7. ASSUME NEW i \in 1..n PROVE text[2 * i - 1] = g[i]
  <2>1. 2 * i - 1 \in 1..m /\ (2 * i - 1) % 2 = 1 /\ ((2 * i - 1) + 1) \div 2 = i
    BY <1>2
  <2>2. QED  BY <1>1, <2>1
<1>8. parseGroups(text) = g
  <2> HIDE DEF n
  <2>1. QED  BY <1>2, <1>5, <1>6, <1>7
<1>9. ASSUME NEW i \in Gaps(text) PROVE FALSE
  <2>1. i \in 1..m /\ i + 1 \in 1..m /\ text[i] = Colon /\ text[i + 1] = Colon
    BY <1>1, <1>2 DEF Gaps
  <2>2. i % 2 = 0 /\ (i + 1) % 2 = 0
    BY <1>1, <1>3, <2>1
  <2>3. QED  BY <2>1, <2>2
<1>10. QED  BY <1>8, <1>9 DEF text

\* Two texts about a "::".
Around(left, right) == left \o <<Colon, Colon>> \o right

\* What such a text has, where, and what it is taken apart into.
LEMMA AroundIs ==
  ASSUME NEW left \in Seq(Int), NEW right \in Seq(Int)
  PROVE  LET text == Around(left, right)
             p == Len(left)
         IN /\ text \in Seq(Int) /\ Len(text) = p + 2 + Len(right)
            /\ \A i \in 1..p : text[i] = left[i]
            /\ text[p + 1] = Colon /\ text[p + 2] = Colon
            /\ SubSeq(text, 1, p) = left /\ SubSeq(text, p + 3, Len(text)) = right
<1> DEFINE text == Around(left, right)
           p == Len(left)
           q == Len(right)
           mid == <<Colon, Colon>>
<1>1. p \in Nat /\ q \in Nat /\ mid \in Seq(Int) /\ Len(mid) = 2 /\ mid[1] = Colon /\ mid[2] = Colon
  BY DEF Colon
<1> HIDE DEF mid
<1>2. left \o mid \in Seq(Int) /\ Len(left \o mid) = p + 2
  <2> DEFINE S == Int
  <2>1. left \in Seq(S) /\ mid \in Seq(S)
    BY <1>1
  <2> HIDE DEF S
  <2>2. left \o mid \in Seq(S) /\ Len(left \o mid) = Len(left) + Len(mid)
    BY <2>1, ConcatProperties
  <2>3. QED  BY <1>1, <2>2 DEF S
<1>3. text = (left \o mid) \o right
  BY DEF Around, mid
<1>4. text \in Seq(Int) /\ Len(text) = p + 2 + q
  BY <1>1, <1>2, <1>3
<1>5. ASSUME NEW i \in 1..p PROVE text[i] = left[i]
  BY <1>1, <1>2, <1>3
<1>6. text[p + 1] = Colon /\ text[p + 2] = Colon
  BY <1>1, <1>2, <1>3
<1>7. ASSUME NEW i \in 1..q PROVE text[p + 2 + i] = right[i]
  BY <1>1, <1>2, <1>3
<1> HIDE DEF text
<1>8. SubSeq(text, 1, p) = left
  <2>1. SubSeq(text, 1, p) = [i \in 1..p |-> text[i]]
    BY <1>1, <1>4
  <2>2. left = [i \in 1..p |-> left[i]]
    OBVIOUS
  <2> HIDE DEF p
  <2>3. QED  BY <1>5, <2>1, <2>2
<1>9. SubSeq(text, p + 3, Len(text)) = right
  <2>1. SubSeq(text, p + 3, Len(text)) = [i \in 1..q |-> text[p + 2 + i]]
    BY <1>1, <1>4
  <2>2. right = [i \in 1..q |-> right[i]]
    OBVIOUS
  <2> HIDE DEF p, q
  <2>3. QED  BY <1>7, <2>1, <2>2
<1>10. QED  BY <1>4, <1>5, <1>6, <1>8, <1>9 DEF text

\* The first "::" between two texts of groups is the one that was put there.
LEMMA GapIs ==
  ASSUME NEW head \in Seq(Nat), NEW rest \in Seq(Nat)
  PROVE  LET text == Around(Joined(head), Joined(rest)) IN
         Gaps(text) # {} /\ Min(Gaps(text)) = Len(Joined(head)) + 1
<1> DEFINE left == Joined(head)
           right == Joined(rest)
           text == Around(left, right)
           p == Len(left)
<1>1. /\ left \in Seq(Int) /\ right \in Seq(Int) /\ p \in Nat /\ Len(right) \in Nat
      /\ p # 0 => p % 2 = 1
      /\ \A i \in 1..p : i % 2 = 1 => left[i] # Colon
  <2>1. /\ left \in Seq(Int) /\ right \in Seq(Int)
        /\ p = IF Len(head) = 0 THEN 0 ELSE 2 * Len(head) - 1
        /\ \A i \in 1..p : i % 2 = 1 => left[i] # Colon
    BY JoinedIs
  <2> HIDE DEF left, right
  <2>2. p # 0 => p % 2 = 1
    <3>1. Len(head) \in Nat
      OBVIOUS
    <3>2. p # 0 => p = 2 * Len(head) - 1 /\ Len(head) # 0
      BY <2>1, <3>1
    <3> HIDE DEF p
    <3>3. QED  BY <3>1, <3>2
  <2>3. QED  BY <2>1, <2>2
<1>2. Gaps(left) = {}
  BY JoinedIsRead
<1> HIDE DEF left, right
<1>3. /\ Len(text) = p + 2 + Len(right)
      /\ \A i \in 1..p : text[i] = left[i]
      /\ text[p + 1] = Colon /\ text[p + 2] = Colon
  BY <1>1, AroundIs
<1> HIDE DEF text
<1>4. p + 1 \in Gaps(text)
  BY <1>1, <1>3 DEF Gaps
<1>5. ASSUME NEW i \in Gaps(text) PROVE p + 1 <= i
  <2>1. i \in 1..Len(text) - 1 /\ text[i] = Colon /\ text[i + 1] = Colon
    BY DEF Gaps
  <2>2. CASE i < p
    <3>1. i \in 1..p /\ i + 1 \in 1..p /\ i \in 1..p - 1
      <4> HIDE DEF p
      <4>1. QED  BY <1>1, <1>3, <2>1, <2>2
    <3>4. left[i] = Colon /\ left[i + 1] = Colon
      BY <1>3, <2>1, <3>1
    <3>2. i \in Gaps(left)
      BY <3>1, <3>4 DEF Gaps
    <3>3. QED  BY <1>2, <3>2
  <2>3. CASE i = p
    <3>1. i \in 1..p /\ i % 2 = 1
      BY <1>1, <2>1, <2>3
    <3>2. QED  BY <1>1, <1>3, <2>1, <3>1
  <2> HIDE DEF p
  <2>4. i \in Nat
    BY <1>1, <1>3, <2>1
  <2>5. QED  BY <1>1, <2>2, <2>3, <2>4
<1> DEFINE G == Gaps(text)
<1>6. Min(G) \in G /\ \A y \in G : Min(G) <= y
  <2> HIDE DEF G
  <2>1. p + 1 \in G /\ \A y \in G : p + 1 <= y
    BY <1>4, <1>5 DEF G
  <2>2. QED  BY <2>1, Zenon DEF Min
<1>7. G \subseteq Int
  BY <1>1, <1>3 DEF Gaps
<1>8. Min(G) = p + 1
  <2>1. Min(G) <= p + 1 /\ p + 1 <= Min(G) /\ Min(G) \in Int
    BY <1>4, <1>5, <1>6, <1>7
  <2> HIDE DEF G
  <2>2. QED  BY <1>1, <2>1
<1>9. QED  BY <1>4, <1>8 DEF text, left, right

\* The two groups that a quad stands for.
Suffix(quad) ==
  IF quad = <<>> THEN <<>> ELSE <<quad[1] * 256 + quad[2], quad[3] * 256 + quad[4]>>

\* No groups are NoGroups.
LEMMA GroupsAreGroups ==
  ASSUME NEW g \in Seq(Nat)
  PROVE  g # NoGroups
<1>1. SUFFICES ASSUME g = NoGroups PROVE FALSE
  OBVIOUS
<1>2. g[1] = -1 /\ Len(g) = 1
  BY <1>1 DEF NoGroups
<1>3. g[1] \in Nat
  BY <1>2
<1>4. QED  BY <1>2, <1>3

\* What is left of a sequence around some of it, and that, are the sequence.
LEMMA FilledIn ==
  ASSUME NEW g \in Seq(Nat), NEW lo \in 1..Len(g), NEW hi \in lo..Len(g),
         \A i \in lo..hi : g[i] = 0
  PROVE  LET head == SubSeq(g, 1, lo - 1)
             rest == SubSeq(g, hi + 1, Len(g))
         IN /\ head \in Seq(Nat) /\ Len(head) = lo - 1
            /\ rest \in Seq(Nat) /\ Len(rest) = Len(g) - hi
            /\ (head \o [i \in 1..hi - lo + 1 |-> 0]) \o rest = g
<1> DEFINE n == Len(g)
           head == SubSeq(g, 1, lo - 1)
           rest == SubSeq(g, hi + 1, n)
           k == hi - lo + 1
           zeros == [i \in 1..k |-> 0]
           S == Nat
<1>1. /\ n \in Nat /\ lo \in Nat /\ hi \in Nat /\ 1 <= lo /\ lo <= hi /\ hi <= n
      /\ k \in Nat /\ lo - 1 \in Nat /\ n - hi \in Nat
  OBVIOUS
<1>2. /\ head \in Seq(Nat) /\ Len(head) = lo - 1
      /\ \A i \in 1..lo - 1 : head[i] = g[i]
  BY <1>1
<1>3. /\ rest \in Seq(Nat) /\ Len(rest) = n - hi
      /\ \A i \in 1..n - hi : rest[i] = g[hi + i]
  BY <1>1
<1>4. zeros \in Seq(Nat) /\ Len(zeros) = k /\ \A i \in 1..k : zeros[i] = 0
  <2>1. zeros \in [1..k -> Nat] /\ \A i \in 1..k : zeros[i] = 0
    OBVIOUS
  <2> HIDE DEF zeros, k
  <2>2. QED  BY <1>1, <2>1
<1>5. g \in Seq(S) /\ head \in Seq(S) /\ rest \in Seq(S) /\ zeros \in Seq(S)
  BY <1>2, <1>3, <1>4
<1> DEFINE h == head \o zeros
           w == h \o rest
<1> HIDE DEF head, rest, zeros, S, k
<1>6. /\ h \in Seq(S) /\ Len(h) = Len(head) + Len(zeros)
      /\ \A i \in 1..Len(head) + Len(zeros) :
           h[i] = IF i <= Len(head) THEN head[i] ELSE zeros[i - Len(head)]
  BY <1>5, ConcatProperties
<1> HIDE DEF h
<1>7. /\ w \in Seq(S) /\ Len(w) = Len(h) + Len(rest)
      /\ \A i \in 1..Len(h) + Len(rest) :
           w[i] = IF i <= Len(h) THEN h[i] ELSE rest[i - Len(h)]
  <2>1. h \in Seq(S) /\ rest \in Seq(S)
    BY <1>5, <1>6
  <2>2. QED  BY <2>1, ConcatProperties
<1> HIDE DEF w, n
<1>8. k = hi - lo + 1
  BY DEF k
<1>9. Len(w) = n
  BY <1>1, <1>2, <1>3, <1>4, <1>6, <1>7, <1>8
<1>10. ASSUME NEW i \in 1..n PROVE w[i] = g[i]
  <2>1. i \in Nat /\ 1 <= i /\ i <= n /\ Len(h) = hi
    BY <1>1, <1>2, <1>4, <1>6, <1>8
  <2>2. CASE i < lo
    <3>1. w[i] = h[i] /\ h[i] = head[i]
      BY <1>1, <1>2, <1>3, <1>4, <1>6, <1>7, <1>8, <2>1, <2>2
    <3>2. i \in 1..lo - 1
      BY <1>1, <2>1, <2>2
    <3>3. QED  BY <1>2, <3>1, <3>2
  <2>3. CASE lo <= i /\ i <= hi
    <3>0. i \in 1..Len(h) + Len(rest) /\ i <= Len(h) /\ i \in 1..Len(head) + Len(zeros)
          /\ ~ i <= Len(head) /\ i - Len(head) = i - (lo - 1)
      BY <1>1, <1>2, <1>3, <1>4, <1>8, <2>1, <2>3
    <3>1. w[i] = h[i] /\ h[i] = zeros[i - (lo - 1)]
      BY <1>6, <1>7, <3>0
    <3>2. i - (lo - 1) \in 1..k /\ i \in lo..hi
      BY <1>1, <1>8, <2>1, <2>3
    <3>3. QED  BY <1>4, <3>1, <3>2
  <2>4. CASE hi < i
    <3>1. w[i] = rest[i - hi]
      BY <1>1, <1>2, <1>3, <1>4, <1>6, <1>7, <1>8, <2>1, <2>4
    <3>2. i - hi \in 1..n - hi /\ hi + (i - hi) = i
      BY <1>1, <2>1, <2>4
    <3>3. QED  BY <1>3, <3>1, <3>2
  <2>5. QED  BY <1>1, <2>1, <2>2, <2>3, <2>4
<1>11. w = g
  BY <1>5, <1>7, <1>9, <1>10, SeqEqual DEF n
<1>12. QED  BY <1>2, <1>3, <1>11 DEF n, w, h, head, rest, zeros, k

\* What is left when a literal's quad is taken off.
Text(literal, quad) == IF quad = <<>> THEN literal ELSE SubSeq(literal, 1, Len(literal) - 1)

\* However the zeros are written, the text is read as the address.
LEMMA SpelledIsRead ==
  ASSUME NEW g \in Seq(Nat), NEW quad, NEW suffix \in Seq(Nat), suffix = Suffix(quad),
         Len(g) + Len(suffix) = 8, NEW z \in Zeros(g),
         NEW literal, Text(literal, quad) = Spelled(g, z[1], z[2])
  PROVE  parseIpv6(literal, quad) = g \o suffix
<1> DEFINE n == Len(g)
           text == Spelled(g, z[1], z[2])
<1>1. n \in Nat /\ suffix \in Seq(Nat) /\ Len(suffix) \in Nat /\ n + Len(suffix) = 8
      /\ DOMAIN g = 1..n
  OBVIOUS
<1>a. Text(literal, quad) = text
  OBVIOUS
<1>2. CASE z[1] > z[2]
  <2>1. text = Joined(g)
    BY <1>2 DEF Spelled
  <2>2. Gaps(text) = {} /\ parseGroups(text) = g
    BY <2>1, JoinedIsRead
  <2>3. g # NoGroups /\ <<>> # NoGroups /\ Len(<<>>) = 0
    BY GroupsAreGroups DEF NoGroups
  <2>4. suffix = IF quad = <<>> THEN <<>>
                 ELSE <<quad[1] * 256 + quad[2], quad[3] * 256 + quad[4]>>
    BY DEF Suffix
  <2>5. n + Len(<<>>) + Len(suffix) = 8
    BY <1>1
  <2> HIDE DEF text, n
  <2>6. parseIpv6(literal, quad) =
          IF Len(g) + Len(<<>>) + Len(suffix) = 8 THEN g \o suffix ELSE NoGroups
    <3> DEFINE empty == <<>>
    <3>1. empty = <<>>
      OBVIOUS
    <3> HIDE DEF empty
    <3>2. parseIpv6(literal, quad) =
            IF g = NoGroups \/ empty = NoGroups THEN NoGroups
            ELSE IF Len(g) + Len(empty) + Len(suffix) = 8 THEN g \o suffix ELSE NoGroups
      BY <1>a, <2>2, <2>4, <3>1 DEF parseIpv6, Text
    <3>3. QED  BY <2>3, <3>1, <3>2
  <2>7. parseIpv6(literal, quad) = g \o suffix
    BY <2>5, <2>6 DEF n
  <2>8. QED  BY <2>7
<1>3. CASE ~ z[1] > z[2]
  <2> DEFINE lo == z[1]
             hi == z[2]
             head == SubSeq(g, 1, lo - 1)
             rest == SubSeq(g, hi + 1, n)
             zeros == [i \in 1..hi - lo + 1 |-> 0]
             p == Len(Joined(head))
  <2>1. lo \in 1..n /\ hi \in lo..n /\ \A i \in lo..hi : g[i] = 0
    BY <1>1, <1>3 DEF Zeros
  <2>2. /\ head \in Seq(Nat) /\ Len(head) = lo - 1
        /\ rest \in Seq(Nat) /\ Len(rest) = n - hi
        /\ (head \o zeros) \o rest = g
    BY <2>1, FilledIn
  <2>3. text = Around(Joined(head), Joined(rest))
    BY <1>1, <1>3, <2>1 DEF Spelled, Around
  <2> HIDE DEF head, rest
  <2>4. Gaps(text) # {} /\ Min(Gaps(text)) = p + 1
    BY <2>2, <2>3, GapIs
  <2>5. SubSeq(text, 1, p) = Joined(head) /\ SubSeq(text, p + 3, Len(text)) = Joined(rest)
    <3>1. Joined(head) \in Seq(Int) /\ Joined(rest) \in Seq(Int)
      BY <2>2, JoinedIs
    <3>2. LET t == Around(Joined(head), Joined(rest))
              q == Len(Joined(head))
          IN SubSeq(t, 1, q) = Joined(head) /\ SubSeq(t, q + 3, Len(t)) = Joined(rest)
      BY <3>1, AroundIs
    <3>3. QED  BY <2>3, <3>2
  <2>6. p \in Nat
    <3>1. Joined(head) \in Seq(Int)
      BY <2>2, JoinedIs
    <3>2. QED  BY <3>1
  <2>7. parseGroups(Joined(head)) = head /\ head # NoGroups
    BY <2>2, JoinedIsRead, GroupsAreGroups
  <2>8. parseGroups(Joined(rest)) = rest /\ rest # NoGroups /\ Gaps(Joined(rest)) = {}
    BY <2>2, JoinedIsRead, GroupsAreGroups
  <2> DEFINE known == Len(head) + Len(rest) + Len(suffix)
  <2>9. known <= 7 /\ 8 - Len(head) - Len(rest) - Len(suffix) = hi - lo + 1
    <3>1. /\ lo \in Int /\ hi \in Int /\ 1 <= lo /\ lo <= hi /\ hi <= n
          /\ Len(head) = lo - 1 /\ Len(rest) = n - hi
      BY <1>1, <2>1, <2>2
    <3>2. n \in Int /\ Len(suffix) \in Int /\ Len(suffix) = 8 - n
      BY <1>1
    <3> HIDE DEF lo, hi, n
    <3>3. known = 8 - (hi - lo + 1)
      BY <3>1, <3>2
    <3>4. known <= 7
      <4> HIDE DEF known
      <4>1. QED  BY <3>1, <3>3
    <3>5. 8 - Len(head) - Len(rest) - Len(suffix) = hi - lo + 1
      BY <3>1, <3>2
    <3>6. QED  BY <3>4, <3>5
  <2>10. p + 1 # 0 /\ (p + 1) - 1 = p /\ (p + 1) + 2 = p + 3
    BY <2>6
  <2> HIDE DEF text, p, known
  <2>11. parseIpv6(literal, quad) = Expand(head, rest, suffix)
    <3>1. suffix = IF quad = <<>> THEN <<>>
                   ELSE <<quad[1] * 256 + quad[2], quad[3] * 256 + quad[4]>>
      BY DEF Suffix
    <3>2. ~ known > 7
      <4>1. known \in Int
        BY <1>1, <2>1, <2>2 DEF known
      <4>2. QED  BY <2>9, <4>1
    <3>3. parseIpv6(literal, quad) =
            IF known > 7 THEN NoGroups ELSE Expand(head, rest, suffix)
      BY <1>a, <2>4, <2>5, <2>7, <2>8, <2>10, <3>1 DEF parseIpv6, known, Text
    <3>4. QED  BY <3>2, <3>3
  <2>12. Expand(head, rest, suffix) = g \o suffix
    <3>1. QED  BY <2>2, <2>9 DEF Expand
  <2>13. QED  BY <2>11, <2>12
<1>4. QED  BY <1>2, <1>3

\* A colon too many: groups and one colon are no groups, and there is no "::".
LEMMA ColonLeftOver ==
  ASSUME NEW h \in Seq(Nat), NEW t \in Seq(Int), Len(t) = Len(Joined(h)) + 1,
         \A i \in 1..Len(Joined(h)) : t[i] = Joined(h)[i], t[Len(Joined(h)) + 1] = Colon
  PROVE  Gaps(t) = {} /\ parseGroups(t) = NoGroups
<1> DEFINE left == Joined(h)
           p == Len(left)
<1>1. /\ left \in Seq(Int) /\ p = (IF Len(h) = 0 THEN 0 ELSE 2 * Len(h) - 1)
      /\ \A i \in 1..p : i % 2 = 1 => left[i] # Colon
  BY JoinedIs
<1>2. Gaps(left) = {}
  BY JoinedIsRead
<1>3. Len(t) = p + 1 /\ t[p + 1] = Colon /\ \A i \in 1..p : t[i] = left[i]
  OBVIOUS
<1> HIDE DEF left
<1>4. p \in Nat /\ (p # 0 => p % 2 = 1 /\ (p + 1) % 2 = 0)
  <2>1. Len(h) \in Nat /\ (p # 0 => p = 2 * Len(h) - 1)
    BY <1>1
  <2>2. p \in Nat
    BY <1>1
  <2> HIDE DEF p
  <2>3. QED  BY <2>1, <2>2
<1> HIDE DEF p
<1>5. ASSUME NEW i \in Gaps(t) PROVE FALSE
  <2>1. i \in 1..p /\ t[i] = Colon /\ t[i + 1] = Colon
    BY <1>3, <1>4 DEF Gaps
  <2>2. CASE i = p
    <3>1. p # 0 /\ p \in 1..p
      BY <1>4, <2>1, <2>2
    <3>2. p % 2 = 1 /\ left[p] = Colon
      BY <1>3, <1>4, <2>1, <2>2, <3>1
    <3>3. QED  BY <1>1, <3>1, <3>2 DEF p
  <2>3. CASE i # p
    <3>1. i \in 1..p - 1 /\ i + 1 \in 1..p
      BY <1>4, <2>1, <2>3
    <3>2. left[i] = Colon /\ left[i + 1] = Colon
      BY <1>3, <2>1, <3>1
    <3>3. i \in Gaps(left)
      BY <3>1, <3>2 DEF Gaps, p
    <3>4. QED  BY <1>2, <3>3
  <2>4. QED  BY <2>2, <2>3
<1>6. parseGroups(t) = NoGroups
  <2>1. CASE p = 0
    <3>1. 1 \in DOMAIN t /\ t[1] = Colon /\ 1 % 2 # 0
      BY <1>3, <2>1
    <3>2. ~ \A i \in DOMAIN t : (t[i] = Colon) <=> (i % 2 = 0)
      BY <3>1
    <3>3. QED  BY <3>2 DEF parseGroups
  <2>2. CASE p # 0
    <3>1. t # <<>> /\ Len(t) % 2 = 0
      BY <1>3, <1>4, <2>2
    <3>2. ~(t = <<>> \/ Len(t) % 2 = 1)
      BY <3>1
    <3>3. QED  BY <3>2 DEF parseGroups
  <2>3. QED  BY <2>1, <2>2
<1>7. QED  BY <1>5, <1>6

\* What is before a quad is a spelling and a colon; so it is read, but for "::" at its end.
LEMMA QuadTakenOff ==
  ASSUME NEW g \in Seq(Nat), NEW z \in Zeros(g), NEW quad, quad # <<>>
  PROVE  LET literal == BeforeQuad(g, z[1], z[2]) IN
         IF z[1] <= z[2] /\ z[2] = Len(g) THEN parseIpv6(literal, quad) = NoGroups
         ELSE Text(literal, quad) = Spelled(g, z[1], z[2])
<1> DEFINE n == Len(g)
           lo == z[1]
           hi == z[2]
           head == SubSeq(g, 1, lo - 1)
           rest == SubSeq(g, hi + 1, n)
           text == Spelled(g, lo, hi)
           p == Len(Joined(head))
           literal == BeforeQuad(g, lo, hi)
<1>1. n \in Nat /\ DOMAIN g = 1..n /\ lo \in Nat /\ hi \in Nat
      /\ (lo <= hi => lo \in 1..n /\ hi \in lo..n /\ \A i \in lo..hi : g[i] = 0)
  BY DEF Zeros
<1>2. ASSUME lo <= hi
      PROVE  /\ head \in Seq(Nat) /\ rest \in Seq(Nat) /\ Len(rest) = n - hi
             /\ text = Around(Joined(head), Joined(rest))
             /\ Joined(head) \in Seq(Int) /\ Joined(rest) \in Seq(Int)
  <2>1. head \in Seq(Nat) /\ rest \in Seq(Nat) /\ Len(rest) = n - hi
    BY <1>1, <1>2, FilledIn
  <2>2. ~ lo > hi
    BY <1>1, <1>2
  <2>3. text = Around(Joined(head), Joined(rest))
    BY <2>2 DEF Spelled, Around
  <2> HIDE DEF head, rest
  <2>4. Joined(head) \in Seq(Int) /\ Joined(rest) \in Seq(Int)
    BY <2>1, JoinedIs
  <2>5. QED  BY <2>1, <2>3, <2>4
<1>3. text \in Seq(Int)
  <2>1. CASE lo <= hi
    <3> HIDE DEF head, rest, text
    <3>1. QED  BY <1>2, <2>1, AroundIs
  <2>2. CASE ~(lo <= hi)
    <3>1. text = Joined(g)
      BY <1>1, <2>2 DEF Spelled
    <3>2. QED  BY <3>1, JoinedIs
  <2>3. QED  BY <2>1, <2>2
<1> HIDE DEF head, rest, text, lo, hi
<1>4. CASE lo <= hi /\ hi = n
  <2>1. literal = text
    BY <1>4 DEF BeforeQuad, text
  <2>2. /\ Len(text) = p + 2 + Len(Joined(rest)) /\ p \in Nat
        /\ \A i \in 1..p : text[i] = Joined(head)[i]
        /\ text[p + 1] = Colon
    <3>1. /\ Len(text) = Len(Joined(head)) + 2 + Len(Joined(rest))
          /\ \A i \in 1..Len(Joined(head)) : text[i] = Joined(head)[i]
          /\ text[Len(Joined(head)) + 1] = Colon
      <4> DEFINE a == Joined(head)
                 b == Joined(rest)
      <4>1. a \in Seq(Int) /\ b \in Seq(Int) /\ text = Around(a, b)
        BY <1>2, <1>4
      <4> HIDE DEF a, b
      <4>2. /\ Len(text) = Len(a) + 2 + Len(b)
            /\ \A i \in 1..Len(a) : text[i] = a[i]
            /\ text[Len(a) + 1] = Colon
        BY <4>1, AroundIs
      <4>3. QED  BY <4>2 DEF a, b
    <3>2. Len(Joined(head)) \in Nat
      BY <1>2, <1>4
    <3>3. QED  BY <3>1, <3>2 DEF p
  <2>3. Len(Joined(rest)) = 0
    <3>1. Len(rest) = 0
      BY <1>1, <1>2, <1>4
    <3>2. QED  BY <1>2, <1>4, <3>1, JoinedIs
  <2> DEFINE t == SubSeq(text, 1, p + 1)
  <2> HIDE DEF p
  <2>4. /\ t \in Seq(Int) /\ Len(t) = p + 1
        /\ \A i \in 1..p : t[i] = Joined(head)[i]
        /\ t[p + 1] = Colon
    BY <1>3, <2>2, <2>3
  <2>5. Text(literal, quad) = t
    <3>1. Len(text) - 1 = p + 1
      BY <2>2, <2>3
    <3>2. QED  BY <2>1, <3>1 DEF Text
  <2> HIDE DEF t
  <2>6. Gaps(t) = {} /\ parseGroups(t) = NoGroups
    BY <1>2, <1>4, <2>4, ColonLeftOver DEF p
  <2> HIDE DEF literal
  <2>7. parseIpv6(literal, quad) = NoGroups
    BY <2>5, <2>6 DEF parseIpv6, Text
  <2>8. QED  BY <1>4, <2>7 DEF literal, lo, hi
<1>5. CASE ~(lo <= hi /\ hi = n)
  <2>1. literal = Append(text, Colon)
    BY <1>5 DEF BeforeQuad, text
  <2>2. Len(text) \in Nat /\ Len(literal) = Len(text) + 1
    BY <1>3, <2>1
  <2>3. SubSeq(literal, 1, Len(literal) - 1) = text
    <3>1. Len(literal) - 1 = Len(text)
      BY <2>2
    <3>2. SubSeq(Append(text, Colon), 1, Len(text)) = text
      <4> DEFINE S == Int
                 e == Colon
      <4>1. text \in Seq(S) /\ e \in S
        BY <1>3 DEF Colon
      <4> HIDE DEF S, e
      <4>2. SubSeq(Append(text, e), 1, Len(text)) = text
        BY <4>1
      <4>3. QED  BY <4>2 DEF e
    <3>3. QED  BY <2>1, <3>1, <3>2
  <2>4. Text(literal, quad) = text
    BY <2>3 DEF Text
  <2> HIDE DEF literal
  <2>5. QED  BY <1>5, <2>4 DEF literal, lo, hi, text
<1>6. QED  BY <1>4, <1>5

\* Eight groups.
Addresses == {g \in [1..8 -> Nat] : \A i \in 1..8 : g[i] < 65536}

\* A group is its two octets.
LEMMA GroupIsItsOctets ==
  ASSUME NEW group \in Nat, group < 65536
  PROVE  /\ group \div 256 \in 0..255 /\ group % 256 \in 0..255
         /\ (group \div 256) * 256 + (group % 256) = group
OBVIOUS

\* A group, and the octets it is.
OfOctets(group, a, b) ==
  group \in Nat /\ group < 65536 /\ group \div 256 = a /\ group % 256 = b

\* Two octets are a group,
LEMMA OctetsAreAGroup ==
  ASSUME NEW a \in 0..255, NEW b \in 0..255
  PROVE  OfOctets(a * 256 + b, a, b)
<1>1. a * 256 + b \in Nat /\ a * 256 + b < 65536 /\ a * 256 + b = 256 * a + b
  OBVIOUS
<1>2. QED  BY <1>1, Multiples DEF OfOctets

\* and a quad is two.
LEMMA QuadIsTwoGroups ==
  ASSUME NEW o, o[1] \in 0..255, o[2] \in 0..255, o[3] \in 0..255, o[4] \in 0..255
  PROVE  /\ OfOctets(o[1] * 256 + o[2], o[1], o[2])
         /\ OfOctets(o[3] * 256 + o[4], o[3], o[4])
<1>1. \A a, b : a \in 0..255 /\ b \in 0..255 => OfOctets(a * 256 + b, a, b)
  BY OctetsAreAGroup, Zenon
<1>2. OfOctets(o[1] * 256 + o[2], o[1], o[2])
  BY <1>1, Zenon
<1>3. OfOctets(o[3] * 256 + o[4], o[3], o[4])
  BY <1>1, Zenon
<1>4. QED  BY <1>2, <1>3

\* An address is a sequence of groups.
LEMMA AddressesAre ==
  ASSUME NEW g \in Addresses
  PROVE  /\ g \in Seq(Nat) /\ Len(g) = 8 /\ DOMAIN g = 1..8
         /\ \A i \in 1..8 : g[i] \in Nat /\ g[i] < 65536
<1>1. g \in [1..8 -> Nat] /\ \A i \in 1..8 : g[i] < 65536
  BY DEF Addresses
<1> DEFINE n == 8
<1>2. n \in Nat /\ g \in [1..n -> Nat]
  BY <1>1
<1> HIDE DEF n
<1>3. g \in Seq(Nat) /\ Len(g) = n /\ DOMAIN g = 1..n
  BY <1>2, FunctionsAreSlugs
<1>4. QED  BY <1>1, <1>3 DEF n

\* Written without a quad, an address is read.
LEMMA SpelledWhole ==
  ASSUME NEW g \in Seq(Nat), Len(g) = 8, NEW z \in Zeros(g)
  PROVE  parseIpv6(Spelled(g, z[1], z[2]), <<>>) = g
<1> DEFINE none == <<>>
           suffix == Suffix(none)
<1>1. suffix = <<>> /\ none = <<>>
  BY DEF Suffix
<1>2. suffix = Suffix(none)
  OBVIOUS
<1> HIDE DEF none, suffix
<1>3. suffix \in Seq(Nat)
  BY <1>1
<1>4. Len(g) + Len(suffix) = 8
  BY <1>1
<1>5. parseIpv6(Spelled(g, z[1], z[2]), none) = g \o suffix
  <2>1. Text(Spelled(g, z[1], z[2]), none) = Spelled(g, z[1], z[2])
    BY <1>1 DEF Text
  <2>2. QED  BY <1>2, <1>3, <1>4, <2>1, SpelledIsRead
<1>6. g \o suffix = g
  BY <1>1
<1>7. QED  BY <1>1, <1>5, <1>6

\* And written with one.
LEMMA EverySpellingIsRead ==
  ASSUME NEW g \in Addresses
  PROVE  ReadsSpellings(g)
<1>1. g \in Seq(Nat) /\ Len(g) = 8 /\ \A i \in 1..8 : g[i] \in Nat /\ g[i] < 65536
  BY AddressesAre
<1>2. ASSUME NEW z \in Zeros(g) PROVE parseIpv6(Spelled(g, z[1], z[2]), <<>>) = g
  BY <1>1, SpelledWhole
<1> DEFINE first == SubSeq(g, 1, 6)
           quad == Quad(g[7], g[8])
<1>3. Suffix(quad) = <<g[7], g[8]>>
  <2>1. quad # <<>> /\ quad[1] = g[7] \div 256 /\ quad[2] = g[7] % 256
        /\ quad[3] = g[8] \div 256 /\ quad[4] = g[8] % 256
    BY DEF Quad
  <2>2. g[7] \in Nat /\ g[7] < 65536 /\ g[8] \in Nat /\ g[8] < 65536
    BY <1>1
  <2> HIDE DEF quad
  <2>3. quad[1] * 256 + quad[2] = g[7] /\ quad[3] * 256 + quad[4] = g[8]
    BY <2>1, <2>2, GroupIsItsOctets
  <2>4. QED  BY <2>1, <2>3 DEF Suffix
<1>4. first \in Seq(Nat) /\ Len(first) = 6
  BY <1>1
<1>5. <<g[7], g[8]>> \in Seq(Nat) /\ Len(<<g[7], g[8]>>) = 2
  BY <1>1
<1>6. first \o <<g[7], g[8]>> = g
  <2> DEFINE w == first \o <<g[7], g[8]>>
  <2>1. /\ w \in Seq(Nat) /\ Len(w) = 8
        /\ \A i \in 1..6 : w[i] = g[i]
        /\ w[7] = g[7] /\ w[8] = g[8]
    BY <1>1
  <2> HIDE DEF w
  <2>2. \A i \in 1..8 : w[i] = g[i]
    BY <2>1
  <2> DEFINE S == Nat
  <2>3. w \in Seq(S) /\ g \in Seq(S) /\ Len(w) = Len(g) /\ \A i \in 1..Len(w) : w[i] = g[i]
    BY <1>1, <2>1, <2>2
  <2> HIDE DEF S
  <2>4. w = g
    BY <2>3, SeqEqual
  <2>5. QED  BY <2>4 DEF w
<1>7. ASSUME NEW z \in Zeros(first)
      PROVE  parseIpv6(BeforeQuad(first, z[1], z[2]), quad) = IF z[2] = 6 THEN NoGroups ELSE g
  <2>1. quad # <<>>
    BY DEF Quad
  <2> HIDE DEF first, quad
  <2> DEFINE suffix == <<g[7], g[8]>>
             literal == BeforeQuad(first, z[1], z[2])
  <2> HIDE DEF suffix
  <2>2. suffix \in Seq(Nat) /\ suffix = Suffix(quad) /\ Len(first) + Len(suffix) = 8
    BY <1>3, <1>4, <1>5 DEF suffix
  <2>3. IF z[1] <= z[2] /\ z[2] = 6 THEN parseIpv6(literal, quad) = NoGroups
        ELSE Text(literal, quad) = Spelled(first, z[1], z[2])
    <3>1. IF z[1] <= z[2] /\ z[2] = Len(first) THEN parseIpv6(literal, quad) = NoGroups
          ELSE Text(literal, quad) = Spelled(first, z[1], z[2])
      BY <1>4, <2>1, QuadTakenOff DEF literal
    <3>2. QED  BY <1>4, <3>1
  <2>4. z[2] = 6 => z[1] <= z[2]
    BY DEF Zeros
  <2> HIDE DEF literal
  <2>5. CASE z[2] = 6
    BY <2>3, <2>4, <2>5 DEF literal
  <2>6. CASE z[2] # 6
    <3>1. parseIpv6(literal, quad) = first \o suffix
      BY <1>4, <2>2, <2>3, <2>6, SpelledIsRead
    <3>2. QED  BY <1>6, <2>6, <3>1 DEF suffix, literal
  <2>7. QED  BY <2>5, <2>6
<1>8. QED  BY <1>2, <1>7 DEF ReadsSpellings

\* A literal has the class of its groups.
LEMMA LiteralIs ==
  ASSUME NEW text, NEW quad
  PROVE  classifyHost(Literal(text, quad)) =
           IF parseIpv6(text, quad) # NoGroups THEN classifyIpv6(parseIpv6(text, quad))
           ELSE IF quad = <<>> THEN "local-hostname" ELSE "public"
<1> DEFINE host == Literal(text, quad)
<1>1. normalizeHost(host) = host /\ host.kind = "v6" /\ host.text = text /\ host.quad = quad
  BY DEF normalizeHost, Literal
<1> HIDE DEF host
<1>2. QED  BY <1>1 DEF classifyHost, host

\* An address embedded in either form is judged by its own octets.
LEMMA QuadIsJudged ==
  ASSUME NEW o \in Quads, o[4] > 1
  PROVE  JudgedByBlock(o)
<1> DEFINE class == classifyHost([kind |-> "v4", octets |-> o])
<1>1. class = classifyIpv4(o)
  <2>1. normalizeHost([kind |-> "v4", octets |-> o]) = [kind |-> "v4", octets |-> o]
    BY DEF normalizeHost
  <2>2. QED  BY <2>1 DEF classifyHost
<1>2. ClassesOf(o) = {class} \ {"public"}
  BY <1>1, ClassIsTheBlocks
<1>3. ASSUME NEW marker \in {0, 65535}
      PROVE  LET g == <<0, 0, 0, 0, 0, marker, o[1] * 256 + o[2], o[3] * 256 + o[4]>>
                 first == SubSeq(g, 1, 6)
             IN /\ \A z \in Zeros(g) :
                     classifyHost(Literal(Spelled(g, z[1], z[2]), <<>>)) = class
                /\ \A z \in Zeros(first) :
                     classifyHost(Literal(BeforeQuad(first, z[1], z[2]), o)) =
                       IF z[2] = 6 THEN "public" ELSE class
  <2> DEFINE g == <<0, 0, 0, 0, 0, marker, o[1] * 256 + o[2], o[3] * 256 + o[4]>>
  <2>1. o[1] \in 0..255 /\ o[2] \in 0..255 /\ o[3] \in 0..255 /\ o[4] \in 0..255
    BY DEF Quads
  <2>2. /\ g[1] = 0 /\ g[2] = 0 /\ g[3] = 0 /\ g[4] = 0 /\ g[5] = 0 /\ g[6] = marker
        /\ g[7] = o[1] * 256 + o[2] /\ g[8] = o[3] * 256 + o[4]
    OBVIOUS
  <2>a. g[7] \in Nat /\ g[7] < 65536 /\ g[7] \div 256 = o[1] /\ g[7] % 256 = o[2]
    <3> HIDE DEF g
    <3>1. OfOctets(o[1] * 256 + o[2], o[1], o[2])
      BY <2>1, QuadIsTwoGroups
    <3>2. QED  BY <2>2, <3>1 DEF OfOctets
  <2>b. g[8] \in Nat /\ g[8] < 65536 /\ g[8] \div 256 = o[3] /\ g[8] % 256 = o[4]
    <3> HIDE DEF g
    <3>1. OfOctets(o[3] * 256 + o[4], o[3], o[4])
      BY <2>1, QuadIsTwoGroups
    <3>2. QED  BY <2>2, <3>1 DEF OfOctets
  <2>3. g[6] \in Nat /\ g[6] < 65536
    BY <2>2
  <2>4. g \in Addresses
    <3>1. DOMAIN g = 1..8 /\ g = [i \in 1..8 |-> g[i]]
      OBVIOUS
    <3> HIDE DEF g
    <3>2. \A i \in 1..8 : g[i] \in Nat /\ g[i] < 65536
      BY <2>2, <2>a, <2>b, <2>3
    <3>3. QED  BY <3>1, <3>2 DEF Addresses
  <2> HIDE DEF g
  <2>5. embeddedIpv4(g)
    <3>1. \A i \in 1..5 : g[i] = 0
      BY <2>2
    <3>2. g[8] > 1
      <4>1. o[3] \in Nat /\ o[4] \in Nat /\ o[4] > 1
        BY <2>1
      <4>2. \A x, y \in Nat : y > 1 => x * 256 + y > 1
        OBVIOUS
      <4>3. QED  BY <2>2, <4>1, <4>2
    <3>3. QED  BY <2>2, <3>1, <3>2 DEF embeddedIpv4
  <2>6. Quad(g[7], g[8]) = o
    <3>1. Quad(g[7], g[8]) = <<o[1], o[2], o[3], o[4]>>
      BY <2>a, <2>b DEF Quad
    <3>2. o = <<o[1], o[2], o[3], o[4]>>
      BY DEF Quads
    <3>3. QED  BY <3>1, <3>2
  <2>7. classifyIpv6(g) = class
    BY <1>1, <2>5, <2>6 DEF classifyIpv6
  <2>c. ReadsSpellings(g) /\ g # NoGroups
    BY <2>4, AddressesAre, EverySpellingIsRead, GroupsAreGroups
  <2>8. ASSUME NEW z \in Zeros(g)
        PROVE  classifyHost(Literal(Spelled(g, z[1], z[2]), <<>>)) = class
    <3> DEFINE text == Spelled(g, z[1], z[2])
    <3>1. parseIpv6(text, <<>>) = g
      BY <2>c DEF ReadsSpellings
    <3> HIDE DEF text
    <3>2. classifyHost(Literal(text, <<>>)) = class
      BY <2>7, <2>c, <3>1, LiteralIs
    <3>3. QED  BY <3>2 DEF text
  <2> DEFINE first == SubSeq(g, 1, 6)
  <2>9. ASSUME NEW z \in Zeros(first)
        PROVE  classifyHost(Literal(BeforeQuad(first, z[1], z[2]), o)) =
                 IF z[2] = 6 THEN "public" ELSE class
    <3> DEFINE text == BeforeQuad(first, z[1], z[2])
    <3>1. parseIpv6(text, o) = IF z[2] = 6 THEN NoGroups ELSE g
      BY <2>6, <2>c DEF ReadsSpellings
    <3>2. o # <<>>
      BY DEF Quads
    <3> HIDE DEF text
    <3>3. classifyHost(Literal(text, o)) = IF z[2] = 6 THEN "public" ELSE class
      BY <2>7, <2>c, <3>1, <3>2, LiteralIs
    <3>4. QED  BY <3>3 DEF text
  <2>10. QED  BY <2>8, <2>9 DEF g
<1> HIDE DEF class
<1>4. QED  BY <1>2, <1>3 DEF JudgedByBlock, class

\* classifyIpv6 says in which block an address is: its masks are the bounds of the blocks.
LEMMA MasksAreBounds ==
  ASSUME NEW group \in Nat, group < 65536
  PROVE  /\ Masked(group, 512) = 64512 <=> 64512 <= group /\ group <= 65023
         /\ Masked(group, 64) = 65152 <=> 65152 <= group /\ group <= 65215
         /\ Masked(group, 256) = 65280 <=> 65280 <= group /\ group <= 65535
BY DEF Masked

LEMMA ClassIsTheBlocks6 ==
  ASSUME NEW g \in Addresses, \E i \in 1..5 : g[i] # 0
  PROVE  ClassesOf6(g) = {classifyIpv6(g)} \ {"public"}
<1>1. g[1] \in Nat /\ g[1] < 65536
  BY AddressesAre
<1> DEFINE first == g[1]
           documents == first = 8193 /\ g[2] = 3512
<1>2. classifyIpv6(g) =
        CASE 64512 <= first /\ first <= 65023 -> "private"
          [] 65152 <= first /\ first <= 65215 -> "link-local"
          [] 65280 <= first /\ first <= 65535 -> "multicast"
          [] documents -> "reserved"
          [] OTHER -> "public"
  <2>1. /\ ~embeddedIpv4(g) /\ ~(\A i \in 1..8 : g[i] = 0)
        /\ ~((\A i \in 1..7 : g[i] = 0) /\ g[8] = 1)
    BY DEF embeddedIpv4
  <2>2. /\ Masked(first, 512) = 64512 <=> 64512 <= first /\ first <= 65023
        /\ Masked(first, 64) = 65152 <=> 65152 <= first /\ first <= 65215
        /\ Masked(first, 256) = 65280 <=> 65280 <= first /\ first <= 65535
    BY <1>1, MasksAreBounds
  <2>3. QED  BY <2>1, <2>2 DEF classifyIpv6
<1>3. ClassesOf6(g) =
        (IF 64512 <= first /\ first <= 65023 THEN {"private"} ELSE {})
          \cup (IF 65152 <= first /\ first <= 65215 THEN {"link-local"} ELSE {})
          \cup (IF 65280 <= first /\ first <= 65535 THEN {"multicast"} ELSE {})
          \cup (IF documents THEN {"reserved"} ELSE {})
  <2> DEFINE Spans(bl) == bl[1] <= first /\ first <= bl[2]
             classes == {block[3] : block \in {bl \in Blocks6 : Spans(bl)}}
             u == <<64512, 65023, "private">>
             l == <<65152, 65215, "link-local">>
             m == <<65280, 65535, "multicast">>
  <2>1. \A class : class \in classes <=> \E bl \in Blocks6 : Spans(bl) /\ class = bl[3]
    BY Zenon
  <2>2. /\ Spans(u) <=> 64512 <= first /\ first <= 65023
        /\ Spans(l) <=> 65152 <= first /\ first <= 65215
        /\ Spans(m) <=> 65280 <= first /\ first <= 65535
        /\ u[3] = "private" /\ l[3] = "link-local" /\ m[3] = "multicast"
    OBVIOUS
  <2>3. Blocks6 = {u, l, m}
    BY DEF Blocks6
  <2>4. ClassesOf6(g) = classes \cup (IF documents THEN {"reserved"} ELSE {})
    BY DEF ClassesOf6
  <2> HIDE DEF Spans, classes, u, l, m, documents, first
  <2>5. \A class : class \in classes <=>
          \/ Spans(u) /\ class = u[3]
          \/ Spans(l) /\ class = l[3]
          \/ Spans(m) /\ class = m[3]
    BY <2>1, <2>3
  <2>6. QED  BY <2>2, <2>4, <2>5
<1> HIDE DEF first
<1>4. first \in Nat
  BY <1>1 DEF first
<1>5. documents => first = 8193
  OBVIOUS
<1> HIDE DEF documents
<1>6. QED  BY <1>2, <1>3, <1>4, <1>5

\* Spelled out, it is judged by its groups.
LEMMA GroupsAreJudged ==
  ASSUME NEW g \in Addresses
  PROVE  JudgedByGroups(g)
<1> DEFINE host == Literal(Joined(g), <<>>)
<1>1. g # NoGroups
  BY AddressesAre, GroupsAreGroups
<1>2. parseIpv6(Joined(g), <<>>) = g
  <2> DEFINE z == <<1, 0>>
  <2>1. z \in Zeros(g) /\ z[1] = 1 /\ z[2] = 0
    BY DEF Zeros
  <2>2. Spelled(g, 1, 0) = Joined(g)
    BY DEF Spelled
  <2> HIDE DEF z
  <2>3. parseIpv6(Spelled(g, z[1], z[2]), <<>>) = g
    BY <2>1, EverySpellingIsRead DEF ReadsSpellings
  <2>4. QED  BY <2>1, <2>2, <2>3
<1>3. classifyHost(host) = classifyIpv6(g)
  BY <1>1, <1>2, LiteralIs
<1> HIDE DEF host
<1>4. ASSUME \A i \in 1..8 : g[i] = 0
      PROVE  classifyIpv6(g) = "unspecified"
  <2>1. g[6] = 0 /\ g[7] = 0 /\ g[8] = 0
    BY <1>4
  <2>2. ~embeddedIpv4(g)
    BY <2>1 DEF embeddedIpv4
  <2>3. ~((\A i \in 1..7 : g[i] = 0) /\ g[8] = 1) /\ g[1] = 0
    BY <1>4, <2>1
  <2>4. QED  BY <1>4, <2>2, <2>3 DEF classifyIpv6, Masked
<1>5. ASSUME \A i \in 1..7 : g[i] = 0, g[8] = 1
      PROVE  classifyIpv6(g) = "loopback"
  BY <1>5 DEF classifyIpv6, embeddedIpv4, Masked
<1>6. QED  BY <1>3, <1>4, <1>5, ClassIsTheBlocks6 DEF JudgedByGroups, host

\* The quads and the groups that are tried are addresses.
LEMMA TriedIsAnAddress ==
  /\ \A o \in [1..3 -> Octets] : Append(o, 2) \in Quads /\ Append(o, 2)[4] = 2
  /\ \A g \in Addresses6 : g \in Addresses
<1>1. ASSUME NEW o \in [1..3 -> Octets] PROVE Append(o, 2) \in Quads /\ Append(o, 2)[4] = 2
  <2> DEFINE n == 3
             S == 0..255
  <2>1. n \in Nat /\ o \in [1..n -> S]
    <3>1. Octets \subseteq 0..255
      BY InputsConstants
    <3>2. QED  BY <3>1
  <2>2. 2 \in S
    OBVIOUS
  <2> HIDE DEF n, S
  <2>3. o \in Seq(S) /\ Len(o) = n
    BY <2>1, FunctionsAreSlugs
  <2>4. Append(o, 2) \in Seq(S) /\ Len(Append(o, 2)) = n + 1 /\ Append(o, 2)[n + 1] = 2
    BY <2>1, <2>2, <2>3
  <2> DEFINE q == Append(o, 2)
  <2>a. q \in Seq(S) /\ Len(q) = n + 1
    BY <2>4
  <2> HIDE DEF q
  <2>5. q \in [1..n + 1 -> S]
    BY <2>a
  <2>6. n + 1 = 4
    BY DEF n
  <2>7. QED  BY <2>4, <2>5, <2>6 DEF Quads, S, q
<1>2. ASSUME NEW g \in [1..8 -> Groups] PROVE g \in Addresses
  <2>1. \A i \in 1..8 : g[i] \in Nat /\ g[i] < 65536
    BY InputsConstants
  <2>2. QED  BY <2>1 DEF Addresses
<1>3. ASSUME NEW a \in Prefixes, NEW b \in Prefixes
      PROVE  <<a, b, 0, 0, 0, 0, 0, 1>> \in Addresses
  <2>1. a \in Nat /\ a < 65536 /\ b \in Nat /\ b < 65536
    BY InputsConstants
  <2>2. QED  BY <2>1 DEF Addresses
<1>4. QED  BY <1>1, <1>2, <1>3 DEF Addresses6

\* Whatever the octets and the groups: classifyIpv4 gives an address the class of the block
\* that the registries put it in, alone or embedded in either form, classifyIpv6 does the
\* same for the blocks of IPv6, and parseIpv6 reads an address however it is written, unless
\* "::" is right before a quad.
THEOREM HostsHold == Trials => []HostsAreJudgedByAddress
<1>1. trial = NoTrial \/ InitTrial => HostsAreJudgedByAddress
  <2>1. ASSUME trial.what = "quad" => \E o \in [1..3 -> Octets] : trial.input = Append(o, 2),
               trial.what = "groups" => trial.input \in Addresses6
        PROVE  HostsAreJudgedByAddress
    <3>1. ASSUME trial.what = "quad" PROVE JudgedByBlock(trial.input)
      <4>1. trial.input \in Quads /\ trial.input[4] > 1
        <5>1. PICK o \in [1..3 -> Octets] : trial.input = Append(o, 2)
          BY <2>1, <3>1
        <5>2. Append(o, 2) \in Quads /\ Append(o, 2)[4] = 2
          BY TriedIsAnAddress
        <5> DEFINE q == Append(o, 2)
        <5> HIDE DEF q
        <5>3. trial.input = q /\ q \in Quads /\ q[4] = 2
          BY <5>1, <5>2 DEF q
        <5>4. QED  BY <5>3
      <4>2. QED  BY <4>1, QuadIsJudged
    <3>2. ASSUME trial.what = "groups"
          PROVE  ReadsSpellings(trial.input) /\ JudgedByGroups(trial.input)
      <4>1. trial.input \in Addresses
        BY <2>1, <3>2, TriedIsAnAddress
      <4>2. QED  BY <4>1, EverySpellingIsRead, GroupsAreJudged
    <3>3. QED  BY <3>1, <3>2 DEF HostsAreJudgedByAddress
  <2>2. QED  BY <2>1, InitIsATrial
<1>2. HostsAreJudgedByAddress /\ [UNCHANGED trial]_trial => HostsAreJudgedByAddress'
  BY DEF HostsAreJudgedByAddress
<1>3. QED  BY <1>1, <1>2, PTL DEF Trials
-----------------------------------------------------------------------------
(***************************************************************************)
(* What a User-Agent is taken for. Which patterns match is a matter of the *)
(* tokens alone, save for an Android tablet, where it matters what follows;*)
(* so a whole User-Agent matches what its parts match.                     *)
(***************************************************************************)
\* A pattern matches what is said if it matches one part of it or the other.
LEMMA HasOfBoth ==
  ASSUME NEW S, NEW s \in Seq(S), NEW t \in Seq(S), NEW tokens
  PROVE  /\ s \o t \in Seq(S)
         /\ Has(s \o t, tokens) <=> Has(s, tokens) \/ Has(t, tokens)
<1> DEFINE st == s \o t
<1>1. /\ st \in Seq(S) /\ Len(st) = Len(s) + Len(t)
      /\ \A i \in 1..Len(s) : st[i] = s[i]
      /\ \A i \in 1..Len(t) : st[Len(s) + i] = t[i]
  OBVIOUS
<1>2. Len(s) \in Nat /\ Len(t) \in Nat
  OBVIOUS
<1>3. DOMAIN st = 1..Len(st) /\ DOMAIN s = 1..Len(s) /\ DOMAIN t = 1..Len(t)
  BY <1>1
<1> HIDE DEF st
<1>4. ASSUME NEW i \in DOMAIN s, s[i] \in tokens PROVE \E k \in DOMAIN st : st[k] \in tokens
  BY <1>1, <1>2, <1>3, <1>4
<1>5. ASSUME NEW i \in DOMAIN t, t[i] \in tokens PROVE \E k \in DOMAIN st : st[k] \in tokens
  <2>1. Len(s) + i \in DOMAIN st /\ st[Len(s) + i] = t[i]
    BY <1>1, <1>2, <1>3
  <2>2. QED  BY <2>1, <1>5
<1>6. ASSUME NEW k \in DOMAIN st, st[k] \in tokens
      PROVE  (\E i \in DOMAIN s : s[i] \in tokens) \/ (\E i \in DOMAIN t : t[i] \in tokens)
  <2>1. CASE k <= Len(s)
    BY <2>1, <1>1, <1>2, <1>3, <1>6
  <2>2. CASE ~(k <= Len(s))
    <3> DEFINE i == k - Len(s)
    <3>1. i \in DOMAIN t /\ Len(s) + i = k
      BY <2>2, <1>1, <1>2, <1>3
    <3>2. t[i] = st[k]
      BY <3>1, <1>1, <1>3
    <3>3. QED  BY <3>1, <3>2, <1>6
  <2>3. QED  BY <2>1, <2>2
<1>7. Has(st, tokens) <=> Has(s, tokens) \/ Has(t, tokens)
  BY <1>4, <1>5, <1>6 DEF Has
<1>8. QED  BY <1>1, <1>7 DEF st

\* An Android tablet is one by what is said last, or by what is said first where no Mobile
\* follows.
LEMMA TabletOfBoth ==
  ASSUME NEW S, NEW s \in Seq(S), NEW t \in Seq(S)
  PROVE  AndroidTablet(s \o t) <=>
           AndroidTablet(t) \/ (AndroidTablet(s) /\ ~Has(t, {"Mobile"}))
<1> DEFINE st == s \o t
<1>1. /\ st \in Seq(S) /\ Len(st) = Len(s) + Len(t)
      /\ \A i \in 1..Len(s) : st[i] = s[i]
      /\ \A i \in 1..Len(t) : st[Len(s) + i] = t[i]
  OBVIOUS
<1>2. Len(s) \in Nat /\ Len(t) \in Nat
  OBVIOUS
<1>3. DOMAIN st = 1..Len(st) /\ DOMAIN s = 1..Len(s) /\ DOMAIN t = 1..Len(t)
  BY <1>1
<1> DEFINE m == Len(s)
           n == Len(t)
<1>4. /\ m \in Nat /\ n \in Nat /\ Len(st) = m + n
      /\ DOMAIN st = 1..m + n /\ DOMAIN s = 1..m /\ DOMAIN t = 1..n
      /\ Len(s) = m /\ Len(t) = n
      /\ \A i \in 1..m : st[i] = s[i]
      /\ \A i \in 1..n : st[m + i] = t[i]
  BY <1>1, <1>2, <1>3
<1> HIDE DEF st, m, n
<1>a. \A k \in 1..m + n : k > m => k - m \in 1..n /\ st[k] = t[k - m]
  <2> SUFFICES ASSUME NEW k \in 1..m + n, k > m PROVE k - m \in 1..n /\ st[k] = t[k - m]
    OBVIOUS
  <2>1. k - m \in 1..n /\ m + (k - m) = k
    BY <1>4
  <2>2. st[m + (k - m)] = t[k - m]
    BY <2>1, <1>4
  <2>3. QED  BY <2>1, <2>2
<1>5. ASSUME NEW i \in 1..n, t[i] = "Android", \A j \in i + 1..n : t[j] # "Mobile"
      PROVE  \E k \in 1..m + n : st[k] = "Android" /\ \A j \in k + 1..m + n : st[j] # "Mobile"
  <2>1. m + i \in 1..m + n /\ st[m + i] = "Android"
    BY <1>4, <1>5
  <2>2. ASSUME NEW j \in m + i + 1..m + n PROVE st[j] # "Mobile"
    <3>1. j - m \in i + 1..n /\ j > m /\ j \in 1..m + n
      BY <1>4
    <3>2. QED  BY <3>1, <1>a, <1>5
  <2>3. QED  BY <2>1, <2>2
<1>6. ASSUME NEW i \in 1..m, s[i] = "Android", \A j \in i + 1..m : s[j] # "Mobile",
             \A j \in 1..n : t[j] # "Mobile"
      PROVE  \E k \in 1..m + n : st[k] = "Android" /\ \A j \in k + 1..m + n : st[j] # "Mobile"
  <2>1. i \in 1..m + n /\ st[i] = "Android"
    BY <1>4, <1>6
  <2>2. ASSUME NEW j \in i + 1..m + n PROVE st[j] # "Mobile"
    <3>1. CASE j <= m
      BY <3>1, <1>4, <1>6
    <3>2. CASE j > m
      <4>1. j \in 1..m + n
        BY <1>4
      <4>2. QED  BY <3>2, <4>1, <1>a, <1>6
    <3>3. QED  BY <3>1, <3>2, <1>4
  <2>3. QED  BY <2>1, <2>2
<1>7. ASSUME NEW k \in 1..m + n, st[k] = "Android", \A j \in k + 1..m + n : st[j] # "Mobile"
      PROVE  \/ \E i \in 1..n : t[i] = "Android" /\ \A j \in i + 1..n : t[j] # "Mobile"
             \/ /\ \E i \in 1..m : s[i] = "Android" /\ \A j \in i + 1..m : s[j] # "Mobile"
                /\ \A j \in 1..n : t[j] # "Mobile"
  <2>1. CASE k <= m
    <3>1. k \in 1..m /\ s[k] = "Android"
      BY <2>1, <1>4, <1>7
    <3>2. ASSUME NEW j \in k + 1..m PROVE s[j] # "Mobile"
      BY <1>4, <1>7
    <3>3. ASSUME NEW j \in 1..n PROVE t[j] # "Mobile"
      <4>1. m + j \in k + 1..m + n /\ st[m + j] = t[j]
        BY <2>1, <1>4
      <4>2. QED  BY <4>1, <1>7
    <3>4. QED  BY <3>1, <3>2, <3>3
  <2>2. CASE k > m
    <3> DEFINE i == k - m
    <3>1. i \in 1..n /\ t[i] = "Android" /\ i \in Nat /\ k = m + i
      BY <2>2, <1>a, <1>4, <1>7
    <3>2. ASSUME NEW j \in i + 1..n PROVE t[j] # "Mobile"
      <4>0. j \in 1..n
        BY <3>1, <1>4
      <4>1. m + j \in k + 1..m + n /\ st[m + j] = t[j]
        BY <3>1, <4>0, <1>4
      <4>2. QED  BY <4>1, <1>7
    <3>3. QED  BY <3>1, <3>2
  <2>3. QED  BY <2>1, <2>2, <1>4
<1>8. Has(t, {"Mobile"}) <=> \E j \in 1..n : t[j] = "Mobile"
  BY <1>4 DEF Has
<1>9. AndroidTablet(st) <=>
        \E k \in 1..m + n : st[k] = "Android" /\ \A j \in k + 1..m + n : st[j] # "Mobile"
  BY <1>4 DEF AndroidTablet
<1>10. AndroidTablet(s) <=>
         \E k \in 1..m : s[k] = "Android" /\ \A j \in k + 1..m : s[j] # "Mobile"
  BY <1>4 DEF AndroidTablet
<1>11. AndroidTablet(t) <=>
         \E k \in 1..n : t[k] = "Android" /\ \A j \in k + 1..n : t[j] # "Mobile"
  BY <1>4 DEF AndroidTablet
<1>12. AndroidTablet(st) <=>
           AndroidTablet(t) \/ (AndroidTablet(s) /\ ~Has(t, {"Mobile"}))
  BY <1>5, <1>6, <1>7, <1>8, <1>9, <1>10, <1>11, Zenon
<1>13. QED  BY <1>12 DEF st

\* The first pattern that matches is the one that counts.
LEMMA FirstMatchIs ==
  ASSUME NEW ua, NEW patterns, DOMAIN patterns \subseteq Int,
         NEW i \in DOMAIN patterns, Has(ua, patterns[i][1]),
         \A j \in DOMAIN patterns : j < i => ~Has(ua, patterns[j][1])
  PROVE  firstMatch(ua, patterns) = patterns[i][2]
<1> DEFINE hits == {h \in DOMAIN patterns : Has(ua, patterns[h][1])}
           least == CHOOSE h \in hits : \A j \in hits : h <= j
<1>1. i \in hits /\ \A j \in hits : i <= j
  OBVIOUS
<1>2. least \in hits /\ \A j \in hits : least <= j
  BY <1>1
<1>3. hits \subseteq Int
  OBVIOUS
<1>4. least = i
  <2> HIDE DEF hits, least
  <2>1. QED  BY <1>1, <1>2, <1>3
<1>5. firstMatch(ua, patterns) = patterns[least][2]
  BY <1>1 DEF firstMatch
<1>6. QED  BY <1>4, <1>5

\* What a few tokens match.
LEMMA HasOfFew ==
  ASSUME NEW tokens
  PROVE  /\ \A a : Has(<<a>>, tokens) <=> a \in tokens
         /\ \A a, b : Has(<<a, b>>, tokens) <=> a \in tokens \/ b \in tokens
         /\ \A a, b, c :
              Has(<<a, b, c>>, tokens) <=> a \in tokens \/ b \in tokens \/ c \in tokens
<1>1. ASSUME NEW a PROVE Has(<<a>>, tokens) <=> a \in tokens
  <2>1. DOMAIN <<a>> = {1} /\ <<a>>[1] = a
    OBVIOUS
  <2>2. QED  BY <2>1 DEF Has
<1>2. ASSUME NEW a, NEW b PROVE Has(<<a, b>>, tokens) <=> a \in tokens \/ b \in tokens
  <2>1. DOMAIN <<a, b>> = {1, 2} /\ <<a, b>>[1] = a /\ <<a, b>>[2] = b
    OBVIOUS
  <2>2. QED  BY <2>1 DEF Has
<1>3. ASSUME NEW a, NEW b, NEW c
      PROVE  Has(<<a, b, c>>, tokens) <=> a \in tokens \/ b \in tokens \/ c \in tokens
  <2>1. /\ DOMAIN <<a, b, c>> = {1, 2, 3}
        /\ <<a, b, c>>[1] = a /\ <<a, b, c>>[2] = b /\ <<a, b, c>>[3] = c
    OBVIOUS
  <2>2. QED  BY <2>1 DEF Has
<1>4. QED  BY <1>1, <1>2, <1>3

\* A few of a set are a sequence of its members.
LEMMA FewAreASequence ==
  ASSUME NEW S
  PROVE  /\ \A a \in S : <<a>> \in Seq(S)
         /\ \A a, b \in S : <<a, b>> \in Seq(S)
         /\ \A a, b, c \in S : <<a, b, c>> \in Seq(S)
OBVIOUS

\* A device, by the first class that has a token of it.
LEMMA DeviceIs ==
  ASSUME NEW ua
  PROVE  /\ Has(ua, TabletTokens) \/ AndroidTablet(ua) => classifyDevice(ua) = "tablet"
         /\ ~Has(ua, TabletTokens) /\ ~AndroidTablet(ua) /\ Has(ua, MobileTokens)
              => classifyDevice(ua) = "mobile"
         /\ ~Has(ua, TabletTokens) /\ ~AndroidTablet(ua) /\ ~Has(ua, MobileTokens)
              /\ Has(ua, DesktopTokens) => classifyDevice(ua) = "desktop"
BY DEF classifyDevice

\* Every token some browser is known by.
BrowserTokens ==
  {"Edg", "Edge", "EdgA", "EdgiOS", "OPR", "Opera", "Opera Mini", "SamsungBrowser",
   "YaBrowser", "Vivaldi", "Brave", "UCBrowser", "FxiOS", "Firefox", "CriOS", "Chrome",
   "Safari", "MSIE", "Trident"}

\* Every token some system is known by.
OsTokens ==
  {"KFAPWI", "Silk", "Android", "iPhone", "iPad", "iPod", "iOS", "Windows Phone",
   "Windows NT", "Windows", "CrOS", "Mac OS X", "Macintosh", "Ubuntu", "Linux", "X11"}

\* The browsers' patterns are made of the browsers' tokens, the systems' of theirs.
LEMMA BrowserTokensAre == \A i \in 1..11 : BrowserPatterns[i][1] \subseteq BrowserTokens
<1>1. BrowserPatterns[1][1] \subseteq BrowserTokens
  BY DEF BrowserPatterns, BrowserTokens
<1>2. BrowserPatterns[2][1] \subseteq BrowserTokens
  BY DEF BrowserPatterns, BrowserTokens
<1>3. BrowserPatterns[3][1] \subseteq BrowserTokens
  BY DEF BrowserPatterns, BrowserTokens
<1>4. BrowserPatterns[4][1] \subseteq BrowserTokens
  BY DEF BrowserPatterns, BrowserTokens
<1>5. BrowserPatterns[5][1] \subseteq BrowserTokens
  BY DEF BrowserPatterns, BrowserTokens
<1>6. BrowserPatterns[6][1] \subseteq BrowserTokens
  BY DEF BrowserPatterns, BrowserTokens
<1>7. BrowserPatterns[7][1] \subseteq BrowserTokens
  BY DEF BrowserPatterns, BrowserTokens
<1>8. BrowserPatterns[8][1] \subseteq BrowserTokens
  BY DEF BrowserPatterns, BrowserTokens
<1>9. BrowserPatterns[9][1] \subseteq BrowserTokens
  BY DEF BrowserPatterns, BrowserTokens
<1>10. BrowserPatterns[10][1] \subseteq BrowserTokens
  BY DEF BrowserPatterns, BrowserTokens
<1>11. BrowserPatterns[11][1] \subseteq BrowserTokens
  BY DEF BrowserPatterns, BrowserTokens
<1>12. QED  BY <1>1, <1>2, <1>3, <1>4, <1>5, <1>6, <1>7, <1>8, <1>9, <1>10, <1>11

LEMMA OsTokensAre == \A i \in 1..9 : OsPatterns[i][1] \subseteq OsTokens
<1>1. OsPatterns[1][1] \subseteq OsTokens
  BY DEF OsPatterns, OsTokens
<1>2. OsPatterns[2][1] \subseteq OsTokens
  BY DEF OsPatterns, OsTokens
<1>3. OsPatterns[3][1] \subseteq OsTokens
  BY DEF OsPatterns, OsTokens
<1>4. OsPatterns[4][1] \subseteq OsTokens
  BY DEF OsPatterns, OsTokens
<1>5. OsPatterns[5][1] \subseteq OsTokens
  BY DEF OsPatterns, OsTokens
<1>6. OsPatterns[6][1] \subseteq OsTokens
  BY DEF OsPatterns, OsTokens
<1>7. OsPatterns[7][1] \subseteq OsTokens
  BY DEF OsPatterns, OsTokens
<1>8. OsPatterns[8][1] \subseteq OsTokens
  BY DEF OsPatterns, OsTokens
<1>9. OsPatterns[9][1] \subseteq OsTokens
  BY DEF OsPatterns, OsTokens
<1>10. QED  BY <1>1, <1>2, <1>3, <1>4, <1>5, <1>6, <1>7, <1>8, <1>9

\* Every token that is said.
Said == OsTokens \cup BrowserTokens \cup {"Mozilla", "AppleWebKit", "Gecko", "Mobile", "bot"}

\* Where the pattern of a system is, and that what is said matches it first.
FoundAt(says, patterns, last, name) ==
  \E i \in 1..last :
    /\ patterns[i][2] = name /\ Has(says, patterns[i][1])
    /\ \A j \in 1..last : j < i => ~Has(says, patterns[j][1])

\* A pattern that matches, and none before it does.
LEMMA FoundHere ==
  ASSUME NEW says, NEW patterns, NEW last \in Nat, NEW name, NEW i \in 1..last,
         patterns[i][2] = name, Has(says, patterns[i][1]),
         \A j \in 1..last : j < i => ~Has(says, patterns[j][1])
  PROVE  FoundAt(says, patterns, last, name)
BY DEF FoundAt

\* Without an Android there is no Android tablet.
LEMMA NoAndroid ==
  ASSUME NEW ua, ~Has(ua, {"Android"})
  PROVE  ~AndroidTablet(ua)
BY DEF Has, AndroidTablet

\* A system by what it says: it is found under its own pattern and under none before, and
\* is no browser and no bot; it is a tablet, a telephone or neither.
SystemSays(says, os, device) ==
  /\ says \in Seq(Said)
  /\ ~Has(says, BrowserTokens) /\ ~Has(says, BotTokens) /\ ~Has(says, {"Mobile"})
  /\ FoundAt(says, OsPatterns, 9, os)
  /\ device \in {"tablet", "mobile", "desktop"}
  /\ device = "tablet" => Has(says, TabletTokens) \/ AndroidTablet(says)
  /\ device # "tablet" => ~Has(says, TabletTokens)
  /\ device = "mobile" => Has(says, MobileTokens)
  /\ device = "desktop" => ~AndroidTablet(says) /\ ~Has(says, MobileTokens)

\* So it is of every system.
LEMMA SystemIs ==
  ASSUME NEW system \in Systems
  PROVE  SystemSays(system.says, system.os, system.device)
<1>1. ASSUME system = [os |-> "Fire OS", device |-> "tablet",
                       says |-> <<"Linux", "Android", "KFAPWI">>]
      PROVE  SystemSays(system.says, system.os, system.device)
  <2> DEFINE says == <<"Linux", "Android", "KFAPWI">>
  <2>1. says \in Seq(Said)
    <3>1. "Linux" \in Said /\ "Android" \in Said /\ "KFAPWI" \in Said
      BY DEF Said, OsTokens
    <3>2. QED  BY <3>1, FewAreASequence
  <2>2. \A tokens :
          Has(says, tokens) <=> "Linux" \in tokens \/ "Android" \in tokens \/ "KFAPWI" \in tokens
    BY HasOfFew
  <2>3. AndroidTablet(says)
    BY DEF AndroidTablet
  <2> HIDE DEF says
  <2>4. ~Has(says, BrowserTokens) /\ ~Has(says, BotTokens) /\ ~Has(says, {"Mobile"})
    BY <2>2 DEF BrowserTokens, BotTokens
  <2>5. /\ ~Has(says, TabletTokens)
        /\ Has(says, MobileTokens)
    BY <2>2 DEF TabletTokens, MobileTokens
  <2>6. Has(says, OsPatterns[1][1]) /\ OsPatterns[1][2] = "Fire OS"
    BY <2>2 DEF OsPatterns
  <2>7. \A j \in 1..9 : j < 1 => ~Has(says, OsPatterns[j][1])
    OBVIOUS
  <2>a. 9 \in Nat /\ 1 \in 1..9
    OBVIOUS
  <2>8. FoundAt(says, OsPatterns, 9, "Fire OS")
    BY <2>6, <2>7, <2>a, FoundHere, Zenon
  <2>9. SystemSays(says, "Fire OS", "tablet")
    BY <2>1, <2>3, <2>4, <2>5, <2>8 DEF SystemSays
  <2>b. system.says = says /\ system.os = "Fire OS" /\ system.device = "tablet"
    BY <1>1 DEF says
  <2>10. QED  BY <2>9, <2>b
<1>2. ASSUME system = [os |-> "Android", device |-> "tablet",
                       says |-> <<"Linux", "Android">>]
      PROVE  SystemSays(system.says, system.os, system.device)
  <2> DEFINE says == <<"Linux", "Android">>
  <2>1. says \in Seq(Said)
    <3>1. "Linux" \in Said /\ "Android" \in Said
      BY DEF Said, OsTokens
    <3>2. QED  BY <3>1, FewAreASequence
  <2>2. \A tokens :
          Has(says, tokens) <=> "Linux" \in tokens \/ "Android" \in tokens
    BY HasOfFew
  <2>3. AndroidTablet(says)
    BY DEF AndroidTablet
  <2> HIDE DEF says
  <2>4. ~Has(says, BrowserTokens) /\ ~Has(says, BotTokens) /\ ~Has(says, {"Mobile"})
    BY <2>2 DEF BrowserTokens, BotTokens
  <2>5. /\ ~Has(says, TabletTokens)
        /\ Has(says, MobileTokens)
    BY <2>2 DEF TabletTokens, MobileTokens
  <2>6. Has(says, OsPatterns[2][1]) /\ OsPatterns[2][2] = "Android"
    BY <2>2 DEF OsPatterns
  <2>7. \A j \in 1..9 : j < 2 => ~Has(says, OsPatterns[j][1])
    <3>1. ~Has(says, OsPatterns[1][1])
      BY <2>2 DEF OsPatterns
    <3>2. QED  BY <3>1
  <2>a. 9 \in Nat /\ 2 \in 1..9
    OBVIOUS
  <2>8. FoundAt(says, OsPatterns, 9, "Android")
    BY <2>6, <2>7, <2>a, FoundHere, Zenon
  <2>9. SystemSays(says, "Android", "tablet")
    BY <2>1, <2>3, <2>4, <2>5, <2>8 DEF SystemSays
  <2>b. system.says = says /\ system.os = "Android" /\ system.device = "tablet"
    BY <1>2 DEF says
  <2>10. QED  BY <2>9, <2>b
<1>3. ASSUME system = [os |-> "Android", device |-> "mobile",
                       says |-> <<"Linux", "Android">>]
      PROVE  SystemSays(system.says, system.os, system.device)
  <2> DEFINE says == <<"Linux", "Android">>
  <2>1. says \in Seq(Said)
    <3>1. "Linux" \in Said /\ "Android" \in Said
      BY DEF Said, OsTokens
    <3>2. QED  BY <3>1, FewAreASequence
  <2>2. \A tokens :
          Has(says, tokens) <=> "Linux" \in tokens \/ "Android" \in tokens
    BY HasOfFew
  <2>3. AndroidTablet(says)
    BY DEF AndroidTablet
  <2> HIDE DEF says
  <2>4. ~Has(says, BrowserTokens) /\ ~Has(says, BotTokens) /\ ~Has(says, {"Mobile"})
    BY <2>2 DEF BrowserTokens, BotTokens
  <2>5. /\ ~Has(says, TabletTokens)
        /\ Has(says, MobileTokens)
    BY <2>2 DEF TabletTokens, MobileTokens
  <2>6. Has(says, OsPatterns[2][1]) /\ OsPatterns[2][2] = "Android"
    BY <2>2 DEF OsPatterns
  <2>7. \A j \in 1..9 : j < 2 => ~Has(says, OsPatterns[j][1])
    <3>1. ~Has(says, OsPatterns[1][1])
      BY <2>2 DEF OsPatterns
    <3>2. QED  BY <3>1
  <2>a. 9 \in Nat /\ 2 \in 1..9
    OBVIOUS
  <2>8. FoundAt(says, OsPatterns, 9, "Android")
    BY <2>6, <2>7, <2>a, FoundHere, Zenon
  <2>9. SystemSays(says, "Android", "mobile")
    BY <2>1, <2>3, <2>4, <2>5, <2>8 DEF SystemSays
  <2>b. system.says = says /\ system.os = "Android" /\ system.device = "mobile"
    BY <1>3 DEF says
  <2>10. QED  BY <2>9, <2>b
<1>4. ASSUME system = [os |-> "iOS", device |-> "mobile",
                       says |-> <<"iPhone", "iOS", "Mac OS X">>]
      PROVE  SystemSays(system.says, system.os, system.device)
  <2> DEFINE says == <<"iPhone", "iOS", "Mac OS X">>
  <2>1. says \in Seq(Said)
    <3>1. "iPhone" \in Said /\ "iOS" \in Said /\ "Mac OS X" \in Said
      BY DEF Said, OsTokens
    <3>2. QED  BY <3>1, FewAreASequence
  <2>2. \A tokens :
          Has(says, tokens) <=> "iPhone" \in tokens \/ "iOS" \in tokens \/ "Mac OS X" \in tokens
    BY HasOfFew
  <2>3. ~AndroidTablet(says)
    BY <2>2, NoAndroid
  <2> HIDE DEF says
  <2>4. ~Has(says, BrowserTokens) /\ ~Has(says, BotTokens) /\ ~Has(says, {"Mobile"})
    BY <2>2 DEF BrowserTokens, BotTokens
  <2>5. /\ ~Has(says, TabletTokens)
        /\ Has(says, MobileTokens)
    BY <2>2 DEF TabletTokens, MobileTokens
  <2>6. Has(says, OsPatterns[3][1]) /\ OsPatterns[3][2] = "iOS"
    BY <2>2 DEF OsPatterns
  <2>7. \A j \in 1..9 : j < 3 => ~Has(says, OsPatterns[j][1])
    <3>1. ~Has(says, OsPatterns[1][1])
      BY <2>2 DEF OsPatterns
    <3>2. ~Has(says, OsPatterns[2][1])
      BY <2>2 DEF OsPatterns
    <3>3. QED  BY <3>1, <3>2
  <2>a. 9 \in Nat /\ 3 \in 1..9
    OBVIOUS
  <2>8. FoundAt(says, OsPatterns, 9, "iOS")
    BY <2>6, <2>7, <2>a, FoundHere, Zenon
  <2>9. SystemSays(says, "iOS", "mobile")
    BY <2>1, <2>3, <2>4, <2>5, <2>8 DEF SystemSays
  <2>b. system.says = says /\ system.os = "iOS" /\ system.device = "mobile"
    BY <1>4 DEF says
  <2>10. QED  BY <2>9, <2>b
<1>5. ASSUME system = [os |-> "iOS", device |-> "tablet",
                       says |-> <<"iPad", "iOS", "Mac OS X">>]
      PROVE  SystemSays(system.says, system.os, system.device)
  <2> DEFINE says == <<"iPad", "iOS", "Mac OS X">>
  <2>1. says \in Seq(Said)
    <3>1. "iPad" \in Said /\ "iOS" \in Said /\ "Mac OS X" \in Said
      BY DEF Said, OsTokens
    <3>2. QED  BY <3>1, FewAreASequence
  <2>2. \A tokens :
          Has(says, tokens) <=> "iPad" \in tokens \/ "iOS" \in tokens \/ "Mac OS X" \in tokens
    BY HasOfFew
  <2>3. ~AndroidTablet(says)
    BY <2>2, NoAndroid
  <2> HIDE DEF says
  <2>4. ~Has(says, BrowserTokens) /\ ~Has(says, BotTokens) /\ ~Has(says, {"Mobile"})
    BY <2>2 DEF BrowserTokens, BotTokens
  <2>5. /\ Has(says, TabletTokens)
        /\ ~Has(says, MobileTokens)
    BY <2>2 DEF TabletTokens, MobileTokens
  <2>6. Has(says, OsPatterns[3][1]) /\ OsPatterns[3][2] = "iOS"
    BY <2>2 DEF OsPatterns
  <2>7. \A j \in 1..9 : j < 3 => ~Has(says, OsPatterns[j][1])
    <3>1. ~Has(says, OsPatterns[1][1])
      BY <2>2 DEF OsPatterns
    <3>2. ~Has(says, OsPatterns[2][1])
      BY <2>2 DEF OsPatterns
    <3>3. QED  BY <3>1, <3>2
  <2>a. 9 \in Nat /\ 3 \in 1..9
    OBVIOUS
  <2>8. FoundAt(says, OsPatterns, 9, "iOS")
    BY <2>6, <2>7, <2>a, FoundHere, Zenon
  <2>9. SystemSays(says, "iOS", "tablet")
    BY <2>1, <2>3, <2>4, <2>5, <2>8 DEF SystemSays
  <2>b. system.says = says /\ system.os = "iOS" /\ system.device = "tablet"
    BY <1>5 DEF says
  <2>10. QED  BY <2>9, <2>b
<1>6. ASSUME system = [os |-> "Windows", device |-> "desktop",
                       says |-> <<"Windows NT">>]
      PROVE  SystemSays(system.says, system.os, system.device)
  <2> DEFINE says == <<"Windows NT">>
  <2>1. says \in Seq(Said)
    <3>1. "Windows NT" \in Said
      BY DEF Said, OsTokens
    <3>2. QED  BY <3>1, FewAreASequence
  <2>2. \A tokens :
          Has(says, tokens) <=> "Windows NT" \in tokens
    BY HasOfFew
  <2>3. ~AndroidTablet(says)
    BY <2>2, NoAndroid
  <2> HIDE DEF says
  <2>4. ~Has(says, BrowserTokens) /\ ~Has(says, BotTokens) /\ ~Has(says, {"Mobile"})
    BY <2>2 DEF BrowserTokens, BotTokens
  <2>5. /\ ~Has(says, TabletTokens)
        /\ ~Has(says, MobileTokens)
    BY <2>2 DEF TabletTokens, MobileTokens
  <2>6. Has(says, OsPatterns[5][1]) /\ OsPatterns[5][2] = "Windows"
    BY <2>2 DEF OsPatterns
  <2>7. \A j \in 1..9 : j < 5 => ~Has(says, OsPatterns[j][1])
    <3>1. ~Has(says, OsPatterns[1][1])
      BY <2>2 DEF OsPatterns
    <3>2. ~Has(says, OsPatterns[2][1])
      BY <2>2 DEF OsPatterns
    <3>3. ~Has(says, OsPatterns[3][1])
      BY <2>2 DEF OsPatterns
    <3>4. ~Has(says, OsPatterns[4][1])
      BY <2>2 DEF OsPatterns
    <3>5. QED  BY <3>1, <3>2, <3>3, <3>4
  <2>a. 9 \in Nat /\ 5 \in 1..9
    OBVIOUS
  <2>8. FoundAt(says, OsPatterns, 9, "Windows")
    BY <2>6, <2>7, <2>a, FoundHere, Zenon
  <2>9. SystemSays(says, "Windows", "desktop")
    BY <2>1, <2>3, <2>4, <2>5, <2>8 DEF SystemSays
  <2>b. system.says = says /\ system.os = "Windows" /\ system.device = "desktop"
    BY <1>6 DEF says
  <2>10. QED  BY <2>9, <2>b
<1>7. ASSUME system = [os |-> "Chrome OS", device |-> "desktop",
                       says |-> <<"X11", "CrOS">>]
      PROVE  SystemSays(system.says, system.os, system.device)
  <2> DEFINE says == <<"X11", "CrOS">>
  <2>1. says \in Seq(Said)
    <3>1. "X11" \in Said /\ "CrOS" \in Said
      BY DEF Said, OsTokens
    <3>2. QED  BY <3>1, FewAreASequence
  <2>2. \A tokens :
          Has(says, tokens) <=> "X11" \in tokens \/ "CrOS" \in tokens
    BY HasOfFew
  <2>3. ~AndroidTablet(says)
    BY <2>2, NoAndroid
  <2> HIDE DEF says
  <2>4. ~Has(says, BrowserTokens) /\ ~Has(says, BotTokens) /\ ~Has(says, {"Mobile"})
    BY <2>2 DEF BrowserTokens, BotTokens
  <2>5. /\ ~Has(says, TabletTokens)
        /\ ~Has(says, MobileTokens)
    BY <2>2 DEF TabletTokens, MobileTokens
  <2>6. Has(says, OsPatterns[6][1]) /\ OsPatterns[6][2] = "Chrome OS"
    BY <2>2 DEF OsPatterns
  <2>7. \A j \in 1..9 : j < 6 => ~Has(says, OsPatterns[j][1])
    <3>1. ~Has(says, OsPatterns[1][1])
      BY <2>2 DEF OsPatterns
    <3>2. ~Has(says, OsPatterns[2][1])
      BY <2>2 DEF OsPatterns
    <3>3. ~Has(says, OsPatterns[3][1])
      BY <2>2 DEF OsPatterns
    <3>4. ~Has(says, OsPatterns[4][1])
      BY <2>2 DEF OsPatterns
    <3>5. ~Has(says, OsPatterns[5][1])
      BY <2>2 DEF OsPatterns
    <3>6. QED  BY <3>1, <3>2, <3>3, <3>4, <3>5
  <2>a. 9 \in Nat /\ 6 \in 1..9
    OBVIOUS
  <2>8. FoundAt(says, OsPatterns, 9, "Chrome OS")
    BY <2>6, <2>7, <2>a, FoundHere, Zenon
  <2>9. SystemSays(says, "Chrome OS", "desktop")
    BY <2>1, <2>3, <2>4, <2>5, <2>8 DEF SystemSays
  <2>b. system.says = says /\ system.os = "Chrome OS" /\ system.device = "desktop"
    BY <1>7 DEF says
  <2>10. QED  BY <2>9, <2>b
<1>8. ASSUME system = [os |-> "macOS", device |-> "desktop",
                       says |-> <<"Macintosh", "Mac OS X">>]
      PROVE  SystemSays(system.says, system.os, system.device)
  <2> DEFINE says == <<"Macintosh", "Mac OS X">>
  <2>1. says \in Seq(Said)
    <3>1. "Macintosh" \in Said /\ "Mac OS X" \in Said
      BY DEF Said, OsTokens
    <3>2. QED  BY <3>1, FewAreASequence
  <2>2. \A tokens :
          Has(says, tokens) <=> "Macintosh" \in tokens \/ "Mac OS X" \in tokens
    BY HasOfFew
  <2>3. ~AndroidTablet(says)
    BY <2>2, NoAndroid
  <2> HIDE DEF says
  <2>4. ~Has(says, BrowserTokens) /\ ~Has(says, BotTokens) /\ ~Has(says, {"Mobile"})
    BY <2>2 DEF BrowserTokens, BotTokens
  <2>5. /\ ~Has(says, TabletTokens)
        /\ ~Has(says, MobileTokens)
    BY <2>2 DEF TabletTokens, MobileTokens
  <2>6. Has(says, OsPatterns[7][1]) /\ OsPatterns[7][2] = "macOS"
    BY <2>2 DEF OsPatterns
  <2>7. \A j \in 1..9 : j < 7 => ~Has(says, OsPatterns[j][1])
    <3>1. ~Has(says, OsPatterns[1][1])
      BY <2>2 DEF OsPatterns
    <3>2. ~Has(says, OsPatterns[2][1])
      BY <2>2 DEF OsPatterns
    <3>3. ~Has(says, OsPatterns[3][1])
      BY <2>2 DEF OsPatterns
    <3>4. ~Has(says, OsPatterns[4][1])
      BY <2>2 DEF OsPatterns
    <3>5. ~Has(says, OsPatterns[5][1])
      BY <2>2 DEF OsPatterns
    <3>6. ~Has(says, OsPatterns[6][1])
      BY <2>2 DEF OsPatterns
    <3>7. QED  BY <3>1, <3>2, <3>3, <3>4, <3>5, <3>6
  <2>a. 9 \in Nat /\ 7 \in 1..9
    OBVIOUS
  <2>8. FoundAt(says, OsPatterns, 9, "macOS")
    BY <2>6, <2>7, <2>a, FoundHere, Zenon
  <2>9. SystemSays(says, "macOS", "desktop")
    BY <2>1, <2>3, <2>4, <2>5, <2>8 DEF SystemSays
  <2>b. system.says = says /\ system.os = "macOS" /\ system.device = "desktop"
    BY <1>8 DEF says
  <2>10. QED  BY <2>9, <2>b
<1>9. ASSUME system = [os |-> "Ubuntu", device |-> "desktop",
                       says |-> <<"X11", "Ubuntu", "Linux">>]
      PROVE  SystemSays(system.says, system.os, system.device)
  <2> DEFINE says == <<"X11", "Ubuntu", "Linux">>
  <2>1. says \in Seq(Said)
    <3>1. "X11" \in Said /\ "Ubuntu" \in Said /\ "Linux" \in Said
      BY DEF Said, OsTokens
    <3>2. QED  BY <3>1, FewAreASequence
  <2>2. \A tokens :
          Has(says, tokens) <=> "X11" \in tokens \/ "Ubuntu" \in tokens \/ "Linux" \in tokens
    BY HasOfFew
  <2>3. ~AndroidTablet(says)
    BY <2>2, NoAndroid
  <2> HIDE DEF says
  <2>4. ~Has(says, BrowserTokens) /\ ~Has(says, BotTokens) /\ ~Has(says, {"Mobile"})
    BY <2>2 DEF BrowserTokens, BotTokens
  <2>5. /\ ~Has(says, TabletTokens)
        /\ ~Has(says, MobileTokens)
    BY <2>2 DEF TabletTokens, MobileTokens
  <2>6. Has(says, OsPatterns[8][1]) /\ OsPatterns[8][2] = "Ubuntu"
    BY <2>2 DEF OsPatterns
  <2>7. \A j \in 1..9 : j < 8 => ~Has(says, OsPatterns[j][1])
    <3>1. ~Has(says, OsPatterns[1][1])
      BY <2>2 DEF OsPatterns
    <3>2. ~Has(says, OsPatterns[2][1])
      BY <2>2 DEF OsPatterns
    <3>3. ~Has(says, OsPatterns[3][1])
      BY <2>2 DEF OsPatterns
    <3>4. ~Has(says, OsPatterns[4][1])
      BY <2>2 DEF OsPatterns
    <3>5. ~Has(says, OsPatterns[5][1])
      BY <2>2 DEF OsPatterns
    <3>6. ~Has(says, OsPatterns[6][1])
      BY <2>2 DEF OsPatterns
    <3>7. ~Has(says, OsPatterns[7][1])
      BY <2>2 DEF OsPatterns
    <3>8. QED  BY <3>1, <3>2, <3>3, <3>4, <3>5, <3>6, <3>7
  <2>a. 9 \in Nat /\ 8 \in 1..9
    OBVIOUS
  <2>8. FoundAt(says, OsPatterns, 9, "Ubuntu")
    BY <2>6, <2>7, <2>a, FoundHere, Zenon
  <2>9. SystemSays(says, "Ubuntu", "desktop")
    BY <2>1, <2>3, <2>4, <2>5, <2>8 DEF SystemSays
  <2>b. system.says = says /\ system.os = "Ubuntu" /\ system.device = "desktop"
    BY <1>9 DEF says
  <2>10. QED  BY <2>9, <2>b
<1>10. ASSUME system = [os |-> "Linux", device |-> "desktop",
                       says |-> <<"X11", "Linux">>]
      PROVE  SystemSays(system.says, system.os, system.device)
  <2> DEFINE says == <<"X11", "Linux">>
  <2>1. says \in Seq(Said)
    <3>1. "X11" \in Said /\ "Linux" \in Said
      BY DEF Said, OsTokens
    <3>2. QED  BY <3>1, FewAreASequence
  <2>2. \A tokens :
          Has(says, tokens) <=> "X11" \in tokens \/ "Linux" \in tokens
    BY HasOfFew
  <2>3. ~AndroidTablet(says)
    BY <2>2, NoAndroid
  <2> HIDE DEF says
  <2>4. ~Has(says, BrowserTokens) /\ ~Has(says, BotTokens) /\ ~Has(says, {"Mobile"})
    BY <2>2 DEF BrowserTokens, BotTokens
  <2>5. /\ ~Has(says, TabletTokens)
        /\ ~Has(says, MobileTokens)
    BY <2>2 DEF TabletTokens, MobileTokens
  <2>6. Has(says, OsPatterns[9][1]) /\ OsPatterns[9][2] = "Linux"
    BY <2>2 DEF OsPatterns
  <2>7. \A j \in 1..9 : j < 9 => ~Has(says, OsPatterns[j][1])
    <3>1. ~Has(says, OsPatterns[1][1])
      BY <2>2 DEF OsPatterns
    <3>2. ~Has(says, OsPatterns[2][1])
      BY <2>2 DEF OsPatterns
    <3>3. ~Has(says, OsPatterns[3][1])
      BY <2>2 DEF OsPatterns
    <3>4. ~Has(says, OsPatterns[4][1])
      BY <2>2 DEF OsPatterns
    <3>5. ~Has(says, OsPatterns[5][1])
      BY <2>2 DEF OsPatterns
    <3>6. ~Has(says, OsPatterns[6][1])
      BY <2>2 DEF OsPatterns
    <3>7. ~Has(says, OsPatterns[7][1])
      BY <2>2 DEF OsPatterns
    <3>8. ~Has(says, OsPatterns[8][1])
      BY <2>2 DEF OsPatterns
    <3>9. QED  BY <3>1, <3>2, <3>3, <3>4, <3>5, <3>6, <3>7, <3>8
  <2>a. 9 \in Nat /\ 9 \in 1..9
    OBVIOUS
  <2>8. FoundAt(says, OsPatterns, 9, "Linux")
    BY <2>6, <2>7, <2>a, FoundHere, Zenon
  <2>9. SystemSays(says, "Linux", "desktop")
    BY <2>1, <2>3, <2>4, <2>5, <2>8 DEF SystemSays
  <2>b. system.says = says /\ system.os = "Linux" /\ system.device = "desktop"
    BY <1>10 DEF says
  <2>10. QED  BY <2>9, <2>b
<1>11. QED  BY <1>1, <1>2, <1>3, <1>4, <1>5, <1>6, <1>7, <1>8, <1>9, <1>10, Zenon DEF Systems

\* A browser by what it says: it is found under its own pattern and under none before, and
\* is no system, no bot and no device.
BrowserSays(says, name) ==
  /\ says \in Seq(Said)
  /\ ~Has(says, OsTokens) /\ ~Has(says, BotTokens)
  /\ ~Has(says, TabletTokens) /\ ~Has(says, MobileTokens)
  /\ ~Has(says, {"Android"}) /\ ~Has(says, {"Mobile"})
  /\ FoundAt(says, BrowserPatterns, 11, name)

\* So it is of every browser.
LEMMA BrowserIs ==
  ASSUME NEW browser \in Browsers
  PROVE  BrowserSays(browser.says, browser.name)
<1>1. ASSUME browser = [name |-> "Safari",
                        says |-> <<"Safari">>]
      PROVE  BrowserSays(browser.says, browser.name)
  <2> DEFINE says == <<"Safari">>
  <2>1. says \in Seq(Said)
    <3>1. "Safari" \in Said
      BY DEF Said, BrowserTokens
    <3>2. QED  BY <3>1, FewAreASequence
  <2>2. \A tokens :
          Has(says, tokens) <=> "Safari" \in tokens
    BY HasOfFew
  <2> HIDE DEF says
  <2>3. ~Has(says, OsTokens) /\ ~Has(says, BotTokens)
    BY <2>2 DEF OsTokens, BotTokens
  <2>4. /\ ~Has(says, TabletTokens) /\ ~Has(says, MobileTokens)
        /\ ~Has(says, {"Android"}) /\ ~Has(says, {"Mobile"})
    BY <2>2 DEF TabletTokens, MobileTokens
  <2>5. Has(says, BrowserPatterns[10][1]) /\ BrowserPatterns[10][2] = "Safari"
    BY <2>2 DEF BrowserPatterns
  <2>6. \A j \in 1..11 : j < 10 => ~Has(says, BrowserPatterns[j][1])
    <3>1. ~Has(says, BrowserPatterns[1][1])
      BY <2>2 DEF BrowserPatterns
    <3>2. ~Has(says, BrowserPatterns[2][1])
      BY <2>2 DEF BrowserPatterns
    <3>3. ~Has(says, BrowserPatterns[3][1])
      BY <2>2 DEF BrowserPatterns
    <3>4. ~Has(says, BrowserPatterns[4][1])
      BY <2>2 DEF BrowserPatterns
    <3>5. ~Has(says, BrowserPatterns[5][1])
      BY <2>2 DEF BrowserPatterns
    <3>6. ~Has(says, BrowserPatterns[6][1])
      BY <2>2 DEF BrowserPatterns
    <3>7. ~Has(says, BrowserPatterns[7][1])
      BY <2>2 DEF BrowserPatterns
    <3>8. ~Has(says, BrowserPatterns[8][1])
      BY <2>2 DEF BrowserPatterns
    <3>9. ~Has(says, BrowserPatterns[9][1])
      BY <2>2 DEF BrowserPatterns
    <3>10. QED  BY <3>1, <3>2, <3>3, <3>4, <3>5, <3>6, <3>7, <3>8, <3>9
  <2>a. 11 \in Nat /\ 10 \in 1..11
    OBVIOUS
  <2>7. FoundAt(says, BrowserPatterns, 11, "Safari")
    BY <2>5, <2>6, <2>a, FoundHere, Zenon
  <2>8. BrowserSays(says, "Safari")
    BY <2>1, <2>3, <2>4, <2>7 DEF BrowserSays
  <2>9. browser.says = says /\ browser.name = "Safari"
    BY <1>1 DEF says
  <2>10. QED  BY <2>8, <2>9
<1>2. ASSUME browser = [name |-> "Chrome",
                        says |-> <<"Chrome", "Safari">>]
      PROVE  BrowserSays(browser.says, browser.name)
  <2> DEFINE says == <<"Chrome", "Safari">>
  <2>1. says \in Seq(Said)
    <3>1. "Chrome" \in Said /\ "Safari" \in Said
      BY DEF Said, BrowserTokens
    <3>2. QED  BY <3>1, FewAreASequence
  <2>2. \A tokens :
          Has(says, tokens) <=> "Chrome" \in tokens \/ "Safari" \in tokens
    BY HasOfFew
  <2> HIDE DEF says
  <2>3. ~Has(says, OsTokens) /\ ~Has(says, BotTokens)
    BY <2>2 DEF OsTokens, BotTokens
  <2>4. /\ ~Has(says, TabletTokens) /\ ~Has(says, MobileTokens)
        /\ ~Has(says, {"Android"}) /\ ~Has(says, {"Mobile"})
    BY <2>2 DEF TabletTokens, MobileTokens
  <2>5. Has(says, BrowserPatterns[9][1]) /\ BrowserPatterns[9][2] = "Chrome"
    BY <2>2 DEF BrowserPatterns
  <2>6. \A j \in 1..11 : j < 9 => ~Has(says, BrowserPatterns[j][1])
    <3>1. ~Has(says, BrowserPatterns[1][1])
      BY <2>2 DEF BrowserPatterns
    <3>2. ~Has(says, BrowserPatterns[2][1])
      BY <2>2 DEF BrowserPatterns
    <3>3. ~Has(says, BrowserPatterns[3][1])
      BY <2>2 DEF BrowserPatterns
    <3>4. ~Has(says, BrowserPatterns[4][1])
      BY <2>2 DEF BrowserPatterns
    <3>5. ~Has(says, BrowserPatterns[5][1])
      BY <2>2 DEF BrowserPatterns
    <3>6. ~Has(says, BrowserPatterns[6][1])
      BY <2>2 DEF BrowserPatterns
    <3>7. ~Has(says, BrowserPatterns[7][1])
      BY <2>2 DEF BrowserPatterns
    <3>8. ~Has(says, BrowserPatterns[8][1])
      BY <2>2 DEF BrowserPatterns
    <3>9. QED  BY <3>1, <3>2, <3>3, <3>4, <3>5, <3>6, <3>7, <3>8
  <2>a. 11 \in Nat /\ 9 \in 1..11
    OBVIOUS
  <2>7. FoundAt(says, BrowserPatterns, 11, "Chrome")
    BY <2>5, <2>6, <2>a, FoundHere, Zenon
  <2>8. BrowserSays(says, "Chrome")
    BY <2>1, <2>3, <2>4, <2>7 DEF BrowserSays
  <2>9. browser.says = says /\ browser.name = "Chrome"
    BY <1>2 DEF says
  <2>10. QED  BY <2>8, <2>9
<1>3. ASSUME browser = [name |-> "Chrome",
                        says |-> <<"CriOS", "Safari">>]
      PROVE  BrowserSays(browser.says, browser.name)
  <2> DEFINE says == <<"CriOS", "Safari">>
  <2>1. says \in Seq(Said)
    <3>1. "CriOS" \in Said /\ "Safari" \in Said
      BY DEF Said, BrowserTokens
    <3>2. QED  BY <3>1, FewAreASequence
  <2>2. \A tokens :
          Has(says, tokens) <=> "CriOS" \in tokens \/ "Safari" \in tokens
    BY HasOfFew
  <2> HIDE DEF says
  <2>3. ~Has(says, OsTokens) /\ ~Has(says, BotTokens)
    BY <2>2 DEF OsTokens, BotTokens
  <2>4. /\ ~Has(says, TabletTokens) /\ ~Has(says, MobileTokens)
        /\ ~Has(says, {"Android"}) /\ ~Has(says, {"Mobile"})
    BY <2>2 DEF TabletTokens, MobileTokens
  <2>5. Has(says, BrowserPatterns[9][1]) /\ BrowserPatterns[9][2] = "Chrome"
    BY <2>2 DEF BrowserPatterns
  <2>6. \A j \in 1..11 : j < 9 => ~Has(says, BrowserPatterns[j][1])
    <3>1. ~Has(says, BrowserPatterns[1][1])
      BY <2>2 DEF BrowserPatterns
    <3>2. ~Has(says, BrowserPatterns[2][1])
      BY <2>2 DEF BrowserPatterns
    <3>3. ~Has(says, BrowserPatterns[3][1])
      BY <2>2 DEF BrowserPatterns
    <3>4. ~Has(says, BrowserPatterns[4][1])
      BY <2>2 DEF BrowserPatterns
    <3>5. ~Has(says, BrowserPatterns[5][1])
      BY <2>2 DEF BrowserPatterns
    <3>6. ~Has(says, BrowserPatterns[6][1])
      BY <2>2 DEF BrowserPatterns
    <3>7. ~Has(says, BrowserPatterns[7][1])
      BY <2>2 DEF BrowserPatterns
    <3>8. ~Has(says, BrowserPatterns[8][1])
      BY <2>2 DEF BrowserPatterns
    <3>9. QED  BY <3>1, <3>2, <3>3, <3>4, <3>5, <3>6, <3>7, <3>8
  <2>a. 11 \in Nat /\ 9 \in 1..11
    OBVIOUS
  <2>7. FoundAt(says, BrowserPatterns, 11, "Chrome")
    BY <2>5, <2>6, <2>a, FoundHere, Zenon
  <2>8. BrowserSays(says, "Chrome")
    BY <2>1, <2>3, <2>4, <2>7 DEF BrowserSays
  <2>9. browser.says = says /\ browser.name = "Chrome"
    BY <1>3 DEF says
  <2>10. QED  BY <2>8, <2>9
<1>4. ASSUME browser = [name |-> "Edge",
                        says |-> <<"Chrome", "Safari", "Edg">>]
      PROVE  BrowserSays(browser.says, browser.name)
  <2> DEFINE says == <<"Chrome", "Safari", "Edg">>
  <2>1. says \in Seq(Said)
    <3>1. "Chrome" \in Said /\ "Safari" \in Said /\ "Edg" \in Said
      BY DEF Said, BrowserTokens
    <3>2. QED  BY <3>1, FewAreASequence
  <2>2. \A tokens :
          Has(says, tokens) <=> "Chrome" \in tokens \/ "Safari" \in tokens \/ "Edg" \in tokens
    BY HasOfFew
  <2> HIDE DEF says
  <2>3. ~Has(says, OsTokens) /\ ~Has(says, BotTokens)
    BY <2>2 DEF OsTokens, BotTokens
  <2>4. /\ ~Has(says, TabletTokens) /\ ~Has(says, MobileTokens)
        /\ ~Has(says, {"Android"}) /\ ~Has(says, {"Mobile"})
    BY <2>2 DEF TabletTokens, MobileTokens
  <2>5. Has(says, BrowserPatterns[1][1]) /\ BrowserPatterns[1][2] = "Edge"
    BY <2>2 DEF BrowserPatterns
  <2>6. \A j \in 1..11 : j < 1 => ~Has(says, BrowserPatterns[j][1])
    OBVIOUS
  <2>a. 11 \in Nat /\ 1 \in 1..11
    OBVIOUS
  <2>7. FoundAt(says, BrowserPatterns, 11, "Edge")
    BY <2>5, <2>6, <2>a, FoundHere, Zenon
  <2>8. BrowserSays(says, "Edge")
    BY <2>1, <2>3, <2>4, <2>7 DEF BrowserSays
  <2>9. browser.says = says /\ browser.name = "Edge"
    BY <1>4 DEF says
  <2>10. QED  BY <2>8, <2>9
<1>5. ASSUME browser = [name |-> "Edge",
                        says |-> <<"Chrome", "Safari", "Edge">>]
      PROVE  BrowserSays(browser.says, browser.name)
  <2> DEFINE says == <<"Chrome", "Safari", "Edge">>
  <2>1. says \in Seq(Said)
    <3>1. "Chrome" \in Said /\ "Safari" \in Said /\ "Edge" \in Said
      BY DEF Said, BrowserTokens
    <3>2. QED  BY <3>1, FewAreASequence
  <2>2. \A tokens :
          Has(says, tokens) <=> "Chrome" \in tokens \/ "Safari" \in tokens \/ "Edge" \in tokens
    BY HasOfFew
  <2> HIDE DEF says
  <2>3. ~Has(says, OsTokens) /\ ~Has(says, BotTokens)
    BY <2>2 DEF OsTokens, BotTokens
  <2>4. /\ ~Has(says, TabletTokens) /\ ~Has(says, MobileTokens)
        /\ ~Has(says, {"Android"}) /\ ~Has(says, {"Mobile"})
    BY <2>2 DEF TabletTokens, MobileTokens
  <2>5. Has(says, BrowserPatterns[1][1]) /\ BrowserPatterns[1][2] = "Edge"
    BY <2>2 DEF BrowserPatterns
  <2>6. \A j \in 1..11 : j < 1 => ~Has(says, BrowserPatterns[j][1])
    OBVIOUS
  <2>a. 11 \in Nat /\ 1 \in 1..11
    OBVIOUS
  <2>7. FoundAt(says, BrowserPatterns, 11, "Edge")
    BY <2>5, <2>6, <2>a, FoundHere, Zenon
  <2>8. BrowserSays(says, "Edge")
    BY <2>1, <2>3, <2>4, <2>7 DEF BrowserSays
  <2>9. browser.says = says /\ browser.name = "Edge"
    BY <1>5 DEF says
  <2>10. QED  BY <2>8, <2>9
<1>6. ASSUME browser = [name |-> "Opera",
                        says |-> <<"Chrome", "Safari", "OPR">>]
      PROVE  BrowserSays(browser.says, browser.name)
  <2> DEFINE says == <<"Chrome", "Safari", "OPR">>
  <2>1. says \in Seq(Said)
    <3>1. "Chrome" \in Said /\ "Safari" \in Said /\ "OPR" \in Said
      BY DEF Said, BrowserTokens
    <3>2. QED  BY <3>1, FewAreASequence
  <2>2. \A tokens :
          Has(says, tokens) <=> "Chrome" \in tokens \/ "Safari" \in tokens \/ "OPR" \in tokens
    BY HasOfFew
  <2> HIDE DEF says
  <2>3. ~Has(says, OsTokens) /\ ~Has(says, BotTokens)
    BY <2>2 DEF OsTokens, BotTokens
  <2>4. /\ ~Has(says, TabletTokens) /\ ~Has(says, MobileTokens)
        /\ ~Has(says, {"Android"}) /\ ~Has(says, {"Mobile"})
    BY <2>2 DEF TabletTokens, MobileTokens
  <2>5. Has(says, BrowserPatterns[2][1]) /\ BrowserPatterns[2][2] = "Opera"
    BY <2>2 DEF BrowserPatterns
  <2>6. \A j \in 1..11 : j < 2 => ~Has(says, BrowserPatterns[j][1])
    <3>1. ~Has(says, BrowserPatterns[1][1])
      BY <2>2 DEF BrowserPatterns
    <3>2. QED  BY <3>1
  <2>a. 11 \in Nat /\ 2 \in 1..11
    OBVIOUS
  <2>7. FoundAt(says, BrowserPatterns, 11, "Opera")
    BY <2>5, <2>6, <2>a, FoundHere, Zenon
  <2>8. BrowserSays(says, "Opera")
    BY <2>1, <2>3, <2>4, <2>7 DEF BrowserSays
  <2>9. browser.says = says /\ browser.name = "Opera"
    BY <1>6 DEF says
  <2>10. QED  BY <2>8, <2>9
<1>7. ASSUME browser = [name |-> "Samsung Internet",
                        says |-> <<"SamsungBrowser", "Chrome", "Safari">>]
      PROVE  BrowserSays(browser.says, browser.name)
  <2> DEFINE says == <<"SamsungBrowser", "Chrome", "Safari">>
  <2>1. says \in Seq(Said)
    <3>1. "SamsungBrowser" \in Said /\ "Chrome" \in Said /\ "Safari" \in Said
      BY DEF Said, BrowserTokens
    <3>2. QED  BY <3>1, FewAreASequence
  <2>2. \A tokens :
          Has(says, tokens) <=> "SamsungBrowser" \in tokens \/ "Chrome" \in tokens \/ "Safari" \in tokens
    BY HasOfFew
  <2> HIDE DEF says
  <2>3. ~Has(says, OsTokens) /\ ~Has(says, BotTokens)
    BY <2>2 DEF OsTokens, BotTokens
  <2>4. /\ ~Has(says, TabletTokens) /\ ~Has(says, MobileTokens)
        /\ ~Has(says, {"Android"}) /\ ~Has(says, {"Mobile"})
    BY <2>2 DEF TabletTokens, MobileTokens
  <2>5. Has(says, BrowserPatterns[3][1]) /\ BrowserPatterns[3][2] = "Samsung Internet"
    BY <2>2 DEF BrowserPatterns
  <2>6. \A j \in 1..11 : j < 3 => ~Has(says, BrowserPatterns[j][1])
    <3>1. ~Has(says, BrowserPatterns[1][1])
      BY <2>2 DEF BrowserPatterns
    <3>2. ~Has(says, BrowserPatterns[2][1])
      BY <2>2 DEF BrowserPatterns
    <3>3. QED  BY <3>1, <3>2
  <2>a. 11 \in Nat /\ 3 \in 1..11
    OBVIOUS
  <2>7. FoundAt(says, BrowserPatterns, 11, "Samsung Internet")
    BY <2>5, <2>6, <2>a, FoundHere, Zenon
  <2>8. BrowserSays(says, "Samsung Internet")
    BY <2>1, <2>3, <2>4, <2>7 DEF BrowserSays
  <2>9. browser.says = says /\ browser.name = "Samsung Internet"
    BY <1>7 DEF says
  <2>10. QED  BY <2>8, <2>9
<1>8. ASSUME browser = [name |-> "Vivaldi",
                        says |-> <<"Chrome", "Safari", "Vivaldi">>]
      PROVE  BrowserSays(browser.says, browser.name)
  <2> DEFINE says == <<"Chrome", "Safari", "Vivaldi">>
  <2>1. says \in Seq(Said)
    <3>1. "Chrome" \in Said /\ "Safari" \in Said /\ "Vivaldi" \in Said
      BY DEF Said, BrowserTokens
    <3>2. QED  BY <3>1, FewAreASequence
  <2>2. \A tokens :
          Has(says, tokens) <=> "Chrome" \in tokens \/ "Safari" \in tokens \/ "Vivaldi" \in tokens
    BY HasOfFew
  <2> HIDE DEF says
  <2>3. ~Has(says, OsTokens) /\ ~Has(says, BotTokens)
    BY <2>2 DEF OsTokens, BotTokens
  <2>4. /\ ~Has(says, TabletTokens) /\ ~Has(says, MobileTokens)
        /\ ~Has(says, {"Android"}) /\ ~Has(says, {"Mobile"})
    BY <2>2 DEF TabletTokens, MobileTokens
  <2>5. Has(says, BrowserPatterns[5][1]) /\ BrowserPatterns[5][2] = "Vivaldi"
    BY <2>2 DEF BrowserPatterns
  <2>6. \A j \in 1..11 : j < 5 => ~Has(says, BrowserPatterns[j][1])
    <3>1. ~Has(says, BrowserPatterns[1][1])
      BY <2>2 DEF BrowserPatterns
    <3>2. ~Has(says, BrowserPatterns[2][1])
      BY <2>2 DEF BrowserPatterns
    <3>3. ~Has(says, BrowserPatterns[3][1])
      BY <2>2 DEF BrowserPatterns
    <3>4. ~Has(says, BrowserPatterns[4][1])
      BY <2>2 DEF BrowserPatterns
    <3>5. QED  BY <3>1, <3>2, <3>3, <3>4
  <2>a. 11 \in Nat /\ 5 \in 1..11
    OBVIOUS
  <2>7. FoundAt(says, BrowserPatterns, 11, "Vivaldi")
    BY <2>5, <2>6, <2>a, FoundHere, Zenon
  <2>8. BrowserSays(says, "Vivaldi")
    BY <2>1, <2>3, <2>4, <2>7 DEF BrowserSays
  <2>9. browser.says = says /\ browser.name = "Vivaldi"
    BY <1>8 DEF says
  <2>10. QED  BY <2>8, <2>9
<1>9. ASSUME browser = [name |-> "Firefox",
                        says |-> <<"Gecko", "Firefox">>]
      PROVE  BrowserSays(browser.says, browser.name)
  <2> DEFINE says == <<"Gecko", "Firefox">>
  <2>1. says \in Seq(Said)
    <3>1. "Gecko" \in Said /\ "Firefox" \in Said
      BY DEF Said, BrowserTokens
    <3>2. QED  BY <3>1, FewAreASequence
  <2>2. \A tokens :
          Has(says, tokens) <=> "Gecko" \in tokens \/ "Firefox" \in tokens
    BY HasOfFew
  <2> HIDE DEF says
  <2>3. ~Has(says, OsTokens) /\ ~Has(says, BotTokens)
    BY <2>2 DEF OsTokens, BotTokens
  <2>4. /\ ~Has(says, TabletTokens) /\ ~Has(says, MobileTokens)
        /\ ~Has(says, {"Android"}) /\ ~Has(says, {"Mobile"})
    BY <2>2 DEF TabletTokens, MobileTokens
  <2>5. Has(says, BrowserPatterns[8][1]) /\ BrowserPatterns[8][2] = "Firefox"
    BY <2>2 DEF BrowserPatterns
  <2>6. \A j \in 1..11 : j < 8 => ~Has(says, BrowserPatterns[j][1])
    <3>1. ~Has(says, BrowserPatterns[1][1])
      BY <2>2 DEF BrowserPatterns
    <3>2. ~Has(says, BrowserPatterns[2][1])
      BY <2>2 DEF BrowserPatterns
    <3>3. ~Has(says, BrowserPatterns[3][1])
      BY <2>2 DEF BrowserPatterns
    <3>4. ~Has(says, BrowserPatterns[4][1])
      BY <2>2 DEF BrowserPatterns
    <3>5. ~Has(says, BrowserPatterns[5][1])
      BY <2>2 DEF BrowserPatterns
    <3>6. ~Has(says, BrowserPatterns[6][1])
      BY <2>2 DEF BrowserPatterns
    <3>7. ~Has(says, BrowserPatterns[7][1])
      BY <2>2 DEF BrowserPatterns
    <3>8. QED  BY <3>1, <3>2, <3>3, <3>4, <3>5, <3>6, <3>7
  <2>a. 11 \in Nat /\ 8 \in 1..11
    OBVIOUS
  <2>7. FoundAt(says, BrowserPatterns, 11, "Firefox")
    BY <2>5, <2>6, <2>a, FoundHere, Zenon
  <2>8. BrowserSays(says, "Firefox")
    BY <2>1, <2>3, <2>4, <2>7 DEF BrowserSays
  <2>9. browser.says = says /\ browser.name = "Firefox"
    BY <1>9 DEF says
  <2>10. QED  BY <2>8, <2>9
<1>10. ASSUME browser = [name |-> "Firefox",
                        says |-> <<"FxiOS", "Safari">>]
      PROVE  BrowserSays(browser.says, browser.name)
  <2> DEFINE says == <<"FxiOS", "Safari">>
  <2>1. says \in Seq(Said)
    <3>1. "FxiOS" \in Said /\ "Safari" \in Said
      BY DEF Said, BrowserTokens
    <3>2. QED  BY <3>1, FewAreASequence
  <2>2. \A tokens :
          Has(says, tokens) <=> "FxiOS" \in tokens \/ "Safari" \in tokens
    BY HasOfFew
  <2> HIDE DEF says
  <2>3. ~Has(says, OsTokens) /\ ~Has(says, BotTokens)
    BY <2>2 DEF OsTokens, BotTokens
  <2>4. /\ ~Has(says, TabletTokens) /\ ~Has(says, MobileTokens)
        /\ ~Has(says, {"Android"}) /\ ~Has(says, {"Mobile"})
    BY <2>2 DEF TabletTokens, MobileTokens
  <2>5. Has(says, BrowserPatterns[8][1]) /\ BrowserPatterns[8][2] = "Firefox"
    BY <2>2 DEF BrowserPatterns
  <2>6. \A j \in 1..11 : j < 8 => ~Has(says, BrowserPatterns[j][1])
    <3>1. ~Has(says, BrowserPatterns[1][1])
      BY <2>2 DEF BrowserPatterns
    <3>2. ~Has(says, BrowserPatterns[2][1])
      BY <2>2 DEF BrowserPatterns
    <3>3. ~Has(says, BrowserPatterns[3][1])
      BY <2>2 DEF BrowserPatterns
    <3>4. ~Has(says, BrowserPatterns[4][1])
      BY <2>2 DEF BrowserPatterns
    <3>5. ~Has(says, BrowserPatterns[5][1])
      BY <2>2 DEF BrowserPatterns
    <3>6. ~Has(says, BrowserPatterns[6][1])
      BY <2>2 DEF BrowserPatterns
    <3>7. ~Has(says, BrowserPatterns[7][1])
      BY <2>2 DEF BrowserPatterns
    <3>8. QED  BY <3>1, <3>2, <3>3, <3>4, <3>5, <3>6, <3>7
  <2>a. 11 \in Nat /\ 8 \in 1..11
    OBVIOUS
  <2>7. FoundAt(says, BrowserPatterns, 11, "Firefox")
    BY <2>5, <2>6, <2>a, FoundHere, Zenon
  <2>8. BrowserSays(says, "Firefox")
    BY <2>1, <2>3, <2>4, <2>7 DEF BrowserSays
  <2>9. browser.says = says /\ browser.name = "Firefox"
    BY <1>10 DEF says
  <2>10. QED  BY <2>8, <2>9
<1>11. QED  BY <1>1, <1>2, <1>3, <1>4, <1>5, <1>6, <1>7, <1>8, <1>9, <1>10, Zenon DEF Browsers

\* What is found under a name is given it.
LEMMA FoundIsMatched ==
  ASSUME NEW ua, NEW patterns, NEW last \in Nat, DOMAIN patterns = 1..last, NEW name,
         FoundAt(ua, patterns, last, name)
  PROVE  firstMatch(ua, patterns) = name
<1>1. PICK i \in 1..last :
        /\ patterns[i][2] = name /\ Has(ua, patterns[i][1])
        /\ \A j \in 1..last : j < i => ~Has(ua, patterns[j][1])
  BY DEF FoundAt
<1>2. DOMAIN patterns \subseteq Int
  OBVIOUS
<1>3. QED  BY <1>1, <1>2, FirstMatchIs

\* What is said by more is found where the patterns match no other part of it.
LEMMA FoundInMore ==
  ASSUME NEW ua, NEW says, NEW patterns, NEW last \in Nat, NEW name,
         FoundAt(says, patterns, last, name),
         \A i \in 1..last : Has(ua, patterns[i][1]) <=> Has(says, patterns[i][1])
  PROVE  FoundAt(ua, patterns, last, name)
BY DEF FoundAt

\* More tokens match more.
LEMMA HasOfFewer ==
  ASSUME NEW ua, NEW tokens, NEW more, tokens \subseteq more, Has(ua, tokens)
  PROVE  Has(ua, more)
BY DEF Has

\* A whole User-Agent, by its parts.
LEMMA AgentIs ==
  ASSUME NEW system \in Systems, NEW browser \in Browsers
  PROVE  LET ua == UserAgentOf(system, browser) IN
         /\ ua \in Seq(Said)
         /\ \A tokens : Has(ua, tokens) <=>
              \/ "Mozilla" \in tokens \/ Has(system.says, tokens) \/ "AppleWebKit" \in tokens
              \/ (system.device = "mobile" /\ "Mobile" \in tokens)
              \/ Has(browser.says, tokens)
         /\ AndroidTablet(ua) <=> AndroidTablet(system.says) /\ system.device # "mobile"
<1> DEFINE mozilla == <<"Mozilla">>
           webkit == <<"AppleWebKit">>
           mobile == IF system.device = "mobile" THEN <<"Mobile">> ELSE <<>>
           ua == UserAgentOf(system, browser)
<1>1. /\ system.says \in Seq(Said) /\ ~Has(system.says, {"Mobile"})
      /\ browser.says \in Seq(Said)
      /\ ~Has(browser.says, {"Android"}) /\ ~Has(browser.says, {"Mobile"})
  BY SystemIs, BrowserIs DEF SystemSays, BrowserSays
<1>2. "Mozilla" \in Said /\ "AppleWebKit" \in Said /\ "Mobile" \in Said
  BY DEF Said
<1>3. /\ mozilla \in Seq(Said)
      /\ \A tokens : Has(mozilla, tokens) <=> "Mozilla" \in tokens
  BY <1>2, FewAreASequence, HasOfFew
<1>4. /\ webkit \in Seq(Said)
      /\ \A tokens : Has(webkit, tokens) <=> "AppleWebKit" \in tokens
  BY <1>2, FewAreASequence, HasOfFew
<1>5. /\ mobile \in Seq(Said)
      /\ \A tokens : Has(mobile, tokens) <=> system.device = "mobile" /\ "Mobile" \in tokens
  <2>1. CASE system.device = "mobile"
    BY <2>1, <1>2, FewAreASequence, HasOfFew
  <2>2. CASE system.device # "mobile"
    <3>1. <<>> \in Seq(Said) /\ \A tokens : ~Has(<<>>, tokens)
      BY DEF Has
    <3>2. QED  BY <2>2, <3>1
  <2>3. QED  BY <2>1, <2>2
<1>6. ua = mozilla \o system.says \o webkit \o mobile \o browser.says
  BY DEF UserAgentOf
<1> DEFINE one == mozilla \o system.says
           two == one \o webkit
           three == two \o mobile
<1> HIDE DEF mozilla, webkit, mobile, ua
<1>7. /\ one \in Seq(Said)
      /\ \A tokens : Has(one, tokens) <=> Has(mozilla, tokens) \/ Has(system.says, tokens)
      /\ AndroidTablet(one) <=>
           AndroidTablet(system.says) \/ (AndroidTablet(mozilla) /\ ~Has(system.says, {"Mobile"}))
  BY <1>1, <1>3, HasOfBoth, TabletOfBoth
<1> HIDE DEF one
<1>8. /\ two \in Seq(Said)
      /\ \A tokens : Has(two, tokens) <=> Has(one, tokens) \/ Has(webkit, tokens)
      /\ AndroidTablet(two) <=>
           AndroidTablet(webkit) \/ (AndroidTablet(one) /\ ~Has(webkit, {"Mobile"}))
  BY <1>4, <1>7, HasOfBoth, TabletOfBoth
<1> HIDE DEF two
<1>9. /\ three \in Seq(Said)
      /\ \A tokens : Has(three, tokens) <=> Has(two, tokens) \/ Has(mobile, tokens)
      /\ AndroidTablet(three) <=>
           AndroidTablet(mobile) \/ (AndroidTablet(two) /\ ~Has(mobile, {"Mobile"}))
  BY <1>5, <1>8, HasOfBoth, TabletOfBoth
<1> HIDE DEF three
<1>10. /\ ua \in Seq(Said)
       /\ \A tokens : Has(ua, tokens) <=> Has(three, tokens) \/ Has(browser.says, tokens)
       /\ AndroidTablet(ua) <=>
           AndroidTablet(browser.says) \/ (AndroidTablet(three) /\ ~Has(browser.says, {"Mobile"}))
  <2>1. ua = three \o browser.says
    BY <1>6 DEF three, two, one
  <2>2. QED  BY <2>1, <1>1, <1>9, HasOfBoth, TabletOfBoth
<1>11. \A tokens : Has(ua, tokens) <=>
              \/ "Mozilla" \in tokens \/ Has(system.says, tokens) \/ "AppleWebKit" \in tokens
              \/ (system.device = "mobile" /\ "Mobile" \in tokens)
              \/ Has(browser.says, tokens)
  BY <1>3, <1>4, <1>5, <1>7, <1>8, <1>9, <1>10
<1>12. /\ ~AndroidTablet(mozilla) /\ ~AndroidTablet(webkit) /\ ~AndroidTablet(mobile)
       /\ ~AndroidTablet(browser.says)
  <2>1. ~Has(mozilla, {"Android"}) /\ ~Has(webkit, {"Android"}) /\ ~Has(mobile, {"Android"})
    BY <1>3, <1>4, <1>5
  <2>2. QED  BY <2>1, <1>1, NoAndroid
<1>13. /\ ~Has(webkit, {"Mobile"})
       /\ Has(mobile, {"Mobile"}) <=> system.device = "mobile"
  BY <1>4, <1>5
<1>14. AndroidTablet(ua) <=> AndroidTablet(system.says) /\ system.device # "mobile"
  BY <1>1, <1>7, <1>8, <1>9, <1>10, <1>12, <1>13
<1>15. QED  BY <1>10, <1>11, <1>14 DEF ua

\* The parts of a User-Agent do not touch each other's patterns, and are named alone.
LEMMA AgentIsNamed ==
  ASSUME NEW system \in Systems, NEW browser \in Browsers
  PROVE  LET ua == UserAgentOf(system, browser) IN
         /\ parseUserAgent(ua) =
              [deviceType |-> system.device, browser |-> browser.name, os |-> system.os]
         /\ parseUserAgent(Append(ua, "bot")).deviceType = "bot"
<1> DEFINE ua == UserAgentOf(system, browser)
           agent == Append(ua, "bot")
<1>1. /\ ua \in Seq(Said)
      /\ \A tokens : Has(ua, tokens) <=>
           \/ "Mozilla" \in tokens \/ Has(system.says, tokens) \/ "AppleWebKit" \in tokens
           \/ (system.device = "mobile" /\ "Mobile" \in tokens)
           \/ Has(browser.says, tokens)
      /\ AndroidTablet(ua) <=> AndroidTablet(system.says) /\ system.device # "mobile"
  BY AgentIs
<1> HIDE DEF ua
<1>2. SystemSays(system.says, system.os, system.device)
  BY SystemIs
<1>3. BrowserSays(browser.says, browser.name)
  BY BrowserIs
<1>4. ua # <<>>
  <2>1. Has(ua, {"Mozilla"})
    BY <1>1
  <2>2. QED  BY <2>1 DEF Has
<1>5. ~Has(ua, BotTokens)
  <2>1. "Mozilla" \notin BotTokens /\ "AppleWebKit" \notin BotTokens /\ "Mobile" \notin BotTokens
    BY DEF BotTokens
  <2>2. QED  BY <2>1, <1>1, <1>2, <1>3 DEF SystemSays, BrowserSays
<1>6. firstMatch(ua, OsPatterns) = system.os
  <2> DEFINE last == 9
  <2>1. last \in Nat /\ DOMAIN OsPatterns = 1..last
    BY DEF OsPatterns
  <2>2. \A i \in 1..last : OsPatterns[i][1] \subseteq OsTokens
    BY OsTokensAre
  <2>3. FoundAt(system.says, OsPatterns, last, system.os) /\ ~Has(browser.says, OsTokens)
    BY <1>2, <1>3 DEF SystemSays, BrowserSays
  <2>4. "Mozilla" \notin OsTokens /\ "AppleWebKit" \notin OsTokens /\ "Mobile" \notin OsTokens
    BY DEF OsTokens
  <2> HIDE DEF last
  <2>5. \A i \in 1..last : Has(ua, OsPatterns[i][1]) <=> Has(system.says, OsPatterns[i][1])
    <3> SUFFICES ASSUME NEW i \in 1..last
                 PROVE  Has(ua, OsPatterns[i][1]) <=> Has(system.says, OsPatterns[i][1])
      OBVIOUS
    <3> DEFINE tokens == OsPatterns[i][1]
    <3>1. tokens \subseteq OsTokens
      BY <2>2
    <3> HIDE DEF tokens
    <3>2. ~Has(browser.says, tokens)
      BY <3>1, <2>3, HasOfFewer
    <3>3. Has(ua, tokens) <=> Has(system.says, tokens)
      BY <3>1, <3>2, <2>4, <1>1
    <3>4. QED  BY <3>3 DEF tokens
  <2>6. FoundAt(ua, OsPatterns, last, system.os)
    BY <2>1, <2>3, <2>5, FoundInMore
  <2>7. QED  BY <2>1, <2>6, FoundIsMatched
<1>7. firstMatch(ua, BrowserPatterns) = browser.name
  <2> DEFINE last == 11
  <2>1. last \in Nat /\ DOMAIN BrowserPatterns = 1..last
    BY DEF BrowserPatterns
  <2>2. \A i \in 1..last : BrowserPatterns[i][1] \subseteq BrowserTokens
    BY BrowserTokensAre
  <2>3. /\ FoundAt(browser.says, BrowserPatterns, last, browser.name)
        /\ ~Has(system.says, BrowserTokens)
    BY <1>2, <1>3 DEF SystemSays, BrowserSays
  <2>4. /\ "Mozilla" \notin BrowserTokens /\ "AppleWebKit" \notin BrowserTokens
        /\ "Mobile" \notin BrowserTokens
    BY DEF BrowserTokens
  <2> HIDE DEF last
  <2>5. \A i \in 1..last :
          Has(ua, BrowserPatterns[i][1]) <=> Has(browser.says, BrowserPatterns[i][1])
    <3> SUFFICES ASSUME NEW i \in 1..last
                 PROVE  Has(ua, BrowserPatterns[i][1]) <=> Has(browser.says, BrowserPatterns[i][1])
      OBVIOUS
    <3> DEFINE tokens == BrowserPatterns[i][1]
    <3>1. tokens \subseteq BrowserTokens
      BY <2>2
    <3> HIDE DEF tokens
    <3>2. ~Has(system.says, tokens)
      BY <3>1, <2>3, HasOfFewer
    <3>3. Has(ua, tokens) <=> Has(browser.says, tokens)
      BY <3>1, <3>2, <2>4, <1>1
    <3>4. QED  BY <3>3 DEF tokens
  <2>6. FoundAt(ua, BrowserPatterns, last, browser.name)
    BY <2>1, <2>3, <2>5, FoundInMore
  <2>7. QED  BY <2>1, <2>6, FoundIsMatched
<1>8. classifyDevice(ua) = system.device
  <2>1. /\ "Mozilla" \notin TabletTokens /\ "AppleWebKit" \notin TabletTokens
        /\ "Mobile" \notin TabletTokens
    BY DEF TabletTokens
  <2>2. /\ "Mozilla" \notin MobileTokens /\ "AppleWebKit" \notin MobileTokens
        /\ "Mobile" \in MobileTokens /\ "Mozilla" \in DesktopTokens
    BY DEF MobileTokens, DesktopTokens
  <2>3. ~Has(browser.says, TabletTokens) /\ ~Has(browser.says, MobileTokens)
    BY <1>3 DEF BrowserSays
  <2>4. Has(ua, TabletTokens) <=> Has(system.says, TabletTokens)
    BY <2>1, <2>3, <1>1
  <2>5. Has(ua, MobileTokens) <=> Has(system.says, MobileTokens) \/ system.device = "mobile"
    BY <2>2, <2>3, <1>1
  <2>6. Has(ua, DesktopTokens)
    BY <2>2, <1>1
  <2>7. CASE system.device = "tablet"
    <3>1. Has(ua, TabletTokens) \/ AndroidTablet(ua)
      BY <2>7, <2>4, <1>1, <1>2 DEF SystemSays
    <3>2. QED  BY <2>7, <3>1, DeviceIs
  <2>8. CASE system.device = "mobile"
    <3>1. ~Has(ua, TabletTokens) /\ ~AndroidTablet(ua) /\ Has(ua, MobileTokens)
      BY <2>8, <2>4, <2>5, <1>1, <1>2 DEF SystemSays
    <3>2. QED  BY <2>8, <3>1, DeviceIs
  <2>9. CASE system.device = "desktop"
    <3>1. ~Has(ua, TabletTokens) /\ ~AndroidTablet(ua) /\ ~Has(ua, MobileTokens)
      BY <2>9, <2>4, <2>5, <1>1, <1>2 DEF SystemSays
    <3>2. QED  BY <2>9, <3>1, <2>6, DeviceIs
  <2>10. QED  BY <2>7, <2>8, <2>9, <1>2 DEF SystemSays
<1>9. parseUserAgent(ua) =
        [deviceType |-> system.device, browser |-> browser.name, os |-> system.os]
  BY <1>4, <1>5, <1>6, <1>7, <1>8 DEF parseUserAgent
<1>10. Has(agent, BotTokens) /\ agent # <<>>
  <2> DEFINE last == Len(ua) + 1
  <2>1. last \in DOMAIN agent /\ agent[last] = "bot"
    BY <1>1
  <2>2. "bot" \in BotTokens
    BY DEF BotTokens
  <2> HIDE DEF agent, last
  <2>3. QED  BY <2>1, <2>2 DEF Has
<1> HIDE DEF agent
<1>11. parseUserAgent(agent).deviceType = "bot"
  BY <1>10 DEF parseUserAgent
<1>12. QED  BY <1>9, <1>11 DEF ua, agent

\* Whatever else is tried: parseUserAgent counts each browser on each system as what it is,
\* whatever tokens of others it carries, and as a bot where it says so.
THEOREM ProductsAreNamed == Trials => []ProductIsNamed
<1>1. trial = NoTrial \/ InitTrial => ProductIsNamed
  <2>1. ASSUME trial = NoTrial PROVE ProductIsNamed
    BY <2>1 DEF NoTrial, ProductIsNamed
  <2>2. ASSUME NEW what \in {"quad", "groups", "url", "custom", "drawn", "number"}, NEW input,
               Tried(what, input)
        PROVE  ProductIsNamed
    BY <2>2 DEF Tried, ProductIsNamed
  <2>3. ASSUME NEW system \in Systems, NEW browser \in Browsers,
               Tried("agent", <<system, browser>>)
        PROVE  ProductIsNamed
    <3>1. trial.input[1] = system /\ trial.input[2] = browser
      BY <2>3 DEF Tried
    <3>2. QED  BY <3>1, AgentIsNamed DEF ProductIsNamed
  <2>4. QED  BY <2>1, <2>2, <2>3, Zenon DEF InitTrial
<1>2. ProductIsNamed /\ [UNCHANGED trial]_trial => ProductIsNamed'
  BY DEF ProductIsNamed
<1>3. QED  BY <1>1, <1>2, PTL DEF Trials
=============================================================================
