---------------------------- MODULE RescanProofs ----------------------------
(***************************************************************************)
(* What holds of the re-scan for every table, ceiling and number of        *)
(* failures. One invariant, Sound, carries all of it: a page in progress   *)
(* is what the table still says (Current), a verdict is about the row it   *)
(* was asked for (Justified), and no link the scan has passed is left      *)
(* behind unnoticed (Covered).                                             *)
(***************************************************************************)
EXTENDS Rescan, TLAPS

\* Lookups are among the checks, which keep to the ceiling.
Budget == lookups <= checked

\* Rows in progress have the age the table has, and only a page has any.
Current ==
  /\ \A row \in page : row.age = age[row.link]
  /\ stage \in {"idle", "scan"} => page = {}

\* Whom the job may disable, and whom it may stamp.
Justified ==
  /\ \A u \in Urls : cache[u] = "malicious" => u \in bad
  /\ stage = "store" =>
       \A row \in page : Turn(row) =>
         ~Fresh(row) /\ (verdict = "malicious" => Url[row.link] \in bad)

\* As long as the ceiling is not reached, a link behind the cursor is fresh, in the
\* page, or excused.
Covered ==
  checked < MaxChecks =>
    /\ \A l \in active \ excused :
         l <= cursor => age[l] < StaleAfter \/ \E row \in page : row.link = l
    /\ stage = "idle" => cursor = N \/ excused = Links

Sound == TypeOK /\ Budget /\ Current /\ Justified /\ Covered

-----------------------------------------------------------------------------
(***************************************************************************)
(* Facts about one state.                                                  *)
(***************************************************************************)
LEMMA UrlOf == ASSUME NEW l \in Links PROVE Url[l] \in Urls
BY DEF Urls

LEMMA LesserIs ==
  ASSUME NEW a \in Int, NEW b \in Int
  PROVE  Lesser(a, b) \in Int /\ Lesser(a, b) <= a /\ Lesser(a, b) <= b
         /\ (Lesser(a, b) = a \/ Lesser(a, b) = b)
BY DEF Lesser

\* A page has one row of a link, so one row has its turn.
LEMMA OneTurn ==
  ASSUME Sound, NEW r \in page, NEW s \in page, Turn(r), Turn(s)
  PROVE  r = s
<1>1. r \in [link : Links, age : 0..StaleAfter] /\ s \in [link : Links, age : 0..StaleAfter]
  BY DEF Sound, TypeOK
<1>2. r.link \in Int /\ s.link \in Int
  BY <1>1, RescanConstants DEF Links
<1>3. r.link = s.link
  BY <1>2 DEF Turn
<1>4. QED  BY <1>1, <1>3 DEF Sound, Current

-----------------------------------------------------------------------------
LEMMA InitSound == Init => Sound
<1> SUFFICES ASSUME Init PROVE Sound
  OBVIOUS
<1>1. TypeOK
  BY RescanConstants DEF Init, TypeOK, Verdicts
<1>2. QED
  BY <1>1, RescanConstants DEF Init, Sound, Budget, Current, Justified, Covered, Verdicts

LEMMA DaySound == Sound /\ Day => Sound'
<1> SUFFICES ASSUME Sound, Day PROVE Sound'
  OBVIOUS
<1>1. age' \in [Links -> 0..StaleAfter]
  BY RescanConstants, LesserIs DEF Sound, TypeOK, Day, Lesser
<1>2. TypeOK'
  BY <1>1, RescanConstants DEF Sound, TypeOK, Day
<1>3. Covered'
  BY <1>2, RescanConstants DEF Day, Covered, Links, TypeOK
<1>4. QED
  BY <1>2, <1>3, RescanConstants DEF Sound, Budget, Current, Justified, Day, TypeOK, Verdicts, Turn

LEMMA ScanSound == Sound /\ Scan => Sound'
<1> SUFFICES ASSUME Sound, Scan PROVE Sound'
  OBVIOUS
<1>1. /\ cursor \in 0..N /\ N \in Nat /\ PageSize \in Nat \ {0} /\ page = {}
      /\ active \subseteq Links /\ age \in [Links -> 0..StaleAfter]
  BY RescanConstants DEF Sound, TypeOK, Current, Scan
<1>2. /\ cursor' \in 0..N /\ cursor' <= cursor + PageSize
  BY <1>1, LesserIs DEF Scan, Lesser
<1>3. /\ page' \subseteq [link : Links, age : 0..StaleAfter]
      /\ \A row \in page' : row.age = age[row.link]
  BY <1>1 DEF Scan, Rows
<1>4. \A l \in active : cursor < l /\ l <= cursor' => \E row \in page' : row.link = l
  <2> TAKE l \in active
  <2> HAVE cursor < l /\ l <= cursor'
  <2>1. l \in Int /\ l <= cursor + PageSize
    BY <1>1, <1>2 DEF Links
  <2>2. [link |-> l, age |-> age[l]] \in page'
    BY <2>1 DEF Scan, Rows
  <2>3. QED  BY <2>2
<1>5. Covered'
  <2> SUFFICES ASSUME checked' < MaxChecks, NEW l \in active' \ excused', l <= cursor'
               PROVE  age'[l] < StaleAfter \/ \E row \in page' : row.link = l
    BY DEF Covered, Scan
  <2>1. l \in active \ excused /\ l \in Int /\ checked < MaxChecks /\ age' = age
    BY <1>1 DEF Scan, world, Links
  <2>2. CASE l <= cursor
    BY <2>1, <2>2, <1>1 DEF Sound, Covered
  <2>3. CASE cursor < l
    BY <2>1, <2>3, <1>4
  <2>4. QED  BY <2>1, <2>2, <2>3, <1>1
<1>6. TypeOK'
  BY <1>2, <1>3 DEF Sound, TypeOK, Scan, world
<1>7. QED
  BY <1>3, <1>5, <1>6 DEF Sound, Budget, Current, Justified, Scan, world

LEMMA ScanFailsSound == Sound /\ ScanFails => Sound'
<1> SUFFICES ASSUME Sound, ScanFails PROVE Sound'
  OBVIOUS
<1>1. TypeOK'
  BY RescanConstants DEF Sound, TypeOK, ScanFails, Fault, world
<1>2. QED
  BY <1>1 DEF Sound, Budget, Current, Justified, Covered, ScanFails, world, TypeOK

LEMMA SkipSound ==
  ASSUME Sound, NEW row \in page, Skip(row)
  PROVE  Sound'
<1>1. TypeOK' /\ Budget'
  BY DEF Sound, TypeOK, Budget, Skip, world
<1>2. Current' /\ Justified'
  BY DEF Sound, Current, Justified, Skip, world, Turn, Fresh
<1>3. Covered'
  <2> SUFFICES ASSUME checked < MaxChecks, NEW l \in active \ excused, l <= cursor
               PROVE  age[l] < StaleAfter \/ \E other \in page \ {row} : other.link = l
    BY DEF Sound, Covered, Skip, world
  <2>1. age[l] < StaleAfter \/ \E other \in page : other.link = l
    BY DEF Sound, Covered
  <2>2. Fresh(row) /\ row.age = age[row.link]
    BY RescanConstants DEF Skip, Sound, Current, TypeOK
  <2>3. QED  BY <2>1, <2>2 DEF Fresh
<1>4. QED  BY <1>1, <1>2, <1>3 DEF Sound

\* check(url), as one of its two ways.
LEMMA CheckUrlSound ==
  ASSUME Sound, NEW u \in Urls, Cached(u) \/ Lookup(u), UNCHANGED bad
  PROVE  /\ verdict' \in Verdicts /\ cache' \in [Urls -> {"safe", "malicious", NoVerdict}]
         /\ lookups' \in Nat /\ lookups' <= lookups + 1 /\ faults' \in 0..MaxFaults
         /\ verdict' = "malicious" => u \in bad
         /\ \A v \in Urls : cache'[v] = "malicious" => v \in bad
<1>1. /\ cache \in [Urls -> {"safe", "malicious", NoVerdict}] /\ lookups \in Nat
      /\ faults \in 0..MaxFaults /\ MaxFaults \in Nat /\ NoVerdict \notin Verdicts
      /\ \A v \in Urls : cache[v] = "malicious" => v \in bad
  BY RescanConstants DEF Sound, TypeOK, Justified
<1>2. CASE Cached(u)
  BY <1>1, <1>2 DEF Cached, Verdicts
<1>3. CASE Lookup(u)
  <2>1. CASE verdict' = "unknown" /\ Fault /\ UNCHANGED cache
    BY <1>1, <1>3, <2>1 DEF Lookup, Fault, Verdicts
  <2>2. CASE /\ verdict' = IF u \in bad THEN "malicious" ELSE "safe"
             /\ cache' = [cache EXCEPT ![u] = verdict'] /\ UNCHANGED faults
    BY <1>1, <1>3, <2>2 DEF Lookup, Verdicts
  <2>3. QED  BY <1>3, <2>1, <2>2 DEF Lookup
<1>4. QED  BY <1>2, <1>3

LEMMA CheckSound ==
  ASSUME Sound, NEW row \in page, Check(row)
  PROVE  Sound'
<1>1. row.link \in Links /\ Url[row.link] \in Urls
  BY UrlOf DEF Sound, TypeOK
<1>2. /\ verdict' \in Verdicts /\ cache' \in [Urls -> {"safe", "malicious", NoVerdict}]
      /\ lookups' \in Nat /\ lookups' <= lookups + 1 /\ faults' \in 0..MaxFaults
      /\ verdict' = "malicious" => Url[row.link] \in bad
      /\ \A v \in Urls : cache'[v] = "malicious" => v \in bad
  BY <1>1, CheckUrlSound DEF Check, world
<1>3. TypeOK' /\ Budget'
  BY <1>2, RescanConstants DEF Sound, TypeOK, Budget, Check, world
<1>4. Current'
  BY DEF Sound, Current, Check, world
<1>5. Justified'
  <2> SUFFICES ASSUME NEW r \in page, Turn(r)
               PROVE  ~Fresh(r) /\ (verdict' = "malicious" => Url[r.link] \in bad)
    BY <1>2 DEF Justified, Check, world, Turn, Fresh
  <2>1. r = row
    BY OneTurn DEF Check
  <2>2. QED  BY <2>1, <1>2 DEF Check
<1>6. Covered'
  <2>1. checked \in Nat /\ MaxChecks \in Nat
    BY RescanConstants DEF Sound, TypeOK
  <2>2. QED  BY <2>1 DEF Sound, Covered, Check, world
<1>7. QED  BY <1>3, <1>4, <1>5, <1>6 DEF Sound

LEMMA StoreSound ==
  ASSUME Sound, NEW row \in page, Store(row)
  PROVE  Sound'
<1>1. /\ row \in [link : Links, age : 0..StaleAfter] /\ age \in [Links -> 0..StaleAfter]
      /\ StaleAfter \in Nat \ {0} /\ active \subseteq Links
  BY RescanConstants DEF Sound, TypeOK
<1>2. /\ age' \in [Links -> 0..StaleAfter] /\ age'[row.link] = 0
      /\ \A l \in Links : l # row.link => age'[l] = age[l]
  BY <1>1 DEF Store, Stamp
<1>3. \A other \in page' : other \in page /\ other.link \in Links /\ other.link # row.link
  <2> TAKE other \in page'
  <2>1. other \in page /\ other # row
    BY DEF Store, Go
  <2>2. other \in [link : Links, age : 0..StaleAfter]
    BY <2>1 DEF Sound, TypeOK
  <2>3. QED  BY <2>1, <2>2, <1>1 DEF Sound, Current
<1>4. TypeOK' /\ Budget'
  BY <1>2, RescanConstants DEF Sound, TypeOK, Budget, Store, Go
<1>5. Current'
  BY <1>2, <1>3 DEF Sound, Current, Store, Go
<1>6. Justified'
  BY DEF Sound, Justified, Store, Go
<1>7. Covered'
  <2> SUFFICES ASSUME checked < MaxChecks, NEW l \in active' \ excused, l <= cursor
               PROVE  age'[l] < StaleAfter \/ \E other \in page' : other.link = l
    BY DEF Covered, Store, Go
  <2>1. l \in active \ excused /\ l \in Links
    BY <1>1 DEF Store
  <2>2. CASE l = row.link
    BY <2>2, <1>1, <1>2
  <2>3. CASE l # row.link
    <3>1. age[l] < StaleAfter \/ \E other \in page : other.link = l
      BY <2>1 DEF Sound, Covered
    <3>2. QED  BY <3>1, <2>1, <2>3, <1>2 DEF Store, Go
  <2>4. QED  BY <2>2, <2>3
<1>8. QED  BY <1>4, <1>5, <1>6, <1>7 DEF Sound

LEMMA StoreFailsSound ==
  ASSUME Sound, NEW row \in page, StoreFails(row)
  PROVE  Sound'
<1>1. row.link \in Links
  BY DEF Sound, TypeOK
<1>2. TypeOK' /\ Budget'
  BY <1>1, RescanConstants DEF Sound, TypeOK, Budget, StoreFails, Fault, Go
<1>3. Current' /\ Justified'
  BY DEF Sound, Current, Justified, StoreFails, Go
<1>4. Covered'
  <2> SUFFICES ASSUME checked < MaxChecks, NEW l \in active \ excused', l <= cursor
               PROVE  age[l] < StaleAfter \/ \E other \in page \ {row} : other.link = l
    BY DEF Covered, StoreFails, Go
  <2>1. l \notin excused /\ l # row.link
    BY DEF StoreFails
  <2>2. QED  BY <2>1 DEF Sound, Covered
<1>5. QED  BY <1>2, <1>3, <1>4 DEF Sound

LEMMA PageDoneSound == Sound /\ PageDone => Sound'
<1> SUFFICES ASSUME Sound, PageDone PROVE Sound'
  OBVIOUS
<1>1. TypeOK'
  BY DEF Sound, TypeOK, PageDone, world
<1>2. Covered'
  <2>1. cursor \in 0..N /\ N \in Nat /\ checked \in Nat
    BY RescanConstants DEF Sound, TypeOK
  <2>2. QED  BY <2>1 DEF Sound, Covered, PageDone, world
<1>3. QED
  BY <1>1, <1>2 DEF Sound, Budget, Current, Justified, PageDone, world, Turn

LEMMA WorldSound ==
  ASSUME Sound, \/ \E l \in Links : Enable(l)
                \/ \E u \in Urls : GoBad(u)
  PROVE  Sound'
<1>1. ASSUME NEW l \in Links, Enable(l) PROVE Sound'
  <2>1. TypeOK'
    BY <1>1 DEF Sound, TypeOK, Enable
  <2>2. Covered'
    BY <1>1 DEF Sound, Covered, Enable, TypeOK
  <2>3. QED
    BY <1>1, <2>1, <2>2 DEF Sound, Budget, Current, Justified, Enable, Turn, Fresh
<1>2. ASSUME NEW u \in Urls, GoBad(u) PROVE Sound'
  <2>1. TypeOK'
    BY <1>2 DEF Sound, TypeOK, GoBad
  <2>2. Justified'
    BY <1>2 DEF Sound, Justified, GoBad, Turn, Fresh
  <2>3. QED
    BY <1>2, <2>1, <2>2 DEF Sound, Budget, Current, Covered, GoBad
<1>3. QED  BY <1>1, <1>2

LEMMA NextSound == Sound /\ [Next]_vars => Sound'
<1> SUFFICES ASSUME Sound, [Next]_vars PROVE Sound'
  OBVIOUS
<1>1. CASE UNCHANGED vars
  BY <1>1 DEF vars, Sound, TypeOK, Budget, Current, Justified, Covered, Turn, Fresh
<1>2. ASSUME Job PROVE Sound'
  <2>1. ASSUME NEW row \in page, Skip(row) \/ Check(row) \/ Store(row) \/ StoreFails(row)
        PROVE  Sound'
    BY <2>1, SkipSound, CheckSound, StoreSound, StoreFailsSound
  <2>2. QED
    BY <1>2, <2>1, DaySound, ScanSound, ScanFailsSound, PageDoneSound DEF Job
<1>3. QED  BY <1>1, <1>2, WorldSound DEF Next

LEMMA AlwaysSound == Spec => []Sound
BY InitSound, NextSound, PTL DEF Spec

-----------------------------------------------------------------------------
\* Every variable keeps its type, for any table, page size, ceiling and failures.
THEOREM RescanTypeCorrect == Spec => []TypeOK
<1>1. Sound => TypeOK
  BY DEF Sound
<1>2. QED  BY <1>1, AlwaysSound, PTL

\* No run makes more lookups than its ceiling, whatever fails.
THEOREM BudgetIsKept == Spec => []WithinBudget
<1>1. Sound => WithinBudget
  BY RescanConstants DEF Sound, TypeOK, Budget, WithinBudget
<1>2. QED  BY <1>1, AlwaysSound, PTL

\* A run that ends below its ceiling has left no active link with a verdict out of
\* date, but for those it failed on or that came back meanwhile.
THEOREM NothingLeftUnnoticed == Spec => []CompleteUnlessWarned
<1>1. Sound => CompleteUnlessWarned
  <2> SUFFICES ASSUME Sound, stage = "idle", checked < MaxChecks, NEW l \in active \ excused
               PROVE  age[l] < StaleAfter
    BY DEF CompleteUnlessWarned
  <2>1. page = {} /\ l \in 1..N /\ cursor = N
    BY DEF Sound, Current, Covered, TypeOK, Links
  <2>2. QED  BY <2>1, RescanConstants DEF Sound, Covered
<1>2. QED  BY <1>1, AlwaysSound, PTL

\* The job disables no link whose target has no match, whatever verdicts are cached,
\* time out, or come when the table has changed.
THEOREM DisabledOnlyIfFlagged == Spec => OnlyFlaggedDisabled
<1>1. Sound /\ [Next]_vars => [\A l \in active \ active' : Url[l] \in bad]_vars
  <2> SUFFICES ASSUME Sound, Next, NEW l \in active \ active' PROVE Url[l] \in bad
    BY DEF vars
  <2>1. ASSUME NEW row \in page, Store(row) PROVE Url[l] \in bad
    BY <2>1 DEF Store, Sound, Justified
  <2>2. ASSUME NEW row \in page, Skip(row) \/ Check(row) \/ StoreFails(row) PROVE FALSE
    BY <2>2 DEF Skip, Check, StoreFails, world
  <2>3. ~(Day \/ Scan \/ ScanFails \/ PageDone)
    BY DEF Day, Scan, ScanFails, PageDone, world
  <2>4. ASSUME NEW k \in Links, Enable(k) PROVE FALSE
    BY <2>4 DEF Enable
  <2>5. ASSUME NEW u \in Urls, GoBad(u) PROVE FALSE
    BY <2>5 DEF GoBad
  <2>6. QED  BY <2>1, <2>2, <2>3, <2>4, <2>5 DEF Next, Job
<1>2. QED  BY <1>1, AlwaysSound, PTL DEF Spec, OnlyFlaggedDisabled

\* The job stamps no link but the one it has just looked up, and that one was stale.
THEOREM SkippedIsNotStamped == Spec => SkippedUntouched
<1> DEFINE Stamped(l) ==
      /\ age[l] = StaleAfter
      /\ stage = "store" /\ \E row \in page : Turn(row) /\ row.link = l
<1>1. Sound /\ [Next]_vars => [\A l \in Links : age'[l] < age[l] => Stamped(l)]_vars
  <2> SUFFICES ASSUME Sound, Next, NEW l \in Links, age'[l] < age[l] PROVE Stamped(l)
    BY DEF vars
  <2>1. age[l] \in 0..StaleAfter /\ StaleAfter \in Nat /\ age \in [Links -> 0..StaleAfter]
    BY RescanConstants DEF Sound, TypeOK
  <2>2. age' # age
    BY <2>1
  <2>3. ASSUME NEW row \in page, Store(row) PROVE Stamped(l)
    <3>1. row.link \in Links /\ row.age = age[row.link] /\ row.age \in 0..StaleAfter
      BY DEF Sound, TypeOK, Current
    <3>2. l = row.link
      BY <2>1, <2>3, <3>1 DEF Store, Stamp
    <3>3. ~Fresh(row)
      BY <2>3 DEF Store, Sound, Justified
    <3>4. QED  BY <2>1, <2>3, <3>1, <3>2, <3>3 DEF Store, Fresh
  <2>4. ~Day
    <3>1. ASSUME Day PROVE FALSE
      BY <3>1, <2>1, LesserIs DEF Day, Lesser
    <3>2. QED  BY <3>1
  <2>5. ASSUME NEW row \in page, Skip(row) \/ Check(row) \/ StoreFails(row) PROVE FALSE
    BY <2>2, <2>5 DEF Skip, Check, StoreFails, world
  <2>6. ~(Scan \/ ScanFails \/ PageDone)
    BY <2>2 DEF Scan, ScanFails, PageDone, world
  <2>7. ASSUME NEW k \in Links, Enable(k) PROVE FALSE
    BY <2>2, <2>7 DEF Enable
  <2>8. ASSUME NEW u \in Urls, GoBad(u) PROVE FALSE
    BY <2>2, <2>8 DEF GoBad
  <2>9. QED  BY <2>3, <2>4, <2>5, <2>6, <2>7, <2>8 DEF Next, Job
<1>2. QED  BY <1>1, AlwaysSound, PTL DEF Spec, SkippedUntouched
=============================================================================
