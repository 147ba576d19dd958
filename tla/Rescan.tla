------------------------------- MODULE Rescan -------------------------------
(***************************************************************************)
(* The job that looks at accepted links again (scripts/rescan-links.ts,    *)
(* services/rescan.ts) with the Safe Browsing client it makes for itself   *)
(* (services/safe-browsing.ts), one run a day. Links are numbered in the   *)
(* order in which DynamoDB scans them, which does not change.              *)
(*                                                                         *)
(* What a run read may be changed before it writes: see LinkStore. Here an *)
(* operator enables links, and targets turn bad, at any moment.            *)
(***************************************************************************)
EXTENDS Integers, FiniteSets

CONSTANTS
  N,           \* links in the table
  Url,         \* their targets
  PageSize,
  MaxChecks,
  StaleAfter,  \* staleAfterMs, in days
  NoVerdict,
  MaxFaults    \* bound on failures

Links == 1..N
Urls == {Url[l] : l \in Links}
Verdicts == {"safe", "malicious", "unknown"}

ASSUME RescanConstants ==
  /\ N \in Nat \ {0} /\ DOMAIN Url = Links
  /\ PageSize \in Nat \ {0} /\ MaxChecks \in Nat \ {0}
  /\ StaleAfter \in Nat \ {0} /\ MaxFaults \in Nat
  /\ NoVerdict \notin Verdicts

VARIABLES
  active,      \* links with status "active"
  age,         \* days since verdictCheckedAt, as far as isFresh can tell them apart
  bad,         \* targets Safe Browsing has matches for
  stage,       \* of the job: "idle", "scan", "page", "store"
  cursor,      \* links scanned so far
  page,        \* rows of the page still to do: [link, age] as they were read
  checked,     \* summary.checked
  verdict,     \* of the link that is being checked
  cache,       \* the client's cache
  lookups,     \* history: requests to Safe Browsing in this run
  excused,     \* history: links this run failed on, or that were enabled during it
  faults

vars == <<active, age, bad, stage, cursor, page, checked, verdict, cache, lookups, excused, faults>>
world == <<active, age, bad>>

-----------------------------------------------------------------------------
Lesser(a, b) == IF a < b THEN a ELSE b

\* isFresh, of a row as it was read.
Fresh(row) == row.age < StaleAfter

\* The rows ScanCommand's filter leaves of the next PageSize.
Rows(from) ==
  {[link |-> l, age |-> age[l]] : l \in {k \in active : from < k /\ k <= from + PageSize}}

\* The row whose turn it is.
Turn(row) == row \in page /\ \A other \in page : row.link <= other.link

Fault == faults < MaxFaults /\ faults' = faults + 1

Init ==
  /\ active = Links
  /\ age \in [Links -> 0..StaleAfter]
  /\ bad = {}
  /\ stage = "idle"
  /\ cursor = 0
  /\ page = {}
  /\ checked = 0
  /\ verdict = NoVerdict
  /\ cache = [u \in Urls |-> NoVerdict]
  /\ lookups = 0
  /\ excused = Links
  /\ faults = 0

-----------------------------------------------------------------------------
\* The next day's run begins, with a client of its own.
Day ==
  /\ stage = "idle"
  /\ age' = [l \in Links |-> Lesser(age[l] + 1, StaleAfter)]
  /\ stage' = "scan"
  /\ cursor' = 0
  /\ checked' = 0
  /\ cache' = [u \in Urls |-> NoVerdict]
  /\ lookups' = 0
  /\ excused' = {}
  /\ UNCHANGED <<active, bad, page, verdict, faults>>

\* scanActive
Scan ==
  /\ stage = "scan"
  /\ page' = Rows(cursor)
  /\ cursor' = Lesser(cursor + PageSize, N)
  /\ stage' = "page"
  /\ UNCHANGED <<world, checked, verdict, cache, lookups, excused, faults>>

\* It throws, and the run is over.
ScanFails ==
  /\ stage = "scan"
  /\ Fault
  /\ stage' = "idle"
  /\ excused' = Links
  /\ UNCHANGED <<world, cursor, page, checked, verdict, cache, lookups>>

\* A fresh row, or one beyond the ceiling.
Skip(row) ==
  /\ stage = "page" /\ Turn(row)
  /\ Fresh(row) \/ checked >= MaxChecks
  /\ page' = page \ {row}
  /\ UNCHANGED <<world, stage, cursor, checked, verdict, cache, lookups, excused, faults>>

\* The next two are check(url): from the cache, or from Safe Browsing, whose failure
\* is an unknown verdict that is not cached. A run is shorter than the cache's TTL
\* and looks up fewer URLs than it holds.
Cached(u) ==
  /\ cache[u] # NoVerdict
  /\ verdict' = cache[u]
  /\ UNCHANGED <<cache, lookups, faults>>

Lookup(u) ==
  /\ cache[u] = NoVerdict
  /\ lookups' = lookups + 1
  /\ \/ /\ verdict' = IF u \in bad THEN "malicious" ELSE "safe"
        /\ cache' = [cache EXCEPT ![u] = verdict']
        /\ UNCHANGED faults
     \/ /\ Fault
        /\ verdict' = "unknown"
        /\ UNCHANGED cache

\* Mutant: only lookups that were answered count.
CheckUnlessUnknown(row) ==
  /\ stage = "page" /\ Turn(row)
  /\ ~Fresh(row) /\ checked < MaxChecks
  /\ Cached(Url[row.link]) \/ Lookup(Url[row.link])
  /\ checked' = checked + (IF verdict' = "unknown" THEN 0 ELSE 1)
  /\ stage' = "store"
  /\ UNCHANGED <<world, cursor, page, excused>>

Check(row) ==
  /\ stage = "page" /\ Turn(row)
  /\ ~Fresh(row) /\ checked < MaxChecks
  /\ checked' = checked + 1
  /\ Cached(Url[row.link]) \/ Lookup(Url[row.link])
  /\ stage' = "store"
  /\ UNCHANGED <<world, cursor, page, excused>>

\* On to the next row.
Go(row) ==
  /\ page' = page \ {row}
  /\ stage' = "page"
  /\ verdict' = NoVerdict
  /\ UNCHANGED <<bad, cursor, checked, cache, lookups>>

Stamp(row) == age' = [age EXCEPT ![row.link] = 0]

\* Mutant: whatever is not known to be safe is disabled.
StoreFailsClosed(row) ==
  /\ stage = "store" /\ Turn(row)
  /\ Stamp(row)
  /\ active' = IF verdict # "safe" THEN active \ {row.link} ELSE active
  /\ Go(row)
  /\ UNCHANGED <<excused, faults>>

\* Mutant: a flagged link is stamped, and nothing else.
StoreStampsOnly(row) ==
  /\ stage = "store" /\ Turn(row)
  /\ Stamp(row)
  /\ Go(row)
  /\ UNCHANGED <<active, excused, faults>>

\* Mutant: the whole page is stamped with the row that was looked up.
StoreStampsPage(row) ==
  /\ stage = "store" /\ Turn(row)
  /\ age' = [l \in Links |-> IF \E other \in page : other.link = l THEN 0 ELSE age[l]]
  /\ active' = IF verdict = "malicious" THEN active \ {row.link} ELSE active
  /\ Go(row)
  /\ UNCHANGED <<excused, faults>>

\* checkOne stores the verdict, whichever it is; only "malicious" disables. That the
\* edge may not hear of it ends nothing.
Store(row) ==
  /\ stage = "store" /\ Turn(row)
  /\ Stamp(row)
  /\ active' = IF verdict = "malicious" THEN active \ {row.link} ELSE active
  /\ Go(row)
  /\ UNCHANGED <<excused, faults>>

\* repository.update throws, which is counted.
StoreFails(row) ==
  /\ stage = "store" /\ Turn(row)
  /\ Fault
  /\ Go(row)
  /\ excused' = excused \cup {row.link}
  /\ UNCHANGED <<active, age>>

\* Mutant: a page without rows ends the scan.
PageDoneIfEmpty ==
  /\ stage = "page" /\ page = {}
  /\ stage' = IF cursor < N /\ checked < MaxChecks /\ Rows(cursor - PageSize) # {}
                THEN "scan" ELSE "idle"
  /\ UNCHANGED <<world, cursor, page, checked, verdict, cache, lookups, excused, faults>>

\* The next page, unless this was the last one or the ceiling is reached.
PageDone ==
  /\ stage = "page" /\ page = {}
  /\ stage' = IF cursor < N /\ checked < MaxChecks THEN "scan" ELSE "idle"
  /\ UNCHANGED <<world, cursor, page, checked, verdict, cache, lookups, excused, faults>>

-----------------------------------------------------------------------------
\* POST /admin/links/:slug/enable: the verdict keeps its date.
Enable(l) ==
  /\ l \notin active
  /\ active' = active \cup {l}
  /\ excused' = excused \cup {l}
  /\ UNCHANGED <<age, bad, stage, cursor, page, checked, verdict, cache, lookups, faults>>

GoBad(u) ==
  /\ u \notin bad
  /\ bad' = bad \cup {u}
  /\ UNCHANGED <<active, age, stage, cursor, page, checked, verdict, cache, lookups, excused, faults>>

Job ==
  \/ Day \/ Scan \/ ScanFails \/ PageDone
  \/ \E row \in page : Skip(row) \/ Check(row) \/ Store(row) \/ StoreFails(row)

Next ==
  \/ Job
  \/ \E l \in Links : Enable(l)
  \/ \E u \in Urls : GoBad(u)

\* The scheduler starts a run every day, and a run goes on.
Spec == Init /\ [][Next]_vars /\ WF_vars(Job)

-----------------------------------------------------------------------------
(***************************************************************************)
(* Properties.                                                             *)
(***************************************************************************)

\* Every variable has its type.
TypeOK ==
  /\ active \subseteq Links
  /\ age \in [Links -> 0..StaleAfter]
  /\ bad \subseteq Urls
  /\ stage \in {"idle", "scan", "page", "store"}
  /\ cursor \in 0..N
  /\ page \subseteq [link : Links, age : 0..StaleAfter]
  /\ checked \in 0..MaxChecks
  /\ verdict \in Verdicts \cup {NoVerdict}
  /\ cache \in [Urls -> {"safe", "malicious", NoVerdict}]
  /\ lookups \in Nat
  /\ excused \subseteq Links
  /\ faults \in 0..MaxFaults

\* A run makes no more lookups than the ceiling, however many of them fail:
\* "a schedule that fires more often than expected cannot exhaust the day's quota".
WithinBudget == lookups <= MaxChecks

\* "Only malicious acts": the job takes no link away whose target has no match,
\* whatever times out.
OnlyFlaggedDisabled ==
  [][\A l \in active \ active' : Url[l] \in bad]_vars

\* "Links that were skipped are never written."
SkippedUntouched ==
  [][\A l \in Links : age'[l] < age[l] =>
       /\ age[l] = StaleAfter
       /\ stage = "store" /\ \E row \in page : Turn(row) /\ row.link = l]_vars

\* A run that does not warn of its ceiling has left no active link behind with a
\* verdict that is out of date, empty pages or not, except those it counted as
\* errors and those enabled behind its back.
CompleteUnlessWarned ==
  stage = "idle" /\ checked < MaxChecks =>
    \A l \in active \ excused : age[l] < StaleAfter

\* "The sweep resumes from a different set of links next time": a link whose target
\* is flagged is disabled in the end.
FlaggedIsDisabled ==
  \A l \in Links : (l \in active /\ Url[l] \in bad) ~> l \notin active

\* So it is where a run's ceiling, over the days a verdict stays fresh, is enough
\* for every link.
FlaggedIsDisabledInTime == N <= MaxChecks * StaleAfter => FlaggedIsDisabled
=============================================================================
