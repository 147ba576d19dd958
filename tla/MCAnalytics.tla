---------------------------- MODULE MCAnalytics ----------------------------
(***************************************************************************)
(* The constants TLC gives Dashboard and AnalyticsReads, which have their  *)
(* time zones in common, and a behaviour of either: a panel goes on while  *)
(* nothing is read, or a question is put to the store beside a panel that  *)
(* is hidden and has failed. Days are of four hours.                       *)
(*                                                                         *)
(* The panel: one link and the totals, over two days, and other viewers in *)
(* a zone half a day away, where the totals are asked for over the last    *)
(* 24h: at home's midnight, the same window. The reads: a clock change of  *)
(* half an hour or an hour either way, before, in and after the windows; a *)
(* click, and in one of the zones two of them.                             *)
(***************************************************************************)
EXTENDS Dashboard, AnalyticsReads

CONSTANTS link, owned, home, away, here, there

MCSubjects == {link, owned}
MCTotals == {owned}
MCZones == {home, away}
MCIntl == [z \in MCZones |-> LET o == IF z = home THEN -2 ELSE 2 IN
                               [before |-> o, after |-> o, change |-> 0]]
MCQuestions ==
  {[of |-> link, days |-> 2, zone |-> home],
   [of |-> owned, days |-> 2, zone |-> home], [of |-> owned, days |-> 1, zone |-> away]}

MCClocks ==
  {[before |-> b, after |-> b + d, change |-> c] :
     b \in {-3, 2}, d \in {-2, 1, 2}, c \in {-12, -9, -4, -2, 0, 2}}
MCInstants == {0, 3}
MCPresets == {1, 3}
MCCustom == {[from |-> -3, to |-> 0], [from |-> -20, to |-> -17], [from |-> -9, to |-> -2]}
MCTimes == {-19, -16, -3, 0}
MCValues == {here, there}
MCMaxClicks ==
  [z \in MCClocks |-> IF z = [before |-> -3, after |-> -1, change |-> -4] THEN 2 ELSE 1]

VARIABLE part

APanel ==
  /\ part = "panel"
  /\ Init
  /\ ReadsInit /\ zone = (CHOOSE z \in Clocks : TRUE) /\ instant = 0

AQuestion ==
  /\ part = "reads"
  /\ ReadsInit
  /\ now = 0 /\ cache = {} /\ flight = {} /\ generation = 1
  /\ question = CHOOSE q \in Asked : TRUE
  /\ data = NoAnswer /\ error = TRUE /\ loading = FALSE
  /\ visible = FALSE /\ timer = Never /\ since = 0 /\ changes = 0

MCSpec ==
  /\ APanel \/ AQuestion
  /\ [][\/ part = "panel" /\ Next /\ UNCHANGED <<readsVars, part>>
        \/ part = "reads" /\ ReadsNext /\ UNCHANGED <<vars, part>>]_<<vars, readsVars, part>>
  /\ WF_vars(\E r \in flight : r.gen = generation /\ Serve(r))
=============================================================================
