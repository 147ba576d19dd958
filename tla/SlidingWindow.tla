--------------------------- MODULE SlidingWindow ---------------------------
(***************************************************************************)
(* What a sliding-window rate limiter promises, whatever it is built of: it *)
(* lets at most Limit[k] requests of a key through in any trailing window  *)
(* of length Sure[k], and turns a request away only if Limit[k] requests   *)
(* have asked within the last Doubt[k].                                    *)
(***************************************************************************)
EXTENDS Integers, FiniteSets

CONSTANTS Requests, Keys, Limit, Sure, Doubt

VARIABLES
  now,
  asked,       \* per key, the requests that came, and when
  admitted,    \* per key, those let through, and when
  refused      \* per key, those turned away

\* Those of the last span.
Recent(events, span) == {x \in events : x.at > now - span}

Init ==
  /\ now = 0
  /\ asked = [k \in Keys |-> {}]
  /\ admitted = [k \in Keys |-> {}]
  /\ refused = [k \in Keys |-> {}]

AskFor(r, k) == asked' = [asked EXCEPT ![k] = @ \cup {[req |-> r, at |-> now]}]

Ask(r, k) == AskFor(r, k) /\ UNCHANGED <<now, admitted, refused>>

\* A request let through for one key may at once ask for another.
Admit(r, k) ==
  /\ Cardinality(Recent(admitted[k], Sure[k])) < Limit[k]
  /\ admitted' = [admitted EXCEPT ![k] = @ \cup {[req |-> r, at |-> now]}]
  /\ UNCHANGED asked \/ \E l \in Keys : AskFor(r, l)
  /\ UNCHANGED <<now, refused>>

Refuse(r, k) ==
  /\ Cardinality(Recent(asked[k], Doubt[k])) >= Limit[k]
  /\ refused' = [refused EXCEPT ![k] = @ \cup {r}]
  /\ UNCHANGED <<now, asked, admitted>>

Pass == now' = now + 1 /\ UNCHANGED <<asked, admitted, refused>>

Next ==
  \/ \E r \in Requests, k \in Keys : Ask(r, k) \/ Admit(r, k) \/ Refuse(r, k)
  \/ Pass

Spec == Init /\ [][Next]_<<now, asked, admitted, refused>>
=============================================================================
