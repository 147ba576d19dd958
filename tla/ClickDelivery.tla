--------------------------- MODULE ClickDelivery ---------------------------
(***************************************************************************)
(* What the click pipeline promises, without lists, leases or batches:     *)
(* a click is taken into custody, each table counts it at most once and    *)
(* only while it is in custody, and custody ends only when every table has *)
(* counted it or its row turned out to be unusable.                        *)
(*                                                                         *)
(* apps/api/src/repositories/click-buffer.ts, "The reliable-queue pattern" *)
(* apps/api/src/repositories/clickhouse.ts, "Exactly-once, via the server" *)
(***************************************************************************)
EXTENDS Naturals

CONSTANTS Clicks, Corrupt, Tables

VARIABLES
  held,    \* the clicks in custody
  count    \* how often each table counts each click

Init ==
  /\ held = {}
  /\ count = [t \in Tables |-> [c \in Clicks |-> 0]]

Take(c) ==
  /\ c \notin held
  /\ \A t \in Tables : count[t][c] = 0
  /\ held' = held \cup {c}
  /\ UNCHANGED count

Count(C, T) ==
  /\ \A t \in T, c \in C : count[t][c] = 0
  /\ count' = [t \in Tables |->
                [c \in Clicks |-> IF t \in T /\ c \in C THEN 1 ELSE count[t][c]]]
  /\ UNCHANGED held

Settle(C) ==
  /\ \A c \in C \ Corrupt, t \in Tables : count[t][c] = 1
  /\ held' = held \ C
  /\ UNCHANGED count

Next ==
  \/ \E c \in Clicks : Take(c)
  \/ \E C \in SUBSET held, T \in SUBSET Tables : Count(C, T)
  \/ \E C \in SUBSET held : Settle(C)

Spec == Init /\ [][Next]_<<held, count>>

=============================================================================
