------------------------------ MODULE EventLog -------------------------------
(***************************************************************************)
(* What the structured capture of a port promises to those who poll it     *)
(* (src/src/capture.rs, `events`): an append-only log whose n-th entry has *)
(* id n for ever.  Forgetting only moves `floor` up, by a clear to the end *)
(* of the log and by an append just far enough to keep Capacity entries.   *)
(* A Capacity of 0 is no limit: that is what push_event makes of it, and   *)
(* not what its documentation says (BoundedCapture in CaptureClients).     *)
(* A query answers with every entry above both `since` and the floor.      *)
(***************************************************************************)
EXTENDS Naturals, Sequences

CONSTANTS
  Data,       \* what a frame may hold
  Rule,       \* the rule that matched, or none
  Since,      \* the ids a query may ask from, natural numbers
  Capacity    \* entries remembered; 0: all of them

VARIABLES log, floor, answer

vars == <<log, floor, answer>>

Larger(m, n) == IF m >= n THEN m ELSE n

Numbered(i) == [id |-> i, data |-> log[i].data, matched_rule |-> log[i].matched_rule]

(* The numbered entries with ids from first to the end of the log. *)
From(first) == [i \in 1..(Len(log) - first + 1) |-> Numbered(first + i - 1)]

Init ==
  /\ log = <<>>
  /\ floor = 0
  /\ answer = <<>>

Record(d, r) ==
  /\ log' = Append(log, [data |-> d, matched_rule |-> r])
  /\ floor' = IF Capacity > 0 /\ Len(log) + 1 > floor + Capacity THEN floor + 1 ELSE floor
  /\ UNCHANGED answer

Forget ==
  /\ floor' = Len(log)
  /\ UNCHANGED <<log, answer>>

Query(since) ==
  /\ answer' = From(Larger(since, floor) + 1)
  /\ UNCHANGED <<log, floor>>

Next ==
  \/ \E d \in Data, r \in Rule : Record(d, r)
  \/ Forget
  \/ \E since \in Since : Query(since)

Spec == Init /\ [][Next]_vars
=============================================================================
