------------------------------- MODULE Capture -------------------------------
(***************************************************************************)
(* The capture buffers of one port (src/src/capture.rs): `raw`, a ring of  *)
(* the bytes received, and `events`, a bounded log with one entry per      *)
(* frame.  In the program one Mutex guards the whole record, so every      *)
(* method is one action here.  Timestamps (ts_ms) are left out.            *)
(***************************************************************************)
EXTENDS Naturals, Sequences, FiniteSets

CONSTANTS
  Byte,        \* the bytes a client may send
  Label,       \* "<scenario>:<rule index>" labels of input rules
  NoLabel,     \* matched_rule = None
  MaxRaw,      \* max_raw
  MaxEvents    \* max_events

ASSUME CaptureAssumption ==
  /\ MaxRaw \in Nat
  /\ MaxEvents \in Nat
  /\ NoLabel \notin Label

VARIABLES raw, events, next_id

capture_vars == <<raw, events, next_id>>

Event == [id : Nat \ {0}, data : Seq(Byte), matched_rule : Label \cup {NoLabel}]

TypeOK ==
  /\ raw \in Seq(Byte)
  /\ events \in Seq(Event)
  /\ next_id \in Nat \ {0}

(* A mutated Init that numbers the events from 0. *)
InitIdZero ==
  /\ raw = <<>>
  /\ events = <<>>
  /\ next_id = 0

Init ==
  /\ raw = <<>>
  /\ events = <<>>
  /\ next_id = 1

-----------------------------------------------------------------------------

(* `if q.len() == max { q.pop_front() }; q.push_back(x)`.  On an empty queue *)
(* pop_front does nothing, so a queue of maximum 0 is never popped.          *)
RingPush(q, max, x) ==
  Append(IF Len(q) = max /\ q # <<>> THEN Tail(q) ELSE q, x)

(* What the byte-by-byte loop of append_raw leaves of q, for a q that the  *)
(* ring can hold: the last max bytes, or all of them when max is 0.        *)
LastOf(q, max) ==
  IF max = 0 \/ Len(q) <= max THEN q ELSE SubSeq(q, Len(q) - max + 1, Len(q))

(* A mutated AppendRaw that empties a full ring instead of popping its head. *)
AppendRawDropAll(chunk) ==
  /\ raw' = IF Len(raw) + Len(chunk) > MaxRaw THEN LastOf(chunk, MaxRaw) ELSE raw \o chunk
  /\ UNCHANGED <<events, next_id>>

AppendRaw(chunk) ==
  /\ raw' = LastOf(raw \o chunk, MaxRaw)
  /\ UNCHANGED <<events, next_id>>

(* A mutated PushEvent that evicts an event early. *)
PushEventEarly(data, label) ==
  /\ events' = RingPush(events, MaxEvents - 1,
                        [id |-> next_id, data |-> data, matched_rule |-> label])
  /\ next_id' = next_id + 1
  /\ UNCHANGED raw

(* A mutated PushEvent that numbers a full log by position. *)
PushEventReuseId(data, label) ==
  /\ events' = RingPush(events, MaxEvents,
                        [id |-> next_id, data |-> data, matched_rule |-> label])
  /\ next_id' = IF Len(events) = MaxEvents THEN next_id ELSE next_id + 1
  /\ UNCHANGED raw

PushEvent(data, label) ==
  /\ events' = RingPush(events, MaxEvents,
                        [id |-> next_id, data |-> data, matched_rule |-> label])
  /\ next_id' = next_id + 1
  /\ UNCHANGED raw

ClearRaw ==
  /\ raw' = <<>>
  /\ UNCHANGED <<events, next_id>>

(* A mutated ClearEvents that starts the numbering again. *)
ClearEventsResetId ==
  /\ events' = <<>>
  /\ next_id' = 1
  /\ UNCHANGED raw

ClearEvents ==
  /\ events' = <<>>
  /\ UNCHANGED <<raw, next_id>>

(* The entries of s at the positions I, in their order: what a filter keeps. *)
AtPositions(s, I) ==
  [k \in 1..Cardinality(I) |-> s[CHOOSE i \in I : Cardinality({j \in I : j <= i}) = k]]

(* A mutated EventsSince whose bound is inclusive. *)
EventsSinceInclusive(since) == AtPositions(events, {i \in DOMAIN events : events[i].id >= since})

(* The answer to a poll: the events retained whose id is above `since`. *)
EventsSince(since) == AtPositions(events, {i \in DOMAIN events : events[i].id > since})
=============================================================================
