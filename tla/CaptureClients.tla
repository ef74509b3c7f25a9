--------------------------- MODULE CaptureClients ----------------------------
(***************************************************************************)
(* A port's Capture with those who use it: the reader thread, which        *)
(* appends chunks and pushes events, and HTTP clients, which query, clear  *)
(* and, like a test harness, poll with the last id they saw as `since`     *)
(* (src/src/http.rs, capture_raw to clear_events).  The variables `log`,   *)
(* `stream` and `lost` are histories: every event ever pushed, the bytes   *)
(* received since the last clear, and the ids that left the buffer.        *)
(***************************************************************************)
EXTENDS Capture, SequencesExt

CONSTANTS
  Chunks,      \* what one read of the reader thread may return
  Frames,      \* the frames the framer may complete
  MaxStream,   \* bound: bytes received between two clears
  MaxFrames    \* bound: events pushed

ASSUME ClientsAssumption ==
  /\ Chunks \subseteq Seq(Byte)
  /\ Frames \subseteq Seq(Byte)
  /\ MaxStream \in Nat
  /\ MaxFrames \in Nat

VARIABLES
  log,      \* every [data, matched_rule] pushed, oldest first
  stream,   \* bytes received since the last clear of raw
  lost,     \* ids evicted or cleared
  answer,   \* what the last query returned
  cursor,   \* the polling client's last id
  seen      \* the events the polling client was given

history_vars == <<log, stream, lost, answer, cursor, seen>>

vars == <<capture_vars, history_vars>>

Entry == [data : Seq(Byte), matched_rule : Label \cup {NoLabel}]

ClientsTypeOK ==
  /\ TypeOK
  /\ log \in Seq(Entry)
  /\ stream \in Seq(Byte)
  /\ lost \subseteq Nat
  /\ answer \in Seq(Event)
  /\ cursor \in Nat
  /\ seen \subseteq Event

Ids(S) == {e.id : e \in S}

CInit ==
  /\ Init
  /\ log = <<>> /\ stream = <<>> /\ lost = {}
  /\ answer = <<>> /\ cursor = 0 /\ seen = {}

-----------------------------------------------------------------------------

(* reader_loop: `cap.append_raw(chunk)`. *)
ReceiveChunk(chunk) ==
  /\ Len(stream) + Len(chunk) <= MaxStream
  /\ AppendRaw(chunk)
  /\ stream' = stream \o chunk
  /\ UNCHANGED <<log, lost, answer, cursor, seen>>

(* handle_frame: `push_event(bytes, matched_rule)`. *)
RecordFrame(data, label) ==
  /\ Len(log) < MaxFrames
  /\ PushEvent(data, label)
  /\ log' = Append(log, [data |-> data, matched_rule |-> label])
  /\ lost' = lost \cup (Ids(ToSet(events)) \ Ids(ToSet(events')))
  /\ UNCHANGED <<stream, answer, cursor, seen>>

(* DELETE .../capture/raw *)
WipeRaw ==
  /\ ClearRaw
  /\ stream' = <<>>
  /\ UNCHANGED <<log, lost, answer, cursor, seen>>

(* DELETE .../capture/events *)
WipeEvents ==
  /\ ClearEvents
  /\ lost' = lost \cup Ids(ToSet(events))
  /\ UNCHANGED <<log, stream, answer, cursor, seen>>

(* GET .../capture/events?since=N, from anyone *)
Query(since) ==
  /\ answer' = EventsSince(since)
  /\ UNCHANGED <<capture_vars, log, stream, lost, cursor, seen>>

(* GET .../capture/events?since=<last id seen>, from the polling client *)
Poll ==
  /\ answer' = EventsSince(cursor)
  /\ cursor' = IF answer' = <<>> THEN cursor ELSE Last(answer').id
  /\ seen' = seen \cup ToSet(answer')
  /\ UNCHANGED <<capture_vars, log, stream, lost>>

Next ==
  \/ \E chunk \in Chunks : ReceiveChunk(chunk)
  \/ \E data \in Frames, label \in Label \cup {NoLabel} : RecordFrame(data, label)
  \/ WipeRaw
  \/ WipeEvents
  \/ \E since \in 0..MaxFrames : Query(since)
  \/ Poll

Spec == CInit /\ [][Next]_vars

-----------------------------------------------------------------------------

(* Both buffers stay within their configured maxima: capture.rs:1-6 calls  *)
(* them bounded, "oldest dropped when full".  They do, but for a maximum   *)
(* of 0, which config validation accepts (RawIsTailOfStream and            *)
(* ImplementsEventLog say what holds of every maximum).                    *)
BoundedCapture == Len(raw) <= MaxRaw /\ Len(events) <= MaxEvents

(* The ids of the retained events are consecutive and end at the last id   *)
(* handed out, so a gap between two polls always shows.                    *)
IdsContiguous ==
  /\ Len(events) < next_id
  /\ \A i \in DOMAIN events : events[i].id = next_id - 1 - Len(events) + i

(* However the bytes were cut into chunks, raw is what one append of the   *)
(* whole stream since the last clear would have left: its last MaxRaw      *)
(* bytes, all of them while they fit or if MaxRaw is 0 (README: "all       *)
(* captured bytes since clear").                                           *)
RawIsTailOfStream == raw = LastOf(stream, MaxRaw)

(* A client that polls with the last id it saw misses only events that had *)
(* left the buffer, and what it was given under an id is what was recorded *)
(* under that id: clearing, eviction and polling never renumber.           *)
NoSilentLoss ==
  /\ 1..cursor \subseteq Ids(seen) \cup lost
  /\ \A e \in seen : log[e.id] = [data |-> e.data, matched_rule |-> e.matched_rule]

(* A poll never returns an event that the same client already has. *)
NoRedelivery ==
  [][cursor' # cursor => Ids(ToSet(answer')) \cap Ids(seen) = {}]_vars

(* The events a buffer holds and the answers it gives are those of the     *)
(* append-only log: id n is its n-th entry, and an event leaves only by a  *)
(* clear or, as the oldest, to make room for another, which a MaxEvents of *)
(* 0 never asks for.                                                       *)
Log == INSTANCE EventLog WITH
  Data <- Frames, Rule <- Label \cup {NoLabel}, Since <- 0..MaxFrames, Capacity <- MaxEvents,
  floor <- next_id - 1 - Len(events)

ImplementsEventLog == Log!Init /\ [][Log!Next]_(Log!vars)
=============================================================================
