-------------------------------- MODULE Framer -------------------------------
(***************************************************************************)
(* One port's framer over time: the reader thread feeds it chunks of any   *)
(* size, calls on_idle after a quiet gap, and picks up another framing     *)
(* after a reload, keeping the bytes in flight (src/src/framing.rs and the *)
(* buffer of reader_loop in src/src/port.rs).  `stream` and `emitted` are  *)
(* histories: every byte fed, and every frame with how it came about.      *)
(***************************************************************************)
EXTENDS Framing

CONSTANTS
  Byte,        \* the bytes fed, a subset of Octet
  Configs,     \* the framings the port may be configured with
  MaxChunk,    \* bound: bytes per read
  MaxStream,   \* bound: bytes fed
  MaxReloads   \* bound: changes of framing

ASSUME FramerAssumption ==
  /\ Byte \subseteq Octet
  /\ \A cfg \in Configs : WellTyped(cfg) /\ Validate(cfg)
  /\ {MaxChunk, MaxStream, MaxReloads} \subseteq Nat

VARIABLES
  spec,      \* the reader's snapshot of the framing
  buf,       \* bytes not yet framed
  stream,    \* every byte fed
  emitted,   \* every frame: [frame, sep, cut, spec]
  reloads    \* framings taken up after the first

vars == <<spec, buf, stream, emitted, reloads>>

(* How a frame came about: cut off by Drain, or flushed whole by the       *)
(* backstop, by a malformed length or by a quiet gap.                      *)
Kinds == {"cut", "overflow", "malformed", "quiet"}

TypeOK ==
  LET Specs == {FromConfig(cfg) : cfg \in Configs}
  IN  /\ spec \in Specs
      /\ buf \in Seq(Byte)
      /\ stream \in Seq(Byte)
      /\ emitted \in Seq([frame : Seq(Byte), kind : Kinds, spec : Specs, sep : Seq(Octet)])
      /\ reloads \in 0..MaxReloads

Init ==
  /\ spec \in {FromConfig(cfg) : cfg \in Configs}
  /\ buf = <<>>
  /\ stream = <<>>
  /\ emitted = <<>>
  /\ reloads = 0

-----------------------------------------------------------------------------

Emit(frame, kind) ==
  [frame |-> frame, kind |-> kind, spec |-> spec,
   sep |-> IF kind = "cut" THEN Separator(spec.strategy) ELSE <<>>]

(* What a push of chunk emits as these frames: Drain's come first. *)
Fed(frames, chunk) ==
  LET drained == Drain(spec.strategy, buf \o chunk)
      Kind(i) == CASE i > Len(drained.frames) -> "overflow"
                   [] Malformed(spec.strategy, frames[i]) -> "malformed"
                   [] OTHER -> "cut"
  IN  [i \in DOMAIN frames |-> Emit(frames[i], Kind(i))]

Flushed(frames) == [i \in DOMAIN frames |-> Emit(frames[i], "quiet")]

(* reader_loop: `spec.push(&mut buf, chunk, &mut frames)` *)
Feed(chunk) ==
  LET pushed == Push(spec, buf, chunk)
  IN  /\ Len(stream) + Len(chunk) <= MaxStream
      /\ stream' = stream \o chunk
      /\ UNCHANGED <<spec, reloads>>
      /\ buf' = pushed.buf
      /\ emitted' = emitted \o Fed(pushed.frames, chunk)

(* reader_loop: the poll timed out, `spec.on_idle(&mut buf, &mut frames)` *)
Quiet ==
  LET flushed == OnIdle(spec, buf)
  IN  /\ spec.idle
      /\ UNCHANGED <<spec, stream, reloads>>
      /\ buf' = flushed.buf
      /\ emitted' = emitted \o Flushed(flushed.frames)

(* Mutated TakeUp: one that changes the strategy but not its limits, and   *)
(* one that drops the bytes in flight.                                     *)
TakeUpStrategyOnly(cfg) ==
  /\ reloads < MaxReloads
  /\ FromConfig(cfg) # spec
  /\ spec' = [spec EXCEPT !.strategy = cfg]
  /\ reloads' = reloads + 1
  /\ UNCHANGED <<buf, stream, emitted>>

TakeUpDropBuffer(cfg) ==
  /\ reloads < MaxReloads
  /\ FromConfig(cfg) # spec
  /\ spec' = FromConfig(cfg)
  /\ reloads' = reloads + 1
  /\ buf' = <<>>
  /\ UNCHANGED <<stream, emitted>>

(* The next iteration of reader_loop sees the framing a reload stored. *)
TakeUp(cfg) ==
  /\ reloads < MaxReloads
  /\ FromConfig(cfg) # spec
  /\ spec' = FromConfig(cfg)
  /\ reloads' = reloads + 1
  /\ UNCHANGED <<buf, stream, emitted>>

Next ==
  \/ \E chunk \in BoundedSeq(Byte, MaxChunk) \ {<<>>} : Feed(chunk)
  \/ Quiet
  \/ \E cfg \in Configs : TakeUp(cfg)

Spec == Init /\ [][Next]_vars

-----------------------------------------------------------------------------

(* No byte is lost, duplicated or reordered by cutting, flushing, dropping *)
(* delimiters or changing the framing under a partly filled buffer: the    *)
(* frames with the delimiters dropped from them, then the buffer, spell    *)
(* the stream.                                                             *)
BytesConserved ==
  FlattenSeq([i \in DOMAIN emitted |-> emitted[i].frame \o emitted[i].sep]) \o buf = stream

(* A frame that was cut is one message of its framing: for a delimiter,    *)
(* it and its terminator hold the delimiter only at their end; for a fixed *)
(* length, that many bytes; for a length field, the bytes it declares.     *)
CutFramesAreWhole ==
  \A i \in DOMAIN emitted :
    LET f == emitted[i].frame
        s == emitted[i].spec.strategy
        d == s.delimiter
    IN  emitted[i].kind = "cut" =>
          CASE s.type = "delimiter" ->
                 LET whole == f \o emitted[i].sep
                 IN  /\ IsSuffix(d, whole)
                     /\ \A p \in 1..(Len(whole) - Len(d)) : SubSeq(whole, p, p + Len(d) - 1) # d
            [] s.type = "fixed" -> Len(f) = s.length
            [] s.type = "length_prefixed" -> Len(f) >= LengthEnd(s) /\ Len(f) = Total(s, f)
            [] OTHER -> FALSE

(* The backstop never flushes a message that had arrived whole: what it    *)
(* flushes starts with no complete frame of its framing, and a port of     *)
(* fixed length, whose limit is raised to that length, never meets it.     *)
OverflowIsUnframed ==
  \A i \in DOMAIN emitted :
    emitted[i].kind = "overflow" =>
      /\ Cuts(emitted[i].spec.strategy, emitted[i].frame) = {}
      /\ emitted[i].spec.strategy.type # "fixed"

(* After every push the buffer holds no complete frame and at most         *)
(* max_buffer bytes, also when the framing changed under a longer one.     *)
PushSettles ==
  [][stream' # stream =>
       /\ Cuts(spec.strategy, buf') = {}
       /\ Len(buf') <= spec.max_buffer]_vars

(* How the kernel cuts the stream into reads does not show: as long as     *)
(* nothing was flushed and the framing did not change, the frames and the  *)
(* buffer are those of one read of the whole stream.                       *)
ChunkingInvisible ==
  (reloads = 0 /\ \A i \in DOMAIN emitted : emitted[i].kind = "cut") =>
    LET whole == Drain(spec.strategy, stream)
    IN  /\ buf = whole.buf
        /\ [i \in DOMAIN emitted |-> emitted[i].frame] = whole.frames
=============================================================================
