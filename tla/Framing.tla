------------------------------- MODULE Framing -------------------------------
(***************************************************************************)
(* Cutting a byte stream into frames (src/src/framing.rs).  A framing      *)
(* specification is immutable; the buffer of bytes not yet framed belongs  *)
(* to the reader thread and is passed in.  `push` and `on_idle` are        *)
(* operators that return the completed frames and the buffer left.         *)
(*                                                                         *)
(* A configuration is a record with `type` and the fields of its variant:  *)
(*   delimiter:       delimiter, include_delimiter                         *)
(*   fixed:           length                                               *)
(*   length_prefixed: header_size, length_offset, length_size,             *)
(*                    length_endian, length_includes, trailer_size         *)
(*   idle_timeout:    quiet_ms                                             *)
(***************************************************************************)
EXTENDS Integers, Sequences, SequencesExt

CONSTANT DEFAULT_MAX_BUFFER   \* 4096 in the program

ASSUME FramingAssumption == DEFAULT_MAX_BUFFER \in Nat \ {0}

Octet == 0..255

(* FramingConfig: an enumeration of records of bytes and unsigned integers. *)
WellTyped(cfg) ==
  /\ cfg.type \in {"delimiter", "fixed", "length_prefixed", "idle_timeout"}
  /\ cfg.type = "delimiter" =>
       cfg.delimiter \in Seq(Octet) /\ cfg.include_delimiter \in BOOLEAN
  /\ cfg.type = "fixed" => cfg.length \in Nat
  /\ cfg.type = "length_prefixed" =>
       {cfg.header_size, cfg.length_offset, cfg.length_size, cfg.trailer_size} \subseteq Nat

(* FramingConfig::validate *)
Validate(cfg) ==
  CASE cfg.type = "delimiter"       -> cfg.delimiter # <<>>
    [] cfg.type = "fixed"           -> cfg.length # 0
    [] cfg.type = "length_prefixed" -> cfg.length_size \in {1, 2, 4}
    [] cfg.type = "idle_timeout"    -> cfg.quiet_ms # 0

(* A mutated FromConfig that caps a long fixed frame at the default. *)
FromConfigShortBuffer(cfg) ==
  [strategy |-> cfg, max_buffer |-> DEFAULT_MAX_BUFFER, idle |-> cfg.type = "idle_timeout"]

(* The specification a configuration compiles to.  The quiet period itself *)
(* is abstracted: `idle` says that there is one.                           *)
FromConfig(cfg) ==
  [strategy   |-> cfg,
   max_buffer |-> IF cfg.type = "fixed" /\ cfg.length > DEFAULT_MAX_BUFFER
                  THEN cfg.length ELSE DEFAULT_MAX_BUFFER,
   idle       |-> cfg.type = "idle_timeout"]

-----------------------------------------------------------------------------

(* A mutated FindSubslice that finds the last occurrence. *)
FindSubsliceLast(haystack, needle) ==
  LET At(p) == SubSeq(haystack, p, p + Len(needle) - 1) = needle
      Starts == 1..(Len(haystack) - Len(needle) + 1)
  IN  {p \in Starts : At(p) /\ \A q \in Starts : At(q) => q <= p}

(* The first index at which needle occurs, as a set of at most one index.  *)
(* An empty needle is rejected by Validate.                                *)
FindSubslice(haystack, needle) ==
  LET At(p) == SubSeq(haystack, p, p + Len(needle) - 1) = needle
      Starts == 1..(Len(haystack) - Len(needle) + 1)
  IN  {p \in Starts : At(p) /\ \A q \in Starts : At(q) => p <= q}

(* An unsigned integer, most or least significant byte first. *)
ReadUint(bytes, endian) ==
  LET digits == IF endian = "big" THEN bytes ELSE Reverse(bytes)
      value[i \in 0..Len(bytes)] == IF i = 0 THEN 0 ELSE 256 * value[i - 1] + digits[i]
  IN  value[Len(bytes)]

(* The cuts possible at the head of buf, at most one: the frame and how    *)
(* many bytes it uses up.                                                  *)
Cut(buf, n) == [frame |-> SubSeq(buf, 1, n), used |-> n]

DelimiterCut(s, buf) ==
  {[frame |-> SubSeq(buf, 1, IF s.include_delimiter THEN p + Len(s.delimiter) - 1 ELSE p - 1),
    used  |-> p + Len(s.delimiter) - 1] : p \in FindSubslice(buf, s.delimiter)}

FixedCut(s, buf) == IF Len(buf) >= s.length THEN {Cut(buf, s.length)} ELSE {}

LengthEnd(s) == s.length_offset + s.length_size

(* What the length field at the head of buf says of the whole frame. *)
Total(s, buf) ==
  LET l == ReadUint(SubSeq(buf, s.length_offset + 1, LengthEnd(s)), s.length_endian)
  IN  IF s.length_includes = "payload" THEN s.header_size + l + s.trailer_size ELSE l

Malformed(s, buf) ==
  /\ s.type = "length_prefixed"
  /\ Len(buf) >= LengthEnd(s)
  /\ Total(s, buf) = 0 \/ Total(s, buf) < LengthEnd(s)

(* A mutated LengthPrefixedCut without the malformed-length guard's flush. *)
LengthPrefixedCutTrusting(s, buf) ==
  IF Len(buf) >= LengthEnd(s) /\ Len(buf) >= Total(s, buf) /\ Total(s, buf) > 0
  THEN {Cut(buf, Total(s, buf))}
  ELSE {}

(* A malformed length flushes the whole buffer; otherwise wait for Total. *)
LengthPrefixedCut(s, buf) ==
  CASE Len(buf) < LengthEnd(s)   -> {}
    [] Malformed(s, buf)         -> {Cut(buf, Len(buf))}
    [] OTHER                     ->
         IF Len(buf) >= Total(s, buf) THEN {Cut(buf, Total(s, buf))} ELSE {}

Cuts(s, buf) ==
  CASE s.type = "delimiter"       -> DelimiterCut(s, buf)
    [] s.type = "fixed"           -> FixedCut(s, buf)
    [] s.type = "length_prefixed" -> LengthPrefixedCut(s, buf)
    [] s.type = "idle_timeout"    -> {}

(* The delimiter bytes that a cut drops from the stream. *)
Separator(s) ==
  IF s.type = "delimiter" /\ ~s.include_delimiter THEN s.delimiter ELSE <<>>

(* A mutated Drain that emits one frame per call. *)
DrainOnce(s, buf) ==
  LET c == Cuts(s, buf) IN
  IF c = {} THEN [frames |-> <<>>, buf |-> buf]
  ELSE LET cut == CHOOSE x \in c : TRUE
       IN  [frames |-> <<cut.frame>>, buf |-> SubSeq(buf, cut.used + 1, Len(buf))]

(* Cut frames off the head of buf until none is complete. *)
Drain(s, buf) ==
  LET drain[b \in Seq(Octet)] ==
        LET c == Cuts(s, b) IN
        IF c = {} THEN [frames |-> <<>>, buf |-> b]
        ELSE LET cut  == CHOOSE x \in c : TRUE
                 rest == drain[SubSeq(b, cut.used + 1, Len(b))]
             IN  [frames |-> <<cut.frame>> \o rest.frames, buf |-> rest.buf]
  IN  drain[buf]

-----------------------------------------------------------------------------

Overflows(spec, buf) == Len(buf) > spec.max_buffer

(* A mutated Push that drains only what was buffered before the chunk. *)
PushDrainFirst(spec, buf, chunk) ==
  LET d == Drain(spec.strategy, buf)
  IN  [frames |-> d.frames, buf |-> d.buf \o chunk]

(* A mutated Push that discards an overflowing buffer. *)
PushDiscard(spec, buf, chunk) ==
  LET d == Drain(spec.strategy, buf \o chunk) IN
  IF Overflows(spec, d.buf) THEN [frames |-> d.frames, buf |-> <<>>] ELSE d

(* A mutated Push that tests the bound before draining. *)
PushFlushFirst(spec, buf, chunk) ==
  IF Overflows(spec, buf \o chunk) THEN [frames |-> <<buf \o chunk>>, buf |-> <<>>]
  ELSE Drain(spec.strategy, buf \o chunk)

(* FramingSpec::push: extend, drain, then the backstop. *)
Push(spec, buf, chunk) ==
  LET d == Drain(spec.strategy, buf \o chunk) IN
  IF Overflows(spec, d.buf)
  THEN [frames |-> Append(d.frames, d.buf), buf |-> <<>>]
  ELSE d

(* FramingSpec::on_idle: only idle-timeout framing flushes, and never an   *)
(* empty buffer.                                                           *)
OnIdle(spec, buf) ==
  IF spec.strategy.type = "idle_timeout" /\ buf # <<>>
  THEN [frames |-> <<buf>>, buf |-> <<>>]
  ELSE [frames |-> <<>>, buf |-> buf]
=============================================================================
