------------------------------ MODULE PortRecord -----------------------------
(***************************************************************************)
(* Port with a record of what crossed the line, which its steps write and  *)
(* never read: every byte read and written, every frame and event, every   *)
(* response.  Stated over it: that no byte is lost, that responses do not  *)
(* mix and belong to their events, and that the reader implements Framer.  *)
(***************************************************************************)
EXTENDS Port, SequencesExt

VARIABLES
  stream,      \* every byte the reader read
  wrote,       \* every byte the service wrote
  answered,    \* every write of a response that has ended, whole or not
  log,         \* every event recorded: [data, matched_rule]
  emitted,     \* every frame the framer emitted, as in module Framer
  taken        \* framings the reader took up after the first

record == <<stream, wrote, answered, log, emitted, taken>>

rvars == <<vars, record>>

(* The bytes read that the framer has been fed. *)
FedStream == SubSeq(stream, 1, Len(stream) - Len(chunk))

(* The framer of this port: what Port's reader loop does to the framing,   *)
(* the buffer and the frames, seen as the steps of Framer.                 *)
Fr == INSTANCE Framer WITH
        Configs   <- {cfg.framing : cfg \in Config},
        MaxChunk  <- MaxSent,
        MaxStream <- MaxSent,
        stream    <- FedStream,
        reloads   <- taken

RInit ==
  /\ Init
  /\ stream = <<>> /\ wrote = <<>> /\ answered = <<>> /\ log = <<>> /\ emitted = <<>>
  /\ taken = 0

-----------------------------------------------------------------------------
(* Reading the steps of Port off the variables they change. *)

(* What the thread inside write_all was given to write. *)
Response(t) ==
  IF t = Reader THEN snap[t].rules[label[2]].response
                ELSE snap[t].triggers[req[t].name]

(* The part of it that is on the line. *)
WrittenPart(t) == SubSeq(Response(t), 1, Len(Response(t)) - Len(out))

ObserveLine ==
  /\ stream' = IF Moved(Reader, "read", "append") THEN stream \o chunk' ELSE stream
  /\ wrote' = IF Len(wire') > Len(wire) THEN Append(wrote, Last(wire')) ELSE wrote
  /\ answered' = IF writer # None /\ writer' = None
                 THEN Append(answered, [by       |-> writer,
                                        label    |-> IF writer = Reader THEN label ELSE None,
                                        response |-> Response(writer),
                                        bytes    |-> WrittenPart(writer)])
                 ELSE answered
  /\ log' = IF next_id' # next_id
            THEN Append(log, [data |-> Last(events').data,
                              matched_rule |-> Last(events').matched_rule])
            ELSE log

ObserveFrames ==
  /\ emitted' = IF Left("append") THEN emitted \o Fr!Fed(frames', chunk)
                ELSE IF Left("poll") THEN emitted \o Fr!Flushed(frames')
                ELSE emitted
  /\ taken' = IF spec' # spec THEN taken + 1 ELSE taken

RNext == Next /\ ObserveLine /\ ObserveFrames

RSpec == RInit /\ [][RNext]_rvars

-----------------------------------------------------------------------------

(* The responses of triggers and of input rules serialize (the comment on  *)
(* PortState.writer): the line carries what was written of each, one after *)
(* another, then the beginning of the one being written, of which the      *)
(* bytes left to write are the rest.                                       *)
OneAfterAnother ==
  wrote = FlattenSeq([i \in DOMAIN answered |-> answered[i].bytes])
            \o (IF writer = None THEN <<>> ELSE WrittenPart(writer))

ResponsesSerialize ==
  /\ OneAfterAnother
  /\ writer # None => WrittenPart(writer) \o out = Response(writer)

(* Every byte read is accounted for once and in order, whatever reloads    *)
(* and clears do meanwhile: the events recorded and the frames in hand are *)
(* the frames that were cut, and these with the delimiters dropped from    *)
(* them, the framing buffer and the last read spell what was read.         *)
EveryByteAccounted ==
  /\ [i \in DOMAIN emitted |-> emitted[i].frame] = [i \in DOMAIN log |-> log[i].data] \o frames
  /\ FlattenSeq([i \in DOMAIN emitted |-> emitted[i].frame \o emitted[i].sep]) \o buf \o chunk
       = stream

(* The reader thread, among connections, switches, reloads and a client    *)
(* that may not read, implements Framer: it does nothing to the framing,   *)
(* the buffer and the frames but feed it, flush it and take up a framing.  *)
ImplementsFramer == Fr!Spec

(* An event carries a rule's label exactly when the reader wrote, or tried *)
(* to write, that rule's response for it, in the order of the events: a    *)
(* write that fails keeps its label (port.rs:252-254).                     *)
LabelsMatchEvents ==
  LET OneIf(cond, x) == IF cond THEN <<x>> ELSE <<>>
      Replies == [i \in DOMAIN answered |-> OneIf(answered[i].by = Reader, answered[i].label)]
      Matched == [i \in DOMAIN log |-> OneIf(log[i].matched_rule # None, log[i].matched_rule)]
  IN  FlattenSeq(Replies)
        = FlattenSeq(Matched) \o OneIf(pc[Reader] = "push" /\ label # None, label)

(* A response is on the line whole, unless the device went away: only then *)
(* is an event labelled with a rule whose response was cut or not sent.    *)
WholeUnlessHungup ==
  \A i \in DOMAIN answered : answered[i].bytes # answered[i].response => hungup

AnswersMatchEvents == LabelsMatchEvents /\ WholeUnlessHungup
=============================================================================
