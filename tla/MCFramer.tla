------------------------------ MODULE MCFramer -------------------------------
(***************************************************************************)
(* The framer with a buffer limit of 3 and all four strategies: one- and   *)
(* two-byte delimiters (kept and dropped), fixed lengths below and above   *)
(* the limit, length fields of one and two bytes in either order, counting *)
(* the payload or the frame, and idle framing.                             *)
(***************************************************************************)
EXTENDS Framer

MCByte == {0, 1, 2}

Delim(d, keep) == [type |-> "delimiter", delimiter |-> d, include_delimiter |-> keep]

FixedLen(n) == [type |-> "fixed", length |-> n]

LenField(header, offset, size, endian, includes, trailer) ==
  [type |-> "length_prefixed", header_size |-> header, length_offset |-> offset,
   length_size |-> size, length_endian |-> endian, length_includes |-> includes,
   trailer_size |-> trailer]

Idle == [type |-> "idle_timeout", quiet_ms |-> 50]

AllConfigs ==
  {Delim(<<0>>, TRUE), Delim(<<0>>, FALSE), Delim(<<0, 1>>, FALSE), Delim(<<1, 1>>, TRUE),
   FixedLen(2), FixedLen(5),
   LenField(1, 0, 1, "big", "payload", 0), LenField(2, 1, 1, "big", "payload", 1),
   LenField(0, 0, 1, "big", "frame", 0), LenField(2, 0, 2, "little", "payload", 0),
   LenField(0, 0, 1, "big", "payload", 0), Idle}
=============================================================================
