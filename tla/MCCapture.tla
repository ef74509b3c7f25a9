------------------------------ MODULE MCCapture ------------------------------
(***************************************************************************)
(* CaptureClients on small buffers: rings of two entries, chunks shorter   *)
(* and longer than the ring, and enough frames to wrap the log twice.      *)
(***************************************************************************)
EXTENDS CaptureClients

CONSTANTS a, b, rule

MCByte == {a, b}
MCLabel == {rule}
MCChunks == {<<a>>, <<b, a>>, <<b, b, a>>}
MCFrames == {<<a>>}

(* What the loop of append_raw makes of a ring, byte by byte, is its last   *)
(* bytes: LastOf, by which AppendRaw is defined, for every content of a     *)
(* ring, also of one that can hold nothing.                                 *)
ASSUME ByteLoopAgrees ==
  \A max \in 0..3 : \A n \in 0..(IF max = 0 THEN 3 ELSE max) : \A ring \in [1..n -> MCByte] :
    \A chunk \in UNION {[1..k -> MCByte] : k \in 1..4} :
      LastOf(ring \o chunk, max) = FoldLeft(LAMBDA q, b1 : RingPush(q, max, b1), ring, chunk)
=============================================================================
