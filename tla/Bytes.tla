-------------------------------- MODULE Bytes --------------------------------
(***************************************************************************)
(* Byte literals of a configuration (src/src/bytes.rs) and the hex text in *)
(* which events are reported (src/src/http.rs, hex_encode).                *)
(*                                                                         *)
(* Text that is decoded is a sequence of character classes: a hex digit is *)
(* its value 0..15, and X, Sep and Other stand for the rest.  A literal is *)
(*   [form |-> "plain", bytes |-> the scalar's UTF-8 bytes]                *)
(*   [form |-> "map", keys |-> function from keys to values]               *)
(*   [form |-> "other"]: any other YAML value, a number or a sequence      *)
(* A value of key "hex" is text, of "bytes" a sequence of numbers, and of  *)
(* "utf8" bytes.  Base64 is decoded by a library: a value of "base64" is   *)
(* what it decodes to.  Null stands for YAML's null, Error for a failure.  *)
(***************************************************************************)
EXTENDS Naturals, Sequences, FiniteSets, Functions

X     == 16   \* 'x' or 'X'
Sep   == 17   \* ASCII whitespace, ':' or '_'
Other == 18   \* any other character

CONSTANTS Null, Error

Ok(bytes) == [ok |-> bytes]

-----------------------------------------------------------------------------

(* The characters of a `0x` or `0X`, wherever in the text it stands. *)
PrefixChars(text) ==
  LET zeros == {i \in 1..Len(text) - 1 : text[i] = 0 /\ text[i + 1] = X}
  IN  zeros \cup {i + 1 : i \in zeros}

(* The characters of a text at a set of positions, in their order. *)
CharsAt(text, kept) ==
  LET Nth(k) == CHOOSE i \in kept : Cardinality({j \in kept : j <= i}) = k
  IN  [k \in 1..Cardinality(kept) |-> text[Nth(k)]]

(* What is left after prefixes and separators are skipped. *)
Nibbles(text) ==
  CharsAt(text, {i \in DOMAIN text : text[i] # Sep /\ i \notin PrefixChars(text)})

(* A mutated DecodeHex that drops the last digit of an odd number. *)
DecodeHexLenient(text) ==
  LET n == Nibbles(text)
  IN  IF \E k \in DOMAIN n : n[k] > 15 THEN Error
      ELSE Ok([k \in 1..(Len(n) \div 2) |-> 16 * n[2 * k - 1] + n[2 * k]])

(* decode_hex *)
DecodeHex(text) ==
  LET n == Nibbles(text)
  IN  IF (\E k \in DOMAIN n : n[k] > 15) \/ Len(n) % 2 = 1 THEN Error
      ELSE Ok([k \in 1..(Len(n) \div 2) |-> 16 * n[2 * k - 1] + n[2 * k]])

(* hex_encode: two lower-case digits for each byte. *)
HexEncode(bytes) ==
  [k \in 1..(2 * Len(bytes)) |->
     IF k % 2 = 1 THEN bytes[(k + 1) \div 2] \div 16 ELSE bytes[k \div 2] % 16]

-----------------------------------------------------------------------------

Encodings == {"hex", "base64", "utf8", "bytes"}

(* The encoding keys a map sets; null leaves a key unset. *)
SetKeys(map) == {k \in DOMAIN map : map[k] # Null}

(* Bytes::deserialize: a string, or a map with one known key. *)
Decode(literal) ==
  LET map == literal.keys
      IsKey(k) == SetKeys(map) = {k}
  IN  CASE literal.form = "plain"                   -> Ok(literal.bytes)
        [] literal.form = "other"                   -> Error
        [] ~(DOMAIN map \subseteq Encodings)        -> Error
        [] IsKey("hex")                             -> DecodeHex(map.hex)
        [] IsKey("base64")                          -> map.base64
        [] IsKey("utf8")                            -> Ok(map.utf8)
        [] IsKey("bytes") /\ Range(map.bytes) \subseteq 0..255 -> Ok(map.bytes)
        [] OTHER                                    -> Error
=============================================================================
