----------------------------- MODULE FramerProofs ----------------------------
(***************************************************************************)
(* The safety properties of Framer, for every set of configurations that   *)
(* validate accepts, every stream and every way of cutting it into reads.  *)
(*                                                                         *)
(* First what the functions of Framing compute, for every valid            *)
(* configuration and every buffer: what a cut takes off the buffer, that   *)
(* Drain is well defined because every cut takes at least one byte, and    *)
(* that its frames, the delimiters dropped from them and the bytes left    *)
(* spell the buffer.  Then the steps: Feed is the one that matters, and    *)
(* FeedFacts says what it emits in terms of Drain.                         *)
(***************************************************************************)
EXTENDS Framer, SequenceLemmas

(* A framing that the service runs: well typed, and accepted by validate. *)
Runnable(s) == WellTyped(s) /\ Validate(s)

(* Concatenation, of bytes and of frames, is associative. *)
LEMMA BytesRegroup == \A x, y, z \in Seq(Octet) : (x \o y) \o z = x \o (y \o z)
  BY ConcatAssociative

LEMMA FramesRegroup == \A x, y, z \in Seq(Seq(Octet)) : (x \o y) \o z = x \o (y \o z)
  BY ConcatAssociative

-----------------------------------------------------------------------------
(* Length fields. *)

(* v holds the value of the first i digits at i. *)
Reads(v, digits, n) ==
  /\ v = [i \in 0..n |-> v[i]]
  /\ \A i \in 0..n : v[i] = IF i = 0 THEN 0 ELSE 256 * v[i - 1] + digits[i]

LEMMA ReadsExists == \A digits : \A n \in Nat : \E v : Reads(v, digits, n)
<1> TAKE digits
<1> DEFINE T == {n \in Nat : \E v : Reads(v, digits, n)}
<1>1. 0 \in T
  <2> DEFINE v == [i \in 0..0 |-> 0]
  <2>1. v = [i \in 0..0 |-> v[i]] /\ \A i \in 0..0 : v[i] = 0
    OBVIOUS
  <2> HIDE DEF v
  <2>2. Reads(v, digits, 0)
    BY <2>1 DEF Reads
  <2> QED BY <2>2
<1>2. ASSUME NEW n \in Nat, n \in T PROVE n + 1 \in T
  <2>1. PICK v : Reads(v, digits, n)
    BY <1>2
  <2> DEFINE next == 256 * v[n] + digits[n + 1]
             w == [i \in 0..(n + 1) |-> IF i = n + 1 THEN next ELSE v[i]]
  <2>2. \A i \in 0..(n + 1) : w[i] = IF i = n + 1 THEN next ELSE v[i]
    OBVIOUS
  <2>3. w = [i \in 0..(n + 1) |-> w[i]]
    OBVIOUS
  <2> HIDE DEF w
  <2>4. \A i \in 0..(n + 1) : w[i] = IF i = 0 THEN 0 ELSE 256 * w[i - 1] + digits[i]
    <3> TAKE i \in 0..(n + 1)
    <3>1. CASE i = n + 1
      <4>1. n \in 0..(n + 1) /\ n # n + 1 /\ i - 1 = n /\ i # 0 /\ i \in 0..(n + 1)
        BY <3>1
      <4>2. w[n] = v[n] /\ w[i] = next
        BY <2>2, <3>1, <4>1
      <4> QED BY <3>1, <4>1, <4>2
    <3>2. CASE i # n + 1
      <4>1. i \in 0..n /\ (i # 0 => i - 1 \in 0..(n + 1) /\ i - 1 # n + 1)
        BY <3>2
      <4>2. w[i] = v[i] /\ (i # 0 => w[i - 1] = v[i - 1])
        BY <2>2, <3>2, <4>1
      <4>3. v[i] = IF i = 0 THEN 0 ELSE 256 * v[i - 1] + digits[i]
        BY <2>1, <4>1 DEF Reads
      <4> QED BY <4>2, <4>3
    <3> QED BY <3>1, <3>2
  <2>5. Reads(w, digits, n + 1)
    BY <2>3, <2>4 DEF Reads
  <2> QED BY <2>5
<1> HIDE DEF T
<1>3. \A n \in Nat : n \in T
  BY <1>1, <1>2, SetInduction
<1> QED
  BY <1>3 DEF T

(* A length field is a natural number. *)
LEMMA ReadUintTyped ==
  ASSUME NEW bytes \in Seq(Octet), NEW endian
  PROVE  ReadUint(bytes, endian) \in Nat
<1>1. PICK n \in Nat : n = Len(bytes)
  BY LenProperties
<1> DEFINE digits == IF endian = "big" THEN bytes ELSE Reverse(bytes)
<1>2. \A i \in 1..n : digits[i] \in Nat
  <2>1. \A i \in 1..n : bytes[i] \in Nat
    <3>1. \A i \in 1..n : bytes[i] \in Octet
      BY <1>1, ElementOfSeq
    <3>2. Octet \subseteq Nat
      BY DEF Octet
    <3> QED BY <3>1, <3>2
  <2>2. \A i \in 1..n : Reverse(bytes)[i] = bytes[(n - i) + 1] /\ (n - i) + 1 \in 1..n
    BY <1>1 DEF Reverse
  <2> QED BY <2>1, <2>2
<1> DEFINE Def(v) == [i \in 0..Len(bytes) |-> IF i = 0 THEN 0 ELSE 256 * v[i - 1] + digits[i]]
           value == CHOOSE v : v = Def(v)
<1>3. value = Def(value)
  <2>1. PICK v : Reads(v, digits, n)
    BY ReadsExists
  <2>2. v = Def(v)
    BY <1>1, <2>1 DEF Reads
  <2> QED BY <2>2
<1>4. ReadUint(bytes, endian) = value[Len(bytes)]
  BY DEF ReadUint
<1>5. \A i \in 0..n : value[i] = IF i = 0 THEN 0 ELSE 256 * value[i - 1] + digits[i]
  <2> HIDE DEF value
  <2> QED BY <1>1, <1>3
<1> HIDE DEF digits, value
<1> DEFINE T == {i \in Nat : i <= n => value[i] \in Nat}
<1>6. 0 \in T
  BY <1>5
<1>7. ASSUME NEW i \in Nat, i \in T PROVE i + 1 \in T
  <2> SUFFICES ASSUME i + 1 <= n PROVE value[i + 1] \in Nat
    OBVIOUS
  <2>1. i + 1 \in 0..n /\ i + 1 # 0 /\ (i + 1) - 1 = i /\ i + 1 \in 1..n
    OBVIOUS
  <2>2. value[i + 1] = 256 * value[i] + digits[i + 1]
    BY <1>5, <2>1
  <2>3. value[i] \in Nat /\ digits[i + 1] \in Nat
    BY <1>2, <1>7, <2>1
  <2> QED BY <2>2, <2>3
<1> HIDE DEF T
<1>8. \A i \in Nat : i \in T
  BY <1>6, <1>7, SetInduction
<1>9. value[n] \in Nat
  BY <1>8 DEF T
<1> QED
  BY <1>1, <1>4, <1>9

-----------------------------------------------------------------------------
(* What a cut takes off the buffer. *)

(* The first n elements of a sequence. *)
LEMMA PrefixTyped ==
  ASSUME NEW S, NEW b \in Seq(S), NEW n \in 0..Len(b)
  PROVE  SubSeq(b, 1, n) \in Seq(S) /\ Len(SubSeq(b, 1, n)) = n
<1>1. PICK l \in Nat : l = Len(b)
  BY LenProperties
<1>2. n \in 0..l /\ \A i \in 1..n : b[i] \in S
  BY <1>1, ElementOfSeq
<1>3. SubSeq(b, 1, n) \in Seq(S) /\ Len(SubSeq(b, 1, n)) = IF 1 <= n THEN n - 1 + 1 ELSE 0
  BY <1>2, SubSeqProperties
<1> QED
  BY <1>2, <1>3

(* A delimiter found at p, and nowhere before. *)
FirstAt(b, d, p) ==
  /\ p \in 1..(Len(b) - Len(d) + 1)
  /\ SubSeq(b, p, p + Len(d) - 1) = d
  /\ \A q \in 1..(p - 1) : SubSeq(b, q, q + Len(d) - 1) # d

LEMMA DelimiterCutIs ==
  ASSUME NEW s, Runnable(s), s.type = "delimiter", NEW b \in Seq(Octet),
         NEW c \in DelimiterCut(s, b)
  PROVE  \E p : /\ FirstAt(b, s.delimiter, p)
                /\ c.used = p + Len(s.delimiter) - 1
                /\ c.frame = SubSeq(b, 1, IF s.include_delimiter
                                          THEN p + Len(s.delimiter) - 1 ELSE p - 1)
<1>1. PICK p \in FindSubslice(b, s.delimiter) :
        /\ c.used = p + Len(s.delimiter) - 1
        /\ c.frame = SubSeq(b, 1, IF s.include_delimiter
                                  THEN p + Len(s.delimiter) - 1 ELSE p - 1)
  BY DEF DelimiterCut
<1> DEFINE d == s.delimiter
<1>2. d \in Seq(Octet)
  BY DEF Runnable, WellTyped
<1>3. PICK l \in Nat, m \in Nat : l = Len(b) /\ m = Len(d)
  BY <1>2, LenProperties
<1>4. /\ p \in 1..(l - m + 1) /\ SubSeq(b, p, p + m - 1) = d
      /\ \A q \in 1..(l - m + 1) : SubSeq(b, q, q + m - 1) = d => p <= q
  BY <1>1, <1>3 DEF FindSubslice
<1>5. \A q \in 1..(p - 1) : q \in 1..(l - m + 1) /\ ~(p <= q)
  BY <1>4
<1> QED
  BY <1>1, <1>3, <1>4, <1>5 DEF FirstAt

(* What a length field says of the whole frame is a number, once it is in  *)
(* the buffer.                                                             *)
LEMMA TotalTyped ==
  ASSUME NEW s, Runnable(s), s.type = "length_prefixed", NEW b \in Seq(Octet),
         Len(b) >= LengthEnd(s)
  PROVE  Total(s, b) \in Nat
<1>1. PICK l \in Nat, o \in Nat, e \in Nat :
        l = Len(b) /\ o = s.length_offset /\ e = LengthEnd(s) /\ o <= e
  BY LenProperties DEF Runnable, WellTyped, LengthEnd
<1>2. \A i \in (o + 1)..e : b[i] \in Octet
  BY <1>1, ElementOfSeq
<1>3. SubSeq(b, o + 1, e) \in Seq(Octet)
  BY <1>2, SubSeqProperties
<1>4. ReadUint(SubSeq(b, s.length_offset + 1, LengthEnd(s)), s.length_endian) \in Nat
  BY <1>1, <1>3, ReadUintTyped
<1> QED
  BY <1>4 DEF Total, Runnable, WellTyped

(* A cut uses up part of the buffer, at least a byte of it, and its frame  *)
(* with the delimiter dropped from it is that part.                        *)
LEMMA CutTakes ==
  ASSUME NEW s, Runnable(s), NEW B \in SUBSET Octet, NEW b \in Seq(B), NEW c \in Cuts(s, b)
  PROVE  /\ c.used \in 1..Len(b)
         /\ c.frame \in Seq(B)
         /\ c.frame \o Separator(s) = SubSeq(b, 1, c.used)
<1>1. b \in Seq(Octet)
  BY SeqMonotonic
<1>2. PICK l \in Nat : l = Len(b)
  BY LenProperties
<1>3. ASSUME NEW n \in 1..l, c = Cut(b, n), s.type # "delimiter"
      PROVE  /\ c.used \in 1..Len(b) /\ c.frame \in Seq(B)
             /\ c.frame \o Separator(s) = SubSeq(b, 1, c.used)
  <2>1. c.frame = SubSeq(b, 1, n) /\ c.used = n
    BY <1>3 DEF Cut
  <2>2. SubSeq(b, 1, n) \in Seq(B)
    BY <1>2, PrefixTyped
  <2>3. Separator(s) = <<>> /\ SubSeq(b, 1, n) \o <<>> = SubSeq(b, 1, n)
    BY <1>3, <2>2, ConcatEmptySeq DEF Separator
  <2> QED BY <1>2, <2>1, <2>2, <2>3
<1>a. CASE s.type = "delimiter"
  <2> DEFINE d == s.delimiter
  <2>1. c \in DelimiterCut(s, b)
    BY <1>a DEF Cuts
  <2>2. PICK p : /\ FirstAt(b, d, p)
                 /\ c.used = p + Len(d) - 1
                 /\ c.frame = SubSeq(b, 1, IF s.include_delimiter THEN p + Len(d) - 1 ELSE p - 1)
    BY <1>1, <1>a, <2>1, DelimiterCutIs
  <2>3. d \in Seq(Octet) /\ d # <<>>
    BY <1>a DEF Runnable, WellTyped, Validate
  <2>4. PICK m \in Nat : m = Len(d) /\ m # 0
    BY <2>3, EmptySeq
  <2>5. p \in 1..(l - m + 1) /\ SubSeq(b, p, p + m - 1) = d
    BY <1>2, <2>2, <2>4 DEF FirstAt
  <2>6. PICK e \in 1..l : e = p + m - 1
    <3>1. p \in Int /\ 1 <= p /\ p <= l - m + 1
      BY <2>5
    <3>2. p + m - 1 \in 1..l
      BY <2>4, <3>1
    <3> QED BY <3>2
  <2>7. c.used = e
    BY <2>2, <2>4, <2>6
  <2>8. CASE s.include_delimiter
    <3>1. c.frame = SubSeq(b, 1, e) /\ Separator(s) = <<>>
      BY <2>2, <2>4, <2>6, <2>8 DEF Separator
    <3>2. SubSeq(b, 1, e) \in Seq(B)
      BY <1>2, PrefixTyped
    <3> QED BY <1>2, <2>7, <3>1, <3>2, ConcatEmptySeq
  <2>9. CASE ~s.include_delimiter
    <3>1. PICK f \in 0..l : f = p - 1
      BY <2>4, <2>5
    <3>2. c.frame = SubSeq(b, 1, f) /\ Separator(s) = d
      BY <1>a, <2>2, <2>9, <3>1 DEF Separator
    <3>3. SubSeq(b, 1, f) \in Seq(B)
      BY <1>2, PrefixTyped
    <3>4. d = SubSeq(b, f + 1, e)
      BY <2>5, <2>6, <3>1
    <3>5. 1 \in 1..(l + 1) /\ f \in (1 - 1)..l /\ e \in f..l
      <4>1. p \in Int
        BY <2>5
      <4>2. f <= e
        BY <2>4, <2>6, <3>1, <4>1
      <4> QED BY <4>2
    <3>6. SubSeq(b, 1, f) \o SubSeq(b, f + 1, e) = SubSeq(b, 1, e)
      BY <1>2, <3>5, ConcatAdjacentSubSeq
    <3> QED BY <1>2, <2>7, <3>2, <3>3, <3>4, <3>6
  <2> QED BY <2>8, <2>9
<1>b. CASE s.type = "fixed"
  <2>1. c = Cut(b, s.length) /\ Len(b) >= s.length
    BY <1>b DEF Cuts, FixedCut
  <2>2. s.length \in Nat /\ s.length # 0
    BY <1>b DEF Runnable, WellTyped, Validate
  <2>3. s.length \in 1..l
    BY <1>2, <2>1, <2>2
  <2> QED BY <1>3, <1>b, <2>1, <2>3
<1>c. CASE s.type = "length_prefixed"
  <2>1. c \in LengthPrefixedCut(s, b)
    BY <1>c DEF Cuts
  <2>2. Len(b) >= LengthEnd(s) /\ (c = Cut(b, Len(b)) \/
          (c = Cut(b, Total(s, b)) /\ ~Malformed(s, b) /\ Len(b) >= Total(s, b)))
    <3>1. PICK e \in Nat : e = LengthEnd(s)
      BY <1>c DEF Runnable, WellTyped, LengthEnd
    <3>2. CASE l < e
      <4>1. ~Malformed(s, b)
        BY <1>2, <3>1, <3>2 DEF Malformed
      <4>2. LengthPrefixedCut(s, b) = {}
        BY <1>2, <3>1, <3>2, <4>1 DEF LengthPrefixedCut
      <4> QED BY <2>1, <4>2
    <3>3. CASE ~(l < e)
      <4>1. LengthPrefixedCut(s, b) \subseteq
              IF Malformed(s, b) THEN {Cut(b, Len(b))}
              ELSE IF Len(b) >= Total(s, b) THEN {Cut(b, Total(s, b))} ELSE {}
        BY <1>2, <3>1, <3>3 DEF LengthPrefixedCut
      <4> QED BY <1>2, <2>1, <3>1, <3>3, <4>1
    <3> QED BY <3>2, <3>3
  <2>3. PICK e \in Nat : e = LengthEnd(s) /\ e # 0
    BY <1>c DEF Runnable, WellTyped, Validate, LengthEnd
  <2>4. Total(s, b) \in Nat
    BY <1>1, <1>c, <2>2, TotalTyped
  <2>5. CASE c = Cut(b, Len(b))
    BY <1>2, <1>3, <1>c, <2>2, <2>3, <2>5
  <2>6. CASE c = Cut(b, Total(s, b)) /\ ~Malformed(s, b) /\ Len(b) >= Total(s, b)
    <3>1. ~(Total(s, b) < e) /\ Total(s, b) <= l
      BY <1>2, <1>c, <2>2, <2>3, <2>4, <2>6 DEF Malformed
    <3>2. Total(s, b) \in 1..l
      BY <2>3, <2>4, <3>1
    <3> QED BY <1>3, <1>c, <2>6, <3>2
  <2> QED BY <2>2, <2>5, <2>6
<1>d. CASE s.type = "idle_timeout"
  BY <1>d DEF Cuts
<1> QED
  BY <1>a, <1>b, <1>c, <1>d DEF Runnable, WellTyped

-----------------------------------------------------------------------------
(* Drain. *)

(* The cut that Drain makes, and the bytes it goes on with. *)
TheCut(s, b) == CHOOSE x \in Cuts(s, b) : TRUE

RestOf(s, b) == SubSeq(b, TheCut(s, b).used + 1, Len(b))

LEMMA RestShorter ==
  ASSUME NEW s, Runnable(s), NEW B \in SUBSET Octet, NEW b \in Seq(B), Cuts(s, b) # {}
  PROVE  /\ TheCut(s, b) \in Cuts(s, b)
         /\ TheCut(s, b).used \in 1..Len(b)
         /\ RestOf(s, b) \in Seq(B)
         /\ Len(RestOf(s, b)) \in Nat /\ Len(RestOf(s, b)) < Len(b)
         /\ TheCut(s, b).frame \in Seq(B)
         /\ TheCut(s, b).frame \o Separator(s) = SubSeq(b, 1, TheCut(s, b).used)
         /\ SubSeq(b, 1, TheCut(s, b).used) \o RestOf(s, b) = b
<1>1. TheCut(s, b) \in Cuts(s, b)
  BY DEF TheCut
<1>2. /\ TheCut(s, b).used \in 1..Len(b) /\ TheCut(s, b).frame \in Seq(B)
      /\ TheCut(s, b).frame \o Separator(s) = SubSeq(b, 1, TheCut(s, b).used)
  BY <1>1, CutTakes
<1>3. PICK l \in Nat, n \in Nat : l = Len(b) /\ n = TheCut(s, b).used /\ n \in 1..l /\ n \in 0..l
  BY <1>2, LenProperties
<1>4. /\ SubSeq(b, n + 1, l) \in Seq(B) /\ Len(SubSeq(b, n + 1, l)) = l - n
      /\ SubSeq(b, 1, n) \o SubSeq(b, n + 1, l) = b
  BY <1>3, RestTyped
<1>5. RestOf(s, b) = SubSeq(b, n + 1, l)
  BY <1>3 DEF RestOf
<1>6. l - n \in Nat /\ l - n < l
  BY <1>3
<1> QED
  BY <1>1, <1>2, <1>3, <1>4, <1>5, <1>6

(* f drains every buffer of at most n bytes. *)
DrainBody(f, s, b) ==
  IF Cuts(s, b) = {} THEN [frames |-> <<>>, buf |-> b]
  ELSE [frames |-> <<TheCut(s, b).frame>> \o f[RestOf(s, b)].frames, buf |-> f[RestOf(s, b)].buf]

Short(n) == {b \in Seq(Octet) : Len(b) <= n}

Drains(f, s, n) ==
  /\ f = [b \in Short(n) |-> f[b]]
  /\ \A b \in Short(n) : f[b] = DrainBody(f, s, b)

(* How a buffer is drained depends only on how shorter ones are. *)
LEMMA DrainBodyLocal ==
  ASSUME NEW s, Runnable(s), NEW b \in Seq(Octet), NEW f, NEW g,
         \A r \in Seq(Octet) : Len(r) < Len(b) => f[r] = g[r]
  PROVE  DrainBody(f, s, b) = DrainBody(g, s, b)
<1>1. CASE Cuts(s, b) = {}
  BY <1>1 DEF DrainBody
<1>2. CASE Cuts(s, b) # {}
  <2>1. f[RestOf(s, b)] = g[RestOf(s, b)]
    BY <1>2, RestShorter
  <2> QED BY <2>1 DEF DrainBody
<1> QED
  BY <1>1, <1>2

LEMMA DrainsExists ==
  ASSUME NEW s, Runnable(s)
  PROVE  \A n \in Nat : \E f : Drains(f, s, n)
<1> DEFINE T == {n \in Nat : \E f : Drains(f, s, n)}
<1>0. \A b \in Seq(Octet) : Len(b) \in Nat
  BY LenProperties
<1>1. 0 \in T
  <2> DEFINE f == [b \in Short(0) |-> DrainBody(<<>>, s, b)]
  <2>1. f = [b \in Short(0) |-> f[b]] /\ \A b \in Short(0) : f[b] = DrainBody(<<>>, s, b)
    OBVIOUS
  <2> HIDE DEF f
  <2>2. \A b \in Short(0) : f[b] = DrainBody(f, s, b)
    <3> TAKE b \in Short(0)
    <3>1. b \in Seq(Octet) /\ \A r \in Seq(Octet) : ~(Len(r) < Len(b))
      BY <1>0 DEF Short
    <3> QED BY <2>1, <3>1, DrainBodyLocal
  <2>3. Drains(f, s, 0)
    BY <2>1, <2>2 DEF Drains
  <2> QED BY <2>3
<1>2. ASSUME NEW n \in Nat, n \in T PROVE n + 1 \in T
  <2>1. PICK f : Drains(f, s, n)
    BY <1>2
  <2> DEFINE g == [b \in Short(n + 1) |-> DrainBody(f, s, b)]
  <2>2. g = [b \in Short(n + 1) |-> g[b]] /\ \A b \in Short(n + 1) : g[b] = DrainBody(f, s, b)
    OBVIOUS
  <2> HIDE DEF g
  <2>3. \A b \in Short(n) : g[b] = f[b]
    <3> TAKE b \in Short(n)
    <3>1. b \in Short(n + 1)
      BY <1>0 DEF Short
    <3> QED BY <2>1, <2>2, <3>1 DEF Drains
  <2>4. \A b \in Short(n + 1) : g[b] = DrainBody(g, s, b)
    <3> TAKE b \in Short(n + 1)
    <3>1. b \in Seq(Octet) /\ \A r \in Seq(Octet) : Len(r) < Len(b) => r \in Short(n)
      BY <1>0 DEF Short
    <3>2. \A r \in Seq(Octet) : Len(r) < Len(b) => f[r] = g[r]
      BY <2>3, <3>1
    <3> QED BY <2>2, <3>1, <3>2, DrainBodyLocal
  <2>5. Drains(g, s, n + 1)
    BY <2>2, <2>4 DEF Drains
  <2> QED BY <2>5
<1> HIDE DEF T
<1>3. \A n \in Nat : n \in T
  BY <1>1, <1>2, SetInduction
<1> QED
  BY <1>3 DEF T

(* Two such functions agree on the buffers that both drain. *)
LEMMA DrainsUnique ==
  ASSUME NEW s, Runnable(s), NEW f, NEW g, NEW n \in Nat, NEW m \in Nat,
         Drains(f, s, n), Drains(g, s, m)
  PROVE  \A b \in Seq(Octet) : Len(b) <= n /\ Len(b) <= m => f[b] = g[b]
<1> DEFINE T == {k \in Nat : \A b \in Seq(Octet) :
                    Len(b) <= k /\ Len(b) <= n /\ Len(b) <= m => f[b] = g[b]}
<1>0. \A b \in Seq(Octet) : Len(b) \in Nat
  BY LenProperties
<1>1. ASSUME NEW k \in Nat, NEW b \in Seq(Octet), Len(b) <= k, Len(b) <= n, Len(b) <= m,
             \A r \in Seq(Octet) : Len(r) < Len(b) => f[r] = g[r]
      PROVE  f[b] = g[b]
  <2>1. f[b] = DrainBody(f, s, b) /\ g[b] = DrainBody(g, s, b)
    BY <1>1 DEF Drains, Short
  <2> QED BY <1>1, <2>1, DrainBodyLocal
<1>2. 0 \in T
  <2>1. ASSUME NEW b \in Seq(Octet), Len(b) <= 0, Len(b) <= n, Len(b) <= m PROVE f[b] = g[b]
    <3>1. \A r \in Seq(Octet) : ~(Len(r) < Len(b))
      BY <1>0, <2>1
    <3> QED BY <1>1, <2>1, <3>1
  <2> QED BY <2>1
<1>3. ASSUME NEW k \in Nat, k \in T PROVE k + 1 \in T
  <2>1. ASSUME NEW b \in Seq(Octet), Len(b) <= k + 1, Len(b) <= n, Len(b) <= m PROVE f[b] = g[b]
    <3>1. \A r \in Seq(Octet) : Len(r) < Len(b) => Len(r) <= k /\ Len(r) <= n /\ Len(r) <= m
      BY <1>0, <2>1
    <3>2. \A r \in Seq(Octet) : Len(r) < Len(b) => f[r] = g[r]
      BY <1>3, <3>1
    <3>3. PICK j \in Nat : j = k + 1
      OBVIOUS
    <3> QED BY <1>1, <2>1, <3>2, <3>3
  <2> QED BY <2>1
<1> HIDE DEF T
<1>4. \A k \in Nat : k \in T
  BY <1>2, <1>3, SetInduction
<1>5. ASSUME NEW b \in Seq(Octet), Len(b) <= n, Len(b) <= m PROVE f[b] = g[b]
  <2>1. n \in T
    BY <1>4
  <2> QED BY <1>5, <2>1 DEF T
<1> QED
  BY <1>5

(* The equation that defines Drain. *)
LEMMA DrainStep ==
  ASSUME NEW s, Runnable(s), NEW b \in Seq(Octet)
  PROVE  Drain(s, b) = IF Cuts(s, b) = {} THEN [frames |-> <<>>, buf |-> b]
                       ELSE [frames |-> <<TheCut(s, b).frame>> \o Drain(s, RestOf(s, b)).frames,
                             buf    |-> Drain(s, RestOf(s, b)).buf]
<1> DEFINE Def(f) ==
             [a \in Seq(Octet) |->
                IF Cuts(s, a) = {} THEN [frames |-> <<>>, buf |-> a]
                ELSE [frames |-> <<TheCut(s, a).frame>>
                                   \o f[SubSeq(a, TheCut(s, a).used + 1, Len(a))].frames,
                      buf |-> f[SubSeq(a, TheCut(s, a).used + 1, Len(a))].buf]]
           drain == CHOOSE f : f = Def(f)
           upTo(n) == CHOOSE f : Drains(f, s, n)
           all == [a \in Seq(Octet) |-> upTo(Len(a))[a]]
<1>0. \A a \in Seq(Octet) : Len(a) \in Nat
  BY LenProperties
<1>1. \A a \in Seq(Octet) : Drain(s, a) = drain[a]
  BY DEF Drain, TheCut
<1>2. \A n \in Nat : Drains(upTo(n), s, n)
  BY DrainsExists
<1>3. \A a \in Seq(Octet) : all[a] = upTo(Len(a))[a]
  OBVIOUS
<1>4. all = [a \in Seq(Octet) |-> all[a]]
  OBVIOUS
<1> HIDE DEF upTo, all
<1>5. ASSUME NEW n \in Nat, NEW a \in Seq(Octet), Len(a) <= n PROVE all[a] = upTo(n)[a]
  BY <1>0, <1>2, <1>3, <1>5, DrainsUnique
<1>6. \A a \in Seq(Octet) : all[a] = DrainBody(all, s, a)
  <2> TAKE a \in Seq(Octet)
  <2>1. PICK n \in Nat : n = Len(a)
    BY <1>0
  <2>2. a \in Short(n)
    BY <2>1 DEF Short
  <2>3. upTo(n)[a] = DrainBody(upTo(n), s, a)
    BY <1>2, <2>2 DEF Drains
  <2>4. \A r \in Seq(Octet) : Len(r) < Len(a) => upTo(n)[r] = all[r]
    BY <1>0, <1>5, <2>1
  <2>5. DrainBody(upTo(n), s, a) = DrainBody(all, s, a)
    BY <2>4, DrainBodyLocal
  <2> QED BY <1>3, <2>1, <2>3, <2>5
<1>7. all = Def(all)
  BY <1>4, <1>6 DEF DrainBody, RestOf
<1>8. drain = Def(drain)
  BY <1>7
<1> HIDE DEF drain
<1>9. drain[b] = DrainBody(drain, s, b)
  BY <1>8 DEF DrainBody, RestOf
<1>10. Cuts(s, b) # {} => RestOf(s, b) \in Seq(Octet)
  BY RestShorter
<1> QED
  BY <1>1, <1>9, <1>10 DEF DrainBody

LEMMA DrainStuck ==
  ASSUME NEW s, Runnable(s), NEW b \in Seq(Octet), Cuts(s, b) = {}
  PROVE  Drain(s, b).frames = <<>> /\ Drain(s, b).buf = b
<1>1. Drain(s, b) = [frames |-> <<>>, buf |-> b]
  BY DrainStep, Zenon
<1> QED
  BY <1>1

LEMMA DrainGoesOn ==
  ASSUME NEW s, Runnable(s), NEW b \in Seq(Octet), Cuts(s, b) # {}
  PROVE  /\ Drain(s, b).frames = <<TheCut(s, b).frame>> \o Drain(s, RestOf(s, b)).frames
         /\ Drain(s, b).buf = Drain(s, RestOf(s, b)).buf
<1>1. Drain(s, b) = [frames |-> <<TheCut(s, b).frame>> \o Drain(s, RestOf(s, b)).frames,
                     buf    |-> Drain(s, RestOf(s, b)).buf]
  BY DrainStep, Zenon
<1> QED
  BY <1>1

(* What holds of the buffers that cannot be cut, and of every other one if *)
(* it holds of what its cut leaves, holds of all.                          *)
LEMMA DrainInduction ==
  ASSUME NEW s, Runnable(s), NEW B \in SUBSET Octet, NEW S,
         \A b \in Seq(B) : Cuts(s, b) = {} => b \in S,
         \A b \in Seq(B) : Cuts(s, b) # {} /\ RestOf(s, b) \in S => b \in S
  PROVE  \A b \in Seq(B) : b \in S
<1> DEFINE T == {n \in Nat : \A b \in Seq(B) : Len(b) <= n => b \in S}
<1>0. \A b \in Seq(B) : Len(b) \in Nat
  BY LenProperties
<1>1. 0 \in T
  <2>1. ASSUME NEW b \in Seq(B), Len(b) <= 0 PROVE b \in S
    <3>1. CASE Cuts(s, b) # {}
      <4>1. Len(RestOf(s, b)) \in Nat /\ Len(RestOf(s, b)) < Len(b)
        BY <3>1, RestShorter
      <4> QED BY <1>0, <2>1, <4>1
    <3> QED BY <3>1
  <2> QED BY <2>1
<1>2. ASSUME NEW n \in Nat, n \in T PROVE n + 1 \in T
  <2>1. ASSUME NEW b \in Seq(B), Len(b) <= n + 1 PROVE b \in S
    <3>1. CASE Cuts(s, b) # {}
      <4>1. /\ RestOf(s, b) \in Seq(B) /\ Len(RestOf(s, b)) \in Nat
            /\ Len(RestOf(s, b)) < Len(b)
        BY <3>1, RestShorter
      <4>2. Len(RestOf(s, b)) <= n
        BY <1>0, <2>1, <4>1
      <4>3. RestOf(s, b) \in S
        BY <1>2, <4>1, <4>2
      <4> QED BY <3>1, <4>3
    <3> QED BY <3>1
  <2> QED BY <2>1
<1> HIDE DEF T
<1>3. \A n \in Nat : n \in T
  BY <1>1, <1>2, SetInduction
<1> QED
  BY <1>0, <1>3 DEF T

(* Frames are sequences of the bytes they were cut from. *)
LEMMA DrainTyped ==
  ASSUME NEW s, Runnable(s), NEW B \in SUBSET Octet
  PROVE  \A b \in Seq(B) : /\ Drain(s, b).frames \in Seq(Seq(B))
                           /\ Drain(s, b).buf \in Seq(B)
<1> DEFINE S == {b \in Seq(B) : /\ Drain(s, b).frames \in Seq(Seq(B))
                                /\ Drain(s, b).buf \in Seq(B)}
<1>0. \A b \in Seq(B) : b \in Seq(Octet)
  BY SeqMonotonic
<1>1. ASSUME NEW b \in Seq(B), Cuts(s, b) = {} PROVE b \in S
  <2>1. Drain(s, b).frames = <<>> /\ Drain(s, b).buf = b
    BY <1>0, <1>1, DrainStuck
  <2> QED BY <2>1, EmptySeq
<1>2. ASSUME NEW b \in Seq(B), Cuts(s, b) # {}, RestOf(s, b) \in S PROVE b \in S
  <2>1. /\ Drain(s, b).frames = <<TheCut(s, b).frame>> \o Drain(s, RestOf(s, b)).frames
        /\ Drain(s, b).buf = Drain(s, RestOf(s, b)).buf
    BY <1>0, <1>2, DrainGoesOn
  <2>2. TheCut(s, b).frame \in Seq(B)
    BY <1>2, RestShorter
  <2>3. <<TheCut(s, b).frame>> \in Seq(Seq(B))
    BY <2>2
  <2> QED BY <1>2, <2>1, <2>3, ConcatProperties
<1> HIDE DEF S
<1>3. \A b \in Seq(B) : b \in S
  BY <1>1, <1>2, DrainInduction
<1> QED
  BY <1>3 DEF S

(* What Drain leaves holds no complete frame. *)
LEMMA DrainSettles ==
  ASSUME NEW s, Runnable(s), NEW b \in Seq(Octet)
  PROVE  Cuts(s, Drain(s, b).buf) = {}
<1> DEFINE S == {a \in Seq(Octet) : Cuts(s, Drain(s, a).buf) = {}}
<1>1. \A a \in Seq(Octet) : Cuts(s, a) = {} => a \in S
  BY DrainStuck
<1>2. ASSUME NEW a \in Seq(Octet), Cuts(s, a) # {}, RestOf(s, a) \in S PROVE a \in S
  <2>1. Drain(s, a).buf = Drain(s, RestOf(s, a)).buf
    BY <1>2, DrainGoesOn
  <2> QED BY <1>2, <2>1
<1> HIDE DEF S
<1>3. \A a \in Seq(Octet) : a \in S
  BY <1>1, <1>2, DrainInduction
<1> QED
  BY <1>3 DEF S

(* A property of every cut frame is a property of every frame of Drain.    *)
LEMMA DrainFrames ==
  ASSUME NEW s, Runnable(s), NEW b \in Seq(Octet), NEW P,
         \A a \in Seq(Octet) : \A c \in Cuts(s, a) : c.frame \in P
  PROVE  \A i \in DOMAIN Drain(s, b).frames : Drain(s, b).frames[i] \in P
<1> DEFINE S == {a \in Seq(Octet) : Drain(s, a).frames \in Seq(P)}
<1>1. ASSUME NEW a \in Seq(Octet), Cuts(s, a) = {} PROVE a \in S
  <2>1. Drain(s, a).frames = <<>>
    BY <1>1, DrainStuck
  <2> QED BY <2>1, EmptySeq
<1>2. ASSUME NEW a \in Seq(Octet), Cuts(s, a) # {}, RestOf(s, a) \in S PROVE a \in S
  <2>1. Drain(s, a).frames = <<TheCut(s, a).frame>> \o Drain(s, RestOf(s, a)).frames
    BY <1>2, DrainGoesOn
  <2>2. TheCut(s, a).frame \in P
    BY <1>2, RestShorter
  <2>3. <<TheCut(s, a).frame>> \in Seq(P)
    BY <2>2
  <2> QED BY <1>2, <2>1, <2>3, ConcatProperties
<1> HIDE DEF S
<1>3. \A a \in Seq(Octet) : a \in S
  BY <1>1, <1>2, DrainInduction
<1>4. Drain(s, b).frames \in Seq(P)
  BY <1>3 DEF S
<1> QED
  BY <1>4, LenProperties, ElementOfSeq

-----------------------------------------------------------------------------
(* No byte is lost. *)

(* Every frame with what a cut dropped behind it. *)
With(frames, sep) == [i \in DOMAIN frames |-> frames[i] \o sep]

LEMMA WithTyped ==
  ASSUME NEW B, NEW frames \in Seq(Seq(B)), NEW sep \in Seq(B)
  PROVE  /\ With(frames, sep) \in Seq(Seq(B))
         /\ Len(With(frames, sep)) = Len(frames)
         /\ \A i \in 1..Len(frames) : With(frames, sep)[i] = frames[i] \o sep
<1>1. PICK n \in Nat : n = Len(frames) /\ DOMAIN frames = 1..n
  BY LenProperties
<1>2. \A i \in 1..n : frames[i] \in Seq(B)
  BY <1>1, ElementOfSeq
<1>3. \A i \in 1..n : frames[i] \o sep \in Seq(B)
  BY <1>2, ConcatProperties
<1>4. With(frames, sep) = [i \in 1..n |-> frames[i] \o sep]
  BY <1>1 DEF With
<1>5. With(frames, sep) \in [1..n -> Seq(B)]
  BY <1>3, <1>4
<1>6. With(frames, sep) \in Seq(Seq(B)) /\ DOMAIN With(frames, sep) = 1..n
  BY <1>5, SeqDef
<1>7. Len(With(frames, sep)) = n
  BY <1>6, LenProperties
<1> QED
  BY <1>1, <1>4, <1>6, <1>7

LEMMA WithFirst ==
  ASSUME NEW B, NEW frames \in Seq(Seq(B)), NEW sep \in Seq(B), NEW f \in Seq(B)
  PROVE  With(<<f>> \o frames, sep) = <<f \o sep>> \o With(frames, sep)
<1>1. PICK n \in Nat : n = Len(frames)
  BY LenProperties
<1> DEFINE fs == <<f>> \o frames
<1>2. <<f>> \in Seq(Seq(B)) /\ Len(<<f>>) = 1 /\ <<f>>[1] = f
  OBVIOUS
<1>3. /\ fs \in Seq(Seq(B)) /\ Len(fs) = 1 + n
      /\ \A i \in 1..(1 + n) : fs[i] = IF i <= 1 THEN <<f>>[i] ELSE frames[i - 1]
  BY <1>1, <1>2, ConcatProperties
<1> HIDE DEF fs
<1>4. f \o sep \in Seq(B)
  BY ConcatProperties
<1>5. <<f \o sep>> \in Seq(Seq(B)) /\ Len(<<f \o sep>>) = 1 /\ <<f \o sep>>[1] = f \o sep
  BY <1>4
<1>6. /\ With(frames, sep) \in Seq(Seq(B)) /\ Len(With(frames, sep)) = n
      /\ \A i \in 1..n : With(frames, sep)[i] = frames[i] \o sep
  BY <1>1, WithTyped
<1>7. /\ With(fs, sep) \in Seq(Seq(B)) /\ Len(With(fs, sep)) = 1 + n
      /\ \A i \in 1..(1 + n) : With(fs, sep)[i] = fs[i] \o sep
  BY <1>3, WithTyped
<1> DEFINE ws == <<f \o sep>> \o With(frames, sep)
<1>8. /\ ws \in Seq(Seq(B)) /\ Len(ws) = 1 + n
      /\ \A i \in 1..(1 + n) : ws[i] = IF i <= 1 THEN <<f \o sep>>[i] ELSE With(frames, sep)[i - 1]
  BY <1>5, <1>6, ConcatProperties
<1> HIDE DEF ws
<1>9. \A i \in 1..(1 + n) : With(fs, sep)[i] = ws[i]
  <2> TAKE i \in 1..(1 + n)
  <2>1. CASE i = 1
    <3>1. fs[i] = f /\ ws[i] = f \o sep
      BY <1>2, <1>3, <1>5, <1>8, <2>1
    <3> QED BY <1>7, <3>1
  <2>2. CASE i # 1
    <3>1. i - 1 \in 1..n /\ ~(i <= 1)
      BY <2>2
    <3>2. fs[i] = frames[i - 1] /\ ws[i] = With(frames, sep)[i - 1]
      BY <1>3, <1>8, <3>1
    <3>3. With(frames, sep)[i - 1] = frames[i - 1] \o sep
      BY <1>6, <3>1
    <3> QED BY <1>7, <3>2, <3>3
  <2> QED BY <2>1, <2>2
<1>10. With(fs, sep) = ws
  BY <1>7, <1>8, <1>9, SeqEqual
<1> QED
  BY <1>10 DEF fs, ws

LEMMA SeparatorTyped ==
  ASSUME NEW s, Runnable(s)
  PROVE  Separator(s) \in Seq(Octet)
<1>1. s.type = "delimiter" => s.delimiter \in Seq(Octet)
  BY DEF Runnable, WellTyped
<1> QED
  BY <1>1, EmptySeq DEF Separator

(* The frames with the delimiters that were dropped from them, then the    *)
(* bytes left, spell the buffer that was drained.                          *)
THEOREM DrainConserves ==
  ASSUME NEW s, Runnable(s), NEW b \in Seq(Octet)
  PROVE  FlattenSeq(With(Drain(s, b).frames, Separator(s))) \o Drain(s, b).buf = b
<1> DEFINE sep == Separator(s)
           S == {a \in Seq(Octet) : FlattenSeq(With(Drain(s, a).frames, sep)) \o Drain(s, a).buf = a}
<1>0. sep \in Seq(Octet)
  BY SeparatorTyped
<1>1. ASSUME NEW a \in Seq(Octet), Cuts(s, a) = {} PROVE a \in S
  <2>1. Drain(s, a).frames = <<>> /\ Drain(s, a).buf = a
    BY <1>1, DrainStuck
  <2>2. With(<<>>, sep) = <<>>
    <3>1. <<>> \in Seq(Seq(Octet)) /\ Len(<<>>) = 0
      BY EmptySeq
    <3>2. With(<<>>, sep) \in Seq(Seq(Octet)) /\ Len(With(<<>>, sep)) = 0
      BY <1>0, <3>1, WithTyped
    <3> QED BY <3>2, EmptySeq
  <2>3. <<>> \o a = a
    BY ConcatEmptySeq
  <2> QED BY <2>1, <2>2, <2>3, FlattenEmpty
<1>2. ASSUME NEW a \in Seq(Octet), Cuts(s, a) # {}, RestOf(s, a) \in S PROVE a \in S
  <2> DEFINE r == RestOf(s, a)
             d == Drain(s, r)
             f == TheCut(s, a).frame
  <2>1. /\ Drain(s, a).frames = <<f>> \o d.frames
        /\ Drain(s, a).buf = d.buf
    BY <1>2, DrainGoesOn
  <2>2. r \in Seq(Octet) /\ f \in Seq(Octet) /\ (f \o sep) \o r = a
    BY <1>2, RestShorter
  <2>3. d.frames \in Seq(Seq(Octet)) /\ d.buf \in Seq(Octet)
    BY <2>2, DrainTyped
  <2>4. FlattenSeq(With(d.frames, sep)) \o d.buf = r
    BY <1>2
  <2> HIDE DEF r, d, f
  <2> HIDE DEF sep
  <2>5. With(<<f>> \o d.frames, sep) = <<f \o sep>> \o With(d.frames, sep)
    BY <1>0, <2>2, <2>3, WithFirst
  <2>6. f \o sep \in Seq(Octet) /\ With(d.frames, sep) \in Seq(Seq(Octet))
    BY <1>0, <2>2, <2>3, WithTyped, ConcatProperties
  <2>7. /\ <<f \o sep>> \in Seq(Seq(Octet))
        /\ FlattenSeq(<<f \o sep>>) = f \o sep
        /\ FlattenSeq(With(d.frames, sep)) \in Seq(Octet)
    <3>1. <<f \o sep>> \in Seq(Seq(Octet))
      BY <2>6
    <3>2. FlattenSeq(<<f \o sep>>) = f \o sep
      BY <2>6, FlattenOne
    <3>3. FlattenSeq(With(d.frames, sep)) \in Seq(Octet)
      BY <2>6, FlattenTyped
    <3> QED BY <3>1, <3>2, <3>3
  <2>8. FlattenSeq(<<f \o sep>> \o With(d.frames, sep))
          = (f \o sep) \o FlattenSeq(With(d.frames, sep))
    BY <2>6, <2>7, FlattenConcat
  <2>9. ((f \o sep) \o FlattenSeq(With(d.frames, sep))) \o d.buf = (f \o sep) \o r
    <3> DEFINE head == f \o sep
               middle == FlattenSeq(With(d.frames, sep))
    <3>1. head \in Seq(Octet) /\ middle \in Seq(Octet) /\ d.buf \in Seq(Octet)
      BY <2>3, <2>6, <2>7
    <3>2. middle \o d.buf = r
      BY <2>4
    <3> HIDE DEF head, middle
    <3>3. (head \o middle) \o d.buf = head \o (middle \o d.buf)
      BY <3>1, BytesRegroup, Zenon
    <3> QED BY <3>2, <3>3 DEF head, middle
  <2> QED BY <2>1, <2>2, <2>5, <2>8, <2>9 DEF r, d, f
<1> HIDE DEF S
<1>3. \A a \in Seq(Octet) : a \in S
  BY <1>1, <1>2, DrainInduction
<1> QED
  BY <1>3 DEF S

-----------------------------------------------------------------------------
(* Cut frames are whole. *)

(* f is one message of framing s: with its terminator it holds the         *)
(* delimiter only at its end; it has the fixed length; it has the length   *)
(* it declares.                                                            *)
Whole(s, f) ==
  CASE s.type = "delimiter" ->
         LET whole == f \o Separator(s)
         IN  /\ IsSuffix(s.delimiter, whole)
             /\ \A p \in 1..(Len(whole) - Len(s.delimiter)) :
                  SubSeq(whole, p, p + Len(s.delimiter) - 1) # s.delimiter
    [] s.type = "fixed" -> Len(f) = s.length
    [] s.type = "length_prefixed" -> Len(f) >= LengthEnd(s) /\ Len(f) = Total(s, f)
    [] OTHER -> FALSE

(* What a sequence ends with is a suffix of it. *)
LEMMA SuffixIs ==
  ASSUME NEW S, NEW w \in Seq(S), NEW p \in 1..Len(w)
  PROVE  IsSuffix(SubSeq(w, p, Len(w)), w)
<1> DEFINE d == SubSeq(w, p, Len(w))
<1>1. PICK l \in Nat, m \in Nat : l = Len(w) /\ m = l - p + 1
  <2>1. PICK l \in Nat : l = Len(w)
    BY LenProperties
  <2>2. l - p + 1 \in Nat
    BY <2>1
  <2> QED BY <2>1, <2>2
<1>2. \A i \in p..l : w[i] \in S
  BY <1>1, ElementOfSeq
<1>3. d \in Seq(S) /\ Len(d) = m /\ \A i \in 1..m : d[i] = w[p + i - 1]
  <2>1. p \in Int /\ l \in Int /\ p <= l
    BY <1>1
  <2> QED BY <1>1, <1>2, <2>1, SubSeqProperties
<1> HIDE DEF d
<1>4. /\ Reverse(d) = [i \in 1..m |-> d[(m - i) + 1]]
      /\ Reverse(w) = [i \in 1..l |-> w[(l - i) + 1]]
  BY <1>1, <1>3 DEF Reverse
<1>5. \A i \in 1..m : Reverse(d)[i] = Reverse(w)[i]
  <2> TAKE i \in 1..m
  <2>1. i \in 1..l /\ (m - i) + 1 \in 1..m
    BY <1>1
  <2>2. Reverse(d)[i] = d[(m - i) + 1] /\ Reverse(w)[i] = w[(l - i) + 1]
    BY <1>4, <2>1
  <2>3. p + ((m - i) + 1) - 1 = (l - i) + 1
    BY <1>1
  <2>4. d[(m - i) + 1] = w[p + ((m - i) + 1) - 1]
    BY <1>3, <2>1
  <2> QED BY <2>2, <2>3, <2>4
<1>6. Reverse(d) \in Seq(S) /\ Len(Reverse(d)) = m /\ Reverse(w) \in Seq(S) /\ Len(Reverse(w)) = l
  <2>1. \A i \in 1..m : (m - i) + 1 \in 1..m
    OBVIOUS
  <2>2. \A i \in 1..l : (l - i) + 1 \in 1..l
    OBVIOUS
  <2>3. Reverse(d) \in [1..m -> S]
    BY <1>3, <1>4, <2>1, ElementOfSeq
  <2>4. Reverse(w) \in [1..l -> S]
    BY <1>1, <1>4, <2>2, ElementOfSeq
  <2>5. Reverse(d) \in Seq(S) /\ Reverse(w) \in Seq(S)
    BY <2>3, <2>4, SeqDef
  <2>6. DOMAIN Reverse(d) = 1..m /\ DOMAIN Reverse(w) = 1..l
    BY <1>4
  <2> QED BY <2>5, <2>6, LenProperties
<1>7. SubSeq(Reverse(d), 1, m) = SubSeq(Reverse(w), 1, m)
  <2>1. m \in 0..l /\ m \in 0..m
    BY <1>1
  <2> DEFINE x == SubSeq(Reverse(d), 1, m)
             y == SubSeq(Reverse(w), 1, m)
  <2>2. x \in Seq(S) /\ Len(x) = m /\ y \in Seq(S) /\ Len(y) = m
    BY <1>6, <2>1, PrefixTyped
  <2>3. /\ \A i \in 1..m : Reverse(d)[i] \in S
        /\ \A i \in 1..m : Reverse(w)[i] \in S
    BY <1>5, <1>6, ElementOfSeq
  <2>4. \A i \in 1..m : x[i] = Reverse(d)[i]
    BY <2>3, SubSeqProperties
  <2>5. \A i \in 1..m : y[i] = Reverse(w)[i]
    BY <2>3, SubSeqProperties
  <2> HIDE DEF x, y
  <2>6. \A i \in 1..m : x[i] = y[i]
    BY <1>5, <2>4, <2>5
  <2>7. x = y
    BY <2>2, <2>6, SeqEqual
  <2> QED BY <2>7 DEF x, y
<1>8. m <= l
  BY <1>1
<1>9. IsSuffix(d, w)
  BY <1>6, <1>7, <1>8 DEF IsSuffix, IsPrefix
<1> QED
  BY <1>9 DEF d

(* The first n bytes of a buffer have its length field, if they hold it.   *)
LEMMA TotalOfPrefix ==
  ASSUME NEW s, Runnable(s), s.type = "length_prefixed", NEW b \in Seq(Octet),
         NEW n \in 0..Len(b), n >= LengthEnd(s)
  PROVE  Total(s, SubSeq(b, 1, n)) = Total(s, b)
<1>1. PICK l \in Nat, o \in Nat, e \in Nat :
        l = Len(b) /\ o = s.length_offset /\ e = LengthEnd(s) /\ o < e
  <2>1. s.length_offset \in Nat /\ s.length_size \in Nat /\ s.length_size > 0
    BY DEF Runnable, WellTyped, Validate
  <2>2. LengthEnd(s) \in Nat /\ s.length_offset < LengthEnd(s)
    BY <2>1 DEF LengthEnd
  <2> QED BY <2>1, <2>2, LenProperties
<1>2. n \in 1..l /\ n \in Int /\ e <= n
  BY <1>1
<1>3. PICK k \in 1..(n - 1 + 1) : k = o + 1
  BY <1>1, <1>2
<1>4. SubSeq(SubSeq(b, 1, n), o + 1, e) = SubSeq(b, 1 + (o + 1) - 1, 1 + e - 1)
  <2>1. 1 \in 1..Len(b) /\ n \in 1..Len(b) /\ e \in 1..(n - 1 + 1)
    BY <1>1, <1>2
  <2>2. SubSeq(SubSeq(b, 1, n), k, e) = SubSeq(b, 1 + k - 1, 1 + e - 1)
    BY <2>1, SubSeqOfSubSeq
  <2> QED BY <1>3, <2>2
<1>5. 1 + (o + 1) - 1 = o + 1 /\ 1 + e - 1 = e
  BY <1>1
<1>6. SubSeq(SubSeq(b, 1, n), o + 1, e) = SubSeq(b, o + 1, e)
  BY <1>4, <1>5
<1> QED
  BY <1>1, <1>6 DEF Total

(* What a length field cuts. *)
LEMMA LengthPrefixedCutIs ==
  ASSUME NEW s, Runnable(s), s.type = "length_prefixed", NEW b \in Seq(Octet),
         NEW c \in Cuts(s, b)
  PROVE  /\ Len(b) >= LengthEnd(s)
         /\ \/ c = Cut(b, Len(b)) /\ Malformed(s, b)
            \/ /\ c = Cut(b, Total(s, b)) /\ ~Malformed(s, b)
               /\ Total(s, b) \in LengthEnd(s)..Len(b)
<1>1. c \in LengthPrefixedCut(s, b)
  BY DEF Cuts
<1>2. PICK l \in Nat, e \in Nat : l = Len(b) /\ e = LengthEnd(s)
  BY LenProperties DEF Runnable, WellTyped, LengthEnd
<1>3. ~(l < e)
  <2>1. CASE l < e
    <3>1. ~Malformed(s, b)
      BY <1>2, <2>1 DEF Malformed
    <3>2. LengthPrefixedCut(s, b) = {}
      BY <1>2, <2>1, <3>1 DEF LengthPrefixedCut
    <3> QED BY <1>1, <3>2
  <2> QED BY <2>1
<1>4. LengthPrefixedCut(s, b) \subseteq
        IF Malformed(s, b) THEN {Cut(b, Len(b))}
        ELSE IF Len(b) >= Total(s, b) THEN {Cut(b, Total(s, b))} ELSE {}
  BY <1>2, <1>3 DEF LengthPrefixedCut
<1>5. CASE Malformed(s, b)
  BY <1>1, <1>2, <1>3, <1>4, <1>5
<1>6. CASE ~Malformed(s, b)
  <2>1. c = Cut(b, Total(s, b)) /\ l >= Total(s, b)
    BY <1>1, <1>2, <1>4, <1>6
  <2>2. Total(s, b) \in Nat
    BY <1>2, <1>3, TotalTyped
  <2>3. ~(Total(s, b) < e)
    BY <1>2, <1>3, <1>6 DEF Malformed
  <2>4. Total(s, b) \in e..l
    BY <2>1, <2>2, <2>3
  <2> QED BY <1>2, <1>3, <1>6, <2>1, <2>4
<1> QED
  BY <1>5, <1>6

(* A frame that is not flushed for its length field is whole. *)
LEMMA CutIsWhole ==
  ASSUME NEW s, Runnable(s), NEW b \in Seq(Octet), NEW c \in Cuts(s, b),
         ~Malformed(s, c.frame)
  PROVE  Whole(s, c.frame)
<1>1. PICK l \in Nat : l = Len(b)
  BY LenProperties
<1>2. c.used \in 1..l /\ c.frame \o Separator(s) = SubSeq(b, 1, c.used)
  BY <1>1, CutTakes
<1>a. CASE s.type = "delimiter"
  <2> DEFINE d == s.delimiter
             w == SubSeq(b, 1, c.used)
  <2>1. PICK p : FirstAt(b, d, p) /\ c.used = p + Len(d) - 1
    BY <1>a, DelimiterCutIs DEF Cuts
  <2>2. d \in Seq(Octet) /\ d # <<>>
    BY <1>a DEF Runnable, WellTyped, Validate
  <2>3. PICK m \in Nat : m = Len(d) /\ m # 0
    BY <2>2, EmptySeq
  <2>4. PICK u \in 1..l : u = c.used
    BY <1>2
  <2>5. /\ p \in 1..(l - m + 1) /\ SubSeq(b, p, p + m - 1) = d
        /\ \A q \in 1..(p - 1) : SubSeq(b, q, q + m - 1) # d
    BY <1>1, <2>1, <2>3 DEF FirstAt
  <2>6. p \in Int /\ p \in 1..u /\ u = p + m - 1
    BY <2>1, <2>3, <2>4, <2>5
  <2>7. u \in 0..Len(b)
    BY <1>1, <2>4
  <2>8. w = SubSeq(b, 1, u) /\ w \in Seq(Octet) /\ Len(w) = u
    BY <2>4, <2>7, PrefixTyped
  <2>9. \A i, j \in 1..u : SubSeq(w, i, j) = SubSeq(b, i, j)
    <3> TAKE i, j \in 1..u
    <3>1. 1 \in 1..Len(b) /\ u \in 1..Len(b) /\ i \in 1..(u - 1 + 1) /\ j \in 1..(u - 1 + 1)
      BY <1>1, <2>4
    <3>2. SubSeq(SubSeq(b, 1, u), i, j) = SubSeq(b, 1 + i - 1, 1 + j - 1)
      BY <3>1, SubSeqOfSubSeq
    <3>3. 1 + i - 1 = i /\ 1 + j - 1 = j
      OBVIOUS
    <3> QED BY <2>8, <3>2, <3>3
  <2> HIDE DEF w
  <2>10. SubSeq(w, p, Len(w)) = d
    <3>1. u \in 1..u
      BY <2>4
    <3>2. SubSeq(w, p, u) = SubSeq(b, p, u)
      BY <2>6, <2>9, <3>1
    <3> QED BY <2>5, <2>6, <2>8, <3>2
  <2>11. IsSuffix(d, w)
    BY <2>6, <2>8, <2>10, SuffixIs
  <2>12. \A q \in 1..(Len(w) - Len(d)) : SubSeq(w, q, q + Len(d) - 1) # d
    <3> TAKE q \in 1..(Len(w) - Len(d))
    <3>1. q \in 1..(p - 1) /\ q \in 1..u /\ q + m - 1 \in 1..u
      BY <2>3, <2>6, <2>8
    <3>2. SubSeq(w, q, q + m - 1) = SubSeq(b, q, q + m - 1)
      BY <2>9, <3>1
    <3>3. SubSeq(b, q, q + m - 1) # d
      BY <2>5, <3>1
    <3> QED BY <2>3, <3>2, <3>3
  <2>13. c.frame \o Separator(s) = w
    BY <1>2 DEF w
  <2> QED BY <1>a, <2>11, <2>12, <2>13 DEF Whole
<1>b. CASE s.type = "fixed"
  <2>1. c = Cut(b, s.length) /\ Len(b) >= s.length
    BY <1>b DEF Cuts, FixedCut
  <2>2. PICK n \in 0..Len(b) : n = s.length
    <3>1. s.length \in Nat
      BY <1>b DEF Runnable, WellTyped
    <3> QED BY <1>1, <2>1, <3>1
  <2>3. c.frame = SubSeq(b, 1, n)
    BY <2>1, <2>2 DEF Cut
  <2>4. Len(c.frame) = n
    BY <2>2, <2>3, PrefixTyped
  <2> QED BY <1>b, <2>2, <2>4 DEF Whole
<1>c. CASE s.type = "length_prefixed"
  <2>1. /\ Len(b) >= LengthEnd(s)
        /\ \/ c = Cut(b, Len(b)) /\ Malformed(s, b)
           \/ /\ c = Cut(b, Total(s, b)) /\ ~Malformed(s, b)
              /\ Total(s, b) \in LengthEnd(s)..Len(b)
    BY <1>c, LengthPrefixedCutIs
  <2>2. ~(c = Cut(b, Len(b)) /\ Malformed(s, b))
    <3>1. SubSeq(b, 1, Len(b)) = b
      BY SubSeqFull
    <3>2. c = Cut(b, Len(b)) => c.frame = b
      BY <3>1 DEF Cut
    <3> QED BY <3>2
  <2>3. PICK e \in Nat : e = LengthEnd(s)
    BY <1>c DEF Runnable, WellTyped, LengthEnd
  <2>4. PICK n \in 0..Len(b) : n = Total(s, b) /\ n >= e
    BY <1>1, <2>1, <2>2, <2>3
  <2>5. c.frame = SubSeq(b, 1, n)
    BY <2>1, <2>2, <2>4 DEF Cut
  <2>6. Len(c.frame) = n
    BY <2>5, PrefixTyped
  <2>7. Total(s, c.frame) = n
    BY <1>c, <2>3, <2>4, <2>5, TotalOfPrefix
  <2> QED BY <1>c, <2>3, <2>4, <2>6, <2>7 DEF Whole
<1>d. CASE s.type = "idle_timeout"
  BY <1>d DEF Cuts
<1> QED
  BY <1>a, <1>b, <1>c, <1>d DEF Runnable, WellTyped

(* Drain's frames are whole, except those flushed for their length field.  *)
THEOREM DrainWhole ==
  ASSUME NEW s, Runnable(s), NEW b \in Seq(Octet)
  PROVE  \A i \in DOMAIN Drain(s, b).frames :
           ~Malformed(s, Drain(s, b).frames[i]) => Whole(s, Drain(s, b).frames[i])
<1> DEFINE P == {f \in Seq(Octet) : ~Malformed(s, f) => Whole(s, f)}
<1>1. \A a \in Seq(Octet) : \A c \in Cuts(s, a) : c.frame \in P
  <2> TAKE a \in Seq(Octet)
  <2> TAKE c \in Cuts(s, a)
  <2>1. c.frame \in Seq(Octet)
    BY CutTakes
  <2>2. ~Malformed(s, c.frame) => Whole(s, c.frame)
    BY CutIsWhole
  <2> QED BY <2>1, <2>2
<1> HIDE DEF P
<1>2. \A i \in DOMAIN Drain(s, b).frames : Drain(s, b).frames[i] \in P
  BY <1>1, DrainFrames
<1> QED
  BY <1>2 DEF P

-----------------------------------------------------------------------------
(* Bytes that arrive later do not change the frames cut so far. *)

(* The cut at the first delimiter is the only one. *)
LEMMA DelimiterCutAt ==
  ASSUME NEW s, Runnable(s), s.type = "delimiter", NEW b \in Seq(Octet),
         NEW p, FirstAt(b, s.delimiter, p)
  PROVE  DelimiterCut(s, b) =
           {[frame |-> SubSeq(b, 1, IF s.include_delimiter
                                    THEN p + Len(s.delimiter) - 1 ELSE p - 1),
             used  |-> p + Len(s.delimiter) - 1]}
<1> DEFINE d == s.delimiter
<1>1. d \in Seq(Octet)
  BY DEF Runnable, WellTyped
<1>2. PICK l \in Nat, m \in Nat : l = Len(b) /\ m = Len(d)
  BY <1>1, LenProperties
<1>3. /\ p \in 1..(l - m + 1) /\ SubSeq(b, p, p + m - 1) = d
      /\ \A q \in 1..(p - 1) : SubSeq(b, q, q + m - 1) # d
  BY <1>2 DEF FirstAt
<1>4. \A q \in 1..(l - m + 1) : SubSeq(b, q, q + m - 1) = d => p <= q
  <2> TAKE q \in 1..(l - m + 1)
  <2>1. ~(p <= q) => q \in 1..(p - 1)
    BY <1>3
  <2> QED BY <1>3, <2>1
<1>5. FindSubslice(b, d) =
        {q \in 1..(l - m + 1) : /\ SubSeq(b, q, q + m - 1) = d
                                /\ \A r \in 1..(l - m + 1) : SubSeq(b, r, r + m - 1) = d => q <= r}
  BY <1>2 DEF FindSubslice
<1>6. \A q \in FindSubslice(b, d) : q \in 1..(l - m + 1) /\ q <= p /\ p <= q
  BY <1>3, <1>4, <1>5
<1>7. \A q \in FindSubslice(b, d) : q = p
  BY <1>3, <1>6
<1>8. p \in FindSubslice(b, d)
  BY <1>3, <1>4, <1>5
<1>9. FindSubslice(b, d) = {p}
  BY <1>7, <1>8
<1> QED
  BY <1>9 DEF DelimiterCut

LEMMA CutLocal ==
  ASSUME NEW s, Runnable(s), NEW x \in Seq(Octet), NEW y \in Seq(Octet),
         Cuts(s, x) # {}, ~Malformed(s, TheCut(s, x).frame)
  PROVE  Cuts(s, x \o y) # {} /\ TheCut(s, x \o y) = TheCut(s, x)
<1> DEFINE z == x \o y
<1> SUFFICES \E c : Cuts(s, x) = {c} /\ Cuts(s, z) = {c}
  BY DEF TheCut
<1>1. PICK lx \in Nat, ly \in Nat : lx = Len(x) /\ ly = Len(y)
  BY LenProperties
<1>2. z \in Seq(Octet) /\ Len(z) = lx + ly
  BY <1>1, ConcatProperties
<1>3. \A i, j \in 1..lx : SubSeq(z, i, j) = SubSeq(x, i, j)
  BY <1>1, SubSeqOfConcat1
<1> HIDE DEF z
<1>a. CASE s.type = "delimiter"
  <2> DEFINE d == s.delimiter
  <2>1. PICK c \in DelimiterCut(s, x) : TRUE
    BY <1>a DEF Cuts
  <2>2. PICK p : FirstAt(x, d, p)
    BY <1>a, <2>1, DelimiterCutIs
  <2>3. d \in Seq(Octet) /\ d # <<>>
    BY <1>a DEF Runnable, WellTyped, Validate
  <2>4. PICK m \in Nat : m = Len(d) /\ m # 0
    BY <2>3, EmptySeq
  <2>5. /\ p \in 1..(lx - m + 1) /\ SubSeq(x, p, p + m - 1) = d
        /\ \A q \in 1..(p - 1) : SubSeq(x, q, q + m - 1) # d
    BY <1>1, <2>2, <2>4 DEF FirstAt
  <2>6. p \in Int /\ p \in 1..lx /\ p + m - 1 \in 1..lx
    BY <2>4, <2>5
  <2>7. FirstAt(z, d, p)
    <3>1. p \in 1..(lx + ly - m + 1)
      BY <2>5
    <3>2. SubSeq(z, p, p + m - 1) = d
      BY <1>3, <2>5, <2>6
    <3>3. \A q \in 1..(p - 1) : SubSeq(z, q, q + m - 1) # d
      <4> TAKE q \in 1..(p - 1)
      <4>1. q \in 1..lx /\ q + m - 1 \in 1..lx
        BY <2>4, <2>6
      <4>2. SubSeq(z, q, q + m - 1) = SubSeq(x, q, q + m - 1)
        BY <1>3, <4>1
      <4> QED BY <2>5, <4>2
    <3>4. p \in 1..(Len(z) - Len(d) + 1)
      BY <1>2, <2>4, <3>1
    <3>5. SubSeq(z, p, p + Len(d) - 1) = d
      BY <2>4, <3>2
    <3>6. \A q \in 1..(p - 1) : SubSeq(z, q, q + Len(d) - 1) # d
      BY <2>4, <3>3
    <3> HIDE DEF d
    <3> QED BY <3>4, <3>5, <3>6 DEF FirstAt
  <2> DEFINE e == IF s.include_delimiter THEN p + Len(d) - 1 ELSE p - 1
  <2>8. /\ DelimiterCut(s, x) = {[frame |-> SubSeq(x, 1, e), used |-> p + Len(d) - 1]}
        /\ DelimiterCut(s, z) = {[frame |-> SubSeq(z, 1, e), used |-> p + Len(d) - 1]}
    BY <1>2, <1>a, <2>2, <2>7, DelimiterCutAt
  <2>9. SubSeq(z, 1, e) = SubSeq(x, 1, e)
    <3>1. e \in 1..lx \/ e = 0
      BY <2>4, <2>6
    <3>2. CASE e \in 1..lx
      <4>1. 1 \in 1..lx
        BY <2>6
      <4> QED BY <1>3, <3>2, <4>1
    <3>3. CASE e = 0
      <4>1. SubSeq(z, 1, 0) = <<>> /\ SubSeq(x, 1, 0) = <<>>
        BY SubSeqEmpty
      <4> QED BY <3>3, <4>1
    <3> QED BY <3>1, <3>2, <3>3
  <2>10. Cuts(s, x) = DelimiterCut(s, x) /\ Cuts(s, z) = DelimiterCut(s, z)
    BY <1>a DEF Cuts
  <2> HIDE DEF e
  <2> QED BY <2>8, <2>9, <2>10
<1>4. ASSUME NEW n \in 1..lx, Cuts(s, x) = {Cut(x, n)}, Cuts(s, z) = {Cut(z, n)}
      PROVE  \E c : Cuts(s, x) = {c} /\ Cuts(s, z) = {c}
  <2>1. 1 \in 1..lx
    BY <1>4
  <2>2. SubSeq(z, 1, n) = SubSeq(x, 1, n)
    BY <1>3, <1>4, <2>1
  <2>3. Cut(z, n) = Cut(x, n)
    BY <2>2 DEF Cut
  <2> QED BY <1>4, <2>3
<1>b. CASE s.type = "fixed"
  <2>1. Cuts(s, x) = FixedCut(s, x) /\ Cuts(s, z) = FixedCut(s, z)
    BY <1>b DEF Cuts
  <2>2. lx >= s.length /\ Cuts(s, x) = {Cut(x, s.length)}
    BY <1>1, <2>1 DEF FixedCut
  <2>3. s.length \in Nat /\ s.length # 0
    BY <1>b DEF Runnable, WellTyped, Validate
  <2>4. s.length \in 1..lx /\ Len(z) >= s.length
    BY <1>2, <2>2, <2>3
  <2>5. Cuts(s, z) = {Cut(z, s.length)}
    BY <2>1, <2>4 DEF FixedCut
  <2> QED BY <1>4, <2>2, <2>4, <2>5
<1>c. CASE s.type = "length_prefixed"
  <2>1. PICK c : c = TheCut(s, x) /\ c \in Cuts(s, x)
    BY DEF TheCut
  <2>2. /\ Len(x) >= LengthEnd(s)
        /\ \/ c = Cut(x, Len(x)) /\ Malformed(s, x)
           \/ /\ c = Cut(x, Total(s, x)) /\ ~Malformed(s, x)
              /\ Total(s, x) \in LengthEnd(s)..Len(x)
    BY <1>c, <2>1, LengthPrefixedCutIs
  <2>3. ~(c = Cut(x, Len(x)) /\ Malformed(s, x))
    <3>1. SubSeq(x, 1, Len(x)) = x
      BY SubSeqFull
    <3>2. c = Cut(x, Len(x)) => c.frame = x
      BY <3>1 DEF Cut
    <3> QED BY <2>1, <3>2
  <2>4. PICK e \in Nat : e = LengthEnd(s) /\ e # 0
    BY <1>c DEF Runnable, WellTyped, Validate, LengthEnd
  <2>5. PICK n \in 1..lx : n = Total(s, x) /\ n >= e
    BY <1>1, <2>2, <2>3, <2>4
  <2>6. Total(s, z) = n
    <3>1. lx \in 0..Len(z) /\ lx >= LengthEnd(s) /\ 1 \in 1..lx /\ lx \in 1..lx
      BY <1>1, <1>2, <2>2, <2>5
    <3>2. SubSeq(z, 1, lx) = x
      BY <1>1, <1>3, <3>1, SubSeqFull
    <3>3. Total(s, SubSeq(z, 1, lx)) = Total(s, z)
      BY <1>2, <1>c, <3>1, TotalOfPrefix
    <3> QED BY <2>5, <3>2, <3>3
  <2>7. ~Malformed(s, x) /\ ~Malformed(s, z)
    <3>1. n # 0 /\ ~(n < e)
      BY <2>4, <2>5
    <3> QED BY <2>4, <2>5, <2>6, <3>1 DEF Malformed
  <2>8. Cuts(s, x) = {Cut(x, n)}
    <3>1. ~(Len(x) < LengthEnd(s)) /\ Len(x) >= n
      BY <1>1, <2>2, <2>4, <2>5
    <3>2. LengthPrefixedCut(s, x) = {Cut(x, n)}
      BY <2>5, <2>7, <3>1 DEF LengthPrefixedCut
    <3> QED BY <1>c, <3>2 DEF Cuts
  <2>9. Cuts(s, z) = {Cut(z, n)}
    <3>1. ~(Len(z) < LengthEnd(s)) /\ Len(z) >= n
      BY <1>1, <1>2, <2>2, <2>4, <2>5
    <3>2. LengthPrefixedCut(s, z) = {Cut(z, n)}
      BY <2>6, <2>7, <3>1 DEF LengthPrefixedCut
    <3> QED BY <1>c, <3>2 DEF Cuts
  <2> QED BY <1>4, <2>8, <2>9
<1>d. CASE s.type = "idle_timeout"
  BY <1>d DEF Cuts
<1> QED
  BY <1>a, <1>b, <1>c, <1>d DEF Runnable, WellTyped

LEMMA RestLocal ==
  ASSUME NEW s, Runnable(s), NEW x \in Seq(Octet), NEW y \in Seq(Octet),
         Cuts(s, x) # {}, ~Malformed(s, TheCut(s, x).frame)
  PROVE  RestOf(s, x \o y) = RestOf(s, x) \o y
<1> DEFINE z == x \o y
<1>1. z \in Seq(Octet) /\ Cuts(s, z) # {} /\ TheCut(s, z) = TheCut(s, x)
  BY CutLocal, ConcatProperties
<1>2. PICK u \in 1..Len(x) : u = TheCut(s, x).used
  BY RestShorter
<1>3. RestOf(s, x) \in Seq(Octet) /\ SubSeq(x, 1, u) \o RestOf(s, x) = x
  BY <1>2, RestShorter
<1>4. RestOf(s, z) \in Seq(Octet) /\ SubSeq(z, 1, u) \o RestOf(s, z) = z
  <2>1. SubSeq(z, 1, TheCut(s, z).used) \o RestOf(s, z) = z /\ RestOf(s, z) \in Seq(Octet)
    BY <1>1, RestShorter
  <2> QED BY <1>1, <1>2, <2>1
<1>5. SubSeq(z, 1, u) = SubSeq(x, 1, u) /\ SubSeq(x, 1, u) \in Seq(Octet)
  <2>1. 1 \in 1..Len(x) /\ u \in 0..Len(x)
    BY <1>2, LenProperties
  <2>2. SubSeq(z, 1, u) = SubSeq(x, 1, u)
    BY <1>2, <2>1, SubSeqOfConcat1
  <2>3. SubSeq(x, 1, u) \in Seq(Octet)
    BY <2>1, PrefixTyped
  <2> QED BY <2>2, <2>3
<1>6. PICK h \in Seq(Octet), r \in Seq(Octet), q \in Seq(Octet) :
        h = SubSeq(x, 1, u) /\ r = RestOf(s, x) /\ q = RestOf(s, z)
  BY <1>3, <1>4, <1>5
<1>7. h \o q = (h \o r) \o y
  BY <1>3, <1>4, <1>5, <1>6
<1>8. h \o q = h \o (r \o y) /\ r \o y \in Seq(Octet)
  <2>1. (h \o r) \o y = h \o (r \o y)
    BY BytesRegroup, Zenon
  <2>2. r \o y \in Seq(Octet)
    BY ConcatProperties
  <2> QED BY <1>7, <2>1, <2>2
<1>9. q = r \o y
  <2>1. \A a, b, c \in Seq(Octet) : a \o b = a \o c => b = c
    BY ConcatSimplifications
  <2> QED BY <1>8, <2>1
<1> QED
  BY <1>6, <1>9

(* Draining more is draining what the first bytes left with the rest.      *)
THEOREM DrainExtend ==
  ASSUME NEW s, Runnable(s), NEW x \in Seq(Octet), NEW y \in Seq(Octet),
         \A i \in DOMAIN Drain(s, x).frames : ~Malformed(s, Drain(s, x).frames[i])
  PROVE  /\ Drain(s, x \o y).frames = Drain(s, x).frames \o Drain(s, Drain(s, x).buf \o y).frames
         /\ Drain(s, x \o y).buf = Drain(s, Drain(s, x).buf \o y).buf
<1> DEFINE Sound(a) == \A i \in DOMAIN Drain(s, a).frames : ~Malformed(s, Drain(s, a).frames[i])
           Extends(a) ==
             /\ Drain(s, a \o y).frames = Drain(s, a).frames \o Drain(s, Drain(s, a).buf \o y).frames
             /\ Drain(s, a \o y).buf = Drain(s, Drain(s, a).buf \o y).buf
           S == {a \in Seq(Octet) : Sound(a) => Extends(a)}
<1>0. \A a \in Seq(Octet) : a \o y \in Seq(Octet)
  BY ConcatProperties
<1>1. ASSUME NEW a \in Seq(Octet), Cuts(s, a) = {} PROVE a \in S
  <2>1. Drain(s, a).frames = <<>> /\ Drain(s, a).buf = a
    BY <1>1, DrainStuck
  <2>2. Drain(s, a \o y).frames \in Seq(Seq(Octet))
    BY <1>0, DrainTyped
  <2>3. <<>> \o Drain(s, a \o y).frames = Drain(s, a \o y).frames
    BY <2>2, ConcatEmptySeq
  <2> QED BY <2>1, <2>3
<1>2. ASSUME NEW a \in Seq(Octet), Cuts(s, a) # {}, RestOf(s, a) \in S PROVE a \in S
  <2> SUFFICES ASSUME Sound(a) PROVE Extends(a)
    OBVIOUS
  <2> DEFINE r == RestOf(s, a)
             f == TheCut(s, a).frame
  <2>1. /\ Drain(s, a).frames = <<f>> \o Drain(s, r).frames
        /\ Drain(s, a).buf = Drain(s, r).buf
    BY <1>2, DrainGoesOn
  <2>2. r \in Seq(Octet) /\ f \in Seq(Octet)
    BY <1>2, RestShorter
  <2>3. Drain(s, r).frames \in Seq(Seq(Octet)) /\ Drain(s, r).buf \in Seq(Octet)
    BY <2>2, DrainTyped
  <2>4. PICK n \in Nat : n = Len(Drain(s, r).frames) /\ DOMAIN Drain(s, r).frames = 1..n
    BY <2>3, LenProperties
  <2>5. /\ Drain(s, a).frames \in Seq(Seq(Octet)) /\ Len(Drain(s, a).frames) = 1 + n
        /\ Drain(s, a).frames[1] = f
        /\ \A i \in 1..n : Drain(s, a).frames[1 + i] = Drain(s, r).frames[i]
    <3>1. <<f>> \in Seq(Seq(Octet)) /\ Len(<<f>>) = 1 /\ <<f>>[1] = f
      BY <2>2
    <3> DEFINE fs == <<f>> \o Drain(s, r).frames
    <3>2. /\ fs \in Seq(Seq(Octet)) /\ Len(fs) = 1 + n
          /\ \A i \in 1..(1 + n) : fs[i] = IF i <= 1 THEN <<f>>[i] ELSE Drain(s, r).frames[i - 1]
      BY <2>3, <2>4, <3>1, ConcatProperties
    <3> HIDE DEF fs
    <3>3. fs[1] = f
      <4>1. 1 \in 1..(1 + n) /\ 1 <= 1
        OBVIOUS
      <4>2. fs[1] = <<f>>[1]
        BY <3>2, <4>1
      <4> QED BY <3>1, <4>2
    <3>4. \A i \in 1..n : 1 + i \in 1..(1 + n) /\ ~(1 + i <= 1) /\ (1 + i) - 1 = i
      OBVIOUS
    <3>5. \A i \in 1..n : fs[1 + i] = Drain(s, r).frames[i]
      BY <3>2, <3>4
    <3>6. Drain(s, a).frames = fs
      BY <2>1 DEF fs
    <3> QED BY <3>2, <3>3, <3>5, <3>6
  <2>6. DOMAIN Drain(s, a).frames = 1..(1 + n)
    BY <2>5, LenProperties
  <2>7. ~Malformed(s, f)
    <3>1. 1 \in 1..(1 + n)
      OBVIOUS
    <3> QED BY <2>5, <2>6, <3>1
  <2>8. Sound(r)
    <3> SUFFICES ASSUME NEW i \in 1..n PROVE ~Malformed(s, Drain(s, r).frames[i])
      BY <2>4
    <3>1. 1 + i \in 1..(1 + n)
      OBVIOUS
    <3>2. ~Malformed(s, Drain(s, a).frames[1 + i])
      BY <2>6, <3>1
    <3> QED BY <2>5, <3>2
  <2>9. Extends(r)
    BY <1>2, <2>8
  <2>10. Cuts(s, a \o y) # {} /\ TheCut(s, a \o y).frame = f /\ RestOf(s, a \o y) = r \o y
    BY <1>2, <2>7, CutLocal, RestLocal
  <2>11. /\ Drain(s, a \o y).frames = <<f>> \o Drain(s, r \o y).frames
         /\ Drain(s, a \o y).buf = Drain(s, r \o y).buf
    <3>1. PICK z \in Seq(Octet) : z = a \o y
      BY <1>0
    <3>2. /\ Drain(s, z).frames = <<TheCut(s, z).frame>> \o Drain(s, RestOf(s, z)).frames
          /\ Drain(s, z).buf = Drain(s, RestOf(s, z)).buf
      BY <2>10, <3>1, DrainGoesOn
    <3> QED BY <2>10, <3>1, <3>2
  <2> DEFINE g == Drain(s, Drain(s, r).buf \o y).frames
  <2>12. Drain(s, a \o y).frames = <<f>> \o (Drain(s, r).frames \o g)
    BY <2>9, <2>11
  <2>13. g \in Seq(Seq(Octet)) /\ <<f>> \in Seq(Seq(Octet))
    <3>1. PICK z \in Seq(Octet) : z = Drain(s, r).buf \o y
      BY <1>0, <2>3
    <3>2. Drain(s, z).frames \in Seq(Seq(Octet))
      BY DrainTyped
    <3>3. <<f>> \in Seq(Seq(Octet))
      BY <2>2
    <3> QED BY <3>1, <3>2, <3>3
  <2>14. <<f>> \o (Drain(s, r).frames \o g) = (<<f>> \o Drain(s, r).frames) \o g
    <3> HIDE DEF g
    <3> QED BY <2>3, <2>13, FramesRegroup, Zenon
  <2>15. Drain(s, a \o y).frames = Drain(s, a).frames \o g
    BY <2>1, <2>12, <2>14
  <2> QED BY <2>1, <2>9, <2>11, <2>15
<1> HIDE DEF S
<1>3. \A a \in Seq(Octet) : a \in S
  BY <1>1, <1>2, DrainInduction
<1> QED
  BY <1>3 DEF S

-----------------------------------------------------------------------------
(* The framer. *)

Specs == {FromConfig(cfg) : cfg \in Configs}

Frames == [frame : Seq(Byte), kind : Kinds, spec : Specs, sep : Seq(Octet)]

LEMMA SpecsRun ==
  ASSUME NEW sp \in Specs
  PROVE  /\ Runnable(sp.strategy)
         /\ sp.max_buffer \in Nat
         /\ sp.strategy.type = "fixed" => sp.strategy.length \in Nat /\ sp.max_buffer >= sp.strategy.length
         /\ sp.idle <=> sp.strategy.type = "idle_timeout"
<1>1. PICK cfg \in Configs : sp = FromConfig(cfg)
  BY DEF Specs
<1>2. sp.strategy = cfg /\ (sp.idle <=> cfg.type = "idle_timeout")
  BY <1>1 DEF FromConfig
<1>3. Runnable(cfg)
  BY FramerAssumption DEF Runnable
<1>4. cfg.type = "fixed" => cfg.length \in Nat
  BY <1>3 DEF Runnable, WellTyped
<1>5. sp.max_buffer = IF cfg.type = "fixed" /\ cfg.length > DEFAULT_MAX_BUFFER
                      THEN cfg.length ELSE DEFAULT_MAX_BUFFER
  BY <1>1 DEF FromConfig
<1> QED
  BY <1>2, <1>3, <1>4, <1>5, FramingAssumption

(* A buffer with no complete frame has no malformed length field, and is   *)
(* shorter than a fixed length.                                            *)
LEMMA StuckIs ==
  ASSUME NEW s, Runnable(s), NEW b \in Seq(Octet), Cuts(s, b) = {}
  PROVE  /\ ~Malformed(s, b)
         /\ s.type = "fixed" => Len(b) < s.length
<1>1. Len(b) \in Nat
  BY LenProperties
<1>2. ASSUME Malformed(s, b) PROVE FALSE
  <2>1. s.type = "length_prefixed" /\ Len(b) >= LengthEnd(s)
    BY <1>2 DEF Malformed
  <2>2. LengthEnd(s) \in Nat
    BY <2>1 DEF Runnable, WellTyped, LengthEnd
  <2>3. ~(Len(b) < LengthEnd(s))
    BY <1>1, <2>1, <2>2
  <2>4. LengthPrefixedCut(s, b) = {Cut(b, Len(b))}
    BY <1>2, <2>3 DEF LengthPrefixedCut
  <2> QED BY <2>1, <2>4 DEF Cuts
<1>3. ASSUME s.type = "fixed" PROVE Len(b) < s.length
  <2>1. s.length \in Nat
    BY <1>3 DEF Runnable, WellTyped
  <2>2. FixedCut(s, b) = {}
    BY <1>3 DEF Cuts
  <2>3. ~(Len(b) >= s.length)
    BY <2>2 DEF FixedCut
  <2> QED BY <1>1, <2>1, <2>3
<1> QED
  BY <1>2, <1>3

-----------------------------------------------------------------------------
(* What a read emits. *)

(* e lists the frames of d, each cut off or flushed for its length field,  *)
(* and after them the bytes left, if there are too many of them.           *)
EmitsDrained(e, d) ==
  /\ \A i \in DOMAIN d.frames :
       /\ e[i].frame = d.frames[i]
       /\ e[i].kind = IF Malformed(spec.strategy, d.frames[i]) THEN "malformed" ELSE "cut"
       /\ e[i].sep = Separator(spec.strategy)
  /\ Overflows(spec, d.buf) =>
       LET last == Len(d.frames) + 1
       IN  Len(e) = last /\ e[last].frame = d.buf /\ e[last].kind = "overflow" /\ e[last].sep = <<>>
  /\ ~Overflows(spec, d.buf) => Len(e) = Len(d.frames)
  /\ \A i \in DOMAIN e : e[i].spec = spec

LEMMA FeedFacts ==
  ASSUME TypeOK, NEW chunk \in Seq(Byte), Feed(chunk)
  PROVE  LET d == Drain(spec.strategy, buf \o chunk)
         IN  /\ \E e \in Seq(Frames) : emitted' = emitted \o e /\ EmitsDrained(e, d)
             /\ buf' = IF Overflows(spec, d.buf) THEN <<>> ELSE d.buf
             /\ stream' = stream \o chunk
             /\ spec' = spec /\ reloads' = reloads
<1> DEFINE s == spec.strategy
           d == Drain(s, buf \o chunk)
           p == Push(spec, buf, chunk)
<1>1. spec \in Specs /\ buf \in Seq(Byte)
  BY DEF TypeOK, Specs
<1>2. Runnable(s) /\ buf \o chunk \in Seq(Byte) /\ Byte \subseteq Octet
  BY <1>1, SpecsRun, FramerAssumption, ConcatProperties
<1>3. d.frames \in Seq(Seq(Byte)) /\ d.buf \in Seq(Byte)
  BY <1>2, DrainTyped
<1>4. \A b \in Seq(Byte) : b \in Seq(Octet)
  BY <1>2, SeqMonotonic
<1>5. Cuts(s, d.buf) = {}
  BY <1>2, <1>4, DrainSettles
<1>6. ~Malformed(s, d.buf)
  BY <1>2, <1>3, <1>4, <1>5, StuckIs
<1>7. PICK n \in Nat : n = Len(d.frames) /\ DOMAIN d.frames = 1..n
  BY <1>3, LenProperties
<1>8. \A i \in 1..n : d.frames[i] \in Seq(Byte)
  BY <1>3, <1>7, ElementOfSeq
<1> DEFINE k == IF Overflows(spec, d.buf) THEN n + 1 ELSE n
<1>9. /\ p.frames \in Seq(Seq(Byte)) /\ DOMAIN p.frames = 1..k
      /\ \A i \in 1..n : p.frames[i] = d.frames[i]
      /\ Overflows(spec, d.buf) => p.frames[n + 1] = d.buf
      /\ p.buf = IF Overflows(spec, d.buf) THEN <<>> ELSE d.buf
  <2>1. CASE Overflows(spec, d.buf)
    <3>1. p = [frames |-> Append(d.frames, d.buf), buf |-> <<>>]
      BY <2>1 DEF Push
    <3> HIDE DEF d
    <3>2. /\ Append(d.frames, d.buf) \in Seq(Seq(Byte))
          /\ Len(Append(d.frames, d.buf)) = n + 1
          /\ Append(d.frames, d.buf)[n + 1] = d.buf
          /\ \A i \in 1..n : Append(d.frames, d.buf)[i] = d.frames[i]
      BY <1>3, <1>7, AppendProperties
    <3>3. DOMAIN Append(d.frames, d.buf) = 1..(n + 1)
      BY <3>2, LenProperties
    <3>4. p.frames = Append(d.frames, d.buf) /\ p.buf = <<>>
      BY <3>1
    <3> HIDE DEF p
    <3> QED BY <2>1, <3>2, <3>3, <3>4
  <2>2. CASE ~Overflows(spec, d.buf)
    <3>1. p = d
      BY <2>2 DEF Push
    <3> HIDE DEF d, p
    <3> QED BY <1>3, <1>7, <2>2, <3>1
  <2> QED BY <2>1, <2>2
<1> DEFINE Kind(i) == CASE i > Len(d.frames) -> "overflow"
                        [] Malformed(s, p.frames[i]) -> "malformed"
                        [] OTHER -> "cut"
           e == [i \in DOMAIN p.frames |-> Emit(p.frames[i], Kind(i))]
<1>10. /\ emitted' = emitted \o e
       /\ buf' = p.buf /\ stream' = stream \o chunk
       /\ spec' = spec /\ reloads' = reloads
  BY DEF Feed, Fed
<1>11. \A i \in 1..n :
         Kind(i) = IF Malformed(s, d.frames[i]) THEN "malformed" ELSE "cut"
  <2> TAKE i \in 1..n
  <2>1. ~(i > Len(d.frames)) /\ p.frames[i] = d.frames[i]
    BY <1>7, <1>9
  <2> HIDE DEF d, p
  <2> QED BY <2>1
<1>12. Overflows(spec, d.buf) => Kind(n + 1) = "overflow"
  <2> SUFFICES ASSUME Overflows(spec, d.buf) PROVE Kind(n + 1) = "overflow"
    OBVIOUS
  <2>1. n + 1 > Len(d.frames) /\ ~Malformed(s, p.frames[n + 1])
    BY <1>6, <1>7, <1>9
  <2> HIDE DEF d, p
  <2> QED BY <2>1
<1> HIDE DEF d, p, Kind
<1>13. \A i \in 1..k : p.frames[i] \in Seq(Byte)
  <2>1. Len(p.frames) = k
    BY <1>9, LenProperties
  <2> QED BY <1>9, <2>1, ElementOfSeq
<1>14. \A i \in 1..k : Kind(i) \in Kinds
  <2> TAKE i \in 1..k
  <2>1. CASE i \in 1..n
    BY <1>11, <2>1 DEF Kinds
  <2>2. CASE i \notin 1..n
    <3>1. Overflows(spec, d.buf) /\ i = n + 1
      BY <2>2
    <3> QED BY <1>12, <3>1 DEF Kinds
  <2> QED BY <2>1, <2>2
<1>15. Separator(s) \in Seq(Octet) /\ <<>> \in Seq(Octet)
  BY <1>2, SeparatorTyped, EmptySeq
<1>16. \A i \in 1..k : e[i] = Emit(p.frames[i], Kind(i)) /\ e[i] \in Frames
  <2> TAKE i \in 1..k
  <2>1. e[i] = Emit(p.frames[i], Kind(i))
    BY <1>9
  <2>2. Emit(p.frames[i], Kind(i)) \in Frames
    BY <1>1, <1>13, <1>14, <1>15 DEF Emit, Frames
  <2> QED BY <2>1, <2>2
<1>17. e \in Seq(Frames) /\ DOMAIN e = 1..k /\ Len(e) = k
  <2>1. e = [i \in 1..k |-> e[i]]
    BY <1>9
  <2> HIDE DEF e
  <2>2. e \in [1..k -> Frames]
    BY <1>16, <2>1
  <2>3. k \in Nat
    OBVIOUS
  <2>4. e \in Seq(Frames) /\ DOMAIN e = 1..k
    BY <2>2, <2>3, SeqDef
  <2> QED BY <2>3, <2>4, LenProperties
<1>18. \A f, kind : /\ Emit(f, kind).frame = f /\ Emit(f, kind).kind = kind
                    /\ Emit(f, kind).spec = spec
                    /\ Emit(f, kind).sep = IF kind = "cut" THEN Separator(s) ELSE <<>>
  BY DEF Emit
<1> HIDE DEF e
<1>19. \A i \in 1..n : Malformed(s, d.frames[i]) => Separator(s) = <<>>
  BY DEF Malformed, Separator
<1>20. EmitsDrained(e, d)
  <2>1. \A i \in 1..n :
          /\ e[i].frame = d.frames[i]
          /\ e[i].kind = IF Malformed(s, d.frames[i]) THEN "malformed" ELSE "cut"
          /\ e[i].sep = Separator(s)
    <3> TAKE i \in 1..n
    <3>1. i \in 1..k
      OBVIOUS
    <3>2. e[i] = Emit(d.frames[i], Kind(i))
      BY <1>9, <1>16, <3>1
    <3> QED BY <1>11, <1>18, <1>19, <3>2
  <2>2. ASSUME Overflows(spec, d.buf)
        PROVE  /\ Len(e) = n + 1 /\ e[n + 1].frame = d.buf
               /\ e[n + 1].kind = "overflow" /\ e[n + 1].sep = <<>>
    <3>1. k = n + 1 /\ n + 1 \in 1..k
      BY <2>2
    <3>2. e[n + 1] = Emit(d.buf, "overflow")
      BY <1>9, <1>12, <1>16, <2>2, <3>1
    <3> QED BY <1>17, <1>18, <3>1, <3>2
  <2>3. ~Overflows(spec, d.buf) => Len(e) = n
    BY <1>17
  <2>4. \A i \in 1..k : e[i].spec = spec
    BY <1>16, <1>18
  <2> QED BY <1>7, <1>17, <2>1, <2>2, <2>3, <2>4 DEF EmitsDrained
<1> QED
  BY <1>9, <1>10, <1>17, <1>20 DEF d, p

(* What a quiet gap emits: the whole buffer, or nothing. *)
LEMMA QuietFacts ==
  ASSUME TypeOK, Quiet
  PROVE  /\ UNCHANGED <<spec, stream, reloads>>
         /\ spec.strategy.type = "idle_timeout"
         /\ \/ UNCHANGED <<buf, emitted>>
            \/ /\ Emit(buf, "quiet") \in Frames
               /\ emitted' = emitted \o <<Emit(buf, "quiet")>> /\ buf' = <<>>
<1>1. spec \in Specs /\ buf \in Seq(Byte) /\ emitted \in Seq(Frames)
  BY DEF TypeOK, Specs, Frames
<1>2. UNCHANGED <<spec, stream, reloads>> /\ spec.strategy.type = "idle_timeout"
  BY <1>1, SpecsRun DEF Quiet
<1>3. Emit(buf, "quiet") \in Frames
  <2>1. <<>> \in Seq(Octet) /\ "quiet" \in Kinds /\ "quiet" # "cut"
    BY EmptySeq DEF Kinds
  <2> QED BY <1>1, <2>1 DEF Emit, Frames
<1> DEFINE f == OnIdle(spec, buf)
<1>4. /\ buf' = f.buf
      /\ emitted' = emitted \o [i \in DOMAIN f.frames |-> Emit(f.frames[i], "quiet")]
  BY DEF Quiet, Flushed
<1>5. CASE buf # <<>>
  <2>1. f = [frames |-> <<buf>>, buf |-> <<>>]
    BY <1>2, <1>5 DEF OnIdle
  <2>2. f.frames = <<buf>> /\ f.buf = <<>>
    BY <2>1
  <2>3. [i \in DOMAIN f.frames |-> Emit(f.frames[i], "quiet")] = <<Emit(buf, "quiet")>>
    BY <2>2
  <2> QED BY <1>2, <1>3, <1>4, <2>2, <2>3
<1>6. CASE buf = <<>>
  <2>1. f = [frames |-> <<>>, buf |-> buf]
    BY <1>6 DEF OnIdle
  <2>2. f.frames = <<>> /\ f.buf = buf
    BY <2>1
  <2>3. [i \in DOMAIN f.frames |-> Emit(f.frames[i], "quiet")] = <<>>
    BY <2>2
  <2>4. emitted' = emitted
    BY <1>1, <1>4, <2>3, ConcatEmptySeq
  <2> QED BY <1>2, <1>4, <2>2, <2>4
<1> QED
  BY <1>5, <1>6

-----------------------------------------------------------------------------
(* Reading off a sequence of frames. *)

(* The bytes of the stream that each frame stands for, and the frames.     *)
Spelled(e) == [i \in DOMAIN e |-> e[i].frame \o e[i].sep]

Framed(e) == [i \in DOMAIN e |-> e[i].frame]

LEMMA ReadOff ==
  ASSUME NEW e \in Seq(Frames)
  PROVE  /\ Spelled(e) \in Seq(Seq(Octet)) /\ Len(Spelled(e)) = Len(e)
         /\ Framed(e) \in Seq(Seq(Octet)) /\ Len(Framed(e)) = Len(e)
         /\ \A i \in 1..Len(e) : /\ Spelled(e)[i] = e[i].frame \o e[i].sep
                                 /\ Framed(e)[i] = e[i].frame
<1>1. PICK n \in Nat : n = Len(e) /\ DOMAIN e = 1..n
  BY LenProperties
<1>2. \A i \in 1..n : e[i] \in Frames
  BY <1>1, ElementOfSeq
<1>3. \A r \in Frames : r.frame \in Seq(Octet) /\ r.sep \in Seq(Octet)
  BY FramerAssumption, SeqMonotonic DEF Frames
<1>4. \A r \in Frames : r.frame \o r.sep \in Seq(Octet)
  BY <1>3, ConcatProperties
<1>5. /\ Spelled(e) = [i \in 1..n |-> e[i].frame \o e[i].sep]
      /\ Framed(e) = [i \in 1..n |-> e[i].frame]
  BY <1>1 DEF Spelled, Framed
<1>6. Spelled(e) \in [1..n -> Seq(Octet)] /\ Framed(e) \in [1..n -> Seq(Octet)]
  BY <1>2, <1>3, <1>4, <1>5
<1>7. /\ Spelled(e) \in Seq(Seq(Octet)) /\ DOMAIN Spelled(e) = 1..n
      /\ Framed(e) \in Seq(Seq(Octet)) /\ DOMAIN Framed(e) = 1..n
  BY <1>6, SeqDef
<1>8. Len(Spelled(e)) = n /\ Len(Framed(e)) = n
  BY <1>7, LenProperties
<1> QED
  BY <1>1, <1>5, <1>7, <1>8

LEMMA ReadOffConcat ==
  ASSUME NEW a \in Seq(Frames), NEW b \in Seq(Frames)
  PROVE  /\ Spelled(a \o b) = Spelled(a) \o Spelled(b)
         /\ Framed(a \o b) = Framed(a) \o Framed(b)
<1>1. PICK n \in Nat, m \in Nat : n = Len(a) /\ m = Len(b)
  BY LenProperties
<1> DEFINE c == a \o b
           sp == Spelled(a) \o Spelled(b)
           fr == Framed(a) \o Framed(b)
<1>2. /\ c \in Seq(Frames) /\ Len(c) = n + m
      /\ \A i \in 1..(n + m) : c[i] = IF i <= n THEN a[i] ELSE b[i - n]
  BY <1>1, ConcatProperties
<1> HIDE DEF c
<1>3. /\ Spelled(c) \in Seq(Seq(Octet)) /\ Len(Spelled(c)) = n + m
      /\ Framed(c) \in Seq(Seq(Octet)) /\ Len(Framed(c)) = n + m
      /\ \A i \in 1..(n + m) : Spelled(c)[i] = c[i].frame \o c[i].sep /\ Framed(c)[i] = c[i].frame
  BY <1>2, ReadOff
<1>4. /\ Spelled(a) \in Seq(Seq(Octet)) /\ Len(Spelled(a)) = n
      /\ Framed(a) \in Seq(Seq(Octet)) /\ Len(Framed(a)) = n
      /\ \A i \in 1..n : Spelled(a)[i] = a[i].frame \o a[i].sep /\ Framed(a)[i] = a[i].frame
  BY <1>1, ReadOff
<1>5. /\ Spelled(b) \in Seq(Seq(Octet)) /\ Len(Spelled(b)) = m
      /\ Framed(b) \in Seq(Seq(Octet)) /\ Len(Framed(b)) = m
      /\ \A i \in 1..m : Spelled(b)[i] = b[i].frame \o b[i].sep /\ Framed(b)[i] = b[i].frame
  BY <1>1, ReadOff
<1>6. /\ sp \in Seq(Seq(Octet)) /\ Len(sp) = n + m
      /\ \A i \in 1..(n + m) : sp[i] = IF i <= n THEN Spelled(a)[i] ELSE Spelled(b)[i - n]
  <2>1. PICK x \in Seq(Seq(Octet)), y \in Seq(Seq(Octet)) : x = Spelled(a) /\ y = Spelled(b)
    BY <1>4, <1>5
  <2>2. /\ x \o y \in Seq(Seq(Octet)) /\ Len(x \o y) = Len(x) + Len(y)
        /\ \A i \in 1..(Len(x) + Len(y)) : (x \o y)[i] = IF i <= Len(x) THEN x[i] ELSE y[i - Len(x)]
    BY ConcatProperties
  <2> QED BY <1>4, <1>5, <2>1, <2>2
<1>7. /\ fr \in Seq(Seq(Octet)) /\ Len(fr) = n + m
      /\ \A i \in 1..(n + m) : fr[i] = IF i <= n THEN Framed(a)[i] ELSE Framed(b)[i - n]
  <2>1. PICK x \in Seq(Seq(Octet)), y \in Seq(Seq(Octet)) : x = Framed(a) /\ y = Framed(b)
    BY <1>4, <1>5
  <2>2. /\ x \o y \in Seq(Seq(Octet)) /\ Len(x \o y) = Len(x) + Len(y)
        /\ \A i \in 1..(Len(x) + Len(y)) : (x \o y)[i] = IF i <= Len(x) THEN x[i] ELSE y[i - Len(x)]
    BY ConcatProperties
  <2> QED BY <1>4, <1>5, <2>1, <2>2
<1> HIDE DEF sp, fr
<1>8. \A i \in 1..(n + m) : Spelled(c)[i] = sp[i] /\ Framed(c)[i] = fr[i]
  <2> TAKE i \in 1..(n + m)
  <2>1. CASE i <= n
    <3>1. i \in 1..n
      BY <2>1
    <3>2. c[i] = a[i] /\ sp[i] = Spelled(a)[i] /\ fr[i] = Framed(a)[i]
      BY <1>2, <1>6, <1>7, <2>1
    <3> QED BY <1>3, <1>4, <3>1, <3>2
  <2>2. CASE ~(i <= n)
    <3>1. i - n \in 1..m
      BY <2>2
    <3>2. c[i] = b[i - n] /\ sp[i] = Spelled(b)[i - n] /\ fr[i] = Framed(b)[i - n]
      BY <1>2, <1>6, <1>7, <2>2
    <3> QED BY <1>3, <1>5, <3>1, <3>2
  <2> QED BY <2>1, <2>2
<1>9. Spelled(c) = sp
  BY <1>3, <1>6, <1>8, SeqEqual
<1>10. Framed(c) = fr
  BY <1>3, <1>7, <1>8, SeqEqual
<1> QED
  BY <1>9, <1>10 DEF c, sp, fr

(* What a read or a quiet gap emits for these frames. *)
LEMMA FedTyped ==
  ASSUME spec \in Specs, NEW q \in Seq(Seq(Byte)), NEW c
  PROVE  /\ Fed(q, c) \in Seq(Frames) /\ Framed(Fed(q, c)) = q
         /\ Flushed(q) \in Seq(Frames) /\ Framed(Flushed(q)) = q
<1>1. PICK n \in Nat : n = Len(q) /\ DOMAIN q = 1..n
  BY LenProperties
<1>2. \A i \in 1..n : q[i] \in Seq(Byte)
  BY <1>1, ElementOfSeq
<1>3. q = [i \in 1..n |-> q[i]]
  BY <1>1
<1>4. Separator(spec.strategy) \in Seq(Octet) /\ <<>> \in Seq(Octet)
  BY SpecsRun, SeparatorTyped, EmptySeq
<1>5. \A f \in Seq(Byte), k \in Kinds : Emit(f, k) \in Frames /\ Emit(f, k).frame = f
  BY <1>4 DEF Emit, Frames
<1> DEFINE cut == Len(Drain(spec.strategy, buf \o c).frames)
           K(i) == CASE i > cut -> "overflow"
                     [] Malformed(spec.strategy, q[i]) -> "malformed"
                     [] OTHER -> "cut"
<1>6. \A i : K(i) \in Kinds /\ "quiet" \in Kinds
  BY DEF Kinds
<1>7. Fed(q, c) = [i \in 1..n |-> Emit(q[i], K(i))]
  BY <1>1 DEF Fed
<1>8. Flushed(q) = [i \in 1..n |-> Emit(q[i], "quiet")]
  BY <1>1 DEF Flushed
<1> HIDE DEF K
<1>9. Fed(q, c) \in [1..n -> Frames] /\ Flushed(q) \in [1..n -> Frames]
  BY <1>2, <1>5, <1>6, <1>7, <1>8
<1>10. \A i \in 1..n : Fed(q, c)[i].frame = q[i] /\ Flushed(q)[i].frame = q[i]
  BY <1>2, <1>5, <1>6, <1>7, <1>8
<1>11. /\ Framed(Fed(q, c)) = [i \in 1..n |-> Fed(q, c)[i].frame]
       /\ Framed(Flushed(q)) = [i \in 1..n |-> Flushed(q)[i].frame]
  BY <1>9 DEF Framed
<1>12. Framed(Fed(q, c)) = q /\ Framed(Flushed(q)) = q
  BY <1>3, <1>10, <1>11
<1> QED
  BY <1>9, <1>12, SeqDef

-----------------------------------------------------------------------------
(* What one read emits spells the buffer and the chunk, and is good. *)

LEMMA FeedSpells ==
  ASSUME TypeOK, NEW chunk \in Seq(Byte), NEW d, d = Drain(spec.strategy, buf \o chunk),
         NEW e \in Seq(Frames), EmitsDrained(e, d)
  PROVE  FlattenSeq(Spelled(e)) \o (IF Overflows(spec, d.buf) THEN <<>> ELSE d.buf) = buf \o chunk
<1> DEFINE s == spec.strategy
           sep == Separator(s)
<1>1. spec \in Specs /\ buf \in Seq(Byte)
  BY DEF TypeOK, Specs
<1>2. Runnable(s) /\ buf \o chunk \in Seq(Byte) /\ Byte \subseteq Octet
  BY <1>1, SpecsRun, FramerAssumption, ConcatProperties
<1>3. \A b \in Seq(Byte) : b \in Seq(Octet)
  BY <1>2, SeqMonotonic
<1>4. d.frames \in Seq(Seq(Octet)) /\ d.buf \in Seq(Octet)
  BY <1>2, <1>3, DrainTyped
<1>5. sep \in Seq(Octet) /\ <<>> \in Seq(Octet)
  BY <1>2, SeparatorTyped, EmptySeq
<1>6. PICK w \in Seq(Seq(Octet)) : w = With(d.frames, sep)
  BY <1>4, <1>5, WithTyped
<1>7. PICK n \in Nat : n = Len(d.frames) /\ DOMAIN d.frames = 1..n
  BY <1>4, LenProperties
<1>8. Len(w) = n /\ \A i \in 1..n : w[i] = d.frames[i] \o sep
  BY <1>4, <1>5, <1>6, <1>7, WithTyped
<1>9. FlattenSeq(w) \o d.buf = buf \o chunk
  BY <1>2, <1>3, <1>6, DrainConserves
<1> HIDE DEF sep
<1>10. /\ Spelled(e) \in Seq(Seq(Octet)) /\ Len(Spelled(e)) = Len(e)
       /\ \A i \in 1..Len(e) : Spelled(e)[i] = e[i].frame \o e[i].sep
  BY ReadOff
<1>11. \A i \in 1..n : e[i].frame = d.frames[i] /\ e[i].sep = sep
  BY <1>7 DEF EmitsDrained, sep
<1>12. CASE Overflows(spec, d.buf)
  <2>1. Len(e) = n + 1 /\ e[n + 1].frame = d.buf /\ e[n + 1].sep = <<>>
    BY <1>7, <1>12 DEF EmitsDrained
  <2>2. PICK v \in Seq(Seq(Octet)) : v = Append(w, d.buf)
    BY <1>4, AppendProperties
  <2>3. /\ Len(v) = n + 1 /\ v[n + 1] = d.buf
        /\ \A i \in 1..n : v[i] = w[i]
    <3>1. PICK x \in Seq(Octet) : x = d.buf
      BY <1>4
    <3>2. /\ Len(Append(w, x)) = Len(w) + 1 /\ Append(w, x)[Len(w) + 1] = x
          /\ \A i \in 1..Len(w) : Append(w, x)[i] = w[i]
      BY AppendProperties
    <3> QED BY <1>8, <2>2, <3>1, <3>2
  <2>4. \A i \in 1..(n + 1) : Spelled(e)[i] = v[i]
    <3> TAKE i \in 1..(n + 1)
    <3>1. CASE i = n + 1
      <4>1. Spelled(e)[i] = d.buf \o <<>>
        BY <1>10, <2>1, <3>1
      <4> QED BY <1>4, <2>3, <3>1, <4>1, ConcatEmptySeq
    <3>2. CASE i # n + 1
      <4>1. i \in 1..n
        BY <3>2
      <4>2. Spelled(e)[i] = e[i].frame \o e[i].sep
        BY <1>10, <2>1
      <4> QED BY <1>8, <1>11, <2>3, <4>1, <4>2
    <3> QED BY <3>1, <3>2
  <2>5. Spelled(e) = v
    BY <1>10, <2>1, <2>3, <2>4, SeqEqual
  <2>6. FlattenSeq(v) = FlattenSeq(w) \o d.buf
    BY <1>4, <2>2, FlattenAppend
  <2>7. FlattenSeq(v) \in Seq(Octet)
    BY FlattenTyped
  <2>8. FlattenSeq(v) \o <<>> = FlattenSeq(v)
    BY <2>7, ConcatEmptySeq
  <2> QED BY <1>9, <1>12, <2>5, <2>6, <2>8
<1>13. CASE ~Overflows(spec, d.buf)
  <2>1. Len(e) = n
    BY <1>7, <1>13 DEF EmitsDrained
  <2>2. \A i \in 1..n : Spelled(e)[i] = w[i]
    BY <1>8, <1>10, <1>11, <2>1
  <2>3. Spelled(e) = w
    BY <1>8, <1>10, <2>1, <2>2, SeqEqual
  <2> QED BY <1>9, <1>13, <2>3
<1> QED
  BY <1>12, <1>13

(* What CutFramesAreWhole and OverflowIsUnframed ask of every frame.       *)
Good ==
  {r \in Frames :
     /\ r.kind = "cut" => /\ r.sep = Separator(r.spec.strategy)
                          /\ Whole(r.spec.strategy, r.frame)
     /\ r.kind = "overflow" => /\ Cuts(r.spec.strategy, r.frame) = {}
                               /\ r.spec.strategy.type # "fixed"}

LEMMA FeedGood ==
  ASSUME TypeOK, NEW chunk \in Seq(Byte), NEW d, d = Drain(spec.strategy, buf \o chunk),
         NEW e \in Seq(Frames), EmitsDrained(e, d)
  PROVE  e \in Seq(Good)
<1> DEFINE s == spec.strategy
<1>1. spec \in Specs /\ buf \in Seq(Byte)
  BY DEF TypeOK, Specs
<1>2. Runnable(s) /\ buf \o chunk \in Seq(Byte) /\ Byte \subseteq Octet
  BY <1>1, SpecsRun, FramerAssumption, ConcatProperties
<1>3. \A b \in Seq(Byte) : b \in Seq(Octet)
  BY <1>2, SeqMonotonic
<1>4. d.frames \in Seq(Seq(Octet)) /\ d.buf \in Seq(Octet)
  BY <1>2, <1>3, DrainTyped
<1>5. PICK n \in Nat : n = Len(d.frames) /\ DOMAIN d.frames = 1..n
  BY <1>4, LenProperties
<1>6. PICK k \in Nat : k = Len(e) /\ DOMAIN e = 1..k
  BY LenProperties
<1>7. \A i \in 1..n : ~Malformed(s, d.frames[i]) => Whole(s, d.frames[i])
  BY <1>2, <1>3, <1>5, DrainWhole
<1>8. Cuts(s, d.buf) = {}
  BY <1>2, <1>3, DrainSettles
<1>9. Overflows(spec, d.buf) => s.type # "fixed"
  <2> SUFFICES ASSUME s.type = "fixed", Overflows(spec, d.buf) PROVE FALSE
    OBVIOUS
  <2>1. Len(d.buf) < s.length
    BY <1>2, <1>4, <1>8, StuckIs
  <2>2. s.length \in Nat /\ spec.max_buffer \in Nat /\ spec.max_buffer >= s.length
    BY <1>1, SpecsRun
  <2>3. Len(d.buf) > spec.max_buffer
    BY DEF Overflows
  <2>4. Len(d.buf) \in Nat
    BY <1>4, LenProperties
  <2> QED BY <2>1, <2>2, <2>3, <2>4
<1>10. \A i \in 1..k : e[i] \in Frames /\ e[i].spec = spec
  BY <1>6, ElementOfSeq DEF EmitsDrained
<1>11. \A i \in 1..k : e[i] \in Good
  <2> TAKE i \in 1..k
  <2>1. CASE i \in 1..n
    <3>1. /\ e[i].frame = d.frames[i]
          /\ e[i].kind = IF Malformed(s, d.frames[i]) THEN "malformed" ELSE "cut"
          /\ e[i].sep = Separator(s)
      BY <1>5, <2>1 DEF EmitsDrained
    <3> QED BY <1>7, <1>10, <2>1, <3>1 DEF Good
  <2>2. CASE i \notin 1..n
    <3>1. Overflows(spec, d.buf) /\ i = n + 1
      <4>1. ~Overflows(spec, d.buf) => k = n
        BY <1>5, <1>6 DEF EmitsDrained
      <4>2. Overflows(spec, d.buf) => k = n + 1
        BY <1>5, <1>6 DEF EmitsDrained
      <4> QED BY <2>2, <4>1, <4>2
    <3>2. e[i].frame = d.buf /\ e[i].kind = "overflow"
      BY <1>5, <3>1 DEF EmitsDrained
    <3> QED BY <1>8, <1>9, <1>10, <3>1, <3>2 DEF Good
  <2> QED BY <2>1, <2>2
<1>12. e \in [1..k -> Good]
  <2>1. e = [i \in 1..k |-> e[i]]
    BY <1>6, LenProperties
  <2> QED BY <1>11, <2>1
<1> QED
  BY <1>12, SeqDef

-----------------------------------------------------------------------------
(* The invariant. *)

(* ChunkingInvisible, and that nothing was flushed for its length field.   *)
UnflushedIsDrained ==
  (reloads = 0 /\ \A i \in DOMAIN emitted : emitted[i].kind = "cut") =>
    /\ buf = Drain(spec.strategy, stream).buf
    /\ Framed(emitted) = Drain(spec.strategy, stream).frames
    /\ \A i \in DOMAIN emitted : ~Malformed(spec.strategy, emitted[i].frame)

FramerInv ==
  /\ TypeOK
  /\ emitted \in Seq(Good)
  /\ BytesConserved
  /\ UnflushedIsDrained

LEMMA InitEstablishes == Init => FramerInv
<1> SUFFICES ASSUME Init PROVE FramerInv
  OBVIOUS
<1>1. spec \in Specs /\ buf = <<>> /\ stream = <<>> /\ emitted = <<>> /\ reloads = 0
  BY DEF Init, Specs
<1>2. TypeOK
  BY <1>1, FramerAssumption, EmptySeq DEF TypeOK, Specs
<1>3. emitted \in Seq(Good)
  BY <1>1, EmptySeq
<1>4. emitted \in Seq(Frames) /\ Len(emitted) = 0
  BY <1>1, EmptySeq
<1>5. Spelled(emitted) = <<>> /\ Framed(emitted) = <<>>
  BY <1>4, ReadOff, EmptySeq
<1>6. BytesConserved
  <2>1. <<>> \o <<>> = <<>>
    BY EmptySeq, ConcatEmptySeq
  <2> QED BY <1>1, <1>5, <2>1, FlattenEmpty DEF BytesConserved, Spelled
<1>7. UnflushedIsDrained
  <2> DEFINE s == spec.strategy
  <2>1. Runnable(s)
    BY <1>1, SpecsRun
  <2>2. <<>> \in Seq(Octet)
    BY EmptySeq
  <2>3. Cuts(s, <<>>) = {}
    <3>1. ASSUME NEW c \in Cuts(s, <<>>) PROVE FALSE
      <4>1. TheCut(s, <<>>).used \in 1..Len(<<>>)
        BY <2>1, <2>2, <3>1, RestShorter
      <4> QED BY <4>1, EmptySeq
    <3> QED BY <3>1
  <2>4. Drain(s, <<>>).frames = <<>> /\ Drain(s, <<>>).buf = <<>>
    BY <2>1, <2>2, <2>3, DrainStuck
  <2>5. DOMAIN emitted = {}
    <3>1. DOMAIN emitted = 1..0
      BY <1>4, LenProperties
    <3> QED BY <3>1
  <2> QED BY <1>1, <1>5, <2>4, <2>5 DEF UnflushedIsDrained
<1> QED
  BY <1>2, <1>3, <1>6, <1>7 DEF FramerInv

(* Entries of the frames so far, and of those a step adds. *)
LEMMA Entries ==
  ASSUME NEW a \in Seq(Frames), NEW b \in Seq(Frames)
  PROVE  /\ \A i \in DOMAIN a : i \in DOMAIN (a \o b) /\ (a \o b)[i] = a[i]
         /\ \A i \in DOMAIN b : \E j \in DOMAIN (a \o b) : (a \o b)[j] = b[i]
         /\ \A j \in DOMAIN (a \o b) : \/ j \in DOMAIN a /\ (a \o b)[j] = a[j]
                                       \/ \E i \in DOMAIN b : (a \o b)[j] = b[i]
<1>1. PICK n \in Nat, m \in Nat : /\ n = Len(a) /\ DOMAIN a = 1..n
                                  /\ m = Len(b) /\ DOMAIN b = 1..m
  BY LenProperties
<1> DEFINE c == a \o b
<1>2. /\ c \in Seq(Frames) /\ Len(c) = n + m
      /\ \A i \in 1..(n + m) : c[i] = IF i <= n THEN a[i] ELSE b[i - n]
  BY <1>1, ConcatProperties
<1> HIDE DEF c
<1>3. DOMAIN c = 1..(n + m)
  BY <1>2, LenProperties
<1>4. \A i \in 1..n : i \in 1..(n + m) /\ c[i] = a[i]
  BY <1>2
<1>5. \A i \in 1..m : n + i \in 1..(n + m) /\ c[n + i] = b[i]
  <2> TAKE i \in 1..m
  <2>1. n + i \in 1..(n + m) /\ ~(n + i <= n) /\ (n + i) - n = i
    OBVIOUS
  <2> QED BY <1>2, <2>1
<1>6. \A j \in 1..(n + m) : (j \in 1..n /\ c[j] = a[j]) \/ (\E i \in 1..m : c[j] = b[i])
  <2> TAKE j \in 1..(n + m)
  <2>1. j <= n => j \in 1..n /\ c[j] = a[j]
    BY <1>2
  <2>2. ~(j <= n) => j - n \in 1..m /\ c[j] = b[j - n]
    BY <1>2
  <2> QED BY <2>1, <2>2
<1> QED
  BY <1>1, <1>3, <1>4, <1>5, <1>6 DEF c

LEMMA FeedPreserves ==
  ASSUME FramerInv, NEW chunk \in Seq(Byte), Feed(chunk)
  PROVE  FramerInv'
<1> DEFINE s == spec.strategy
           d == Drain(s, buf \o chunk)
<1>1. TypeOK /\ spec \in Specs /\ buf \in Seq(Byte) /\ stream \in Seq(Byte) /\ emitted \in Seq(Frames)
  BY DEF FramerInv, TypeOK, Specs, Frames
<1>2. /\ Runnable(s) /\ buf \o chunk \in Seq(Byte) /\ Byte \subseteq Octet
      /\ stream \o chunk \in Seq(Byte)
  BY <1>1, SpecsRun, FramerAssumption, ConcatProperties
<1>3. \A b \in Seq(Byte) : b \in Seq(Octet)
  BY <1>2, SeqMonotonic
<1>4. d.frames \in Seq(Seq(Byte)) /\ d.buf \in Seq(Byte)
  BY <1>2, DrainTyped
<1>5. PICK e \in Seq(Frames) : emitted' = emitted \o e /\ EmitsDrained(e, d)
  BY <1>1, FeedFacts
<1>6. /\ buf' = IF Overflows(spec, d.buf) THEN <<>> ELSE d.buf
      /\ stream' = stream \o chunk
      /\ spec' = spec /\ reloads' = reloads
  BY <1>1, FeedFacts
<1>7. FlattenSeq(Spelled(e)) \o buf' = buf \o chunk
  BY <1>1, <1>5, <1>6, FeedSpells
<1>8. e \in Seq(Good)
  BY <1>1, <1>5, FeedGood
<1> HIDE DEF d
<1>9. emitted' \in Seq(Frames)
  BY <1>1, <1>5, ConcatProperties
<1>10. buf' \in Seq(Byte)
  BY <1>4, <1>6, EmptySeq
<1>11. TypeOK'
  <2>1. reloads' \in 0..MaxReloads
    BY <1>6 DEF FramerInv, TypeOK
  <2> QED BY <1>1, <1>2, <1>6, <1>9, <1>10, <2>1 DEF TypeOK, Specs, Frames
<1>12. (emitted \in Seq(Good))'
  BY <1>5, <1>8, ConcatProperties DEF FramerInv
<1>13. BytesConserved'
  <2>1. FlattenSeq(Spelled(emitted)) \o buf = stream
    BY DEF FramerInv, BytesConserved, Spelled
  <2>2. Spelled(emitted') = Spelled(emitted) \o Spelled(e)
    BY <1>1, <1>5, ReadOffConcat
  <2>3. PICK x \in Seq(Seq(Octet)), y \in Seq(Seq(Octet)) : x = Spelled(emitted) /\ y = Spelled(e)
    BY <1>1, ReadOff
  <2>4. PICK fx \in Seq(Octet), fy \in Seq(Octet) : fx = FlattenSeq(x) /\ fy = FlattenSeq(y)
    BY FlattenTyped
  <2>5. FlattenSeq(x \o y) = fx \o fy
    BY <2>4, FlattenConcat
  <2>6. PICK b \in Seq(Octet), b1 \in Seq(Octet), c \in Seq(Octet) : b = buf /\ b1 = buf' /\ c = chunk
    BY <1>1, <1>3, <1>10
  <2>7. fx \o b = stream /\ fy \o b1 = b \o c
    BY <1>7, <2>1, <2>3, <2>4, <2>6
  <2>8. (fx \o fy) \o b1 = fx \o (fy \o b1)
    BY BytesRegroup, Zenon
  <2>9. (fx \o b) \o c = fx \o (b \o c)
    BY BytesRegroup, Zenon
  <2>10. (fx \o fy) \o b1 = stream \o c
    BY <2>7, <2>8, <2>9
  <2>11. FlattenSeq(Spelled(emitted')) \o buf' = stream'
    BY <1>6, <2>2, <2>3, <2>5, <2>6, <2>10
  <2> QED BY <2>11 DEF BytesConserved, Spelled
<1>14. UnflushedIsDrained'
  <2> SUFFICES ASSUME reloads' = 0, \A i \in DOMAIN emitted' : emitted'[i].kind = "cut"
               PROVE  /\ buf' = Drain(s, stream \o chunk).buf
                      /\ Framed(emitted') = Drain(s, stream \o chunk).frames
                      /\ \A i \in DOMAIN emitted' : ~Malformed(s, emitted'[i].frame)
    BY <1>6 DEF UnflushedIsDrained
  <2>1. \A i \in DOMAIN emitted : emitted[i].kind = "cut"
    BY <1>1, <1>5, Entries
  <2>2. \A i \in DOMAIN e : e[i].kind = "cut"
    <3> TAKE i \in DOMAIN e
    <3>1. PICK j \in DOMAIN (emitted \o e) : (emitted \o e)[j] = e[i]
      BY <1>1, Entries
    <3>2. emitted'[j].kind = "cut"
      BY <1>5, <3>1
    <3> QED BY <1>5, <3>1, <3>2
  <2>3. /\ buf = Drain(s, stream).buf
        /\ Framed(emitted) = Drain(s, stream).frames
        /\ \A i \in DOMAIN emitted : ~Malformed(s, emitted[i].frame)
    BY <1>6, <2>1 DEF FramerInv, UnflushedIsDrained
  <2>4. PICK n \in Nat : n = Len(d.frames) /\ DOMAIN d.frames = 1..n
    BY <1>4, LenProperties
  <2>5. PICK k \in Nat : k = Len(e) /\ DOMAIN e = 1..k
    BY LenProperties
  <2>6. ~Overflows(spec, d.buf)
    <3> SUFFICES ASSUME Overflows(spec, d.buf) PROVE FALSE
      OBVIOUS
    <3>1. k = n + 1 /\ e[n + 1].kind = "overflow"
      BY <1>5, <2>4, <2>5 DEF EmitsDrained
    <3> QED BY <2>2, <2>5, <3>1
  <2>7. k = n
    BY <1>5, <2>4, <2>5, <2>6 DEF EmitsDrained
  <2>8. \A i \in 1..n : e[i].frame = d.frames[i] /\ ~Malformed(s, d.frames[i])
    <3> TAKE i \in 1..n
    <3>1. /\ e[i].frame = d.frames[i]
          /\ e[i].kind = IF Malformed(s, d.frames[i]) THEN "malformed" ELSE "cut"
      BY <1>5, <2>4 DEF EmitsDrained
    <3>2. e[i].kind = "cut"
      BY <2>2, <2>5, <2>7
    <3> QED BY <3>1, <3>2
  <2>9. Framed(e) = d.frames
    <3>1. d.frames \in Seq(Seq(Octet))
      BY <1>2, <1>3, DrainTyped DEF d
    <3>2. /\ Framed(e) \in Seq(Seq(Octet)) /\ Len(Framed(e)) = n
          /\ \A i \in 1..n : Framed(e)[i] = e[i].frame
      BY <2>5, <2>7, ReadOff
    <3>3. \A i \in 1..n : Framed(e)[i] = d.frames[i]
      BY <2>8, <3>2
    <3> QED BY <2>4, <3>1, <3>2, <3>3, SeqEqual
  <2>10. \A i \in DOMAIN Drain(s, stream).frames : ~Malformed(s, Drain(s, stream).frames[i])
    <3>1. PICK l \in Nat : l = Len(emitted) /\ DOMAIN emitted = 1..l
      BY <1>1, LenProperties
    <3>2. /\ Framed(emitted) \in Seq(Seq(Octet)) /\ Len(Framed(emitted)) = l
          /\ \A i \in 1..l : Framed(emitted)[i] = emitted[i].frame
      BY <1>1, <3>1, ReadOff
    <3>3. DOMAIN Framed(emitted) = 1..l
      BY <3>2, LenProperties
    <3> QED BY <2>3, <3>1, <3>2, <3>3
  <2>11. /\ Drain(s, stream \o chunk).frames = Drain(s, stream).frames \o d.frames
         /\ Drain(s, stream \o chunk).buf = d.buf
    <3>1. stream \in Seq(Octet) /\ chunk \in Seq(Octet)
      BY <1>1, <1>3
    <3>2. /\ Drain(s, stream \o chunk).frames
               = Drain(s, stream).frames \o Drain(s, Drain(s, stream).buf \o chunk).frames
          /\ Drain(s, stream \o chunk).buf = Drain(s, Drain(s, stream).buf \o chunk).buf
      BY <1>2, <2>10, <3>1, DrainExtend
    <3> QED BY <2>3, <3>2 DEF d
  <2>12. Framed(emitted') = Framed(emitted) \o Framed(e)
    BY <1>1, <1>5, ReadOffConcat
  <2>13. \A i \in DOMAIN e : ~Malformed(s, e[i].frame)
    BY <2>5, <2>7, <2>8
  <2>14. \A i \in DOMAIN emitted' : ~Malformed(s, emitted'[i].frame)
    <3> TAKE i \in DOMAIN emitted'
    <3>1. (i \in DOMAIN emitted /\ emitted'[i] = emitted[i]) \/ \E j \in DOMAIN e : emitted'[i] = e[j]
      BY <1>1, <1>5, Entries
    <3> QED BY <2>3, <2>13, <3>1
  <2> QED BY <1>6, <2>3, <2>6, <2>9, <2>11, <2>12, <2>14
<1> QED
  BY <1>11, <1>12, <1>13, <1>14 DEF FramerInv

LEMMA QuietPreserves ==
  ASSUME FramerInv, Quiet
  PROVE  FramerInv'
<1>1. TypeOK /\ spec \in Specs /\ buf \in Seq(Byte) /\ stream \in Seq(Byte) /\ emitted \in Seq(Frames)
  BY DEF FramerInv, TypeOK, Specs, Frames
<1>2. UNCHANGED <<spec, stream, reloads>>
  BY <1>1, QuietFacts
<1>3. CASE UNCHANGED <<buf, emitted>>
  BY <1>2, <1>3 DEF FramerInv, TypeOK, BytesConserved, UnflushedIsDrained, Framed
<1>4. CASE ~UNCHANGED <<buf, emitted>>
  <2>1. PICK r : r = Emit(buf, "quiet")
    OBVIOUS
  <2>2. r \in Frames /\ emitted' = emitted \o <<r>> /\ buf' = <<>>
    BY <1>1, <1>4, <2>1, QuietFacts
  <2>3. r.frame = buf /\ r.kind = "quiet" /\ r.sep = <<>>
    BY <2>1 DEF Emit
  <2>4. <<r>> \in Seq(Frames) /\ Len(<<r>>) = 1 /\ <<r>>[1] = r /\ DOMAIN <<r>> = {1}
    BY <2>2
  <2>5. TypeOK'
    <3>1. emitted' \in Seq(Frames)
      BY <1>1, <2>2, <2>4, ConcatProperties
    <3>2. buf' \in Seq(Byte)
      BY <2>2, EmptySeq
    <3> QED BY <1>1, <1>2, <3>1, <3>2 DEF TypeOK, Specs, Frames
  <2>6. (emitted \in Seq(Good))'
    <3>1. r \in Good
      BY <2>2, <2>3 DEF Good
    <3>2. <<r>> \in Seq(Good)
      BY <3>1
    <3> QED BY <2>2, <3>2, ConcatProperties DEF FramerInv
  <2>7. BytesConserved'
    <3>1. FlattenSeq(Spelled(emitted)) \o buf = stream
      BY DEF FramerInv, BytesConserved, Spelled
    <3>2. Spelled(emitted') = Spelled(emitted) \o Spelled(<<r>>)
      BY <1>1, <2>2, <2>4, ReadOffConcat
    <3>3. buf \in Seq(Octet)
      BY <1>1, FramerAssumption, SeqMonotonic
    <3>4. Spelled(<<r>>) = <<buf>>
      <4>1. /\ Spelled(<<r>>) \in Seq(Seq(Octet)) /\ Len(Spelled(<<r>>)) = 1
            /\ Spelled(<<r>>)[1] = r.frame \o r.sep
        <5>1. PICK q \in Seq(Frames) : q = <<r>>
          BY <2>4
        <5>2. /\ Spelled(q) \in Seq(Seq(Octet)) /\ Len(Spelled(q)) = Len(q)
              /\ \A i \in 1..Len(q) : Spelled(q)[i] = q[i].frame \o q[i].sep
          BY ReadOff
        <5>3. Len(q) = 1 /\ q[1] = r
          BY <2>4, <5>1
        <5>4. 1 \in 1..Len(q)
          BY <5>3
        <5> QED BY <5>1, <5>2, <5>3, <5>4
      <4>2. r.frame \o r.sep = buf
        BY <2>3, <3>3, ConcatEmptySeq
      <4> QED BY <4>1, <4>2
    <3>5. FlattenSeq(<<buf>>) = buf /\ <<buf>> \in Seq(Seq(Octet))
      BY <3>3, FlattenOne
    <3>6. PICK x \in Seq(Seq(Octet)) : x = Spelled(emitted)
      BY <1>1, ReadOff
    <3>7. FlattenSeq(x \o <<buf>>) = FlattenSeq(x) \o buf
      BY <3>5, FlattenConcat
    <3>8. stream \o <<>> = stream
      BY <1>1, ConcatEmptySeq
    <3>9. FlattenSeq(Spelled(emitted')) \o buf' = stream'
      BY <1>2, <2>2, <3>1, <3>2, <3>4, <3>6, <3>7, <3>8
    <3> QED BY <3>9 DEF BytesConserved, Spelled
  <2>8. UnflushedIsDrained'
    <3>1. \E j \in DOMAIN emitted' : emitted'[j] = r
      <4>1. 1 \in DOMAIN <<r>>
        BY <2>4
      <4>2. PICK j \in DOMAIN (emitted \o <<r>>) : (emitted \o <<r>>)[j] = <<r>>[1]
        BY <1>1, <2>4, <4>1, Entries
      <4> QED BY <2>2, <2>4, <4>2
    <3>2. ~(\A j \in DOMAIN emitted' : emitted'[j].kind = "cut")
      BY <2>3, <3>1
    <3> QED BY <3>2 DEF UnflushedIsDrained
  <2> QED BY <2>5, <2>6, <2>7, <2>8 DEF FramerInv
<1> QED
  BY <1>3, <1>4

LEMMA TakeUpPreserves ==
  ASSUME FramerInv, NEW cfg \in Configs, TakeUp(cfg)
  PROVE  FramerInv'
<1>1. reloads \in Nat /\ reloads < MaxReloads /\ reloads' = reloads + 1
  BY FramerAssumption DEF FramerInv, TypeOK, TakeUp
<1>2. UNCHANGED <<buf, stream, emitted>> /\ spec' \in Specs
  BY DEF TakeUp, Specs
<1>3. TypeOK'
  <2>1. reloads' \in 0..MaxReloads
    BY <1>1, FramerAssumption
  <2> QED BY <1>2, <2>1 DEF FramerInv, TypeOK, Specs
<1>4. UnflushedIsDrained'
  BY <1>1 DEF UnflushedIsDrained
<1> QED
  BY <1>2, <1>3, <1>4 DEF FramerInv, BytesConserved

LEMMA ChunksAreBytes == \A chunk \in BoundedSeq(Byte, MaxChunk) : chunk \in Seq(Byte)
<1> TAKE chunk \in BoundedSeq(Byte, MaxChunk)
<1>1. PICK n \in 0..MaxChunk : chunk \in [1..n -> Byte]
  BY DEF BoundedSeq, SeqOf
<1> QED
  BY <1>1, SeqDef, FramerAssumption

LEMMA NextPreserves == FramerInv /\ [Next]_vars => FramerInv'
<1> SUFFICES ASSUME FramerInv, [Next]_vars PROVE FramerInv'
  OBVIOUS
<1>1. CASE \E chunk \in BoundedSeq(Byte, MaxChunk) \ {<<>>} : Feed(chunk)
  BY <1>1, ChunksAreBytes, FeedPreserves
<1>2. CASE Quiet
  BY <1>2, QuietPreserves
<1>3. CASE \E cfg \in Configs : TakeUp(cfg)
  BY <1>3, TakeUpPreserves
<1>4. CASE UNCHANGED vars
  BY <1>4 DEF vars, FramerInv, TypeOK, BytesConserved, UnflushedIsDrained, Framed
<1> QED
  BY <1>1, <1>2, <1>3, <1>4 DEF Next

LEMMA FramerInvariance == Spec => []FramerInv
<1>1. Init => FramerInv
  BY InitEstablishes
<1>2. FramerInv /\ [Next]_vars => FramerInv'
  BY NextPreserves
<1> QED
  BY <1>1, <1>2, PTL DEF Spec

-----------------------------------------------------------------------------

(* Every variable of the framer has its type, after any reads, quiet gaps  *)
(* and reloads.                                                            *)
THEOREM FramerTyped == Spec => []TypeOK
<1>1. FramerInv => TypeOK
  BY DEF FramerInv
<1> QED
  BY <1>1, FramerInvariance, PTL

(* No byte of the line is lost, duplicated or reordered: the frames with   *)
(* the delimiters that were dropped, then the buffer, spell what was read. *)
THEOREM NoByteLost == Spec => []BytesConserved
<1>1. FramerInv => BytesConserved
  BY DEF FramerInv
<1> QED
  BY <1>1, FramerInvariance, PTL

(* Every frame that was cut, and not flushed, is one message of the        *)
(* framing that was in force.                                              *)
THEOREM FramesAreWhole == Spec => []CutFramesAreWhole
<1>1. FramerInv => CutFramesAreWhole
  <2> SUFFICES ASSUME FramerInv PROVE CutFramesAreWhole
    OBVIOUS
  <2>1. \A i \in DOMAIN emitted : emitted[i] \in Good
    BY LenProperties, ElementOfSeq DEF FramerInv
  <2>2. \A i \in DOMAIN emitted : emitted[i].kind = "cut" =>
          /\ emitted[i].sep = Separator(emitted[i].spec.strategy)
          /\ Whole(emitted[i].spec.strategy, emitted[i].frame)
    BY <2>1 DEF Good
  <2> QED BY <2>2 DEF Whole, CutFramesAreWhole
<1> QED
  BY <1>1, FramerInvariance, PTL

(* The buffer limit never flushes a message that had arrived whole, and no *)
(* port of fixed length meets it.                                          *)
THEOREM BackstopFlushesUnframed == Spec => []OverflowIsUnframed
<1>1. FramerInv => OverflowIsUnframed
  <2> SUFFICES ASSUME FramerInv PROVE OverflowIsUnframed
    OBVIOUS
  <2>1. \A i \in DOMAIN emitted : emitted[i] \in Good
    BY LenProperties, ElementOfSeq DEF FramerInv
  <2> QED BY <2>1 DEF Good, OverflowIsUnframed
<1> QED
  BY <1>1, FramerInvariance, PTL

(* How the line is cut into reads does not show in the frames, as long as  *)
(* nothing was flushed and the framing did not change.                     *)
THEOREM ReadsDoNotShow == Spec => []ChunkingInvisible
<1>1. FramerInv => ChunkingInvisible
  BY DEF FramerInv, UnflushedIsDrained, ChunkingInvisible, Framed
<1> QED
  BY <1>1, FramerInvariance, PTL

(* After every read the buffer holds no complete frame and no more than    *)
(* the limit.                                                              *)
THEOREM PushesSettle == Spec => PushSettles
<1>1. FramerInv /\ [Next]_vars =>
        [stream' # stream => /\ Cuts(spec.strategy, buf') = {}
                             /\ Len(buf') <= spec.max_buffer]_vars
  <2> SUFFICES ASSUME FramerInv, Next, stream' # stream
               PROVE  Cuts(spec.strategy, buf') = {} /\ Len(buf') <= spec.max_buffer
    BY DEF vars
  <2> DEFINE s == spec.strategy
  <2>1. TypeOK /\ spec \in Specs /\ buf \in Seq(Byte)
    BY DEF FramerInv, TypeOK, Specs
  <2>2. PICK chunk \in Seq(Byte) : Feed(chunk)
    <3>1. ~Quiet /\ ~(\E cfg \in Configs : TakeUp(cfg))
      BY DEF Quiet, TakeUp
    <3> QED BY <3>1, ChunksAreBytes DEF Next
  <2> DEFINE d == Drain(s, buf \o chunk)
  <2>3. Runnable(s) /\ spec.max_buffer \in Nat
    BY <2>1, SpecsRun
  <2>4. buf \o chunk \in Seq(Octet)
    <3>1. buf \o chunk \in Seq(Byte)
      BY <2>1, ConcatProperties
    <3> QED BY <3>1, FramerAssumption, SeqMonotonic
  <2>5. d.buf \in Seq(Octet) /\ Cuts(s, d.buf) = {}
    BY <2>3, <2>4, DrainTyped, DrainSettles
  <2>6. buf' = IF Overflows(spec, d.buf) THEN <<>> ELSE d.buf
    BY <2>1, <2>2, FeedFacts
  <2> HIDE DEF d
  <2>7. CASE Overflows(spec, d.buf)
    <3>1. <<>> \in Seq(Octet) /\ Len(<<>>) = 0
      BY EmptySeq
    <3>2. Cuts(s, <<>>) = {}
      <4>1. ASSUME Cuts(s, <<>>) # {} PROVE FALSE
        <5>1. TheCut(s, <<>>).used \in 1..Len(<<>>)
          BY <2>3, <3>1, <4>1, RestShorter
        <5> QED BY <3>1, <5>1
      <4> QED BY <4>1
    <3> QED BY <2>3, <2>6, <2>7, <3>1, <3>2
  <2>8. CASE ~Overflows(spec, d.buf)
    <3>1. Len(d.buf) \in Nat /\ ~(Len(d.buf) > spec.max_buffer)
      BY <2>5, <2>8, LenProperties DEF Overflows
    <3> QED BY <2>3, <2>5, <2>6, <2>8, <3>1
  <2> QED BY <2>7, <2>8
<1> QED
  BY <1>1, FramerInvariance, PTL DEF Spec, PushSettles
=============================================================================
