---------------------------- MODULE SequenceLemmas ---------------------------
(***************************************************************************)
(* Facts about FlattenSeq that the proofs about frames, responses and      *)
(* events on a line share.  FlattenSeq is a recursive function, so they go *)
(* back to the well-foundedness of the natural numbers: NatLeast is what   *)
(* an induction over the length of a sequence uses.                        *)
(***************************************************************************)
EXTENDS SequencesExt, SequenceTheorems, WellFoundedInduction, TLAPS

(* A nonempty set of naturals has a least member. *)
LEMMA NatLeast ==
  ASSUME NEW T \in SUBSET Nat, T # {}
  PROVE  \E n \in T : \A m \in T : n <= m
<1>1. PICK n \in T : \A m \in T : ~(<<m, n>> \in OpToRel(<, Nat))
  BY NatLessThanWellFounded, WFMin
<1>2. \A m \in T : m \in Nat /\ n \in Nat /\ ~(m < n)
  BY <1>1 DEF OpToRel
<1>3. \A m \in T : n <= m
  BY <1>2
<1> QED
  BY <1>3

(* A set that holds 0 and with every number the next holds all of them. *)
LEMMA SetInduction ==
  ASSUME NEW S, 0 \in S, \A n \in Nat : n \in S => n + 1 \in S
  PROVE  \A n \in Nat : n \in S
<1> SUFFICES ASSUME Nat \ S # {} PROVE FALSE
  OBVIOUS
<1>1. PICK n \in Nat \ S : \A m \in Nat \ S : n <= m
  BY NatLeast
<1>2. n # 0 /\ n - 1 \in Nat
  BY <1>1
<1>3. n - 1 \in S
  BY <1>1, <1>2
<1> QED
  BY <1>1, <1>2, <1>3

-----------------------------------------------------------------------------

(* f is the function that FlattenSeq(s) computes, up to its k-th entry. *)
Flattens(f, s, k) ==
  /\ f = [i \in 1..k |-> f[i]]
  /\ \A i \in 1..k : f[i] = IF i = 1 THEN s[i] ELSE f[i - 1] \o s[i]

(* There is such a function, as long as one wants it. *)
LEMMA FlatteningExists == \A s : \A k \in Nat : \E f : Flattens(f, s, k)
<1> TAKE s
<1> DEFINE T == {k \in Nat : \E f : Flattens(f, s, k)}
<1>1. 0 \in T
  <2>1. Flattens([i \in 1..0 |-> s], s, 0)
    BY DEF Flattens
  <2> QED BY <2>1
<1>2. ASSUME NEW k \in Nat, k \in T PROVE k + 1 \in T
  <2>1. PICK f : Flattens(f, s, k)
    BY <1>2
  <2> DEFINE last == IF k + 1 = 1 THEN s[k + 1] ELSE f[k] \o s[k + 1]
             g == [i \in 1..(k + 1) |-> IF i = k + 1 THEN last ELSE f[i]]
  <2>2. \A i \in 1..(k + 1) : g[i] = IF i = k + 1 THEN last ELSE f[i]
    OBVIOUS
  <2>3. g = [i \in 1..(k + 1) |-> g[i]]
    OBVIOUS
  <2> HIDE DEF g
  <2>4. \A i \in 1..(k + 1) : g[i] = IF i = 1 THEN s[i] ELSE g[i - 1] \o s[i]
    <3> TAKE i \in 1..(k + 1)
    <3>1. CASE i = k + 1
      <4>1. g[i] = last
        BY <2>2, <3>1
      <4>2. CASE k = 0
        BY <3>1, <4>1, <4>2
      <4>3. CASE k # 0
        <5>1. k \in 1..(k + 1) /\ k # k + 1 /\ i - 1 = k /\ i # 1
          BY <3>1, <4>3
        <5>2. g[i - 1] = f[k]
          BY <2>2, <5>1
        <5> QED BY <3>1, <4>1, <4>3, <5>1, <5>2
      <4> QED BY <4>2, <4>3
    <3>2. CASE i # k + 1
      <4>1. i \in 1..k /\ (i # 1 => i - 1 \in 1..(k + 1) /\ i - 1 # k + 1)
        BY <3>2
      <4>2. g[i] = f[i] /\ (i # 1 => g[i - 1] = f[i - 1])
        BY <2>2, <3>2, <4>1
      <4>3. f[i] = IF i = 1 THEN s[i] ELSE f[i - 1] \o s[i]
        BY <2>1, <4>1 DEF Flattens
      <4> QED BY <4>2, <4>3
    <3> QED BY <3>1, <3>2
  <2>5. Flattens(g, s, k + 1)
    BY <2>3, <2>4 DEF Flattens
  <2> QED BY <2>5
<1> HIDE DEF T
<1>3. \A k \in Nat : k \in T
  BY <1>1, <1>2, SetInduction
<1> QED
  BY <1>3 DEF T

(* FlattenSeq is the last entry of that function. *)
LEMMA FlattenIs ==
  ASSUME NEW s, Len(s) \in Nat \ {0}
  PROVE  \E f : Flattens(f, s, Len(s)) /\ FlattenSeq(s) = f[Len(s)]
<1> DEFINE Def(f) == [i \in 1..Len(s) |-> IF i = 1 THEN s[i] ELSE f[i - 1] \o s[i]]
           flatten == CHOOSE f : f = Def(f)
<1>1. \E f : f = Def(f)
  <2>1. PICK f : Flattens(f, s, Len(s))
    BY FlatteningExists
  <2>2. f = Def(f)
    BY <2>1 DEF Flattens
  <2> QED BY <2>2
<1>2. flatten = Def(flatten)
  BY <1>1
<1>3. Flattens(flatten, s, Len(s))
  <2> HIDE DEF flatten
  <2> QED BY <1>2 DEF Flattens
<1>4. FlattenSeq(s) = flatten[Len(s)]
  BY DEF FlattenSeq
<1> QED
  BY <1>3, <1>4

(* Two such functions agree where their sequences do. *)
LEMMA FlatteningUnique ==
  ASSUME NEW s, NEW t, NEW f, NEW g, NEW k \in Nat,
         Flattens(f, s, k), Flattens(g, t, k + 1), \A i \in 1..k : s[i] = t[i]
  PROVE  \A i \in 1..k : f[i] = g[i]
<1> DEFINE T == {i \in Nat : i \in 1..k => f[i] = g[i]}
<1>1. 0 \in T
  OBVIOUS
<1>2. ASSUME NEW i \in Nat, i \in T PROVE i + 1 \in T
  <2> SUFFICES ASSUME i + 1 \in 1..k PROVE f[i + 1] = g[i + 1]
    OBVIOUS
  <2>1. i + 1 \in 1..(k + 1) /\ (i + 1) - 1 = i
    OBVIOUS
  <2>2. f[i + 1] = IF i + 1 = 1 THEN s[i + 1] ELSE f[i] \o s[i + 1]
    BY <2>1 DEF Flattens
  <2>3. g[i + 1] = IF i + 1 = 1 THEN t[i + 1] ELSE g[i] \o t[i + 1]
    BY <2>1 DEF Flattens
  <2>4. s[i + 1] = t[i + 1]
    OBVIOUS
  <2>5. i + 1 # 1 => f[i] = g[i]
    BY <1>2
  <2> QED BY <2>2, <2>3, <2>4, <2>5
<1> HIDE DEF T
<1>3. \A i \in Nat : i \in T
  BY <1>1, <1>2, SetInduction
<1> QED
  BY <1>3 DEF T

(* What FlattenSeq makes of nothing, of one sequence, and of one more. *)
LEMMA FlattenEmpty == FlattenSeq(<<>>) = <<>>
  BY EmptySeq DEF FlattenSeq

LEMMA FlattenAppend ==
  ASSUME NEW S, NEW s \in Seq(Seq(S)), NEW e \in Seq(S)
  PROVE  FlattenSeq(Append(s, e)) = FlattenSeq(s) \o e
<1>1. PICK n \in Nat : n = Len(s)
  BY LenProperties
<1> DEFINE t == Append(s, e)
<1>2. /\ t \in Seq(Seq(S)) /\ Len(t) = n + 1 /\ t[n + 1] = e
      /\ \A i \in 1..n : t[i] = s[i]
  BY <1>1, AppendProperties
<1> HIDE DEF t
<1>3. PICK g : Flattens(g, t, n + 1) /\ FlattenSeq(t) = g[n + 1]
  BY <1>2, FlattenIs
<1>4. g[n + 1] = IF n + 1 = 1 THEN t[n + 1] ELSE g[n] \o t[n + 1]
  <2>1. n + 1 \in 1..(n + 1) /\ (n + 1) - 1 = n
    OBVIOUS
  <2> QED BY <1>3, <2>1 DEF Flattens
<1>5. CASE n = 0
  <2>1. s = <<>>
    BY <1>1, <1>5, EmptySeq
  <2>2. FlattenSeq(t) = e
    BY <1>2, <1>3, <1>4, <1>5
  <2>3. <<>> \o e = e
    BY ConcatEmptySeq
  <2> QED BY <2>1, <2>2, <2>3, FlattenEmpty DEF t
<1>6. CASE n # 0
  <2>1. PICK f : Flattens(f, s, n) /\ FlattenSeq(s) = f[n]
    BY <1>1, <1>6, FlattenIs
  <2>2. \A i \in 1..n : f[i] = g[i]
    <3>1. Flattens(f, s, n) /\ Flattens(g, t, n + 1)
      BY <1>3, <2>1
    <3>2. \A i \in 1..n : s[i] = t[i]
      BY <1>2
    <3> QED BY <3>1, <3>2, FlatteningUnique
  <2>3. n \in 1..n /\ n + 1 # 1
    BY <1>6
  <2> QED BY <1>2, <1>3, <1>4, <2>1, <2>2, <2>3 DEF t
<1> QED
  BY <1>5, <1>6

(* A nonempty sequence is one entry longer than what precedes its last. *)
LEMMA SplitLast ==
  ASSUME NEW S, NEW n \in Nat, NEW s \in Seq(S), Len(s) = n + 1
  PROVE  \E r \in Seq(S), e \in S : s = Append(r, e) /\ Len(r) = n
<1>1. s # <<>>
  BY EmptySeq
<1>2. PICK r \in Seq(S), e \in S : s = Append(r, e)
  BY <1>1, SequenceEmptyOrAppend
<1>3. Len(s) = Len(r) + 1 /\ Len(r) \in Nat
  BY <1>2, AppendProperties, LenProperties
<1> QED
  BY <1>2, <1>3

(* FlattenSeq of sequences over S is a sequence over S, and of a           *)
(* concatenation the concatenation.                                        *)
LEMMA FlattenTyped == \A S : \A s \in Seq(Seq(S)) : FlattenSeq(s) \in Seq(S)
<1> TAKE S
<1> DEFINE T == {n \in Nat : \A s \in Seq(Seq(S)) : Len(s) = n => FlattenSeq(s) \in Seq(S)}
<1>1. 0 \in T
  <2>1. ASSUME NEW s \in Seq(Seq(S)), Len(s) = 0 PROVE FlattenSeq(s) \in Seq(S)
    BY <2>1, EmptySeq, FlattenEmpty
  <2> QED BY <2>1
<1>2. ASSUME NEW n \in Nat, n \in T PROVE n + 1 \in T
  <2>1. ASSUME NEW s \in Seq(Seq(S)), Len(s) = n + 1 PROVE FlattenSeq(s) \in Seq(S)
    <3>1. PICK r \in Seq(Seq(S)), e \in Seq(S) : s = Append(r, e) /\ Len(r) = n
      BY <2>1, SplitLast
    <3>2. FlattenSeq(r) \in Seq(S)
      BY <1>2, <3>1
    <3>3. FlattenSeq(s) = FlattenSeq(r) \o e
      BY <3>1, FlattenAppend
    <3> QED BY <3>2, <3>3, ConcatProperties
  <2> QED BY <2>1
<1> HIDE DEF T
<1>3. \A n \in Nat : n \in T
  BY <1>1, <1>2, SetInduction
<1> QED
  BY <1>3, LenProperties DEF T

(* Appending to the second of two sequences appends to both together. *)
LEMMA ConcatAppend ==
  ASSUME NEW Q, NEW s \in Seq(Q), NEW r \in Seq(Q), NEW e \in Q
  PROVE  s \o Append(r, e) = Append(s \o r, e)
<1> DEFINE one == <<e>>
<1>1. one \in Seq(Q)
  OBVIOUS
<1>2. Append(r, e) = r \o one
  BY AppendIsConcat
<1>3. s \o r \in Seq(Q)
  BY ConcatProperties
<1>4. Append(s \o r, e) = (s \o r) \o one
  BY <1>3, AppendIsConcat
<1> HIDE DEF one
<1>5. (s \o r) \o one = s \o (r \o one)
  BY <1>1, ConcatAssociative
<1> QED
  BY <1>2, <1>4, <1>5

(* Two sequences are flattened one after the other. *)
LEMMA FlattenConcat ==
  \A S : \A s, t \in Seq(Seq(S)) : FlattenSeq(s \o t) = FlattenSeq(s) \o FlattenSeq(t)
<1> SUFFICES ASSUME NEW S, NEW s \in Seq(Seq(S))
             PROVE  \A t \in Seq(Seq(S)) : FlattenSeq(s \o t) = FlattenSeq(s) \o FlattenSeq(t)
  OBVIOUS
<1> DEFINE T == {n \in Nat : \A t \in Seq(Seq(S)) :
                    Len(t) = n => FlattenSeq(s \o t) = FlattenSeq(s) \o FlattenSeq(t)}
<1>0. FlattenSeq(s) \in Seq(S)
  BY FlattenTyped
<1>1. 0 \in T
  <2>1. ASSUME NEW t \in Seq(Seq(S)), Len(t) = 0
        PROVE  FlattenSeq(s \o t) = FlattenSeq(s) \o FlattenSeq(t)
    <3>1. t = <<>>
      BY <2>1, EmptySeq
    <3>2. s \o <<>> = s /\ FlattenSeq(s) \o <<>> = FlattenSeq(s)
      BY <1>0, ConcatEmptySeq
    <3> QED BY <3>1, <3>2, FlattenEmpty
  <2> QED BY <2>1
<1>2. ASSUME NEW n \in Nat, n \in T PROVE n + 1 \in T
  <2>1. ASSUME NEW t \in Seq(Seq(S)), Len(t) = n + 1
        PROVE  FlattenSeq(s \o t) = FlattenSeq(s) \o FlattenSeq(t)
    <3>1. PICK r \in Seq(Seq(S)), e \in Seq(S) : t = Append(r, e) /\ Len(r) = n
      BY <2>1, SplitLast
    <3>2. FlattenSeq(s \o r) = FlattenSeq(s) \o FlattenSeq(r)
      BY <1>2, <3>1
    <3>3. s \o r \in Seq(Seq(S)) /\ FlattenSeq(r) \in Seq(S)
      BY FlattenTyped, ConcatProperties
    <3>4. s \o t = Append(s \o r, e)
      BY <3>1, ConcatAppend
    <3>5. FlattenSeq(s \o t) = (FlattenSeq(s) \o FlattenSeq(r)) \o e
      BY <3>2, <3>3, <3>4, FlattenAppend
    <3>6. FlattenSeq(t) = FlattenSeq(r) \o e
      BY <3>1, FlattenAppend
    <3> DEFINE x == FlattenSeq(s)
               y == FlattenSeq(r)
    <3>7. x \in Seq(S) /\ y \in Seq(S)
      BY <1>0, <3>3
    <3>8. FlattenSeq(s \o t) = (x \o y) \o e /\ FlattenSeq(t) = y \o e
      BY <3>5, <3>6
    <3> HIDE DEF x, y
    <3>9. (x \o y) \o e = x \o (y \o e)
      BY <3>7, ConcatAssociative
    <3>10. FlattenSeq(s \o t) = x \o FlattenSeq(t)
      BY <3>8, <3>9
    <3> QED BY <3>10 DEF x
  <2> QED BY <2>1
<1> HIDE DEF T
<1>3. \A n \in Nat : n \in T
  BY <1>1, <1>2, SetInduction
<1> QED
  BY <1>3, LenProperties DEF T

LEMMA FlattenOne ==
  ASSUME NEW S, NEW e \in Seq(S)
  PROVE  FlattenSeq(<<e>>) = e
<1>1. <<>> \in Seq(Seq(S)) /\ Append(<<>>, e) = <<e>>
  BY EmptySeq
<1>2. FlattenSeq(<<e>>) = <<>> \o e
  BY <1>1, FlattenAppend, FlattenEmpty
<1> QED
  BY <1>2, ConcatEmptySeq

(* What follows the first n elements of a sequence. *)
LEMMA RestTyped ==
  ASSUME NEW S, NEW b \in Seq(S), NEW n \in 0..Len(b)
  PROVE  /\ SubSeq(b, n + 1, Len(b)) \in Seq(S)
         /\ Len(SubSeq(b, n + 1, Len(b))) = Len(b) - n
         /\ SubSeq(b, 1, n) \o SubSeq(b, n + 1, Len(b)) = b
<1>1. PICK l \in Nat : l = Len(b)
  BY LenProperties
<1>2. n \in 0..l /\ \A i \in (n + 1)..l : b[i] \in S
  BY <1>1, ElementOfSeq
<1>3. n + 1 \in Int /\ l \in Int
  BY <1>2
<1>4. /\ SubSeq(b, n + 1, l) \in Seq(S)
      /\ Len(SubSeq(b, n + 1, l)) = IF n + 1 <= l THEN l - (n + 1) + 1 ELSE 0
  BY <1>2, <1>3, SubSeqProperties
<1>5. Len(SubSeq(b, n + 1, l)) = l - n
  BY <1>2, <1>4
<1>6. 1 \in 1..(l + 1) /\ n \in (1 - 1)..l /\ l \in n..l
  BY <1>2
<1>7. SubSeq(b, 1, n) \o SubSeq(b, n + 1, l) = SubSeq(b, 1, l)
  BY <1>1, <1>6, ConcatAdjacentSubSeq
<1>8. SubSeq(b, 1, l) = b
  BY <1>1, SubSeqFull
<1> QED
  BY <1>1, <1>4, <1>5, <1>7, <1>8
=============================================================================
