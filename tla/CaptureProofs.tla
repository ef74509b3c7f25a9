---------------------------- MODULE CaptureProofs ----------------------------
(***************************************************************************)
(* Theorems about the capture buffers, for every alphabet, chunk, frame,   *)
(* ring size and bound: typing, consecutive ids, bounded rings (when the   *)
(* configured maxima are not 0) and the raw ring as the tail of the        *)
(* received stream; that the buffer implements the append-only log of      *)
(* module EventLog; and what a polling client may conclude from its        *)
(* answers.                                                                *)
(***************************************************************************)
EXTENDS CaptureClients, SequenceTheorems, FiniteSetTheorems, TLAPS

-----------------------------------------------------------------------------
(* What the two ring operators return. *)

(* A push into a queue of at most max entries, for max above 0, appends x, *)
(* drops the head only of a full queue, and never exceeds max.             *)
LEMMA RingPushProperties ==
  \A S, q, max, x : q \in Seq(S) /\ max \in Nat /\ x \in S =>
    LET r == RingPush(q, max, x) IN
    /\ r \in Seq(S)
    /\ Len(r) = IF Len(q) = max /\ q # <<>> THEN Len(q) ELSE Len(q) + 1
    /\ r[Len(r)] = x
    /\ \A i \in 1..(Len(r) - 1) : r[i] = q[Len(q) + 1 - Len(r) + i]
<1> SUFFICES ASSUME NEW S, NEW q, NEW max, NEW x,
                    q \in Seq(S), max \in Nat, x \in S
             PROVE  LET r == RingPush(q, max, x) IN
                    /\ r \in Seq(S)
                    /\ Len(r) = IF Len(q) = max /\ q # <<>> THEN Len(q) ELSE Len(q) + 1
                    /\ r[Len(r)] = x
                    /\ \A i \in 1..(Len(r) - 1) : r[i] = q[Len(q) + 1 - Len(r) + i]
  OBVIOUS
<1>1. CASE Len(q) = max /\ q # <<>>
  <2>1. Tail(q) \in Seq(S) /\ Len(Tail(q)) = Len(q) - 1
        /\ \A i \in 1..Len(Tail(q)) : Tail(q)[i] = q[i + 1]
    BY <1>1, HeadTailProperties
  <2>2. RingPush(q, max, x) = Append(Tail(q), x)
    BY <1>1 DEF RingPush
  <2>. QED
    BY <1>1, <2>1, <2>2, AppendProperties, LenProperties
<1>2. CASE ~(Len(q) = max /\ q # <<>>)
  <2>1. RingPush(q, max, x) = Append(q, x)
    BY <1>2 DEF RingPush
  <2>. QED
    BY <1>2, <2>1, AppendProperties, LenProperties
<1>. QED
  BY <1>1, <1>2

(* LastOf keeps a suffix: the last max entries of a longer sequence. *)
LEMMA LastOfProperties ==
  ASSUME NEW S, NEW q \in Seq(S), NEW max \in Nat
  PROVE  LET r == LastOf(q, max) IN
         /\ r \in Seq(S)
         /\ Len(r) = IF max = 0 \/ Len(q) <= max THEN Len(q) ELSE max
         /\ \A i \in 1..Len(r) : r[i] = q[Len(q) - Len(r) + i]
<1>1. Len(q) \in Nat /\ \A i \in 1..Len(q) : q[i] \in S
  BY LenProperties, ElementOfSeq
<1>2. CASE max = 0 \/ Len(q) <= max
  <2>1. LastOf(q, max) = q
    BY <1>2 DEF LastOf
  <2>. QED
    BY <1>1, <1>2, <2>1
<1>3. CASE ~(max = 0 \/ Len(q) <= max)
  <2> DEFINE m == Len(q) - max + 1
  <2>1. LastOf(q, max) = SubSeq(q, m, Len(q))
    BY <1>3 DEF LastOf
  <2>2. m \in Int /\ m >= 1 /\ m <= Len(q)
    BY <1>1, <1>3
  <2>3. \A i \in m..Len(q) : q[i] \in S
    BY <1>1, <2>2
  <2> HIDE DEF m
  <2>4. /\ SubSeq(q, m, Len(q)) \in Seq(S)
        /\ Len(SubSeq(q, m, Len(q))) = Len(q) - m + 1
        /\ \A i \in 1..(Len(q) - m + 1) : SubSeq(q, m, Len(q))[i] = q[m + i - 1]
    BY <1>1, <2>2, <2>3, SubSeqProperties
  <2>5. Len(q) - m + 1 = max /\ m = Len(q) - max + 1
    BY <1>1 DEF m
  <2>6. \A i \in 1..max : SubSeq(q, m, Len(q))[i] = q[Len(q) - max + i]
    BY <1>1, <2>4, <2>5
  <2>. QED
    BY <1>3, <2>1, <2>4, <2>5, <2>6
<1>. QED
  BY <1>2, <1>3

(* Appending a chunk to what a ring kept of a stream leaves what the ring  *)
(* would keep of the longer stream.                                        *)
LEMMA LastOfAppend ==
  ASSUME NEW S, NEW s \in Seq(S), NEW c \in Seq(S), NEW max \in Nat
  PROVE  LastOf(LastOf(s, max) \o c, max) = LastOf(s \o c, max)
<1> DEFINE r == LastOf(s, max)
           l == LastOf(r \o c, max)
           t == LastOf(s \o c, max)
<1>1. /\ r \in Seq(S)
      /\ Len(r) = IF max = 0 \/ Len(s) <= max THEN Len(s) ELSE max
      /\ \A i \in 1..Len(r) : r[i] = s[Len(s) - Len(r) + i]
  BY LastOfProperties
<1>2. /\ s \o c \in Seq(S)
      /\ Len(s \o c) = Len(s) + Len(c)
      /\ \A i \in 1..(Len(s) + Len(c)) :
           (s \o c)[i] = IF i <= Len(s) THEN s[i] ELSE c[i - Len(s)]
  BY ConcatProperties
<1>3. Len(s) \in Nat /\ Len(c) \in Nat /\ Len(r) \in Nat
  BY <1>1, LenProperties
<1> HIDE DEF r
<1>4. /\ r \o c \in Seq(S)
      /\ Len(r \o c) = Len(r) + Len(c)
      /\ \A i \in 1..(Len(r) + Len(c)) :
           (r \o c)[i] = IF i <= Len(r) THEN r[i] ELSE c[i - Len(r)]
  BY <1>1, ConcatProperties
<1>5. /\ l \in Seq(S)
      /\ Len(l) = IF max = 0 \/ Len(r \o c) <= max THEN Len(r \o c) ELSE max
      /\ \A i \in 1..Len(l) : l[i] = (r \o c)[Len(r \o c) - Len(l) + i]
  BY <1>4, LastOfProperties
<1>6. /\ t \in Seq(S)
      /\ Len(t) = IF max = 0 \/ Len(s \o c) <= max THEN Len(s \o c) ELSE max
      /\ \A i \in 1..Len(t) : t[i] = (s \o c)[Len(s \o c) - Len(t) + i]
  BY <1>2, LastOfProperties
<1> HIDE DEF l, t
<1>7. Len(l) = Len(t)
  BY <1>1, <1>2, <1>3, <1>4, <1>5, <1>6
<1>8. ASSUME NEW i \in 1..Len(l)
      PROVE  l[i] = t[i]
  <2> DEFINE j == Len(r) + Len(c) - Len(l) + i
             k == Len(s) + Len(c) - Len(l) + i
  <2>1. Len(l) \in Nat /\ Len(l) <= Len(r) + Len(c) /\ Len(r) <= Len(s)
    BY <1>1, <1>3, <1>4, <1>5
  <2>2. j \in 1..(Len(r) + Len(c)) /\ k \in 1..(Len(s) + Len(c))
    BY <1>3, <2>1
  <2>3. l[i] = (r \o c)[j] /\ t[i] = (s \o c)[k]
    <3>1. l[i] = (r \o c)[Len(r \o c) - Len(l) + i]
      BY <1>5
    <3>2. t[i] = (s \o c)[Len(s \o c) - Len(t) + i]
      BY <1>6, <1>7
    <3>. QED
      BY <1>2, <1>4, <1>7, <3>1, <3>2
  <2>4. k = Len(s) - Len(r) + j /\ (j <= Len(r) <=> k <= Len(s))
        /\ j - Len(r) = k - Len(s)
    BY <1>3, <2>1
  <2> HIDE DEF j, k
  <2>5. CASE j <= Len(r)
    <3>1. j \in 1..Len(r)
      BY <1>3, <2>2, <2>5
    <3>2. (r \o c)[j] = s[Len(s) - Len(r) + j]
      BY <1>1, <1>4, <2>2, <2>5, <3>1
    <3>3. (s \o c)[k] = s[k]
      BY <1>2, <2>2, <2>4, <2>5
    <3>. QED
      BY <2>3, <2>4, <3>2, <3>3
  <2>6. CASE ~(j <= Len(r))
    BY <1>2, <1>4, <2>2, <2>3, <2>4, <2>6
  <2>. QED
    BY <2>5, <2>6
<1>9. l = t
  BY <1>5, <1>6, <1>7, <1>8, SeqEqual
<1>. QED
  BY <1>9 DEF l, t, r

-----------------------------------------------------------------------------
(* The inductive invariant: typing of the buffers and of the stream, the   *)
(* numbering of the events, and the raw ring against the stream.           *)
CaptureInv ==
  /\ TypeOK
  /\ stream \in Seq(Byte)
  /\ IdsContiguous
  /\ RawIsTailOfStream

(* An untouched queue keeps its part of the invariant. *)
LEMMA CaptureInvStutter ==
  ASSUME CaptureInv, UNCHANGED <<capture_vars, stream>>
  PROVE  CaptureInv'
BY DEF CaptureInv, TypeOK, IdsContiguous, RawIsTailOfStream, capture_vars

(* The empty buffers of a new port satisfy the invariant. *)
LEMMA CaptureInvInit ==
  ASSUME CInit
  PROVE  CaptureInv
<1>1. /\ raw = <<>> /\ events = <<>> /\ next_id = 1 /\ stream = <<>>
  BY DEF CInit, Init
<1>2. <<>> \in Seq(Byte) /\ <<>> \in Seq(Event) /\ Len(<<>>) = 0
  BY EmptySeq
<1>3. LastOf(<<>>, MaxRaw) = <<>>
  BY <1>2, CaptureAssumption DEF LastOf
<1>. QED
  BY <1>1, <1>2, <1>3 DEF CaptureInv, TypeOK, IdsContiguous, RawIsTailOfStream

(* append_raw keeps the ring the tail of the longer stream. *)
LEMMA CaptureInvReceiveChunk ==
  ASSUME CaptureInv, NEW chunk \in Chunks, ReceiveChunk(chunk)
  PROVE  CaptureInv'
<1>1. chunk \in Seq(Byte) /\ stream \in Seq(Byte) /\ raw = LastOf(stream, MaxRaw)
  BY ClientsAssumption DEF CaptureInv, RawIsTailOfStream
<1>2. /\ raw' = LastOf(raw \o chunk, MaxRaw)
      /\ stream' = stream \o chunk
      /\ events' = events /\ next_id' = next_id
  BY DEF ReceiveChunk, AppendRaw
<1>3. raw' = LastOf(stream', MaxRaw)
  BY <1>1, <1>2, LastOfAppend, CaptureAssumption
<1>4. stream' \in Seq(Byte)
  BY <1>1, <1>2, ConcatProperties
<1>5. raw' \in Seq(Byte)
  BY <1>3, <1>4, LastOfProperties, CaptureAssumption
<1>. QED
  BY <1>2, <1>3, <1>4, <1>5 DEF CaptureInv, TypeOK, IdsContiguous, RawIsTailOfStream

(* push_event numbers the new entry next_id, which follows the last id of  *)
(* the log, and an eviction shifts positions without touching ids.         *)
LEMMA CaptureInvRecordFrame ==
  ASSUME CaptureInv, NEW data \in Frames, NEW label \in Label \cup {NoLabel},
         RecordFrame(data, label)
  PROVE  CaptureInv'
<1> DEFINE ev == [id |-> next_id, data |-> data, matched_rule |-> label]
           new == RingPush(events, MaxEvents, ev)
<1>1. /\ events \in Seq(Event) /\ next_id \in Nat \ {0} /\ raw \in Seq(Byte)
      /\ Len(events) < next_id
      /\ \A i \in DOMAIN events : events[i].id = next_id - 1 - Len(events) + i
  BY DEF CaptureInv, TypeOK, IdsContiguous
<1>2. ev \in Event /\ ev.id = next_id
  BY <1>1, ClientsAssumption DEF Event
<1>3. events' = new /\ next_id' = next_id + 1 /\ raw' = raw /\ stream' = stream
  BY DEF RecordFrame, PushEvent
<1> HIDE DEF ev
<1>a. MaxEvents \in Nat
  BY CaptureAssumption
<1>4. /\ new \in Seq(Event)
      /\ Len(new) = IF Len(events) = MaxEvents /\ events # <<>>
                    THEN Len(events) ELSE Len(events) + 1
      /\ new[Len(new)] = ev
      /\ \A i \in 1..(Len(new) - 1) : new[i] = events[Len(events) + 1 - Len(new) + i]
  BY <1>1, <1>2, <1>a, RingPushProperties
<1> HIDE DEF new
<1>5. /\ Len(events) \in Nat /\ DOMAIN events = 1..Len(events)
      /\ Len(new) \in Nat /\ DOMAIN new = 1..Len(new)
  BY <1>1, <1>4, LenProperties
<1>6. Len(new) < next_id + 1
  BY <1>1, <1>4, <1>5
<1>7. ASSUME NEW i \in DOMAIN new
      PROVE  new[i].id = next_id - Len(new) + i
  <2>1. CASE i = Len(new)
    BY <1>1, <1>2, <1>4, <1>5, <2>1
  <2>2. CASE i # Len(new)
    <3> DEFINE j == Len(events) + 1 - Len(new) + i
    <3>0. Len(new) = Len(events) \/ Len(new) = Len(events) + 1
      BY <1>4
    <3>1. i \in 1..(Len(new) - 1) /\ j \in DOMAIN events
      <4>1. i \in 1..Len(new) /\ Len(new) \in Nat /\ Len(events) \in Nat
        BY <1>5
      <4>2. i \in 1..(Len(new) - 1) /\ j \in 1..Len(events)
        BY <2>2, <3>0, <4>1
      <4>. QED
        BY <1>5, <4>2
    <3>2. new[i] = events[j]
      BY <1>4, <3>1
    <3>3. events[j].id = next_id - 1 - Len(events) + j
      BY <1>1, <3>1
    <3>. QED
      BY <1>1, <1>5, <3>2, <3>3
  <2>. QED
    BY <2>1, <2>2
<1>8. Len(events') < next_id' /\ next_id' - 1 = next_id
  BY <1>1, <1>3, <1>6
<1>9. IdsContiguous'
  BY <1>1, <1>3, <1>7, <1>8 DEF IdsContiguous
<1>. QED
  BY <1>1, <1>3, <1>4, <1>9 DEF CaptureInv, TypeOK, RawIsTailOfStream

(* The two clears empty a buffer; clearing the events keeps next_id. *)
LEMMA CaptureInvClear ==
  ASSUME CaptureInv, WipeRaw \/ WipeEvents
  PROVE  CaptureInv'
<1>1. <<>> \in Seq(Byte) /\ <<>> \in Seq(Event) /\ Len(<<>>) = 0 /\ DOMAIN <<>> = {}
  BY EmptySeq
<1>2. LastOf(<<>>, MaxRaw) = <<>>
  BY <1>1, CaptureAssumption DEF LastOf
<1>3. CASE WipeRaw
  BY <1>1, <1>2, <1>3
     DEF CaptureInv, TypeOK, IdsContiguous, RawIsTailOfStream, WipeRaw, ClearRaw
<1>4. CASE WipeEvents
  <2>1. events' = <<>> /\ raw' = raw /\ next_id' = next_id /\ stream' = stream
    BY <1>4 DEF WipeEvents, ClearEvents
  <2>2. IdsContiguous'
    BY <1>1, <2>1 DEF IdsContiguous, CaptureInv, TypeOK
  <2>. QED
    BY <1>1, <2>1, <2>2 DEF CaptureInv, TypeOK, RawIsTailOfStream
<1>. QED
  BY <1>3, <1>4

(* Every step of the capture and of its clients preserves the invariant. *)
LEMMA CaptureInvNext ==
  ASSUME CaptureInv, [Next]_vars
  PROVE  CaptureInv'
<1>1. ASSUME NEW chunk \in Chunks, ReceiveChunk(chunk)
      PROVE  CaptureInv'
  BY <1>1, CaptureInvReceiveChunk
<1>2. ASSUME NEW data \in Frames, NEW label \in Label \cup {NoLabel},
             RecordFrame(data, label)
      PROVE  CaptureInv'
  BY <1>2, CaptureInvRecordFrame
<1>3. CASE WipeRaw \/ WipeEvents
  BY <1>3, CaptureInvClear
<1>4. CASE (\E since \in 0..MaxFrames : Query(since)) \/ Poll
  <2>1. UNCHANGED <<capture_vars, stream>>
    BY <1>4 DEF Query, Poll
  <2>. QED
    BY <2>1, CaptureInvStutter
<1>5. CASE UNCHANGED vars
  <2>1. UNCHANGED <<capture_vars, stream>>
    BY <1>5 DEF vars, history_vars
  <2>. QED
    BY <2>1, CaptureInvStutter
<1>. QED
  BY <1>1, <1>2, <1>3, <1>4, <1>5 DEF Next

(* The invariant holds throughout every behaviour. *)
THEOREM CaptureInvariance == Spec => []CaptureInv
<1>1. CInit => CaptureInv
  BY CaptureInvInit
<1>2. CaptureInv /\ [Next]_vars => CaptureInv'
  BY CaptureInvNext
<1>. QED
  BY <1>1, <1>2, PTL DEF Spec

(* The buffers hold bytes and well-formed events, and ids start at 1. *)
THEOREM CaptureTypeCorrect == Spec => []TypeOK
<1>1. CaptureInv => TypeOK
  BY DEF CaptureInv
<1>. QED
  BY <1>1, CaptureInvariance, PTL

(* Retained ids are consecutive up to the last one handed out, whatever    *)
(* the order of pushes, evictions and clears.                              *)
THEOREM IdsAlwaysContiguous == Spec => []IdsContiguous
<1>1. CaptureInv => IdsContiguous
  BY DEF CaptureInv
<1>. QED
  BY <1>1, CaptureInvariance, PTL

(* GET .../capture/raw returns the last max_raw bytes received since the   *)
(* last clear, however the stream was cut into reads.                      *)
THEOREM RawAlwaysTailOfStream == Spec => []RawIsTailOfStream
<1>1. CaptureInv => RawIsTailOfStream
  BY DEF CaptureInv
<1>. QED
  BY <1>1, CaptureInvariance, PTL

-----------------------------------------------------------------------------

(* The log of events holds at most max_events, if that is not 0.           *)
Fits == MaxEvents = 0 \/ Len(events) <= MaxEvents

LEMMA EventsFit == Spec => []Fits
<1> USE DEF Fits
<1> DEFINE Inv == CaptureInv /\ Fits
<1>1. CInit => Inv
  <2> SUFFICES ASSUME CInit PROVE Inv
    OBVIOUS
  <2>1. events = <<>> /\ CaptureInv
    BY CaptureInvInit DEF CInit, Init
  <2>. QED
    BY <2>1, EmptySeq, CaptureAssumption
<1>2. Inv /\ [Next]_vars => Inv'
  <2> SUFFICES ASSUME Inv, [Next]_vars PROVE Inv'
    OBVIOUS
  <2>1. CaptureInv'
    BY CaptureInvNext
  <2>2. CASE UNCHANGED events
    BY <2>1, <2>2
  <2>3. CASE WipeEvents
    <3>1. events' = <<>>
      BY <2>3 DEF WipeEvents, ClearEvents
    <3>. QED
      BY <2>1, <3>1, EmptySeq, CaptureAssumption
  <2>4. ASSUME NEW data \in Frames, NEW label \in Label \cup {NoLabel},
               RecordFrame(data, label)
        PROVE  Inv'
    <3> DEFINE ev == [id |-> next_id, data |-> data, matched_rule |-> label]
    <3>1. ev \in Event
      BY ClientsAssumption DEF Event, CaptureInv, TypeOK
    <3>2. events' = RingPush(events, MaxEvents, ev) /\ events \in Seq(Event)
      BY <2>4 DEF RecordFrame, PushEvent, CaptureInv, TypeOK
    <3> HIDE DEF ev
    <3>a. MaxEvents \in Nat
      BY CaptureAssumption
    <3>3. Len(events') = IF Len(events) = MaxEvents /\ events # <<>>
                         THEN Len(events) ELSE Len(events) + 1
      BY <3>1, <3>2, <3>a, RingPushProperties
    <3>4. MaxEvents # 0 /\ Len(events) = MaxEvents => events # <<>>
      BY EmptySeq, CaptureAssumption
    <3>. QED
      BY <2>1, <3>2, <3>3, <3>4, LenProperties, CaptureAssumption
  <2>5. \/ UNCHANGED events
        \/ WipeEvents
        \/ \E data \in Frames, label \in Label \cup {NoLabel} : RecordFrame(data, label)
    BY DEF Next, vars, capture_vars, ReceiveChunk, AppendRaw, WipeRaw, ClearRaw,
           Query, Poll
  <2>. QED
    BY <2>2, <2>3, <2>4, <2>5
<1>3. Inv => Fits
  OBVIOUS
<1>. QED
  BY <1>1, <1>2, <1>3, PTL DEF Spec

-----------------------------------------------------------------------------
(* The buffer against the append-only log, and what a polling client may   *)
(* conclude from its answers.                                              *)

(* The id below which everything left the buffer: the retained events are  *)
(* the entries of the log above it, and all ids up to it are lost.         *)
Floor == next_id - 1 - Len(events)

(* The buffer and the client against the log. *)
LogInv ==
  /\ CaptureInv
  /\ log \in Seq(Entry) /\ Len(log) <= MaxFrames /\ next_id = Len(log) + 1
  /\ \A i \in DOMAIN events : events[i] = Log!Numbered(Floor + i)
  /\ lost \subseteq Nat /\ 1..Floor \subseteq lost
  /\ answer \in Seq(Event)
  /\ cursor \in 0..Len(log)
  /\ seen \subseteq Event
  /\ \A e \in seen : e.id \in 1..cursor /\ e = Log!Numbered(e.id)
  /\ 1..cursor \subseteq Ids(seen) \cup lost

-----------------------------------------------------------------------------
(* What a query returns. *)

(* The position of the k-th entry kept.  *)
KthOf(I, k) == CHOOSE i \in I : Cardinality({j \in I : j <= i}) = k

(* If the positions kept are d + 1 to n, the k-th is d + k.  *)
LEMMA KthOfInterval ==
  \A d, n \in Nat : d <= n =>
    /\ Cardinality((d + 1)..n) = n - d
    /\ \A k \in 1..(n - d) : KthOf((d + 1)..n, k) = d + k
<1> SUFFICES ASSUME NEW d \in Nat, NEW n \in Nat, d <= n
             PROVE  /\ Cardinality((d + 1)..n) = n - d
                    /\ \A k \in 1..(n - d) : KthOf((d + 1)..n, k) = d + k
  OBVIOUS
<1> DEFINE I == (d + 1)..n
<1>1. Cardinality(I) = n - d
  <2>1. d + 1 \in Int /\ n \in Int
    OBVIOUS
  <2>2. Cardinality(I) = IF d + 1 > n THEN 0 ELSE n - (d + 1) + 1
    BY <2>1, FS_Interval, Zenon
  <2>. QED
    BY <2>2
<1>2. ASSUME NEW i \in I
      PROVE  Cardinality({j \in I : j <= i}) = i - d
  <2>1. {j \in I : j <= i} = (d + 1)..i
    OBVIOUS
  <2>2. d + 1 \in Int /\ i \in Int /\ d + 1 <= i
    OBVIOUS
  <2>3. Cardinality((d + 1)..i) = IF d + 1 > i THEN 0 ELSE i - (d + 1) + 1
    BY <2>2, FS_Interval, Zenon
  <2>4. Cardinality((d + 1)..i) = i - d
    BY <2>2, <2>3
  <2>. QED
    BY <2>1, <2>4, Zenon
<1>3. ASSUME NEW k \in 1..(n - d)
      PROVE  KthOf(I, k) = d + k
  <2>1. d + k \in I
    OBVIOUS
  <2>2. Cardinality({j \in I : j <= d + k}) = k
    BY <1>2, <2>1
  <2>3. \A i \in I : Cardinality({j \in I : j <= i}) = k => i = d + k
    BY <1>2
  <2> HIDE DEF I
  <2>. QED
    BY <2>1, <2>2, <2>3 DEF KthOf
<1> QED BY <1>1, <1>3

(* What the retained events are, position by position. *)
LEMMA Retained ==
  ASSUME LogInv
  PROVE  /\ Len(events) \in Nat /\ DOMAIN events = 1..Len(events)
         /\ Len(log) \in Nat /\ DOMAIN log = 1..Len(log)
         /\ Floor \in Nat /\ Floor + Len(events) = Len(log)
         /\ \A i \in DOMAIN events : events[i] \in Event /\ events[i].id = Floor + i
<1>1. /\ events \in Seq(Event) /\ log \in Seq(Entry) /\ next_id = Len(log) + 1
      /\ Len(events) < next_id
      /\ \A i \in DOMAIN events : events[i].id = next_id - 1 - Len(events) + i
  BY DEF LogInv, CaptureInv, TypeOK, IdsContiguous
<1>2. /\ Len(events) \in Nat /\ DOMAIN events = 1..Len(events)
      /\ Len(log) \in Nat /\ DOMAIN log = 1..Len(log)
  BY <1>1, LenProperties
<1>3. \A i \in DOMAIN events : events[i] \in Event
  BY <1>1, <1>2, ElementOfSeq
<1> QED BY <1>1, <1>2, <1>3 DEF Floor

(* A query answers with every entry above both since and the floor: no     *)
(* retained event is left out and none comes twice or out of order.        *)
LEMMA QueryAnswers ==
  ASSUME LogInv, NEW since \in Nat,
         NEW m \in Nat, m = Log!Larger(since, Floor),
         NEW a, a = EventsSince(since)
  PROVE  /\ a = Log!From(m + 1)
         /\ m >= since /\ m >= Floor /\ (m = since \/ m = Floor)
         /\ a \in Seq(Event)
         /\ Len(a) = IF m <= Len(log) THEN Len(log) - m ELSE 0
         /\ \A k \in 1..Len(a) : a[k] = Log!Numbered(m + k)
<1>1. PICK n \in Nat, f \in Nat, l \in Nat :
        n = Len(events) /\ f = Floor /\ l = Len(log) /\ f + n = l /\ DOMAIN events = 1..n
  BY Retained
<1>2. /\ \A i \in 1..n : events[i] \in Event /\ events[i].id = f + i
      /\ \A i \in 1..n : events[i] = Log!Numbered(f + i)
  BY <1>1, Retained DEF LogInv
<1>3. m \in Nat /\ m >= since /\ m >= f /\ (m = since \/ m = f)
  BY <1>1 DEF Log!Larger
<1>4. a = [k \in 1..(l - m) |-> events[m - f + k]]
  <2> DEFINE I == {i \in DOMAIN events : events[i].id > since}
  <2>1. a = [k \in 1..Cardinality(I) |-> events[KthOf(I, k)]]
    BY DEF EventsSince, AtPositions, KthOf
  <2>2. \A i \in 1..n : events[i].id = f + i
    BY <1>2
  <2>3. \A i : i \in I <=> i \in 1..n /\ i > m - f
    BY <1>1, <1>3, <2>2
  <2> HIDE DEF I
  <2>4. CASE m <= l
    <3> DEFINE d == m - f
    <3>1. d \in Nat /\ d <= n /\ n - d = l - m
      BY <1>1, <1>3, <2>4
    <3>2. I = (d + 1)..n
      <4>1. \A i : i \in 1..n /\ i > d <=> i \in (d + 1)..n
        BY <3>1
      <4>. QED
        BY <2>3, <4>1
    <3> HIDE DEF d
    <3>3. /\ Cardinality((d + 1)..n) = n - d
          /\ \A k \in 1..(n - d) : KthOf((d + 1)..n, k) = d + k
      BY <3>1, KthOfInterval
    <3>4. Cardinality(I) = l - m /\ \A k \in 1..(l - m) : KthOf(I, k) = d + k
      BY <3>1, <3>2, <3>3, Zenon
    <3>5. \A k \in 1..(l - m) : KthOf(I, k) = m - f + k
      BY <3>4 DEF d
    <3>. QED
      BY <2>1, <3>4, <3>5
  <2>5. CASE m > l
    <3>1. 1..(l - m) = {} /\ 1..0 = {}
      BY <1>1, <1>3, <2>5
    <3>2. I = {}
      BY <1>1, <1>3, <2>3, <2>5
    <3>3. Cardinality(I) = 0
      BY <3>2, FS_EmptySet
    <3>4. 1..Cardinality(I) = {}
      BY <3>1, <3>3
    <3>. QED
      BY <2>1, <3>1, <3>4
  <2>. QED
    BY <1>1, <1>3, <2>4, <2>5
<1>5. \A k \in 1..(l - m) : m - f + k \in 1..n /\ f + (m - f + k) = m + k
  BY <1>1, <1>3
<1>6. a = [k \in 1..(l - m) |-> Log!Numbered(m + k)]
  BY <1>2, <1>4, <1>5
<1>7. Log!From(m + 1) = [k \in 1..(l - m) |-> Log!Numbered(m + k)]
  <2>1. l - (m + 1) + 1 = l - m
    BY <1>3
  <2>2. \A k \in 1..(l - m) : m + 1 + k - 1 = m + k
    BY <1>3
  <2>. QED
    BY <1>1, <2>1, <2>2 DEF Log!From
<1>8. \A k \in 1..(l - m) : events[m - f + k] \in Event
  BY <1>2, <1>5
<1>9. a \in Seq(Event) /\ Len(a) = IF m <= l THEN l - m ELSE 0
  <2>1. CASE m <= l
    <3>1. PICK q \in Nat : q = l - m
      BY <1>3, <2>1
    <3>2. a = [k \in 1..q |-> events[m - f + k]] /\ \A k \in 1..q : events[m - f + k] \in Event
      BY <1>4, <1>8, <3>1
    <3>3. a \in Seq(Event) /\ Len(a) = q
      BY <3>2
    <3>. QED
      BY <2>1, <3>1, <3>3
  <2>2. CASE ~(m <= l)
    <3>1. 1..(l - m) = {}
      BY <1>3, <2>2
    <3>2. a = <<>>
      BY <1>4, <3>1
    <3>. QED
      BY <2>2, <3>2, EmptySeq
  <2>. QED
    BY <2>1, <2>2
<1>10. \A k \in 1..Len(a) : a[k] = Log!Numbered(m + k)
  <2>1. \A k \in 1..Len(a) : k \in 1..(l - m)
    BY <1>3, <1>9
  <2>. QED
    BY <1>6, <2>1
<1> QED BY <1>1, <1>3, <1>6, <1>7, <1>9, <1>10

-----------------------------------------------------------------------------
(* The invariant is inductive.  *)

(* A new port has recorded nothing and its client has seen nothing.  *)
LEMMA LogInvInit ==
  ASSUME CInit
  PROVE  LogInv
<1>1. CaptureInv
  BY CaptureInvInit
<1>2. /\ events = <<>> /\ next_id = 1 /\ log = <<>> /\ lost = {} /\ answer = <<>>
      /\ cursor = 0 /\ seen = {}
  BY DEF CInit, Init
<1>3. /\ <<>> \in Seq(Entry) /\ <<>> \in Seq(Event) /\ Len(<<>>) = 0 /\ DOMAIN <<>> = {}
  BY EmptySeq
<1>4. Floor = 0
  <2>1. Len(events) = 0 /\ next_id = 1
    BY <1>2, <1>3
  <2>. QED
    BY <2>1 DEF Floor
<1>5. Len(log) <= MaxFrames /\ next_id = Len(log) + 1 /\ cursor \in 0..Len(log) /\ 1..cursor = {}
  BY <1>2, <1>3, ClientsAssumption
<1>6. 1..Floor \subseteq lost
  BY <1>4
<1> QED BY <1>1, <1>2, <1>3, <1>5, <1>6, Zenon DEF LogInv

(* Bytes received and a clear of the raw ring touch neither the events nor *)
(* a client.                                                               *)
LEMMA LogInvApart ==
  ASSUME LogInv, CaptureInv', UNCHANGED <<events, next_id, log, lost, answer, cursor, seen>>
  PROVE  LogInv'
<1>1. /\ events' = events /\ next_id' = next_id /\ log' = log /\ lost' = lost
      /\ answer' = answer /\ cursor' = cursor /\ seen' = seen
  OBVIOUS
<1>2. Floor' = Floor /\ \A i : Log!Numbered(i)' = Log!Numbered(i)
  BY <1>1 DEF Floor, Log!Numbered
<1> QED BY <1>1, <1>2 DEF LogInv, Ids

(* A push writes the entry next_id of the log and the event of that id; an *)
(* eviction moves the floor over the id that it loses.                     *)
LEMMA LogInvRecordFrame ==
  ASSUME LogInv, NEW data \in Frames, NEW label \in Label \cup {NoLabel},
         RecordFrame(data, label)
  PROVE  LogInv'
<1> DEFINE ev == [id |-> next_id, data |-> data, matched_rule |-> label]
           entry == [data |-> data, matched_rule |-> label]
           new == RingPush(events, MaxEvents, ev)
<1>1. CaptureInv'
  BY CaptureInvRecordFrame DEF LogInv
<1>2. /\ events' = new /\ next_id' = next_id + 1 /\ log' = Append(log, entry)
      /\ lost' = lost \cup (Ids(ToSet(events)) \ Ids(ToSet(new)))
      /\ answer' = answer /\ cursor' = cursor /\ seen' = seen
      /\ Len(log) < MaxFrames
  BY DEF RecordFrame, PushEvent
<1>3. ev \in Event /\ entry \in Entry /\ MaxEvents \in Nat
  BY ClientsAssumption, CaptureAssumption DEF Event, Entry, LogInv, CaptureInv, TypeOK
<1>4. events \in Seq(Event) /\ log \in Seq(Entry) /\ next_id = Len(log) + 1
  BY DEF LogInv, CaptureInv, TypeOK
<1>5. /\ ev.id = next_id /\ ev.data = data /\ ev.matched_rule = label
      /\ entry.data = data /\ entry.matched_rule = label
  OBVIOUS
<1> HIDE DEF ev, entry
<1>6. /\ new \in Seq(Event)
      /\ Len(new) = IF Len(events) = MaxEvents /\ events # <<>>
                    THEN Len(events) ELSE Len(events) + 1
      /\ new[Len(new)] = ev
      /\ \A i \in 1..(Len(new) - 1) : new[i] = events[Len(events) + 1 - Len(new) + i]
  BY <1>3, <1>4, RingPushProperties
<1> HIDE DEF new
<1>7. PICK n \in Nat, n2 \in Nat, l \in Nat, f \in Nat :
        /\ n = Len(events) /\ DOMAIN events = 1..n
        /\ n2 = Len(new) /\ DOMAIN new = 1..n2
        /\ l = Len(log) /\ f = Floor /\ f + n = l /\ next_id = l + 1
  BY <1>4, <1>6, Retained, LenProperties
<1>8. (n2 = n \/ n2 = n + 1) /\ (n = 0 => n2 = 1)
  BY <1>4, <1>6, <1>7, EmptySeq
<1>9. Floor' = l + 1 - n2
  BY <1>2, <1>7 DEF Floor
<1>10. /\ log' \in Seq(Entry) /\ Len(log') = l + 1 /\ log'[l + 1] = entry
       /\ \A i \in 1..l : log'[i] = log[i]
  BY <1>2, <1>3, <1>4, <1>7, AppendProperties
<1>11. \A i \in 1..l : Log!Numbered(i)' = Log!Numbered(i)
  BY <1>10 DEF Log!Numbered
<1>12. Log!Numbered(l + 1)' = ev
  BY <1>5, <1>7, <1>10 DEF Log!Numbered, ev
<1>13. \A i \in 1..n : events[i] = Log!Numbered(f + i) /\ events[i].id = f + i
  BY <1>7, Retained DEF LogInv
<1>14. ASSUME NEW i \in 1..n2
       PROVE  new[i] = Log!Numbered(l + 1 - n2 + i)'
  <2>1. CASE i = n2
    BY <1>6, <1>7, <1>12, <2>1
  <2>2. CASE i # n2
    <3>1. i \in 1..(n2 - 1) /\ n + 1 - n2 + i \in 1..n
          /\ f + (n + 1 - n2 + i) = l + 1 - n2 + i /\ l + 1 - n2 + i \in 1..l
      BY <1>7, <1>8, <2>2
    <3>2. new[i] = events[n + 1 - n2 + i]
      BY <1>6, <1>7, <3>1
    <3>3. events[n + 1 - n2 + i] = Log!Numbered(l + 1 - n2 + i)
      BY <1>13, <3>1
    <3>. QED
      BY <1>11, <3>1, <3>2, <3>3
  <2>. QED
    BY <2>1, <2>2
<1>15. \A i \in 1..n2 : new[i].id = l + 1 - n2 + i
  <2>1. \A x : Log!Numbered(x)'.id = x
    BY DEF Log!Numbered
  <2>. QED
    BY <1>14, <2>1
<1>16. lost' \subseteq Nat
  <2>1. \A x \in Ids(ToSet(events)) : x \in Nat
    BY <1>7, <1>13 DEF Ids, ToSet
  <2>. QED
    BY <1>2, <2>1 DEF LogInv
<1>17. 1..(l + 1 - n2) \subseteq lost'
  <2> SUFFICES ASSUME NEW x \in 1..(l + 1 - n2) PROVE x \in lost'
    OBVIOUS
  <2>1. CASE x \in 1..f
    BY <1>2, <1>7, <2>1 DEF LogInv
  <2>2. CASE x \notin 1..f
    <3>1. n2 = n /\ x = f + 1 /\ 1 \in 1..n
      BY <1>7, <1>8, <2>2
    <3>2. x \in Ids(ToSet(events))
      BY <1>7, <1>13, <3>1 DEF Ids, ToSet
    <3>3. \A i \in 1..n2 : new[i].id # x
      BY <1>7, <1>15, <3>1
    <3>4. x \notin Ids(ToSet(new))
      BY <1>7, <3>3 DEF Ids, ToSet
    <3>. QED
      BY <1>2, <3>2, <3>4
  <2>. QED
    BY <2>1, <2>2
<1>18. cursor' \in 0..Len(log') /\ 1..cursor \subseteq 1..l
  BY <1>2, <1>7, <1>10 DEF LogInv
<1>19. \A e \in seen : e.id \in 1..cursor /\ e = Log!Numbered(e.id)'
  BY <1>11, <1>18 DEF LogInv
<1>20. 1..cursor' \subseteq Ids(seen') \cup lost' /\ seen' \subseteq Event
  BY <1>2 DEF LogInv
<1>21. Len(log') <= MaxFrames /\ next_id' = Len(log') + 1 /\ answer' \in Seq(Event)
  BY <1>2, <1>7, <1>10, ClientsAssumption DEF LogInv
<1>22. \A i \in DOMAIN events' : events'[i] = Log!Numbered(Floor + i)'
  BY <1>2, <1>7, <1>9, <1>14
<1>23. \A e \in seen' : e.id \in 1..cursor' /\ e = Log!Numbered(e.id)'
  BY <1>2, <1>19
<1>24. 1..Floor' \subseteq lost'
  BY <1>9, <1>17
<1> QED BY <1>1, <1>10, <1>16, <1>18, <1>20, <1>21, <1>22, <1>23, <1>24 DEF LogInv

(* A clear loses every id still retained: the floor is the end of the log.  *)
LEMMA LogInvWipeEvents ==
  ASSUME LogInv, WipeEvents
  PROVE  LogInv'
<1>1. CaptureInv'
  BY CaptureInvClear DEF LogInv
<1>2. /\ events' = <<>> /\ next_id' = next_id /\ log' = log
      /\ lost' = lost \cup Ids(ToSet(events))
      /\ answer' = answer /\ cursor' = cursor /\ seen' = seen
  BY DEF WipeEvents, ClearEvents
<1>3. PICK n \in Nat, l \in Nat, f \in Nat :
        /\ n = Len(events) /\ DOMAIN events = 1..n
        /\ l = Len(log) /\ f = Floor /\ f + n = l /\ next_id = l + 1
  BY Retained DEF LogInv
<1>4. \A i \in 1..n : events[i].id = f + i
  BY <1>3, Retained
<1>5. Len(<<>>) = 0 /\ DOMAIN <<>> = {}
  BY EmptySeq
<1>6. Floor' = l
  BY <1>2, <1>3, <1>5 DEF Floor
<1>7. \A i : Log!Numbered(i)' = Log!Numbered(i)
  BY <1>2 DEF Log!Numbered
<1>8. lost' \subseteq Nat
  <2>1. \A x \in Ids(ToSet(events)) : x \in Nat
    BY <1>3, <1>4 DEF Ids, ToSet
  <2>. QED
    BY <1>2, <2>1 DEF LogInv
<1>9. 1..Floor' \subseteq lost'
  <2> SUFFICES ASSUME NEW x \in 1..l PROVE x \in lost'
    BY <1>6
  <2>1. CASE x \in 1..f
    BY <1>2, <1>3, <2>1 DEF LogInv
  <2>2. CASE x \notin 1..f
    <3>1. x - f \in 1..n /\ f + (x - f) = x
      BY <1>3, <2>2
    <3>2. x \in Ids(ToSet(events))
      BY <1>3, <1>4, <3>1 DEF Ids, ToSet
    <3>. QED
      BY <1>2, <3>2
  <2>. QED
    BY <2>1, <2>2
<1>10. \A i \in DOMAIN events' : events'[i] = Log!Numbered(Floor + i)'
  BY <1>2, <1>5
<1>11. /\ log' \in Seq(Entry) /\ Len(log') <= MaxFrames /\ next_id' = Len(log') + 1
       /\ answer' \in Seq(Event) /\ cursor' \in 0..Len(log') /\ seen' \subseteq Event
       /\ 1..cursor' \subseteq Ids(seen') \cup lost'
  BY <1>2 DEF LogInv
<1>12. \A e \in seen' : e.id \in 1..cursor' /\ e = Log!Numbered(e.id)'
  BY <1>2, <1>7 DEF LogInv
<1> QED BY <1>1, <1>8, <1>9, <1>10, <1>11, <1>12 DEF LogInv

(* A query touches only the answer.  *)
LEMMA LogInvQuery ==
  ASSUME LogInv, NEW since \in Nat, Query(since)
  PROVE  LogInv'
<1>1. /\ events' = events /\ next_id' = next_id /\ raw' = raw /\ stream' = stream
      /\ log' = log /\ lost' = lost /\ cursor' = cursor /\ seen' = seen
      /\ answer' = EventsSince(since)
  BY DEF Query, capture_vars
<1>2. CaptureInv'
  BY <1>1, CaptureInvStutter DEF LogInv, capture_vars
<1>3. Floor' = Floor /\ \A i : Log!Numbered(i)' = Log!Numbered(i)
  BY <1>1 DEF Floor, Log!Numbered
<1>4. EventsSince(since) \in Seq(Event)
  <2>1. Log!Larger(since, Floor) \in Nat
    BY Retained DEF Log!Larger
  <2>. QED
    BY <2>1, QueryAnswers
<1> QED BY <1>1, <1>2, <1>3, <1>4 DEF LogInv, Ids

(* A poll takes every entry from the cursor, or from the floor above it,   *)
(* to the end of the log, and puts the cursor there: what it skips is      *)
(* below the floor, and lost.                                              *)
LEMMA LogInvPoll ==
  ASSUME LogInv, Poll
  PROVE  /\ LogInv'
         /\ \A k \in 1..Len(answer') : answer'[k].id > cursor
<1>1. /\ events' = events /\ next_id' = next_id /\ raw' = raw /\ stream' = stream
      /\ log' = log /\ lost' = lost
      /\ answer' = EventsSince(cursor)
      /\ cursor' = IF answer' = <<>> THEN cursor ELSE Last(answer').id
      /\ seen' = seen \cup ToSet(answer')
  BY DEF Poll, capture_vars
<1>2. CaptureInv'
  BY <1>1, CaptureInvStutter DEF LogInv, capture_vars
<1>3. Floor' = Floor /\ \A i : Log!Numbered(i)' = Log!Numbered(i)
  BY <1>1 DEF Floor, Log!Numbered
<1>4. PICK l \in Nat, f \in Nat : l = Len(log) /\ f = Floor /\ f <= l
  <2>1. /\ Len(events) \in Nat /\ Len(log) \in Nat /\ Floor \in Nat
        /\ Floor + Len(events) = Len(log)
    BY Retained
  <2>2. Floor <= Len(log)
    BY <2>1
  <2>. QED
    BY <2>1, <2>2
<1>5. cursor \in 0..l /\ cursor \in Nat
  BY <1>4 DEF LogInv
<1>6. PICK c \in Nat, m \in Nat : c = cursor /\ m = Log!Larger(c, Floor)
  BY <1>4, <1>5 DEF Log!Larger
<1> DEFINE a == EventsSince(c)
<1>a. a = EventsSince(c)
  OBVIOUS
<1> HIDE DEF a
<1>7. /\ m \in Nat /\ m >= cursor /\ m >= f /\ (m = cursor \/ m = f)
      /\ a \in Seq(Event)
      /\ Len(a) = IF m <= l THEN l - m ELSE 0
      /\ \A k \in 1..Len(a) : a[k] = Log!Numbered(m + k)
  <2>1. /\ m \in Nat /\ m >= c /\ m >= Floor /\ (m = c \/ m = Floor)
        /\ a \in Seq(Event)
        /\ Len(a) = IF m <= Len(log) THEN Len(log) - m ELSE 0
        /\ \A k \in 1..Len(a) : a[k] = Log!Numbered(m + k)
    <3>1. m = Log!Larger(c, Floor) /\ a = EventsSince(c)
      BY <1>6, <1>a
    <3>2. m >= c /\ m >= Floor /\ (m = c \/ m = Floor)
      BY <3>1, QueryAnswers
    <3>3. a \in Seq(Event) /\ Len(a) = IF m <= Len(log) THEN Len(log) - m ELSE 0
      BY <3>1, QueryAnswers
    <3>4. \A k \in 1..Len(a) : a[k] = Log!Numbered(m + k)
      BY <3>1, QueryAnswers
    <3>. QED
      BY <3>2, <3>3, <3>4
  <2>. QED
    BY <1>4, <1>6, <2>1
<1>8. m <= l /\ Len(a) = l - m /\ DOMAIN a = 1..(l - m)
  BY <1>4, <1>5, <1>7, LenProperties
<1>9. \A x : Log!Numbered(x).id = x
  BY DEF Log!Numbered
<1>10. \A k \in 1..(l - m) : a[k] = Log!Numbered(m + k) /\ a[k].id = m + k
  BY <1>7, <1>8, <1>9
<1>11. cursor' \in Nat /\ cursor' <= l /\ m + (l - m) = l /\ (l - m = 0 \/ cursor' = l)
       /\ cursor' >= cursor /\ (cursor' = cursor \/ l > m)
  <2>1. CASE a = <<>>
    <3>1. Len(a) = 0
      BY <2>1, EmptySeq
    <3>2. cursor' = cursor
      BY <1>1, <1>6, <1>a, <2>1
    <3>. QED
      BY <1>4, <1>5, <1>7, <1>8, <3>1, <3>2
  <2>2. CASE a # <<>>
    <3>1. Len(a) # 0
      BY <1>7, <2>2, EmptySeq
    <3>2. l - m \in 1..(l - m) /\ m + (l - m) = l
      BY <1>7, <1>8, <3>1
    <3>3. cursor' = a[l - m].id
      BY <1>1, <1>6, <1>8, <1>a, <2>2 DEF Last
    <3>4. cursor' = l
      BY <1>10, <3>2, <3>3
    <3>. QED
      BY <1>5, <1>7, <3>2, <3>4
  <2>. QED
    BY <2>1, <2>2
<1>12. ToSet(a) \subseteq Event /\ ToSet(a) = {a[k] : k \in 1..(l - m)}
  <2>1. \A k \in 1..Len(a) : a[k] \in Event
    BY <1>7, ElementOfSeq
  <2>. QED
    BY <1>8, <2>1 DEF ToSet
<1>13. \A e \in ToSet(a) : e.id \in 1..cursor' /\ e = Log!Numbered(e.id)
  <2> SUFFICES ASSUME NEW k \in 1..(l - m)
               PROVE  a[k].id \in 1..cursor' /\ a[k] = Log!Numbered(a[k].id)
    BY <1>12
  <2>1. a[k].id = m + k /\ a[k] = Log!Numbered(m + k)
    BY <1>10
  <2>2. m + k \in 1..cursor'
    BY <1>7, <1>8, <1>11
  <2>. QED
    BY <2>1, <2>2
<1>14. \A e \in seen : e.id \in 1..cursor' /\ e = Log!Numbered(e.id)
  <2>1. 1..cursor \subseteq 1..cursor'
    BY <1>5, <1>11
  <2>. QED
    BY <2>1 DEF LogInv
<1>15. ASSUME NEW x \in 1..cursor'
       PROVE  x \in Ids(seen') \cup lost
  <2>1. CASE x \in 1..cursor
    BY <1>1, <2>1 DEF LogInv, Ids
  <2>2. CASE x \in 1..f
    BY <1>4, <2>2 DEF LogInv
  <2>3. CASE x \notin 1..cursor /\ x \notin 1..f
    <3>1. x - m \in 1..(l - m) /\ m + (x - m) = x
      BY <1>5, <1>7, <1>8, <1>11, <2>3
    <3>2. a[x - m] \in ToSet(a) /\ a[x - m].id = x
      BY <1>10, <1>12, <3>1
    <3>. QED
      BY <1>1, <1>6, <1>a, <3>2 DEF Ids
  <2>. QED
    BY <2>1, <2>2, <2>3
<1>16. /\ events' = events /\ Floor' = Floor /\ log' = log /\ lost' = lost
       /\ answer' \in Seq(Event) /\ cursor' \in 0..Len(log') /\ seen' \subseteq Event
  BY <1>1, <1>3, <1>4, <1>6, <1>7, <1>a, <1>11, <1>12 DEF LogInv
<1>17. \A e \in seen' : e.id \in 1..cursor' /\ e = Log!Numbered(e.id)'
  BY <1>1, <1>3, <1>6, <1>13, <1>14, <1>a
<1>18. 1..cursor' \subseteq Ids(seen') \cup lost'
  BY <1>15, <1>16
<1>19. /\ \A i \in DOMAIN events' : events'[i] = Log!Numbered(Floor + i)'
       /\ log' \in Seq(Entry) /\ Len(log') <= MaxFrames /\ next_id' = Len(log') + 1
       /\ lost' \subseteq Nat /\ 1..Floor' \subseteq lost'
  BY <1>1, <1>3, <1>16 DEF LogInv
<1>20. LogInv'
  BY <1>2, <1>16, <1>17, <1>18, <1>19 DEF LogInv
<1>21. \A k \in 1..Len(answer') : answer'[k].id > cursor
  <2>1. \A k \in 1..(l - m) : a[k].id > cursor
    BY <1>5, <1>7, <1>8, <1>10
  <2>. QED
    BY <1>1, <1>6, <1>8, <1>a, <2>1
<1> QED BY <1>20, <1>21

(* Every step keeps the invariant.  *)
LEMMA LogInvNext ==
  ASSUME LogInv, [Next]_vars
  PROVE  LogInv'
<1>1. CaptureInv'
  BY CaptureInvNext DEF LogInv
<1>2. ASSUME NEW chunk \in Chunks, ReceiveChunk(chunk)
      PROVE  LogInv'
  BY <1>1, <1>2, LogInvApart DEF ReceiveChunk, AppendRaw
<1>3. ASSUME NEW data \in Frames, NEW label \in Label \cup {NoLabel}, RecordFrame(data, label)
      PROVE  LogInv'
  BY <1>3, LogInvRecordFrame
<1>4. CASE WipeRaw
  BY <1>1, <1>4, LogInvApart DEF WipeRaw, ClearRaw
<1>5. CASE WipeEvents
  BY <1>5, LogInvWipeEvents
<1>6. ASSUME NEW since \in 0..MaxFrames, Query(since)
      PROVE  LogInv'
  <2>1. since \in Nat
    BY ClientsAssumption
  <2>. QED
    BY <1>6, <2>1, LogInvQuery
<1>7. CASE Poll
  BY <1>7, LogInvPoll
<1>8. CASE UNCHANGED vars
  BY <1>1, <1>8, LogInvApart DEF vars, capture_vars, history_vars
<1> QED BY <1>2, <1>3, <1>4, <1>5, <1>6, <1>7, <1>8 DEF Next

(* The invariant holds throughout every behaviour.  *)
THEOREM LogInvariance == Spec => []LogInv
<1>1. CInit => LogInv
  BY LogInvInit
<1>2. LogInv /\ [Next]_vars => LogInv'
  BY LogInvNext
<1> QED BY <1>1, <1>2, PTL DEF Spec

-----------------------------------------------------------------------------
(* What a polling client may conclude.  *)

(* The buffers, the log and what the clients hold are well typed.  *)
THEOREM ClientsTyped == Spec => []ClientsTypeOK
<1>1. LogInv => ClientsTypeOK
  <2> SUFFICES ASSUME LogInv PROVE ClientsTypeOK
    OBVIOUS
  <2>1. /\ TypeOK /\ stream \in Seq(Byte) /\ log \in Seq(Entry) /\ lost \subseteq Nat
        /\ answer \in Seq(Event) /\ seen \subseteq Event /\ cursor \in 0..Len(log)
    BY DEF LogInv, CaptureInv
  <2>2. cursor \in Nat
    BY <2>1, Retained
  <2>. QED
    BY <2>1, <2>2 DEF ClientsTypeOK
<1> QED BY <1>1, LogInvariance, PTL

(* A client that polls with the last id it saw misses no event but those   *)
(* that had left the buffer, and what it holds under an id is what was     *)
(* recorded under it (events_since, push_event).                           *)
THEOREM NothingSilentlyLost == Spec => []NoSilentLoss
<1>1. LogInv => NoSilentLoss
  <2> SUFFICES ASSUME LogInv PROVE NoSilentLoss
    OBVIOUS
  <2>1. 1..cursor \subseteq Ids(seen) \cup lost
    BY DEF LogInv
  <2>2. ASSUME NEW e \in seen
        PROVE  log[e.id] = [data |-> e.data, matched_rule |-> e.matched_rule]
    <3>1. e.id \in 1..cursor /\ e = Log!Numbered(e.id) /\ cursor \in 0..Len(log)
          /\ log \in Seq(Entry)
      BY DEF LogInv
    <3>2. e.id \in 1..Len(log)
      BY <3>1, Retained
    <3>3. log[e.id] \in Entry
      BY <3>1, <3>2, ElementOfSeq
    <3>4. e.data = log[e.id].data /\ e.matched_rule = log[e.id].matched_rule
      BY <3>1 DEF Log!Numbered
    <3>. QED
      BY <3>3, <3>4 DEF Entry
  <2>. QED
    BY <2>1, <2>2 DEF NoSilentLoss
<1> QED BY <1>1, LogInvariance, PTL

(* No answer to a poll repeats an event of an earlier one: what a client   *)
(* has lies at or below its cursor, and events_since answers above it.     *)
THEOREM NothingRedelivered == Spec => NoRedelivery
<1>1. LogInv /\ [Next]_vars
        => [cursor' # cursor => Ids(ToSet(answer')) \cap Ids(seen) = {}]_vars
  <2> SUFFICES ASSUME LogInv, [Next]_vars, cursor' # cursor
               PROVE  Ids(ToSet(answer')) \cap Ids(seen) = {}
    OBVIOUS
  <2>1. Poll
    BY DEF Next, vars, capture_vars, history_vars, ReceiveChunk, RecordFrame, WipeRaw, WipeEvents,
           Query
  <2>2. \A k \in 1..Len(answer') : answer'[k].id > cursor
    BY <2>1, LogInvPoll
  <2>3. answer' \in Seq(Event)
    BY <2>1, LogInvPoll DEF LogInv
  <2>4. ToSet(answer') = {answer'[k] : k \in 1..Len(answer')}
    BY <2>3, LenProperties DEF ToSet
  <2>5. \A x \in Ids(ToSet(answer')) : x > cursor
    BY <2>2, <2>4 DEF Ids
  <2>6. cursor \in Nat
    BY Retained DEF LogInv
  <2>7. \A x \in Ids(seen) : x \in 1..cursor
    BY DEF LogInv, Ids
  <2>. QED
    BY <2>5, <2>6, <2>7
<1> QED BY <1>1, LogInvariance, PTL DEF Spec, NoRedelivery

-----------------------------------------------------------------------------
(* The refinement.  *)

(* A step of the capture and its clients is a step of the log, or leaves   *)
(* it alone.  An eviction is the log's: the buffer is full exactly when    *)
(* the log would hold more than its capacity, and never if that is 0.      *)
LEMMA LogStep ==
  ASSUME LogInv, Fits, [Next]_vars
  PROVE  [Log!Next]_(Log!vars)
<1>1. CASE UNCHANGED <<events, next_id, log, answer>>
  BY <1>1 DEF Log!vars
<1>2. ASSUME NEW data \in Frames, NEW label \in Label \cup {NoLabel}, RecordFrame(data, label)
      PROVE  Log!Record(data, label)
  <2> DEFINE ev == [id |-> next_id, data |-> data, matched_rule |-> label]
  <2>1. /\ events' = RingPush(events, MaxEvents, ev) /\ next_id' = next_id + 1
        /\ log' = Append(log, [data |-> data, matched_rule |-> label]) /\ answer' = answer
    BY <1>2 DEF RecordFrame, PushEvent
  <2>2. ev \in Event /\ MaxEvents \in Nat /\ events \in Seq(Event)
    BY ClientsAssumption, CaptureAssumption DEF Event, LogInv, CaptureInv, TypeOK
  <2> HIDE DEF ev
  <2>3. Len(events') = IF Len(events) = MaxEvents /\ events # <<>>
                       THEN Len(events) ELSE Len(events) + 1
    BY <2>1, <2>2, RingPushProperties
  <2>4. Len(events) = MaxEvents => (events # <<>> <=> MaxEvents > 0)
    BY <2>2, EmptySeq
  <2>5. Len(events) \in Nat /\ Len(log) \in Nat /\ next_id = Len(log) + 1
    BY Retained DEF LogInv
  <2>6. next_id' - 1 - Len(events')
          = IF MaxEvents > 0 /\ Len(log) + 1 > next_id - 1 - Len(events) + MaxEvents
            THEN next_id - 1 - Len(events) + 1 ELSE next_id - 1 - Len(events)
    <3>1. PICK n \in Nat, n2 \in Nat, l \in Nat, max \in Nat :
            /\ n = Len(events) /\ n2 = Len(events') /\ l = Len(log) /\ max = MaxEvents
            /\ n2 = IF max > 0 /\ n = max THEN n ELSE n + 1
      BY <2>2, <2>3, <2>4, <2>5
    <3>2. next_id = l + 1 /\ next_id' = l + 2 /\ (max = 0 \/ n <= max)
      BY <2>1, <2>5, <3>1 DEF Fits
    <3>3. max > 0 /\ l + 1 > l + 1 - 1 - n + max <=> max > 0 /\ n = max
      BY <3>1, <3>2
    <3>4. l + 2 - 1 - n2 = IF max > 0 /\ n = max THEN l + 1 - 1 - n + 1 ELSE l + 1 - 1 - n
      BY <3>1
    <3>5. next_id' - 1 - Len(events') = l + 2 - 1 - n2
      BY <3>1, <3>2
    <3>6. next_id - 1 - Len(events) = l + 1 - 1 - n
      BY <3>1, <3>2
    <3>7. MaxEvents > 0 /\ Len(log) + 1 > next_id - 1 - Len(events) + MaxEvents
            <=> max > 0 /\ n = max
      BY <3>1, <3>3, <3>6
    <3>. QED
      BY <3>4, <3>5, <3>6, <3>7, Zenon
  <2>. QED
    BY <2>1, <2>6 DEF Log!Record
<1>3. ASSUME WipeEvents
      PROVE  Log!Forget
  <2>1. events' = <<>> /\ next_id' = next_id /\ log' = log /\ answer' = answer
    BY <1>3 DEF WipeEvents, ClearEvents
  <2>2. Len(events') = 0
    BY <2>1, EmptySeq
  <2>3. Len(log) \in Nat /\ next_id = Len(log) + 1
    BY Retained DEF LogInv
  <2>. QED
    BY <2>1, <2>2, <2>3 DEF Log!Forget
<1>4. ASSUME NEW since \in 0..MaxFrames, answer' = EventsSince(since),
             UNCHANGED <<events, next_id, log>>
      PROVE  Log!Query(since)
  <2>1. since \in Nat
    BY ClientsAssumption
  <2>2. Log!Larger(since, Floor) \in Nat
    BY <2>1, Retained DEF Log!Larger
  <2>3. answer' = Log!From(Log!Larger(since, Floor) + 1)
    BY <1>4, <2>1, <2>2, QueryAnswers
  <2>. QED
    BY <1>4, <2>3 DEF Log!Query, Floor
<1>5. CASE Poll
  <2>1. PICK c \in 0..MaxFrames : c = cursor
    BY ClientsAssumption, Retained DEF LogInv
  <2>2. answer' = EventsSince(c) /\ UNCHANGED <<events, next_id, log>>
    BY <1>5, <2>1 DEF Poll, capture_vars
  <2>3. Log!Query(c)
    BY <1>4, <2>2
  <2>. QED
    BY <2>3 DEF Log!Next
<1>6. ASSUME NEW since \in 0..MaxFrames, Query(since)
      PROVE  Log!Query(since)
  BY <1>4, <1>6 DEF Query, capture_vars
<1>7. CASE Next
  BY <1>1, <1>2, <1>3, <1>5, <1>6, <1>7
     DEF Next, Log!Next, ReceiveChunk, AppendRaw, WipeRaw, ClearRaw
<1>8. CASE UNCHANGED vars
  BY <1>1, <1>8 DEF vars, capture_vars, history_vars
<1> QED BY <1>7, <1>8

(* The buffer and its answers implement the append-only log of EventLog,   *)
(* for every maximum: id n stays with the n-th event pushed, and an event  *)
(* leaves only by a clear or as the oldest of a full buffer.  A buffer of  *)
(* maximum 0 is never full.                                                *)
THEOREM CaptureIsALog == Spec => ImplementsEventLog
<1>1. CInit => Log!Init
  <2> SUFFICES ASSUME CInit PROVE Log!Init
    OBVIOUS
  <2>1. events = <<>> /\ next_id = 1 /\ log = <<>> /\ answer = <<>>
    BY DEF CInit, Init
  <2>2. Len(events) = 0 /\ next_id = 1
    BY <2>1, EmptySeq
  <2>3. next_id - 1 - Len(events) = 0
    BY <2>2
  <2>. QED
    BY <2>1, <2>3 DEF Log!Init
<1>2. LogInv /\ Fits /\ [Next]_vars => [Log!Next]_(Log!vars)
  BY LogStep
<1> QED BY <1>1, <1>2, LogInvariance, EventsFit, PTL DEF Spec, ImplementsEventLog
=============================================================================
