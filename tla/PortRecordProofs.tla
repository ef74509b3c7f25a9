-------------------------- MODULE PortRecordProofs --------------------------
(***************************************************************************)
(* Proofs about the record of PortRecord: that responses serialize on the  *)
(* line, that the reader implements Framer, that no byte read is lost and  *)
(* that answers and events agree; and with the facts about framings of     *)
(* FramerProofs, that every buffer of Port holds bytes of the line.  They  *)
(* hold for every configuration, any number of connections and reloads,    *)
(* and every bound.                                                        *)
(***************************************************************************)
EXTENDS PortProofs, PortRecord, SequenceLemmas

(* The tuples of variables, wherever they occur.  *)
USE DEF config_vars, capture_vars, reader_vars, conn_vars, reload_vars, env_vars, port_vars,
        mutex, outer_vars, Goto

-----------------------------------------------------------------------------
(* Responses on the line. *)

(* The answers on the line so far. *)
Answer == [by : Thread, label : Label \cup {None}, response : Seq(Byte), bytes : Seq(Byte)]

BytesOf(answers) == [i \in DOMAIN answers |-> answers[i].bytes]

(* Whoever is inside write_all has yet to write the end of its response    *)
(* from the n-th byte on.                                                  *)
WrittenTo(n) ==
  /\ Response(writer) \in Seq(Byte)
  /\ n \in 0..Len(Response(writer))
  /\ out = SubSeq(Response(writer), n + 1, Len(Response(writer)))

(* The line carries whole responses and then what has been written of one. *)
SerialInv ==
  /\ wire \in Seq(Byte) /\ answered \in Seq(Answer) /\ label \in Label \cup {None}
  /\ writer # None => \E n \in Nat : WrittenTo(n)
  /\ OneAfterAnother

(* What a trigger or a rule writes are bytes. *)
LEMMA ResponseTyped ==
  /\ \A s \in Scenario : \A t \in DOMAIN s.triggers : s.triggers[t] \in Seq(Byte)
  /\ \A s \in Scenario : \A i \in DOMAIN s.rules : s.rules[i].response \in Seq(Byte)
<1>1. \A s \in Scenario : \A t \in DOMAIN s.triggers : s.triggers[t] \in Responses
  BY DEF Responses
<1>2. \A s \in Scenario : \A i \in DOMAIN s.rules : s.rules[i].response \in Responses
  BY DEF Responses
<1> QED
  BY <1>1, <1>2, ResponsesAreBytes

(* The bytes of one more answer. *)
LEMMA BytesOfAppend ==
  ASSUME NEW answers \in Seq(Answer), NEW a \in Answer
  PROVE  /\ BytesOf(answers) \in Seq(Seq(Byte))
         /\ BytesOf(Append(answers, a)) = Append(BytesOf(answers), a.bytes)
<1>1. PICK n \in Nat : n = Len(answers)
  BY LenProperties
<1>2. DOMAIN answers = 1..n /\ \A i \in 1..n : answers[i] \in Answer
  BY <1>1, LenProperties, ElementOfSeq
<1> DEFINE more == Append(answers, a)
<1>3. /\ DOMAIN more = 1..(n + 1) /\ more[n + 1] = a /\ \A i \in 1..n : more[i] = answers[i]
  BY <1>1, AppendProperties, LenProperties
<1> HIDE DEF more
<1>4. BytesOf(answers) \in Seq(Seq(Byte)) /\ Len(BytesOf(answers)) = n
  BY <1>2 DEF BytesOf, Answer
<1>5. BytesOf(more) \in Seq(Seq(Byte)) /\ Len(BytesOf(more)) = n + 1
  <2>1. \A i \in 1..(n + 1) : more[i].bytes \in Seq(Byte)
    <3> TAKE i \in 1..(n + 1)
    <3>1. CASE i = n + 1
      BY <1>3, <3>1 DEF Answer
    <3>2. CASE i # n + 1
      BY <1>2, <1>3, <3>2 DEF Answer
    <3> QED BY <3>1, <3>2
  <2> QED BY <1>3, <2>1 DEF BytesOf
<1> DEFINE both == Append(BytesOf(answers), a.bytes)
<1>6. /\ both \in Seq(Seq(Byte)) /\ Len(both) = n + 1 /\ both[n + 1] = a.bytes
      /\ \A i \in 1..n : both[i] = BytesOf(answers)[i]
  BY <1>4, AppendProperties DEF Answer
<1> HIDE DEF both
<1>7. \A i \in 1..(n + 1) : BytesOf(more)[i] = both[i]
  <2> TAKE i \in 1..(n + 1)
  <2>1. BytesOf(more)[i] = more[i].bytes
    BY <1>3 DEF BytesOf
  <2>2. i # n + 1 => BytesOf(answers)[i] = answers[i].bytes
    BY <1>2 DEF BytesOf
  <2>3. i = n + 1 \/ i \in 1..n
    OBVIOUS
  <2>4. CASE i = n + 1
    BY <1>3, <1>6, <2>1, <2>4
  <2>5. CASE i \in 1..n /\ i # n + 1
    BY <1>3, <1>6, <2>1, <2>2, <2>5
  <2> QED BY <2>3, <2>4, <2>5
<1>8. BytesOf(more) = both
  BY <1>5, <1>6, <1>7, SeqEqual
<1> QED
  BY <1>4, <1>8 DEF more, both

LEMMA EmptyBytes == BytesOf(<<>>) = <<>>
<1>1. BytesOf(<<>>) \in Seq(Seq(Byte)) /\ Len(BytesOf(<<>>)) = 0
  BY DEF BytesOf
<1> QED
  BY <1>1, EmptySeq

LEMMA BytesOfTyped == \A answers \in Seq(Answer) : BytesOf(answers) \in Seq(Seq(Byte))
<1> TAKE answers \in Seq(Answer)
<1>1. PICK n \in Nat : n = Len(answers)
  BY LenProperties
<1>2. DOMAIN answers = 1..n /\ \A i \in 1..n : answers[i] \in Answer
  BY <1>1, LenProperties, ElementOfSeq
<1>3. \A i \in 1..n : answers[i].bytes \in Seq(Byte)
  BY <1>2 DEF Answer
<1>4. [i \in 1..n |-> answers[i].bytes] \in Seq(Seq(Byte))
  BY <1>3
<1> QED
  BY <1>2, <1>4 DEF BytesOf

(* Having written up to the n-th byte, n bytes are on the line. *)
LEMMA WrittenPartIs ==
  ASSUME NEW n \in Nat, WrittenTo(n)
  PROVE  /\ Len(out) = Len(Response(writer)) - n
         /\ WrittenPart(writer) = SubSeq(Response(writer), 1, n)
         /\ WrittenPart(writer) \in Seq(Byte)
<1> DEFINE r == Response(writer)
<1>1. r \in Seq(Byte) /\ out = SubSeq(r, n + 1, Len(r))
  BY DEF WrittenTo
<1>2. PICK l \in Nat : l = Len(r)
  BY <1>1, LenProperties
<1>3. n \in 0..l
  BY <1>2 DEF WrittenTo
<1>4. \A i \in 1..l : r[i] \in Byte
  BY <1>1, <1>2, ElementOfSeq
<1> HIDE DEF r
<1>5. Len(out) = l - n
  <2>1. n + 1 \in Int /\ l \in Int /\ \A i \in (n + 1)..l : r[i] \in Byte
    BY <1>3, <1>4
  <2>2. Len(SubSeq(r, n + 1, l)) = IF n + 1 <= l THEN l - (n + 1) + 1 ELSE 0
    BY <2>1, SubSeqProperties
  <2> QED BY <1>1, <1>2, <1>3, <2>2
<1>6. SubSeq(r, 1, n) \in Seq(Byte)
  BY <1>3, <1>4, SubSeqProperties
<1>7. WrittenPart(writer) = SubSeq(r, 1, l - (l - n))
  BY <1>2, <1>5 DEF WrittenPart, r
<1>8. l - (l - n) = n
  BY <1>3
<1> QED
  BY <1>2, <1>5, <1>6, <1>7, <1>8 DEF r

(* A step that neither takes nor gives up the Mutex, writes nothing, and   *)
(* leaves the response of the writer as it is.                             *)
QuietLine ==
  /\ UNCHANGED mutex
  /\ wire' = wire \/ (wire # <<>> /\ wire' = Tail(wire))
  /\ label' \in Label \cup {None}
  /\ writer = Reader => snap'[Reader] = snap[Reader] /\ label' = label
  /\ writer \in Conn => snap'[writer] = snap[writer] /\ req'[writer] = req[writer]

LEMMA SerialQuiet ==
  ASSUME ControlInv, WriterHeld, SerialInv, QuietLine, ObserveLine
  PROVE  SerialInv'
<1>1. writer' = writer /\ out' = out
  BY DEF QuietLine
<1>2. wire' \in Seq(Byte) /\ Len(wire') <= Len(wire)
  <2>1. CASE wire' = wire
    BY <2>1, LenProperties DEF SerialInv
  <2>2. CASE wire # <<>> /\ wire' = Tail(wire)
    BY <2>2, HeadTailProperties, LenProperties DEF SerialInv
  <2> QED BY <2>1, <2>2 DEF QuietLine
<1>3. wrote' = wrote /\ answered' = answered
  <2>1. ~(Len(wire') > Len(wire))
    BY <1>2, LenProperties DEF SerialInv
  <2> QED BY <1>1, <2>1 DEF ObserveLine
<1>4. writer # None => Response(writer)' = Response(writer)
  <2>1. writer # None => writer = Reader \/ (writer \in Conn /\ writer # Reader)
    BY PortAssumption DEF ControlInv, ControlTypeOK, WriterHeld, SwapPlaces, Thread
  <2>2. CASE writer = Reader
    BY <1>1, <2>2 DEF QuietLine, Response
  <2>3. CASE writer \in Conn /\ writer # Reader
    BY <1>1, <2>3 DEF QuietLine, Response
  <2> QED BY <2>1, <2>2, <2>3
<1>5. ASSUME writer # None, NEW n \in Nat PROVE WrittenTo(n)' <=> WrittenTo(n)
  BY <1>1, <1>4, <1>5 DEF WrittenTo
<1>6. writer # None => WrittenPart(writer)' = WrittenPart(writer)
  BY <1>1, <1>4 DEF WrittenPart
<1> QED
  BY <1>1, <1>2, <1>3, <1>5, <1>6 DEF SerialInv, OneAfterAnother, QuietLine

(* Taking the Mutex puts nothing on the line. *)
LEMMA SerialLock ==
  ASSUME SerialInv, NEW t \in Thread, NEW bytes \in Seq(Byte), Lock(t, bytes),
         Response(t)' = bytes, wire' = wire, label' \in Label \cup {None}, ObserveLine
  PROVE  SerialInv'
<1>1. writer = None /\ writer' = t /\ t # None
  BY PortAssumption DEF Lock
<1>2. out' = bytes /\ Response(writer)' = bytes
  BY <1>1 DEF Lock
<1>3. wrote' = wrote /\ answered' = answered
  BY <1>1 DEF ObserveLine, SerialInv
<1>4. PICK n \in Nat : n = Len(bytes)
  BY LenProperties
<1>5. WrittenTo(0)'
  <2>1. SubSeq(bytes, 0 + 1, n) = bytes
    BY <1>4, SubSeqFull
  <2>2. 0 \in 0..n
    BY <1>4
  <2> QED BY <1>2, <1>4, <2>1, <2>2 DEF WrittenTo
<1>6. WrittenPart(writer)' = <<>>
  <2>1. n - n = 0 /\ SubSeq(bytes, 1, 0) = <<>>
    BY SubSeqEmpty
  <2> QED BY <1>2, <1>4, <2>1 DEF WrittenPart
<1>7. OneAfterAnother'
  BY <1>1, <1>3, <1>6 DEF SerialInv, OneAfterAnother
<1> QED
  BY <1>3, <1>5, <1>7 DEF SerialInv

(* Each byte written is the next of the response. *)
LEMMA SerialWrite ==
  ASSUME ControlInv, WriterHeld, SerialInv, NEW t \in Thread, WriteByte(t), ObserveLine
  PROVE  SerialInv'
<1>1. writer = t /\ t # None /\ out # <<>>
  BY PortAssumption DEF WriteByte, WriterHeld
<1>2. /\ wire' = Append(wire, Head(out)) /\ out' = Tail(out)
      /\ UNCHANGED <<writer, snap, req, label>>
  BY DEF WriteByte
<1>3. PICK n \in Nat : WrittenTo(n)
  BY <1>1 DEF SerialInv
<1> DEFINE r == Response(writer)
           fl == FlattenSeq(BytesOf(answered))
<1>4. r \in Seq(Byte) /\ n \in 0..Len(r) /\ out = SubSeq(r, n + 1, Len(r))
  BY <1>3 DEF WrittenTo
<1>5. Response(writer)' = r
  BY <1>2 DEF Response
<1>6. wrote = fl \o SubSeq(r, 1, n)
  BY <1>1, <1>3, WrittenPartIs DEF SerialInv, OneAfterAnother, BytesOf
<1>7. fl \in Seq(Byte)
  BY FlattenTyped, BytesOfTyped DEF SerialInv
<1>8. PICK l \in Nat : l = Len(r)
  BY <1>4, LenProperties
<1> HIDE DEF r, fl
<1>9. n < l
  <2>1. CASE n = l
    <3>1. SubSeq(r, n + 1, l) = <<>>
      BY <2>1, SubSeqEmpty
    <3> QED BY <1>1, <1>4, <1>8, <3>1
  <2> QED BY <1>4, <1>8, <2>1
<1>10. n + 1 \in 1..l /\ l \in (n + 1)..l
  BY <1>9
<1>11. Head(out) = r[n + 1] /\ out' = SubSeq(r, (n + 1) + 1, l)
  BY <1>2, <1>4, <1>8, <1>10, HeadTailOfSubSeq
<1>12. r[n + 1] \in Byte
  BY <1>4, <1>8, <1>10, ElementOfSeq
<1>13. WrittenTo(n + 1)'
  BY <1>4, <1>5, <1>8, <1>10, <1>11 DEF WrittenTo
<1>14. WrittenPart(writer)' = SubSeq(r, 1, n + 1)
  <2>1. Len(out') = l - (n + 1)
    <3>1. (n + 1) + 1 \in Int /\ \A i \in ((n + 1) + 1)..l : r[i] \in Byte
      BY <1>4, <1>8, ElementOfSeq
    <3>2. Len(SubSeq(r, (n + 1) + 1, l)) = IF (n + 1) + 1 <= l THEN l - ((n + 1) + 1) + 1 ELSE 0
      BY <3>1, SubSeqProperties
    <3> QED BY <1>9, <1>11, <3>2
  <2>2. l - (l - (n + 1)) = n + 1
    OBVIOUS
  <2> QED BY <1>5, <1>8, <2>1, <2>2 DEF WrittenPart
<1>15. SubSeq(r, 1, n + 1) = SubSeq(r, 1, n) \o <<r[n + 1]>> /\ SubSeq(r, 1, n) \in Seq(Byte)
  <2>1. PICK m \in 1..l : m = n + 1
    BY <1>10
  <2>2. 1 \in 1..l /\ m \in 1..l /\ m - 1 = n
    BY <2>1
  <2>3. SubSeq(r, 1, m) = SubSeq(r, 1, m - 1) \o <<r[m]>>
    BY <1>4, <1>8, <2>2, SubSeqRecursiveSecond
  <2>4. \A i \in 1..n : r[i] \in Byte
    BY <1>4, <1>8, ElementOfSeq
  <2>5. SubSeq(r, 1, n) \in Seq(Byte)
    BY <2>4, SubSeqProperties
  <2> QED BY <2>1, <2>2, <2>3, <2>5
<1>16. /\ wire' \in Seq(Byte) /\ Len(wire') = Len(wire) + 1 /\ Len(wire) \in Nat
       /\ wire'[Len(wire) + 1] = r[n + 1]
  BY <1>2, <1>11, <1>12, AppendProperties, LenProperties DEF SerialInv
<1>17. wrote' = Append(wrote, r[n + 1]) /\ answered' = answered
  <2>1. Len(wire') > Len(wire) /\ Last(wire') = r[n + 1]
    BY <1>16 DEF Last
  <2> QED BY <1>1, <1>2, <2>1 DEF ObserveLine
<1>18. wrote' = fl \o SubSeq(r, 1, n + 1)
  <2>1. wrote \in Seq(Byte)
    BY <1>6, <1>7, <1>15, ConcatProperties
  <2>2. wrote' = wrote \o <<r[n + 1]>> /\ <<r[n + 1]>> \in Seq(Byte)
    BY <1>12, <1>17, <2>1, AppendIsConcat
  <2> DEFINE before == SubSeq(r, 1, n)
             now == <<r[n + 1]>>
  <2>3. before \in Seq(Byte) /\ now \in Seq(Byte)
    BY <1>15, <2>2
  <2>4. wrote' = (fl \o before) \o now /\ SubSeq(r, 1, n + 1) = before \o now
    BY <1>6, <1>15, <2>2
  <2> HIDE DEF before, now
  <2>5. (fl \o before) \o now = fl \o (before \o now)
    BY <1>7, <2>3, ConcatAssociative
  <2> QED BY <2>4, <2>5
<1>19. OneAfterAnother'
  BY <1>1, <1>2, <1>14, <1>17, <1>18 DEF OneAfterAnother, BytesOf, fl
<1>20. n + 1 \in Nat
  OBVIOUS
<1> QED
  BY <1>2, <1>13, <1>16, <1>17, <1>19, <1>20 DEF SerialInv

(* Giving the Mutex up files what was written as an answer. *)
LEMMA SerialUnlock ==
  ASSUME ControlInv, WriterHeld, SerialInv, NEW t \in Thread, pc[t] = "write", Unlock,
         wire' = wire, label' = label, ObserveLine
  PROVE  SerialInv'
<1>1. writer = t /\ t # None /\ writer' = None
  BY PortAssumption DEF Unlock, WriterHeld
<1>2. PICK n \in Nat : WrittenTo(n)
  BY <1>1 DEF SerialInv
<1> DEFINE part == WrittenPart(writer)
           a == [by |-> writer, label |-> IF writer = Reader THEN label ELSE None,
                 response |-> Response(writer), bytes |-> part]
           fl == FlattenSeq(BytesOf(answered))
<1>3. part \in Seq(Byte)
  BY <1>2, WrittenPartIs
<1>4. a \in Answer
  BY <1>1, <1>2, <1>3 DEF Answer, SerialInv, WrittenTo
<1>5. answered' = Append(answered, a)
  BY <1>1 DEF ObserveLine
<1>6. wrote' = wrote
  BY DEF ObserveLine, SerialInv
<1>7. wrote = fl \o part
  BY <1>1 DEF SerialInv, OneAfterAnother, BytesOf
<1>8. answered \in Seq(Answer) /\ a.bytes = part
  BY DEF SerialInv
<1>9. fl \in Seq(Byte)
  BY <1>8, FlattenTyped, BytesOfTyped
<1> HIDE DEF part, a
<1>10. BytesOf(answered') = Append(BytesOf(answered), part) /\ BytesOf(answered) \in Seq(Seq(Byte))
  BY <1>4, <1>5, <1>8, BytesOfAppend
<1>11. FlattenSeq(BytesOf(answered')) = fl \o part
  BY <1>3, <1>10, FlattenAppend
<1> HIDE DEF fl
<1>12. (fl \o part) \o <<>> = fl \o part
  <2>1. fl \o part \in Seq(Byte)
    BY <1>3, <1>9, ConcatProperties
  <2> QED BY <2>1, ConcatEmptySeq
<1>13. OneAfterAnother'
  BY <1>1, <1>6, <1>7, <1>11, <1>12 DEF OneAfterAnother, BytesOf
<1>14. answered' \in Seq(Answer)
  BY <1>4, <1>5, <1>8, AppendProperties
<1> QED
  BY <1>1, <1>13, <1>14 DEF SerialInv

(* Every step of the reader keeps the line serial. *)
LEMMA SerialReader ==
  ASSUME ControlInv, WriterHeld, SerialInv, ReaderStep, ObserveLine
  PROVE  SerialInv'
<1> USE DEF ControlInv, ControlTypeOK
<1>1. Reader \in Thread /\ Reader # None /\ Reader \notin Conn
  BY PortAssumption DEF Thread
<1>2. label \in Label \cup {None} /\ (pc[Reader] # "write" => writer # Reader)
  BY <1>1 DEF SerialInv, WriterHeld
<1>3. \A c \in Conn : snap'[c] = snap[c] /\ req'[c] = req[c]
  BY <1>1, ReaderAlone DEF Thread
<1>q. ASSUME UNCHANGED <<mutex, wire>>, label' \in Label \cup {None}, pc[Reader] # "write"
      PROVE  SerialInv'
  BY <1>2, <1>3, <1>q, SerialQuiet DEF QuietLine
<1>a. CASE Snapshot
  BY <1>2, <1>a, <1>q DEF Snapshot
<1>b. CASE PollReady
  BY <1>2, <1>b, <1>q DEF PollReady
<1>c. CASE PollTimeout
  BY <1>2, <1>c, <1>q DEF PollTimeout
<1>d. CASE \E n \in 1..Len(input) : Read(n)
  BY <1>2, <1>d, <1>q DEF Read
<1>e. CASE Eof
  BY <1>2, <1>e, <1>q DEF Eof
<1>f. CASE AppendRaw
  BY <1>2, <1>f, <1>q DEF AppendRaw
<1>g. CASE TakeFrame
  BY <1>2, <1>g, <1>q DEF TakeFrame
<1>h. CASE MatchFrame
  <2>1. CASE label' = None /\ UNCHANGED <<mutex>>
    BY <1>h, <1>q, <2>1 DEF MatchFrame
  <2>2. ASSUME NEW i \in MatchInputRule(snap[Reader], Head(frames)),
               Lock(Reader, snap[Reader].rules[i].response), label' = <<snap[Reader].name, i>>
        PROVE  SerialInv'
    <3>1. snap[Reader] \in Scenario /\ i \in DOMAIN snap[Reader].rules
      BY <1>h DEF MatchFrame, SnapTaken, MatchInputRule
    <3>2. snap[Reader].rules[i].response \in Seq(Byte)
      BY <3>1, ResponseTyped
    <3>3. label' \in Label
      BY <2>2, <3>1 DEF Label
    <3>4. label'[2] = i
      BY <2>2
    <3>5. snap' = snap /\ wire' = wire
      BY <1>h DEF MatchFrame
    <3>6. Response(Reader)' = snap[Reader].rules[i].response
      BY <3>4, <3>5 DEF Response
    <3> QED
      BY <1>1, <2>2, <3>2, <3>3, <3>5, <3>6, SerialLock
  <2> QED BY <1>h, <2>1, <2>2 DEF MatchFrame
<1>i. CASE WriteByte(Reader)
  BY <1>1, <1>i, SerialWrite
<1>j. CASE FrameAnswered
  <2>1. /\ pc[Reader] = "write" /\ Unlock /\ wire' = wire /\ label' = label
    BY <1>j DEF FrameAnswered, Written, WriteFailed
  <2> QED BY <1>1, <2>1, SerialUnlock
<1>k. CASE PushFrame
  BY <1>2, <1>k, <1>q DEF PushFrame
<1> QED
  BY <1>a, <1>b, <1>c, <1>d, <1>e, <1>f, <1>g, <1>h, <1>i, <1>j, <1>k DEF ReaderStep

(* And every step of a connection. *)
LEMMA SerialConn ==
  ASSUME ControlInv, WriterHeld, SerialInv, NEW c \in Conn,
         ConnStep(c) \/ \E r \in Requests : Begin(c, r), ObserveLine
  PROVE  SerialInv'
<1> USE DEF ControlInv, ControlTypeOK
<1>1. c \in Thread /\ c # Reader /\ Conn \subseteq Thread /\ Reader \in Thread
  BY PortAssumption DEF Thread
<1>2. label \in Label \cup {None} /\ (pc[c] # "write" => writer # c)
  BY <1>1 DEF SerialInv, WriterHeld
<1>3. /\ \A d \in Conn \ {c} : snap'[d] = snap[d] /\ req'[d] = req[d]
      /\ snap'[Reader] = snap[Reader] /\ label' = label
  BY <1>1, ConnAlone
<1>q. ASSUME UNCHANGED <<mutex, wire>>, pc[c] # "write"
      PROVE  SerialInv'
  BY <1>2, <1>3, <1>q, SerialQuiet DEF QuietLine
<1>a. CASE \E r \in Requests : Begin(c, r)
  BY <1>a, <1>q DEF Begin
<1>b. CASE TriggerSnapshot(c)
  BY <1>b, <1>q DEF TriggerSnapshot
<1>c. CASE TriggerLock(c)
  <2>1. snap[c] \in Scenario /\ req[c].name \in DOMAIN snap[c].triggers
    BY <1>c DEF TriggerLock, SnapTaken
  <2>2. snap[c].triggers[req[c].name] \in Seq(Byte)
    BY <2>1, ResponseTyped
  <2>3. Response(c)' = snap[c].triggers[req[c].name]
    BY <1>1, <1>c DEF TriggerLock, Response
  <2>4. Lock(c, snap[c].triggers[req[c].name]) /\ wire' = wire
    BY <1>c DEF TriggerLock
  <2> QED
    BY <1>1, <1>2, <1>3, <2>2, <2>3, <2>4, SerialLock
<1>d. CASE TriggerUnknown(c)
  BY <1>d, <1>q DEF TriggerUnknown
<1>e. CASE WriteByte(c)
  BY <1>1, <1>e, SerialWrite
<1>f. CASE TriggerDone(c)
  <2>1. pc[c] = "write" /\ Unlock /\ wire' = wire
    BY <1>f DEF TriggerDone, Written, WriteFailed
  <2> QED BY <1>1, <1>3, <2>1, SerialUnlock
<1>g. CASE SwitchLookup(c)
  BY <1>g, <1>q DEF SwitchLookup
<1>h. CASE SwitchStore(c)
  BY <1>h, <1>q DEF SwitchStore
<1>i. CASE DescribeActive(c)
  BY <1>i, <1>q DEF DescribeActive
<1>j. CASE DescribeCompiled(c)
  BY <1>j, <1>q DEF DescribeCompiled
<1>k. CASE ReadCapture(c)
  BY <1>k, <1>q DEF ReadCapture
<1>l. CASE ClearCapture(c)
  BY <1>l, <1>q DEF ClearCapture
<1> QED
  BY <1>a, <1>b, <1>c, <1>d, <1>e, <1>f, <1>g, <1>h, <1>i, <1>j, <1>k, <1>l DEF ConnStep

(* Every step keeps SerialInv. *)
LEMMA SerialNext == ControlInv /\ WriterHeld /\ SerialInv /\ [RNext]_rvars => SerialInv'
<1> SUFFICES ASSUME ControlInv, WriterHeld, SerialInv, [RNext]_rvars PROVE SerialInv'
  OBVIOUS
<1>1. CASE UNCHANGED rvars
  BY <1>1 DEF rvars, vars, record, SerialInv, OneAfterAnother, WrittenTo, WrittenPart, Response
<1>2. CASE RNext
  <2>1. Next /\ ObserveLine
    BY <1>2 DEF RNext
  <2>2. Reader \notin Conn /\ Reloader \notin Conn /\ Reader # Reloader /\ Conn \subseteq Thread
        /\ Reader \in Thread
    BY PortAssumption DEF Thread
  <2>3. CASE ClientRead \/ Hangup \/ \E b \in Byte : ClientSend(b)
    <3>1. QuietLine
      BY <2>3 DEF ClientRead, Hangup, ClientSend, QuietLine, SerialInv
    <3> QED BY <2>1, <3>1, SerialQuiet
  <2>4. CASE ReaderStep
    BY <2>1, <2>4, SerialReader
  <2>5. ASSUME NEW c \in Conn, ConnStep(c) \/ \E r \in Requests : Begin(c, r)
        PROVE  SerialInv'
    BY <2>1, <2>5, SerialConn
  <2>6. CASE SwapStep \/ \E cfg \in Config : SwapBegin(cfg)
    <3>1. /\ \A c \in Conn : snap'[c] = snap[c]
          /\ snap'[Reader] = snap[Reader]
          /\ UNCHANGED <<reader_vars, conn_vars, mutex, wire>>
      BY <2>2, <2>6, SwapAlone
    <3>2. QuietLine
      BY <3>1 DEF QuietLine, SerialInv
    <3> QED BY <2>1, <3>2, SerialQuiet
  <2> QED
    BY <2>1, <2>3, <2>4, <2>5, <2>6 DEF Next
<1> QED
  BY <1>1, <1>2

(* Nothing is on the line at first. *)
LEMMA SerialInit == RInit => ControlInv /\ WriterHeld /\ SerialInv
<1> SUFFICES ASSUME RInit PROVE ControlInv /\ WriterHeld /\ SerialInv
  OBVIOUS
<1>1. ControlInv
  BY ControlInit DEF RInit
<1>2. WriterHeld
  BY PortAssumption DEF RInit, Init, WriterHeld, Thread
<1>3. /\ wire = <<>> /\ answered = <<>> /\ wrote = <<>> /\ label = None /\ writer = None
  BY DEF RInit, Init
<1>4. BytesOf(answered) = <<>>
  BY <1>3, EmptyBytes
<1>5. <<>> \o <<>> = <<>>
  BY EmptySeq, ConcatEmptySeq
<1>6. OneAfterAnother
  BY <1>3, <1>4, <1>5, FlattenEmpty DEF OneAfterAnother, BytesOf
<1>7. SerialInv
  BY <1>3, <1>6 DEF SerialInv
<1> QED
  BY <1>1, <1>2, <1>7

(* What is on the line of a response and what is left to write spell it. *)
LEMMA RestIsLeft == SerialInv /\ writer # None => WrittenPart(writer) \o out = Response(writer)
<1> SUFFICES ASSUME SerialInv, writer # None
             PROVE  WrittenPart(writer) \o out = Response(writer)
  OBVIOUS
<1>1. PICK n \in Nat : WrittenTo(n)
  BY DEF SerialInv
<1> DEFINE r == Response(writer)
<1>2. /\ r \in Seq(Byte) /\ n \in 0..Len(r)
      /\ out = SubSeq(r, n + 1, Len(r)) /\ WrittenPart(writer) = SubSeq(r, 1, n)
  BY <1>1, WrittenPartIs DEF WrittenTo
<1> HIDE DEF r
<1>3. SubSeq(r, 1, n) \o SubSeq(r, n + 1, Len(r)) = r
  BY <1>2, RestTyped
<1> QED
  BY <1>2, <1>3 DEF r

(* The responses of triggers and of input rules serialize: the line        *)
(* carries what was written of each, one after another, then the beginning *)
(* of the one being written, of which the bytes left to write are the      *)
(* rest, for any number of writers and any responses.                      *)
THEOREM ResponsesAlwaysSerialize == RSpec => []ResponsesSerialize
<1>1. [RNext]_rvars => [Next]_vars
  BY DEF RNext, rvars
<1>2. SerialInv => ResponsesSerialize
  BY RestIsLeft DEF SerialInv, ResponsesSerialize
<1> QED
  BY <1>1, <1>2, SerialInit, ControlNext, WriterNext, SerialNext, PTL DEF RSpec

-----------------------------------------------------------------------------
(* Framings: what a push and a quiet gap do to the bytes. *)

(* The facts about framings, for the framings of this port. *)
FP == INSTANCE FramerProofs WITH
        Configs   <- {cfg.framing : cfg \in Config},
        MaxChunk  <- MaxSent,
        MaxStream <- MaxSent,
        stream    <- FedStream,
        reloads   <- taken

LEMMA SameDrain == \A s, b : F!Drain(s, b) = FP!Drain(s, b)
<1>1. \A s, b : F!DelimiterCut(s, b) = FP!DelimiterCut(s, b)
  BY DEF F!DelimiterCut, FP!DelimiterCut, F!Cut, FP!Cut, F!FindSubslice, FP!FindSubslice
<1>2. \A s, b : F!FixedCut(s, b) = FP!FixedCut(s, b)
  BY DEF F!FixedCut, FP!FixedCut, F!Cut, FP!Cut
<1>3. \A s, b : F!LengthPrefixedCut(s, b) = FP!LengthPrefixedCut(s, b)
  BY DEF F!LengthPrefixedCut, FP!LengthPrefixedCut, F!Cut, FP!Cut, F!LengthEnd,
         FP!LengthEnd, F!Total, FP!Total, F!Malformed, FP!Malformed, F!ReadUint,
         FP!ReadUint, F!Reverse, FP!Reverse
<1>4. \A s, b : F!Cuts(s, b) = FP!Cuts(s, b)
  BY <1>1, <1>2, <1>3 DEF F!Cuts, FP!Cuts
<1> SUFFICES ASSUME NEW s, NEW b PROVE F!Drain(s, b) = FP!Drain(s, b)
  OBVIOUS
<1> DEFINE Turn(c, drain, x) ==
             IF c = {} THEN [frames |-> <<>>, buf |-> x]
             ELSE LET cut  == CHOOSE y \in c : TRUE
                      rest == drain[SubSeq(x, cut.used + 1, Len(x))]
                  IN  [frames |-> <<cut.frame>> \o rest.frames, buf |-> rest.buf]
           G(drain) == [x \in Seq(0..255) |-> Turn(F!Cuts(s, x), drain, x)]
           H(drain) == [x \in Seq(0..255) |-> Turn(FP!Cuts(s, x), drain, x)]
<1>5. F!Drain(s, b) = (CHOOSE drain : drain = G(drain))[b]
  BY DEF F!Drain, F!Octet
<1>6. FP!Drain(s, b) = (CHOOSE drain : drain = H(drain))[b]
  BY DEF FP!Drain, FP!Octet
<1>7. ASSUME NEW drain PROVE G(drain) = H(drain)
  <2> HIDE DEF Turn
  <2> QED
    BY <1>4
<1> HIDE DEF G, H
<1>8. (CHOOSE drain : drain = G(drain)) = (CHOOSE drain : drain = H(drain))
  BY <1>7, Zenon
<1> QED
  BY <1>5, <1>6, <1>8

LEMMA PortFraming == FP!FramingAssumption /\ FP!FramerAssumption
<1>1. FP!FramingAssumption
  BY PortAssumption DEF FP!FramingAssumption
<1>2. \A cfg \in Config : FP!WellTyped(cfg.framing) /\ FP!Validate(cfg.framing)
  BY FramingsAreValid DEF FP!WellTyped, FP!Validate, F!WellTyped, F!Validate, FP!Octet, F!Octet
<1>3. Byte \subseteq FP!Octet
  BY FramingsAreValid DEF FP!Octet, F!Octet
<1> QED
  BY <1>1, <1>2, <1>3, PortAssumption DEF FP!FramerAssumption

LEMMA SameFraming ==
  /\ \A s, b, c : F!Push(s, b, c) = FP!Push(s, b, c)
  /\ \A s : F!Separator(s) = FP!Separator(s)
  /\ \A q : FlattenSeq(q) = FP!FlattenSeq(q)
  /\ \A s, b : F!OnIdle(s, b) = FP!OnIdle(s, b)
  /\ \A cfg : F!FromConfig(cfg) = FP!FromConfig(cfg)
  /\ FP!Specs = Framings
<1>1. \A s, b, c : F!Push(s, b, c) = FP!Push(s, b, c)
  BY SameDrain DEF F!Push, FP!Push, F!Overflows, FP!Overflows
<1>2. \A s : F!Separator(s) = FP!Separator(s)
  BY DEF F!Separator, FP!Separator
<1>3. \A q : FlattenSeq(q) = FP!FlattenSeq(q)
  BY DEF FlattenSeq, FP!FlattenSeq
<1>4. \A s, b : F!OnIdle(s, b) = FP!OnIdle(s, b)
  BY DEF F!OnIdle, FP!OnIdle
<1>5. \A cfg : F!FromConfig(cfg) = FP!FromConfig(cfg)
  BY DEF F!FromConfig, FP!FromConfig
<1>6. FP!Specs = Framings
  BY <1>5 DEF FP!Specs, Framings
<1> QED
  BY <1>1, <1>2, <1>3, <1>4, <1>5, <1>6

(* The framer that PortRecord names, and the one FramerProofs speaks of.   *)
LEMMA SameFramer ==
  /\ \A s, b : Fr!Drain(s, b) = FP!Drain(s, b)
  /\ \A s, b, c : Fr!Push(s, b, c) = FP!Push(s, b, c)
  /\ \A q, c : Fr!Fed(q, c) = FP!Fed(q, c)
  /\ \A q : Fr!Flushed(q) = FP!Flushed(q)
<1>1. \A s, b : Fr!Drain(s, b) = FP!Drain(s, b)
  <2>1. \A s, b : Fr!DelimiterCut(s, b) = FP!DelimiterCut(s, b)
    BY DEF Fr!DelimiterCut, FP!DelimiterCut, Fr!Cut, FP!Cut, Fr!FindSubslice, FP!FindSubslice
  <2>2. \A s, b : Fr!FixedCut(s, b) = FP!FixedCut(s, b)
    BY DEF Fr!FixedCut, FP!FixedCut, Fr!Cut, FP!Cut
  <2>3. \A s, b : Fr!LengthPrefixedCut(s, b) = FP!LengthPrefixedCut(s, b)
    BY DEF Fr!LengthPrefixedCut, FP!LengthPrefixedCut, Fr!Cut, FP!Cut, Fr!LengthEnd,
           FP!LengthEnd, Fr!Total, FP!Total, Fr!Malformed, FP!Malformed, Fr!ReadUint,
           FP!ReadUint, Fr!Reverse, FP!Reverse
  <2>4. \A s, b : Fr!Cuts(s, b) = FP!Cuts(s, b)
    BY <2>1, <2>2, <2>3 DEF Fr!Cuts, FP!Cuts
  <2> SUFFICES ASSUME NEW s, NEW b PROVE Fr!Drain(s, b) = FP!Drain(s, b)
    OBVIOUS
  <2> DEFINE Turn(c, drain, x) ==
               IF c = {} THEN [frames |-> <<>>, buf |-> x]
               ELSE LET cut  == CHOOSE y \in c : TRUE
                        rest == drain[SubSeq(x, cut.used + 1, Len(x))]
                    IN  [frames |-> <<cut.frame>> \o rest.frames, buf |-> rest.buf]
             G(drain) == [x \in Seq(0..255) |-> Turn(Fr!Cuts(s, x), drain, x)]
             H(drain) == [x \in Seq(0..255) |-> Turn(FP!Cuts(s, x), drain, x)]
  <2>5. Fr!Drain(s, b) = (CHOOSE drain : drain = G(drain))[b]
    BY DEF Fr!Drain, Fr!Octet
  <2>6. FP!Drain(s, b) = (CHOOSE drain : drain = H(drain))[b]
    BY DEF FP!Drain, FP!Octet
  <2>7. ASSUME NEW drain PROVE G(drain) = H(drain)
    <3> HIDE DEF Turn
    <3> QED
      BY <2>4
  <2> HIDE DEF G, H
  <2>8. (CHOOSE drain : drain = G(drain)) = (CHOOSE drain : drain = H(drain))
    BY <2>7, Zenon
  <2> QED
    BY <2>5, <2>6, <2>8
<1>2. \A s, b, c : Fr!Push(s, b, c) = FP!Push(s, b, c)
  BY <1>1 DEF Fr!Push, FP!Push, Fr!Overflows, FP!Overflows
<1>3. \A s, b : Fr!Malformed(s, b) <=> FP!Malformed(s, b)
  BY DEF Fr!Malformed, FP!Malformed, Fr!Total, FP!Total, Fr!LengthEnd, FP!LengthEnd,
         Fr!ReadUint, FP!ReadUint, Fr!Reverse, FP!Reverse
<1>4. \A f, k : Fr!Emit(f, k) = FP!Emit(f, k)
  BY DEF Fr!Emit, FP!Emit, Fr!Separator, FP!Separator
<1>5. \A q, c : Fr!Fed(q, c) = FP!Fed(q, c)
  BY <1>1, <1>3, <1>4 DEF Fr!Fed, FP!Fed
<1>6. \A q : Fr!Flushed(q) = FP!Flushed(q)
  BY <1>4 DEF Fr!Flushed, FP!Flushed
<1> QED
  BY <1>1, <1>2, <1>5, <1>6

(* Every framing in use is one that the service may run. *)
LEMMA FramingsRun == \A sp \in Framings : FP!Runnable(sp.strategy)
<1> TAKE sp \in Framings
<1>1. PICK cfg \in Config : sp = F!FromConfig(cfg.framing)
  BY DEF Framings
<1>2. sp.strategy = cfg.framing
  BY <1>1 DEF F!FromConfig
<1>3. F!WellTyped(cfg.framing) /\ F!Validate(cfg.framing)
  BY FramingsAreValid
<1> QED
  BY <1>2, <1>3 DEF FP!Runnable, FP!WellTyped, FP!Validate, F!WellTyped, F!Validate, FP!Octet, F!Octet

(* No separator: nothing is put behind the frames. *)
LEMMA WithNothing ==
  ASSUME NEW B, NEW q \in Seq(Seq(B))
  PROVE  FP!With(q, <<>>) = q
<1>1. PICK n \in Nat : n = Len(q) /\ DOMAIN q = 1..n
  BY LenProperties
<1>2. \A i \in 1..n : q[i] \in Seq(B)
  BY <1>1, ElementOfSeq
<1>3. \A i \in 1..n : q[i] \o <<>> = q[i]
  BY <1>2, ConcatEmptySeq
<1>4. q = [i \in 1..n |-> q[i]]
  BY <1>1
<1>5. FP!With(q, <<>>) = [i \in 1..n |-> q[i] \o <<>>]
  BY <1>1 DEF FP!With
<1> QED
  BY <1>3, <1>4, <1>5

(* What a push cuts are bytes that arrived, and, where no delimiter is     *)
(* dropped, all of them.                                                   *)
LEMMA PushKeeps ==
  ASSUME NEW sp \in Framings, NEW b \in Seq(Byte), NEW c \in Seq(Byte)
  PROVE  /\ F!Push(sp, b, c).frames \in Seq(Seq(Byte)) /\ F!Push(sp, b, c).buf \in Seq(Byte)
         /\ F!Separator(sp.strategy) = <<>> =>
              FlattenSeq(F!Push(sp, b, c).frames) \o F!Push(sp, b, c).buf = b \o c
<1> DEFINE s == sp.strategy
           x == b \o c
           d == FP!Drain(s, x)
           p == FP!Push(sp, b, c)
<1>1. FP!Runnable(s)
  BY FramingsRun
<1>2. x \in Seq(Byte) /\ x \in Seq(FP!Octet) /\ Byte \in SUBSET FP!Octet
  <2>1. Byte \subseteq FP!Octet
    BY FramingsAreValid DEF F!Octet, FP!Octet
  <2>2. x \in Seq(Byte)
    BY ConcatProperties
  <2> QED BY <2>1, <2>2, SeqMonotonic
<1> HIDE DEF s, x
<1>3. d.frames \in Seq(Seq(Byte)) /\ d.buf \in Seq(Byte)
  BY <1>1, <1>2, PortFraming, FP!DrainTyped
<1>4. FP!Separator(s) = <<>> => FlattenSeq(d.frames) \o d.buf = x
  <2> SUFFICES ASSUME FP!Separator(s) = <<>> PROVE FlattenSeq(d.frames) \o d.buf = x
    OBVIOUS
  <2>1. FP!FlattenSeq(FP!With(d.frames, FP!Separator(s))) \o d.buf = x
    BY <1>1, <1>2, PortFraming, FP!DrainConserves
  <2>2. FP!With(d.frames, FP!Separator(s)) = d.frames
    BY <1>3, WithNothing
  <2> QED BY <2>1, <2>2, SameFraming
<1> HIDE DEF d
<1>5. p = IF FP!Overflows(sp, d.buf)
          THEN [frames |-> Append(d.frames, d.buf), buf |-> <<>>] ELSE d
  BY DEF FP!Push, d, s, x
<1> HIDE DEF p
<1>6. p.frames \in Seq(Seq(Byte)) /\ p.buf \in Seq(Byte)
  <2>1. Append(d.frames, d.buf) \in Seq(Seq(Byte))
    BY <1>3, AppendProperties
  <2> QED BY <1>3, <1>5, <2>1
<1>7. FP!Separator(s) = <<>> => FlattenSeq(p.frames) \o p.buf = x
  <2> SUFFICES ASSUME FP!Separator(s) = <<>> PROVE FlattenSeq(p.frames) \o p.buf = x
    OBVIOUS
  <2>1. FlattenSeq(Append(d.frames, d.buf)) = FlattenSeq(d.frames) \o d.buf
    BY <1>3, FlattenAppend
  <2>2. x \o <<>> = x
    BY <1>2, ConcatEmptySeq
  <2>3. CASE FP!Overflows(sp, d.buf)
    <3>1. p.frames = Append(d.frames, d.buf) /\ p.buf = <<>>
      BY <1>5, <2>3
    <3> QED BY <1>4, <2>1, <2>2, <3>1
  <2>4. CASE ~FP!Overflows(sp, d.buf)
    BY <1>4, <1>5, <2>4
  <2> QED BY <2>3, <2>4
<1>8. F!Push(sp, b, c) = p /\ F!Separator(s) = FP!Separator(s)
  BY SameFraming DEF p
<1> QED
  BY <1>6, <1>7, <1>8 DEF s, x

(* And what a quiet gap flushes is the buffer. *)
LEMMA IdleKeeps ==
  ASSUME NEW sp, NEW b \in Seq(Byte)
  PROVE  /\ F!OnIdle(sp, b).frames \in Seq(Seq(Byte)) /\ F!OnIdle(sp, b).buf \in Seq(Byte)
         /\ FlattenSeq(F!OnIdle(sp, b).frames) \o F!OnIdle(sp, b).buf = b
<1>1. CASE sp.strategy.type = "idle_timeout" /\ b # <<>>
  <2>1. F!OnIdle(sp, b) = [frames |-> <<b>>, buf |-> <<>>]
    BY <1>1 DEF F!OnIdle
  <2>2. FlattenSeq(<<b>>) = b /\ b \o <<>> = b
    BY FlattenOne, ConcatEmptySeq
  <2> QED BY <2>1, <2>2
<1>2. CASE ~(sp.strategy.type = "idle_timeout" /\ b # <<>>)
  <2>1. F!OnIdle(sp, b) = [frames |-> <<>>, buf |-> b]
    BY <1>2 DEF F!OnIdle
  <2>2. FlattenSeq(<<>>) = <<>> /\ <<>> \o b = b
    BY FlattenEmpty, ConcatEmptySeq
  <2> QED BY <2>1, <2>2
<1> QED
  BY <1>1, <1>2

-----------------------------------------------------------------------------
(* The bytes and events in every buffer. *)

RespTyped == DOMAIN resp = Conn /\ \A c \in Conn : resp[c] # None => resp[c].status \in {200, 404}

(* The reader has frames in hand while it handles them, a chunk until it   *)
(* appends it, and a label while it writes the response of a rule.         *)
ReaderTyped ==
  /\ buf \in Seq(Byte) /\ chunk \in Seq(Byte) /\ frames \in Seq(Seq(Byte))
  /\ label \in Label \cup {None}
  /\ frames # <<>> <=> pc[Reader] \in {"frame", "match", "write", "push"}
  /\ chunk # <<>> => pc[Reader] = "append"
  /\ pc[Reader] = "write" => label \in Label

LineTyped ==
  /\ input \in Seq(Byte) /\ wire \in Seq(Byte) /\ out \in Seq(Byte)
  /\ Len(wire) <= WireCap
  /\ sent \in 0..MaxSent /\ hungup \in BOOLEAN

BufferInv == Cap!TypeOK /\ RespTyped /\ ReaderTyped /\ LineTyped

(* What a ring holds after one more entry, and after a chunk. *)
LEMMA CaptureRing ==
  ASSUME NEW S, NEW q \in Seq(S), NEW max, NEW x \in S
  PROVE  /\ Cap!RingPush(q, max, x) \in Seq(S)
         /\ Last(Cap!RingPush(q, max, x)) = x
<1> DEFINE r == IF Len(q) = max /\ q # <<>> THEN Tail(q) ELSE q
<1>1. r \in Seq(S)
  BY HeadTailProperties
<1>2. Cap!RingPush(q, max, x) = Append(r, x)
  BY DEF Cap!RingPush
<1> HIDE DEF r
<1>3. /\ Append(r, x) \in Seq(S) /\ Len(Append(r, x)) = Len(r) + 1
      /\ Append(r, x)[Len(r) + 1] = x
  BY <1>1, AppendProperties
<1> QED
  BY <1>2, <1>3 DEF Last

LEMMA CaptureTail ==
  ASSUME NEW q \in Seq(Byte)
  PROVE  Cap!LastOf(q, MaxRaw) \in Seq(Byte)
<1>1. PICK l \in Nat : l = Len(q)
  BY LenProperties
<1>2. CASE MaxRaw = 0 \/ l <= MaxRaw
  BY <1>1, <1>2 DEF Cap!LastOf
<1>3. CASE ~(MaxRaw = 0 \/ l <= MaxRaw)
  <2>1. Cap!LastOf(q, MaxRaw) = SubSeq(q, l - MaxRaw + 1, l)
    BY <1>1, <1>3 DEF Cap!LastOf
  <2>2. MaxRaw \in Nat
    BY PortAssumption
  <2>3. l - MaxRaw + 1 \in Int /\ \A i \in (l - MaxRaw + 1)..l : i \in 1..l
    BY <1>3, <2>2
  <2>4. \A i \in (l - MaxRaw + 1)..l : q[i] \in Byte
    BY <1>1, <2>3, ElementOfSeq
  <2> QED BY <2>1, <2>3, <2>4, SubSeqProperties
<1> QED
  BY <1>2, <1>3

(* Recording a frame keeps the capture's types. *)
LEMMA CaptureTyped ==
  ASSUME Cap!TypeOK
  PROVE  /\ UNCHANGED capture_vars => Cap!TypeOK'
         /\ \A c \in Seq(Byte) : Cap!AppendRaw(c) => Cap!TypeOK'
         /\ \A d \in Seq(Byte) : \A l \in Label \cup {None} :
              Cap!PushEvent(d, l) =>
                /\ Cap!TypeOK' /\ next_id' # next_id
                /\ Last(events') = [id |-> next_id, data |-> d, matched_rule |-> l]
         /\ Cap!ClearRaw \/ Cap!ClearEvents => Cap!TypeOK' /\ next_id' = next_id
<1>1. raw \in Seq(Byte) /\ events \in Seq(Cap!Event) /\ next_id \in Nat \ {0}
  BY DEF Cap!TypeOK
<1>2. UNCHANGED capture_vars => Cap!TypeOK'
  BY <1>1 DEF Cap!TypeOK
<1>3. ASSUME NEW c \in Seq(Byte), Cap!AppendRaw(c) PROVE Cap!TypeOK'
  <2>1. raw \o c \in Seq(Byte)
    BY <1>1, ConcatProperties
  <2>2. raw' \in Seq(Byte) /\ UNCHANGED <<events, next_id>>
    BY <1>3, <2>1, CaptureTail DEF Cap!AppendRaw
  <2> QED BY <1>1, <2>2 DEF Cap!TypeOK
<1>4. ASSUME NEW d \in Seq(Byte), NEW l \in Label \cup {None}, Cap!PushEvent(d, l)
      PROVE  /\ Cap!TypeOK' /\ next_id' # next_id
             /\ Last(events') = [id |-> next_id, data |-> d, matched_rule |-> l]
  <2> DEFINE e == [id |-> next_id, data |-> d, matched_rule |-> l]
  <2>1. e \in Cap!Event
    BY <1>1 DEF Cap!Event
  <2>2. events' = Cap!RingPush(events, MaxEvents, e) /\ next_id' = next_id + 1 /\ raw' = raw
    BY <1>4 DEF Cap!PushEvent
  <2> HIDE DEF e
  <2>3. events' \in Seq(Cap!Event) /\ Last(events') = e
    BY <1>1, <2>1, <2>2, CaptureRing
  <2>4. next_id' \in Nat \ {0} /\ next_id' # next_id
    BY <1>1, <2>2
  <2> QED BY <1>1, <2>2, <2>3, <2>4 DEF Cap!TypeOK, e
<1>5. Cap!ClearRaw \/ Cap!ClearEvents => Cap!TypeOK' /\ next_id' = next_id
  <2>1. Cap!ClearRaw => Cap!TypeOK' /\ next_id' = next_id
    BY <1>1 DEF Cap!ClearRaw, Cap!TypeOK
  <2>2. Cap!ClearEvents => Cap!TypeOK' /\ next_id' = next_id
    BY <1>1 DEF Cap!ClearEvents, Cap!TypeOK
  <2> QED BY <2>1, <2>2
<1> QED
  BY <1>2, <1>3, <1>4, <1>5

(* One byte written keeps the queue within its capacity. *)
LEMMA WriteTyped ==
  ASSUME LineTyped, NEW t, WriteByte(t)
  PROVE  LineTyped'
<1>1. /\ wire \in Seq(Byte) /\ out \in Seq(Byte) /\ out # <<>> /\ Len(wire) < WireCap
      /\ wire' = Append(wire, Head(out)) /\ out' = Tail(out)
      /\ UNCHANGED <<input, sent, hungup>>
  BY DEF LineTyped, WriteByte
<1>2. Head(out) \in Byte /\ Tail(out) \in Seq(Byte)
  BY <1>1, HeadTailProperties
<1>3. /\ wire' \in Seq(Byte) /\ Len(wire') = Len(wire) + 1
      /\ Len(wire) \in Nat
  BY <1>1, <1>2, AppendProperties, LenProperties
<1>4. Len(wire') <= WireCap
  BY <1>1, <1>3, PortAssumption
<1> QED
  BY <1>1, <1>2, <1>3, <1>4 DEF LineTyped

(* Every step of the reader keeps the types of the buffers. *)
LEMMA BufferReader ==
  ASSUME ControlInv, BufferInv, ReaderStep
  PROVE  BufferInv'
<1> USE DEF ControlInv, ControlTypeOK
<1>1. Reader \in Thread
  BY DEF Thread
<1>2. resp' = resp /\ (resp' = resp => RespTyped')
  BY ReaderAlone DEF BufferInv, RespTyped
<1>3. UNCHANGED capture_vars => Cap!TypeOK'
  BY CaptureTyped DEF BufferInv
<1>4. UNCHANGED <<input, wire, out, sent, hungup>> => LineTyped'
  BY DEF BufferInv, LineTyped
<1>5. ReaderTyped /\ LineTyped
  BY DEF BufferInv
<1>a. CASE Snapshot
  <2>1. ReaderTyped'
    BY <1>1, <1>5, <1>a DEF Snapshot, ReaderTyped
  <2> QED BY <1>2, <1>3, <1>4, <1>a, <2>1 DEF Snapshot, BufferInv
<1>b. CASE PollReady
  <2>1. ReaderTyped'
    BY <1>1, <1>5, <1>b DEF PollReady, ReaderTyped
  <2> QED BY <1>2, <1>3, <1>4, <1>b, <2>1 DEF PollReady, BufferInv
<1>c. CASE PollTimeout
  <2>1. buf \in Seq(Byte)
    BY <1>5 DEF ReaderTyped
  <2>2. frames' \in Seq(Seq(Byte)) /\ buf' \in Seq(Byte)
    BY <1>c, <2>1, IdleKeeps DEF PollTimeout
  <2>3. pc'[Reader] = AfterFrames(frames') /\ pc[Reader] = "poll" /\ UNCHANGED <<chunk, label>>
    BY <1>1, <1>c DEF PollTimeout
  <2>4. ReaderTyped'
    BY <1>5, <2>2, <2>3 DEF ReaderTyped, AfterFrames
  <2> QED BY <1>2, <1>3, <1>4, <1>c, <2>4 DEF PollTimeout, BufferInv
<1>d. CASE \E n \in 1..Len(input) : Read(n)
  <2>1. PICK n \in 1..Len(input) : Read(n)
    BY <1>d
  <2>2. input \in Seq(Byte)
    BY <1>5 DEF LineTyped
  <2>3. PICK l \in Nat : l = Len(input)
    BY <2>2, LenProperties
  <2>4. \A i \in 1..l : input[i] \in Byte
    BY <2>2, <2>3, ElementOfSeq
  <2>5. chunk' \in Seq(Byte)
    <3>1. chunk' = SubSeq(input, 1, n)
      BY <2>1 DEF Read
    <3>2. \A i \in 1..n : input[i] \in Byte
      BY <2>3, <2>4
    <3>3. 1 \in Int /\ n \in Int
      OBVIOUS
    <3> QED BY <3>1, <3>2, <3>3, SubSeqProperties
  <2>6. input' \in Seq(Byte)
    <3>1. input' = SubSeq(input, n + 1, l)
      BY <2>1, <2>3 DEF Read
    <3>2. \A i \in (n + 1)..l : input[i] \in Byte
      BY <2>3, <2>4
    <3>3. n + 1 \in Int /\ l \in Int
      OBVIOUS
    <3> QED BY <3>1, <3>2, <3>3, SubSeqProperties
  <2>7. /\ pc'[Reader] = "append" /\ pc[Reader] = "read"
        /\ UNCHANGED <<capture_vars, wire, out, sent, hungup, buf, frames, label>>
    BY <1>1, <2>1 DEF Read
  <2>8. ReaderTyped'
    BY <1>5, <2>5, <2>7 DEF ReaderTyped
  <2>9. LineTyped'
    BY <1>5, <2>6, <2>7 DEF LineTyped
  <2> QED BY <1>2, <1>3, <2>7, <2>8, <2>9 DEF BufferInv
<1>e. CASE Eof
  <2>1. ReaderTyped'
    BY <1>1, <1>5, <1>e DEF Eof, ReaderTyped
  <2> QED BY <1>2, <1>3, <1>4, <1>e, <2>1 DEF Eof, BufferInv
<1>f. CASE AppendRaw
  <2>1. buf \in Seq(Byte) /\ chunk \in Seq(Byte) /\ spec \in Framings
    BY <1>5 DEF ReaderTyped, Framings
  <2>2. frames' \in Seq(Seq(Byte)) /\ buf' \in Seq(Byte)
    BY <1>f, <2>1, PushKeeps DEF AppendRaw
  <2>3. /\ pc'[Reader] = AfterFrames(frames') /\ pc[Reader] = "append" /\ chunk' = <<>>
        /\ label' = label
    BY <1>1, <1>f DEF AppendRaw
  <2>4. ReaderTyped'
    BY <1>5, <2>2, <2>3 DEF ReaderTyped, AfterFrames
  <2>5. Cap!TypeOK'
    BY <1>f, <2>1, CaptureTyped DEF AppendRaw, BufferInv
  <2> QED BY <1>2, <1>4, <1>f, <2>4, <2>5 DEF AppendRaw, BufferInv
<1>g. CASE TakeFrame
  <2>1. ReaderTyped'
    BY <1>1, <1>5, <1>g DEF TakeFrame, ReaderTyped
  <2> QED BY <1>2, <1>3, <1>4, <1>g, <2>1 DEF TakeFrame, BufferInv
<1>h. CASE MatchFrame
  <2>1. pc[Reader] = "match" /\ UNCHANGED <<capture_vars, buf, frames, chunk, input, wire, sent, hungup>>
    BY <1>h DEF MatchFrame
  <2>2. CASE label' = None /\ UNCHANGED mutex /\ pc' = [pc EXCEPT ![Reader] = "push"]
    <3>1. pc'[Reader] = "push"
      BY <1>1, <2>2
    <3>2. ReaderTyped'
      BY <1>5, <2>1, <2>2, <3>1 DEF ReaderTyped
    <3> QED BY <1>2, <1>3, <1>4, <2>1, <2>2, <3>2 DEF BufferInv
  <2>3. ASSUME NEW i \in MatchInputRule(snap[Reader], Head(frames)),
               Lock(Reader, snap[Reader].rules[i].response),
               label' = <<snap[Reader].name, i>>, pc' = [pc EXCEPT ![Reader] = "write"]
        PROVE  BufferInv'
    <3>1. snap[Reader] \in Scenario /\ i \in DOMAIN snap[Reader].rules
      BY <2>1 DEF SnapTaken, MatchInputRule
    <3>2. snap[Reader].rules[i].response \in Seq(Byte) /\ label' \in Label
      BY <2>3, <3>1, ResponseTyped DEF Label
    <3>3. pc'[Reader] = "write"
      BY <1>1, <2>3
    <3>4. ReaderTyped'
      BY <1>5, <2>1, <3>2, <3>3 DEF ReaderTyped
    <3>5. out' \in Seq(Byte)
      BY <2>3, <3>2 DEF Lock
    <3>6. LineTyped'
      BY <1>5, <2>1, <3>5 DEF LineTyped
    <3> QED BY <1>2, <1>3, <2>1, <3>4, <3>6 DEF BufferInv
  <2> QED BY <1>h, <2>2, <2>3 DEF MatchFrame
<1>i. CASE WriteByte(Reader)
  <2>1. ReaderTyped'
    BY <1>1, <1>5, <1>i DEF WriteByte, ReaderTyped
  <2>2. LineTyped'
    BY <1>5, <1>i, WriteTyped
  <2> QED BY <1>2, <1>3, <1>i, <2>1, <2>2 DEF WriteByte, BufferInv
<1>j. CASE FrameAnswered
  <2>1. pc[Reader] = "write" /\ pc'[Reader] = "push"
    BY <1>1, <1>j DEF FrameAnswered, Written, WriteFailed
  <2>2. ReaderTyped'
    BY <1>5, <1>j, <2>1 DEF FrameAnswered, ReaderTyped
  <2>3. out' = <<>> /\ UNCHANGED <<input, wire, sent, hungup, capture_vars>>
    BY <1>j DEF FrameAnswered, Unlock
  <2>4. LineTyped'
    BY <1>5, <2>3 DEF LineTyped
  <2> QED BY <1>2, <1>3, <2>2, <2>3, <2>4 DEF BufferInv
<1>k. CASE PushFrame
  <2>1. frames \in Seq(Seq(Byte)) /\ frames # <<>> /\ label \in Label \cup {None}
    BY <1>5, <1>k DEF PushFrame, ReaderTyped
  <2>2. Head(frames) \in Seq(Byte) /\ Tail(frames) \in Seq(Seq(Byte))
    BY <2>1, HeadTailProperties
  <2>3. Cap!TypeOK'
    BY <1>k, <2>1, <2>2, CaptureTyped DEF PushFrame, BufferInv
  <2>4. /\ frames' = Tail(frames) /\ label' = None /\ UNCHANGED <<buf, chunk>>
        /\ pc'[Reader] = AfterFrames(frames') /\ pc[Reader] = "push"
    BY <1>1, <1>k DEF PushFrame
  <2>5. ReaderTyped'
    BY <1>5, <2>2, <2>4 DEF ReaderTyped, AfterFrames
  <2> QED BY <1>2, <1>4, <1>k, <2>3, <2>5 DEF PushFrame, BufferInv
<1> QED
  BY <1>a, <1>b, <1>c, <1>d, <1>e, <1>f, <1>g, <1>h, <1>i, <1>j, <1>k DEF ReaderStep

(* Every step of a connection does too. *)
LEMMA BufferConn ==
  ASSUME ControlInv, BufferInv, NEW c \in Conn, ConnStep(c) \/ \E r \in Requests : Begin(c, r)
  PROVE  BufferInv'
<1> USE DEF ControlInv, ControlTypeOK
<1>1. c \in Thread /\ c # Reader /\ Reader \in Thread
  BY PortAssumption DEF Thread
<1>2. /\ pc'[Reader] = pc[Reader]
      /\ UNCHANGED reader_vars
  BY <1>1, ConnAlone
<1>3. ReaderTyped'
  BY <1>2 DEF BufferInv, ReaderTyped
<1>4. UNCHANGED capture_vars => Cap!TypeOK'
  BY CaptureTyped DEF BufferInv
<1>5. UNCHANGED <<input, wire, out, sent, hungup>> => LineTyped'
  BY DEF BufferInv, LineTyped
<1>6. RespTyped /\ LineTyped
  BY DEF BufferInv
<1>7. UNCHANGED resp => RespTyped'
  BY <1>6 DEF RespTyped
<1>8. ASSUME NEW status \in {200, 404}, NEW body, Respond(c, status, body) PROVE RespTyped'
  BY <1>6, <1>8 DEF RespTyped, Respond
<1>9. 200 \in {200, 404} /\ 404 \in {200, 404}
  OBVIOUS
<1>a. CASE \E r \in Requests : Begin(c, r)
  BY <1>3, <1>4, <1>5, <1>7, <1>a DEF Begin, BufferInv
<1>b. CASE TriggerSnapshot(c)
  BY <1>3, <1>4, <1>5, <1>7, <1>b DEF TriggerSnapshot, BufferInv
<1>c. CASE TriggerLock(c)
  <2>1. snap[c] \in Scenario /\ req[c].name \in DOMAIN snap[c].triggers
    BY <1>c DEF TriggerLock, SnapTaken
  <2>2. out' \in Seq(Byte)
    BY <1>c, <2>1, ResponseTyped DEF TriggerLock, Lock
  <2>3. UNCHANGED <<capture_vars, resp, input, wire, sent, hungup>>
    BY <1>c DEF TriggerLock
  <2>4. LineTyped'
    BY <1>6, <2>2, <2>3 DEF LineTyped
  <2> QED BY <1>3, <1>4, <1>7, <2>3, <2>4 DEF BufferInv
<1>d. CASE TriggerUnknown(c)
  <2>0. \E body : Respond(c, 404, body)
    BY <1>d DEF TriggerUnknown
  <2>1. RespTyped'
    BY <1>8, <1>9, <2>0
  <2> QED BY <1>3, <1>4, <1>5, <1>d, <2>1 DEF TriggerUnknown, BufferInv
<1>e. CASE WriteByte(c)
  <2>1. LineTyped'
    BY <1>6, <1>e, WriteTyped
  <2> QED BY <1>3, <1>4, <1>7, <1>e, <2>1 DEF WriteByte, BufferInv
<1>f. CASE TriggerDone(c)
  <2>0. \E body : Respond(c, 200, body) \/ Respond(c, 404, body)
    BY <1>f DEF TriggerDone
  <2>1. RespTyped'
    BY <1>8, <1>9, <2>0
  <2>2. out' = <<>> /\ UNCHANGED <<capture_vars, input, wire, sent, hungup>>
    BY <1>f DEF TriggerDone, Unlock
  <2>3. LineTyped'
    BY <1>6, <2>2 DEF LineTyped
  <2> QED BY <1>3, <1>4, <2>1, <2>2, <2>3 DEF BufferInv
<1>g. CASE SwitchLookup(c)
  <2>1. RespTyped'
    BY <1>7, <1>8, <1>9, <1>g DEF SwitchLookup
  <2> QED BY <1>3, <1>4, <1>5, <1>g, <2>1 DEF SwitchLookup, BufferInv
<1>h. CASE SwitchStore(c)
  <2>1. RespTyped'
    BY <1>8, <1>9, <1>h DEF SwitchStore
  <2> QED BY <1>3, <1>4, <1>5, <1>h, <2>1 DEF SwitchStore, BufferInv
<1>i. CASE DescribeActive(c)
  BY <1>3, <1>4, <1>5, <1>7, <1>i DEF DescribeActive, BufferInv
<1>j. CASE DescribeCompiled(c)
  <2>1. RespTyped'
    BY <1>8, <1>9, <1>j DEF DescribeCompiled
  <2> QED BY <1>3, <1>4, <1>5, <1>j, <2>1 DEF DescribeCompiled, BufferInv
<1>k. CASE ReadCapture(c)
  <2>1. RespTyped'
    BY <1>8, <1>9, <1>k DEF ReadCapture
  <2> QED BY <1>3, <1>4, <1>5, <1>k, <2>1 DEF ReadCapture, BufferInv
<1>l. CASE ClearCapture(c)
  <2>1. RespTyped'
    BY <1>8, <1>9, <1>l DEF ClearCapture
  <2>2. Cap!TypeOK'
    BY <1>l, CaptureTyped DEF ClearCapture, BufferInv
  <2> QED BY <1>3, <1>5, <1>l, <2>1, <2>2 DEF ClearCapture, BufferInv
<1> QED
  BY <1>a, <1>b, <1>c, <1>d, <1>e, <1>f, <1>g, <1>h, <1>i, <1>j, <1>k, <1>l DEF ConnStep

(* And every step of a reload, of the client and of the device. *)
LEMMA BufferNext == ControlInv /\ BufferInv /\ [Next]_vars => BufferInv'
<1> SUFFICES ASSUME ControlInv, BufferInv, [Next]_vars PROVE BufferInv'
  OBVIOUS
<1>1. UNCHANGED capture_vars => Cap!TypeOK'
  BY CaptureTyped DEF BufferInv
<1>2. UNCHANGED resp => RespTyped'
  BY DEF BufferInv, RespTyped
<1>3. UNCHANGED <<input, wire, out, sent, hungup>> => LineTyped'
  BY DEF BufferInv, LineTyped
<1>4. UNCHANGED reader_vars /\ pc'[Reader] = pc[Reader] => ReaderTyped'
  BY DEF BufferInv, ReaderTyped
<1>5. LineTyped
  BY DEF BufferInv
<1>a. CASE UNCHANGED vars
  BY <1>1, <1>2, <1>3, <1>4, <1>a DEF vars, BufferInv
<1>b. CASE \E b \in Byte : ClientSend(b)
  <2>1. PICK b \in Byte : ClientSend(b)
    BY <1>b
  <2>2. input' \in Seq(Byte)
    BY <1>5, <2>1, AppendProperties DEF ClientSend, LineTyped
  <2>3. sent' \in 0..MaxSent
    BY <1>5, <2>1, PortAssumption DEF ClientSend, LineTyped
  <2>4. LineTyped'
    BY <1>5, <2>1, <2>2, <2>3 DEF ClientSend, LineTyped
  <2> QED BY <1>1, <1>2, <1>4, <2>1, <2>4 DEF ClientSend, BufferInv
<1>c. CASE ClientRead
  <2>1. wire \in Seq(Byte) /\ wire # <<>> /\ Len(wire) <= WireCap
    BY <1>5, <1>c DEF ClientRead, LineTyped
  <2>2. Tail(wire) \in Seq(Byte) /\ Len(Tail(wire)) = Len(wire) - 1 /\ Len(wire) \in Nat
    BY <2>1, HeadTailProperties, LenProperties
  <2>3. Len(Tail(wire)) <= WireCap
    BY <2>1, <2>2, PortAssumption
  <2>4. LineTyped'
    BY <1>5, <1>c, <2>2, <2>3 DEF ClientRead, LineTyped
  <2> QED BY <1>1, <1>2, <1>4, <1>c, <2>4 DEF ClientRead, BufferInv
<1>d. CASE Hangup
  <2>1. input' \in {input, <<>>} /\ hungup' = TRUE /\ UNCHANGED <<wire, out, sent>>
    BY <1>d DEF Hangup
  <2>2. input' \in Seq(Byte)
    <3>1. input \in Seq(Byte) /\ <<>> \in Seq(Byte)
      BY <1>5 DEF LineTyped
    <3>2. input' = input \/ input' = <<>>
      BY <2>1
    <3> QED BY <3>1, <3>2
  <2>3. LineTyped'
    BY <1>5, <2>1, <2>2 DEF LineTyped
  <2> QED BY <1>1, <1>2, <1>4, <1>d, <2>3 DEF Hangup, BufferInv
<1>e. CASE SwapStep \/ \E cfg \in Config : SwapBegin(cfg)
  <2>1. Reader \in Thread \ {Reloader}
    BY PortAssumption DEF Thread
  <2>2. pc'[Reader] = pc[Reader] /\ UNCHANGED <<reader_vars, conn_vars>>
    BY <1>e, <2>1, SwapAlone
  <2>3. UNCHANGED <<capture_vars, mutex, wire, env_vars>>
    BY <1>e DEF SwapStep, SwapBegin, SwapCompiled, SwapActive, SwapFraming
  <2> QED BY <1>1, <1>2, <1>3, <1>4, <2>2, <2>3 DEF BufferInv
<1> QED
  BY <1>a, <1>b, <1>c, <1>d, <1>e, BufferReader, BufferConn DEF Next

LEMMA BufferInit == Init => BufferInv
<1> SUFFICES ASSUME Init PROVE BufferInv
  OBVIOUS
<1> USE DEF Init
<1>1. Cap!TypeOK
  BY DEF Cap!Init, Cap!TypeOK
<1>2. RespTyped
  BY DEF RespTyped
<1>3. ReaderTyped
  BY DEF ReaderTyped, Thread
<1>4. LineTyped
  <2>1. Len(wire) = 0 /\ WireCap \in Nat /\ MaxSent \in Nat
    BY EmptySeq, PortAssumption
  <2>2. Len(wire) <= WireCap /\ sent \in 0..MaxSent
    BY <2>1
  <2>3. input = <<>> /\ wire = <<>> /\ out = <<>> /\ hungup = FALSE
    OBVIOUS
  <2> HIDE DEF Init
  <2>4. input \in Seq(Byte) /\ wire \in Seq(Byte) /\ out \in Seq(Byte)
    BY <2>3
  <2>5. hungup \in BOOLEAN
    BY <2>3, Zenon
  <2> QED BY <2>2, <2>4, <2>5 DEF LineTyped
<1> QED
  BY <1>1, <1>2, <1>3, <1>4 DEF BufferInv

(* Every variable of a port has its type, and every frame, event, chunk    *)
(* and response consists of bytes of the line, however the threads, the    *)
(* client and the device interleave.                                       *)
THEOREM PortTyped == Spec => []TypeOK
<1>1. ControlInv /\ BufferInv => TypeOK
  BY DEF ControlInv, BufferInv, RespTyped, ReaderTyped, LineTyped, TypeOK, DataTypeOK
<1> QED
  BY <1>1, ControlInit, ControlNext, BufferInit, BufferNext, PTL DEF Spec

-----------------------------------------------------------------------------
(* What was recorded and answered. *)

LogEntry == [data : Seq(Byte), matched_rule : Label \cup {None}]

OneIf(cond, x) == IF cond THEN <<x>> ELSE <<>>

(* The bytes of events, the labels of the reader's answers, and those of   *)
(* the events with one, each as a sequence to flatten.                     *)
DataOf(entries) == [i \in DOMAIN entries |-> entries[i].data]

RepliesOf(answers) ==
  [i \in DOMAIN answers |-> OneIf(answers[i].by = Reader, answers[i].label)]

RulesOf(entries) ==
  [i \in DOMAIN entries |-> OneIf(entries[i].matched_rule # None, entries[i].matched_rule)]

Pending == OneIf(pc[Reader] = "push" /\ label # None, label)

RecordInv == log \in Seq(LogEntry) /\ LabelsMatchEvents

LEMMA RecordedAs ==
  LabelsMatchEvents <=> FlattenSeq(RepliesOf(answered)) = FlattenSeq(RulesOf(log)) \o Pending
  BY DEF LabelsMatchEvents, RepliesOf, RulesOf, Pending, OneIf

(* A sequence with one more element than f, and f's before it. *)
LEMMA GrownByOne ==
  ASSUME NEW T, NEW n \in Nat, NEW f, f \in [1..n -> T], NEW g, g \in [1..(n + 1) -> T],
         \A i \in 1..n : g[i] = f[i]
  PROVE  /\ f \in Seq(T) /\ g \in Seq(T)
         /\ g = Append(f, g[n + 1])
<1>1. f \in Seq(T) /\ Len(f) = n /\ g \in Seq(T) /\ Len(g) = n + 1
  BY SeqDef, LenProperties
<1>2. g[n + 1] \in T
  OBVIOUS
<1> DEFINE both == Append(f, g[n + 1])
<1>3. /\ both \in Seq(T) /\ Len(both) = n + 1 /\ both[n + 1] = g[n + 1]
      /\ \A i \in 1..n : both[i] = f[i]
  BY <1>1, <1>2, AppendProperties
<1> HIDE DEF both
<1>4. \A i \in 1..(n + 1) : g[i] = both[i]
  <2> TAKE i \in 1..(n + 1)
  <2>1. i = n + 1 \/ i \in 1..n
    OBVIOUS
  <2> QED BY <1>3, <2>1
<1>5. g = both
  BY <1>1, <1>3, <1>4, SeqEqual
<1> QED
  BY <1>1, <1>5 DEF both

LEMMA DataOfAppend ==
  ASSUME NEW entries \in Seq(LogEntry), NEW e \in LogEntry
  PROVE  /\ DataOf(entries) \in Seq(Seq(Byte))
         /\ DataOf(Append(entries, e)) = Append(DataOf(entries), e.data)
<1> DEFINE more == Append(entries, e)
<1>1. PICK n \in Nat : n = Len(entries) /\ DOMAIN entries = 1..n
  BY LenProperties
<1>2. \A i \in 1..n : entries[i] \in LogEntry
  BY <1>1, ElementOfSeq
<1>3. DOMAIN more = 1..(n + 1) /\ more[n + 1] = e /\ \A i \in 1..n : more[i] = entries[i]
  BY <1>1, AppendProperties, LenProperties
<1> HIDE DEF more
<1>4. \A i \in 1..(n + 1) : more[i].data \in Seq(Byte)
  <2> TAKE i \in 1..(n + 1)
  <2>1. i = n + 1 \/ i \in 1..n
    OBVIOUS
  <2>2. more[i] \in LogEntry
    BY <1>2, <1>3, <2>1
  <2> QED BY <2>2 DEF LogEntry
<1>5. DataOf(entries) \in [1..n -> Seq(Byte)]
  BY <1>1, <1>2 DEF DataOf, LogEntry
<1>6. DataOf(more) \in [1..(n + 1) -> Seq(Byte)]
  BY <1>3, <1>4 DEF DataOf
<1>7. \A i \in 1..n : DataOf(more)[i] = DataOf(entries)[i]
  BY <1>1, <1>3 DEF DataOf
<1>8. DataOf(more)[n + 1] = e.data
  BY <1>3 DEF DataOf
<1> QED
  BY <1>5, <1>6, <1>7, <1>8, GrownByOne DEF more

LEMMA RulesOfAppend ==
  ASSUME NEW entries \in Seq(LogEntry), NEW e \in LogEntry
  PROVE  /\ RulesOf(entries) \in Seq(Seq(Label))
         /\ RulesOf(Append(entries, e))
              = Append(RulesOf(entries), OneIf(e.matched_rule # None, e.matched_rule))
<1> DEFINE more == Append(entries, e)
           Rule(x) == OneIf(x.matched_rule # None, x.matched_rule)
<1>1. PICK n \in Nat : n = Len(entries) /\ DOMAIN entries = 1..n
  BY LenProperties
<1>2. \A i \in 1..n : entries[i] \in LogEntry
  BY <1>1, ElementOfSeq
<1>3. DOMAIN more = 1..(n + 1) /\ more[n + 1] = e /\ \A i \in 1..n : more[i] = entries[i]
  BY <1>1, AppendProperties, LenProperties
<1> HIDE DEF more
<1>4. \A x \in LogEntry : Rule(x) \in Seq(Label)
  <2> TAKE x \in LogEntry
  <2>1. x.matched_rule # None => x.matched_rule \in Label
    BY DEF LogEntry
  <2> QED BY <2>1 DEF OneIf
<1>5. \A i \in 1..(n + 1) : Rule(more[i]) \in Seq(Label)
  <2> TAKE i \in 1..(n + 1)
  <2>1. i = n + 1 \/ i \in 1..n
    OBVIOUS
  <2>2. more[i] \in LogEntry
    BY <1>2, <1>3, <2>1
  <2> HIDE DEF Rule
  <2> QED BY <1>4, <2>2
<1>6. RulesOf(entries) = [i \in 1..n |-> Rule(entries[i])]
  BY <1>1 DEF RulesOf
<1>7. RulesOf(more) = [i \in 1..(n + 1) |-> Rule(more[i])]
  BY <1>3 DEF RulesOf
<1> HIDE DEF Rule
<1>8. RulesOf(entries) \in [1..n -> Seq(Label)]
  BY <1>2, <1>4, <1>6
<1>9. RulesOf(more) \in [1..(n + 1) -> Seq(Label)]
  BY <1>5, <1>7
<1>10. \A i \in 1..n : RulesOf(more)[i] = RulesOf(entries)[i]
  BY <1>3, <1>6, <1>7
<1>11. RulesOf(more)[n + 1] = Rule(e)
  BY <1>3, <1>7
<1> QED
  BY <1>8, <1>9, <1>10, <1>11, GrownByOne DEF more, Rule

LEMMA RepliesOfAppend ==
  ASSUME NEW answers \in Seq(Answer), NEW a \in Answer
  PROVE  /\ RepliesOf(answers) \in Seq(Seq(Label \cup {None}))
         /\ RepliesOf(Append(answers, a)) = Append(RepliesOf(answers), OneIf(a.by = Reader, a.label))
<1> DEFINE more == Append(answers, a)
           L == Label \cup {None}
           Reply(x) == OneIf(x.by = Reader, x.label)
<1>1. PICK n \in Nat : n = Len(answers) /\ DOMAIN answers = 1..n
  BY LenProperties
<1>2. \A i \in 1..n : answers[i] \in Answer
  BY <1>1, ElementOfSeq
<1>3. DOMAIN more = 1..(n + 1) /\ more[n + 1] = a /\ \A i \in 1..n : more[i] = answers[i]
  BY <1>1, AppendProperties, LenProperties
<1> HIDE DEF more
<1>4. \A x \in Answer : Reply(x) \in Seq(L)
  <2> TAKE x \in Answer
  <2>1. x.label \in L
    BY DEF Answer
  <2> HIDE DEF L
  <2> QED BY <2>1 DEF OneIf
<1>5. \A i \in 1..(n + 1) : Reply(more[i]) \in Seq(L)
  <2> TAKE i \in 1..(n + 1)
  <2>1. i = n + 1 \/ i \in 1..n
    OBVIOUS
  <2>2. more[i] \in Answer
    BY <1>2, <1>3, <2>1
  <2> HIDE DEF Reply
  <2> QED BY <1>4, <2>2
<1>6. RepliesOf(answers) = [i \in 1..n |-> Reply(answers[i])]
  BY <1>1 DEF RepliesOf
<1>7. RepliesOf(more) = [i \in 1..(n + 1) |-> Reply(more[i])]
  BY <1>3 DEF RepliesOf
<1> HIDE DEF Reply, L
<1>8. RepliesOf(answers) \in [1..n -> Seq(L)]
  BY <1>2, <1>4, <1>6
<1>9. RepliesOf(more) \in [1..(n + 1) -> Seq(L)]
  BY <1>5, <1>7
<1>10. \A i \in 1..n : RepliesOf(more)[i] = RepliesOf(answers)[i]
  BY <1>3, <1>6, <1>7
<1>11. RepliesOf(more)[n + 1] = Reply(a)
  BY <1>3, <1>7
<1>12. RepliesOf(answers) \in Seq(Seq(L)) /\ RepliesOf(more) = Append(RepliesOf(answers), Reply(a))
  BY <1>8, <1>9, <1>10, <1>11, GrownByOne
<1> QED
  BY <1>12 DEF more, Reply, L

(* Concatenation of bytes is associative. *)
LEMMA Regroup == \A x, y, z \in Seq(Byte) : (x \o y) \o z = x \o (y \o z)
  BY ConcatAssociative

(* A sequence is its head and then its tail. *)
LEMMA HeadThenTail ==
  ASSUME NEW S, NEW q \in Seq(S), q # <<>>
  PROVE  q = <<Head(q)>> \o Tail(q) /\ Head(q) \in S /\ Tail(q) \in Seq(S)
<1>1. PICK n \in Nat : n = Len(q)
  BY LenProperties
<1>2. /\ Head(q) \in S /\ Tail(q) \in Seq(S) /\ Len(Tail(q)) = n - 1
      /\ \A i \in 1..(n - 1) : Tail(q)[i] = q[i + 1]
  BY <1>1, HeadTailProperties
<1>3. Head(q) = q[1] /\ n # 0
  BY <1>1, EmptySeq
<1> DEFINE h == <<Head(q)>>
           t == Tail(q)
           both == h \o t
<1>4. h \in Seq(S) /\ Len(h) = 1 /\ h[1] = q[1] /\ t \in Seq(S) /\ Len(t) = n - 1
  BY <1>2, <1>3
<1>5. \A i \in 1..(n - 1) : t[i] = q[i + 1]
  BY <1>2
<1> HIDE DEF h, t
<1>6. /\ both \in Seq(S) /\ Len(both) = n
      /\ \A i \in 1..n : both[i] = IF i <= 1 THEN h[i] ELSE t[i - 1]
  <2>1. /\ both \in Seq(S) /\ Len(both) = Len(h) + Len(t)
        /\ \A i \in 1..(Len(h) + Len(t)) : both[i] = IF i <= Len(h) THEN h[i] ELSE t[i - Len(h)]
    BY <1>4, ConcatProperties
  <2>2. Len(h) + Len(t) = n
    BY <1>4
  <2> QED BY <1>4, <2>1, <2>2
<1> HIDE DEF both
<1>7. \A i \in 1..n : both[i] = q[i]
  <2> TAKE i \in 1..n
  <2>1. CASE i = 1
    BY <1>4, <1>6, <2>1
  <2>2. CASE i # 1
    <3>1. i - 1 \in 1..(n - 1) /\ (i - 1) + 1 = i /\ ~(i <= 1)
      BY <2>2
    <3> QED BY <1>5, <1>6, <3>1
  <2> QED BY <2>1, <2>2
<1>8. both = q
  BY <1>1, <1>6, <1>7, SeqEqual
<1> QED
  BY <1>2, <1>8 DEF both, h, t

(* A frame is recorded with its bytes and its label. *)
LEMMA PushRecords ==
  ASSUME BufferInv, log \in Seq(LogEntry), PushFrame, ObserveLine
  PROVE  /\ [data |-> Head(frames), matched_rule |-> label] \in LogEntry
         /\ log' = Append(log, [data |-> Head(frames), matched_rule |-> label])
<1>1. /\ frames \in Seq(Seq(Byte)) /\ frames # <<>> /\ label \in Label \cup {None}
      /\ Cap!TypeOK /\ Cap!PushEvent(Head(frames), label)
  BY DEF PushFrame, BufferInv, ReaderTyped
<1>2. Head(frames) \in Seq(Byte)
  BY <1>1, HeadThenTail
<1>3. /\ next_id' # next_id
      /\ Last(events') = [id |-> next_id, data |-> Head(frames), matched_rule |-> label]
  BY <1>1, <1>2, CaptureTyped
<1>4. Last(events').data = Head(frames) /\ Last(events').matched_rule = label
  BY <1>3
<1> QED
  BY <1>1, <1>2, <1>3, <1>4 DEF ObserveLine, LogEntry

(* No step of the reader records anything but an event. *)
LEMMA LogReader ==
  ASSUME ControlInv, BufferInv, log \in Seq(LogEntry), ReaderStep, ObserveLine
  PROVE  log' \in Seq(LogEntry)
<1>1. CASE PushFrame
  BY <1>1, PushRecords, AppendProperties
<1>2. CASE ~PushFrame
  <2>1. next_id' = next_id
    BY <1>2 DEF ReaderStep, Snapshot, PollReady, PollTimeout, Read, Eof, AppendRaw, Cap!AppendRaw,
                TakeFrame, MatchFrame, WriteByte, FrameAnswered
  <2> QED BY <2>1 DEF ObserveLine
<1> QED
  BY <1>1, <1>2

(* No other thread records events or writes the answers of the reader. *)
LEMMA OthersKeepEvents ==
  ASSUME ControlInv, BufferInv, Next, ~ReaderStep
  PROVE  /\ next_id' = next_id
         /\ \/ UNCHANGED writer \/ writer = None
            \/ \E t \in Thread \ {Reader} : pc[t] = "write" /\ Unlock
<1>1. CASE ClientRead \/ Hangup \/ \E b \in Byte : ClientSend(b)
  BY <1>1 DEF ClientRead, Hangup, ClientSend
<1>2. CASE SwapStep \/ \E cfg \in Config : SwapBegin(cfg)
  BY <1>2 DEF SwapStep, SwapBegin, SwapCompiled, SwapActive, SwapFraming
<1>3. ASSUME NEW c \in Conn, ConnStep(c) \/ \E r \in Requests : Begin(c, r)
      PROVE  /\ next_id' = next_id
             /\ \/ UNCHANGED writer \/ writer = None
                \/ \E t \in Thread \ {Reader} : pc[t] = "write" /\ Unlock
  <2>1. c \in Thread \ {Reader}
    BY PortAssumption DEF Thread
  <2>2. CASE ClearCapture(c)
    <3>1. Cap!TypeOK /\ (Cap!ClearRaw \/ Cap!ClearEvents) /\ UNCHANGED writer
      BY <2>2 DEF ClearCapture, BufferInv
    <3> QED BY <3>1, CaptureTyped
  <2>3. CASE TriggerDone(c)
    BY <2>1, <2>3 DEF TriggerDone, Written, WriteFailed
  <2>4. CASE TriggerLock(c)
    BY <2>4 DEF TriggerLock, Lock
  <2>5. CASE \E r \in Requests : Begin(c, r)
    BY <2>5 DEF Begin
  <2>6. CASE TriggerSnapshot(c) \/ TriggerUnknown(c) \/ WriteByte(c)
    BY <2>6 DEF TriggerSnapshot, TriggerUnknown, WriteByte
  <2>7. CASE SwitchLookup(c) \/ SwitchStore(c)
    BY <2>7 DEF SwitchLookup, SwitchStore
  <2>8. CASE DescribeActive(c) \/ DescribeCompiled(c) \/ ReadCapture(c)
    BY <2>8 DEF DescribeActive, DescribeCompiled, ReadCapture
  <2> QED
    BY <1>3, <2>2, <2>3, <2>4, <2>5, <2>6, <2>7, <2>8 DEF ConnStep
<1> QED
  BY <1>1, <1>2, <1>3 DEF Next

(* Giving the Mutex up adds the answer of the thread that held it. *)
LEMMA UnlockAnswers ==
  ASSUME ControlInv, WriterHeld, SerialInv, NEW t \in Thread, pc[t] = "write", Unlock, ObserveLine
  PROVE  \E a \in Answer :
           /\ a.by = t /\ a.label = (IF t = Reader THEN label ELSE None)
           /\ answered' = Append(answered, a)
<1>1. writer = t /\ t # None /\ writer' = None
  BY PortAssumption DEF Unlock, WriterHeld
<1>2. PICK n \in Nat : WrittenTo(n)
  BY <1>1 DEF SerialInv
<1>3. WrittenPart(writer) \in Seq(Byte)
  BY <1>2, WrittenPartIs
<1> DEFINE a == [by |-> writer, label |-> IF writer = Reader THEN label ELSE None,
                 response |-> Response(writer), bytes |-> WrittenPart(writer)]
<1>4. a \in Answer /\ a.by = t /\ a.label = (IF t = Reader THEN label ELSE None)
  BY <1>1, <1>2, <1>3 DEF Answer, SerialInv, WrittenTo
<1>5. answered' = Append(answered, a)
  BY <1>1 DEF ObserveLine
<1> QED
  BY <1>4, <1>5

(* What LabelsMatchEvents compares. *)
LEMMA LabelsTyped ==
  ASSUME SerialInv, RecordInv
  PROVE  /\ FlattenSeq(RulesOf(log)) \in Seq(Label) /\ RulesOf(log) \in Seq(Seq(Label))
         /\ FlattenSeq(RepliesOf(answered)) \in Seq(Label \cup {None})
         /\ RepliesOf(answered) \in Seq(Seq(Label \cup {None}))
<1>1. RulesOf(log) \in Seq(Seq(Label))
  <2>1. [data |-> <<>>, matched_rule |-> None] \in LogEntry
    BY DEF LogEntry
  <2> QED BY <2>1, RulesOfAppend DEF RecordInv
<1>2. RepliesOf(answered) \in Seq(Seq(Label \cup {None}))
  <2>1. [by |-> Reader, label |-> None, response |-> <<>>, bytes |-> <<>>] \in Answer
    BY DEF Answer, Thread
  <2> QED BY <2>1, RepliesOfAppend DEF SerialInv
<1>3. FlattenSeq(RulesOf(log)) \in Seq(Label)
  BY <1>1, FlattenTyped
<1> DEFINE L == Label \cup {None}
<1>4. RepliesOf(answered) \in Seq(Seq(L))
  BY <1>2
<1> HIDE DEF L
<1>5. FlattenSeq(RepliesOf(answered)) \in Seq(L)
  BY <1>4, FlattenTyped
<1> QED
  BY <1>1, <1>2, <1>3, <1>5 DEF L

(* A response written adds its rule's label to the answers and is pending; *)
(* recording the event moves it over.                                      *)
LEMMA LabelsReader ==
  ASSUME ControlInv, WriterHeld, SerialInv, BufferInv, RecordInv, ReaderStep, ObserveLine
  PROVE  LabelsMatchEvents'
<1> USE DEF ControlInv, ControlTypeOK
<1> DEFINE A == FlattenSeq(RepliesOf(answered))
           R == FlattenSeq(RulesOf(log))
           L == Label \cup {None}
<1>1. Reader \in Thread /\ None \notin Thread
  BY PortAssumption DEF Thread
<1>2. ReaderTyped
  BY DEF BufferInv
<1>3. A = R \o Pending
  BY RecordedAs DEF RecordInv
<1>4. LabelsMatchEvents'
        <=> FlattenSeq(RepliesOf(answered')) = FlattenSeq(RulesOf(log')) \o Pending'
  BY DEF LabelsMatchEvents, RepliesOf, RulesOf, Pending, OneIf
<1>5. R \in Seq(Label) /\ RulesOf(log) \in Seq(Seq(Label))
  BY LabelsTyped
<1>6. A \in Seq(L) /\ RepliesOf(answered) \in Seq(Seq(L))
  BY LabelsTyped
<1>7. next_id' = next_id => log' = log
  BY DEF ObserveLine
<1>8. writer = None \/ writer' # None => answered' = answered
  BY DEF ObserveLine
<1> HIDE DEF A, R, L
<1>q. ASSUME next_id' = next_id, writer = None \/ writer' = writer, Pending' = Pending
      PROVE  LabelsMatchEvents'
  BY <1>3, <1>4, <1>7, <1>8, <1>q DEF A, R
<1>p. pc[Reader] # "push" => Pending = <<>>
  BY DEF Pending, OneIf
<1>n. pc'[Reader] # "push" \/ label' = None => Pending' = <<>>
  BY DEF Pending, OneIf
<1>a. CASE Snapshot
  BY <1>1, <1>a, <1>n, <1>p, <1>q DEF Snapshot
<1>b. CASE PollReady
  BY <1>1, <1>b, <1>n, <1>p, <1>q DEF PollReady
<1>c. CASE PollTimeout
  BY <1>1, <1>c, <1>n, <1>p, <1>q DEF PollTimeout, AfterFrames
<1>d. CASE \E n \in 1..Len(input) : Read(n)
  BY <1>1, <1>d, <1>n, <1>p, <1>q DEF Read
<1>e. CASE Eof
  BY <1>1, <1>e, <1>n, <1>p, <1>q DEF Eof
<1>f. CASE AppendRaw
  BY <1>1, <1>f, <1>n, <1>p, <1>q DEF AppendRaw, Cap!AppendRaw, AfterFrames
<1>g. CASE TakeFrame
  BY <1>1, <1>g, <1>n, <1>p, <1>q DEF TakeFrame
<1>h. CASE MatchFrame
  BY <1>1, <1>h, <1>n, <1>p, <1>q DEF MatchFrame, Lock
<1>i. CASE WriteByte(Reader)
  BY <1>1, <1>i, <1>n, <1>p, <1>q DEF WriteByte
<1>j. CASE FrameAnswered
  <2>1. /\ pc[Reader] = "write" /\ pc'[Reader] = "push" /\ Unlock
        /\ label' = label /\ next_id' = next_id
    BY <1>1, <1>j DEF FrameAnswered, Written, WriteFailed
  <2>2. label \in Label /\ label # None
    BY <1>2, <2>1, NoneIsNoLabel DEF ReaderTyped
  <2>3. Pending = <<>> /\ Pending' = <<label>>
    BY <1>p, <2>1, <2>2 DEF Pending, OneIf
  <2>4. PICK a \in Answer : a.by = Reader /\ a.label = label /\ answered' = Append(answered, a)
    BY <1>1, <2>1, UnlockAnswers
  <2>5. RepliesOf(answered') = Append(RepliesOf(answered), <<label>>)
    BY <2>4, RepliesOfAppend DEF SerialInv, OneIf
  <2>6. FlattenSeq(RepliesOf(answered')) = A \o <<label>>
    <3>1. <<label>> \in Seq(L)
      BY <2>2 DEF L
    <3> QED BY <1>6, <2>5, <3>1, FlattenAppend DEF A
  <2>7. A = R
    BY <1>3, <1>5, <2>3, ConcatEmptySeq
  <2> QED BY <1>4, <1>7, <2>1, <2>3, <2>6, <2>7 DEF R
<1>k. CASE PushFrame
  <2> DEFINE e == [data |-> Head(frames), matched_rule |-> label]
  <2>1. /\ pc[Reader] = "push" /\ label' = None /\ writer' = writer
        /\ label \in Label \cup {None}
    BY <1>2, <1>k DEF PushFrame, ReaderTyped
  <2>2. log \in Seq(LogEntry)
    BY DEF RecordInv
  <2>3. log' = Append(log, e) /\ e \in LogEntry
    BY <1>k, <2>2, PushRecords
  <2>4. e.matched_rule = label
    OBVIOUS
  <2> HIDE DEF e
  <2>5. RulesOf(log') = Append(RulesOf(log), Pending)
    BY <2>1, <2>2, <2>3, <2>4, RulesOfAppend DEF Pending, OneIf
  <2>6. Pending \in Seq(Label)
    <3>1. label # None => label \in Label
      BY <2>1
    <3> QED BY <3>1 DEF Pending, OneIf
  <2>7. FlattenSeq(RulesOf(log')) = R \o Pending
    BY <1>5, <2>5, <2>6, FlattenAppend DEF R
  <2>8. (R \o Pending) \o <<>> = R \o Pending
    <3>1. R \o Pending \in Seq(Label)
      BY <1>5, <2>6, ConcatProperties
    <3> QED BY <3>1, ConcatEmptySeq
  <2>9. answered' = answered
    BY <2>1 DEF ObserveLine
  <2> QED BY <1>3, <1>4, <1>n, <2>1, <2>7, <2>8, <2>9 DEF A
<1> QED
  BY <1>a, <1>b, <1>c, <1>d, <1>e, <1>f, <1>g, <1>h, <1>i, <1>j, <1>k DEF ReaderStep

(* An answer of a trigger carries no label. *)
LEMMA RecordOthers ==
  ASSUME ControlInv, WriterHeld, SerialInv, BufferInv, RecordInv, ObserveLine,
         pc'[Reader] = pc[Reader], UNCHANGED reader_vars, next_id' = next_id,
         \/ UNCHANGED writer \/ writer = None
         \/ \E t \in Thread \ {Reader} : pc[t] = "write" /\ Unlock
  PROVE  RecordInv'
<1> DEFINE A == FlattenSeq(RepliesOf(answered))
           L == Label \cup {None}
<1>1. log' = log
  BY DEF ObserveLine
<1>2. log \in Seq(LogEntry)
  BY DEF RecordInv
<1>4. LabelsMatchEvents'
        <=> FlattenSeq(RepliesOf(answered')) = FlattenSeq(RulesOf(log)) \o Pending
  BY <1>1 DEF LabelsMatchEvents, RepliesOf, RulesOf, Pending, OneIf
<1>5. A = FlattenSeq(RulesOf(log)) \o Pending
  BY RecordedAs DEF RecordInv
<1>6. FlattenSeq(RepliesOf(answered')) = A
  <2>1. CASE UNCHANGED writer \/ writer = None
    BY <2>1 DEF ObserveLine
  <2>2. CASE \E t \in Thread \ {Reader} : pc[t] = "write" /\ Unlock
    <3>1. PICK t \in Thread \ {Reader} : pc[t] = "write" /\ Unlock
      BY <2>2
    <3>2. PICK a \in Answer : a.by = t /\ answered' = Append(answered, a)
      BY <3>1, UnlockAnswers
    <3>3. RepliesOf(answered') = Append(RepliesOf(answered), <<>>)
      BY <3>1, <3>2, RepliesOfAppend DEF SerialInv, OneIf
    <3>4. A \in Seq(L) /\ RepliesOf(answered) \in Seq(Seq(L))
      BY LabelsTyped
    <3> HIDE DEF L
    <3>5. FlattenSeq(RepliesOf(answered')) = A \o <<>>
      <4>1. <<>> \in Seq(L)
        OBVIOUS
      <4> QED BY <3>3, <3>4, <4>1, FlattenAppend
    <3> HIDE DEF A
    <3>6. A \o <<>> = A
      BY <3>4, ConcatEmptySeq
    <3> QED BY <3>5, <3>6
  <2> QED BY <2>1, <2>2
<1> QED
  BY <1>1, <1>2, <1>4, <1>5, <1>6 DEF RecordInv

(* Every step keeps the record. *)
LEMMA RecordNext ==
  ControlInv /\ WriterHeld /\ SerialInv /\ BufferInv /\ RecordInv /\ [RNext]_rvars => RecordInv'
<1> SUFFICES ASSUME ControlInv, WriterHeld, SerialInv, BufferInv, RecordInv, [RNext]_rvars
             PROVE  RecordInv'
  OBVIOUS
<1>1. CASE UNCHANGED rvars
  BY <1>1 DEF rvars, vars, record, RecordInv, LabelsMatchEvents
<1>2. CASE RNext
  <2>1. Next /\ ObserveLine
    BY <1>2 DEF RNext
  <2>2. CASE ReaderStep
    <3>1. log' \in Seq(LogEntry)
      BY <2>1, <2>2, LogReader DEF RecordInv
    <3>2. LabelsMatchEvents'
      BY <2>1, <2>2, LabelsReader
    <3> QED BY <3>1, <3>2 DEF RecordInv
  <2>3. CASE ~ReaderStep
    <3>1. pc'[Reader] = pc[Reader] /\ UNCHANGED reader_vars
      BY <2>1, <2>3, OthersAlone
    <3>2. /\ next_id' = next_id
          /\ \/ UNCHANGED writer \/ writer = None
             \/ \E t \in Thread \ {Reader} : pc[t] = "write" /\ Unlock
      BY <2>1, <2>3, OthersKeepEvents
    <3> QED
      BY <2>1, <3>1, <3>2, RecordOthers
  <2> QED
    BY <2>2, <2>3
<1> QED
  BY <1>1, <1>2

LEMMA EmptyHistories ==
  DataOf(<<>>) = <<>> /\ RulesOf(<<>>) = <<>> /\ RepliesOf(<<>>) = <<>>
<1>1. DataOf(<<>>) \in Seq(Seq(Byte)) /\ Len(DataOf(<<>>)) = 0
  BY DEF DataOf
<1>2. RulesOf(<<>>) \in Seq(Seq(Byte)) /\ Len(RulesOf(<<>>)) = 0
  BY DEF RulesOf
<1>3. RepliesOf(<<>>) \in Seq(Seq(Byte)) /\ Len(RepliesOf(<<>>)) = 0
  BY DEF RepliesOf
<1> QED
  BY <1>1, <1>2, <1>3, EmptySeq

(* Nothing has been read, recorded or answered at first. *)
LEMMA RecordInit == RInit => RecordInv
<1> SUFFICES ASSUME RInit PROVE RecordInv
  OBVIOUS
<1>1. log = <<>> /\ answered = <<>> /\ label = None
  BY DEF RInit, Init
<1>2. DataOf(log) = <<>> /\ RulesOf(log) = <<>> /\ RepliesOf(answered) = <<>>
  BY <1>1, EmptyHistories
<1>3. <<>> \o <<>> = <<>>
  BY EmptySeq, ConcatEmptySeq
<1>4. Pending = <<>>
  BY <1>1 DEF Pending, OneIf
<1>5. LabelsMatchEvents
  BY <1>1, <1>2, <1>3, <1>4, FlattenEmpty, RecordedAs
<1> QED
  BY <1>1, <1>5 DEF RecordInv

(* A write ends because everything is written or because the device has    *)
(* gone away, and a device that has gone away does not come back.          *)
EndsAWrite == \E t \in Thread : (Written(t) \/ WriteFailed(t)) /\ Unlock

LEMMA WritesEnd ==
  ASSUME ControlInv, Next
  PROVE  /\ hungup => hungup'
         /\ UNCHANGED writer \/ writer = None \/ EndsAWrite
<1>1. Reader \in Thread /\ Conn \subseteq Thread
  BY DEF Thread
<1>2. CASE ClientRead \/ Hangup \/ \E b \in Byte : ClientSend(b)
  BY <1>2 DEF ClientRead, Hangup, ClientSend
<1>3. CASE SwapStep \/ \E cfg \in Config : SwapBegin(cfg)
  BY <1>3 DEF SwapStep, SwapBegin, SwapCompiled, SwapActive, SwapFraming
<1>4. CASE ReaderStep
  <2>1. CASE FrameAnswered
    BY <1>1, <2>1 DEF FrameAnswered, EndsAWrite
  <2>2. CASE MatchFrame
    BY <2>2 DEF MatchFrame, Lock
  <2>3. CASE Snapshot \/ PollReady
    BY <2>3 DEF Snapshot, PollReady
  <2>4. CASE PollTimeout
    BY <2>4 DEF PollTimeout
  <2>5. CASE Eof \/ AppendRaw
    BY <2>5 DEF Eof, AppendRaw
  <2>6. CASE TakeFrame \/ PushFrame
    BY <2>6 DEF TakeFrame, PushFrame
  <2>7. CASE WriteByte(Reader)
    BY <2>7 DEF WriteByte
  <2>8. CASE \E n \in 1..Len(input) : Read(n)
    BY <2>8 DEF Read
  <2> QED
    BY <1>4, <2>1, <2>2, <2>3, <2>4, <2>5, <2>6, <2>7, <2>8 DEF ReaderStep
<1>5. ASSUME NEW c \in Conn, ConnStep(c) \/ \E r \in Requests : Begin(c, r)
      PROVE  /\ hungup => hungup'
             /\ UNCHANGED writer \/ writer = None \/ EndsAWrite
  <2>1. c \in Thread
    BY <1>1
  <2>2. CASE TriggerDone(c)
    BY <2>1, <2>2 DEF TriggerDone, EndsAWrite
  <2>3. CASE TriggerLock(c)
    BY <2>3 DEF TriggerLock, Lock
  <2>4. CASE \E r \in Requests : Begin(c, r)
    BY <2>4 DEF Begin
  <2>5. CASE TriggerSnapshot(c) \/ TriggerUnknown(c)
    <3>1. UNCHANGED <<writer, hungup>>
      BY <2>5 DEF TriggerSnapshot, TriggerUnknown
    <3> QED BY <3>1
  <2>6. CASE SwitchLookup(c) \/ SwitchStore(c)
    <3>1. UNCHANGED <<writer, hungup>>
      BY <2>6 DEF SwitchLookup, SwitchStore
    <3> QED BY <3>1
  <2>a. CASE WriteByte(c)
    BY <2>a DEF WriteByte
  <2>7. CASE ClearCapture(c)
    <3>1. UNCHANGED <<writer, hungup>>
      BY <2>7 DEF ClearCapture
    <3> QED BY <3>1
  <2>8. CASE DescribeActive(c) \/ DescribeCompiled(c)
    BY <2>8 DEF DescribeActive, DescribeCompiled
  <2>9. CASE ReadCapture(c)
    BY <2>9 DEF ReadCapture
  <2> QED
    BY <1>5, <2>2, <2>3, <2>4, <2>5, <2>6, <2>7, <2>8, <2>9, <2>a DEF ConnStep
<1> QED
  BY <1>2, <1>3, <1>4, <1>5 DEF Next

(* A write that ends with nothing left to write has written its response.  *)
LEMMA EndedWhole ==
  ASSUME SerialInv, writer # None, out = <<>>
  PROVE  WrittenPart(writer) = Response(writer)
<1>1. PICK n \in Nat : WrittenTo(n)
  BY DEF SerialInv
<1>2. Response(writer) \in Seq(Byte) /\ WrittenPart(writer) \in Seq(Byte)
  BY <1>1, WrittenPartIs DEF WrittenTo
<1>3. WrittenPart(writer) \o <<>> = Response(writer)
  BY RestIsLeft
<1> QED
  BY <1>2, <1>3, ConcatEmptySeq

LEMMA WholeNext ==
  ControlInv /\ WriterHeld /\ SerialInv /\ WholeUnlessHungup /\ [RNext]_rvars
    => WholeUnlessHungup'
<1> SUFFICES ASSUME ControlInv, WriterHeld, SerialInv, WholeUnlessHungup, [RNext]_rvars
             PROVE  WholeUnlessHungup'
  OBVIOUS
<1>1. CASE UNCHANGED rvars
  BY <1>1 DEF rvars, vars, record, WholeUnlessHungup
<1>2. CASE RNext
  <2>1. Next /\ ObserveLine
    BY <1>2 DEF RNext
  <2>2. /\ hungup => hungup'
        /\ UNCHANGED writer \/ writer = None \/ EndsAWrite
    BY <2>1, WritesEnd
  <2>3. CASE UNCHANGED writer \/ writer = None
    <3>1. answered' = answered
      BY <2>1, <2>3 DEF ObserveLine
    <3> QED BY <2>2, <3>1 DEF WholeUnlessHungup
  <2>4. CASE EndsAWrite
    <3>1. PICK t \in Thread : (Written(t) \/ WriteFailed(t)) /\ Unlock
      BY <2>4 DEF EndsAWrite
    <3>2. /\ pc[t] = "write" /\ writer = t /\ t # None /\ writer' = None
          /\ out = <<>> \/ hungup
      BY <3>1, PortAssumption DEF Written, WriteFailed, Unlock, WriterHeld
    <3> DEFINE a == [by |-> writer, label |-> IF writer = Reader THEN label ELSE None,
                     response |-> Response(writer), bytes |-> WrittenPart(writer)]
    <3>3. answered' = Append(answered, a)
      BY <2>1, <3>2 DEF ObserveLine
    <3>4. a.bytes # a.response => hungup
      BY <3>2, EndedWhole
    <3>5. a \in Answer
      <4>1. PICK n \in Nat : WrittenTo(n)
        BY <3>2 DEF SerialInv
      <4> QED BY <3>2, <4>1, WrittenPartIs DEF Answer, SerialInv, WrittenTo
    <3> HIDE DEF a
    <3>6. answered \in Seq(Answer)
      BY DEF SerialInv
    <3>7. PICK n \in Nat : n = Len(answered) /\ DOMAIN answered = 1..n
      BY <3>6, LenProperties
    <3>8. /\ DOMAIN answered' = 1..(n + 1) /\ answered'[n + 1] = a
          /\ \A i \in 1..n : answered'[i] = answered[i]
      BY <3>3, <3>5, <3>6, <3>7, AppendProperties, LenProperties
    <3>9. ASSUME NEW i \in 1..(n + 1)
          PROVE  answered'[i].bytes # answered'[i].response => hungup
      <4>1. CASE i = n + 1
        BY <3>4, <3>8, <4>1
      <4>2. CASE i # n + 1
        BY <3>7, <3>8, <4>2 DEF WholeUnlessHungup
      <4> QED BY <4>1, <4>2
    <3> QED
      BY <2>2, <3>8, <3>9 DEF WholeUnlessHungup
  <2> QED
    BY <2>2, <2>3, <2>4
<1> QED
  BY <1>1, <1>2

(* An event carries a rule's label exactly when the reader wrote, or tried *)
(* to write, that rule's response for it, in the order of the events, and  *)
(* a response is cut only when the device goes away: for any rules,        *)
(* triggers and configurations.                                            *)
THEOREM AnswersAlwaysMatch == RSpec => []AnswersMatchEvents
<1>1. RInit => /\ ControlInv /\ WriterHeld /\ SerialInv /\ BufferInv /\ RecordInv
               /\ WholeUnlessHungup
  <2>1. RInit => WholeUnlessHungup
    BY DEF RInit, WholeUnlessHungup
  <2> QED BY <2>1, SerialInit, BufferInit, RecordInit DEF RInit
<1>2. [RNext]_rvars => [Next]_vars
  BY DEF RNext, rvars
<1>3. RecordInv /\ WholeUnlessHungup => AnswersMatchEvents
  BY DEF RecordInv, AnswersMatchEvents
<1> QED
  BY <1>1, <1>2, <1>3, ControlNext, WriterNext, SerialNext, BufferNext, RecordNext, WholeNext,
     PTL DEF RSpec
-----------------------------------------------------------------------------
(* The reader as a framer. *)

(* Reloads begun whose framing the reader has not taken up. *)
Ahead == (IF spec # framing THEN 1 ELSE 0) + (IF pc[Reloader] # "idle" THEN 1 ELSE 0)

(* What was read is what the framer was fed and then the chunk in hand; no *)
(* more bytes are read than were sent, and no more framings taken up than  *)
(* reloads begun.                                                          *)
FedInv ==
  /\ stream \in Seq(Byte) /\ FedStream \in Seq(Byte) /\ stream = FedStream \o chunk
  /\ Len(stream) + Len(input) <= sent
  /\ pc[Reader] = "append" => chunk # <<>>
  /\ pc[Reader] = "poll" => spec.idle
  /\ taken \in Nat /\ taken + Ahead <= reloads

(* What a step of the reader may do to the bytes: nothing, take up the     *)
(* framing, read, feed the framer, flush it, or record a frame.            *)
Waits ==
  /\ UNCHANGED <<spec, buf, frames, chunk, input, stream, log, emitted, taken>>
  /\ pc'[Reader] \notin {"append", "poll"}

Retakes ==
  /\ spec' = framing /\ taken' = (IF spec' # spec THEN taken + 1 ELSE taken)
  /\ UNCHANGED <<buf, frames, chunk, input, stream, log, emitted>>
  /\ pc'[Reader] # "append" /\ (pc'[Reader] = "poll" => spec'.idle)

Arrives ==
  /\ chunk = <<>> /\ chunk' \in Seq(Byte) /\ chunk' # <<>>
  /\ stream' = stream \o chunk' /\ Len(chunk') + Len(input') = Len(input)
  /\ UNCHANGED <<spec, buf, frames, log, emitted, taken>>
  /\ pc'[Reader] = "append"

Feeds ==
  /\ pc[Reader] = "append" /\ frames = <<>>
  /\ frames' = FP!Push(spec, buf, chunk).frames /\ buf' = FP!Push(spec, buf, chunk).buf
  /\ frames' \in Seq(Seq(Byte)) /\ chunk' = <<>>
  /\ emitted' = emitted \o FP!Fed(frames', chunk)
  /\ UNCHANGED <<spec, input, stream, log, taken>>
  /\ pc'[Reader] \notin {"append", "poll"}

Flushes ==
  /\ pc[Reader] = "poll" /\ frames = <<>>
  /\ frames' = FP!OnIdle(spec, buf).frames /\ buf' = FP!OnIdle(spec, buf).buf
  /\ frames' \in Seq(Seq(Byte))
  /\ emitted' = emitted \o FP!Flushed(frames')
  /\ UNCHANGED <<spec, chunk, input, stream, log, taken>>
  /\ pc'[Reader] \notin {"append", "poll"}

Files ==
  /\ frames # <<>> /\ frames' = Tail(frames)
  /\ \E e \in LogEntry : e.data = Head(frames) /\ log' = Append(log, e)
  /\ UNCHANGED <<spec, buf, chunk, input, stream, emitted, taken>>
  /\ pc'[Reader] \notin {"append", "poll"}

(* Every step of the reader does one of these. *)
LEMMA ReaderShapes ==
  ASSUME ControlInv, BufferInv, log \in Seq(LogEntry), emitted \in Seq(FP!Frames),
         ReaderStep, ObserveLine, ObserveFrames
  PROVE  /\ Waits \/ Retakes \/ Arrives \/ Feeds \/ Flushes \/ Files
         /\ sent' = sent
<1> USE DEF ControlInv, ControlTypeOK
<1>1. Reader \in Thread
  BY DEF Thread
<1>2. ReaderTyped /\ LineTyped
  BY DEF BufferInv
<1>3. next_id' = next_id => log' = log
  BY DEF ObserveLine
<1>4. ~Moved(Reader, "read", "append") => stream' = stream
  BY DEF ObserveLine
<1>5. spec' = spec => taken' = taken
  BY DEF ObserveFrames
<1>6. ~Left("append") /\ ~Left("poll") => emitted' = emitted
  BY DEF ObserveFrames
<1>q. ASSUME UNCHANGED <<reader_vars, input, sent, next_id>>, pc[Reader] \notin {"append", "poll"},
             pc'[Reader] \notin {"append", "poll"}
      PROVE  Waits /\ sent' = sent
  BY <1>3, <1>4, <1>5, <1>6, <1>q DEF Waits, Moved, Left
<1>a. CASE Snapshot
  <2>1. pc[Reader] = "snapshot" /\ pc'[Reader] = (IF spec'.idle THEN "poll" ELSE "read")
    BY <1>1, <1>a DEF Snapshot
  <2>2. /\ spec' = framing /\ UNCHANGED <<buf, frames, chunk, input, sent, next_id>>
    BY <1>a DEF Snapshot
  <2>3. log' = log /\ stream' = stream /\ emitted' = emitted
    BY <1>3, <1>4, <1>6, <2>1, <2>2 DEF Moved, Left
  <2> QED BY <2>1, <2>2, <2>3 DEF Retakes, ObserveFrames
<1>b. CASE PollReady
  <2>1. /\ pc[Reader] = "poll" /\ pc'[Reader] = "read"
        /\ UNCHANGED <<reader_vars, input, sent, next_id>>
    BY <1>1, <1>b DEF PollReady
  <2>2. log' = log /\ stream' = stream /\ taken' = taken /\ frames = <<>>
    BY <1>2, <1>3, <1>4, <1>5, <2>1 DEF Moved, ReaderTyped
  <2>3. emitted' = emitted \o FP!Flushed(<<>>)
    BY <2>1, <2>2, SameFramer DEF ObserveFrames, Left
  <2>4. FP!Flushed(<<>>) = <<>>
    BY DEF FP!Flushed
  <2>5. emitted' = emitted
    BY <2>3, <2>4, ConcatEmptySeq
  <2> QED BY <2>1, <2>2, <2>5 DEF Waits
<1>c. CASE PollTimeout
  <2>1. /\ pc[Reader] = "poll" /\ pc'[Reader] = AfterFrames(frames')
        /\ UNCHANGED <<spec, chunk, input, sent, next_id>>
        /\ frames' = F!OnIdle(spec, buf).frames /\ buf' = F!OnIdle(spec, buf).buf
    BY <1>1, <1>c DEF PollTimeout
  <2>2. pc'[Reader] \in {"snapshot", "frame"}
    BY <2>1 DEF AfterFrames
  <2>3. log' = log /\ stream' = stream /\ taken' = taken /\ frames = <<>>
    BY <1>2, <1>3, <1>4, <1>5, <2>1, <2>2 DEF Moved, ReaderTyped
  <2>4. emitted' = emitted \o FP!Flushed(frames')
    BY <2>1, <2>2, SameFramer DEF ObserveFrames, Left
  <2>5. frames' \in Seq(Seq(Byte))
    BY <1>2, <2>1, IdleKeeps DEF ReaderTyped
  <2> QED BY <2>1, <2>2, <2>3, <2>4, <2>5, SameFraming DEF Flushes
<1>d. CASE \E n \in 1..Len(input) : Read(n)
  <2>1. PICK n \in 1..Len(input) : Read(n)
    BY <1>d
  <2>2. /\ pc[Reader] = "read" /\ pc'[Reader] = "append"
        /\ UNCHANGED <<spec, buf, frames, sent, next_id>>
        /\ chunk' = SubSeq(input, 1, n) /\ input' = SubSeq(input, n + 1, Len(input))
    BY <1>1, <2>1 DEF Read
  <2>3. /\ log' = log /\ stream' = stream \o chunk' /\ taken' = taken /\ emitted' = emitted
        /\ chunk = <<>>
    BY <1>2, <1>3, <1>5, <1>6, <2>2 DEF Moved, Left, ReaderTyped, ObserveLine
  <2>4. PICK l \in Nat : l = Len(input)
    BY <1>2, LenProperties DEF LineTyped
  <2>5. \A i \in 1..l : input[i] \in Byte
    BY <1>2, <2>4, ElementOfSeq DEF LineTyped
  <2>6. chunk' \in Seq(Byte) /\ Len(chunk') = n
    <3>1. 1 \in Int /\ n \in Int /\ \A i \in 1..n : input[i] \in Byte
      BY <2>4, <2>5
    <3>2. /\ SubSeq(input, 1, n) \in Seq(Byte)
          /\ Len(SubSeq(input, 1, n)) = IF 1 <= n THEN n - 1 + 1 ELSE 0
      BY <3>1, SubSeqProperties
    <3> QED BY <2>2, <2>4, <3>2
  <2>7. Len(input') = l - n
    <3>1. n + 1 \in Int /\ l \in Int /\ \A i \in (n + 1)..l : input[i] \in Byte
      BY <2>4, <2>5
    <3>2. Len(SubSeq(input, n + 1, l)) = IF n + 1 <= l THEN l - (n + 1) + 1 ELSE 0
      BY <3>1, SubSeqProperties
    <3> QED BY <2>2, <2>4, <3>2
  <2>8. chunk' # <<>>
    BY <2>6, EmptySeq
  <2>9. Len(chunk') + Len(input') = Len(input)
    BY <2>4, <2>6, <2>7
  <2> QED BY <2>2, <2>3, <2>6, <2>8, <2>9 DEF Arrives
<1>e. CASE Eof
  BY <1>1, <1>e, <1>q DEF Eof
<1>f. CASE AppendRaw
  <2>1. /\ pc[Reader] = "append" /\ pc'[Reader] = AfterFrames(frames') /\ chunk' = <<>>
        /\ UNCHANGED <<spec, input, sent, next_id>>
        /\ frames' = F!Push(spec, buf, chunk).frames /\ buf' = F!Push(spec, buf, chunk).buf
    BY <1>1, <1>f DEF AppendRaw, Cap!AppendRaw
  <2>2. pc'[Reader] \in {"snapshot", "frame"}
    BY <2>1 DEF AfterFrames
  <2>3. log' = log /\ stream' = stream /\ taken' = taken /\ frames = <<>>
    BY <1>2, <1>3, <1>4, <1>5, <2>1, <2>2 DEF Moved, ReaderTyped
  <2>4. emitted' = emitted \o FP!Fed(frames', chunk)
    BY <2>1, <2>2, SameFramer DEF ObserveFrames, Left
  <2>5. frames' \in Seq(Seq(Byte))
    <3>1. spec \in Framings
      BY DEF Framings
    <3> QED BY <1>2, <2>1, <3>1, PushKeeps DEF ReaderTyped
  <2> QED BY <2>1, <2>2, <2>3, <2>4, <2>5, SameFraming DEF Feeds
<1>g. CASE TakeFrame
  BY <1>1, <1>g, <1>q DEF TakeFrame
<1>h. CASE MatchFrame
  <2>1. /\ pc[Reader] = "match" /\ pc'[Reader] \in {"push", "write"}
        /\ UNCHANGED <<spec, buf, frames, chunk, input, sent, next_id>>
    BY <1>1, <1>h DEF MatchFrame
  <2> QED BY <1>3, <1>4, <1>5, <1>6, <2>1 DEF Waits, Moved, Left
<1>i. CASE WriteByte(Reader)
  <2>1. /\ pc[Reader] = "write" /\ pc' = pc /\ UNCHANGED <<reader_vars, input, sent, next_id>>
    BY <1>i DEF WriteByte
  <2> QED BY <1>q, <2>1
<1>j. CASE FrameAnswered
  BY <1>1, <1>j, <1>q DEF FrameAnswered, Written, WriteFailed
<1>k. CASE PushFrame
  <2>1. /\ pc[Reader] = "push" /\ pc'[Reader] = AfterFrames(frames') /\ frames' = Tail(frames)
        /\ UNCHANGED <<spec, buf, chunk, input, sent>>
    BY <1>1, <1>k DEF PushFrame
  <2>2. pc'[Reader] \in {"snapshot", "frame"}
    BY <2>1 DEF AfterFrames
  <2>3. stream' = stream /\ taken' = taken /\ emitted' = emitted /\ frames # <<>>
    BY <1>2, <1>4, <1>5, <1>6, <2>1, <2>2 DEF Moved, Left, ReaderTyped
  <2>4. \E e \in LogEntry : e.data = Head(frames) /\ log' = Append(log, e)
    <3> DEFINE e == [data |-> Head(frames), matched_rule |-> label]
    <3>1. e \in LogEntry /\ log' = Append(log, e)
      BY <1>k, PushRecords
    <3>2. e.data = Head(frames)
      OBVIOUS
    <3> QED BY <3>1, <3>2
  <2> QED BY <2>1, <2>2, <2>3, <2>4 DEF Files
<1> QED
  BY <1>a, <1>b, <1>c, <1>d, <1>e, <1>f, <1>g, <1>h, <1>i, <1>j, <1>k DEF ReaderStep

(* Nor does any other thread touch the bytes, except that a client sends   *)
(* and a device that goes away may lose what it had queued.                *)
LEMMA OthersRecord ==
  ASSUME ControlInv, BufferInv, FedInv, Next, ~ReaderStep, ObserveLine, ObserveFrames
  PROVE  /\ UNCHANGED <<reader_vars, stream, log, emitted, taken>> /\ pc'[Reader] = pc[Reader]
         /\ Len(stream) + Len(input') <= sent'
         /\ taken + Ahead' <= reloads'
<1> USE DEF ControlInv, ControlTypeOK
<1>1. Reader \in Thread /\ Reloader \in Thread /\ Reader # Reloader /\ Reloader \notin Conn
  BY PortAssumption DEF Thread
<1>2. pc'[Reader] = pc[Reader] /\ UNCHANGED reader_vars
  BY OthersAlone
<1>3. log' = log
  BY OthersKeepEvents DEF ObserveLine
<1>4. stream' = stream /\ emitted' = emitted /\ taken' = taken
  BY <1>2 DEF ObserveLine, ObserveFrames, Moved, Left
<1>5. PICK l \in Nat, m \in Nat : l = Len(input) /\ m = Len(stream)
  BY LenProperties DEF BufferInv, LineTyped, FedInv
<1>6. /\ input \in Seq(Byte) /\ sent \in Nat /\ reloads \in Nat /\ taken \in Nat
      /\ m + l <= sent /\ taken + Ahead <= reloads
  BY <1>5 DEF BufferInv, LineTyped, FedInv
<1>7. UNCHANGED <<input, sent>> \/ (sent' = sent /\ input' = <<>>)
        \/ (sent' = sent + 1 /\ \E b \in Byte : input' = Append(input, b))
        => m + Len(input') <= sent'
  <2>1. CASE UNCHANGED <<input, sent>>
    BY <1>5, <1>6, <2>1
  <2>2. CASE sent' = sent /\ input' = <<>>
    <3>1. Len(input') = 0
      BY <2>2, EmptySeq
    <3> QED BY <1>6, <2>2, <3>1
  <2>3. CASE sent' = sent + 1 /\ \E b \in Byte : input' = Append(input, b)
    <3>1. Len(input') = l + 1
      BY <1>5, <1>6, <2>3, AppendProperties
    <3> QED BY <1>6, <2>3, <3>1
  <2> QED BY <2>1, <2>2, <2>3
<1>8. UNCHANGED <<framing, reloads>> /\ pc'[Reloader] = pc[Reloader] => taken + Ahead' <= reloads'
  BY <1>2, <1>6 DEF Ahead
<1>a. CASE ClientRead \/ Hangup \/ \E b \in Byte : ClientSend(b)
  <2>1. UNCHANGED <<framing, reloads, pc>>
    BY <1>a DEF ClientRead, Hangup, ClientSend
  <2>2. UNCHANGED <<input, sent>> \/ (sent' = sent /\ input' = <<>>)
          \/ (sent' = sent + 1 /\ \E b \in Byte : input' = Append(input, b))
    BY <1>a DEF ClientRead, Hangup, ClientSend
  <2> QED BY <1>2, <1>3, <1>4, <1>5, <1>7, <1>8, <2>1, <2>2
<1>b. ASSUME NEW c \in Conn, ConnStep(c) \/ \E r \in Requests : Begin(c, r)
      PROVE  Len(stream) + Len(input') <= sent' /\ taken + Ahead' <= reloads'
  <2>1. UNCHANGED framing /\ pc'[Reloader] = pc[Reloader]
    BY <1>1, <1>b, ConnAlone
  <2>2. UNCHANGED <<reloads, input, sent>>
    BY <1>b DEF ConnStep, Begin, TriggerSnapshot, TriggerLock, TriggerUnknown, WriteByte,
                TriggerDone, SwitchLookup, SwitchStore, DescribeActive, DescribeCompiled,
                ReadCapture, ClearCapture
  <2> QED BY <1>5, <1>7, <1>8, <2>1, <2>2
<1>c. CASE SwapStep \/ \E cfg \in Config : SwapBegin(cfg)
  <2>1. UNCHANGED <<input, sent>>
    BY <1>c DEF SwapStep, SwapBegin, SwapCompiled, SwapActive, SwapFraming
  <2>2. CASE \E cfg \in Config : SwapBegin(cfg)
    <3>1. /\ pc[Reloader] = "idle" /\ pc'[Reloader] # "idle"
          /\ reloads' = reloads + 1 /\ UNCHANGED <<spec, framing>>
      BY <1>1, <2>2 DEF SwapBegin
    <3>2. Ahead' = Ahead + 1
      BY <3>1 DEF Ahead
    <3>3. Ahead \in Nat
      BY DEF Ahead
    <3> QED BY <1>2, <1>3, <1>4, <1>5, <1>6, <1>7, <2>1, <3>1, <3>2, <3>3
  <2>3. CASE SwapCompiled \/ SwapActive
    <3>1. /\ pc[Reloader] # "idle" /\ pc'[Reloader] # "idle"
          /\ UNCHANGED <<reloads, spec, framing>>
      BY <1>1, <2>3 DEF SwapCompiled, SwapActive
    <3>2. Ahead' = Ahead
      BY <3>1 DEF Ahead
    <3> QED BY <1>2, <1>3, <1>4, <1>5, <1>6, <1>7, <2>1, <3>1, <3>2
  <2>4. CASE SwapFraming
    <3>1. pc[Reloader] = "framing" /\ pc'[Reloader] = "idle" /\ reloads' = reloads
      BY <1>1, <2>4 DEF SwapFraming
    <3>2. taken + (IF spec # framing THEN 1 ELSE 0) + 1 <= reloads
      BY <1>6, <3>1 DEF Ahead
    <3>3. PICK x \in {0, 1} : x = IF spec # framing' THEN 1 ELSE 0
      OBVIOUS
    <3>4. Ahead' = x
      BY <1>2, <3>1, <3>3 DEF Ahead
    <3>5. taken + Ahead' <= reloads'
      BY <1>6, <3>1, <3>2, <3>4
    <3>6. Len(stream) + Len(input') <= sent'
      BY <1>5, <1>7, <2>1
    <3> QED BY <1>2, <1>3, <1>4, <3>5, <3>6
  <2> QED BY <1>c, <2>2, <2>3, <2>4 DEF SwapStep
<1>d. CASE \E c \in Conn : ConnStep(c) \/ \E r \in Requests : Begin(c, r)
  BY <1>2, <1>3, <1>4, <1>b, <1>d
<1> QED
  BY <1>a, <1>c, <1>d DEF Next

(* The bytes fed, when some more of them or none are in hand. *)
LEMMA FedStreamIs ==
  ASSUME NEW x \in Seq(Byte), NEW c \in Seq(Byte)
  PROVE  SubSeq(x \o c, 1, Len(x \o c) - Len(c)) = x
<1>1. PICK n \in Nat, m \in Nat : n = Len(x) /\ m = Len(c)
  BY LenProperties
<1> DEFINE b == x \o c
<1>2. /\ b \in Seq(Byte) /\ Len(b) = n + m
      /\ \A i \in 1..(n + m) : b[i] = IF i <= n THEN x[i] ELSE c[i - n]
  BY <1>1, ConcatProperties
<1> HIDE DEF b
<1>3. (n + m) - m = n
  OBVIOUS
<1>4. 1 \in Int /\ n \in Int /\ \A i \in 1..n : b[i] \in Byte /\ b[i] = x[i]
  <2>1. \A i \in 1..n : i \in 1..(n + m) /\ i <= n
    OBVIOUS
  <2> QED BY <1>1, <1>2, <2>1, ElementOfSeq
<1>5. /\ SubSeq(b, 1, n) \in Seq(Byte)
      /\ Len(SubSeq(b, 1, n)) = IF 1 <= n THEN n - 1 + 1 ELSE 0
      /\ \A i \in 1..(n - 1 + 1) : SubSeq(b, 1, n)[i] = b[1 + i - 1]
  BY <1>4, SubSeqProperties
<1>6. Len(SubSeq(b, 1, n)) = n /\ \A i \in 1..n : SubSeq(b, 1, n)[i] = x[i]
  <2>1. \A i \in 1..n : i \in 1..(n - 1 + 1) /\ 1 + i - 1 = i
    OBVIOUS
  <2> QED BY <1>4, <1>5, <2>1
<1>7. SubSeq(b, 1, n) = x
  BY <1>1, <1>5, <1>6, SeqEqual
<1> QED
  BY <1>1, <1>2, <1>3, <1>7 DEF b

(* Feeding moves the chunk over to the bytes fed, and nothing else does. *)
LEMMA FedStreamMoves ==
  ASSUME FedInv, BufferInv, Waits \/ Retakes \/ Arrives \/ Feeds \/ Flushes \/ Files
  PROVE  /\ FedStream' = (IF Feeds THEN FedStream \o chunk ELSE FedStream)
         /\ Feeds => stream' = FedStream' /\ chunk' = <<>> /\ chunk # <<>>
         /\ stream' \in Seq(Byte) /\ FedStream' \in Seq(Byte) /\ stream' = FedStream' \o chunk'
<1>1. /\ stream \in Seq(Byte) /\ FedStream \in Seq(Byte) /\ chunk \in Seq(Byte)
      /\ stream = FedStream \o chunk
  BY DEF FedInv, BufferInv, ReaderTyped
<1>2. CASE UNCHANGED <<stream, chunk>> /\ ~Feeds
  BY <1>1, <1>2 DEF FedStream
<1>3. CASE Arrives
  <2>1. chunk = <<>> /\ chunk' \in Seq(Byte) /\ stream' = stream \o chunk' /\ pc'[Reader] = "append"
    BY <1>3 DEF Arrives
  <2>2. FedStream = stream
    BY <1>1, <2>1, ConcatEmptySeq
  <2>3. stream' \in Seq(Byte)
    BY <1>1, <2>1, ConcatProperties
  <2>4. FedStream' = stream
    <3> DEFINE c == chunk'
    <3>1. c \in Seq(Byte) /\ stream' = stream \o c
      BY <2>1
    <3>2. FedStream' = SubSeq(stream \o c, 1, Len(stream \o c) - Len(c))
      BY <2>1 DEF FedStream
    <3> HIDE DEF c
    <3> QED BY <1>1, <3>1, <3>2, FedStreamIs
  <2>5. ~Feeds
    BY <2>1 DEF Feeds
  <2> QED BY <1>1, <2>1, <2>2, <2>3, <2>4, <2>5
<1>4. CASE Feeds
  <2>1. chunk' = <<>> /\ stream' = stream /\ chunk # <<>>
    BY <1>4 DEF Feeds, FedInv
  <2>2. FedStream' = stream
    <3>1. stream \o <<>> = stream /\ <<>> \in Seq(Byte)
      BY <1>1, ConcatEmptySeq
    <3>2. SubSeq(stream \o <<>>, 1, Len(stream \o <<>>) - Len(<<>>)) = stream
      BY <1>1, <3>1, FedStreamIs
    <3> QED BY <2>1, <3>1, <3>2 DEF FedStream
  <2>3. stream \o <<>> = stream
    BY <1>1, ConcatEmptySeq
  <2> QED BY <1>1, <1>4, <2>1, <2>2, <2>3
<1>5. Waits \/ Retakes \/ Flushes \/ Files => UNCHANGED <<stream, chunk>>
  BY DEF Waits, Retakes, Flushes, Files
<1> QED
  BY <1>2, <1>3, <1>4, <1>5

(* Every step keeps FedInv. *)
LEMMA FedNext ==
  ControlInv /\ BufferInv /\ RecordInv /\ FedInv /\ emitted \in Seq(FP!Frames) /\ [RNext]_rvars
    => FedInv'
<1> SUFFICES ASSUME ControlInv, BufferInv, RecordInv, FedInv, emitted \in Seq(FP!Frames),
                    [RNext]_rvars
             PROVE  FedInv'
  OBVIOUS
<1>1. CASE UNCHANGED rvars
  BY <1>1 DEF rvars, vars, record, FedInv, FedStream, Ahead
<1>2. CASE RNext /\ ~ReaderStep
  <2>1. /\ UNCHANGED <<reader_vars, stream, log, emitted, taken>> /\ pc'[Reader] = pc[Reader]
        /\ Len(stream) + Len(input') <= sent'
        /\ taken + Ahead' <= reloads'
    BY <1>2, OthersRecord DEF RNext
  <2> QED BY <2>1 DEF FedInv, FedStream
<1>3. CASE RNext /\ ReaderStep
  <2>1. (Waits \/ Retakes \/ Arrives \/ Feeds \/ Flushes \/ Files) /\ sent' = sent
    BY <1>3, ReaderShapes DEF RNext, RecordInv
  <2>2. stream' \in Seq(Byte) /\ FedStream' \in Seq(Byte) /\ stream' = FedStream' \o chunk'
    BY <2>1, FedStreamMoves
  <2>3. Len(stream') + Len(input') <= sent'
    <3>1. CASE Arrives
      <4>1. chunk' \in Seq(Byte) /\ stream' = stream \o chunk' /\ Len(chunk') + Len(input') = Len(input)
        BY <3>1 DEF Arrives
      <4>2. stream \in Seq(Byte) /\ Len(stream) + Len(input) <= sent /\ input' \in Seq(Byte)
        BY <1>3, BufferReader DEF FedInv, BufferInv, LineTyped
      <4>3. Len(stream') = Len(stream) + Len(chunk')
        BY <4>1, <4>2, ConcatProperties
      <4>4. PICK a \in Nat : a = Len(stream)
        BY <4>2, LenProperties
      <4>5. PICK b \in Nat : b = Len(chunk')
        BY <4>1, LenProperties
      <4>6. PICK d \in Nat : d = Len(input')
        BY <4>2, LenProperties
      <4>7. Len(stream') = a + b
        BY <4>3, <4>4, <4>5
      <4>8. a + (b + d) <= sent
        BY <4>1, <4>2, <4>4, <4>5, <4>6
      <4>9. sent \in Nat
        BY DEF BufferInv, LineTyped
      <4> QED BY <2>1, <4>6, <4>7, <4>8, <4>9
    <3>2. CASE Waits \/ Retakes \/ Feeds \/ Flushes \/ Files
      <4>1. UNCHANGED <<stream, input>>
        BY <3>2 DEF Waits, Retakes, Feeds, Flushes, Files
      <4> QED BY <2>1, <4>1 DEF FedInv
    <3> QED BY <2>1, <3>1, <3>2
  <2>4. (pc'[Reader] = "append" => chunk' # <<>>) /\ (pc'[Reader] = "poll" => spec'.idle)
    BY <2>1 DEF Waits, Retakes, Arrives, Feeds, Flushes, Files
  <2>5. taken' \in Nat /\ taken' + Ahead' <= reloads'
    <3>1. UNCHANGED <<framing, reloads>> /\ pc'[Reloader] = pc[Reloader]
      BY <1>3, ReaderAlone, PortAssumption DEF Thread
    <3>2. taken \in Nat /\ taken + Ahead <= reloads
      BY DEF FedInv
    <3>3. CASE Retakes
      BY <3>1, <3>2, <3>3 DEF Retakes, Ahead
    <3>4. CASE Waits \/ Arrives \/ Feeds \/ Flushes \/ Files
      <4>1. UNCHANGED <<spec, taken>>
        BY <3>4 DEF Waits, Arrives, Feeds, Flushes, Files
      <4> QED BY <3>1, <3>2, <4>1 DEF Ahead
    <3> QED BY <2>1, <3>3, <3>4
  <2> QED BY <2>2, <2>3, <2>4, <2>5 DEF FedInv
<1> QED
  BY <1>1, <1>2, <1>3

(* The chunks of a framer that reads no more than is sent. *)
LEMMA ChunksFed ==
  ASSUME NEW c \in Seq(Byte), c # <<>>, Len(c) <= MaxSent
  PROVE  c \in FP!BoundedSeq(Byte, MaxSent) \ {<<>>}
<1>1. PICK n \in Nat : n = Len(c) /\ DOMAIN c = 1..n
  BY LenProperties
<1>2. c \in [1..n -> Byte]
  BY <1>1, ElementOfSeq
<1>3. n \in 0..MaxSent
  BY <1>1, PortAssumption
<1> QED
  BY <1>2, <1>3 DEF FP!BoundedSeq, FP!SeqOf

(* Every step is one of the framer, or does not touch it. *)
LEMMA FramerStep ==
  ControlInv /\ BufferInv /\ RecordInv /\ FedInv /\ FP!FramerInv /\ [RNext]_rvars
    => [FP!Next]_(FP!vars)
<1> SUFFICES ASSUME ControlInv, BufferInv, RecordInv, FedInv, FP!FramerInv, [RNext]_rvars
             PROVE  [FP!Next]_(FP!vars)
  OBVIOUS
<1>1. UNCHANGED <<spec, buf, FedStream, emitted, taken>> => UNCHANGED FP!vars
  BY DEF FP!vars
<1>2. emitted \in Seq(FP!Frames)
  BY DEF FP!FramerInv, FP!TypeOK, FP!Frames, FP!Specs
<1>3. CASE UNCHANGED rvars
  BY <1>1, <1>3 DEF rvars, vars, record, FedStream
<1>4. CASE RNext /\ ~ReaderStep
  <2>1. UNCHANGED <<reader_vars, stream, emitted, taken>>
    BY <1>4, OthersRecord DEF RNext
  <2> QED BY <1>1, <2>1 DEF FedStream
<1>5. CASE RNext /\ ReaderStep
  <2>1. (Waits \/ Retakes \/ Arrives \/ Feeds \/ Flushes \/ Files) /\ sent' = sent
    BY <1>2, <1>5, ReaderShapes DEF RNext, RecordInv
  <2>2. FedStream' = (IF Feeds THEN FedStream \o chunk ELSE FedStream)
    BY <2>1, FedStreamMoves
  <2>3. CASE (Waits \/ Arrives \/ Files) /\ ~Feeds
    <3>1. UNCHANGED <<spec, buf, emitted, taken>>
      BY <2>3 DEF Waits, Arrives, Files
    <3> QED BY <1>1, <2>2, <2>3, <3>1
  <2>4. CASE Retakes
    <3>1. /\ spec' = framing /\ taken' = (IF spec' # spec THEN taken + 1 ELSE taken)
          /\ UNCHANGED <<buf, emitted, chunk, stream>>
      BY <2>4 DEF Retakes
    <3>2. FedStream' = FedStream
      BY <3>1 DEF FedStream
    <3>3. CASE spec' = spec
      BY <1>1, <3>1, <3>2, <3>3
    <3>4. CASE spec' # spec
      <4>1. PICK cfg \in Config : framing = F!FromConfig(cfg.framing)
        BY DEF ControlInv, ControlTypeOK
      <4>2. PICK c \in {x.framing : x \in Config} : framing = FP!FromConfig(c)
        BY <4>1, SameFraming
      <4>3. taken < MaxReloads
        <5>1. taken \in Nat /\ taken + Ahead <= reloads /\ reloads \in 0..MaxReloads
          BY DEF FedInv, ControlInv, ControlTypeOK
        <5>2. Ahead \in {1, 2}
          BY <3>1, <3>4 DEF Ahead
        <5> QED BY <5>1, <5>2, PortAssumption
      <4>4. FP!TakeUp(c)
        BY <3>1, <3>2, <3>4, <4>2, <4>3 DEF FP!TakeUp
      <4> QED BY <4>4 DEF FP!Next
    <3> QED BY <3>3, <3>4
  <2>5. CASE Feeds
    <3>1. /\ frames' = FP!Push(spec, buf, chunk).frames /\ buf' = FP!Push(spec, buf, chunk).buf
          /\ emitted' = emitted \o FP!Fed(frames', chunk)
          /\ UNCHANGED <<spec, taken, stream, input>>
          /\ pc[Reader] = "append"
      BY <2>5 DEF Feeds
    <3>2. FedStream' = FedStream \o chunk
      BY <2>2, <2>5
    <3>3. /\ stream = FedStream \o chunk /\ FedStream \in Seq(Byte) /\ chunk \in Seq(Byte)
          /\ chunk # <<>> /\ Len(stream) + Len(input) <= sent /\ sent \in 0..MaxSent
          /\ input \in Seq(Byte)
      BY <3>1 DEF FedInv, BufferInv, ReaderTyped, LineTyped
    <3>4. PICK n \in Nat : n = Len(FedStream)
      BY <3>3, LenProperties
    <3>5. PICK m \in Nat : m = Len(chunk)
      BY <3>3, LenProperties
    <3>6. PICK l \in Nat : l = Len(input)
      BY <3>3, LenProperties
    <3>7. Len(stream) = n + m
      BY <3>3, <3>4, <3>5, ConcatProperties
    <3>8. n + m <= MaxSent /\ m <= MaxSent
      BY <3>3, <3>6, <3>7, PortAssumption
    <3>9. chunk \in FP!BoundedSeq(Byte, MaxSent) \ {<<>>}
      BY <3>3, <3>5, <3>8, ChunksFed
    <3>10. FP!Feed(chunk)
      BY <3>1, <3>2, <3>4, <3>5, <3>8 DEF FP!Feed
    <3> QED BY <3>9, <3>10 DEF FP!Next
  <2>6. CASE Flushes
    <3>1. /\ frames' = FP!OnIdle(spec, buf).frames /\ buf' = FP!OnIdle(spec, buf).buf
          /\ emitted' = emitted \o FP!Flushed(frames')
          /\ UNCHANGED <<spec, taken, stream, chunk>>
          /\ pc[Reader] = "poll"
      BY <2>6 DEF Flushes
    <3>2. FedStream' = FedStream
      BY <3>1 DEF FedStream
    <3>3. spec.idle
      BY <3>1 DEF FedInv
    <3>4. FP!Quiet
      BY <3>1, <3>2, <3>3 DEF FP!Quiet
    <3> QED BY <3>4 DEF FP!Next
  <2> QED BY <2>1, <2>3, <2>4, <2>5, <2>6
<1> QED
  BY <1>3, <1>4, <1>5

(* The framer's frames are those recorded as events and then those in hand. *)
FramesRecorded == FP!Framed(emitted) = DataOf(log) \o frames

LEMMA FramesReader ==
  ASSUME BufferInv, RecordInv, FramesRecorded, emitted \in Seq(FP!Frames), spec \in FP!Specs,
         Waits \/ Retakes \/ Arrives \/ Feeds \/ Flushes \/ Files
  PROVE  FramesRecorded'
<1>1. /\ frames \in Seq(Seq(Byte)) /\ log \in Seq(LogEntry)
  BY DEF BufferInv, ReaderTyped, RecordInv
<1>2. DataOf(log) \in Seq(Seq(Byte))
  <2>1. [data |-> <<>>, matched_rule |-> None] \in LogEntry
    BY DEF LogEntry
  <2> QED BY <1>1, <2>1, DataOfAppend
<1>3. CASE Waits \/ Retakes \/ Arrives
  <2>1. UNCHANGED <<frames, log, emitted>>
    BY <1>3 DEF Waits, Retakes, Arrives
  <2> QED BY <2>1 DEF FramesRecorded
<1>4. CASE Feeds \/ Flushes
  <2>1. /\ frames = <<>> /\ frames' \in Seq(Seq(Byte)) /\ log' = log
        /\ \/ emitted' = emitted \o FP!Fed(frames', chunk)
           \/ emitted' = emitted \o FP!Flushed(frames')
    BY <1>4 DEF Feeds, Flushes
  <2>2. PICK q \in Seq(Seq(Byte)) : q = frames'
    BY <2>1
  <2>3. PICK e \in Seq(FP!Frames) : emitted' = emitted \o e /\ FP!Framed(e) = q
    BY <2>1, <2>2, PortFraming, FP!FedTyped
  <2>4. FP!Framed(emitted') = FP!Framed(emitted) \o q
    BY <2>3, PortFraming, FP!ReadOffConcat
  <2>5. FP!Framed(emitted) = DataOf(log)
    BY <1>2, <2>1, ConcatEmptySeq DEF FramesRecorded
  <2> QED BY <2>1, <2>2, <2>4, <2>5 DEF FramesRecorded
<1>5. CASE Files
  <2>1. frames # <<>> /\ frames' = Tail(frames) /\ emitted' = emitted
    BY <1>5 DEF Files
  <2>2. PICK e \in LogEntry : e.data = Head(frames) /\ log' = Append(log, e)
    BY <1>5 DEF Files
  <2>3. PICK h \in Seq(Byte) : h = Head(frames)
    BY <1>1, <2>1, HeadThenTail
  <2>4. PICK t \in Seq(Seq(Byte)) : t = Tail(frames) /\ frames = <<h>> \o t
    BY <1>1, <2>1, <2>3, HeadThenTail
  <2>5. DataOf(log') = Append(DataOf(log), h)
    BY <1>1, <2>2, <2>3, DataOfAppend
  <2>6. PICK d \in Seq(Seq(Byte)) : d = DataOf(log)
    BY <1>2
  <2>7. Append(d, h) = d \o <<h>> /\ <<h>> \in Seq(Seq(Byte))
    BY AppendIsConcat
  <2>8. (d \o <<h>>) \o t = d \o (<<h>> \o t)
    BY <2>7, ConcatAssociative
  <2> QED BY <2>1, <2>4, <2>5, <2>6, <2>7, <2>8 DEF FramesRecorded
<1> QED
  BY <1>3, <1>4, <1>5

LEMMA FramesNext ==
  ControlInv /\ BufferInv /\ RecordInv /\ FedInv /\ FP!FramerInv /\ FramesRecorded /\ [RNext]_rvars
    => FramesRecorded'
<1> SUFFICES ASSUME ControlInv, BufferInv, RecordInv, FedInv, FP!FramerInv, FramesRecorded,
                    [RNext]_rvars
             PROVE  FramesRecorded'
  OBVIOUS
<1>1. emitted \in Seq(FP!Frames) /\ spec \in FP!Specs
  BY DEF FP!FramerInv, FP!TypeOK, FP!Frames, FP!Specs
<1>2. CASE UNCHANGED rvars
  BY <1>2 DEF rvars, vars, record, FramesRecorded
<1>3. CASE RNext /\ ~ReaderStep
  <2>1. UNCHANGED <<reader_vars, log, emitted>>
    BY <1>3, OthersRecord DEF RNext
  <2> QED BY <2>1 DEF FramesRecorded
<1>4. CASE RNext /\ ReaderStep
  <2>1. Waits \/ Retakes \/ Arrives \/ Feeds \/ Flushes \/ Files
    BY <1>1, <1>4, ReaderShapes DEF RNext, RecordInv
  <2> QED BY <1>1, <2>1, FramesReader
<1> QED
  BY <1>2, <1>3, <1>4

(* A port that has just been spawned has read nothing. *)
LEMMA FedInit == RInit => FedInv /\ FP!Init /\ FP!FramerInv /\ FramesRecorded
<1> SUFFICES ASSUME RInit PROVE FedInv /\ FP!Init /\ FP!FramerInv /\ FramesRecorded
  OBVIOUS
<1>1. /\ stream = <<>> /\ chunk = <<>> /\ input = <<>> /\ sent = 0 /\ buf = <<>> /\ emitted = <<>>
      /\ taken = 0 /\ reloads = 0 /\ spec = framing /\ log = <<>> /\ frames = <<>>
      /\ pc = [t \in Thread |-> IF t = Reader THEN "snapshot" ELSE "idle"]
      /\ framing = F!FromConfig(InitialConfig.framing)
  BY DEF RInit, Init
<1>2. <<>> \in Seq(Byte) /\ Len(<<>>) = 0 /\ <<>> \o <<>> = <<>>
  BY EmptySeq, ConcatEmptySeq
<1>3. FedStream = <<>>
  BY <1>1, <1>2, SubSeqEmpty DEF FedStream
<1>4. pc[Reader] = "snapshot" /\ pc[Reloader] = "idle"
  BY <1>1, PortAssumption DEF Thread
<1>5. FedInv
  BY <1>1, <1>2, <1>3, <1>4 DEF FedInv, Ahead
<1>6. FP!Init
  <2>1. spec \in FP!Specs
    BY <1>1, SameFraming, PortAssumption DEF Framings
  <2> QED BY <1>1, <1>3, <2>1 DEF FP!Init, FP!Specs
<1>7. FP!FramerInv
  BY <1>6, PortFraming, FP!InitEstablishes
<1>8. FramesRecorded
  <2>1. FP!Framed(<<>>) = <<>>
    BY DEF FP!Framed
  <2> QED BY <1>1, <1>2, <2>1, EmptyHistories DEF FramesRecorded
<1> QED
  BY <1>5, <1>6, <1>7, <1>8

(* All that is known about the bytes and frames of a port. *)
BytesInv == ControlInv /\ WriterHeld /\ SerialInv /\ BufferInv /\ RecordInv /\ FedInv
              /\ FP!FramerInv /\ FramesRecorded

LEMMA BytesInvariance == RSpec => []BytesInv
<1>1. RInit => BytesInv
  BY SerialInit, BufferInit, RecordInit, FedInit DEF RInit, BytesInv
<1>2. BytesInv /\ [RNext]_rvars => BytesInv'
  <2> SUFFICES ASSUME BytesInv, [RNext]_rvars PROVE BytesInv'
    OBVIOUS
  <2>1. [Next]_vars
    BY DEF RNext, rvars
  <2>2. emitted \in Seq(FP!Frames)
    BY DEF BytesInv, FP!FramerInv, FP!TypeOK, FP!Frames, FP!Specs
  <2>3. FP!FramerInv'
    <3>1. [FP!Next]_(FP!vars)
      BY FramerStep DEF BytesInv
    <3> QED BY <3>1, PortFraming, FP!NextPreserves DEF BytesInv
  <2> QED
    BY <2>1, <2>2, <2>3, ControlNext, WriterNext, SerialNext, BufferNext, RecordNext, FedNext,
       FramesNext DEF BytesInv
<1> QED
  BY <1>1, <1>2, PTL DEF RSpec

(* Every byte read is accounted for once and in order, whatever reloads    *)
(* and clears do meanwhile and whatever the framings: the events recorded  *)
(* and the frames in hand are the frames that were cut, and these with the *)
(* delimiters dropped from them, the buffer and the last read spell what   *)
(* was read.                                                               *)
THEOREM EveryByteIsAccounted == RSpec => []EveryByteAccounted
<1>1. BytesInv => EveryByteAccounted
  <2> SUFFICES ASSUME BytesInv PROVE EveryByteAccounted
    OBVIOUS
  <2>1. FP!FlattenSeq(FP!Spelled(emitted)) \o buf = FedStream
    BY DEF BytesInv, FP!FramerInv, FP!BytesConserved, FP!Spelled
  <2>2. FlattenSeq(FP!Spelled(emitted)) \o buf = FedStream
    BY <2>1, SameFraming
  <2>3. FlattenSeq(FP!Spelled(emitted)) \o buf \o chunk = stream
    BY <2>2 DEF BytesInv, FedInv
  <2>4. FP!Framed(emitted) = DataOf(log) \o frames
    BY DEF BytesInv, FramesRecorded
  <2> QED BY <2>3, <2>4 DEF EveryByteAccounted, FP!Spelled, FP!Framed, DataOf
<1> QED
  BY <1>1, BytesInvariance, PTL

(* The reader thread implements Framer: among connections, switches,       *)
(* reloads and a client that may not read, it does nothing to the framing, *)
(* the buffer and the frames but feed it, flush it and take up a framing.  *)
THEOREM ReaderImplementsFramer == RSpec => ImplementsFramer
<1>1. RInit => Fr!Init
  BY FedInit DEF Fr!Init, FP!Init, Fr!FromConfig, FP!FromConfig
<1>2. BytesInv /\ [RNext]_rvars => [Fr!Next]_(Fr!vars)
  <2> SUFFICES ASSUME BytesInv, [RNext]_rvars PROVE [Fr!Next]_(Fr!vars)
    OBVIOUS
  <2>1. [FP!Next]_(FP!vars)
    BY FramerStep DEF BytesInv
  <2>2. CASE UNCHANGED FP!vars
    BY <2>2 DEF FP!vars, Fr!vars
  <2>3. ASSUME NEW c \in FP!BoundedSeq(Byte, MaxSent) \ {<<>>}, FP!Feed(c) PROVE Fr!Next
    <3>1. Fr!Feed(c)
      BY <2>3, SameFramer DEF FP!Feed, Fr!Feed
    <3>2. c \in Fr!BoundedSeq(Byte, MaxSent) \ {<<>>}
      BY DEF FP!BoundedSeq, FP!SeqOf, Fr!BoundedSeq, Fr!SeqOf
    <3> QED BY <3>1, <3>2 DEF Fr!Next
  <2>4. CASE FP!Quiet
    BY <2>4, SameFramer DEF FP!Quiet, Fr!Quiet, FP!OnIdle, Fr!OnIdle, Fr!Next
  <2>5. CASE \E cfg \in {x.framing : x \in Config} : FP!TakeUp(cfg)
    BY <2>5 DEF FP!TakeUp, Fr!TakeUp, FP!FromConfig, Fr!FromConfig, Fr!Next
  <2> QED BY <2>1, <2>2, <2>3, <2>4, <2>5 DEF FP!Next
<1> QED
  BY <1>1, <1>2, BytesInvariance, PTL DEF RSpec, ImplementsFramer, Fr!Spec
=============================================================================
