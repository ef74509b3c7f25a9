------------------------------ MODULE MCConfig -------------------------------
(***************************************************************************)
(* Configuration files made from one sound port by changing one thing at a *)
(* time: how a literal is written, what a rule matches, how frames are cut *)
(* and what is wrong.  Which are sound and which are flawed is what        *)
(* README:104-111 and the comment at bytes.rs:7-12 say of how they were    *)
(* made; the files of which the code says otherwise are Disputed.          *)
(***************************************************************************)
EXTENDS Config, Bitwise

Text(t, bytes) == [form |-> "map", keys |-> [hex |-> t], means |-> bytes]

Keys(keys, bytes) == [form |-> "map", keys |-> keys, means |-> bytes]

Plain(bytes) == [form |-> "plain", bytes |-> bytes, means |-> bytes]

Array(bytes) == Keys([bytes |-> bytes], bytes)

(* The bytes 0x0F 0x51, as the notations of bytes.rs:7-12 allow. *)
FrameBytes == <<15, 81>>

(* One byte in hex, with what may stand before it. *)
HexByte(before, b) == before \o <<b \div 16, b % 16>>

Before == <<<<>>, <<Sep>>, <<0, X>>, <<Sep, 0, X>>>>

HexTexts ==
  [k \in 1..16 |-> HexByte(Before[(k % 4) + 1], 15) \o HexByte(Before[((k \div 4) % 4) + 1], 81)
                     \o (IF k % 3 = 0 THEN <<Sep>> ELSE <<>>)]

SoundLiterals ==
  [k \in DOMAIN HexTexts |-> Text(HexTexts[k], FrameBytes)] \o
  << Text(HexEncode(FrameBytes), FrameBytes), Plain(FrameBytes), Array(FrameBytes),
     Keys([base64 |-> Ok(FrameBytes)], FrameBytes), Keys([utf8 |-> FrameBytes], FrameBytes) >>

(* What is no string and no map to serde: a sequence, a number, a Boolean. *)
NoScalar(meant) == [form |-> "other", means |-> meant]

FlawedLiterals ==
  << Text(<<1, 5, 1>>, Null), Text(<<1, Other>>, Null), Text(<<X, 1, 5>>, Null),
     Keys([hex |-> <<1, 5>>, utf8 |-> <<15>>], Null), Keys([hex |-> <<1, 5>>, hexx |-> <<15>>], Null),
     Keys([hex |-> Null], Null), Keys([base64 |-> Error], Null), Keys([bytes |-> <<256>>], Null),
     NoScalar(Null) >>

Regex(str, bytes, language) == [regex |-> [str |-> str, bytes |-> bytes, language |-> language]]

Exact(l) == [exact |-> l]

Mask(p, m) == [mask |-> [pattern |-> p, mask |-> m]]

Rule(match, response) == [match |-> match, response |-> response]

Trigger(n, response) == [name |-> n, response |-> response]

Scenario(n, triggers, rules) == [name |-> n, triggers |-> triggers, rules |-> rules]

PortDoc(n, initial, framing, scenarios) ==
  [name |-> n, initial |-> initial, framing |-> framing, scenarios |-> scenarios]

Doc(ports) == [readable |-> TRUE, yaml |-> TRUE, ports |-> ports]

MCFrame == {<<>>, <<15>>} \cup {<<a, b>> : a, b \in {0, 15, 81, 95}}

Beginning15 == {f \in MCFrame : f # <<>> /\ f[1] = 15}

ByMask == Mask(Array(<<95, 15>>), Array(<<15, 0>>))

Catch == Rule(Regex(TRUE, TRUE, MCFrame), Array(<<7>>))

Idle(rules) == Scenario("idle", <<Trigger("t", Array(<<1>>))>>, rules)

Busy == Scenario("busy", <<>>, <<Rule(ByMask, Array(<<2, 2>>)), Catch>>)

One(framing, rules) == Doc(<<PortDoc("a", "idle", framing, <<Idle(rules), Busy>>)>>)

Rules(match) == <<Rule(match, Array(<<3>>)), Rule(ByMask, Plain(<<2>>)), Catch>>

Sound ==
  [i \in DOMAIN SoundLiterals |-> One(Null, Rules(Exact(SoundLiterals[i])))] \o
  << One(Null, Rules(Mask(Text(<<0, X, 5, 15, 5, 15>>, <<95, 95>>), Array(<<80, 255>>)))),
     One(Null, Rules(Mask(Array(<<>>), Array(<<>>)))),
     One(Null, <<Rule(Regex(TRUE, TRUE, Beginning15), Array(<<3>>)), Catch>>),
     One([type |-> "fixed", length |-> 5], <<Rule(Exact(Array(<<>>)), Plain(<<>>))>>),
     One([type |-> "delimiter", delimiter |-> Text(<<0, 13, 0, 10>>, <<13, 10>>),
          include_delimiter |-> FALSE], <<>>),
     One([type |-> "idle_timeout", quiet_ms |-> 1], <<>>),
     Doc(<<PortDoc("b", "busy", Null, <<Busy>>), PortDoc("a", "busy", Null, <<Busy, Idle(<<>>)>>)>>),
     Doc(<<PortDoc("a", "new", Null, <<Scenario("new", <<>>, <<>>)>>)>>),
     Doc(<<>>) >>

Flawed ==
  [i \in DOMAIN FlawedLiterals |-> One(Null, Rules(Exact(FlawedLiterals[i])))] \o
  << One(Null, <<Rule(Mask(Array(<<1, 1>>), Array(<<1>>)), Array(<<3>>))>>),
     One(Null, <<Rule(Mask(FlawedLiterals[1], Array(<<1>>)), Array(<<3>>))>>),
     One(Null, <<Rule(Exact(Array(<<1>>)), FlawedLiterals[1])>>),
     One(Null, Rules(Regex(FALSE, FALSE, {}))),
     One(Null, Rules([exact |-> Null])),
     One(Null, Rules([exact |-> Plain(<<1>>), regex |-> Regex(TRUE, TRUE, {}).regex])),
     One([type |-> "fixed", length |-> 0], <<>>), One([type |-> "idle_timeout", quiet_ms |-> 0], <<>>),
     One([type |-> "delimiter", delimiter |-> Plain(<<>>), include_delimiter |-> TRUE], <<>>),
     One([type |-> "length_prefixed", length_size |-> 3], <<>>),
     Doc(<<PortDoc("a", "idle", Null, <<Busy>>)>>),
     Doc(<<PortDoc("b", "busy", Null, <<Busy>>), PortDoc("b", "idle", Null, <<Idle(<<>>)>>)>>),
     Doc(<<PortDoc("a", "busy", Null, <<Busy, Busy>>)>>),
     Doc(<<PortDoc("a", "idle", Null, <<>>)>>),
     Doc(<<PortDoc("a", "idle", Null, <<Scenario("idle", <<Trigger("t", Array(<<1>>)),
                                                            Trigger("t", Array(<<2>>))>>, <<>>)>>)>>),
     [readable |-> FALSE, yaml |-> TRUE, ports |-> <<>>], [readable |-> TRUE, yaml |-> FALSE, ports |-> <<>>] >>

(* Files on which documentation and code disagree, in the order below:     *)
(* - an unquoted number, "a plain YAML scalar -> its UTF-8 bytes"           *)
(*   (bytes.rs:7), is refused;                                             *)
(* - a map with a second key that is null, against "a single-key encoding  *)
(*   map" (bytes.rs:8), is accepted;                                       *)
(* - an expression such as (?-u)^\x0f that only bytes mode has, against    *)
(*   "bytes mode" (README:108), is refused.                                *)
Disputed ==
  << One(Null, Rules(Exact(NoScalar(<<49, 53>>)))),
     One(Null, Rules(Exact(Keys([hex |-> Null, bytes |-> FrameBytes], FrameBytes)))),
     One(Null, Rules(Regex(FALSE, TRUE, Beginning15))) >>

MCFiles == Sound \o Flawed \o Disputed

(* The bitwise "and" of Matching is the library's, and the sound files say *)
(* what they mean.                                                         *)
ASSUME AndIsBitwise == \A a, b \in 0..255 : M!And(a, b) = a & b

ASSUME SoundFilesSayWhatTheyMean == \A f \in DOMAIN Sound : SaysWhatItMeans(Sound[f])

(* A file is refused for what README:104-111 and bytes.rs:7-12 rule out,   *)
(* and every notation they allow is accepted, except for the three files   *)
(* of Disputed, whose verdicts are not what is documented.                 *)
VerdictAsDocumented ==
  verdict # "none" =>
    /\ file \in DOMAIN Sound => verdict = "ok"
    /\ file \in {Len(Sound) + i : i \in DOMAIN Flawed} => verdict = "refused"
=============================================================================
