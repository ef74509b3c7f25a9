-------------------------------- MODULE MCPort -------------------------------
(***************************************************************************)
(* Small ports.  Two byte values; 2 ends a frame.  Scenario "idle" answers *)
(* the frame <<1>> with <<1, 1>> and everything ending in 2 with <<2>>;    *)
(* its trigger writes <<2, 2>>.  "error" has a trigger of its own and a    *)
(* mask rule.                                                              *)
(***************************************************************************)
EXTENDS Port, TLC

M == INSTANCE Matching

MCMatches(m, line) == M!Matches(m, line)

CONSTANTS c1, c2

MCByte == {1, 2}

Exact(bytes) == [kind |-> "exact", bytes |-> bytes]

(* Frames in which a pattern such as "2$" is found. *)
EndsIn2 == [kind |-> "regex", language |-> {s \in UNION {[1..n -> MCByte] : n \in 1..3} : s[Len(s)] = 2}]

Mask(pattern, mask) == M!Compile([kind |-> "mask", pattern |-> pattern, mask |-> mask])

Rule(matcher, response) == [matcher |-> matcher, response |-> response]

IdleScenario ==
  [triggers |-> [t |-> <<2, 2>>], rules |-> <<Rule(Exact(<<1>>), <<1, 1>>), Rule(EndsIn2, <<2>>)>>]

ErrorScenario ==
  [triggers |-> [e |-> <<1>>], rules |-> <<Rule(Mask(<<3, 0>>, <<1, 0>>), <<2, 1>>)>>]

(* The scenarios of edited files. *)
EditedIdleScenario ==
  [triggers |-> [t |-> <<1>>], rules |-> <<Rule(EndsIn2, <<2>>)>>]

EditedErrorScenario == [triggers |-> [e |-> <<2>>], rules |-> <<>>]

Newline == [type |-> "delimiter", delimiter |-> <<2>>, include_delimiter |-> TRUE]

Stripped == [type |-> "delimiter", delimiter |-> <<2>>, include_delimiter |-> FALSE]

Pairs == [type |-> "fixed", length |-> 2]

Quiet == [type |-> "idle_timeout", quiet_ms |-> 50]

PortConfig(scenarios, initial, f) ==
  [scenarios |-> scenarios, initial |-> initial, framing |-> f]

TwoScenarios == [idle |-> IdleScenario, error |-> ErrorScenario]

NewlinePort == PortConfig(TwoScenarios, "idle", Newline)
StrippedPort == PortConfig(TwoScenarios, "idle", Stripped)
EditedQuietPort == PortConfig([idle |-> EditedIdleScenario], "idle", Quiet)
EditedPort  == PortConfig([idle |-> IdleScenario, error |-> EditedErrorScenario], "idle", Pairs)
ShrunkPort  == PortConfig([idle |-> IdleScenario], "idle", Stripped)
QuietPort   == PortConfig(TwoScenarios, "idle", Quiet)

SafetyConfigs == {StrippedPort, EditedQuietPort}
ReloadConfigs == {NewlinePort, EditedPort, ShrunkPort}
QuietReload   == {NewlinePort, QuietPort}

Op(op) == [op |-> op]
Trigger(n) == [op |-> "trigger", name |-> n]
Switch(n) == [op |-> "switch", name |-> n]
Events(n) == [op |-> "events", since |-> n]

SafetyRequests  == {Trigger("t"), Switch("error"), Op("describe"), Op("clear_raw")}
ReloadRequests  == {Switch("error"), Op("describe")}
LiveRequests    == {Trigger("t"), Trigger("gone"), Switch("error"), Op("raw"), Events(0),
                    Op("clear_events"), Op("describe")}
NoRequests      == {}

OneConn == {c1}
TwoConns == {c1, c2}

ConnSymmetry == Permutations(TwoConns)
=============================================================================
