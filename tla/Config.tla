-------------------------------- MODULE Config -------------------------------
(***************************************************************************)
(* Configuration files: loading and validation (src/src/config.rs),        *)
(* compilation (compile_port in src/src/port.rs, compile_rules in          *)
(* src/src/matching.rs), and how startup and reload apply what was loaded  *)
(* (src/src/main.rs, src/src/reload.rs).  Transports, threads and the      *)
(* races of a swap are in modules Lifecycle and Port; here a port is       *)
(* swapped or spawned in one step that fails only if compiling it does.    *)
(*                                                                         *)
(* A file is a record: `readable`, `yaml` (its shape is the schema's) and  *)
(* `ports`.  Its byte literals are those of module Bytes; the field        *)
(* `means`, which the service does not see, says what the author meant.    *)
(* A regular expression carries what the regex crate makes of it: does it  *)
(* compile with regex::Regex (`str`) and regex::bytes::Regex (`bytes`),    *)
(* and the frames it is found in (`language`).                             *)
(***************************************************************************)
EXTENDS Bytes, Integers

CONSTANTS
  Files,               \* the files an operator may put in place, a sequence
  Frame,               \* frames to be matched
  DEFAULT_MAX_BUFFER,  \* of the framer
  Newline              \* the byte "\n"

M == INSTANCE Matching

F == INSTANCE Framing

ASSUME ConfigAssumption ==
  /\ DEFAULT_MAX_BUFFER \in Nat \ {0}
  /\ Frame \subseteq Seq(0..255)
  /\ Newline \in 0..255

Listed(seq) == seq \in Seq(Range(seq))

(* A file lists its ports, a port its scenarios and a scenario its         *)
(* triggers and rules.  What regex::Regex compiles, the regular expression *)
(* type of bytes compiles too.                                             *)
ASSUME FilesAssumption ==
  /\ Listed(Files)
  /\ \A f \in DOMAIN Files :
       /\ Listed(Files[f].ports)
       /\ \A i \in DOMAIN Files[f].ports :
            LET p == Files[f].ports[i]
            IN  /\ Listed(p.scenarios)
                /\ \A s \in DOMAIN p.scenarios :
                     /\ Listed(p.scenarios[s].triggers) /\ Listed(p.scenarios[s].rules)
                     /\ \A r \in DOMAIN p.scenarios[s].rules :
                          LET match == p.scenarios[s].rules[r].match
                          IN  SetKeys(match) = {"regex"} => (match.regex.str => match.regex.bytes)

VARIABLES
  file,      \* the file on disk, an index of Files
  process,   \* "down", "apply" or "serving"
  boot,      \* the configuration is being applied by main, not by a reload
  todo,      \* the ports yet to apply
  live,      \* the map of ports: name -> what runs there
  accepted,  \* the file last loaded, 0 before any
  verdict,   \* of a load on the file on disk: "none", "ok" or "refused"
  exit       \* why the process exit

vars == <<file, process, boot, todo, live, accepted, verdict, exit>>

Elements(seq, Get(_)) == {Get(seq[i]) : i \in DOMAIN seq}

Name(x) == x.name

Distinct(seq) == \A i, j \in DOMAIN seq : seq[i].name = seq[j].name => i = j

-----------------------------------------------------------------------------
(* Parsing: the shape, and every byte literal. *)

MatchLiterals(match) ==
  (IF "exact" \in SetKeys(match) THEN {match.exact} ELSE {})
    \cup (IF "mask" \in SetKeys(match) THEN {match.mask.pattern, match.mask.mask} ELSE {})

ScenarioLiterals(sc) ==
  Elements(sc.triggers, LAMBDA t : t.response)
    \cup Elements(sc.rules, LAMBDA r : r.response)
    \cup UNION Elements(sc.rules, LAMBDA r : MatchLiterals(r.match))

PortLiterals(p) ==
  UNION Elements(p.scenarios, ScenarioLiterals)
    \cup (IF p.framing # Null /\ p.framing.type = "delimiter" THEN {p.framing.delimiter} ELSE {})

Parses(f) ==
  /\ f.readable /\ f.yaml
  /\ \A i \in DOMAIN f.ports : \A l \in PortLiterals(f.ports[i]) : Decode(l) # Error

Value(literal) == Decode(literal).ok

(* FramingConfig with its literal decoded. *)
ParsedFraming(cfg) ==
  IF cfg # Null /\ cfg.type = "delimiter"
  THEN [cfg EXCEPT !.delimiter = Value(cfg.delimiter)] ELSE cfg

-----------------------------------------------------------------------------
(* Validation. *)

(* MatchConfig::resolve: exactly one of the three, and a mask as long as   *)
(* its pattern.                                                            *)
Resolve(match) ==
  LET pattern == Value(match.mask.pattern)
      mask    == Value(match.mask.mask)
  IN  CASE SetKeys(match) = {"exact"} -> [kind |-> "exact", bytes |-> Value(match.exact)]
        [] SetKeys(match) = {"regex"} -> [kind |-> "regex", pattern |-> match.regex]
        [] SetKeys(match) = {"mask"} /\ Len(pattern) = Len(mask)
             -> [kind |-> "mask", pattern |-> pattern, mask |-> mask]
        [] OTHER -> Error

ValidRule(rule) ==
  LET m == Resolve(rule.match)
  IN  m # Error /\ (m.kind = "regex" => m.pattern.str)

ValidScenario(sc) ==
  /\ Distinct(sc.triggers)
  /\ \A i \in DOMAIN sc.rules : ValidRule(sc.rules[i])

(* A mutated ValidPort that does not look for the initial scenario. *)
ValidPortAnyInitial(p) ==
  /\ p.framing # Null => F!Validate(ParsedFraming(p.framing))
  /\ p.scenarios # <<>> /\ Distinct(p.scenarios)
  /\ \A i \in DOMAIN p.scenarios : ValidScenario(p.scenarios[i])

ValidPort(p) ==
  /\ p.framing # Null => F!Validate(ParsedFraming(p.framing))
  /\ p.scenarios # <<>> /\ Distinct(p.scenarios)
  /\ p.initial \in Elements(p.scenarios, Name)
  /\ \A i \in DOMAIN p.scenarios : ValidScenario(p.scenarios[i])

Valid(f) == Distinct(f.ports) /\ \A i \in DOMAIN f.ports : ValidPort(f.ports[i])

(* config::load *)
Loads(f) == Parses(f) /\ Valid(f)

-----------------------------------------------------------------------------
(* Compilation. *)

(* compile_rules: resolve again, compile the expression, mask the pattern. *)
MatchCompiles(match) ==
  LET m == Resolve(match)
  IN  m # Error /\ (m.kind = "regex" => m.pattern.bytes)

CompileMatch(match) ==
  LET m == Resolve(match)
  IN  CASE m.kind = "exact" -> m
        [] m.kind = "mask"  -> M!Compile(m)
        [] m.kind = "regex" -> [kind |-> "regex", language |-> m.pattern.language]

(* Later entries of one name replace earlier ones in a HashMap. *)
ByName(seq, Get(_)) ==
  [n \in Elements(seq, Name) |->
     Get(seq[CHOOSE i \in DOMAIN seq : seq[i].name = n
                                       /\ \A j \in DOMAIN seq : seq[j].name = n => j <= i])]

CompileRule(rule) == [matcher |-> CompileMatch(rule.match), response |-> Value(rule.response)]

CompileScenario(sc) ==
  [triggers |-> ByName(sc.triggers, LAMBDA t : Value(t.response)),
   rules    |-> [i \in DOMAIN sc.rules |-> CompileRule(sc.rules[i])]]

Compiles(p) ==
  \A s \in DOMAIN p.scenarios : \A r \in DOMAIN p.scenarios[s].rules :
    MatchCompiles(p.scenarios[s].rules[r].match)

(* compile_port *)
CompilePort(p) == ByName(p.scenarios, CompileScenario)

(* FramingSpec::from_config; without a `framing` a line ends in "\n". *)
FramingOf(p) ==
  F!FromConfig(IF p.framing # Null THEN ParsedFraming(p.framing)
               ELSE [type |-> "delimiter", delimiter |-> <<Newline>>, include_delimiter |-> TRUE])

-----------------------------------------------------------------------------
(* Startup and reload. *)

Init ==
  /\ file \in DOMAIN Files
  /\ process = "down" /\ boot = FALSE /\ exit = "none"
  /\ todo = <<>> /\ live = <<>>
  /\ accepted = 0 /\ verdict = "none"

(* The operator replaces the file.  A file that no load meets makes no     *)
(* difference, so the last one was met.                                    *)
Edit(f) ==
  /\ f # file /\ verdict # "none"
  /\ file' = f /\ verdict' = "none"
  /\ UNCHANGED <<process, boot, todo, live, accepted, exit>>

(* A load that succeeded: the ports are applied one after another. *)
Accept ==
  /\ Loads(Files[file])
  /\ accepted' = file /\ verdict' = "ok"
  /\ todo' = Files[file].ports
  /\ process' = "apply"

Refuse ==
  /\ ~Loads(Files[file])
  /\ verdict' = "refused"
  /\ UNCHANGED <<accepted, todo>>

(* main: a configuration that does not load ends the process. *)
Start ==
  /\ process = "down"
  /\ \/ Accept /\ boot' = TRUE /\ exit' = "none"
     \/ Refuse /\ exit' = "config_error" /\ UNCHANGED <<boot, process>>
  /\ UNCHANGED <<file, live>>

(* SIGHUP: one that does not load changes nothing. *)
Reload ==
  /\ process = "serving"
  /\ \/ Accept /\ boot' = FALSE
     \/ Refuse /\ UNCHANGED <<boot, process>>
  /\ UNCHANGED <<file, live, exit>>

(* The scenario a port runs next: the one it runs if it still exists. *)
NextActive(p) ==
  IF p.name \in DOMAIN live /\ live[p.name].active \in DOMAIN CompilePort(p)
  THEN live[p.name].active ELSE p.initial

(* spawn and swap_config up to the point where they can fail. *)
Runs(p) == Compiles(p) /\ NextActive(p) \in DOMAIN CompilePort(p)

(* The next port is spawned, or swapped if there is one of its name.  If   *)
(* it does not compile, a reload passes it over and startup ends.          *)
ApplyPort ==
  LET p == Head(todo)
  IN  /\ process = "apply" /\ todo # <<>>
      /\ IF Runs(p) \/ ~boot
         THEN todo' = Tail(todo) /\ UNCHANGED <<process, exit>>
         ELSE todo' = <<>> /\ process' = "down" /\ exit' = "spawn_failed"
      /\ live' = IF Runs(p)
                 THEN [n \in DOMAIN live \cup {p.name} |->
                         IF n # p.name THEN live[n]
                         ELSE [scenarios |-> CompilePort(p), active |-> NextActive(p),
                               framing |-> FramingOf(p)]]
                 ELSE IF boot THEN <<>> ELSE live
      /\ UNCHANGED <<file, boot, accepted, verdict>>

(* The ports that are not in the configuration leave the map. *)
Applied ==
  /\ process = "apply" /\ todo = <<>>
  /\ live' = Restrict(live, DOMAIN live \cap Elements(Files[accepted].ports, Name))
  /\ process' = "serving" /\ boot' = FALSE
  /\ UNCHANGED <<file, todo, accepted, verdict, exit>>

(* POST .../scenario, see module Port. *)
Switch(n, s) ==
  /\ process = "serving"
  /\ n \in DOMAIN live /\ s \in DOMAIN live[n].scenarios
  /\ live' = [live EXCEPT ![n].active = s]
  /\ UNCHANGED <<file, process, boot, todo, accepted, verdict, exit>>

(* The process is told to terminate. *)
Stop ==
  /\ process = "serving"
  /\ process' = "down" /\ live' = <<>>
  /\ UNCHANGED <<file, boot, todo, accepted, verdict, exit>>

Next ==
  \/ \E f \in DOMAIN Files : Edit(f)
  \/ Start \/ Reload
  \/ ApplyPort \/ Applied
  \/ \E n \in DOMAIN live : \E s \in DOMAIN live[n].scenarios : Switch(n, s)
  \/ Stop

Spec == Init /\ [][Next]_vars

-----------------------------------------------------------------------------
(* What a file says, in the words of the README and of config.rs:164, from *)
(* what its author meant.                                                  *)

(* Where the mask has a bit, the frame has the pattern's. *)
MaskedEqual(frame, pattern, mask) ==
  /\ Len(frame) = Len(pattern) /\ Len(frame) = Len(mask)
  /\ \A i \in DOMAIN frame : \A w \in M!Weights :
       M!Bit(mask[i], w) = 1 => M!Bit(frame[i], w) = M!Bit(pattern[i], w)

Declares(match, frame) ==
  CASE SetKeys(match) = {"exact"} -> frame = match.exact.means
    [] SetKeys(match) = {"regex"} -> frame \in match.regex.language
    [] SetKeys(match) = {"mask"}  ->
         MaskedEqual(frame, match.mask.pattern.means, match.mask.mask.means)

(* The literals of a file decode to what their author meant. *)
SaysWhatItMeans(f) ==
  \A i \in DOMAIN f.ports : \A l \in PortLiterals(f.ports[i]) :
    l.means \in Seq(0..255) /\ Value(l) = l.means

(* What the first of the rules that apply answers, or Null. *)
FirstAnswer(rules, Applies(_), Response(_)) ==
  LET hits == {i \in DOMAIN rules : Applies(rules[i])}
  IN  IF hits = {} THEN Null
      ELSE Response(rules[CHOOSE i \in hits : \A j \in hits : i <= j])

(* match_input_rule over compiled rules. *)
Answer(rules, frame) ==
  FirstAnswer(rules, LAMBDA r : M!Matches(r.matcher, frame), LAMBDA r : r.response)

DeclaredAnswer(rules, frame) ==
  FirstAnswer(rules, LAMBDA r : Declares(r.match, frame), LAMBDA r : r.response.means)

Ports(f) == Elements(Files[f].ports, LAMBDA p : p)

-----------------------------------------------------------------------------

(* Whatever passes validation also runs: a reload that was accepted leaves *)
(* no port behind on the old configuration and drops none, and a start     *)
(* that was accepted does not fail in compile_port.  The loops that apply  *)
(* a configuration only log such a failure (reload.rs:48, :61), and        *)
(* README:276 says of a reload "On any error the previous config stays     *)
(* active".                                                                *)
AcceptedRuns ==
  /\ exit # "spawn_failed"
  /\ process = "serving" =>
       /\ accepted # 0
       /\ DOMAIN live = {p.name : p \in Ports(accepted)}
       /\ \A p \in Ports(accepted) :
            /\ DOMAIN live[p.name].scenarios = Elements(p.scenarios, Name)
            /\ live[p.name].active \in Elements(p.scenarios, Name)
            /\ live[p.name].framing = FramingOf(p)

(* Every frame gets the answer, and every trigger writes the bytes, that   *)
(* the file declares: literals in any notation, the first rule that        *)
(* applies, masks bit for bit (README:108).                                *)
RulesAsDeclared ==
  process = "serving" =>
    \A p \in Ports(accepted) : \A s \in DOMAIN p.scenarios :
      LET declared == p.scenarios[s]
          running  == live[p.name].scenarios[declared.name]
      IN  /\ \A frame \in Frame :
               Answer(running.rules, frame) = DeclaredAnswer(declared.rules, frame)
          /\ \A t \in DOMAIN declared.triggers :
               running.triggers[declared.triggers[t].name] = declared.triggers[t].response.means
=============================================================================
