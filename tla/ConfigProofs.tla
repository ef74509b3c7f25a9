----------------------------- MODULE ConfigProofs ----------------------------
(***************************************************************************)
(* Proofs about configurations (module Config): what validation accepts    *)
(* runs, and runs as the file declares; and about byte literals in hex     *)
(* (module Bytes).                                                         *)
(***************************************************************************)
EXTENDS Config, SequenceLemmas, FiniteSetTheorems

-----------------------------------------------------------------------------
(* Masks. *)

LEMMA BitType ==
  ASSUME NEW n \in Nat, NEW w \in M!Weights
  PROVE  M!Bit(n, w) \in {0, 1}
  BY DEF M!Bit, M!Weights

(* Masking both and comparing is comparing where the mask has a bit. *)
LEMMA MaskBits ==
  ASSUME NEW x \in Nat, NEW p \in Nat, NEW m \in Nat
  PROVE  M!And(x, m) = M!And(p, m)
           <=> \A w \in M!Weights : M!Bit(m, w) = 1 => M!Bit(x, w) = M!Bit(p, w)
<1>1. \A w \in M!Weights : M!Bit(m, w) \in {0, 1} /\ M!Bit(x, w) \in {0, 1} /\ M!Bit(p, w) \in {0, 1}
  BY BitType
<1> QED
  BY <1>1 DEF M!And, M!Weights

-----------------------------------------------------------------------------
(* What validation accepts, compiles. *)

LEMMA ResolveKeys ==
  ASSUME NEW match, Resolve(match) # Error
  PROVE  /\ SetKeys(match) \in {{"exact"}, {"regex"}, {"mask"}}
         /\ SetKeys(match) = {"exact"} => Resolve(match) = [kind |-> "exact", bytes |-> Value(match.exact)]
         /\ SetKeys(match) = {"regex"} => Resolve(match) = [kind |-> "regex", pattern |-> match.regex]
         /\ SetKeys(match) = {"mask"} =>
              /\ Len(Value(match.mask.pattern)) = Len(Value(match.mask.mask))
              /\ Resolve(match) = [kind |-> "mask", pattern |-> Value(match.mask.pattern), mask |-> Value(match.mask.mask)]
  BY DEF Resolve

LEMMA ValidCompiles ==
  ASSUME NEW f \in DOMAIN Files, Valid(Files[f]), NEW i \in DOMAIN Files[f].ports
  PROVE  Compiles(Files[f].ports[i])
<1> DEFINE p == Files[f].ports[i]
<1> SUFFICES ASSUME NEW s \in DOMAIN p.scenarios, NEW r \in DOMAIN p.scenarios[s].rules
             PROVE  MatchCompiles(p.scenarios[s].rules[r].match)
  BY DEF Compiles
<1> DEFINE match == p.scenarios[s].rules[r].match
<1>1. ValidRule(p.scenarios[s].rules[r])
  BY DEF Valid, ValidPort, ValidScenario
<1>2. Resolve(match) # Error /\ (Resolve(match).kind = "regex" => Resolve(match).pattern.str)
  BY <1>1 DEF ValidRule
<1>3. SetKeys(match) = {"regex"} => (match.regex.str => match.regex.bytes)
  BY FilesAssumption
<1>4. Resolve(match).kind = "regex" => SetKeys(match) = {"regex"} /\ Resolve(match).pattern = match.regex
  <2> HIDE DEF match
  <2> QED BY <1>2, ResolveKeys
<1>5. MatchCompiles(match)
  <2> HIDE DEF match
  <2> QED BY <1>2, <1>3, <1>4 DEF MatchCompiles
<1> QED
  BY <1>5

-----------------------------------------------------------------------------
(* What is compiled can be found by its name. *)

LEMMA CompilePortNames ==
  ASSUME NEW p
  PROVE  DOMAIN CompilePort(p) = Elements(p.scenarios, Name)
  BY DEF CompilePort, ByName

LEMMA CompiledScenario ==
  ASSUME NEW p, Listed(p.scenarios), Distinct(p.scenarios), NEW s \in DOMAIN p.scenarios
  PROVE  CompilePort(p)[p.scenarios[s].name] = CompileScenario(p.scenarios[s])
<1> DEFINE seq == p.scenarios
           n   == seq[s].name
           LastNamed(i) == seq[i].name = n /\ \A j \in DOMAIN seq : seq[j].name = n => j <= i
<1>1. DOMAIN seq \subseteq Nat
  BY DEF Listed
<1>2. LastNamed(s) /\ \A i \in DOMAIN seq : LastNamed(i) => i = s
  BY <1>1 DEF Distinct
<1>3. (CHOOSE i \in DOMAIN seq : LastNamed(i)) = s
  BY <1>2
<1>4. n \in Elements(seq, Name)
  BY DEF Elements, Name
<1> QED
  BY <1>3, <1>4 DEF CompilePort, ByName

LEMMA CompiledTrigger ==
  ASSUME NEW sc, Listed(sc.triggers), Distinct(sc.triggers), NEW t \in DOMAIN sc.triggers
  PROVE  CompileScenario(sc).triggers[sc.triggers[t].name] = Value(sc.triggers[t].response)
<1> DEFINE seq == sc.triggers
           n   == seq[t].name
           LastNamed(i) == seq[i].name = n /\ \A j \in DOMAIN seq : seq[j].name = n => j <= i
<1>1. DOMAIN seq \subseteq Nat
  BY DEF Listed
<1>2. LastNamed(t) /\ \A i \in DOMAIN seq : LastNamed(i) => i = t
  BY <1>1 DEF Distinct
<1>3. (CHOOSE i \in DOMAIN seq : LastNamed(i)) = t
  BY <1>2
<1>4. n \in Elements(seq, Name)
  BY DEF Elements, Name
<1> QED
  BY <1>3, <1>4 DEF CompileScenario, ByName

-----------------------------------------------------------------------------
(* The inductive invariant.  A port is served as its configuration says;   *)
(* while a configuration is applied, a prefix of its ports are.            *)

Served(p) ==
  /\ p.name \in DOMAIN live
  /\ live[p.name] = [scenarios |-> CompilePort(p), active |-> live[p.name].active,
                     framing |-> FramingOf(p)]
  /\ live[p.name].active \in DOMAIN CompilePort(p)

AcceptedPorts == Files[accepted].ports

Applying ==
  \E k \in 0..Len(AcceptedPorts) :
    /\ todo = SubSeq(AcceptedPorts, k + 1, Len(AcceptedPorts))
    /\ \A i \in 1..k : Served(AcceptedPorts[i])

ConfigInv ==
  /\ file \in DOMAIN Files /\ accepted \in DOMAIN Files \cup {0}
  /\ process \in {"down", "apply", "serving"}
  /\ live = [n \in DOMAIN live |-> live[n]]
  /\ exit # "spawn_failed"
  /\ process # "down" => accepted \in DOMAIN Files /\ Loads(Files[accepted])
  /\ process = "apply" => Applying
  /\ process = "serving" =>
       /\ DOMAIN live = Elements(AcceptedPorts, Name)
       /\ \A i \in DOMAIN AcceptedPorts : Served(AcceptedPorts[i])

LEMMA PortsAreListed ==
  ASSUME NEW f \in DOMAIN Files
  PROVE  /\ f \in Nat \ {0}
         /\ Files[f].ports \in Seq(Range(Files[f].ports))
         /\ DOMAIN Files[f].ports = 1..Len(Files[f].ports) /\ Len(Files[f].ports) \in Nat
<1>1. Files \in Seq(Range(Files)) /\ Files[f].ports \in Seq(Range(Files[f].ports))
  BY FilesAssumption DEF Listed
<1> QED
  BY <1>1

(* A valid port that is still to be applied will run. *)
LEMMA ValidRuns ==
  ASSUME NEW f \in DOMAIN Files, Valid(Files[f]), NEW i \in DOMAIN Files[f].ports
  PROVE  Runs(Files[f].ports[i])
<1> DEFINE p == Files[f].ports[i]
<1>1. p.initial \in Elements(p.scenarios, Name)
  BY DEF Valid, ValidPort
<1>2. DOMAIN CompilePort(p) = Elements(p.scenarios, Name)
  BY CompilePortNames
<1>3. NextActive(p) \in DOMAIN CompilePort(p)
  BY <1>1, <1>2 DEF NextActive
<1> QED
  BY <1>3, ValidCompiles DEF Runs

LEMMA ConfigInit ==
  ASSUME Init
  PROVE  ConfigInv
  BY DEF Init, ConfigInv

LEMMA AcceptInv ==
  ASSUME ConfigInv, Accept, live' = live, file' = file, exit' # "spawn_failed"
  PROVE  ConfigInv'
<1>1. accepted' = file /\ Loads(Files[file]) /\ process' = "apply"
  BY DEF Accept
<1> DEFINE ports == Files[file].ports
<1>2. Len(ports) \in Nat
  BY PortsAreListed DEF ConfigInv
<1>3. todo' = SubSeq(ports, 1, Len(ports))
  BY PortsAreListed, SubSeqFull DEF Accept, ConfigInv
<1>4. Applying'
  <2>1. AcceptedPorts' = ports
    BY <1>1 DEF AcceptedPorts
  <2>2. 0 + 1 = 1 /\ 1..0 = {} /\ 0 \in 0..Len(ports)
    BY <1>2
  <2>3. todo' = SubSeq(AcceptedPorts', 0 + 1, Len(AcceptedPorts'))
    BY <1>3, <2>1, <2>2
  <2> QED
    BY <2>1, <2>2, <2>3 DEF Applying
<1> QED
  BY <1>1, <1>4 DEF ConfigInv

LEMMA ApplyPortInv ==
  ASSUME ConfigInv, ApplyPort
  PROVE  ConfigInv'
<1> DEFINE ports == AcceptedPorts
<1>1. /\ accepted \in DOMAIN Files /\ Valid(Files[accepted]) /\ process = "apply"
      /\ ports \in Seq(Range(ports)) /\ DOMAIN ports = 1..Len(ports) /\ Len(ports) \in Nat
  BY PortsAreListed DEF ConfigInv, Loads, ApplyPort, AcceptedPorts
<1>2. PICK k \in 0..Len(ports) :
        todo = SubSeq(ports, k + 1, Len(ports)) /\ \A i \in 1..k : Served(ports[i])
  BY <1>1 DEF ConfigInv, Applying
<1>3. k < Len(ports) /\ k + 1 \in DOMAIN ports
  <2>1. todo # <<>>
    BY DEF ApplyPort
  <2> QED
    BY <1>1, <1>2, <2>1
<1>4. Head(todo) = ports[k + 1] /\ Tail(todo) = SubSeq(ports, (k + 1) + 1, Len(ports))
  <2> HIDE DEF ports
  <2> QED BY <1>1, <1>2, <1>3
<1> DEFINE p == ports[k + 1]
<1>5. Runs(p)
  BY <1>1, <1>3, ValidRuns DEF AcceptedPorts
<1>6. /\ todo' = Tail(todo) /\ UNCHANGED <<process, exit, file, accepted>>
      /\ live' = [n \in DOMAIN live \cup {p.name} |->
                    IF n # p.name THEN live[n]
                    ELSE [scenarios |-> CompilePort(p), active |-> NextActive(p),
                          framing |-> FramingOf(p)]]
  BY <1>4, <1>5 DEF ApplyPort
<1>7. Served(p)'
  <2>1. /\ p.name \in DOMAIN live'
        /\ live'[p.name] = [scenarios |-> CompilePort(p), active |-> NextActive(p),
                            framing |-> FramingOf(p)]
    BY <1>6
  <2>2. live'[p.name].active = NextActive(p) /\ NextActive(p) \in DOMAIN CompilePort(p)
    BY <2>1, <1>5 DEF Runs
  <2>3. p' = p
    BY <1>6 DEF AcceptedPorts
  <2> QED BY <2>1, <2>2, <2>3 DEF Served
<1>8. ASSUME NEW i \in 1..k
      PROVE  Served(ports[i])'
  <2>1. Served(ports[i]) /\ ports[i].name # p.name
    <3>1. i \in DOMAIN ports /\ i # k + 1
      BY <1>1, <1>3
    <3> QED
      BY <1>1, <1>2, <1>3, <3>1 DEF Valid, Distinct, AcceptedPorts
  <2>2. ports[i].name \in DOMAIN live' /\ live'[ports[i].name] = live[ports[i].name]
    BY <1>6, <2>1 DEF Served
  <2>3. ports' = ports
    BY <1>6 DEF AcceptedPorts
  <2> QED
    BY <2>1, <2>2, <2>3 DEF Served
<1>9. Applying'
  <2>1. \A i \in 1..(k + 1) : Served(ports[i])'
    <3> SUFFICES ASSUME NEW i \in 1..(k + 1) PROVE Served(ports[i])'
      OBVIOUS
    <3>1. CASE i \in 1..k
      BY <3>1, <1>8
    <3>2. CASE i = k + 1
      <4>1. ports' = ports
        BY <1>6 DEF AcceptedPorts
      <4> QED BY <3>2, <1>7, <4>1
    <3> QED
      BY <1>1, <1>3, <3>1, <3>2
  <2>2. k + 1 \in 0..Len(ports)
    BY <1>1, <1>3
  <2>3. ports' = ports /\ todo' = SubSeq(ports, (k + 1) + 1, Len(ports))
    BY <1>4, <1>6 DEF AcceptedPorts
  <2> QED
    BY <2>1, <2>2, <2>3 DEF Applying
<1>10. live' = [n \in DOMAIN live' |-> live'[n]]
  BY <1>6
<1> QED
  BY <1>1, <1>6, <1>9, <1>10 DEF ConfigInv

LEMMA AppliedInv ==
  ASSUME ConfigInv, Applied
  PROVE  ConfigInv'
<1> DEFINE ports == AcceptedPorts
<1>1. /\ accepted \in DOMAIN Files /\ process = "apply" /\ todo = <<>>
      /\ DOMAIN ports = 1..Len(ports) /\ Len(ports) \in Nat
      /\ UNCHANGED <<file, accepted, exit>> /\ process' = "serving"
  BY PortsAreListed DEF ConfigInv, Applied, AcceptedPorts
<1>2. PICK k \in 0..Len(ports) :
        todo = SubSeq(ports, k + 1, Len(ports)) /\ \A i \in 1..k : Served(ports[i])
  BY <1>1 DEF ConfigInv, Applying
<1>3. k = Len(ports)
  <2>0. Len(ports) \in Nat
    BY <1>1
  <2>1. CASE k < Len(ports)
    <3>1. SubSeq(ports, k + 1, Len(ports)) # <<>>
      <4>1. ports \in Seq(Range(ports))
        BY <1>1, PortsAreListed DEF AcceptedPorts
      <4>2. Len(SubSeq(ports, k + 1, Len(ports))) = Len(ports) - k
        BY <2>0, <2>1, <4>1
      <4>3. Len(ports) - k # 0
        BY <2>0, <2>1
      <4> QED
        BY <4>2, <4>3, EmptySeq
    <3> QED
      BY <1>1, <1>2, <3>1
  <2> QED BY <2>0, <2>1
<1>4. \A i \in DOMAIN ports : Served(ports[i])
  BY <1>1, <1>2, <1>3
<1> DEFINE names == Elements(ports, Name)
<1>5. \A i \in DOMAIN ports : ports[i].name \in names
  BY DEF Elements, Name
<1>6. live' = [n \in DOMAIN live \cap names |-> live[n]]
  BY DEF Applied, Restrict, AcceptedPorts
<1>7. names \subseteq DOMAIN live
  BY <1>4 DEF Elements, Name, Served
<1>8. DOMAIN live' = names /\ live' = [n \in DOMAIN live' |-> live'[n]]
  BY <1>6, <1>7
<1>9. \A i \in DOMAIN ports : Served(ports[i])'
  <2> SUFFICES ASSUME NEW i \in DOMAIN ports PROVE Served(ports[i])'
    OBVIOUS
  <2>1. ports[i].name \in DOMAIN live' /\ live'[ports[i].name] = live[ports[i].name]
    BY <1>5, <1>6, <1>8
  <2>2. ports' = ports
    BY <1>1 DEF AcceptedPorts
  <2> QED
    BY <1>4, <2>1, <2>2 DEF Served
<1>10. ports' = ports
  BY <1>1 DEF AcceptedPorts
<1> QED
  BY <1>1, <1>8, <1>9, <1>10 DEF ConfigInv

LEMMA SwitchInv ==
  ASSUME ConfigInv, NEW n \in DOMAIN live, NEW s \in DOMAIN live[n].scenarios, Switch(n, s)
  PROVE  ConfigInv'
<1>1. /\ process = "serving" /\ UNCHANGED <<file, process, accepted, exit>>
      /\ live' = [live EXCEPT ![n].active = s]
  BY DEF Switch
<1>2. \A i \in DOMAIN AcceptedPorts : Served(AcceptedPorts[i])
  BY <1>1 DEF ConfigInv
<1>3. \A i \in DOMAIN AcceptedPorts : Served(AcceptedPorts[i])'
  <2> SUFFICES ASSUME NEW i \in DOMAIN AcceptedPorts PROVE Served(AcceptedPorts[i])'
    OBVIOUS
  <2> DEFINE p == AcceptedPorts[i]
  <2>1. Served(p) /\ p' = p
    BY <1>1, <1>2 DEF AcceptedPorts
  <2>2. CASE p.name # n
    <3>1. live'[p.name] = live[p.name] /\ DOMAIN live' = DOMAIN live
      BY <1>1, <2>1, <2>2
    <3> QED
      BY <2>1, <3>1 DEF Served
  <2>3. CASE p.name = n
    <3>1. live'[n] = [live[n] EXCEPT !.active = s] /\ DOMAIN live' = DOMAIN live
      BY <1>1
    <3>2. live'[n] = [scenarios |-> CompilePort(p), active |-> s, framing |-> FramingOf(p)]
      BY <2>1, <2>3, <3>1 DEF Served
    <3>3. s \in DOMAIN CompilePort(p)
      BY <2>1, <2>3 DEF Served
    <3> QED
      BY <2>1, <2>3, <3>1, <3>2, <3>3 DEF Served
  <2> QED
    BY <2>2, <2>3
<1>4. DOMAIN live' = DOMAIN live /\ live' = [m \in DOMAIN live' |-> live'[m]]
  BY <1>1 DEF ConfigInv
<1>5. AcceptedPorts' = AcceptedPorts
  BY <1>1 DEF AcceptedPorts
<1> QED
  BY <1>1, <1>3, <1>4, <1>5 DEF ConfigInv

LEMMA ConfigStep ==
  ASSUME ConfigInv, [Next]_vars
  PROVE  ConfigInv'
<1>1. ASSUME NEW f \in DOMAIN Files, Edit(f)
      PROVE  ConfigInv'
  BY <1>1 DEF Edit, ConfigInv, Applying, Served, AcceptedPorts
<1>2. CASE Start
  <2>1. CASE Accept
    BY <1>2, <2>1, AcceptInv DEF Start, Refuse, Accept
  <2>2. CASE ~Accept
    BY <1>2, <2>2 DEF Start, Refuse, ConfigInv
  <2> QED
    BY <2>1, <2>2
<1>3. CASE Reload
  <2>1. CASE Accept
    BY <1>3, <2>1, AcceptInv DEF Reload, ConfigInv
  <2>2. CASE Refuse /\ UNCHANGED <<boot, process>>
    BY <1>3, <2>2 DEF Reload, Refuse, ConfigInv, Applying, Served, AcceptedPorts
  <2> QED
    BY <1>3, <2>1, <2>2 DEF Reload
<1>4. CASE ApplyPort
  BY <1>4, ApplyPortInv
<1>5. CASE Applied
  BY <1>5, AppliedInv
<1>6. ASSUME NEW n \in DOMAIN live, NEW s \in DOMAIN live[n].scenarios, Switch(n, s)
      PROVE  ConfigInv'
  BY <1>6, SwitchInv
<1>7. CASE Stop
  <2>1. live' = <<>> /\ process' = "down" /\ UNCHANGED <<file, accepted, exit>>
    BY <1>7 DEF Stop
  <2>2. <<>> = [n \in DOMAIN <<>> |-> <<>>[n]]
    OBVIOUS
  <2>3. live' = [n \in DOMAIN live' |-> live'[n]]
    BY <2>1, <2>2
  <2> QED
    BY <2>1, <2>3 DEF ConfigInv
<1>8. CASE UNCHANGED vars
  BY <1>8 DEF vars, ConfigInv, Applying, Served, AcceptedPorts
<1> QED
  BY <1>1, <1>2, <1>3, <1>4, <1>5, <1>6, <1>7, <1>8 DEF Next

LEMMA ConfigInvariance == Spec => []ConfigInv
<1>1. Init => ConfigInv
  BY ConfigInit
<1>2. ConfigInv /\ [Next]_vars => ConfigInv'
  BY ConfigStep
<1> QED
  BY <1>1, <1>2, PTL DEF Spec

(* Whatever passes validation also runs (Config!AcceptedRuns): neither     *)
(* startup nor a reload of a configuration that was accepted can fail in   *)
(* compile_port, and a service that serves does serve every port of it.    *)
THEOREM AcceptedAlwaysRuns == Spec => []AcceptedRuns
<1>1. ConfigInv => AcceptedRuns
  <2> SUFFICES ASSUME ConfigInv PROVE AcceptedRuns
    OBVIOUS
  <2>1. exit # "spawn_failed"
    BY DEF ConfigInv
  <2>2. ASSUME process = "serving"
        PROVE  /\ accepted # 0
               /\ DOMAIN live = {p.name : p \in Ports(accepted)}
               /\ \A p \in Ports(accepted) :
                    /\ DOMAIN live[p.name].scenarios = Elements(p.scenarios, Name)
                    /\ live[p.name].active \in Elements(p.scenarios, Name)
                    /\ live[p.name].framing = FramingOf(p)
    <3>1. accepted \in DOMAIN Files
      BY <2>2 DEF ConfigInv
    <3>2. accepted # 0
      BY <3>1, PortsAreListed
    <3>3. DOMAIN live = {p.name : p \in Ports(accepted)}
      BY <2>2 DEF ConfigInv, Elements, Name, AcceptedPorts, Ports
    <3>4. ASSUME NEW p \in Ports(accepted)
          PROVE  /\ DOMAIN live[p.name].scenarios = Elements(p.scenarios, Name)
                 /\ live[p.name].active \in Elements(p.scenarios, Name)
                 /\ live[p.name].framing = FramingOf(p)
      <4>1. Served(p)
        BY <2>2 DEF ConfigInv, Elements, AcceptedPorts, Ports
      <4> QED
        BY <4>1, CompilePortNames DEF Served
    <3> QED
      BY <3>2, <3>3, <3>4
  <2> QED
    BY <2>1, <2>2 DEF AcceptedRuns
<1> QED
  BY <1>1, ConfigInvariance, PTL

-----------------------------------------------------------------------------
(* What a compiled rule matches is what the file declares.                 *)

Meant(l) == l.means \in Seq(0..255) /\ Value(l) = l.means

LEMMA BytesType ==
  ASSUME NEW s \in Seq(0..255)
  PROVE  /\ Len(s) \in Nat /\ DOMAIN s = 1..Len(s)
         /\ \A i \in DOMAIN s : s[i] \in Nat
<1>1. /\ Len(s) \in Nat /\ DOMAIN s = 1..Len(s)
      /\ \A i \in DOMAIN s : s[i] \in 0..255
  BY LenProperties, ElementOfSeq
<1>2. 0..255 \subseteq Nat
  OBVIOUS
<1> QED
  BY <1>1, <1>2

LEMMA MaskMatches ==
  ASSUME NEW frame \in Frame, NEW match, Meant(match.mask.pattern), Meant(match.mask.mask),
         Resolve(match) # Error, SetKeys(match) = {"mask"}
  PROVE  M!Matches(CompileMatch(match), frame)
           <=> MaskedEqual(frame, match.mask.pattern.means, match.mask.mask.means)
<1> DEFINE pattern == match.mask.pattern.means
           mask    == match.mask.mask.means
           masked  == [i \in DOMAIN pattern |-> M!And(pattern[i], mask[i])]
<1>1. /\ Len(pattern) = Len(mask)
      /\ Resolve(match) = [kind |-> "mask", pattern |-> pattern, mask |-> mask]
  BY ResolveKeys DEF Meant
<1>2. CompileMatch(match) = [kind |-> "mask", pattern |-> masked, mask |-> mask]
  BY <1>1 DEF CompileMatch, M!Compile
<1>3. /\ pattern \in Seq(0..255) /\ mask \in Seq(0..255) /\ frame \in Seq(0..255)
      /\ Len(pattern) \in Nat /\ DOMAIN pattern = 1..Len(pattern)
  BY ConfigAssumption DEF Meant
<1>4. Len(masked) = Len(pattern)
  BY <1>3
<1>5. M!Matches(CompileMatch(match), frame)
        <=> /\ Len(frame) = Len(pattern)
            /\ \A i \in DOMAIN frame : M!And(frame[i], mask[i]) = masked[i]
  <2> HIDE DEF pattern, mask, masked
  <2>1. CompileMatch(match).kind = "mask" /\ CompileMatch(match).pattern = masked
        /\ CompileMatch(match).mask = mask
    BY <1>2
  <2> QED
    BY <2>1, <1>4 DEF M!Matches
<1>6. ASSUME Len(frame) = Len(pattern), NEW i \in DOMAIN frame
      PROVE  M!And(frame[i], mask[i]) = masked[i]
               <=> \A w \in M!Weights :
                     M!Bit(mask[i], w) = 1 => M!Bit(frame[i], w) = M!Bit(pattern[i], w)
  <2>1. i \in DOMAIN pattern /\ frame[i] \in Nat /\ mask[i] \in Nat /\ pattern[i] \in Nat
    <3>1. /\ DOMAIN frame = 1..Len(frame) /\ DOMAIN mask = 1..Len(mask)
          /\ DOMAIN pattern = 1..Len(pattern)
      BY <1>3, BytesType
    <3>2. i \in DOMAIN pattern /\ i \in DOMAIN mask
      BY <1>1, <1>6, <3>1
    <3> QED
      BY <1>3, <3>2, BytesType
  <2>2. masked[i] = M!And(pattern[i], mask[i])
    BY <2>1
  <2> QED
    BY <2>1, <2>2, MaskBits
<1> HIDE DEF pattern, mask, masked
<1>7. MaskedEqual(frame, pattern, mask)
        <=> /\ Len(frame) = Len(pattern)
            /\ \A i \in DOMAIN frame : M!And(frame[i], mask[i]) = masked[i]
  BY <1>1, <1>6 DEF MaskedEqual
<1> QED
  BY <1>5, <1>7 DEF pattern, mask

LEMMA CompiledMatches ==
  ASSUME NEW frame \in Frame, NEW match, Resolve(match) # Error,
         \A l \in MatchLiterals(match) : Meant(l)
  PROVE  M!Matches(CompileMatch(match), frame) <=> Declares(match, frame)
<1>1. CASE SetKeys(match) = {"exact"}
  <2>1. Resolve(match) = [kind |-> "exact", bytes |-> match.exact.means]
    BY <1>1, ResolveKeys DEF MatchLiterals, Meant
  <2>2. M!Matches(CompileMatch(match), frame) <=> frame = match.exact.means
    <3>1. CompileMatch(match) = [kind |-> "exact", bytes |-> match.exact.means]
      BY <2>1 DEF CompileMatch
    <3> QED
      BY <3>1 DEF M!Matches
  <2>3. Declares(match, frame) <=> frame = match.exact.means
    BY <1>1 DEF Declares
  <2> QED
    BY <2>2, <2>3
<1>2. CASE SetKeys(match) = {"regex"}
  <2>1. Resolve(match) = [kind |-> "regex", pattern |-> match.regex]
    BY <1>2, ResolveKeys
  <2>2. M!Matches(CompileMatch(match), frame) <=> frame \in match.regex.language
    <3>1. CompileMatch(match) = [kind |-> "regex", language |-> match.regex.language]
      BY <2>1 DEF CompileMatch
    <3> QED
      BY <3>1 DEF M!Matches
  <2>3. Declares(match, frame) <=> frame \in match.regex.language
    BY <1>2 DEF Declares
  <2> QED
    BY <2>2, <2>3
<1>3. CASE SetKeys(match) = {"mask"}
  <2>1. Meant(match.mask.pattern) /\ Meant(match.mask.mask)
    BY <1>3 DEF MatchLiterals
  <2>2. Declares(match, frame)
          <=> MaskedEqual(frame, match.mask.pattern.means, match.mask.mask.means)
    BY <1>3 DEF Declares
  <2> QED
    BY <1>3, <2>1, <2>2, MaskMatches
<1> QED
  BY <1>1, <1>2, <1>3, ResolveKeys

(* The first of the compiled rules that matches answers as the first of    *)
(* the declared rules that applies.                                        *)
LEMMA CompiledAnswers ==
  ASSUME NEW frame \in Frame, NEW rules, Listed(rules),
         \A r \in DOMAIN rules : ValidRule(rules[r]),
         \A r \in DOMAIN rules :
           Meant(rules[r].response) /\ \A l \in MatchLiterals(rules[r].match) : Meant(l)
  PROVE  Answer([r \in DOMAIN rules |-> CompileRule(rules[r])], frame)
           = DeclaredAnswer(rules, frame)
<1> DEFINE compiled == [r \in DOMAIN rules |-> CompileRule(rules[r])]
           matching == {r \in DOMAIN compiled : M!Matches(compiled[r].matcher, frame)}
           applying == {r \in DOMAIN rules : Declares(rules[r].match, frame)}
           First(S) == CHOOSE i \in S : \A j \in S : i <= j
<1>1. ASSUME NEW r \in DOMAIN rules
      PROVE  /\ M!Matches(compiled[r].matcher, frame) <=> Declares(rules[r].match, frame)
             /\ compiled[r].response = rules[r].response.means
  <2>1. compiled[r] = [matcher |-> CompileMatch(rules[r].match), response |-> Value(rules[r].response)]
    BY DEF CompileRule
  <2>2. Resolve(rules[r].match) # Error
    BY DEF ValidRule
  <2>3. M!Matches(CompileMatch(rules[r].match), frame) <=> Declares(rules[r].match, frame)
    BY <2>2, CompiledMatches
  <2> QED
    BY <2>1, <2>3 DEF Meant
<1>2. matching = applying
  BY <1>1
<1>3. CASE applying = {}
  BY <1>2, <1>3 DEF Answer, DeclaredAnswer, FirstAnswer
<1>4. CASE applying # {}
  <2>1. applying \in SUBSET Nat
    BY DEF Listed
  <2>2. First(applying) \in DOMAIN rules
    BY <1>4, <2>1, NatLeast
  <2>3. compiled[First(applying)].response = rules[First(applying)].response.means
    BY <1>1, <2>2
  <2>4. Answer(compiled, frame) = compiled[First(matching)].response
    BY <1>2, <1>4 DEF Answer, FirstAnswer
  <2>5. DeclaredAnswer(rules, frame) = rules[First(applying)].response.means
    BY <1>4 DEF DeclaredAnswer, FirstAnswer
  <2> QED
    BY <1>2, <2>3, <2>4, <2>5
<1> QED
  BY <1>3, <1>4

(* Every frame gets the answer, and every trigger writes the bytes, that   *)
(* the configuration declares (Config!RulesAsDeclared), for every file     *)
(* whose literals decode to what their author meant: the first rule that   *)
(* applies answers, a mask masked once compares bit for bit, and no name   *)
(* is compiled to another's scenario or trigger.                           *)
THEOREM RulesAlwaysAsDeclared ==
  ASSUME \A f \in DOMAIN Files : Loads(Files[f]) => SaysWhatItMeans(Files[f])
  PROVE  Spec => []RulesAsDeclared
<1>1. ConfigInv => RulesAsDeclared
  <2> SUFFICES ASSUME ConfigInv, process = "serving",
                      NEW p \in Ports(accepted), NEW s \in DOMAIN p.scenarios
               PROVE  LET declared == p.scenarios[s]
                          running  == live[p.name].scenarios[declared.name]
                      IN  /\ \A frame \in Frame :
                               Answer(running.rules, frame) = DeclaredAnswer(declared.rules, frame)
                          /\ \A t \in DOMAIN declared.triggers :
                               running.triggers[declared.triggers[t].name]
                                 = declared.triggers[t].response.means
    BY DEF RulesAsDeclared
  <2> DEFINE declared == p.scenarios[s]
             running  == live[p.name].scenarios[declared.name]
  <2>0. PICK i \in DOMAIN AcceptedPorts : p = AcceptedPorts[i]
    BY DEF Ports, Elements, AcceptedPorts
  <2>1. accepted \in DOMAIN Files /\ Loads(Files[accepted]) /\ Served(p)
    BY <2>0 DEF ConfigInv
  <2>2. /\ Listed(p.scenarios) /\ Listed(declared.triggers) /\ Listed(declared.rules)
    BY <2>0, <2>1, FilesAssumption DEF AcceptedPorts
  <2>3. ValidPort(p)
    BY <2>0, <2>1 DEF Loads, Valid, AcceptedPorts
  <2>4. /\ Distinct(p.scenarios) /\ Distinct(declared.triggers)
        /\ \A r \in DOMAIN declared.rules : ValidRule(declared.rules[r])
    BY <2>3 DEF ValidPort, ValidScenario
  <2>5. running = CompileScenario(declared)
    BY <2>1, <2>2, <2>4, CompiledScenario DEF Served
  <2>6. \A l \in ScenarioLiterals(declared) : Meant(l)
    <3>1. \A l \in PortLiterals(p) : Meant(l)
      BY <2>0, <2>1 DEF SaysWhatItMeans, Meant, AcceptedPorts
    <3>2. ScenarioLiterals(declared) \subseteq PortLiterals(p)
      BY DEF PortLiterals, Elements
    <3> QED
      BY <3>1, <3>2
  <2>7. /\ \A t \in DOMAIN declared.triggers : Meant(declared.triggers[t].response)
        /\ \A r \in DOMAIN declared.rules :
             /\ Meant(declared.rules[r].response)
             /\ \A l \in MatchLiterals(declared.rules[r].match) : Meant(l)
    BY <2>6 DEF ScenarioLiterals, Elements
  <2> HIDE DEF declared, running
  <2>8. ASSUME NEW t \in DOMAIN declared.triggers
        PROVE  running.triggers[declared.triggers[t].name] = declared.triggers[t].response.means
    BY <2>2, <2>4, <2>5, <2>7, CompiledTrigger DEF Meant
  <2>9. ASSUME NEW frame \in Frame
        PROVE  Answer(running.rules, frame) = DeclaredAnswer(declared.rules, frame)
    <3>1. running.rules = [r \in DOMAIN declared.rules |-> CompileRule(declared.rules[r])]
      BY <2>5 DEF CompileScenario
    <3> QED
      BY <2>2, <2>4, <2>7, <3>1, CompiledAnswers
  <2> QED
    BY <2>8, <2>9 DEF declared, running
<1> QED
  BY <1>1, ConfigInvariance, PTL

-----------------------------------------------------------------------------
(* Byte literals in hex: how the positions that are kept are counted off.  *)

Enumerates(e, m, K) ==
  /\ e \in [1..m -> K]
  /\ \A k, l \in 1..m : k < l => e[k] < e[l]
  /\ \A i \in K : \E k \in 1..m : i = e[k]

LEMMA EnumerationExists ==
  \A n \in Nat : \A K \in SUBSET (1..n) : \E m \in Nat : \E e : Enumerates(e, m, K)
<1> DEFINE T == {n \in Nat : \A K \in SUBSET (1..n) : \E m \in Nat : \E e : Enumerates(e, m, K)}
<1>1. 0 \in T
  <2> SUFFICES ASSUME NEW K \in SUBSET (1..0)
               PROVE  \E m \in Nat : \E e : Enumerates(e, m, K)
    OBVIOUS
  <2>1. K = {} /\ 1..0 = {}
    OBVIOUS
  <2>2. Enumerates([k \in 1..0 |-> k], 0, K)
    BY <2>1 DEF Enumerates
  <2> QED
    BY <2>2
<1>2. ASSUME NEW n \in Nat, n \in T
      PROVE  n + 1 \in T
  <2> SUFFICES ASSUME NEW K \in SUBSET (1..(n + 1))
               PROVE  \E m \in Nat : \E e : Enumerates(e, m, K)
    OBVIOUS
  <2> DEFINE L == K \ {n + 1}
  <2>1. L \in SUBSET (1..n)
    OBVIOUS
  <2>0. PICK m \in Nat : \E e : Enumerates(e, m, L)
    BY <1>2, <2>1
  <2>2. PICK e : Enumerates(e, m, L)
    BY <2>0
  <2>3. CASE n + 1 \notin K
    BY <2>2, <2>3
  <2>4. CASE n + 1 \in K
    <3> DEFINE f == [k \in 1..(m + 1) |-> IF k = m + 1 THEN n + 1 ELSE e[k]]
    <3>1. /\ \A k \in 1..m : f[k] = e[k] /\ e[k] \in L /\ e[k] \in 1..n
          /\ f[m + 1] = n + 1
      <4>1. \A k \in 1..m : e[k] \in L
        BY <2>2 DEF Enumerates
      <4>2. \A k \in 1..m : k \in 1..(m + 1) /\ k # m + 1
        OBVIOUS
      <4>3. m + 1 \in 1..(m + 1)
        OBVIOUS
      <4> HIDE DEF L
      <4> QED
        BY <2>1, <4>1, <4>2, <4>3
    <3>2. f \in [1..(m + 1) -> K]
      BY <2>4, <3>1
    <3>3. \A k, l \in 1..(m + 1) : k < l => f[k] < f[l]
      <4> SUFFICES ASSUME NEW k \in 1..(m + 1), NEW l \in 1..(m + 1), k < l PROVE f[k] < f[l]
        OBVIOUS
      <4>1. k \in 1..m
        OBVIOUS
      <4>2. CASE l = m + 1
        <5>1. f[k] \in 1..n
          BY <3>1, <4>1
        <5>2. f[l] = n + 1
          BY <3>1, <4>2
        <5> QED
          BY <5>1, <5>2
      <4>3. CASE l # m + 1
        <5>1. l \in 1..m
          BY <4>3
        <5>2. e[k] < e[l]
          BY <2>2, <4>1, <5>1 DEF Enumerates
        <5> QED
          BY <3>1, <4>1, <5>1, <5>2
      <4> QED
        BY <4>2, <4>3
    <3>4. \A i \in K : \E k \in 1..(m + 1) : i = f[k]
      <4> SUFFICES ASSUME NEW i \in K PROVE \E k \in 1..(m + 1) : i = f[k]
        OBVIOUS
      <4>1. CASE i = n + 1
        BY <3>1, <4>1
      <4>2. CASE i # n + 1
        <5>1. PICK k \in 1..m : i = e[k]
          BY <2>2, <4>2 DEF Enumerates
        <5> QED
          BY <3>1, <5>1
      <4> QED
        BY <4>1, <4>2
    <3> HIDE DEF f
    <3>5. Enumerates(f, m + 1, K)
      BY <3>2, <3>3, <3>4 DEF Enumerates
    <3> QED
      BY <3>5
  <2> QED
    BY <2>3, <2>4
<1>3. \A n \in Nat : n \in T
  <2> HIDE DEF T
  <2> QED BY <1>1, <1>2, SetInduction
<1> QED
  BY <1>3

Upto(K, i) == {j \in K : j <= i}

(* The k-th element has k elements up to it. *)
LEMMA EnumerationRank ==
  ASSUME NEW K, NEW m \in Nat, NEW e, Enumerates(e, m, K), K \subseteq Nat, NEW k \in 1..m
  PROVE  Cardinality(Upto(K, e[k])) = k
<1> DEFINE upto == {j \in K : j <= e[k]}
           g    == [l \in 1..k |-> e[l]]
<1>1. \A l \in 1..m : e[l] \in K /\ e[l] \in Nat
  BY DEF Enumerates
<1>2. g \in [1..k -> upto]
  <2> SUFFICES ASSUME NEW l \in 1..k PROVE e[l] \in upto
    OBVIOUS
  <2>1. l \in 1..m /\ e[l] \in K /\ e[l] \in Nat /\ e[k] \in Nat
    BY <1>1
  <2>2. l = k \/ e[l] < e[k]
    BY <2>1 DEF Enumerates
  <2> QED BY <2>1, <2>2
<1>3. g \in Injection(1..k, upto)
  <2> SUFFICES ASSUME NEW a \in 1..k, NEW b \in 1..k, a # b PROVE g[a] # g[b]
    BY <1>2 DEF Injection, IsInjective
  <2> QED BY <1>1 DEF Enumerates
<1>4. \A j \in upto : \E l \in 1..k : g[l] = j
  <2> SUFFICES ASSUME NEW j \in upto PROVE \E l \in 1..k : g[l] = j
    OBVIOUS
  <2>1. PICK l \in 1..m : j = e[l]
    BY DEF Enumerates
  <2>2. l <= k
    BY <1>1, <2>1 DEF Enumerates
  <2> QED
    BY <2>1, <2>2
<1>5. g \in Bijection(1..k, upto)
  BY <1>2, <1>3, <1>4 DEF Bijection, Surjection
<1>6. IsFiniteSet(1..k) /\ Cardinality(1..k) = k
  BY FS_Interval
<1> QED
  <2> HIDE DEF g, upto
  <2>1. ExistsBijection(1..k, upto)
    BY <1>5 DEF ExistsBijection
  <2>2. Cardinality(upto) = k
    BY <1>6, <2>1, FS_Bijection
  <2> QED
    BY <2>2 DEF upto, Upto

Picked(text, e, m) == [k \in 1..m |-> text[e[k]]]

LEMMA CharsAtEnumerated ==
  ASSUME NEW text, NEW K, K \subseteq Nat, NEW m \in Nat, NEW e, Enumerates(e, m, K)
  PROVE  CharsAt(text, K) = Picked(text, e, m)
<1> DEFINE Rank(i) == Cardinality(Upto(K, i))
           Nth(k)  == CHOOSE i \in K : Rank(i) = k
<1>1. \A k \in 1..m : e[k] \in K /\ Rank(e[k]) = k
  <2>1. \A k \in 1..m : e[k] \in K
    BY DEF Enumerates
  <2>2. ASSUME NEW k \in 1..m PROVE Rank(e[k]) = k
    BY EnumerationRank
  <2> QED
    BY <2>1, <2>2
<1>2. ASSUME NEW k \in 1..m
      PROVE  Nth(k) = e[k]
  <2> HIDE DEF Rank
  <2>1. Nth(k) \in K /\ Rank(Nth(k)) = k
    BY <1>1
  <2>2. PICK l \in 1..m : Nth(k) = e[l]
    BY <2>1 DEF Enumerates
  <2> QED
    BY <1>1, <2>1, <2>2
<1>3. Cardinality(K) = m
  <2>1. IsFiniteSet(1..m) /\ Cardinality(1..m) = m
    BY FS_Interval
  <2>2. \A k, l \in 1..m : k # l => e[k] # e[l]
    BY <1>1
  <2>3. e \in Bijection(1..m, K)
    BY <2>2 DEF Enumerates, Bijection, Injection, IsInjective, Surjection
  <2> QED
    BY <2>1, <2>3, FS_Bijection DEF ExistsBijection
<1> HIDE DEF Nth, Rank
<1>4. CharsAt(text, K) = [k \in 1..m |-> text[Nth(k)]]
  BY <1>3 DEF CharsAt, Nth, Rank, Upto
<1> QED
  BY <1>2, <1>4 DEF Picked

-----------------------------------------------------------------------------
(* Hex text put together from pieces. *)

Char == 0..18

Kept(text) == {i \in DOMAIN text : text[i] # Sep /\ i \notin PrefixChars(text)}

Shifted(n, K) == {n + i : i \in K}

(* No prefix `0x` comes about where the two meet. *)
Separate(a, b) == a # <<>> /\ b # <<>> => ~(a[Len(a)] = 0 /\ b[1] = X)

(* The first character of each `0x`. *)
Zeros(s) == {i \in 1..Len(s) - 1 : s[i] = 0 /\ s[i + 1] = X}

Joined(a, n, b, m, t) ==
  /\ n \in Nat /\ m \in Nat
  /\ Len(a) = n /\ Len(b) = m /\ Len(t) = n + m
  /\ DOMAIN a = 1..n /\ DOMAIN b = 1..m /\ DOMAIN t = 1..(n + m)
  /\ \A i \in 1..n : t[i] = a[i]
  /\ \A i \in 1..m : t[n + i] = b[i]

LEMMA ConcatJoins ==
  ASSUME NEW S, NEW a \in Seq(S), NEW b \in Seq(S)
  PROVE  Joined(a, Len(a), b, Len(b), a \o b)
BY DEF Joined

LEMMA KeptOfPieces ==
  ASSUME NEW a, NEW n, NEW b, NEW m, NEW t, Joined(a, n, b, m, t),
         n # 0 /\ m # 0 => ~(a[n] = 0 /\ b[1] = X)
  PROVE  Kept(t) = Kept(a) \cup Shifted(n, Kept(b))
<1> USE DEF Joined
<1>1. /\ \A i : i \in Zeros(a) <=> i \in 1..(n - 1) /\ a[i] = 0 /\ a[i + 1] = X
      /\ \A i : i \in Zeros(b) <=> i \in 1..(m - 1) /\ b[i] = 0 /\ b[i + 1] = X
      /\ \A i : i \in Zeros(t) <=> i \in 1..(n + m - 1) /\ t[i] = 0 /\ t[i + 1] = X
  BY DEF Zeros
<1>2. ASSUME NEW i \in 1..n
      PROVE  i \in Zeros(t) <=> i \in Zeros(a)
  <2>0. t[i] = a[i]
    OBVIOUS
  <2>1. CASE i < n
    <3>1. i + 1 \in 1..n /\ i \in 1..(n - 1) /\ i \in 1..(n + m - 1)
      BY <2>1
    <3>2. t[i + 1] = a[i + 1]
      BY <3>1
    <3> QED
      BY <1>1, <2>0, <3>1, <3>2
  <2>2. CASE i = n /\ m # 0
    <3>1. t[n + 1] = b[1]
      <4>1. 1 \in 1..m
        BY <2>2
      <4> QED
        BY <4>1
    <3>2. i \notin 1..(n - 1) /\ n # 0
      BY <2>2
    <3> QED
      BY <1>1, <2>0, <2>2, <3>1, <3>2
  <2>3. CASE i = n /\ m = 0
    <3>1. i \notin 1..(n - 1) /\ i \notin 1..(n + m - 1)
      BY <2>3
    <3> QED
      BY <1>1, <3>1
  <2> QED
    BY <2>1, <2>2, <2>3
<1>3. ASSUME NEW i \in 1..m
      PROVE  n + i \in Zeros(t) <=> i \in Zeros(b)
  <2>0. t[n + i] = b[i]
    OBVIOUS
  <2>1. CASE i < m
    <3>1. i + 1 \in 1..m /\ i \in 1..(m - 1) /\ n + i \in 1..(n + m - 1) /\ n + (i + 1) = (n + i) + 1
      BY <2>1
    <3>2. t[(n + i) + 1] = b[i + 1]
      BY <3>1
    <3> QED
      BY <1>1, <2>0, <3>1, <3>2
  <2>2. CASE i = m
    <3>1. i \notin 1..(m - 1) /\ n + i \notin 1..(n + m - 1)
      BY <2>2
    <3> QED
      BY <1>1, <3>1
  <2> QED
    BY <2>1, <2>2
<1>4. \A i \in Int : /\ i \in PrefixChars(t) <=> (i \in Zeros(t) \/ i - 1 \in Zeros(t))
                     /\ i \in PrefixChars(a) <=> (i \in Zeros(a) \/ i - 1 \in Zeros(a))
                     /\ i \in PrefixChars(b) <=> (i \in Zeros(b) \/ i - 1 \in Zeros(b))
  <2>1. ASSUME NEW s, Zeros(s) \subseteq Int, NEW i \in Int
        PROVE  i \in PrefixChars(s) <=> (i \in Zeros(s) \/ i - 1 \in Zeros(s))
    <3>1. PrefixChars(s) = Zeros(s) \cup {j + 1 : j \in Zeros(s)}
      BY DEF PrefixChars, Zeros
    <3>2. \A j \in Zeros(s) : i = j + 1 <=> i - 1 = j
      BY <2>1
    <3> QED
      BY <3>1, <3>2
  <2>2. Zeros(t) \subseteq Int /\ Zeros(a) \subseteq Int /\ Zeros(b) \subseteq Int
    BY <1>1
  <2> QED
    BY <2>1, <2>2
<1>5. 0 \notin Zeros(t) /\ 0 \notin Zeros(a) /\ 0 \notin Zeros(b)
  BY <1>1
<1>6. n \notin Zeros(t)
  <2>1. CASE n = 0
    BY <2>1, <1>5
  <2>2. CASE n # 0
    <3>1. n \in 1..n /\ n \notin 1..(n - 1)
      BY <2>2
    <3> QED
      BY <1>1, <1>2, <3>1
  <2> QED
    BY <2>1, <2>2
<1>7. ASSUME NEW i \in 1..n
      PROVE  i \in PrefixChars(t) <=> i \in PrefixChars(a)
  <2>1. i - 1 \in Zeros(t) <=> i - 1 \in Zeros(a)
    <3>1. CASE i = 1
      BY <3>1, <1>5
    <3>2. CASE i # 1
      <4>1. i - 1 \in 1..n
        BY <3>2
      <4> QED
        BY <4>1, <1>2
    <3> QED
      BY <3>1, <3>2
  <2>2. i \in Int
    OBVIOUS
  <2> QED
    BY <1>2, <1>4, <2>1, <2>2
<1>8. ASSUME NEW i \in 1..m
      PROVE  n + i \in PrefixChars(t) <=> i \in PrefixChars(b)
  <2>1. (n + i) - 1 \in Zeros(t) <=> i - 1 \in Zeros(b)
    <3>1. CASE i = 1
      <4>1. (n + i) - 1 = n /\ i - 1 = 0
        BY <3>1
      <4> QED
        BY <4>1, <1>5, <1>6
    <3>2. CASE i # 1
      <4>1. i - 1 \in 1..m /\ (n + i) - 1 = n + (i - 1)
        BY <3>2
      <4> QED
        BY <4>1, <1>3
    <3> QED
      BY <3>1, <3>2
  <2>2. i \in Int /\ n + i \in Int
    OBVIOUS
  <2> QED
    BY <1>3, <1>4, <2>1, <2>2
<1>9. ASSUME NEW i \in 1..n
      PROVE  i \in Kept(t) <=> i \in Kept(a)
  <2>1. i \in 1..(n + m) /\ t[i] = a[i]
    OBVIOUS
  <2> QED
    BY <1>7, <2>1 DEF Kept
<1>10. ASSUME NEW i \in 1..m
       PROVE  n + i \in Kept(t) <=> i \in Kept(b)
  <2>1. n + i \in 1..(n + m) /\ t[n + i] = b[i]
    OBVIOUS
  <2> QED
    BY <1>8, <2>1 DEF Kept
<1>11. Kept(t) \subseteq 1..(n + m) /\ Kept(a) \subseteq 1..n /\ Kept(b) \subseteq 1..m
  BY DEF Kept
<1>12. ASSUME NEW i \in Kept(t)
       PROVE  i \in Kept(a) \cup Shifted(n, Kept(b))
  <2>1. i \in 1..n \/ (i - n \in 1..m /\ i = n + (i - n))
    BY <1>11
  <2> QED
    BY <1>9, <1>10, <2>1 DEF Shifted
<1>13. Kept(a) \subseteq Kept(t)
  BY <1>9, <1>11
<1>14. \A j \in Kept(b) : n + j \in Kept(t)
  BY <1>10, <1>11
<1> QED
  BY <1>12, <1>13, <1>14 DEF Shifted

LEMMA KeptOfConcat ==
  ASSUME NEW a \in Seq(Char), NEW b \in Seq(Char), Separate(a, b)
  PROVE  Kept(a \o b) = Kept(a) \cup Shifted(Len(a), Kept(b))
<1>1. Joined(a, Len(a), b, Len(b), a \o b)
  BY ConcatJoins
<1>2. Len(a) # 0 /\ Len(b) # 0 => ~(a[Len(a)] = 0 /\ b[1] = X)
  BY DEF Separate
<1> QED
  BY <1>1, <1>2, KeptOfPieces

Continued(e, p, f, q, n) ==
  [k \in 1..(p + q) |-> IF k <= p THEN e[k] ELSE n + f[k - p]]

LEMMA JoinedEnumeration ==
  ASSUME NEW n \in Nat, NEW A \in SUBSET (1..n), NEW B, B \subseteq Nat \ {0},
         NEW p \in Nat, NEW e, Enumerates(e, p, A),
         NEW q \in Nat, NEW f, Enumerates(f, q, B)
  PROVE  Enumerates(Continued(e, p, f, q, n), p + q, A \cup Shifted(n, B))
<1> DEFINE g == [k \in 1..(p + q) |-> IF k <= p THEN e[k] ELSE n + f[k - p]]
           K == A \cup Shifted(n, B)
<1>1. \A k \in 1..p : e[k] \in A /\ e[k] \in 1..n
  BY DEF Enumerates
<1>2. \A k \in 1..q : f[k] \in B /\ f[k] \in Nat \ {0}
  BY DEF Enumerates
<1>3. \A k \in 1..p : k \in 1..(p + q) /\ g[k] = e[k]
  OBVIOUS
<1>4. \A k \in 1..q : p + k \in 1..(p + q) /\ g[p + k] = n + f[k]
  <2> SUFFICES ASSUME NEW k \in 1..q PROVE p + k \in 1..(p + q) /\ g[p + k] = n + f[k]
    OBVIOUS
  <2>1. p + k \in 1..(p + q) /\ ~(p + k <= p) /\ (p + k) - p = k
    OBVIOUS
  <2> QED
    BY <2>1
<1>5. \A k \in 1..(p + q) : k \in 1..p \/ (k - p \in 1..q /\ k = p + (k - p))
  OBVIOUS
<1>6. DOMAIN g = 1..(p + q) /\ g = [k \in 1..(p + q) |-> g[k]]
  OBVIOUS
<1> HIDE DEF g
<1>7. \A k \in 1..(p + q) : g[k] \in K
  <2>1. \A k \in 1..p : g[k] \in K
    BY <1>1, <1>3
  <2>2. \A k \in 1..q : g[p + k] \in K
    BY <1>2, <1>4 DEF Shifted
  <2> QED
    BY <1>5, <2>1, <2>2
<1>8. g \in [1..(p + q) -> K]
  BY <1>6, <1>7
<1>9. ASSUME NEW k \in 1..(p + q), NEW l \in 1..(p + q), k < l
      PROVE  g[k] < g[l]
  <2>1. CASE l \in 1..p
    <3>1. k \in 1..p
      BY <1>9, <2>1
    <3>2. e[k] < e[l]
      BY <1>9, <2>1, <3>1 DEF Enumerates
    <3> QED
      BY <1>3, <2>1, <3>1, <3>2
  <2>2. CASE k \in 1..p /\ l \notin 1..p
    <3>1. l - p \in 1..q /\ l = p + (l - p)
      BY <1>5, <2>2
    <3>2. g[k] \in 1..n /\ g[l] = n + f[l - p]
      BY <1>1, <1>3, <1>4, <2>2, <3>1
    <3>3. f[l - p] \in Nat \ {0}
      BY <1>2, <3>1
    <3> QED
      BY <3>2, <3>3
  <2>3. CASE k \notin 1..p
    <3>1. /\ k - p \in 1..q /\ k = p + (k - p)
          /\ l - p \in 1..q /\ l = p + (l - p)
          /\ k - p < l - p
      BY <1>9, <2>3
    <3>2. g[k] = n + f[k - p] /\ g[l] = n + f[l - p]
      BY <1>4, <3>1
    <3>3. f[k - p] < f[l - p]
      BY <3>1 DEF Enumerates
    <3>4. f[k - p] \in Nat /\ f[l - p] \in Nat
      BY <1>2, <3>1
    <3> QED
      BY <3>2, <3>3, <3>4
  <2> QED
    BY <2>1, <2>2, <2>3
<1>10. ASSUME NEW i \in K
       PROVE  \E k \in 1..(p + q) : i = g[k]
  <2>1. CASE i \in A
    <3>1. PICK k \in 1..p : i = e[k]
      BY <2>1 DEF Enumerates
    <3> QED
      BY <1>3, <3>1
  <2>2. CASE i \in Shifted(n, B)
    <3>1. PICK j \in B : i = n + j
      BY <2>2 DEF Shifted
    <3>2. PICK k \in 1..q : j = f[k]
      BY <3>1 DEF Enumerates
    <3> QED
      BY <1>4, <3>1, <3>2
  <2> QED
    BY <2>1, <2>2
<1>11. Enumerates(g, p + q, K)
  BY <1>8, <1>9, <1>10 DEF Enumerates
<1> QED
  BY <1>11 DEF g, Continued

LEMMA KeptInText ==
  ASSUME NEW S, NEW text \in Seq(S)
  PROVE  Kept(text) \in SUBSET (1..Len(text)) /\ Len(text) \in Nat
BY LenProperties DEF Kept

LEMMA NibblesEnumerated ==
  ASSUME NEW S, NEW text \in Seq(S)
  PROVE  \E p \in Nat : \E e : /\ Enumerates(e, p, Kept(text))
                               /\ Nibbles(text) = Picked(text, e, p)
<1>1. Kept(text) \in SUBSET (1..Len(text)) /\ Len(text) \in Nat
  BY KeptInText
<1>0. PICK p \in Nat : \E e : Enumerates(e, p, Kept(text))
  BY <1>1, EnumerationExists
<1>2. PICK e : Enumerates(e, p, Kept(text))
  BY <1>0
<1>3. Kept(text) \subseteq Nat
  BY <1>1
<1>4. Nibbles(text) = CharsAt(text, Kept(text))
  BY DEF Nibbles, Kept
<1>5. CharsAt(text, Kept(text)) = Picked(text, e, p)
  BY <1>2, <1>3, CharsAtEnumerated
<1> QED
  BY <1>2, <1>4, <1>5

LEMMA NibblesType ==
  ASSUME NEW S, NEW text \in Seq(S)
  PROVE  Nibbles(text) \in Seq(S)
<1>text. PICK p \in Nat : \E e : /\ Enumerates(e, p, Kept(text))
                               /\ Nibbles(text) = Picked(text, e, p)
  BY NibblesEnumerated
<1>1. PICK e : /\ Enumerates(e, p, Kept(text))
              /\ Nibbles(text) = Picked(text, e, p)
  BY <1>text
<1>2. Kept(text) \in SUBSET (1..Len(text)) /\ Len(text) \in Nat
  BY KeptInText
<1>3. \A k \in 1..p : e[k] \in 1..Len(text)
  BY <1>1, <1>2 DEF Enumerates
<1>4. \A i \in 1..Len(text) : text[i] \in S
  BY ElementOfSeq
<1> QED
  BY <1>1, <1>3, <1>4 DEF Picked

(* The digits of a text put together are those of its pieces. *)
LEMMA NibblesOfConcat ==
  ASSUME NEW a \in Seq(Char), NEW b \in Seq(Char), Separate(a, b)
  PROVE  Nibbles(a \o b) = Nibbles(a) \o Nibbles(b)
<1>a. PICK p \in Nat : \E e : /\ Enumerates(e, p, Kept(a))
                               /\ Nibbles(a) = Picked(a, e, p)
  BY NibblesEnumerated
<1>1. PICK e : /\ Enumerates(e, p, Kept(a))
              /\ Nibbles(a) = Picked(a, e, p)
  BY <1>a
<1>b. PICK q \in Nat : \E f : /\ Enumerates(f, q, Kept(b))
                               /\ Nibbles(b) = Picked(b, f, q)
  BY NibblesEnumerated
<1>2. PICK f : /\ Enumerates(f, q, Kept(b))
              /\ Nibbles(b) = Picked(b, f, q)
  BY <1>b
<1>3. /\ Kept(a) \in SUBSET (1..Len(a)) /\ Len(a) \in Nat
      /\ Kept(b) \in SUBSET (1..Len(b)) /\ Len(b) \in Nat
  BY KeptInText
<1>4. Kept(b) \subseteq Nat \ {0}
  BY <1>3
<1>5. Kept(a \o b) = Kept(a) \cup Shifted(Len(a), Kept(b))
  BY KeptOfConcat
<1>6. PICK g : g = Continued(e, p, f, q, Len(a))
  OBVIOUS
<1>7. Enumerates(g, p + q, Kept(a \o b))
  <2>1. Enumerates(Continued(e, p, f, q, Len(a)), p + q, Kept(a) \cup Shifted(Len(a), Kept(b)))
    BY <1>1, <1>2, <1>3, <1>4, JoinedEnumeration
  <2> QED
    BY <1>5, <1>6, <2>1
<1>8. a \o b \in Seq(Char) /\ Kept(a \o b) \subseteq Nat
  <2>1. a \o b \in Seq(Char)
    BY ConcatProperties
  <2>2. Kept(a \o b) \in SUBSET (1..Len(a \o b)) /\ Len(a \o b) \in Nat
    BY <2>1, KeptInText
  <2> QED
    BY <2>1, <2>2
<1>9. Nibbles(a \o b) = Picked(a \o b, g, p + q)
  <2>1. Nibbles(a \o b) = CharsAt(a \o b, Kept(a \o b))
    BY DEF Nibbles, Kept
  <2>2. p + q \in Nat
    OBVIOUS
  <2> QED
    BY <1>7, <1>8, <2>1, <2>2, CharsAtEnumerated
<1>10. ASSUME NEW k \in 1..(p + q)
       PROVE  (a \o b)[g[k]] = (Nibbles(a) \o Nibbles(b))[k]
  <2>1. /\ Nibbles(a) \in Seq(Char) /\ Len(Nibbles(a)) = p
        /\ Nibbles(b) \in Seq(Char) /\ Len(Nibbles(b)) = q
    <3>1. Nibbles(a) \in Seq(Char) /\ Nibbles(b) \in Seq(Char)
      BY NibblesType
    <3>2. DOMAIN Nibbles(a) = 1..p /\ DOMAIN Nibbles(b) = 1..q
      BY <1>1, <1>2 DEF Picked
    <3> QED
      BY <3>1, <3>2, LenProperties
  <2>2. CASE k <= p
    <3>1. k \in 1..p /\ g[k] = e[k]
      BY <1>6, <2>2 DEF Continued
    <3>2. e[k] \in 1..Len(a)
      BY <1>1, <1>3, <3>1 DEF Enumerates
    <3>3. (a \o b)[g[k]] = a[e[k]]
      BY <3>1, <3>2
    <3>4. (Nibbles(a) \o Nibbles(b))[k] = Nibbles(a)[k]
      BY <2>1, <3>1
    <3>5. Nibbles(a)[k] = a[e[k]]
      BY <1>1, <3>1 DEF Picked
    <3> QED
      BY <3>3, <3>4, <3>5
  <2>3. CASE ~(k <= p)
    <3>1. k - p \in 1..q /\ g[k] = Len(a) + f[k - p]
      BY <1>6, <2>3 DEF Continued
    <3>2. f[k - p] \in 1..Len(b)
      BY <1>2, <1>3, <3>1 DEF Enumerates
    <3>3. (a \o b)[g[k]] = b[f[k - p]]
      BY <1>3, <3>1, <3>2
    <3>4. (Nibbles(a) \o Nibbles(b))[k] = Nibbles(b)[k - p]
      BY <2>1, <2>3, <3>1
    <3>5. Nibbles(b)[k - p] = b[f[k - p]]
      BY <1>2, <3>1 DEF Picked
    <3> QED
      BY <3>3, <3>4, <3>5
  <2> QED
    BY <2>2, <2>3
<1>11. /\ DOMAIN (Nibbles(a) \o Nibbles(b)) = 1..(p + q)
       /\ Nibbles(a) \o Nibbles(b) \in Seq(Char)
  <2>1. Nibbles(a) \in Seq(Char) /\ Nibbles(b) \in Seq(Char)
    BY NibblesType
  <2>2. DOMAIN Nibbles(a) = 1..p /\ DOMAIN Nibbles(b) = 1..q
    BY <1>1, <1>2 DEF Picked
  <2>3. Len(Nibbles(a)) = p /\ Len(Nibbles(b)) = q
    BY <2>1, <2>2, LenProperties
  <2>4. Joined(Nibbles(a), Len(Nibbles(a)), Nibbles(b), Len(Nibbles(b)), Nibbles(a) \o Nibbles(b))
    BY <2>1, ConcatJoins
  <2> QED
    BY <2>1, <2>3, <2>4, ConcatProperties DEF Joined
<1> QED
  <2>1. \A s \in Seq(Char) : s = [k \in DOMAIN s |-> s[k]]
    OBVIOUS
  <2>2. Nibbles(a) \o Nibbles(b) = [k \in 1..(p + q) |-> (Nibbles(a) \o Nibbles(b))[k]]
    BY <1>11, <2>1
  <2> QED
    BY <1>9, <1>10, <2>2 DEF Picked

-----------------------------------------------------------------------------
(* Hex text and the bytes it spells. *)

Byte == 0..255

(* A text spells bytes when its digits are the two of each byte. *)
Spells(text, bytes) == Nibbles(text) = HexEncode(bytes)

LEMMA HexEncodeDigits ==
  ASSUME NEW bytes \in Seq(Byte)
  PROVE  /\ HexEncode(bytes) \in Seq(0..15)
         /\ Len(HexEncode(bytes)) = 2 * Len(bytes)
         /\ \A k \in 1..Len(bytes) : /\ HexEncode(bytes)[2 * k - 1] = bytes[k] \div 16
                                     /\ HexEncode(bytes)[2 * k] = bytes[k] % 16
<1> DEFINE n == Len(bytes)
<1>1. n \in Nat /\ \A k \in 1..n : bytes[k] \in 0..255
  BY ElementOfSeq, LenProperties DEF Byte
<1>2. \A x \in 0..255 : x \div 16 \in 0..15 /\ x % 16 \in 0..15
  OBVIOUS
<1>3. \A k \in 1..(2 * n) : IF k % 2 = 1 THEN (k + 1) \div 2 \in 1..n ELSE k \div 2 \in 1..n
  BY <1>1
<1>4. \A k \in 1..n : /\ 2 * k - 1 \in 1..(2 * n) /\ (2 * k - 1) % 2 = 1
                      /\ ((2 * k - 1) + 1) \div 2 = k
                      /\ 2 * k \in 1..(2 * n) /\ (2 * k) % 2 # 1 /\ (2 * k) \div 2 = k
  BY <1>1
<1>5. HexEncode(bytes) = [k \in 1..(2 * n) |-> IF k % 2 = 1 THEN bytes[(k + 1) \div 2] \div 16
                                                            ELSE bytes[k \div 2] % 16]
  BY DEF HexEncode
<1>6. 2 * n \in Nat
  BY <1>1
<1> HIDE DEF n
<1>7. ASSUME NEW k \in 1..(2 * n)
      PROVE  HexEncode(bytes)[k] \in 0..15
  <2>1. CASE k % 2 = 1
    <3>1. bytes[(k + 1) \div 2] \in 0..255
      BY <1>1, <1>3, <2>1
    <3>2. HexEncode(bytes)[k] = bytes[(k + 1) \div 2] \div 16
      BY <1>5, <2>1
    <3> QED
      BY <1>2, <3>1, <3>2
  <2>2. CASE k % 2 # 1
    <3>1. bytes[k \div 2] \in 0..255
      BY <1>1, <1>3, <2>2
    <3>2. HexEncode(bytes)[k] = bytes[k \div 2] % 16
      BY <1>5, <2>2
    <3> QED
      BY <1>2, <3>1, <3>2
  <2> QED
    BY <2>1, <2>2
<1>8. HexEncode(bytes) \in [1..(2 * n) -> 0..15]
  BY <1>5, <1>7
<1>9. HexEncode(bytes) \in Seq(0..15) /\ Len(HexEncode(bytes)) = 2 * n
  <2>1. \A d \in Nat : \A s \in [1..d -> 0..15] : s \in Seq(0..15) /\ Len(s) = d
    OBVIOUS
  <2> QED
    BY <1>6, <1>8, <2>1
<1>10. \A k \in 1..n : HexEncode(bytes)[2 * k - 1] = bytes[k] \div 16 /\ HexEncode(bytes)[2 * k] = bytes[k] % 16
  BY <1>4, <1>5
<1> QED
  BY <1>9, <1>10 DEF n

LEMMA SpelledDecodes ==
  ASSUME NEW text, NEW bytes \in Seq(Byte), Spells(text, bytes)
  PROVE  DecodeHex(text) = Ok(bytes)
<1>1. /\ Nibbles(text) \in Seq(0..15) /\ Len(Nibbles(text)) = 2 * Len(bytes)
      /\ \A k \in 1..Len(bytes) : /\ Nibbles(text)[2 * k - 1] = bytes[k] \div 16
                                  /\ Nibbles(text)[2 * k] = bytes[k] % 16
  BY HexEncodeDigits DEF Spells
<1>2. Len(bytes) \in Nat /\ \A k \in 1..Len(bytes) : bytes[k] \in 0..255
  BY ElementOfSeq, LenProperties DEF Byte
<1>3. \A k \in DOMAIN Nibbles(text) : ~(Nibbles(text)[k] > 15)
  <2> SUFFICES ASSUME NEW k \in DOMAIN Nibbles(text) PROVE ~(Nibbles(text)[k] > 15)
    OBVIOUS
  <2>1. Nibbles(text)[k] \in 0..15
    BY <1>1, ElementOfSeq, LenProperties
  <2> QED
    BY <2>1
<1>4. Len(Nibbles(text)) % 2 # 1 /\ Len(Nibbles(text)) \div 2 = Len(bytes)
  BY <1>1, <1>2
<1>5. \A x \in 0..255 : 16 * (x \div 16) + (x % 16) = x
  OBVIOUS
<1>6. \A k \in 1..Len(bytes) : 16 * Nibbles(text)[2 * k - 1] + Nibbles(text)[2 * k] = bytes[k]
  BY <1>1, <1>2, <1>5
<1>7. [k \in 1..Len(bytes) |-> 16 * Nibbles(text)[2 * k - 1] + Nibbles(text)[2 * k]] = bytes
  BY <1>6
<1> QED
  BY <1>3, <1>4, <1>7 DEF DecodeHex

LEMMA DigitsAreKept ==
  ASSUME NEW text \in Seq(0..15)
  PROVE  Nibbles(text) = text
<1> DEFINE n == Len(text)
<1>1. n \in Nat /\ DOMAIN text = 1..n /\ \A k \in 1..n : text[k] \in 0..15
  BY ElementOfSeq, LenProperties
<1>2. \A k \in 1..n : text[k] # X /\ text[k] # Sep
  BY <1>1 DEF X, Sep
<1>3. PrefixChars(text) = {}
  <2>1. \A i \in 1..(n - 1) : i + 1 \in 1..n
    BY <1>1
  <2>2. Zeros(text) = {}
    BY <1>2, <2>1 DEF Zeros
  <2> QED
    BY <2>2 DEF PrefixChars, Zeros
<1>4. Kept(text) = 1..n
  BY <1>1, <1>2, <1>3 DEF Kept
<1>5. PICK e : e = [k \in 1..n |-> k]
  OBVIOUS
<1> HIDE DEF n
<1>6. Enumerates(e, n, 1..n) /\ 1..n \subseteq Nat
  BY <1>1, <1>5 DEF Enumerates
<1>7. Nibbles(text) = Picked(text, e, n)
  BY <1>1, <1>4, <1>6, CharsAtEnumerated DEF Nibbles, Kept
<1>8. Picked(text, e, n) = [k \in 1..n |-> text[k]]
  BY <1>5 DEF Picked
<1>9. text = [k \in 1..n |-> text[k]]
  BY <1>1
<1> QED
  BY <1>7, <1>8, <1>9

LEMMA HexEncodeConcat ==
  ASSUME NEW a \in Seq(Byte), NEW b \in Seq(Byte)
  PROVE  HexEncode(a \o b) = HexEncode(a) \o HexEncode(b)
<1> DEFINE n == Len(a)
           m == Len(b)
           l == HexEncode(a \o b)
           r == HexEncode(a) \o HexEncode(b)
<1>1. Joined(a, n, b, m, a \o b) /\ a \o b \in Seq(Byte)
  BY ConcatJoins, ConcatProperties
<1>2. /\ HexEncode(a) \in Seq(0..15) /\ Len(HexEncode(a)) = 2 * n
      /\ HexEncode(b) \in Seq(0..15) /\ Len(HexEncode(b)) = 2 * m
  BY HexEncodeDigits
<1>3. Joined(HexEncode(a), 2 * n, HexEncode(b), 2 * m, r) /\ r \in Seq(0..15)
  BY <1>2, ConcatJoins, ConcatProperties
<1>4. l \in Seq(0..15) /\ Len(l) = 2 * (n + m)
  <2>1. Len(a \o b) = n + m
    BY <1>1 DEF Joined
  <2> QED
    BY <1>1, <2>1, HexEncodeDigits
<1>5. ASSUME NEW k \in 1..(n + m)
      PROVE  l[2 * k - 1] = r[2 * k - 1] /\ l[2 * k] = r[2 * k]
  <2>1. l[2 * k - 1] = (a \o b)[k] \div 16 /\ l[2 * k] = (a \o b)[k] % 16
    BY <1>1, HexEncodeDigits DEF Joined
  <2>2. CASE k \in 1..n
    <3>1. (a \o b)[k] = a[k]
      BY <1>1, <2>2 DEF Joined
    <3>2. HexEncode(a)[2 * k - 1] = a[k] \div 16 /\ HexEncode(a)[2 * k] = a[k] % 16
      BY <2>2, HexEncodeDigits
    <3>3. 2 * k - 1 \in 1..(2 * n) /\ 2 * k \in 1..(2 * n)
      BY <1>1, <2>2 DEF Joined
    <3>4. r[2 * k - 1] = HexEncode(a)[2 * k - 1] /\ r[2 * k] = HexEncode(a)[2 * k]
      BY <1>3, <3>3 DEF Joined
    <3> QED
      BY <2>1, <3>1, <3>2, <3>4
  <2>3. CASE k \notin 1..n
    <3>1. PICK j \in 1..m : k = n + j
      <4>1. k - n \in 1..m /\ k = n + (k - n)
        BY <1>1, <2>3 DEF Joined
      <4> QED
        BY <4>1
    <3>2. (a \o b)[k] = b[j]
      BY <1>1, <3>1 DEF Joined
    <3>3. HexEncode(b)[2 * j - 1] = b[j] \div 16 /\ HexEncode(b)[2 * j] = b[j] % 16
      BY HexEncodeDigits
    <3>4. /\ 2 * j - 1 \in 1..(2 * m) /\ 2 * j \in 1..(2 * m)
          /\ 2 * k - 1 = 2 * n + (2 * j - 1) /\ 2 * k = 2 * n + 2 * j
      BY <1>1, <3>1 DEF Joined
    <3>5. r[2 * n + (2 * j - 1)] = HexEncode(b)[2 * j - 1] /\ r[2 * n + 2 * j] = HexEncode(b)[2 * j]
      BY <1>3, <3>4 DEF Joined
    <3> QED
      BY <2>1, <3>2, <3>3, <3>4, <3>5
  <2> QED
    BY <2>2, <2>3
<1>6. ASSUME NEW i \in 1..(2 * (n + m))
      PROVE  l[i] = r[i]
  <2>1. n + m \in Nat
    BY <1>1 DEF Joined
  <2>2. (i + 1) \div 2 \in 1..(n + m) /\ (i = 2 * ((i + 1) \div 2) - 1 \/ i = 2 * ((i + 1) \div 2))
    BY <2>1
  <2> QED
    BY <1>5, <2>2
<1>7. Len(r) = 2 * (n + m)
  BY <1>1, <1>3 DEF Joined
<1> HIDE DEF l, r, n, m
<1>8. l = r
  <2>1. \A s, t \in Seq(0..15) : Len(s) = Len(t) /\ (\A i \in 1..Len(s) : s[i] = t[i]) => s = t
    OBVIOUS
  <2> QED
    BY <1>3, <1>4, <1>6, <1>7, <2>1
<1> QED
  BY <1>8 DEF l, r

(* HexEncode and DecodeHex are inverse to each other: the hex text in which *)
(* the HTTP interface reports bytes is a literal of those bytes.            *)
THEOREM HexRoundTrip ==
  \A bytes \in Seq(Byte) : DecodeHex(HexEncode(bytes)) = Ok(bytes)
<1> SUFFICES ASSUME NEW bytes \in Seq(Byte)
             PROVE  DecodeHex(HexEncode(bytes)) = Ok(bytes)
  OBVIOUS
<1>1. Spells(HexEncode(bytes), bytes)
  BY HexEncodeDigits, DigitsAreKept DEF Spells
<1> QED
  BY <1>1, SpelledDecodes

LEMMA NothingKept ==
  ASSUME NEW text, Kept(text) = {}
  PROVE  Nibbles(text) = <<>>
<1>1. Nibbles(text) = CharsAt(text, {})
  BY DEF Nibbles, Kept
<1>2. PICK e : e = [k \in 1..0 |-> k]
  OBVIOUS
<1>3. Enumerates(e, 0, {})
  BY <1>2 DEF Enumerates
<1>4. CharsAt(text, {}) = Picked(text, e, 0)
  BY <1>3, CharsAtEnumerated
<1> QED
  BY <1>1, <1>4 DEF Picked

LEMMA SeparatorsSpellNothing ==
  Spells(<<Sep>>, <<>>) /\ Spells(<<0, X>>, <<>>)
<1>1. HexEncode(<<>>) = <<>>
  BY DEF HexEncode
<1>2. Kept(<<Sep>>) = {}
  BY DEF Kept
<1>3. Kept(<<0, X>>) = {}
  <2>1. DOMAIN <<0, X>> = {1, 2} /\ Len(<<0, X>>) - 1 = 1
    OBVIOUS
  <2>2. Zeros(<<0, X>>) = {1}
    BY <2>1 DEF Zeros
  <2>3. 1 \in PrefixChars(<<0, X>>) /\ 2 \in PrefixChars(<<0, X>>)
    BY <2>2 DEF PrefixChars, Zeros
  <2> QED
    BY <2>1, <2>3 DEF Kept
<1> QED
  BY <1>1, <1>2, <1>3, NothingKept DEF Spells

(* DecodeHex reads a literal piece by piece: the digits of a text are those *)
(* of its pieces, and texts that spell bytes spell, one after the other,    *)
(* the bytes one after the other, whatever separators or prefixes stand     *)
(* between or inside them.  What a text spells is what is decoded.  Only    *)
(* where a 0 meets an x would a prefix come about that neither piece has.   *)
THEOREM HexPieceByPiece ==
  /\ \A s, t \in Seq(Char) : Separate(s, t) => Nibbles(s \o t) = Nibbles(s) \o Nibbles(t)
  /\ Spells(<<Sep>>, <<>>) /\ Spells(<<0, X>>, <<>>)
  /\ \A bytes \in Seq(Byte) : Spells(HexEncode(bytes), bytes)
  /\ \A s, t \in Seq(Char), a, b \in Seq(Byte) :
       Separate(s, t) /\ Spells(s, a) /\ Spells(t, b)
         => Spells(s \o t, a \o b) /\ DecodeHex(s \o t) = Ok(a \o b)
<1>1. ASSUME NEW bytes \in Seq(Byte)
      PROVE  Spells(HexEncode(bytes), bytes)
  BY HexEncodeDigits, DigitsAreKept DEF Spells
<1>2. ASSUME NEW s \in Seq(Char), NEW t \in Seq(Char), NEW a \in Seq(Byte), NEW b \in Seq(Byte),
             Separate(s, t), Spells(s, a), Spells(t, b)
      PROVE  Spells(s \o t, a \o b) /\ DecodeHex(s \o t) = Ok(a \o b)
  <2>1. Nibbles(s \o t) = Nibbles(s) \o Nibbles(t)
    BY <1>2, NibblesOfConcat
  <2>2. Spells(s \o t, a \o b)
    BY <1>2, <2>1, HexEncodeConcat DEF Spells
  <2>3. a \o b \in Seq(Byte)
    BY ConcatProperties
  <2> QED
    BY <2>2, <2>3, SpelledDecodes
<1> QED
  BY <1>1, <1>2, NibblesOfConcat, SeparatorsSpellNothing

=============================================================================
