----------------------------- MODULE PortProofs ------------------------------
(***************************************************************************)
(* Proofs about Port and PortHistory, for every configuration, any number  *)
(* of connections and reloads, and every bound.                            *)
(*                                                                         *)
(* ControlInv strengthens the types of the threads and of what they share  *)
(* by what each thread must have read at each place; CoherenceInv says     *)
(* what a switch and a reload know of each other at each place of theirs.  *)
(* The bytes in the buffers (DataTypeOK) come out of the recursive         *)
(* function Drain; PortRecordProofs proves them typed.                     *)
(***************************************************************************)
EXTENDS PortHistory, TLAPS

(* The tuples of variables, wherever they occur.  *)
USE DEF config_vars, capture_vars, reader_vars, conn_vars, reload_vars, env_vars, port_vars,
        mutex, outer_vars, Goto

Framings == {F!FromConfig(cfg.framing) : cfg \in Config}

(* What each thread has read by the place it is at. *)
SnapTaken ==
  /\ pc[Reader] \in {"match", "write"} => snap[Reader] \in Scenario
  /\ \A c \in Conn : pc[c] \in {"lock", "write", "store", "describe"} => snap[c] \in Scenario
  /\ pc[Reloader] \in {"compiled", "active"} => snap[Reloader] \in Scenario
  /\ pc[Reloader] # "idle" => new_config \in Config

ControlInv == ControlTypeOK /\ SnapTaken

-----------------------------------------------------------------------------

(* A compiled scenario of a configuration is a scenario, with its name. *)
LEMMA CompiledScenario ==
  ASSUME NEW cfg \in Config, NEW n \in DOMAIN cfg.scenarios
  PROVE  /\ DOMAIN CompilePort(cfg) = DOMAIN cfg.scenarios
         /\ CompilePort(cfg)[n] \in Scenario
         /\ CompilePort(cfg)[n].name = n
  BY DEF CompilePort, Scenario

(* What a reload activates is a scenario of its configuration, and the one *)
(* of the name that was active if the configuration has it.                *)
LEMMA CarriedScenario ==
  ASSUME NEW cfg \in Config, NEW name
  PROVE  /\ Carried(cfg, name) \in Scenario
         /\ Carried(cfg, name) \in {CompilePort(cfg)[n] : n \in DOMAIN CompilePort(cfg)}
         /\ name \in DOMAIN cfg.scenarios => Carried(cfg, name).name = name
<1>1. cfg.initial \in DOMAIN cfg.scenarios
  BY PortAssumption
<1>2. DOMAIN CompilePort(cfg) = DOMAIN cfg.scenarios
  BY DEF CompilePort
<1> QED BY <1>1, <1>2, CompiledScenario DEF Carried

(* A port that has just been spawned. *)
LEMMA ControlInit == Init => ControlInv
<1> SUFFICES ASSUME Init PROVE ControlInv
  OBVIOUS
<1> USE DEF Init
<1>1. InitialConfig \in Config /\ InitialConfig.initial \in DOMAIN InitialConfig.scenarios
  BY PortAssumption
<1>2. active \in Scenario
  BY <1>1, CompiledScenario
<1>3. framing \in Framings
  BY <1>1 DEF Framings
<1>4. Reader \notin Conn /\ Reloader \notin Conn /\ Reader # Reloader
  BY PortAssumption
<1>5. /\ pc[Reader] = "snapshot" /\ pc[Reloader] = "idle"
      /\ \A c \in Conn : pc[c] = "idle"
      /\ pc \in [Thread -> ReaderPlaces \cup ConnPlaces \cup SwapPlaces]
  BY <1>4 DEF Thread, ReaderPlaces, ConnPlaces, SwapPlaces
<1>6. SnapTaken
  BY <1>5 DEF SnapTaken
<1>7. reloads \in 0..MaxReloads
  BY PortAssumption
<1>8. ControlTypeOK
  BY <1>1, <1>2, <1>3, <1>5, <1>7 DEF ControlTypeOK, Framings, ReaderPlaces, ConnPlaces, SwapPlaces
<1> QED BY <1>6, <1>8 DEF ControlInv

(* Every step of the reader keeps ControlInv. *)
LEMMA ControlReader == ControlInv /\ ReaderStep => ControlInv'
<1> SUFFICES ASSUME ControlInv, ReaderStep PROVE ControlInv'
  OBVIOUS
<1> USE DEF ControlInv, ControlTypeOK, SnapTaken
<1>1. /\ Reader \in Thread /\ Reloader \in Thread /\ Conn \subseteq Thread
      /\ Reader \notin Conn /\ Reloader \notin Conn /\ Reader # Reloader
      /\ None \notin Thread
  BY PortAssumption DEF Thread
<1> USE <1>1
<1>a. CASE Snapshot
  BY <1>a DEF Snapshot, ReaderPlaces
<1>b. CASE PollReady
  BY <1>b DEF PollReady, ReaderPlaces
<1>c. CASE PollTimeout
  BY <1>c DEF PollTimeout, AfterFrames, ReaderPlaces
<1>d. CASE \E n \in 1..Len(input) : Read(n)
  BY <1>d DEF Read, ReaderPlaces
<1>e. CASE Eof
  BY <1>e DEF Eof, ReaderPlaces
<1>f. CASE AppendRaw
  BY <1>f DEF AppendRaw, AfterFrames, ReaderPlaces
<1>g. CASE TakeFrame
  BY <1>g DEF TakeFrame, ReaderPlaces
<1>h. CASE MatchFrame
  BY <1>h DEF MatchFrame, Lock, ReaderPlaces
<1>i. CASE WriteByte(Reader)
  BY <1>i DEF WriteByte
<1>j. CASE FrameAnswered
  BY <1>j DEF FrameAnswered, Unlock, ReaderPlaces
<1>k. CASE PushFrame
  BY <1>k DEF PushFrame, AfterFrames, ReaderPlaces
<1> QED
  BY <1>a, <1>b, <1>c, <1>d, <1>e, <1>f, <1>g, <1>h, <1>i, <1>j, <1>k DEF ReaderStep

(* Every step of a connection keeps ControlInv. *)
LEMMA ControlConn ==
  ASSUME NEW c \in Conn
  PROVE  ControlInv /\ (ConnStep(c) \/ \E r \in Requests : Begin(c, r)) => ControlInv'
<1> SUFFICES ASSUME ControlInv, ConnStep(c) \/ \E r \in Requests : Begin(c, r)
             PROVE  ControlInv'
  OBVIOUS
<1> USE DEF ControlInv, ControlTypeOK, SnapTaken, ConnPlaces
<1>1. /\ Reader \in Thread /\ Reloader \in Thread /\ Conn \subseteq Thread
      /\ Reader \notin Conn /\ Reloader \notin Conn /\ Reader # Reloader
      /\ None \notin Thread
  BY PortAssumption DEF Thread
<1> USE <1>1
<1>a. CASE \E r \in Requests : Begin(c, r)
  BY <1>a DEF Begin
<1>b. CASE TriggerSnapshot(c)
  BY <1>b DEF TriggerSnapshot
<1>c. CASE TriggerLock(c)
  BY <1>c DEF TriggerLock, Lock
<1>d. CASE TriggerUnknown(c)
  BY <1>d DEF TriggerUnknown, Respond
<1>e. CASE WriteByte(c)
  BY <1>e DEF WriteByte
<1>f. CASE TriggerDone(c)
  <2>1. pc' = [pc EXCEPT ![c] = "done"] /\ writer' = None
    BY <1>f DEF TriggerDone, Unlock, Respond
  <2>2. UNCHANGED <<port_vars, snap, req, reader_vars, outer_vars, wire>>
    BY <1>f DEF TriggerDone
  <2> QED BY <2>1, <2>2
<1>g. CASE SwitchLookup(c)
  <2>1. req[c].name \in DOMAIN compiled => compiled[req[c].name] \in Scenario
    BY CompiledScenario DEF CompilePort
  <2>2. CASE req[c].name \in DOMAIN compiled
    <3>1. /\ pc' = [pc EXCEPT ![c] = "store"]
          /\ snap' = [snap EXCEPT ![c] = compiled[req[c].name]]
      BY <1>g, <2>2 DEF SwitchLookup
    <3>2. UNCHANGED <<port_vars, mutex, req, reader_vars, outer_vars, wire>>
      BY <1>g DEF SwitchLookup
    <3> QED BY <2>1, <2>2, <3>1, <3>2
  <2>3. CASE req[c].name \notin DOMAIN compiled
    <3>1. pc' = [pc EXCEPT ![c] = "done"] /\ UNCHANGED snap
      BY <1>g, <2>3 DEF SwitchLookup, Respond
    <3>2. UNCHANGED <<port_vars, mutex, req, reader_vars, outer_vars, wire>>
      BY <1>g DEF SwitchLookup
    <3> QED BY <3>1, <3>2
  <2> QED BY <2>2, <2>3
<1>h. CASE SwitchStore(c)
  BY <1>h DEF SwitchStore, Respond
<1>i. CASE DescribeActive(c)
  BY <1>i DEF DescribeActive
<1>j. CASE DescribeCompiled(c)
  BY <1>j DEF DescribeCompiled, Respond
<1>k. CASE ReadCapture(c)
  BY <1>k DEF ReadCapture, Respond
<1>l. CASE ClearCapture(c)
  BY <1>l DEF ClearCapture, Respond
<1> QED
  BY <1>a, <1>b, <1>c, <1>d, <1>e, <1>f, <1>g, <1>h, <1>i, <1>j, <1>k, <1>l DEF ConnStep

(* Every step of a reload keeps ControlInv. *)
LEMMA ControlSwap ==
  ControlInv /\ (SwapStep \/ \E cfg \in Config : SwapBegin(cfg)) => ControlInv'
<1> SUFFICES ASSUME ControlInv, SwapStep \/ \E cfg \in Config : SwapBegin(cfg)
             PROVE  ControlInv'
  OBVIOUS
<1> USE DEF ControlInv, ControlTypeOK, SnapTaken, SwapPlaces
<1>1. /\ Reader \in Thread /\ Reloader \in Thread /\ Conn \subseteq Thread
      /\ Reader \notin Conn /\ Reloader \notin Conn /\ Reader # Reloader
      /\ MaxReloads \in Nat
  BY PortAssumption DEF Thread
<1> USE <1>1
<1>a. CASE \E cfg \in Config : SwapBegin(cfg)
  <2>1. PICK cfg \in Config : SwapBegin(cfg)
    BY <1>a
  <2>2. Carried(cfg, active.name) \in Scenario
    BY CarriedScenario
  <2> QED BY <2>1, <2>2 DEF SwapBegin
<1>b. CASE SwapCompiled
  BY <1>b DEF SwapCompiled
<1>c. CASE SwapActive
  BY <1>c DEF SwapActive
<1>d. CASE SwapFraming
  BY <1>d DEF SwapFraming
<1> QED
  BY <1>a, <1>b, <1>c, <1>d DEF SwapStep

(* ControlInv is inductive: the steps of the threads, the client, the wire. *)
LEMMA ControlNext == ControlInv /\ [Next]_vars => ControlInv'
<1> SUFFICES ASSUME ControlInv, [Next]_vars PROVE ControlInv'
  OBVIOUS
<1>1. CASE \E b \in Byte : ClientSend(b)
  BY <1>1 DEF ClientSend, ControlInv, ControlTypeOK, SnapTaken
<1>2. CASE ClientRead
  BY <1>2 DEF ClientRead, ControlInv, ControlTypeOK, SnapTaken
<1>3. CASE Hangup
  BY <1>3 DEF Hangup, ControlInv, ControlTypeOK, SnapTaken
<1>4. CASE UNCHANGED vars
  BY <1>4 DEF vars, ControlInv, ControlTypeOK, SnapTaken
<1> QED
  BY <1>1, <1>2, <1>3, <1>4, ControlReader, ControlConn, ControlSwap DEF Next

(* The threads are always at one of their places and hold what they read   *)
(* there, and the scenario and framing in use come from a configuration.   *)
THEOREM ControlTypeCorrect == Spec => []ControlTypeOK
<1>1. ControlInv => ControlTypeOK
  BY DEF ControlInv
<1> QED
  BY <1>1, ControlInit, ControlNext, PTL DEF Spec

-----------------------------------------------------------------------------

(* Every step keeps the writer Mutex with the thread inside write_all. *)
LEMMA WriterNext == ControlInv /\ WriterHeld /\ [Next]_vars => WriterHeld'
<1> SUFFICES ASSUME ControlInv, WriterHeld, [Next]_vars PROVE WriterHeld'
  OBVIOUS
<1> USE DEF WriterHeld, ControlInv, ControlTypeOK
<1>1. /\ Reader \in Thread /\ Reloader \in Thread /\ Conn \subseteq Thread
      /\ Reader \notin Conn /\ Reloader \notin Conn /\ Reader # Reloader
      /\ None \notin Thread
  BY PortAssumption DEF Thread
<1> USE <1>1
(* A step that leaves the Mutex alone and moves one thread neither into    *)
(* nor out of write_all.                                                   *)
<1>2. ASSUME UNCHANGED mutex, NEW t \in Thread, NEW where, where # "write", pc[t] # "write",
             pc' = [pc EXCEPT ![t] = where]
      PROVE  WriterHeld'
  BY <1>2
<1>3. ASSUME UNCHANGED <<mutex, pc>>
      PROVE  WriterHeld'
  BY <1>3
<1>4. ASSUME NEW t \in Thread, NEW bytes, Lock(t, bytes), pc' = [pc EXCEPT ![t] = "write"]
      PROVE  WriterHeld'
  BY <1>4 DEF Lock
<1>5. ASSUME NEW t \in Thread, pc[t] = "write", Unlock, NEW where, where # "write",
             pc' = [pc EXCEPT ![t] = where]
      PROVE  WriterHeld'
  BY <1>5 DEF Unlock
<1>6. ASSUME NEW t \in Thread, WriteByte(t)
      PROVE  WriterHeld'
  BY <1>6 DEF WriteByte
<1>7. ASSUME ReaderStep
      PROVE  WriterHeld'
  <2>a. CASE Snapshot
    BY <2>a, <1>2 DEF Snapshot
  <2>b. CASE PollReady
    BY <2>b, <1>2 DEF PollReady
  <2>c. CASE PollTimeout
    BY <2>c, <1>2 DEF PollTimeout, AfterFrames
  <2>d. CASE \E n \in 1..Len(input) : Read(n)
    BY <2>d, <1>2 DEF Read
  <2>e. CASE Eof
    BY <2>e, <1>2 DEF Eof
  <2>f. CASE AppendRaw
    BY <2>f, <1>2 DEF AppendRaw, AfterFrames
  <2>g. CASE TakeFrame
    BY <2>g, <1>2 DEF TakeFrame
  <2>h. CASE MatchFrame
    BY <2>h, <1>2, <1>4 DEF MatchFrame
  <2>i. CASE WriteByte(Reader)
    BY <2>i, <1>6
  <2>j. CASE FrameAnswered
    BY <2>j, <1>5 DEF FrameAnswered, Written, WriteFailed
  <2>k. CASE PushFrame
    BY <2>k, <1>2 DEF PushFrame, AfterFrames
  <2> QED
    BY <1>7, <2>a, <2>b, <2>c, <2>d, <2>e, <2>f, <2>g, <2>h, <2>i, <2>j, <2>k DEF ReaderStep
<1>8. ASSUME NEW c \in Conn, ConnStep(c) \/ \E r \in Requests : Begin(c, r)
      PROVE  WriterHeld'
  <2>a. CASE \E r \in Requests : Begin(c, r)
    BY <2>a, <1>2 DEF Begin
  <2>b. CASE TriggerSnapshot(c)
    BY <2>b, <1>2 DEF TriggerSnapshot
  <2>c. CASE TriggerLock(c)
    BY <2>c, <1>4 DEF TriggerLock
  <2>d. CASE TriggerUnknown(c)
    BY <2>d, <1>2 DEF TriggerUnknown, Respond
  <2>e. CASE WriteByte(c)
    BY <2>e, <1>6
  <2>f. CASE TriggerDone(c)
    BY <2>f, <1>5 DEF TriggerDone, Written, WriteFailed, Respond
  <2>g. CASE SwitchLookup(c)
    BY <2>g, <1>2 DEF SwitchLookup, Respond
  <2>h. CASE SwitchStore(c)
    BY <2>h, <1>2 DEF SwitchStore, Respond
  <2>i. CASE DescribeActive(c)
    BY <2>i, <1>2 DEF DescribeActive
  <2>j. CASE DescribeCompiled(c)
    BY <2>j, <1>2 DEF DescribeCompiled, Respond
  <2>k. CASE ReadCapture(c)
    BY <2>k, <1>2 DEF ReadCapture, Respond
  <2>l. CASE ClearCapture(c)
    BY <2>l, <1>2 DEF ClearCapture, Respond
  <2> QED
    BY <1>8, <2>a, <2>b, <2>c, <2>d, <2>e, <2>f, <2>g, <2>h, <2>i, <2>j, <2>k, <2>l DEF ConnStep
<1>9. ASSUME SwapStep \/ \E cfg \in Config : SwapBegin(cfg)
      PROVE  WriterHeld'
  BY <1>9, <1>2 DEF SwapStep, SwapBegin, SwapCompiled, SwapActive, SwapFraming
<1>10. CASE ClientRead \/ Hangup \/ \E b \in Byte : ClientSend(b)
  BY <1>10, <1>3 DEF ClientRead, Hangup, ClientSend
<1>11. CASE UNCHANGED vars
  BY <1>11, <1>3 DEF vars
<1> QED
  BY <1>7, <1>8, <1>9, <1>10, <1>11 DEF Next

(* The writer Mutex is held by exactly the thread inside write_all.        *)
THEOREM WriterAlwaysHeld == Spec => []WriterHeld
<1>1. Init => WriterHeld
  BY PortAssumption DEF Init, WriterHeld, Thread
<1> QED
  BY <1>1, ControlInit, ControlNext, WriterNext, PTL DEF Spec

(* At most one thread writes at a time. *)
THEOREM MutualExclusion ==
  Spec => [](\A s, t \in Thread : pc[s] = "write" /\ pc[t] = "write" => s = t)
<1>1. WriterHeld => \A s, t \in Thread : pc[s] = "write" /\ pc[t] = "write" => s = t
  BY DEF WriterHeld
<1> QED
  BY <1>1, WriterAlwaysHeld, PTL

-----------------------------------------------------------------------------
(* The scenarios of the configuration in use. *)
Usable == {compiled[n] : n \in DOMAIN compiled}

(* The scenarios of the configuration being loaded. *)
Loaded == {CompilePort(new_config)[n] : n \in DOMAIN CompilePort(new_config)}

(* As long as no switch and no reload overlapped: outside a reload's two   *)
(* writes the active scenario is usable; a switch about to store and a     *)
(* reload about to activate hold a usable one; and what a reload is about  *)
(* to activate is what was switched to, if its configuration has that.     *)
Coherence ==
  /\ pc[Reloader] # "active" => active \in Usable
  /\ \A c \in Conn : pc[c] = "store" => snap[c] \in Usable
  /\ pc[Reloader] = "compiled" => snap[Reloader] \in Loaded
  /\ pc[Reloader] = "active" => snap[Reloader] \in Usable
  /\ switched # None /\ pc[Reloader] \in {"idle", "framing"} => active.name = switched
  /\ switched # None /\ pc[Reloader] \in {"compiled", "active"} => snap[Reloader].name = switched

CoherenceInv == ~overlapped => Coherence

(* A step that has nothing to do with configurations. *)
QuietStep ==
  /\ UNCHANGED <<compiled, active, new_config>>
  /\ pc'[Reloader] = pc[Reloader] /\ snap'[Reloader] = snap[Reloader]
  /\ \A c \in Conn : pc'[c] = "store" => pc[c] = "store" /\ snap'[c] = snap[c]
  /\ \A c \in Conn : ~Moved(c, "store", "done")

(* A quiet step leaves coherence as it was. *)
LEMMA QuietCoherence == CoherenceInv /\ QuietStep /\ ObserveScenario => CoherenceInv'
<1> SUFFICES ASSUME CoherenceInv, QuietStep, ObserveScenario, ~overlapped'
             PROVE  Coherence'
  BY DEF CoherenceInv
<1>1. ~overlapped /\ Coherence
  BY DEF ObserveScenario, CoherenceInv
<1>2. switched' = switched
  BY DEF ObserveScenario, QuietStep, Moved
<1> QED
  BY <1>1, <1>2 DEF Coherence, QuietStep, Usable, Loaded

(* The reader's steps touch neither a configuration nor the active scenario. *)
LEMMA QuietReader == ControlInv /\ ReaderStep => QuietStep
<1> SUFFICES ASSUME ControlInv, ReaderStep PROVE QuietStep
  OBVIOUS
<1> USE DEF ControlInv, ControlTypeOK
<1>1. /\ Reader \in Thread /\ Reloader \in Thread /\ Conn \subseteq Thread
      /\ Reader \notin Conn /\ Reloader \notin Conn /\ Reader # Reloader
  BY PortAssumption DEF Thread
(* The reader moves only itself and changes only its own snapshot. *)
<1>2. /\ \A t \in Thread \ {Reader} : pc'[t] = pc[t] /\ snap'[t] = snap[t]
      /\ UNCHANGED <<compiled, active, new_config>>
  <2>a. CASE Snapshot
    BY <2>a DEF Snapshot
  <2>b. CASE PollReady
    BY <2>b DEF PollReady
  <2>c. CASE PollTimeout
    BY <2>c DEF PollTimeout
  <2>d. CASE \E n \in 1..Len(input) : Read(n)
    BY <2>d DEF Read
  <2>e. CASE Eof
    BY <2>e DEF Eof
  <2>f. CASE AppendRaw
    BY <2>f DEF AppendRaw
  <2>g. CASE TakeFrame
    BY <2>g DEF TakeFrame
  <2>h. CASE MatchFrame
    BY <2>h DEF MatchFrame
  <2>i. CASE WriteByte(Reader)
    BY <2>i DEF WriteByte
  <2>j. CASE FrameAnswered
    BY <2>j DEF FrameAnswered
  <2>k. CASE PushFrame
    BY <2>k DEF PushFrame
  <2> QED
    BY <2>a, <2>b, <2>c, <2>d, <2>e, <2>f, <2>g, <2>h, <2>i, <2>j, <2>k DEF ReaderStep
<1> QED
  BY <1>1, <1>2 DEF QuietStep, Moved

(* Of a connection's steps only those of a switch concern configurations. *)
LEMMA QuietConn ==
  ASSUME NEW c \in Conn
  PROVE  ControlInv /\ (ConnStep(c) \/ \E r \in Requests : Begin(c, r))
           => QuietStep \/ SwitchLookup(c) \/ SwitchStore(c)
<1> SUFFICES ASSUME ControlInv, ConnStep(c) \/ \E r \in Requests : Begin(c, r),
                    ~SwitchLookup(c), ~SwitchStore(c)
             PROVE  QuietStep
  OBVIOUS
<1> USE DEF ControlInv, ControlTypeOK
<1>1. /\ Reloader \in Thread /\ Conn \subseteq Thread /\ Reloader \notin Conn
  BY PortAssumption DEF Thread
<1>2. /\ \A t \in Thread \ {c} : pc'[t] = pc[t] /\ snap'[t] = snap[t]
      /\ pc[c] # "store" /\ pc'[c] # "store"
      /\ UNCHANGED <<compiled, active, new_config>>
  <2>a. CASE \E r \in Requests : Begin(c, r)
    BY <1>1, <2>a DEF Begin
  <2>b. CASE TriggerSnapshot(c)
    BY <1>1, <2>b DEF TriggerSnapshot
  <2>c. CASE TriggerLock(c)
    BY <1>1, <2>c DEF TriggerLock
  <2>d. CASE TriggerUnknown(c)
    BY <1>1, <2>d DEF TriggerUnknown, Respond
  <2>e. CASE WriteByte(c)
    BY <1>1, <2>e DEF WriteByte
  <2>f. CASE TriggerDone(c)
    <3>1. pc[c] = "write" /\ pc' = [pc EXCEPT ![c] = "done"]
      BY <2>f DEF TriggerDone, Written, WriteFailed, Respond
    <3>2. UNCHANGED <<port_vars, snap, outer_vars>>
      BY <2>f DEF TriggerDone
    <3> QED BY <1>1, <3>1, <3>2
  <2>i. CASE DescribeActive(c)
    BY <1>1, <2>i DEF DescribeActive
  <2>j. CASE DescribeCompiled(c)
    BY <1>1, <2>j DEF DescribeCompiled, Respond
  <2>k. CASE ReadCapture(c)
    BY <1>1, <2>k DEF ReadCapture, Respond
  <2>l. CASE ClearCapture(c)
    BY <1>1, <2>l DEF ClearCapture, Respond
  <2> QED
    BY <2>a, <2>b, <2>c, <2>d, <2>e, <2>f, <2>i, <2>j, <2>k, <2>l DEF ConnStep
<1> QED
  BY <1>1, <1>2 DEF QuietStep, Moved

(* A switch holds a usable scenario, and stores it between reloads. *)
LEMMA SwitchCoherence ==
  ASSUME NEW c \in Conn
  PROVE  ControlInv /\ CoherenceInv /\ (SwitchLookup(c) \/ SwitchStore(c)) /\ ObserveScenario
           => CoherenceInv'
<1> SUFFICES ASSUME ControlInv, CoherenceInv, SwitchLookup(c) \/ SwitchStore(c),
                    ObserveScenario, ~overlapped'
             PROVE  Coherence'
  BY DEF CoherenceInv
<1>1. ~overlapped /\ Coherence
  BY DEF ObserveScenario, CoherenceInv
<1>2. /\ Reloader \in Thread /\ Conn \subseteq Thread /\ Reloader \notin Conn
      /\ pc \in [Thread -> ReaderPlaces \cup ConnPlaces \cup SwapPlaces]
      /\ snap \in [Thread -> Scenario \cup {None}]
      /\ pc[Reloader] \in SwapPlaces
  BY PortAssumption DEF Thread, ControlInv, ControlTypeOK
<1>3. CASE SwitchLookup(c)
  <2>1. /\ pc[c] = "begun" /\ pc'[c] \in {"store", "done"}
        /\ \A t \in Thread \ {c} : pc'[t] = pc[t] /\ snap'[t] = snap[t]
        /\ pc'[c] = "store" => snap'[c] \in Usable
    BY <1>2, <1>3 DEF SwitchLookup, Respond, Usable
  <2>2. UNCHANGED <<compiled, active, new_config>>
    BY <1>3 DEF SwitchLookup
  <2>3. switched' = switched
    BY <1>2, <2>1 DEF ObserveScenario, Moved
  <2> QED
    BY <1>1, <1>2, <2>1, <2>2, <2>3 DEF Coherence, Usable, Loaded
<1>4. CASE SwitchStore(c)
  <2>1. /\ pc[c] = "store" /\ pc' = [pc EXCEPT ![c] = "done"]
        /\ active' = snap[c] /\ UNCHANGED <<snap, compiled, new_config>>
    BY <1>4 DEF SwitchStore, Respond
  <2>2. Moved(c, "store", "done")
    BY <1>2, <2>1 DEF Moved
  <2>3. pc[Reloader] \in {"idle", "framing"} /\ switched' = active'.name
    BY <1>2, <2>2 DEF ObserveScenario, SwapPlaces
  <2>4. active' \in Usable
    BY <1>1, <2>1 DEF Coherence
  <2> QED
    BY <1>1, <1>2, <2>1, <2>3, <2>4 DEF Coherence, Usable, Loaded
<1> QED
  BY <1>3, <1>4

(* A reload hands the active scenario on by its name. *)
LEMMA SwapCoherence ==
  ControlInv /\ CoherenceInv /\ (SwapStep \/ \E cfg \in Config : SwapBegin(cfg)) /\ ObserveScenario
    => CoherenceInv'
<1> SUFFICES ASSUME ControlInv, CoherenceInv, SwapStep \/ \E cfg \in Config : SwapBegin(cfg),
                    ObserveScenario, ~overlapped'
             PROVE  Coherence'
  BY DEF CoherenceInv
<1>1. ~overlapped /\ Coherence
  BY DEF ObserveScenario, CoherenceInv
<1>2. /\ Reloader \in Thread /\ Conn \subseteq Thread /\ Reloader \notin Conn
      /\ pc \in [Thread -> ReaderPlaces \cup ConnPlaces \cup SwapPlaces]
      /\ snap \in [Thread -> Scenario \cup {None}]
  BY PortAssumption DEF Thread, ControlInv, ControlTypeOK
<1>a. CASE \E cfg \in Config : SwapBegin(cfg)
  <2>1. PICK cfg \in Config : SwapBegin(cfg)
    BY <1>a
  <2>2. /\ pc[Reloader] = "idle" /\ pc' = [pc EXCEPT ![Reloader] = "compiled"]
        /\ new_config' = cfg /\ UNCHANGED <<compiled, active>>
        /\ snap' = [snap EXCEPT ![Reloader] = Carried(cfg, active.name)]
    BY <2>1 DEF SwapBegin
  <2>3. /\ Carried(cfg, active.name) \in {CompilePort(cfg)[n] : n \in DOMAIN CompilePort(cfg)}
        /\ active.name \in DOMAIN cfg.scenarios => Carried(cfg, active.name).name = active.name
    BY CarriedScenario
  <2>4. switched' = IF switched \notin DOMAIN cfg.scenarios THEN None ELSE switched
    BY <1>2, <2>2 DEF ObserveScenario, Moved
  <2>5. switched # None => active.name = switched
    BY <1>1, <2>2 DEF Coherence
  <2> QED
    BY <1>1, <1>2, <2>2, <2>3, <2>4, <2>5 DEF Coherence, Usable, Loaded
<1>b. CASE SwapCompiled
  <2>1. /\ pc[Reloader] = "compiled" /\ pc' = [pc EXCEPT ![Reloader] = "active"]
        /\ compiled' = CompilePort(new_config) /\ UNCHANGED <<active, snap, new_config>>
    BY <1>b DEF SwapCompiled
  <2>2. switched' = switched /\ ~Storing
    BY <1>2, <2>1 DEF ObserveScenario, Moved
  <2> QED
    BY <1>1, <1>2, <2>1, <2>2 DEF Coherence, Usable, Loaded, Storing
<1>c. CASE SwapActive
  <2>1. /\ pc[Reloader] = "active" /\ pc' = [pc EXCEPT ![Reloader] = "framing"]
        /\ active' = snap[Reloader] /\ UNCHANGED <<compiled, snap, new_config>>
    BY <1>c DEF SwapActive
  <2>2. switched' = switched
    BY <1>2, <2>1 DEF ObserveScenario, Moved
  <2> QED
    BY <1>1, <1>2, <2>1, <2>2 DEF Coherence, Usable, Loaded
<1>d. CASE SwapFraming
  <2>1. /\ pc[Reloader] = "framing" /\ pc' = [pc EXCEPT ![Reloader] = "idle"]
        /\ UNCHANGED <<compiled, active, snap, new_config>>
    BY <1>d DEF SwapFraming
  <2>2. switched' = switched
    BY <1>2, <2>1 DEF ObserveScenario, Moved
  <2> QED
    BY <1>1, <1>2, <2>1, <2>2 DEF Coherence, Usable, Loaded
<1> QED
  BY <1>a, <1>b, <1>c, <1>d DEF SwapStep

(* Coherence is inductive over the steps of the port and what is observed. *)
LEMMA CoherenceNext == ControlInv /\ CoherenceInv /\ [HNext]_hvars => CoherenceInv'
<1> SUFFICES ASSUME ControlInv, CoherenceInv, [HNext]_hvars PROVE CoherenceInv'
  OBVIOUS
<1>1. CASE UNCHANGED hvars
  BY <1>1 DEF hvars, vars, history, CoherenceInv, Coherence, Usable, Loaded
<1>2. CASE HNext
  <2>1. Next /\ ObserveScenario
    BY <1>2 DEF HNext
  <2>2. CASE ClientRead \/ Hangup \/ \E b \in Byte : ClientSend(b)
    <3>1. QuietStep
      BY <2>2 DEF ClientRead, Hangup, ClientSend, QuietStep, Moved
    <3> QED BY <2>1, <3>1, QuietCoherence
  <2>3. CASE ReaderStep
    BY <2>1, <2>3, QuietReader, QuietCoherence
  <2>4. ASSUME NEW c \in Conn, ConnStep(c) \/ \E r \in Requests : Begin(c, r)
        PROVE  CoherenceInv'
    BY <2>1, <2>4, QuietConn, QuietCoherence, SwitchCoherence
  <2>5. CASE SwapStep \/ \E cfg \in Config : SwapBegin(cfg)
    BY <2>1, <2>5, SwapCoherence
  <2> QED
    BY <2>1, <2>2, <2>3, <2>4, <2>5 DEF Next
<1> QED
  BY <1>1, <1>2

(* Unless a switch and a reload overlapped, the active scenario belongs to *)
(* the configuration in use and a switch survives every reload that keeps  *)
(* its scenario.                                                           *)
THEOREM AlwaysCoherent == HSpec => []CoherentUnlessOverlapped
<1>1. HInit => ControlInv /\ CoherenceInv
  <2>1. HInit => ControlInv
    BY ControlInit DEF HInit
  <2>2. HInit => Coherence
    BY PortAssumption DEF HInit, Init, Coherence, Usable, Thread, CompilePort
  <2> QED BY <2>1, <2>2 DEF CoherenceInv
<1>2. [HNext]_hvars => [Next]_vars
  BY DEF HNext, hvars
<1>3. ControlInv /\ CoherenceInv => CoherentUnlessOverlapped
  BY DEF CoherenceInv, Coherence, CoherentUnlessOverlapped, ActiveIsCompiled,
         SwitchSurvivesReload, Usable
<1> QED
  BY <1>1, <1>2, <1>3, ControlNext, CoherenceNext, PTL DEF HSpec

-----------------------------------------------------------------------------
(* Late framings and late scenarios. *)

(* Once a chunk has been cut by an old framing, the reader has the new one *)
(* from the top of its loop to the cut of the next chunk.                  *)
StaleInv ==
  /\ stale \in 0..1
  /\ stale = 1 /\ pc[Reader] \in {"poll", "read", "append"} => spec = framing

(* Once a frame has been recorded for an old scenario, the reader has the  *)
(* active one for every frame in hand.                                     *)
OutdatedInv ==
  /\ outdated \in 0..1
  /\ outdated = 1 /\ pc[Reader] \in {"match", "write", "push"} => snap[Reader] = active

(* A describe holds a scenario of the configuration in use, and every      *)
(* other request is where only its kind goes.                              *)
DescribeOf(c) ==
  /\ pc[c] \in {"lock", "write"} => req[c].op = "trigger"
  /\ pc[c] = "store" => req[c].op = "switch"
  /\ pc[c] = "describe" /\ c \notin torn /\ ~overlapped => snap[c].name \in DOMAIN compiled
  /\ pc[c] = "done" /\ req[c].op = "describe" /\ c \notin torn /\ ~overlapped
       => resp[c].body.active_scenario \in resp[c].body.scenarios

DescribeInv == DOMAIN resp = Conn /\ \A c \in Conn : DescribeOf(c)

-----------------------------------------------------------------------------
(* Who leaves what alone. *)

(* The reader moves only itself, changes only its own snapshot, and leaves *)
(* the configuration of the port alone.                                    *)
LEMMA ReaderAlone ==
  ControlInv /\ ReaderStep =>
    /\ \A t \in Thread \ {Reader} : pc'[t] = pc[t] /\ snap'[t] = snap[t]
    /\ UNCHANGED <<config_vars, conn_vars, reload_vars>>
<1> SUFFICES ASSUME ControlInv, ReaderStep
             PROVE  /\ \A t \in Thread \ {Reader} : pc'[t] = pc[t] /\ snap'[t] = snap[t]
                    /\ UNCHANGED <<config_vars, conn_vars, reload_vars>>
  OBVIOUS
<1> USE DEF ControlInv, ControlTypeOK
<1>1. Reader \in Thread
  BY DEF Thread
<1>a. CASE Snapshot
  BY <1>a DEF Snapshot
<1>b. CASE PollReady
  BY <1>b DEF PollReady
<1>c. CASE PollTimeout
  BY <1>c DEF PollTimeout
<1>d. CASE \E n \in 1..Len(input) : Read(n)
  BY <1>d DEF Read
<1>e. CASE Eof
  BY <1>e DEF Eof
<1>f. CASE AppendRaw
  BY <1>f DEF AppendRaw
<1>g. CASE TakeFrame
  BY <1>g DEF TakeFrame
<1>h. CASE MatchFrame
  BY <1>h DEF MatchFrame
<1>i. CASE WriteByte(Reader)
  BY <1>i DEF WriteByte
<1>j. CASE FrameAnswered
  BY <1>j DEF FrameAnswered
<1>k. CASE PushFrame
  BY <1>k DEF PushFrame
<1> QED
  BY <1>a, <1>b, <1>c, <1>d, <1>e, <1>f, <1>g, <1>h, <1>i, <1>j, <1>k DEF ReaderStep

(* A connection moves only itself and leaves the reader's variables and    *)
(* all of the configuration but the active scenario alone.                 *)
LEMMA ConnAlone ==
  ASSUME NEW c \in Conn
  PROVE  ControlInv /\ (ConnStep(c) \/ \E r \in Requests : Begin(c, r)) =>
           /\ \A t \in Thread \ {c} : pc'[t] = pc[t] /\ snap'[t] = snap[t]
           /\ \A d \in Conn \ {c} : req'[d] = req[d]
           /\ UNCHANGED <<reader_vars, compiled, framing, reload_vars>>
<1> SUFFICES ASSUME ControlInv, ConnStep(c) \/ \E r \in Requests : Begin(c, r)
             PROVE  /\ \A t \in Thread \ {c} : pc'[t] = pc[t] /\ snap'[t] = snap[t]
                    /\ \A d \in Conn \ {c} : req'[d] = req[d]
                    /\ UNCHANGED <<reader_vars, compiled, framing, reload_vars>>
  OBVIOUS
<1> USE DEF ControlInv, ControlTypeOK
<1>1. Conn \subseteq Thread
  BY DEF Thread
<1>a. CASE \E r \in Requests : Begin(c, r)
  BY <1>1, <1>a DEF Begin
<1>b. CASE TriggerSnapshot(c)
  BY <1>1, <1>b DEF TriggerSnapshot
<1>c. CASE TriggerLock(c)
  BY <1>1, <1>c DEF TriggerLock
<1>d. CASE TriggerUnknown(c)
  BY <1>1, <1>d DEF TriggerUnknown, Respond
<1>e. CASE WriteByte(c)
  BY <1>1, <1>e DEF WriteByte
<1>f. CASE TriggerDone(c)
  BY <1>1, <1>f DEF TriggerDone, Respond
<1>g. CASE SwitchLookup(c)
  BY <1>1, <1>g DEF SwitchLookup, Respond
<1>h. CASE SwitchStore(c)
  BY <1>1, <1>h DEF SwitchStore, Respond
<1>i. CASE DescribeActive(c)
  BY <1>1, <1>i DEF DescribeActive
<1>j. CASE DescribeCompiled(c)
  BY <1>1, <1>j DEF DescribeCompiled, Respond
<1>k. CASE ReadCapture(c)
  BY <1>1, <1>k DEF ReadCapture, Respond
<1>l. CASE ClearCapture(c)
  BY <1>1, <1>l DEF ClearCapture, Respond
<1> QED
  BY <1>a, <1>b, <1>c, <1>d, <1>e, <1>f, <1>g, <1>h, <1>i, <1>j, <1>k, <1>l DEF ConnStep

(* A reload moves only itself and leaves the connections, the reader's     *)
(* variables, the Mutex and the line alone.                                *)
LEMMA SwapAlone ==
  ControlInv /\ (SwapStep \/ \E cfg \in Config : SwapBegin(cfg)) =>
    /\ \A t \in Thread \ {Reloader} : pc'[t] = pc[t] /\ snap'[t] = snap[t]
    /\ UNCHANGED <<reader_vars, conn_vars, mutex, wire>>
    /\ framing' # framing => Moved(Reloader, "framing", "idle")
    /\ compiled' # compiled => Moved(Reloader, "compiled", "active")
<1> SUFFICES ASSUME ControlInv, SwapStep \/ \E cfg \in Config : SwapBegin(cfg)
             PROVE  /\ \A t \in Thread \ {Reloader} : pc'[t] = pc[t] /\ snap'[t] = snap[t]
                    /\ UNCHANGED <<reader_vars, conn_vars, mutex, wire>>
                    /\ framing' # framing => Moved(Reloader, "framing", "idle")
                    /\ compiled' # compiled => Moved(Reloader, "compiled", "active")
  OBVIOUS
<1> USE DEF ControlInv, ControlTypeOK, Moved
<1>1. Reloader \in Thread
  BY DEF Thread
<1>a. CASE \E cfg \in Config : SwapBegin(cfg)
  BY <1>1, <1>a DEF SwapBegin
<1>b. CASE SwapCompiled
  BY <1>1, <1>b DEF SwapCompiled
<1>c. CASE SwapActive
  BY <1>1, <1>c DEF SwapActive
<1>d. CASE SwapFraming
  BY <1>1, <1>d DEF SwapFraming
<1> QED
  BY <1>a, <1>b, <1>c, <1>d DEF SwapStep

(* No step but the reader's own changes what the reader has in hand, and a *)
(* new framing arrives only with the last step of a reload.                *)
LEMMA OthersAlone ==
  ControlInv /\ [Next]_vars /\ ~ReaderStep =>
    /\ pc'[Reader] = pc[Reader] /\ snap'[Reader] = snap[Reader]
    /\ UNCHANGED reader_vars
    /\ framing' # framing => Moved(Reloader, "framing", "idle")
<1> SUFFICES ASSUME ControlInv, [Next]_vars, ~ReaderStep
             PROVE  /\ pc'[Reader] = pc[Reader] /\ snap'[Reader] = snap[Reader]
                    /\ UNCHANGED reader_vars
                    /\ framing' # framing => Moved(Reloader, "framing", "idle")
  OBVIOUS
<1>1. Reader \in Thread /\ Reader \notin Conn /\ Reader # Reloader
  BY PortAssumption DEF Thread
<1>2. CASE UNCHANGED vars
  BY <1>2 DEF vars
<1>3. CASE ClientRead \/ Hangup \/ \E b \in Byte : ClientSend(b)
  BY <1>3 DEF ClientRead, Hangup, ClientSend
<1>4. ASSUME NEW c \in Conn, ConnStep(c) \/ \E r \in Requests : Begin(c, r)
      PROVE  /\ pc'[Reader] = pc[Reader] /\ snap'[Reader] = snap[Reader]
             /\ UNCHANGED <<reader_vars, framing>>
  BY <1>1, <1>4, ConnAlone
<1>5. CASE SwapStep \/ \E cfg \in Config : SwapBegin(cfg)
  BY <1>1, <1>5, SwapAlone
<1> QED
  BY <1>2, <1>3, <1>4, <1>5 DEF Next

-----------------------------------------------------------------------------

(* Every step keeps StaleInv. *)
LEMMA StaleNext == ControlInv /\ StaleInv /\ [HNext]_hvars => StaleInv'
<1> SUFFICES ASSUME ControlInv, StaleInv, [HNext]_hvars PROVE StaleInv'
  OBVIOUS
<1>1. CASE UNCHANGED hvars
  BY <1>1 DEF hvars, vars, history, StaleInv
<1>2. CASE HNext /\ ~ReaderStep
  <2>1. /\ pc'[Reader] = pc[Reader] /\ spec' = spec
        /\ framing' # framing => Moved(Reloader, "framing", "idle")
    BY <1>2, OthersAlone DEF HNext
  <2> QED
    BY <1>2, <2>1 DEF HNext, ObserveFraming, Left, StaleInv
<1>3. CASE HNext /\ ReaderStep
  <2>1. Reader \in Thread /\ Reloader \in Thread /\ Reader # Reloader
    BY PortAssumption DEF Thread
  <2>2. framing' = framing /\ pc'[Reloader] = pc[Reloader]
    BY <1>3, <2>1, ReaderAlone
  <2>3. stale' = IF pc[Reader] = "append" /\ pc'[Reader] # "append" /\ spec # framing
                 THEN stale + 1 ELSE stale
    BY <1>3, <2>2 DEF HNext, ObserveFraming, Moved, Left
  <2>4. \/ spec' = framing /\ pc[Reader] = "snapshot"
        \/ pc'[Reader] = pc[Reader] /\ spec' = spec
        \/ spec' = spec /\ pc[Reader] \in {"poll", "read"} /\ pc'[Reader] \in {"read", "append"}
        \/ pc'[Reader] \notin {"poll", "read", "append"}
    <3> USE <2>1 DEF ControlInv, ControlTypeOK, AfterFrames
    <3>a. CASE Snapshot
      BY <3>a DEF Snapshot
    <3>b. CASE PollReady
      BY <3>b DEF PollReady
    <3>c. CASE PollTimeout
      BY <3>c DEF PollTimeout
    <3>d. CASE \E n \in 1..Len(input) : Read(n)
      BY <3>d DEF Read
    <3>e. CASE Eof
      BY <3>e DEF Eof
    <3>f. CASE AppendRaw
      BY <3>f DEF AppendRaw
    <3>g. CASE TakeFrame
      BY <3>g DEF TakeFrame
    <3>h. CASE MatchFrame
      BY <3>h DEF MatchFrame
    <3>i. CASE WriteByte(Reader)
      BY <3>i DEF WriteByte
    <3>j. CASE FrameAnswered
      BY <3>j DEF FrameAnswered
    <3>k. CASE PushFrame
      BY <3>k DEF PushFrame
    <3> QED
      BY <1>3, <3>a, <3>b, <3>c, <3>d, <3>e, <3>f, <3>g, <3>h, <3>i, <3>j, <3>k DEF ReaderStep
  <2> QED
    BY <2>2, <2>3, <2>4 DEF StaleInv
<1> QED
  BY <1>1, <1>2, <1>3

(* After a reload stored another framing, at most one more chunk is cut by *)
(* the old one, whatever the framings and however often they change.       *)
THEOREM StaleFramingBounded == HSpec => []StaleFramingAtMostOnce
<1>1. HInit => ControlInv /\ StaleInv
  BY ControlInit DEF HInit, StaleInv
<1>2. [HNext]_hvars => [Next]_vars
  BY DEF HNext, hvars
<1>3. StaleInv => StaleFramingAtMostOnce
  BY DEF StaleInv, StaleFramingAtMostOnce
<1> QED
  BY <1>1, <1>2, <1>3, ControlNext, StaleNext, PTL DEF HSpec

(* Every step keeps OutdatedInv. *)
LEMMA OutdatedNext == ControlInv /\ OutdatedInv /\ [HNext]_hvars => OutdatedInv'
<1> SUFFICES ASSUME ControlInv, OutdatedInv, [HNext]_hvars PROVE OutdatedInv'
  OBVIOUS
<1>1. CASE UNCHANGED hvars
  BY <1>1 DEF hvars, vars, history, OutdatedInv
<1>2. CASE HNext /\ ~ReaderStep
  <2>1. pc'[Reader] = pc[Reader] /\ snap'[Reader] = snap[Reader]
    BY <1>2, OthersAlone DEF HNext
  <2> QED
    BY <1>2, <2>1 DEF HNext, ObserveMatching, Left, OutdatedInv
<1>3. CASE HNext /\ ReaderStep
  <2>1. active' = active
    BY <1>3, ReaderAlone
  <2>2. outdated' = IF pc[Reader] = "push" /\ pc'[Reader] # "push" /\ snap[Reader] # active
                    THEN outdated + 1 ELSE outdated
    BY <1>3, <2>1 DEF HNext, ObserveMatching, Left
  <2>3. \/ snap'[Reader] = active /\ pc[Reader] = "frame"
        \/ pc'[Reader] = pc[Reader] /\ snap' = snap
        \/ /\ snap' = snap
           /\ pc[Reader] \in {"match", "write"} /\ pc'[Reader] \in {"write", "push"}
        \/ pc'[Reader] \notin {"match", "write", "push"}
    <3>1. Reader \in Thread
      BY DEF Thread
    <3> USE <3>1 DEF ControlInv, ControlTypeOK, AfterFrames
    <3>a. CASE Snapshot
      BY <3>a DEF Snapshot
    <3>b. CASE PollReady
      BY <3>b DEF PollReady
    <3>c. CASE PollTimeout
      BY <3>c DEF PollTimeout
    <3>d. CASE \E n \in 1..Len(input) : Read(n)
      BY <3>d DEF Read
    <3>e. CASE Eof
      BY <3>e DEF Eof
    <3>f. CASE AppendRaw
      BY <3>f DEF AppendRaw
    <3>g. CASE TakeFrame
      BY <3>g DEF TakeFrame
    <3>h. CASE MatchFrame
      BY <3>h DEF MatchFrame
    <3>i. CASE WriteByte(Reader)
      BY <3>i DEF WriteByte
    <3>j. CASE FrameAnswered
      BY <3>j DEF FrameAnswered, Written, WriteFailed
    <3>k. CASE PushFrame
      BY <3>k DEF PushFrame
    <3> QED
      BY <1>3, <3>a, <3>b, <3>c, <3>d, <3>e, <3>f, <3>g, <3>h, <3>i, <3>j, <3>k DEF ReaderStep
  <2> QED
    BY <2>1, <2>2, <2>3 DEF OutdatedInv
<1> QED
  BY <1>1, <1>2, <1>3

(* After `active` changed, by a switch or a reload, at most one more frame *)
(* is answered and recorded in the scenario before.                        *)
THEOREM StaleScenarioBounded == HSpec => []StaleScenarioAtMostOnce
<1>1. HInit => ControlInv /\ OutdatedInv
  BY ControlInit DEF HInit, OutdatedInv
<1>2. [HNext]_hvars => [Next]_vars
  BY DEF HNext, hvars
<1>3. OutdatedInv => StaleScenarioAtMostOnce
  BY DEF OutdatedInv, StaleScenarioAtMostOnce
<1> QED
  BY <1>1, <1>2, <1>3, ControlNext, OutdatedNext, PTL DEF HSpec

-----------------------------------------------------------------------------
(* Describing a port while it is reconfigured. *)

(* A connection answers only its own request. *)
LEMMA OnlyOwnAnswer ==
  ASSUME NEW c \in Conn, ConnStep(c) \/ \E r \in Requests : Begin(c, r), DOMAIN resp = Conn
  PROVE  \A d \in Conn \ {c} : resp'[d] = resp[d]
<1>1. ASSUME NEW status, NEW body, Respond(c, status, body)
      PROVE  \A d \in Conn \ {c} : resp'[d] = resp[d]
  BY <1>1 DEF Respond
<1>2. CASE UNCHANGED resp
  BY <1>2
<1>3. UNCHANGED resp \/ \E status, body : Respond(c, status, body)
  BY DEF Begin, ConnStep, TriggerSnapshot, TriggerLock, TriggerUnknown, WriteByte, TriggerDone,
         SwitchLookup, SwitchStore, DescribeActive, DescribeCompiled, ReadCapture, ClearCapture
<1> QED
  BY <1>1, <1>2, <1>3

(* A connection that no step moves: its configuration may change under it  *)
(* only by the step of a reload that marks it torn.                        *)
LEMMA DescribeUndisturbed ==
  ASSUME NEW c \in Conn, DescribeOf(c), ObserveDescribe, ObserveScenario,
         pc'[c] = pc[c], snap'[c] = snap[c], req'[c] = req[c], resp'[c] = resp[c],
         compiled' # compiled => Moved(Reloader, "compiled", "active")
  PROVE  DescribeOf(c)'
<1>1. torn \subseteq torn' /\ (overlapped => overlapped')
  BY DEF ObserveDescribe, ObserveScenario
<1>2. CASE compiled' = compiled
  BY <1>1, <1>2 DEF DescribeOf
<1>3. CASE compiled' # compiled
  <2>1. pc[c] = "describe" => c \in torn'
    BY <1>3 DEF ObserveDescribe, Moved
  <2> QED
    BY <1>1, <2>1 DEF DescribeOf
<1> QED
  BY <1>2, <1>3

(* The step of a connection itself.  A describe that no reload tore took   *)
(* an active scenario that was usable, and looks at the same configuration.*)
LEMMA DescribeStep ==
  ASSUME NEW c \in Conn, ControlInv, CoherenceInv, DescribeInv,
         ConnStep(c) \/ \E r \in Requests : Begin(c, r), ObserveDescribe, ObserveScenario
  PROVE  DOMAIN resp' = Conn /\ DescribeOf(c)'
<1> USE DEF ControlInv, ControlTypeOK
<1>1. Conn \subseteq Thread /\ DOMAIN resp = Conn /\ DescribeOf(c)
  BY DEF Thread, DescribeInv
<1>2. torn \subseteq torn' /\ (overlapped => overlapped') /\ compiled' = compiled
  BY ConnAlone DEF ObserveDescribe, ObserveScenario
<1>a. CASE \E r \in Requests : Begin(c, r)
  BY <1>1, <1>2, <1>a DEF Begin, DescribeOf
<1>b. CASE TriggerSnapshot(c)
  BY <1>1, <1>2, <1>b DEF TriggerSnapshot, DescribeOf
<1>c. CASE TriggerLock(c)
  BY <1>1, <1>2, <1>c DEF TriggerLock, DescribeOf
<1>d. CASE TriggerUnknown(c)
  BY <1>1, <1>2, <1>d DEF TriggerUnknown, Respond, DescribeOf
<1>e. CASE WriteByte(c)
  BY <1>1, <1>2, <1>e DEF WriteByte, DescribeOf
<1>f. CASE TriggerDone(c)
  <2>1. pc[c] = "write" /\ pc'[c] = "done" /\ req' = req
    BY <1>1, <1>f DEF TriggerDone, Written, WriteFailed, Respond
  <2>2. DOMAIN resp' = DOMAIN resp
    BY <1>f DEF TriggerDone, Respond
  <2> QED
    BY <1>1, <2>1, <2>2 DEF DescribeOf
<1>g. CASE SwitchLookup(c)
  <2>1. /\ pc'[c] \in {"store", "done"} /\ req' = req /\ req[c].op = "switch"
        /\ DOMAIN resp' = DOMAIN resp
    BY <1>1, <1>g DEF SwitchLookup, Respond
  <2> QED
    BY <1>1, <2>1 DEF DescribeOf
<1>h. CASE SwitchStore(c)
  BY <1>1, <1>2, <1>h DEF SwitchStore, Respond, DescribeOf
<1>i. CASE DescribeActive(c)
  <2>1. /\ snap'[c] = active /\ pc'[c] = "describe" /\ pc'[Reloader] = pc[Reloader]
    BY <1>1, <1>i, PortAssumption DEF DescribeActive, Thread
  <2>2. ASSUME c \notin torn', ~overlapped' PROVE active.name \in DOMAIN compiled
    <3>1. pc[Reloader] # "active"
      BY <2>1, <2>2 DEF ObserveDescribe
    <3>2. active \in Usable
      BY <1>2, <2>2, <3>1 DEF CoherenceInv, Coherence
    <3>3. PICK cfg \in Config : compiled = CompilePort(cfg)
      OBVIOUS
    <3>4. PICK n \in DOMAIN compiled : active = compiled[n]
      BY <3>2 DEF Usable
    <3>5. DOMAIN compiled = DOMAIN cfg.scenarios
      BY <3>3 DEF CompilePort
    <3>6. CompilePort(cfg)[n].name = n
      BY <3>4, <3>5, CompiledScenario
    <3> QED
      BY <3>3, <3>4, <3>6
  <2> QED
    BY <1>1, <1>2, <1>i, <2>1, <2>2 DEF DescribeActive, DescribeOf
<1>j. CASE DescribeCompiled(c)
  <2>1. /\ pc[c] = "describe" /\ pc'[c] = "done" /\ DOMAIN resp' = DOMAIN resp
        /\ resp'[c].body.active_scenario = snap[c].name
        /\ resp'[c].body.scenarios = DOMAIN compiled
    BY <1>1, <1>j DEF DescribeCompiled, Respond
  <2> QED
    BY <1>1, <1>2, <2>1 DEF DescribeOf
<1>k. CASE ReadCapture(c)
  <2>1. /\ pc'[c] = "done" /\ DOMAIN resp' = DOMAIN resp /\ req' = req
        /\ req[c].op \in {"raw", "events"}
    BY <1>1, <1>k DEF ReadCapture, Respond
  <2> QED
    BY <1>1, <2>1 DEF DescribeOf
<1>l. CASE ClearCapture(c)
  <2>1. /\ pc'[c] = "done" /\ DOMAIN resp' = DOMAIN resp /\ req' = req
        /\ req[c].op \in {"clear_raw", "clear_events"}
    BY <1>1, <1>l DEF ClearCapture, Respond
  <2> QED
    BY <1>1, <2>1 DEF DescribeOf
<1> QED
  BY <1>a, <1>b, <1>c, <1>d, <1>e, <1>f, <1>g, <1>h, <1>i, <1>j, <1>k, <1>l DEF ConnStep

(* Every step keeps DescribeInv. *)
LEMMA DescribeNext == ControlInv /\ CoherenceInv /\ DescribeInv /\ [HNext]_hvars => DescribeInv'
<1> SUFFICES ASSUME ControlInv, CoherenceInv, DescribeInv, [HNext]_hvars PROVE DescribeInv'
  OBVIOUS
<1>1. CASE UNCHANGED hvars
  BY <1>1 DEF hvars, vars, history, DescribeInv, DescribeOf
<1>2. CASE HNext
  <2>1. Next /\ ObserveDescribe /\ ObserveScenario
    BY <1>2 DEF HNext
  <2>2. Conn \subseteq Thread /\ Reader \notin Conn /\ Reloader \notin Conn
    BY PortAssumption DEF Thread
  <2>3. CASE ClientRead \/ Hangup \/ \E b \in Byte : ClientSend(b)
    <3>1. UNCHANGED <<pc, snap, conn_vars, compiled>>
      BY <2>3 DEF ClientRead, Hangup, ClientSend
    <3> QED
      BY <2>1, <3>1, DescribeUndisturbed DEF DescribeInv
  <2>4. CASE ReaderStep
    <3>1. /\ \A c \in Conn : pc'[c] = pc[c] /\ snap'[c] = snap[c]
          /\ UNCHANGED <<conn_vars, compiled>>
      BY <2>2, <2>4, ReaderAlone
    <3> QED
      BY <2>1, <3>1, DescribeUndisturbed DEF DescribeInv
  <2>5. ASSUME NEW c \in Conn, ConnStep(c) \/ \E r \in Requests : Begin(c, r)
        PROVE  DescribeInv'
    <3>1. DOMAIN resp' = Conn /\ DescribeOf(c)'
      BY <2>1, <2>5, DescribeStep
    <3>2. /\ \A d \in Conn \ {c} : pc'[d] = pc[d] /\ snap'[d] = snap[d] /\ req'[d] = req[d]
          /\ compiled' = compiled
      BY <2>2, <2>5, ConnAlone
    <3>3. \A d \in Conn \ {c} : resp'[d] = resp[d]
      BY <2>5, OnlyOwnAnswer DEF DescribeInv
    <3>4. \A d \in Conn \ {c} : DescribeOf(d)'
      BY <2>1, <3>2, <3>3, DescribeUndisturbed DEF DescribeInv
    <3> QED
      BY <3>1, <3>4 DEF DescribeInv
  <2>6. CASE SwapStep \/ \E cfg \in Config : SwapBegin(cfg)
    <3>1. /\ \A c \in Conn : pc'[c] = pc[c] /\ snap'[c] = snap[c]
          /\ UNCHANGED conn_vars
          /\ compiled' # compiled => Moved(Reloader, "compiled", "active")
      BY <2>2, <2>6, SwapAlone
    <3> QED
      BY <2>1, <3>1, DescribeUndisturbed DEF DescribeInv
  <2> QED
    BY <2>1, <2>3, <2>4, <2>5, <2>6 DEF Next
<1> QED
  BY <1>1, <1>2

(* What GET /ports/<p> calls the active scenario is one of the scenarios   *)
(* it lists, unless a reload came between its two reads or a switch and a  *)
(* reload overlapped before, for any number of requests and reloads.       *)
THEOREM DescribesConsistent == HSpec => []DescribeConsistent
<1>1. HInit => ControlInv /\ CoherenceInv /\ DescribeInv
  <2>1. HInit => ControlInv
    BY ControlInit DEF HInit
  <2>2. HInit => Coherence
    BY PortAssumption DEF HInit, Init, Coherence, Usable, Thread, CompilePort
  <2>3. HInit => DescribeInv
    BY PortAssumption DEF HInit, Init, DescribeInv, DescribeOf, Thread
  <2> QED BY <2>1, <2>2, <2>3 DEF CoherenceInv
<1>2. [HNext]_hvars => [Next]_vars
  BY DEF HNext, hvars
<1>3. DescribeInv => DescribeConsistent
  BY DEF DescribeInv, DescribeOf, DescribeConsistent
<1> QED
  BY <1>1, <1>2, <1>3, ControlNext, CoherenceNext, DescribeNext, PTL DEF HSpec
=============================================================================
