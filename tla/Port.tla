--------------------------------- MODULE Port --------------------------------
(***************************************************************************)
(* One port at run time (src/src/port.rs): the PortState that the reader   *)
(* thread, the HTTP connection threads and the reload thread share, and    *)
(* the kernel queues between the transport and its client.                 *)
(*                                                                         *)
(* `compiled`, `active` and `framing` sit behind three separate RwLocks    *)
(* and the capture behind a Mutex; each is held for one read or one write, *)
(* so each such access is one action.  The `writer` Mutex is held across   *)
(* write_all, which blocks while the client does not read: it is a         *)
(* variable of its own, with the thread that holds it.                     *)
(***************************************************************************)
EXTENDS Integers, Sequences, FiniteSets

CONSTANTS
  Reader, Reloader,      \* the reader thread and the SIGHUP thread
  Conn,                  \* HTTP connection threads, one request each
  Byte,                  \* bytes on the line
  Config,                \* the configurations of this port a reload may load
  InitialConfig,         \* the one it was spawned with
  Requests,              \* the requests clients make
  RuleMatches(_, _),     \* Matcher::matches, see module Matching
  DEFAULT_MAX_BUFFER,    \* of the framer
  MaxRaw, MaxEvents,     \* capture maxima
  WireCap,               \* bytes the kernel queues towards the client
  MaxSent,               \* bound: bytes the client sends
  MaxReloads,            \* bound: reloads
  CanHangup,             \* the device may go away (a tty, never a PTY)
  None                   \* no thread, no label, no request, no response

Thread == Conn \cup {Reader, Reloader}

ASSUME PortAssumption ==
  /\ Reader \notin Conn /\ Reloader \notin Conn /\ Reader # Reloader
  /\ None \notin Thread
  /\ InitialConfig \in Config
  /\ \A cfg \in Config : cfg.initial \in DOMAIN cfg.scenarios
  /\ {MaxRaw, MaxEvents, MaxSent, MaxReloads} \subseteq Nat
  /\ {WireCap, DEFAULT_MAX_BUFFER} \subseteq Nat \ {0}
  /\ CanHangup \in BOOLEAN

VARIABLES
  compiled,              \* PortState.compiled: scenario name -> scenario
  active,                \* PortState.active: a scenario
  framing,               \* PortState.framing: a framing specification
  raw, events, next_id,  \* PortState.capture
  writer,                \* the thread holding PortState.writer, or None
  out,                   \* what the holder has yet to write
  pc,                    \* where each thread is
  snap,                  \* the scenario each thread has read
  req, resp,             \* each connection's request and response
  spec, buf, frames,     \* reader_loop's framing snapshot, buffer and frames
  chunk, label,          \* its last read; matched_rule of the frame in hand
  new_config, reloads,   \* swap_config's arguments; reloads begun
  input, wire,           \* kernel queues: client to service, service to client
  sent,                  \* bytes the client has sent
  hungup                 \* the device went away

capture_vars == <<raw, events, next_id>>
config_vars  == <<compiled, active, framing>>
reader_vars  == <<spec, buf, frames, chunk, label>>
conn_vars    == <<req, resp>>
reload_vars  == <<new_config, reloads>>
env_vars     == <<input, sent, hungup>>
port_vars    == <<config_vars, capture_vars>>
mutex        == <<writer, out>>
outer_vars   == <<reload_vars, env_vars>>

vars == <<config_vars, capture_vars, writer, out, pc, snap, conn_vars, reader_vars,
          reload_vars, env_vars, wire>>

F == INSTANCE Framing

-----------------------------------------------------------------------------
(* Compiled configurations. *)

(* compile_port: a scenario carries its name, triggers and input rules. *)
CompilePort(cfg) ==
  [n \in DOMAIN cfg.scenarios |->
     [name     |-> n,
      triggers |-> cfg.scenarios[n].triggers,
      rules    |-> cfg.scenarios[n].rules]]

Scenario == UNION {{CompilePort(cfg)[n] : n \in DOMAIN cfg.scenarios} : cfg \in Config}

Label == UNION {{<<s.name, i>> : i \in DOMAIN s.rules} : s \in Scenario}

(* What triggers and rules may write. *)
Responses ==
  (UNION {{s.triggers[t] : t \in DOMAIN s.triggers} : s \in Scenario})
  \cup (UNION {{s.rules[i].response : i \in DOMAIN s.rules} : s \in Scenario})

ASSUME ResponsesAreBytes == Responses \subseteq Seq(Byte)

ASSUME NoneIsNoLabel == None \notin Label

(* Every configuration has passed FramingConfig::validate when a port is   *)
(* spawned or reloaded with it.                                            *)
ASSUME FramingsAreValid ==
  /\ Byte \subseteq F!Octet
  /\ \A cfg \in Config : F!WellTyped(cfg.framing) /\ F!Validate(cfg.framing)

Cap == INSTANCE Capture WITH NoLabel <- None

(* match_input_rule: the index of the first rule that matches, if any. *)
MatchInputRule(scenario, frame) ==
  {i \in DOMAIN scenario.rules :
     /\ RuleMatches(scenario.rules[i].matcher, frame)
     /\ \A j \in DOMAIN scenario.rules : RuleMatches(scenario.rules[j].matcher, frame) => i <= j}

Goto(t, where) == pc' = [pc EXCEPT ![t] = where]

Init ==
  /\ compiled = CompilePort(InitialConfig)
  /\ active = compiled[InitialConfig.initial]
  /\ framing = F!FromConfig(InitialConfig.framing)
  /\ Cap!Init
  /\ writer = None /\ out = <<>>
  /\ pc = [t \in Thread |-> IF t = Reader THEN "snapshot" ELSE "idle"]
  /\ snap = [t \in Thread |-> None]
  /\ req = [c \in Conn |-> None] /\ resp = [c \in Conn |-> None]
  /\ spec = framing /\ buf = <<>> /\ frames = <<>> /\ chunk = <<>> /\ label = None
  /\ new_config = None /\ reloads = 0
  /\ input = <<>> /\ wire = <<>> /\ sent = 0 /\ hungup = FALSE

-----------------------------------------------------------------------------
(* The writer Mutex and write_all under it. *)

Lock(t, bytes) == writer = None /\ writer' = t /\ out' = bytes

Unlock == writer' = None /\ out' = <<>>

(* A mutated WriteByte that does not wait for the client. *)
WriteByteUnbounded(t) ==
  /\ pc[t] = "write" /\ out # <<>> /\ ~hungup
  /\ wire' = Append(wire, Head(out))
  /\ out' = Tail(out)
  /\ UNCHANGED <<port_vars, writer, pc, snap, conn_vars, reader_vars, outer_vars>>

(* write_all makes progress while the kernel queue has room. *)
WriteByte(t) ==
  /\ pc[t] = "write" /\ out # <<>> /\ ~hungup
  /\ Len(wire) < WireCap
  /\ wire' = Append(wire, Head(out))
  /\ out' = Tail(out)
  /\ UNCHANGED <<port_vars, writer, pc, snap, conn_vars, reader_vars, outer_vars>>

(* write_all returned: everything written, or an error from a device that  *)
(* went away.                                                              *)
Written(t) == pc[t] = "write" /\ out = <<>>

WriteFailed(t) == pc[t] = "write" /\ out # <<>> /\ hungup

-----------------------------------------------------------------------------
(* The reader thread: reader_loop and handle_frame. *)

AfterFrames(left) == IF left = <<>> THEN "snapshot" ELSE "frame"

(* Mutated Snapshot: one that starts a new framing with an empty buffer,   *)
(* and one that takes up no other framing after the first.                 *)
SnapshotResets ==
  /\ pc[Reader] = "snapshot"
  /\ spec' = framing
  /\ buf' = IF spec' = spec THEN buf ELSE <<>>
  /\ Goto(Reader, IF spec'.idle THEN "poll" ELSE "read")
  /\ UNCHANGED <<port_vars, mutex, snap, conn_vars, frames, chunk, label, outer_vars, wire>>

SnapshotOnce ==
  /\ pc[Reader] = "snapshot"
  /\ spec' = spec
  /\ Goto(Reader, IF spec'.idle THEN "poll" ELSE "read")
  /\ UNCHANGED <<port_vars, mutex, snap, conn_vars, buf, frames, chunk, label, outer_vars,
                 wire>>

(* Top of the loop: read the framing; poll first if it has a quiet period. *)
Snapshot ==
  /\ pc[Reader] = "snapshot"
  /\ spec' = framing
  /\ Goto(Reader, IF spec'.idle THEN "poll" ELSE "read")
  /\ UNCHANGED <<port_vars, mutex, snap, conn_vars, buf, frames, chunk, label, outer_vars,
                 wire>>

PollReady ==
  /\ pc[Reader] = "poll"
  /\ input # <<>> \/ hungup
  /\ Goto(Reader, "read")
  /\ UNCHANGED <<port_vars, mutex, snap, conn_vars, reader_vars, outer_vars, wire>>

(* A mutated PollTimeout that forgets to flush. *)
PollTimeoutNoFlush ==
  /\ pc[Reader] = "poll"
  /\ input = <<>> /\ ~hungup
  /\ Goto(Reader, "snapshot")
  /\ UNCHANGED <<port_vars, mutex, snap, conn_vars, reader_vars, outer_vars, wire>>

(* A quiet gap: on_idle, then the frames it flushed, then `continue`. *)
PollTimeout ==
  LET flushed == F!OnIdle(spec, buf)
  IN  /\ pc[Reader] = "poll"
      /\ input = <<>> /\ ~hungup
      /\ frames' = flushed.frames
      /\ buf' = flushed.buf
      /\ Goto(Reader, AfterFrames(frames'))
      /\ UNCHANGED <<port_vars, mutex, snap, conn_vars, spec, chunk, label, outer_vars, wire>>

(* read() returns some of the bytes that have arrived; it blocks if none. *)
Read(n) ==
  /\ pc[Reader] = "read"
  /\ n \in 1..Len(input)
  /\ chunk' = SubSeq(input, 1, n)
  /\ input' = SubSeq(input, n + 1, Len(input))
  /\ Goto(Reader, "append")
  /\ UNCHANGED <<port_vars, mutex, snap, conn_vars, spec, buf, frames, label, reload_vars,
                 sent, hungup, wire>>

(* read() returns 0 or an error: the thread returns, and with it its buffer. *)
Eof ==
  /\ pc[Reader] = "read"
  /\ input = <<>> /\ hungup
  /\ Goto(Reader, "exited")
  /\ UNCHANGED <<port_vars, mutex, snap, conn_vars, reader_vars, outer_vars, wire>>

(* Capture the chunk, then feed the framer with the framing of this turn. *)
AppendRaw ==
  LET pushed == F!Push(spec, buf, chunk)
  IN  /\ pc[Reader] = "append"
      /\ Cap!AppendRaw(chunk)
      /\ buf' = pushed.buf
      /\ frames' = pushed.frames
      /\ chunk' = <<>>
      /\ Goto(Reader, AfterFrames(frames'))
      /\ UNCHANGED <<config_vars, mutex, snap, conn_vars, spec, label, outer_vars, wire>>

(* A mutated TakeFrame that keeps the scenario of the first frame. *)
TakeFrameOnce ==
  /\ pc[Reader] = "frame"
  /\ snap' = [snap EXCEPT ![Reader] = IF @ = None THEN active ELSE @]
  /\ Goto(Reader, "match")
  /\ UNCHANGED <<port_vars, mutex, conn_vars, reader_vars, outer_vars, wire>>

(* handle_frame: read the active scenario. *)
TakeFrame ==
  /\ pc[Reader] = "frame"
  /\ snap' = [snap EXCEPT ![Reader] = active]
  /\ Goto(Reader, "match")
  /\ UNCHANGED <<port_vars, mutex, conn_vars, reader_vars, outer_vars, wire>>

(* handle_frame: lock the writer, also when no rule will match, and match; *)
(* without a match the lock is released at once.                           *)
MatchFrame ==
  LET matching == MatchInputRule(snap[Reader], Head(frames))
  IN  /\ pc[Reader] = "match"
      /\ \/ /\ matching = {}
            /\ writer = None
            /\ label' = None
            /\ Goto(Reader, "push")
            /\ UNCHANGED <<mutex>>
         \/ \E i \in matching :
              /\ Lock(Reader, snap[Reader].rules[i].response)
              /\ label' = <<snap[Reader].name, i>>
              /\ Goto(Reader, "write")
      /\ UNCHANGED <<port_vars, snap, conn_vars, spec, buf, frames, chunk, outer_vars, wire>>

(* Mutated FrameAnswered: one that records no label when the write failed, *)
(* and one that leaves the Mutex locked then.                              *)
FrameAnsweredNoLabel ==
  /\ Written(Reader) \/ WriteFailed(Reader)
  /\ Unlock
  /\ label' = IF Written(Reader) THEN label ELSE None
  /\ Goto(Reader, "push")
  /\ UNCHANGED <<port_vars, snap, conn_vars, spec, buf, frames, chunk, outer_vars, wire>>

FrameAnsweredLocked ==
  /\ Written(Reader) \/ WriteFailed(Reader)
  /\ Goto(Reader, "push")
  /\ UNCHANGED <<port_vars, mutex, snap, conn_vars, reader_vars, outer_vars, wire>>

(* The response is out, or the write failed: the label is kept either way. *)
FrameAnswered ==
  /\ Written(Reader) \/ WriteFailed(Reader)
  /\ Unlock
  /\ Goto(Reader, "push")
  /\ UNCHANGED <<port_vars, snap, conn_vars, reader_vars, outer_vars, wire>>

(* handle_frame: record the event, then the next frame of this turn. *)
PushFrame ==
  /\ pc[Reader] = "push"
  /\ Cap!PushEvent(Head(frames), label)
  /\ frames' = Tail(frames)
  /\ label' = None
  /\ Goto(Reader, AfterFrames(frames'))
  /\ UNCHANGED <<config_vars, mutex, snap, conn_vars, spec, buf, chunk, outer_vars, wire>>

ReaderStep ==
  \/ Snapshot \/ PollReady \/ PollTimeout
  \/ \E n \in 1..Len(input) : Read(n)
  \/ Eof \/ AppendRaw \/ TakeFrame \/ MatchFrame
  \/ WriteByte(Reader) \/ FrameAnswered \/ PushFrame

-----------------------------------------------------------------------------
(* HTTP connection threads. *)

Respond(c, status, body) ==
  /\ resp' = [resp EXCEPT ![c] = [status |-> status, body |-> body]]
  /\ Goto(c, "done")

(* A request arrives on a new connection, which serves no other. *)
Begin(c, r) ==
  /\ pc[c] = "idle"
  /\ req' = [req EXCEPT ![c] = r]
  /\ Goto(c, "begun")
  /\ UNCHANGED <<port_vars, mutex, snap, resp, reader_vars, outer_vars, wire>>

(* fire_trigger: read the active scenario. *)
TriggerSnapshot(c) ==
  /\ pc[c] = "begun" /\ req[c].op = "trigger"
  /\ snap' = [snap EXCEPT ![c] = active]
  /\ Goto(c, "lock")
  /\ UNCHANGED <<port_vars, mutex, conn_vars, reader_vars, outer_vars, wire>>

(* A mutated TriggerLock that does not take the writer Mutex. *)
TriggerLockNoMutex(c) ==
  /\ pc[c] = "lock"
  /\ req[c].name \in DOMAIN snap[c].triggers
  /\ writer' = c /\ out' = snap[c].triggers[req[c].name]
  /\ Goto(c, "write")
  /\ UNCHANGED <<port_vars, snap, conn_vars, reader_vars, outer_vars, wire>>

(* fire_trigger: lock the writer and look the trigger up. *)
TriggerLock(c) ==
  /\ pc[c] = "lock"
  /\ req[c].name \in DOMAIN snap[c].triggers
  /\ Lock(c, snap[c].triggers[req[c].name])
  /\ Goto(c, "write")
  /\ UNCHANGED <<port_vars, snap, conn_vars, reader_vars, outer_vars, wire>>

(* The lock is taken, and released again, for an unknown trigger too. *)
TriggerUnknown(c) ==
  /\ pc[c] = "lock"
  /\ req[c].name \notin DOMAIN snap[c].triggers
  /\ writer = None
  /\ Respond(c, 404, [error |-> "unknown trigger"])
  /\ UNCHANGED <<port_vars, mutex, snap, req, reader_vars, outer_vars, wire>>

TriggerDone(c) ==
  /\ Written(c) \/ WriteFailed(c)
  /\ Unlock
  /\ IF Written(c)
     THEN Respond(c, 200, [frame |-> snap[c].triggers[req[c].name]])
     ELSE Respond(c, 404, [error |-> "write master"])
  /\ UNCHANGED <<port_vars, snap, req, reader_vars, outer_vars, wire>>

(* switch_scenario: look the name up in `compiled`, releasing that lock. *)
SwitchLookup(c) ==
  /\ pc[c] = "begun" /\ req[c].op = "switch"
  /\ IF req[c].name \in DOMAIN compiled
     THEN /\ snap' = [snap EXCEPT ![c] = compiled[req[c].name]]
          /\ Goto(c, "store")
          /\ UNCHANGED resp
     ELSE /\ Respond(c, 404, [error |-> "unknown scenario"])
          /\ UNCHANGED snap
  /\ UNCHANGED <<port_vars, mutex, req, reader_vars, outer_vars, wire>>

(* switch_scenario: then store what was found in `active`. *)
SwitchStore(c) ==
  /\ pc[c] = "store"
  /\ active' = snap[c]
  /\ Respond(c, 200, [active_scenario |-> req[c].name])
  /\ UNCHANGED <<compiled, framing, capture_vars, mutex, snap, req, reader_vars, outer_vars,
                 wire>>

(* port_detail_json reads `active`, releases it, then reads `compiled`. *)
DescribeActive(c) ==
  /\ pc[c] = "begun" /\ req[c].op = "describe"
  /\ snap' = [snap EXCEPT ![c] = active]
  /\ Goto(c, "describe")
  /\ UNCHANGED <<port_vars, mutex, conn_vars, reader_vars, outer_vars, wire>>

DescribeCompiled(c) ==
  /\ pc[c] = "describe"
  /\ Respond(c, 200, [active_scenario  |-> snap[c].name,
                      scenarios        |-> DOMAIN compiled,
                      triggers         |-> DOMAIN snap[c].triggers,
                      input_rule_count |-> Len(snap[c].rules)])
  /\ UNCHANGED <<port_vars, mutex, snap, req, reader_vars, outer_vars, wire>>

(* A mutated ReadCapture that takes the writer Mutex as well. *)
ReadCaptureLocking(c) ==
  /\ pc[c] = "begun"
  /\ writer = None
  /\ \/ req[c].op = "raw" /\ Respond(c, 200, [raw |-> raw])
     \/ req[c].op = "events" /\ Respond(c, 200, [events |-> Cap!EventsSince(req[c].since)])
  /\ UNCHANGED <<port_vars, mutex, snap, req, reader_vars, outer_vars, wire>>

(* capture_raw and capture_events copy under the capture Mutex. *)
ReadCapture(c) ==
  /\ pc[c] = "begun"
  /\ \/ req[c].op = "raw" /\ Respond(c, 200, [raw |-> raw])
     \/ req[c].op = "events" /\ Respond(c, 200, [events |-> Cap!EventsSince(req[c].since)])
  /\ UNCHANGED <<port_vars, mutex, snap, req, reader_vars, outer_vars, wire>>

ClearCapture(c) ==
  /\ pc[c] = "begun"
  /\ \/ req[c].op = "clear_raw" /\ Cap!ClearRaw
     \/ req[c].op = "clear_events" /\ Cap!ClearEvents
  /\ Respond(c, 200, [ok |-> TRUE])
  /\ UNCHANGED <<config_vars, mutex, snap, req, reader_vars, outer_vars, wire>>

ConnStep(c) ==
  \/ TriggerSnapshot(c) \/ TriggerLock(c) \/ TriggerUnknown(c) \/ WriteByte(c) \/ TriggerDone(c)
  \/ SwitchLookup(c) \/ SwitchStore(c)
  \/ DescribeActive(c) \/ DescribeCompiled(c)
  \/ ReadCapture(c) \/ ClearCapture(c)

-----------------------------------------------------------------------------
(* The reload thread: swap_config. *)

(* Mutated Carried: one that always goes back to the initial scenario, and *)
(* one that looks the name up in what is about to be replaced.             *)
CarriedInitial(cfg, name) == CompilePort(cfg)[cfg.initial]

CarriedOld(cfg, name) == compiled[IF name \in DOMAIN compiled THEN name ELSE cfg.initial]

(* The scenario to activate: the one of the same name, else the initial. *)
Carried(cfg, name) ==
  CompilePort(cfg)[IF name \in DOMAIN cfg.scenarios THEN name ELSE cfg.initial]

(* Read the name of the active scenario and choose its successor. *)
SwapBegin(cfg) ==
  /\ pc[Reloader] = "idle" /\ reloads < MaxReloads
  /\ reloads' = reloads + 1
  /\ new_config' = cfg
  /\ snap' = [snap EXCEPT ![Reloader] = Carried(cfg, active.name)]
  /\ Goto(Reloader, "compiled")
  /\ UNCHANGED <<port_vars, mutex, conn_vars, reader_vars, env_vars, wire>>

SwapCompiled ==
  /\ pc[Reloader] = "compiled"
  /\ compiled' = CompilePort(new_config)
  /\ Goto(Reloader, "active")
  /\ UNCHANGED <<active, framing, capture_vars, mutex, snap, conn_vars, reader_vars,
                 outer_vars, wire>>

SwapActive ==
  /\ pc[Reloader] = "active"
  /\ active' = snap[Reloader]
  /\ Goto(Reloader, "framing")
  /\ UNCHANGED <<compiled, framing, capture_vars, mutex, snap, conn_vars, reader_vars,
                 outer_vars, wire>>

SwapFraming ==
  /\ pc[Reloader] = "framing"
  /\ framing' = F!FromConfig(new_config.framing)
  /\ Goto(Reloader, "idle")
  /\ UNCHANGED <<compiled, active, capture_vars, mutex, snap, conn_vars, reader_vars,
                 outer_vars, wire>>

SwapStep == SwapCompiled \/ SwapActive \/ SwapFraming

-----------------------------------------------------------------------------
(* The client of the line, and the device. *)

ClientSend(b) ==
  /\ sent < MaxSent /\ ~hungup
  /\ input' = Append(input, b)
  /\ sent' = sent + 1
  /\ UNCHANGED <<port_vars, mutex, pc, snap, conn_vars, reader_vars, reload_vars, hungup, wire>>

ClientRead ==
  /\ wire # <<>>
  /\ wire' = Tail(wire)
  /\ UNCHANGED <<port_vars, mutex, pc, snap, conn_vars, reader_vars, outer_vars>>

(* The tty goes away, with or without the bytes still queued. *)
Hangup ==
  /\ CanHangup /\ ~hungup
  /\ hungup' = TRUE
  /\ input' \in {input, <<>>}
  /\ UNCHANGED <<port_vars, mutex, pc, snap, conn_vars, reader_vars, reload_vars, sent, wire>>

Next ==
  \/ ReaderStep
  \/ \E c \in Conn : ConnStep(c) \/ \E r \in Requests : Begin(c, r)
  \/ SwapStep
  \/ \E cfg \in Config : SwapBegin(cfg)
  \/ \E b \in Byte : ClientSend(b)
  \/ ClientRead
  \/ Hangup

Spec == Init /\ [][Next]_vars

(* The operating system schedules every thread that can run, hands over    *)
(* the writer Mutex when it is free, and fires the poll deadline.  Nothing *)
(* makes a client send, read, ask or reload.                               *)
Fairness ==
  /\ WF_vars(ReaderStep)
  /\ \A c \in Conn : WF_vars(ConnStep(c))
  /\ WF_vars(SwapStep)

FairSpec == Spec /\ Fairness

(* A step that takes a thread from one place to another, and one with      *)
(* which the reader leaves a place.                                        *)
Moved(t, from, to) == pc[t] = from /\ pc'[t] = to

Left(place) == pc[Reader] = place /\ pc'[Reader] # place

-----------------------------------------------------------------------------

ReaderPlaces == {"snapshot", "poll", "read", "append", "frame", "match", "write", "push",
                 "exited"}
ConnPlaces   == {"idle", "begun", "lock", "write", "store", "describe", "done"}
SwapPlaces   == {"idle", "compiled", "active", "framing"}

(* The threads, what they share and what each has read of it. *)
ControlTypeOK ==
  /\ compiled \in {CompilePort(cfg) : cfg \in Config}
  /\ active \in Scenario
  /\ framing \in {F!FromConfig(cfg.framing) : cfg \in Config}
  /\ spec \in {F!FromConfig(cfg.framing) : cfg \in Config}
  /\ writer \in Thread \cup {None}
  /\ pc \in [Thread -> ReaderPlaces \cup ConnPlaces \cup SwapPlaces]
  /\ pc[Reader] \in ReaderPlaces /\ pc[Reloader] \in SwapPlaces
  /\ \A c \in Conn : pc[c] \in ConnPlaces
  /\ snap \in [Thread -> Scenario \cup {None}]
  /\ req \in [Conn -> Requests \cup {None}]
  /\ new_config \in Config \cup {None} /\ reloads \in 0..MaxReloads

(* The bytes and events in every buffer. *)
DataTypeOK ==
  /\ Cap!TypeOK
  /\ \A c \in Conn : resp[c] # None => resp[c].status \in {200, 404}
  /\ buf \in Seq(Byte) /\ chunk \in Seq(Byte) /\ frames \in Seq(Seq(Byte))
  /\ label \in Label \cup {None}
  /\ input \in Seq(Byte) /\ wire \in Seq(Byte) /\ out \in Seq(Byte)
  /\ Len(wire) <= WireCap
  /\ sent \in 0..MaxSent /\ hungup \in BOOLEAN

TypeOK == ControlTypeOK /\ DataTypeOK

(* The writer Mutex has exactly the thread inside write_all as its holder, *)
(* and no byte is left to write while nobody holds it.                     *)
WriterHeld ==
  /\ \A t \in Thread : pc[t] = "write" <=> writer = t
  /\ writer = None => out = <<>>

-----------------------------------------------------------------------------

(* Requests that do not write to the line are answered even while the      *)
(* client never reads and a writer sits in write_all for ever: capture,    *)
(* describe and switch take no part in the writer Mutex.                   *)
OffLine == {"raw", "clear_raw", "events", "clear_events", "describe", "switch"}

CaptureNeverBlocked ==
  \A c \in Conn :
    (pc[c] = "begun" /\ req[c].op \in OffLine) ~> pc[c] = "done"

(* A client that keeps reading what the service writes. *)
ClientDrains == WF_vars(ClientRead)

(* With a client that reads, every request is answered, every byte that    *)
(* arrives is read, and every frame is answered and recorded.              *)
LineServed ==
  ClientDrains =>
    /\ \A c \in Conn : pc[c] = "begun" ~> pc[c] = "done"
    /\ input # <<>> ~> input = <<>>
    /\ frames # <<>> ~> frames = <<>>

(* Under idle-timeout framing, with a client that reads, bytes do not stay *)
(* in the buffer: "emit a frame after `quiet_ms` of silence" (README,      *)
(* framing strategies).  A device that goes away and another change of the *)
(* framing release the reader from that promise.                           *)
IdleBytesFlushed ==
  ClientDrains =>
    (framing.idle /\ pc[Reloader] = "idle" /\ buf # <<>>)
      ~> (buf = <<>> \/ hungup \/ ~framing.idle)
=============================================================================
